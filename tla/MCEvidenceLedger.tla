--------------------------- MODULE MCEvidenceLedger ---------------------------
(* Small instances of EvidenceLedger for TLC. *)
EXTENDS EvidenceLedger, TLC

\* One payload with a key that redact() masks, one without.
MCPayloads ==
    {("status" :> "200"), ("status" :> "200") @@ ("token" :> "s3cr3t")}

MCSecretKeys == {"token", "authorization"}

WriterSymmetry == Permutations(Writers)
===============================================================================
