---------------------------- MODULE MCRunArtifacts ----------------------------
(* Small instances of RunArtifacts for TLC: two campaigns and a verification,
   with one or two candidates. *)
EXTENDS RunArtifacts

CONSTANTS r1, r2, r3, c1, c2, c3

MCRunner == [r \in Runs |-> IF r = r2 THEN "verification" ELSE "campaign"]

MCRanked == [r \in Runs |->
    CASE r = r1 -> <<c1, c2>> [] r = r2 -> <<c3>> [] OTHER -> <<>>]

MCKinds == {"campaign-start", "candidate", "verification-start", "verified-candidate"}

MCPayloads == {"campaign" :> r : r \in Runs} \cup {"id" :> c : c \in {c1, c2, c3}}
===============================================================================
