----------------------------- MODULE VerifiableLog -----------------------------
(***************************************************************************)
(* What an evidence ledger promises to whoever reads it through verify():  *)
(* a trusted log grows at its end, one event at a time; once it is broken  *)
(* nothing short of starting it again makes it trusted.                    *)
(***************************************************************************)
EXTENDS Sequences

CONSTANT Event

VARIABLES log, trusted

vars == <<log, trusted>>

TypeOK ==
    /\ log \in Seq(Event)
    /\ trusted \in BOOLEAN

Init ==
    /\ log = <<>>
    /\ trusted = TRUE

Record(e) ==
    /\ trusted
    /\ log' = Append(log, e)
    /\ UNCHANGED trusted

\* The events of a broken log are no longer evidence.
Break ==
    /\ trusted
    /\ trusted' = FALSE
    /\ log' = <<>>

StartAgain ==
    /\ trusted' = TRUE
    /\ log' = <<>>

Next == (\E e \in Event : Record(e)) \/ Break \/ StartAgain

Spec == Init /\ [][Next]_vars
================================================================================
