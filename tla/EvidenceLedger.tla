---------------------------- MODULE EvidenceLedger ----------------------------
(***************************************************************************)
(* EvidenceLedger.append (ledger.py) used by several processes on one      *)
(* file.  append() is two steps for the rest of the world: it reads the    *)
(* whole file and computes an entry, then it opens the file again for      *)
(* appending and writes one line.  Nothing is locked in between.           *)
(*                                                                         *)
(* A process can stop between the two steps, or in the middle of the       *)
(* write (a kill, a full disk): part of the line, or the line without its  *)
(* newline, stays in the file.  The runners (campaign.py, verifier.py)     *)
(* empty the file before they use it: Rebuild.                             *)
(***************************************************************************)
EXTENDS LedgerFile

CONSTANTS
    Writers,    \* processes that append to the file
    MaxLines    \* bound: no append starts on a file with this many lines, or
                \* whose last hash already stands for this many links

VARIABLES
    file,       \* the lines of the file
    writer,     \* per process: where it is inside append()
    intact,     \* history: no write since the last rebuild was torn, glued, or
                \* differed from what a write that ran alone would have been
    returned    \* history: events whose append() returned since the last rebuild

vars == <<file, writer, intact, returned>>

Idle == [pc |-> "idle"]

Appending == [pc : {"write"}, entry : LedgerEntry]

TypeOK ==
    /\ file \in Seq(Line)
    /\ writer \in [Writers -> Appending \cup {Idle}]
    /\ intact \in BOOLEAN
    /\ returned \in Seq(Event)

Init ==
    /\ file = <<>>
    /\ writer = [w \in Writers |-> Idle]
    /\ intact = TRUE
    /\ returned = <<>>

\* append(), up to the open: read the entries, compute the new one.
ReadAndCompute(w, kind, payload) ==
    /\ writer[w] = Idle
    /\ Readable(file)
    /\ Len(file) < MaxLines /\ Len(LastHash(Entries(file))) < MaxLines
    /\ writer' = [writer EXCEPT ![w] =
            [pc |-> "write", entry |-> NewEntry(Entries(file), kind, payload)]]
    /\ UNCHANGED <<file, intact, returned>>

\* The entry is the one a write that ran alone would make now.
Timely(entry) ==
    /\ Readable(file)
    /\ entry.sequence = Len(file) + 1
    /\ entry.previous_hash = LastHash(Entries(file))

\* append(), the write: one line behind whatever is there by now.
WriteLine(w) ==
    /\ writer[w] # Idle
    /\ file' = AddText(file, writer[w].entry, TRUE)
    /\ intact' = (intact /\ ~Glued(file) /\ Timely(writer[w].entry))
    /\ returned' = Append(returned, EventOf(writer[w].entry))
    /\ writer' = [writer EXCEPT ![w] = Idle]

\* The process stops before the write reaches the file.
StopBeforeWrite(w) ==
    /\ writer[w] # Idle
    /\ writer' = [writer EXCEPT ![w] = Idle]
    /\ UNCHANGED <<file, intact, returned>>

\* The process stops in the write: only the newline is missing.
LoseNewline(w) ==
    /\ writer[w] # Idle
    /\ file' = AddText(file, writer[w].entry, FALSE)
    /\ intact' = (intact /\ ~Glued(file) /\ Timely(writer[w].entry))
    /\ writer' = [writer EXCEPT ![w] = Idle]
    /\ UNCHANGED returned

\* The process stops in the write: the JSON text is cut.
TearLine(w) ==
    /\ writer[w] # Idle
    /\ file' = AddText(file, Garbage, FALSE)
    /\ intact' = FALSE
    /\ writer' = [writer EXCEPT ![w] = Idle]
    /\ UNCHANGED returned

\* A runner that starts on this path empties the file.
Rebuild(w) ==
    /\ writer[w] = Idle
    /\ file' = <<>>
    /\ intact' = TRUE
    /\ returned' = <<>>
    /\ UNCHANGED writer

Next ==
    \E w \in Writers :
        \/ \E k \in Kinds, p \in Payloads : ReadAndCompute(w, k, p)
        \/ WriteLine(w)
        \/ StopBeforeWrite(w)
        \/ LoseNewline(w)
        \/ TearLine(w)
        \/ Rebuild(w)

Spec == Init /\ [][Next]_vars

-------------------------------------------------------------------------------
(* verify() draws the line exactly where it should: it accepts the file as
   long as every write was whole and followed what was there when it landed,
   and refuses it from the first race or torn write on (ledger.py, verify). *)
VerifyIsExact == Verifies(file) <=> intact

(* A file verify() accepts holds every event whose append() returned, once and
   in the order of the returns, whoever wrote it; at most one more event
   follows, the one whose writer stopped before its newline (ledger.py, the
   open mode "a" and the link checks). *)
NoReturnedEventLost ==
    Verifies(file) =>
        \/ returned = Events(file)
        \/ /\ Glued(file)
           /\ returned = SubSeq(Events(file), 1, Len(file) - 1)

(* Read through verify(), the file is a log that grows only at its end and
   that no later append repairs once it broke. *)
Log == INSTANCE VerifiableLog WITH
            log     <- IF Verifies(file) THEN Events(file) ELSE <<>>,
            trusted <- Verifies(file)

ImplementsVerifiableLog == Log!Spec
===============================================================================
