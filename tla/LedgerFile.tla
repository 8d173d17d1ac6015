------------------------------ MODULE LedgerFile ------------------------------
(***************************************************************************)
(* The evidence ledger's file format and the pure part of the class        *)
(* EvidenceLedger (ledger.py): what a line is, how an entry is computed    *)
(* from the entries that precede it, and what verify() accepts.            *)
(*                                                                         *)
(* Abstractions.  SHA-256 is an injective hash: the hash of an entry is    *)
(* its predecessor's hash extended with the fields the entry adds, and     *)
(* ZERO_HASH is the empty sequence.  A line is one JSON entry or Garbage   *)
(* (any text json.loads refuses).  Kind and timestamp are opaque and only  *)
(* ever copied, so one value, kind, stands for both.  Payloads are         *)
(* one-level dictionaries, as in every append of campaign.py and           *)
(* verifier.py.                                                            *)
(***************************************************************************)
EXTENDS Naturals, Sequences

CONSTANTS
    Kinds,      \* kinds (with timestamps) that callers append
    Payloads,   \* payload dictionaries that callers append
    SECRET_KEYS,
    Garbage     \* the text of a line that does not parse

ZERO_HASH == <<>>

Redact(payload) ==
    [k \in DOMAIN payload |-> IF k \in SECRET_KEYS THEN "[REDACTED]" ELSE payload[k]]

CleanPayload == {Redact(p) : p \in Payloads}

\* What an entry adds to the hash of its predecessor.
Body == [sequence : Nat, kind : Kinds, payload : CleanPayload]

\* A faulty EntryHash: the payload is not part of what is hashed.
HashWithoutPayload(previous_hash, sequence, kind, payload) ==
    Append(previous_hash, [sequence |-> sequence, kind |-> kind])

EntryHash(previous_hash, sequence, kind, payload) ==
    Append(previous_hash, [sequence |-> sequence, kind |-> kind, payload |-> payload])

LedgerEntry ==
    [sequence : Nat, kind : Kinds, payload : CleanPayload,
     previous_hash : Seq(Body), entry_hash : Seq(Body)]

ASSUME GarbageIsNoEntry == Garbage \notin LedgerEntry

\* A line of the file; only the last one can lack its newline.
Line == [text : LedgerEntry \cup {Garbage}, ended : BOOLEAN]

LastHash(previous) ==
    IF previous = <<>> THEN ZERO_HASH ELSE previous[Len(previous)].entry_hash

\* A faulty NewEntry: the payload is stored as it came.
UnredactedEntry(previous, kind, payload) ==
    [sequence      |-> Len(previous) + 1,
     kind          |-> kind,
     payload       |-> payload,
     previous_hash |-> LastHash(previous),
     entry_hash    |-> EntryHash(LastHash(previous), Len(previous) + 1, kind, payload)]

\* A faulty NewEntry: the hash is taken before the payload is redacted.
HashedThenRedacted(previous, kind, payload) ==
    [sequence      |-> Len(previous) + 1,
     kind          |-> kind,
     payload       |-> Redact(payload),
     previous_hash |-> LastHash(previous),
     entry_hash    |-> EntryHash(LastHash(previous), Len(previous) + 1, kind, payload)]

\* The entry append() computes after reading the entries previous.
NewEntry(previous, kind, payload) ==
    [sequence      |-> Len(previous) + 1,
     kind          |-> kind,
     payload       |-> Redact(payload),
     previous_hash |-> LastHash(previous),
     entry_hash    |-> EntryHash(LastHash(previous), Len(previous) + 1, kind, Redact(payload))]

\* Opened with "a", the text lands behind whatever the file ends with: on a
\* line that was left without its newline the two texts become one.
Glued(file) == file # <<>> /\ ~file[Len(file)].ended

\* A faulty AddText: the text lands where the entry belongs that it was
\* computed for, over what is there by now.
TextAtComputedPlace(file, text, ended) ==
    IF text = Garbage \/ Glued(file)
    THEN Append(file, [text |-> Garbage, ended |-> ended])
    ELSE Append(SubSeq(file, 1, text.sequence - 1), [text |-> text, ended |-> ended])

AddText(file, text, ended) ==
    IF Glued(file)
    THEN [file EXCEPT ![Len(file)] = [text |-> Garbage, ended |-> ended]]
    ELSE Append(file, [text |-> text, ended |-> ended])

\* entries() raises on the first line that does not parse.
Readable(file) == \A i \in 1..Len(file) : file[i].text # Garbage

Entries(file) == [i \in 1..Len(file) |-> file[i].text]

\* One turn of verify()'s loop, for the entry at position i.
LinkHolds(entries, i) ==
    LET e == entries[i] IN
    /\ e.sequence = i
    /\ e.previous_hash = (IF i = 1 THEN ZERO_HASH ELSE entries[i - 1].entry_hash)
    /\ e.entry_hash = EntryHash(e.previous_hash, e.sequence, e.kind, e.payload)

\* A faulty Verifies: only the last link is looked at.
LastLinkVerifies(file) ==
    Readable(file) /\ (file = <<>> \/ LinkHolds(Entries(file), Len(file)))

\* verify() returns True.
Verifies(file) ==
    /\ Readable(file)
    /\ \A i \in 1..Len(file) : LinkHolds(Entries(file), i)

\* The recorded events, without the chain.
Event == [kind : Kinds, payload : CleanPayload]

EventOf(entry) == [kind |-> entry.kind, payload |-> entry.payload]

Events(file) == [i \in 1..Len(file) |-> EventOf(file[i].text)]
===============================================================================
