--------------------------- MODULE LedgerFileProofs ---------------------------
(***************************************************************************)
(* Lemmas about the operators of LedgerFile: what one write does to a file *)
(* and to verify()'s verdict on it.                                        *)
(***************************************************************************)
EXTENDS LedgerFile, SequenceTheorems, TLAPS

(* The ledger entry a new append computes is well formed when the entries it
   read were (ledger.py, append). *)
LEMMA NewEntryType ==
    ASSUME NEW previous \in Seq(LedgerEntry), NEW k \in Kinds, NEW p \in Payloads
    PROVE  /\ NewEntry(previous, k, p) \in LedgerEntry
           /\ NewEntry(previous, k, p).entry_hash =
                EntryHash(NewEntry(previous, k, p).previous_hash,
                          NewEntry(previous, k, p).sequence,
                          NewEntry(previous, k, p).kind,
                          NewEntry(previous, k, p).payload)
<1> DEFINE e == NewEntry(previous, k, p)
<1>1. Redact(p) \in CleanPayload
    BY DEF CleanPayload
<1>2. LastHash(previous) \in Seq(Body)
    <2>1. CASE previous = <<>>
        BY <2>1 DEF LastHash, ZERO_HASH
    <2>2. CASE previous # <<>>
        <3>1. Len(previous) \in 1..Len(previous)
            BY <2>2
        <3>2. previous[Len(previous)] \in LedgerEntry
            BY <3>1
        <3>3. QED
            BY <2>2, <3>2 DEF LastHash, LedgerEntry
    <2>3. QED
        BY <2>1, <2>2
<1>3. /\ e.sequence = Len(previous) + 1 /\ e.kind = k /\ e.payload = Redact(p)
      /\ e.previous_hash = LastHash(previous)
      /\ e.entry_hash = EntryHash(LastHash(previous), Len(previous) + 1, k, Redact(p))
    BY DEF NewEntry
<1>4. Len(previous) + 1 \in Nat
    OBVIOUS
<1>5. [sequence |-> Len(previous) + 1, kind |-> k, payload |-> Redact(p)] \in Body
    BY <1>1, <1>4 DEF Body
<1>6. EntryHash(LastHash(previous), Len(previous) + 1, k, Redact(p)) \in Seq(Body)
    BY <1>2, <1>5 DEF EntryHash
<1>7. e \in LedgerEntry
    BY <1>1, <1>2, <1>4, <1>6 DEF NewEntry, LedgerEntry
<1>8. QED
    BY <1>3, <1>7

(* The entries of a readable file are ledger entries (ledger.py, entries). *)
LEMMA EntriesType ==
    ASSUME NEW file \in Seq(Line), Readable(file)
    PROVE  Entries(file) \in Seq(LedgerEntry) /\ Len(Entries(file)) = Len(file)
<1>1. Len(file) \in Nat
    OBVIOUS
<1>2. \A i \in 1..Len(file) : file[i] \in Line
    OBVIOUS
<1>3. \A i \in 1..Len(file) : file[i].text \in LedgerEntry
    BY <1>2 DEF Readable, Line
<1>4. Entries(file) \in [1..Len(file) -> LedgerEntry]
    BY <1>3 DEF Entries
<1>5. QED
    BY <1>1, <1>4

(* A write leaves a file of lines (ledger.py, the write of append). *)
LEMMA AddTextType ==
    ASSUME NEW file \in Seq(Line), NEW text \in LedgerEntry \cup {Garbage},
           NEW ended \in BOOLEAN
    PROVE  /\ AddText(file, text, ended) \in Seq(Line)
           /\ AddText(file, text, ended) # <<>>
<1>1. [text |-> text, ended |-> ended] \in Line
    BY DEF Line
<1>2. [text |-> Garbage, ended |-> ended] \in Line
    BY DEF Line
<1>3. CASE Glued(file)
    <2>1. Len(file) \in 1..Len(file)
        BY <1>3 DEF Glued
    <2>2. AddText(file, text, ended) =
            [file EXCEPT ![Len(file)] = [text |-> Garbage, ended |-> ended]]
        BY <1>3 DEF AddText
    <2>3. QED
        BY <1>2, <2>1, <2>2, ExceptSeq
<1>4. CASE ~Glued(file)
    BY <1>1, <1>4 DEF AddText
<1>5. QED
    BY <1>3, <1>4

(* What a write does to a file whose last line is complete: every old line
   stays, the new one follows (ledger.py, the open mode "a"). *)
LEMMA UngluedWrite ==
    ASSUME NEW file \in Seq(Line), NEW text \in LedgerEntry \cup {Garbage},
           NEW ended \in BOOLEAN, ~Glued(file)
    PROVE  /\ Len(AddText(file, text, ended)) = Len(file) + 1
           /\ \A i \in 1..Len(file) : AddText(file, text, ended)[i] = file[i]
           /\ AddText(file, text, ended)[Len(file) + 1].text = text
           /\ AddText(file, text, ended)[Len(file) + 1].ended = ended
<1>1. [text |-> text, ended |-> ended] \in Line
    BY DEF Line
<1>2. AddText(file, text, ended) = Append(file, [text |-> text, ended |-> ended])
    BY DEF AddText
<1>3. QED
    BY <1>1, <1>2, AppendProperties

(* Text that follows an unfinished line, or that is itself cut, makes the file
   unreadable: verify() refuses it (ledger.py, entries and verify). *)
LEMMA GarbageBreaks ==
    ASSUME NEW file \in Seq(Line), NEW text \in LedgerEntry \cup {Garbage},
           NEW ended \in BOOLEAN, Glued(file) \/ text = Garbage
    PROVE  ~Readable(AddText(file, text, ended))
<1>1. CASE Glued(file)
    <2> DEFINE new == [file EXCEPT ![Len(file)] = [text |-> Garbage, ended |-> ended]]
    <2>1. Len(file) \in 1..Len(file)
        BY <1>1 DEF Glued
    <2>2. AddText(file, text, ended) = new
        BY <1>1 DEF AddText
    <2>3. [text |-> Garbage, ended |-> ended] \in Line
        BY DEF Line
    <2>4. Len(new) = Len(file) /\ new[Len(file)] = [text |-> Garbage, ended |-> ended]
        BY <2>1, <2>3, ExceptSeq
    <2>5. QED
        BY <2>1, <2>2, <2>4 DEF Readable
<1>2. CASE ~Glued(file)
    <2>1. text = Garbage
        BY <1>2
    <2>2. Len(file) + 1 \in 1..Len(AddText(file, text, ended))
        BY <1>2, UngluedWrite
    <2>3. AddText(file, text, ended)[Len(file) + 1].text = text
        BY <1>2, UngluedWrite
    <2>4. QED
        BY <2>1, <2>2, <2>3 DEF Readable
<1>3. QED
    BY <1>1, <1>2

(* verify() accepts a file with one more whole line exactly when it accepted
   the file before and the new entry is linked to its end (ledger.py, verify). *)
LEMMA VerifiesWrite ==
    ASSUME NEW file \in Seq(Line), NEW e \in LedgerEntry,
           NEW ended \in BOOLEAN, ~Glued(file)
    PROVE  Verifies(AddText(file, e, ended)) <=>
            /\ Verifies(file)
            /\ e.sequence = Len(file) + 1
            /\ e.previous_hash = LastHash(Entries(file))
            /\ e.entry_hash = EntryHash(e.previous_hash, e.sequence, e.kind, e.payload)
<1> DEFINE n   == Len(file)
           new == AddText(file, e, ended)
<1>0. n \in Nat
    OBVIOUS
<1>1. /\ Len(new) = n + 1
      /\ \A i \in 1..n : new[i] = file[i]
      /\ new[n + 1].text = e
    <2>1. e \in LedgerEntry \cup {Garbage}
        OBVIOUS
    <2>2. QED
        BY <2>1, UngluedWrite
<1>2. /\ \A i \in 1..n : Entries(new)[i] = Entries(file)[i]
      /\ Entries(new)[n + 1] = e
    BY <1>0, <1>1 DEF Entries
<1>3. e # Garbage
    BY GarbageIsNoEntry
<1>4. Readable(new) <=> Readable(file)
    BY <1>0, <1>1, <1>3 DEF Readable
<1>5. ASSUME NEW i \in 1..n
      PROVE  LinkHolds(Entries(new), i) <=> LinkHolds(Entries(file), i)
    <2>1. i = 1 \/ i - 1 \in 1..n
        BY <1>0
    <2>2. QED
        BY <2>1, <1>0, <1>2 DEF LinkHolds
<1>6. LastHash(Entries(file)) =
        (IF n + 1 = 1 THEN ZERO_HASH ELSE Entries(new)[(n + 1) - 1].entry_hash)
    <2>1. CASE n = 0
        <3>1. file = <<>>
            BY <2>1
        <3>2. Entries(file) = <<>>
            BY <3>1 DEF Entries
        <3>3. QED
            BY <2>1, <3>2 DEF LastHash
    <2>2. CASE n # 0
        <3>1. Entries(file) \in Seq({x.text : x \in Line}) /\ Len(Entries(file)) = n
            <4>1. \A i \in 1..n : file[i].text \in {x.text : x \in Line}
                OBVIOUS
            <4>2. Entries(file) \in [1..n -> {x.text : x \in Line}]
                BY <4>1 DEF Entries
            <4>3. QED
                BY <4>2, <1>0
        <3>2. Entries(file) # <<>>
            BY <3>1, <2>2
        <3>3. QED
            BY <3>1, <3>2, <1>0, <1>2, <2>2 DEF LastHash
    <2>3. QED
        BY <2>1, <2>2
<1>7. LinkHolds(Entries(new), n + 1) <=>
        /\ e.sequence = n + 1
        /\ e.previous_hash = LastHash(Entries(file))
        /\ e.entry_hash = EntryHash(e.previous_hash, e.sequence, e.kind, e.payload)
    BY <1>0, <1>2, <1>6 DEF LinkHolds
<1>8. (\A i \in 1..Len(new) : LinkHolds(Entries(new), i)) <=>
        /\ \A i \in 1..n : LinkHolds(Entries(file), i)
        /\ LinkHolds(Entries(new), n + 1)
    BY <1>0, <1>1, <1>5
<1>9. QED
    BY <1>4, <1>7, <1>8 DEF Verifies

(* The events of a readable file are events (ledger.py, entries). *)
LEMMA EventsType ==
    ASSUME NEW file \in Seq(Line), Readable(file)
    PROVE  Events(file) \in Seq(Event) /\ Len(Events(file)) = Len(file)
<1>1. Len(file) \in Nat
    OBVIOUS
<1>2. \A i \in 1..Len(file) : file[i] \in Line
    OBVIOUS
<1>3. \A i \in 1..Len(file) : EventOf(file[i].text) \in Event
    BY <1>2 DEF Readable, Line, LedgerEntry, EventOf, Event
<1>4. Events(file) \in [1..Len(file) -> Event]
    BY <1>3 DEF Events
<1>5. QED
    BY <1>1, <1>4

(* A whole line written behind a complete one adds its event, and no other,
   at the end of the recorded events (ledger.py, append). *)
LEMMA EventsWrite ==
    ASSUME NEW file \in Seq(Line), NEW e \in LedgerEntry, NEW ended \in BOOLEAN,
           ~Glued(file), Readable(file)
    PROVE  Events(AddText(file, e, ended)) = Append(Events(file), EventOf(e))
<1> DEFINE n   == Len(file)
           new == AddText(file, e, ended)
<1>1. n \in Nat
    OBVIOUS
<1>2. Events(file) \in Seq(Event) /\ Len(Events(file)) = n
    BY EventsType
<1>3. EventOf(e) \in Event
    BY DEF LedgerEntry, EventOf, Event
<1>4. /\ Append(Events(file), EventOf(e)) \in Seq(Event)
      /\ Len(Append(Events(file), EventOf(e))) = n + 1
      /\ \A i \in 1..n : Append(Events(file), EventOf(e))[i] = Events(file)[i]
      /\ Append(Events(file), EventOf(e))[n + 1] = EventOf(e)
    BY <1>2, <1>3, AppendProperties
<1>5. e \in LedgerEntry \cup {Garbage}
    OBVIOUS
<1>6. /\ Len(new) = n + 1
      /\ \A i \in 1..n : new[i] = file[i]
      /\ new[n + 1].text = e
    BY <1>5, UngluedWrite
<1>7. /\ \A i \in 1..n : Events(new)[i] = Events(file)[i]
      /\ Events(new)[n + 1] = EventOf(e)
    BY <1>1, <1>6 DEF Events
<1>8. Events(new) \in [1..n + 1 -> Event]
    <2>1. Events(new) = [i \in 1..n + 1 |-> EventOf(new[i].text)]
        BY <1>6 DEF Events
    <2>2. \A i \in 1..n + 1 : Events(new)[i] \in Event
        BY <1>1, <1>2, <1>3, <1>7
    <2>3. QED
        BY <2>1, <2>2
<1>9. Events(new) \in Seq(Event) /\ Len(Events(new)) = n + 1
    BY <1>1, <1>8
<1>10. \A i \in 1..n + 1 : Events(new)[i] = Append(Events(file), EventOf(e))[i]
    BY <1>1, <1>4, <1>7
<1>11. QED
    BY <1>4, <1>9, <1>10, SeqEqual

(* Dropping the appended element of a sequence gives the sequence back. *)
LEMMA SubSeqOfAppend ==
    ASSUME NEW S, NEW s \in Seq(S), NEW x \in S
    PROVE  SubSeq(Append(s, x), 1, Len(s)) = s
<1> DEFINE n == Len(s)
           t == Append(s, x)
<1>1. n \in Nat
    OBVIOUS
<1>2. \A i \in 1..n : t[i] = s[i] /\ s[i] \in S
    BY AppendProperties
<1>3. /\ SubSeq(t, 1, n) \in Seq(S)
      /\ Len(SubSeq(t, 1, n)) = (IF 1 <= n THEN n - 1 + 1 ELSE 0)
      /\ \A i \in 1..n - 1 + 1 : SubSeq(t, 1, n)[i] = t[1 + i - 1]
    BY <1>1, <1>2, SubSeqProperties
<1>4. Len(SubSeq(t, 1, n)) = n /\ \A i \in 1..n : SubSeq(t, 1, n)[i] = s[i]
    BY <1>1, <1>2, <1>3
<1>5. QED
    BY <1>3, <1>4, SeqEqual
===============================================================================
