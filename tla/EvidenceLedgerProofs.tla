------------------------- MODULE EvidenceLedgerProofs -------------------------
(***************************************************************************)
(* Proofs about EvidenceLedger for any number of writers, any kinds and    *)
(* payloads and files of any length: type correctness, the exactness of    *)
(* verify(), that no returned event is lost, and that the ledger seen      *)
(* through verify() implements VerifiableLog.                              *)
(***************************************************************************)
EXTENDS EvidenceLedger, LedgerFileProofs

(* The variables keep their types (ledger.py, append). *)
THEOREM TypeCorrect == Spec => []TypeOK
<1>1. Init => TypeOK
    BY DEF Init, TypeOK, Idle
<1>2. ASSUME TypeOK, [Next]_vars
      PROVE  TypeOK'
    <2> USE <1>2 DEF TypeOK
    <2>1. ASSUME NEW w \in Writers, NEW k \in Kinds, NEW p \in Payloads,
                 ReadAndCompute(w, k, p)
          PROVE  TypeOK'
        <3>1. NewEntry(Entries(file), k, p) \in LedgerEntry
            BY <2>1, EntriesType, NewEntryType DEF ReadAndCompute
        <3>2. [pc |-> "write", entry |-> NewEntry(Entries(file), k, p)] \in Appending
            BY <3>1 DEF Appending
        <3>3. QED
            BY <2>1, <3>2 DEF ReadAndCompute
    <2>2. ASSUME NEW w \in Writers, WriteLine(w)
          PROVE  TypeOK'
        <3>1. writer[w].entry \in LedgerEntry
            BY <2>2 DEF WriteLine, Appending
        <3>2. EventOf(writer[w].entry) \in Event
            BY <3>1 DEF EventOf, Event, LedgerEntry
        <3>3. file' \in Seq(Line)
            BY <2>2, <3>1, AddTextType DEF WriteLine
        <3>4. intact' \in BOOLEAN
            BY <2>2 DEF WriteLine, Timely
        <3>5. returned' \in Seq(Event)
            BY <2>2, <3>2, AppendProperties DEF WriteLine
        <3>6. writer' \in [Writers -> Appending \cup {Idle}]
            BY <2>2 DEF WriteLine
        <3>7. QED
            BY <3>3, <3>4, <3>5, <3>6
    <2>3. ASSUME NEW w \in Writers, StopBeforeWrite(w)
          PROVE  TypeOK'
        BY <2>3 DEF StopBeforeWrite
    <2>4. ASSUME NEW w \in Writers, LoseNewline(w)
          PROVE  TypeOK'
        <3>1. writer[w].entry \in LedgerEntry
            BY <2>4 DEF LoseNewline, Appending
        <3>2. file' \in Seq(Line)
            BY <2>4, <3>1, AddTextType DEF LoseNewline
        <3>3. intact' \in BOOLEAN
            BY <2>4 DEF LoseNewline, Timely
        <3>4. QED
            BY <2>4, <3>2, <3>3 DEF LoseNewline
    <2>5. ASSUME NEW w \in Writers, TearLine(w)
          PROVE  TypeOK'
        <3>1. file' \in Seq(Line)
            BY <2>5, AddTextType DEF TearLine
        <3>2. QED
            BY <2>5, <3>1 DEF TearLine
    <2>6. ASSUME NEW w \in Writers, Rebuild(w)
          PROVE  TypeOK'
        BY <2>6 DEF Rebuild
    <2>7. CASE UNCHANGED vars
        BY <2>7 DEF vars
    <2>8. QED
        BY <2>1, <2>2, <2>3, <2>4, <2>5, <2>6, <2>7 DEF Next
<1>3. QED
    BY <1>1, <1>2, PTL DEF Spec

-------------------------------------------------------------------------------
(* The strengthening VerifyIsExact needs: an entry that waits to be written
   already carries the hash of its own fields (ledger.py, append). *)
PendingHashed ==
    \A w \in Writers : writer[w] # Idle =>
        LET e == writer[w].entry IN
        e.entry_hash = EntryHash(e.previous_hash, e.sequence, e.kind, e.payload)

LedgerInv == PendingHashed /\ VerifyIsExact

(* One write of a pending entry, with or without its newline, keeps verify()
   exact (ledger.py, append and verify). *)
LEMMA WriteKeepsExact ==
    ASSUME TypeOK, LedgerInv, NEW w \in Writers, writer[w] # Idle,
           NEW ended \in BOOLEAN,
           file' = AddText(file, writer[w].entry, ended),
           intact' = (intact /\ ~Glued(file) /\ Timely(writer[w].entry))
    PROVE  VerifyIsExact'
<1> DEFINE e == writer[w].entry
<1>1. e \in LedgerEntry /\ file \in Seq(Line)
    BY DEF TypeOK, Appending
<1>2. CASE Glued(file)
    <2>1. e \in LedgerEntry \cup {Garbage}
        BY <1>1
    <2>2. ~Readable(file')
        BY <1>1, <1>2, <2>1, GarbageBreaks
    <2>3. QED
        BY <1>2, <2>2 DEF VerifyIsExact, Verifies
<1>3. CASE ~Glued(file)
    <2>1. Verifies(file') <=>
            /\ Verifies(file)
            /\ e.sequence = Len(file) + 1
            /\ e.previous_hash = LastHash(Entries(file))
            /\ e.entry_hash = EntryHash(e.previous_hash, e.sequence, e.kind, e.payload)
        BY <1>1, <1>3, VerifiesWrite
    <2>2. e.entry_hash = EntryHash(e.previous_hash, e.sequence, e.kind, e.payload)
        BY DEF LedgerInv, PendingHashed
    <2>3. Verifies(file) <=> intact
        BY DEF LedgerInv, VerifyIsExact
    <2>4. Verifies(file) => Readable(file)
        BY DEF Verifies
    <2>5. QED
        BY <1>3, <2>1, <2>2, <2>3, <2>4 DEF VerifyIsExact, Timely
<1>4. QED
    BY <1>2, <1>3

(* verify() is exact, for every number of writers and every interleaving of
   their reads, writes and stops (ledger.py, verify). *)
THEOREM VerifyExact == Spec => []VerifyIsExact
<1>1. Init => LedgerInv
    BY DEF Init, LedgerInv, PendingHashed, VerifyIsExact, Verifies, Readable, Idle
<1>2. ASSUME TypeOK, LedgerInv, [Next]_vars
      PROVE  LedgerInv'
    <2> USE <1>2
    <2>1. ASSUME NEW w \in Writers, NEW k \in Kinds, NEW p \in Payloads,
                 ReadAndCompute(w, k, p)
          PROVE  LedgerInv'
        <3>1. Entries(file) \in Seq(LedgerEntry)
            BY <2>1, EntriesType DEF ReadAndCompute, TypeOK
        <3>2. PendingHashed'
            BY <2>1, <3>1, NewEntryType
               DEF ReadAndCompute, LedgerInv, PendingHashed, TypeOK
        <3>3. QED
            BY <2>1, <3>2 DEF ReadAndCompute, LedgerInv, VerifyIsExact
    <2>2. ASSUME NEW w \in Writers, WriteLine(w)
          PROVE  LedgerInv'
        <3>1. PendingHashed'
            BY <2>2 DEF WriteLine, LedgerInv, PendingHashed, TypeOK
        <3>2. VerifyIsExact'
            BY <2>2, WriteKeepsExact DEF WriteLine
        <3>3. QED
            BY <3>1, <3>2 DEF LedgerInv
    <2>3. ASSUME NEW w \in Writers, StopBeforeWrite(w)
          PROVE  LedgerInv'
        BY <2>3 DEF StopBeforeWrite, LedgerInv, PendingHashed, VerifyIsExact, TypeOK
    <2>4. ASSUME NEW w \in Writers, LoseNewline(w)
          PROVE  LedgerInv'
        <3>1. PendingHashed'
            BY <2>4 DEF LoseNewline, LedgerInv, PendingHashed, TypeOK
        <3>2. VerifyIsExact'
            BY <2>4, WriteKeepsExact DEF LoseNewline
        <3>3. QED
            BY <3>1, <3>2 DEF LedgerInv
    <2>5. ASSUME NEW w \in Writers, TearLine(w)
          PROVE  LedgerInv'
        <3>1. PendingHashed'
            BY <2>5 DEF TearLine, LedgerInv, PendingHashed, TypeOK
        <3>2. ~Readable(file')
            BY <2>5, GarbageBreaks DEF TearLine, TypeOK
        <3>3. VerifyIsExact'
            BY <2>5, <3>2 DEF TearLine, VerifyIsExact, Verifies
        <3>4. QED
            BY <3>1, <3>3 DEF LedgerInv
    <2>6. ASSUME NEW w \in Writers, Rebuild(w)
          PROVE  LedgerInv'
        BY <2>6 DEF Rebuild, LedgerInv, PendingHashed, VerifyIsExact, Verifies, Readable
    <2>7. CASE UNCHANGED vars
        BY <2>7 DEF vars, LedgerInv, PendingHashed, VerifyIsExact
    <2>8. QED
        BY <2>1, <2>2, <2>3, <2>4, <2>5, <2>6, <2>7 DEF Next
<1>3. LedgerInv => VerifyIsExact
    BY DEF LedgerInv
<1>4. QED
    BY <1>1, <1>2, <1>3, TypeCorrect, PTL DEF Spec

-------------------------------------------------------------------------------
(* A pending entry that lands, with or without its newline, is one event
   recorded by a trusted log, the end of its trust, or nothing. *)
LEMMA WriteRefines ==
    ASSUME TypeOK, NEW e \in LedgerEntry, NEW ended \in BOOLEAN,
           file' = AddText(file, e, ended)
    PROVE  [Log!Next]_(Log!vars)
<1>1. file \in Seq(Line)
    BY DEF TypeOK
<1>2. CASE Verifies(file')
    <2>1. ~Glued(file)
        <3>1. e \in LedgerEntry \cup {Garbage}
            OBVIOUS
        <3>2. QED
            BY <1>1, <1>2, <3>1, GarbageBreaks DEF Verifies
    <2>2. Verifies(file) /\ Readable(file)
        BY <1>1, <1>2, <2>1, VerifiesWrite DEF Verifies
    <2>3. Events(file') = Append(Events(file), EventOf(e))
        BY <1>1, <2>1, <2>2, EventsWrite
    <2>4. EventOf(e) \in Event
        BY DEF LedgerEntry, EventOf, Event
    <2>5. Log!Record(EventOf(e))
        BY <1>2, <2>2, <2>3 DEF Log!Record
    <2>6. QED
        BY <2>4, <2>5 DEF Log!Next
<1>3. CASE ~Verifies(file') /\ Verifies(file)
    BY <1>3 DEF Log!Next, Log!Break
<1>4. CASE ~Verifies(file') /\ ~Verifies(file)
    <2>1. Verifies(file) = FALSE /\ Verifies(file') = FALSE
        BY <1>4 DEF Verifies
    <2>2. QED
        BY <2>1 DEF Log!vars
<1>5. QED
    BY <1>2, <1>3, <1>4

(* Read through verify(), the ledger is an append-only log that no append
   repairs once it is broken (ledger.py, class EvidenceLedger). *)
THEOREM LedgerImplementsVerifiableLog == Spec => ImplementsVerifiableLog
<1>1. Init => Log!Init
    BY DEF Init, Log!Init, Verifies, Readable, Events
<1>2. ASSUME TypeOK, [Next]_vars
      PROVE  [Log!Next]_(Log!vars)
    <2> USE <1>2
    <2>1. ASSUME NEW w \in Writers, NEW k \in Kinds, NEW p \in Payloads,
                 ReadAndCompute(w, k, p)
          PROVE  [Log!Next]_(Log!vars)
        BY <2>1 DEF ReadAndCompute, Log!vars
    <2>2. ASSUME NEW w \in Writers, WriteLine(w)
          PROVE  [Log!Next]_(Log!vars)
        <3>1. writer[w].entry \in LedgerEntry
            BY <2>2 DEF WriteLine, TypeOK, Appending
        <3>2. QED
            BY <2>2, <3>1, WriteRefines DEF WriteLine
    <2>3. ASSUME NEW w \in Writers, StopBeforeWrite(w)
          PROVE  [Log!Next]_(Log!vars)
        BY <2>3 DEF StopBeforeWrite, Log!vars
    <2>4. ASSUME NEW w \in Writers, LoseNewline(w)
          PROVE  [Log!Next]_(Log!vars)
        <3>1. writer[w].entry \in LedgerEntry
            BY <2>4 DEF LoseNewline, TypeOK, Appending
        <3>2. QED
            BY <2>4, <3>1, WriteRefines DEF LoseNewline
    <2>5. ASSUME NEW w \in Writers, TearLine(w)
          PROVE  [Log!Next]_(Log!vars)
        <3>1. ~Verifies(file')
            BY <2>5, GarbageBreaks DEF TearLine, TypeOK, Verifies
        <3>2. Verifies(file') = FALSE
            BY <3>1 DEF Verifies
        <3>3. CASE Verifies(file)
            BY <3>2, <3>3 DEF Log!Next, Log!Break
        <3>4. CASE ~Verifies(file)
            <4>1. Verifies(file) = FALSE
                BY <3>4 DEF Verifies
            <4>2. QED
                BY <3>2, <4>1 DEF Log!vars
        <3>5. QED
            BY <3>3, <3>4
    <2>6. ASSUME NEW w \in Writers, Rebuild(w)
          PROVE  [Log!Next]_(Log!vars)
        <3>1. Verifies(file') /\ Events(file') = <<>>
            BY <2>6 DEF Rebuild, Verifies, Readable, Events
        <3>2. QED
            BY <3>1 DEF Log!Next, Log!StartAgain
    <2>7. CASE UNCHANGED vars
        BY <2>7 DEF vars, Log!vars
    <2>8. QED
        BY <2>1, <2>2, <2>3, <2>4, <2>5, <2>6, <2>7 DEF Next
<1>3. QED
    BY <1>1, <1>2, TypeCorrect, PTL DEF Spec, ImplementsVerifiableLog, Log!Spec

-------------------------------------------------------------------------------
(* What a write does to the returned events while verify() accepts the file. *)
LEMMA AcceptedWrite ==
    ASSUME TypeOK, NoReturnedEventLost, NEW e \in LedgerEntry, NEW ended \in BOOLEAN,
           file' = AddText(file, e, ended), Verifies(file')
    PROVE  /\ returned = Events(file)
           /\ Events(file') = Append(returned, EventOf(e))
           /\ Len(file') = Len(returned) + 1
           /\ file'[Len(file')].ended = ended
           /\ file' # <<>>
<1>1. file \in Seq(Line) /\ e \in LedgerEntry \cup {Garbage}
    BY DEF TypeOK
<1>2. ~Glued(file)
    BY <1>1, GarbageBreaks DEF Verifies
<1>3. Verifies(file) /\ Readable(file)
    BY <1>1, <1>2, VerifiesWrite DEF Verifies
<1>4. returned = Events(file)
    BY <1>2, <1>3 DEF NoReturnedEventLost
<1>5. Events(file') = Append(Events(file), EventOf(e))
    BY <1>1, <1>2, <1>3, EventsWrite
<1>6. Len(Events(file)) = Len(file)
    BY <1>1, <1>3, EventsType
<1>7. Len(file') = Len(file) + 1 /\ file'[Len(file) + 1].ended = ended
    BY <1>1, <1>2, UngluedWrite
<1>8. file' # <<>>
    BY <1>1, AddTextType
<1>9. QED
    BY <1>4, <1>5, <1>6, <1>7, <1>8

(* No event whose append() returned is missing from a file verify() accepts
   (ledger.py, append and verify). *)
THEOREM ReturnedEventsKept == Spec => []NoReturnedEventLost
<1>1. Init => NoReturnedEventLost
    BY DEF Init, NoReturnedEventLost, Events
<1>2. ASSUME TypeOK, NoReturnedEventLost, [Next]_vars
      PROVE  NoReturnedEventLost'
    <2> USE <1>2
    <2>1. ASSUME NEW w \in Writers, NEW k \in Kinds, NEW p \in Payloads,
                 ReadAndCompute(w, k, p)
          PROVE  NoReturnedEventLost'
        BY <2>1 DEF ReadAndCompute, NoReturnedEventLost
    <2>2. ASSUME NEW w \in Writers, WriteLine(w), Verifies(file')
          PROVE  returned' = Events(file')
        <3>1. writer[w].entry \in LedgerEntry
            BY <2>2 DEF WriteLine, TypeOK, Appending
        <3>2. QED
            BY <2>2, <3>1, AcceptedWrite DEF WriteLine
    <2>3. ASSUME NEW w \in Writers, StopBeforeWrite(w)
          PROVE  NoReturnedEventLost'
        BY <2>3 DEF StopBeforeWrite, NoReturnedEventLost
    <2>4. ASSUME NEW w \in Writers, LoseNewline(w), Verifies(file')
          PROVE  /\ Glued(file')
                 /\ returned' = SubSeq(Events(file'), 1, Len(file') - 1)
        <3> DEFINE e == writer[w].entry
        <3>1. e \in LedgerEntry
            BY <2>4 DEF LoseNewline, TypeOK, Appending
        <3>2. /\ Events(file') = Append(returned, EventOf(e))
              /\ Len(file') = Len(returned) + 1
              /\ file'[Len(file')].ended = FALSE
              /\ file' # <<>>
            BY <2>4, <3>1, AcceptedWrite DEF LoseNewline
        <3>3. returned \in Seq(Event) /\ EventOf(e) \in Event
            BY <3>1 DEF TypeOK, LedgerEntry, EventOf, Event
        <3>4. SubSeq(Append(returned, EventOf(e)), 1, Len(returned)) = returned
            BY <3>3, SubSeqOfAppend
        <3>5. Glued(file')
            BY <3>2 DEF Glued
        <3>6. Len(file') - 1 = Len(returned)
            BY <3>2, <3>3
        <3>7. returned' = returned
            BY <2>4 DEF LoseNewline
        <3>8. QED
            BY <3>2, <3>4, <3>5, <3>6, <3>7
    <2>5. ASSUME NEW w \in Writers, TearLine(w)
          PROVE  NoReturnedEventLost'
        <3>1. ~Verifies(file')
            BY <2>5, GarbageBreaks DEF TearLine, TypeOK, Verifies
        <3>2. QED
            BY <3>1 DEF NoReturnedEventLost
    <2>6. ASSUME NEW w \in Writers, Rebuild(w)
          PROVE  NoReturnedEventLost'
        BY <2>6 DEF Rebuild, NoReturnedEventLost, Events
    <2>7. CASE UNCHANGED vars
        BY <2>7 DEF vars, NoReturnedEventLost
    <2>8. QED
        BY <2>1, <2>2, <2>3, <2>4, <2>5, <2>6, <2>7 DEF Next, NoReturnedEventLost
<1>3. QED
    BY <1>1, <1>2, TypeCorrect, PTL DEF Spec
===============================================================================
