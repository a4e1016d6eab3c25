------------------------ MODULE TagReservationsProofs ------------------------
(***************************************************************************)
(* Reserved tags stay reserved, for any number of processes, operations,   *)
(* deaths and losses of power, but for the operations that a write cut off *)
(* in the middle may have reached.                                         *)
(***************************************************************************)
EXTENDS TagReservations, FiniteSetTheorems, TLAPS

Calls == [operation : Operations \cup {NoRecord}, wanted : Reservations \cup {NoRecord},
          inventory : Candidates \cup {Free, Unknown}, created : BOOLEAN,
          journal : Journals, granted : BOOLEAN]

Writes(p) == pc[p] \in {"write", "sync", "return"}

\* One process writes, and it holds the lock.
LockOK ==
    /\ \A p \in Processes : p \in lock <=> Writes(p)
    /\ \A p, q \in lock : p = q

\* A journal holds what the intact operations were handed.
Holds(journal) == \A o \in Intact : \A r \in handed[o] : journal[o] = r

\* Also a torn file stands for such a journal: the one that was being written.
FileOK(f) ==
    /\ Distinct(f.journal)
    /\ f.kind \in {"torn", "journal"} \/ \A o \in Operations : handed[o] = {}
    /\ f.kind \in {"torn", "journal"} => Holds(f.journal)

\* What a process is about to write, has written, has made safe.
WriterOK(p) ==
    Writes(p) =>
        /\ call[p].operation \in Operations /\ call[p].wanted \in Reservations
        /\ Distinct(call[p].journal) /\ Holds(call[p].journal)
        /\ call[p].granted => call[p].journal[call[p].operation] = call[p].wanted
        /\ pc[p] \in {"sync", "return"} => file = File("journal", call[p].journal)
        /\ pc[p] = "return" => synced = file

WritersOK == \A p \in Processes : WriterOK(p)

OpenedOK ==
    \A p \in Processes :
        /\ pc[p] = "opened" => call[p].operation \in Operations /\ call[p].wanted \in Reservations
        /\ pc[p] # "idle" => file.kind # "absent"

FilesOK == FileOK(file) /\ FileOK(synced)

IInv == TypeOK /\ LockOK /\ FilesOK /\ OpenedOK /\ WritersOK /\ IntactTagsExclusive /\ OneReservation

LEMMA InitIInv == Init => IInv
  <1>1. NoCall.operation = NoRecord /\ NoCall.wanted = NoRecord
    BY DEF NoCall
  <1>2. Absent.kind = "absent" /\ Absent.journal = Nothing
    BY DEF Absent, File
  <1>3. Nothing \in Journals /\ \A k \in Keys : Nothing[k] = NoRecord
    BY DEF Nothing, Journals
  <1>4. Absent \in Files /\ NoCall \in Calls
    BY <1>3 DEF Absent, File, Files, Journals, NoCall, Calls
  <1>5. Init => TypeOK
    BY <1>4 DEF Init, TypeOK, Calls
  <1>6. Init => LockOK /\ OpenedOK /\ WritersOK
    BY DEF Init, LockOK, OpenedOK, WritersOK, WriterOK, Writes
  <1>7. Init => FilesOK
    BY <1>2, <1>3 DEF Init, FilesOK, FileOK, Distinct, Used
  <1>8. Init => IntactTagsExclusive /\ OneReservation
    BY DEF Init, IntactTagsExclusive, OneReservation, Intact
  <1> QED BY <1>5, <1>6, <1>7, <1>8 DEF IInv

(***************************************************************************)
(* A readable mixture of two journals keeps every record they share before *)
(* the first place in which they differ.  A record there has the same slot *)
(* in both, so it is in front of the cut in one, behind it in the other,   *)
(* or in the slot of the cut itself, which then holds it whole.            *)
(***************************************************************************)
LEMMA UsedFinite == ASSUME NEW j PROVE IsFiniteSet(Used(j)) /\ Used(j) \subseteq Keys /\ Keys \subseteq Nat
  <1>1. IsFiniteSet(Keys)
    BY TagAssumption, FS_Union DEF Keys
  <1>2. Used(j) \subseteq Keys
    BY DEF Used
  <1> QED BY <1>1, <1>2, TagAssumption, FS_Subset DEF Keys

\* The slots are in the order of the keys.
LEMMA SlotsAscend ==
    ASSUME NEW j, NEW k \in Used(j), NEW l \in Used(j), k < l
    PROVE  Slot(j, k) < Slot(j, l)
  <1> DEFINE before(x) == {q \in Used(j) : q < x}
  <1>1. Used(j) \subseteq Nat /\ IsFiniteSet(Used(j))
    BY UsedFinite
  <1>2. IsFiniteSet(before(k)) /\ IsFiniteSet(before(l))
    BY <1>1, FS_Subset
  <1>3. k \notin before(k) /\ before(k) \cup {k} \subseteq before(l)
    BY <1>1
  <1>4. Slot(j, k) = Cardinality(before(k)) /\ Slot(j, l) = Cardinality(before(l))
    BY DEF Slot
  <1> HIDE DEF before
  <1>5. Cardinality(before(k) \cup {k}) = Cardinality(before(k)) + 1
    BY <1>2, <1>3, FS_AddElement
  <1>6. Cardinality(before(k) \cup {k}) <= Cardinality(before(l))
    BY <1>2, <1>3, FS_Subset
  <1>7. Cardinality(before(k)) \in Nat /\ Cardinality(before(l)) \in Nat
    BY <1>2, FS_CardinalityType
  <1> QED BY <1>4, <1>5, <1>6, <1>7

LEMMA SlotType == ASSUME NEW j, NEW k PROVE Slot(j, k) \in Nat
  <1>1. IsFiniteSet({q \in Used(j) : q < k})
    BY UsedFinite, FS_Subset
  <1> QED BY <1>1, FS_CardinalityType DEF Slot

\* Where two journals agree on all smaller keys, a key has the same slot in both.
LEMMA SlotsAgree ==
    ASSUME NEW s, NEW t, NEW k, \A q \in Keys : q < k => s[q] = t[q]
    PROVE  Slot(s, k) = Slot(t, k)
  <1>1. {q \in Used(s) : q < k} = {q \in Used(t) : q < k}
    BY DEF Used
  <1> QED BY <1>1 DEF Slot

LEMMA MixtureIs ==
    ASSUME NEW s, NEW t, NEW j \in Mixtures(s, t)
    PROVE  /\ Distinct(j)
           /\ \E a \in Used(s), b \in Used(t) : \E m \in CutSlot(s, t, a, b) :
                Slot(s, a) = Slot(t, b) /\ j = Splice(s, t, a, b, m)
  <1>1. PICK ab \in SameSlot(s, t) :
          j \in {Splice(s, t, ab[1], ab[2], m) : m \in CutSlot(s, t, ab[1], ab[2])}
    BY DEF Mixtures
  <1>2. /\ ab[1] \in Used(s) /\ ab[2] \in Used(t)
        /\ Slot(s, ab[1]) = Slot(t, ab[2])
    BY DEF SameSlot
  <1> QED BY <1>1, <1>2 DEF Mixtures

LEMMA MixtureTyped ==
    ASSUME NEW s \in Journals, NEW t \in Journals, NEW j \in Mixtures(s, t)
    PROVE  j \in Journals
  <1>1. PICK a \in Used(s), b \in Used(t) : \E m \in CutSlot(s, t, a, b) :
            Slot(s, a) = Slot(t, b) /\ j = Splice(s, t, a, b, m)
    BY MixtureIs
  <1>2. PICK m \in CutSlot(s, t, a, b) : j = Splice(s, t, a, b, m)
    BY <1>1
  <1> DEFINE R == Reservations \cup Blends \cup {NoRecord}
  <1>3. /\ a \in Keys /\ b \in Keys /\ \A k \in Keys : s[k] \in R /\ t[k] \in R
        /\ t[b] # NoRecord /\ t[b].tag \in Tags \cup {Garbled}
    BY DEF Used, Journals, Reservations, Blends
  <1>4. [candidate : {Garbled}, tag : {t[b].tag, Garbled}] \subseteq R
    BY <1>3 DEF Blends
  <1>5. m[2] \in R
    BY <1>3, <1>4 DEF CutSlot
  <1> HIDE DEF R
  <1>6. j \in [Keys -> R]
    BY <1>2, <1>3, <1>5 DEF Splice, R
  <1> QED BY <1>6 DEF Journals, R

LEMMA MixtureKeeps ==
    ASSUME NEW s \in Journals, NEW t \in Journals, NEW j \in Mixtures(s, t),
           NEW o \in Operations \ From(s, t), s[o] # NoRecord
    PROVE  j[o] = s[o]
  <1>1. PICK a \in Used(s), b \in Used(t) : \E m \in CutSlot(s, t, a, b) :
            Slot(s, a) = Slot(t, b) /\ j = Splice(s, t, a, b, m)
    BY MixtureIs
  <1>2. PICK m \in CutSlot(s, t, a, b) : Slot(s, a) = Slot(t, b) /\ j = Splice(s, t, a, b, m)
    BY <1>1
  <1>3. /\ o \in Keys /\ a \in Keys /\ b \in Keys /\ Keys \subseteq Nat
        /\ \A k \in Keys : k <= o => s[k] = t[k]
    BY UsedFinite DEF From, Keys, Used
  <1>4. o \in Used(s) /\ o \in Used(t)
    BY <1>3 DEF Used
  <1>5. \A k \in Keys : k <= o => Slot(s, k) = Slot(t, k)
    <2> SUFFICES ASSUME NEW k \in Keys, k <= o PROVE \A q \in Keys : q < k => s[q] = t[q]
      BY SlotsAgree
    <2> QED BY <1>3
  <1>6. j[o] = IF o > b THEN t[o] ELSE IF o = m[1] THEN m[2] ELSE IF o < a THEN s[o] ELSE NoRecord
    BY <1>2, <1>3, <1>4 DEF Splice, Used
  <1>7. \A k \in Used(t) : Slot(t, k) = Slot(t, b) => k = b
    <2> SUFFICES ASSUME NEW k \in Used(t), k # b PROVE Slot(t, k) # Slot(t, b)
      OBVIOUS
    <2>1. k < b \/ b < k
      BY UsedFinite
    <2>2. /\ k < b => Slot(t, k) < Slot(t, b)
          /\ b < k => Slot(t, b) < Slot(t, k)
      BY SlotsAscend
    <2>3. Slot(t, k) \in Nat /\ Slot(t, b) \in Nat
      BY SlotType
    <2> QED BY <2>1, <2>2, <2>3
  <1>8. CASE o < a
    <2>1. Slot(t, o) < Slot(t, b)
      BY <1>2, <1>3, <1>4, <1>5, <1>8, SlotsAscend
    <2>2. b # o
      BY <2>1, SlotType
    <2>3. o > b \/ o # m[1]
      BY <1>3, <1>8, <2>2, TagAssumption DEF CutSlot
    <2> QED BY <1>3, <1>6, <1>8, <2>3
  <1>9. CASE o = a
    <2>1. b = o
      BY <1>2, <1>3, <1>4, <1>5, <1>7, <1>9
    <2>2. s[a] = t[b]
      BY <1>3, <1>9, <2>1
    <2>3. m = <<o, s[o]>>
      BY <1>9, <2>1, <2>2 DEF CutSlot
    <2> QED BY <1>3, <1>6, <2>1, <2>3
  <1>10. CASE a < o
    <2>1. a \in Used(t)
      BY <1>3, <1>10 DEF Used
    <2>2. b = a
      BY <1>2, <1>3, <1>5, <1>7, <1>10, <2>1
    <2> QED BY <1>3, <1>6, <1>10, <2>2
  <1> QED BY <1>3, <1>8, <1>9, <1>10

\* So a readable mixture holds what the operations still intact were handed.
LEMMA MixedFile ==
    ASSUME IInv, NEW s \in Journals, NEW t \in Journals, Holds(s), Mixed(s, t), UNCHANGED handed
    PROVE  /\ file' \in Files /\ FileOK(file)' /\ file'.kind = "journal"
           /\ endangered \subseteq endangered' /\ endangered' \subseteq Operations
  <1>1. PICK j \in Mixtures(s, t) : file' = File("journal", j)
    BY DEF Mixed
  <1>2. endangered' = endangered \cup From(s, t) /\ endangered' \subseteq Operations
    BY DEF Mixed, From, IInv, TypeOK
  <1>3. /\ j \in Journals /\ Distinct(j)
    BY MixtureTyped, MixtureIs
  <1>4. ASSUME NEW o \in Intact', NEW r \in handed[o] PROVE j[o] = r
    <2>1. o \in Operations \ From(s, t) /\ o \in Intact
      BY <1>2, <1>4 DEF Intact
    <2>2. s[o] = r /\ r # NoRecord
      BY <1>4, <2>1, TagAssumption DEF Holds, IInv, TypeOK, Reservations
    <2> QED BY <2>1, <2>2, MixtureKeeps
  <1>5. file'.kind = "journal" /\ file'.journal = j /\ file' \in Files
    BY <1>1, <1>3 DEF File, Files
  <1> QED BY <1>2, <1>3, <1>4, <1>5 DEF FileOK, Holds

\* A step of one process that writes nothing and hands nothing out.
LEMMA MoveKeeps ==
    ASSUME IInv, NEW p \in Processes, NEW step \in {"idle", "opened"}, NEW c \in Calls,
           Goto(p, step), call' = [call EXCEPT ![p] = c],
           step = "opened" => c.operation \in Operations /\ c.wanted \in Reservations,
           lock' = lock \ {p},
           file' \in Files, FileOK(file)', UNCHANGED <<synced, handed>>,
           endangered \subseteq endangered', endangered' \subseteq Operations,
           lock \subseteq {p} \/ UNCHANGED endangered,
           file' # file => (lock = {} \/ p \in lock) /\ file'.kind # "absent",
           step = "opened" => file'.kind # "absent",
           calls' \in Nat, faults' \in Nat
    PROVE  IInv'
  <1>1. \A q \in Processes : /\ pc'[q] = IF q = p THEN step ELSE pc[q]
                            /\ call'[q] = IF q = p THEN c ELSE call[q]
    BY DEF IInv, TypeOK, Goto
  <1>2. TypeOK'
    BY DEF IInv, TypeOK, Goto, Calls
  <1>3. LockOK'
    BY <1>1 DEF IInv, LockOK, Writes
  <1>4. FilesOK' /\ OpenedOK'
    BY <1>1 DEF IInv, FilesOK, FileOK, Holds, Intact, OpenedOK
  <1>5. WritersOK'
    <2>1. ASSUME NEW q \in Processes, Writes(q)' PROVE WriterOK(q)'
      <3>1. q # p /\ Writes(q) /\ q \in lock
        BY <1>1, <2>1 DEF Writes, IInv, LockOK
      <3>2. file' = file /\ endangered' = endangered
        BY <3>1 DEF IInv, LockOK
      <3>3. pc'[q] = pc[q] /\ call'[q] = call[q]
        BY <1>1, <3>1
      <3> QED BY <3>1, <3>2, <3>3 DEF IInv, WritersOK, WriterOK, Writes, Holds, Intact
    <2> QED BY <2>1 DEF WritersOK, WriterOK
  <1>6. IntactTagsExclusive' /\ OneReservation'
    BY DEF IInv, IntactTagsExclusive, OneReservation, Intact
  <1> QED BY <1>2, <1>3, <1>4, <1>5, <1>6 DEF IInv

LEMMA FileStays ==
    ASSUME FileOK(file), UNCHANGED <<file, handed, endangered>> PROVE FileOK(file)'
  BY DEF FileOK, Holds, Intact

LEMMA NoCallTyped == NoCall \in Calls
  BY DEF NoCall, Calls, Journals, Nothing

LEMMA OpenKeeps ==
    ASSUME IInv, NEW p \in Processes, NEW o \in Operations, NEW r \in Reservations,
           NEW i \in Candidates \cup {Free, Unknown}, Open(p, o, r, i)
    PROVE  IInv'
  <1>1. PICK c : c = [NoCall EXCEPT !.operation = o, !.wanted = r, !.inventory = i,
                                    !.created = (file.kind = "absent")]
    OBVIOUS
  <1>2. c = [operation |-> o, wanted |-> r, inventory |-> i, created |-> (file.kind = "absent"),
             journal |-> Nothing, granted |-> FALSE]
    BY <1>1 DEF NoCall
  <1>3. c \in Calls /\ c.operation = o /\ c.wanted = r
    BY <1>2 DEF Calls, Journals, Nothing
  <1>4. p \notin lock /\ \A q \in Processes : pc[q] # "idle" => file.kind # "absent"
    BY DEF OpenedOK, Open, IInv, LockOK, Writes
  <1>5. file' \in Files /\ FileOK(file)' /\ (file' # file => lock = {}) /\ file'.kind # "absent"
    <2> UNCHANGED <<handed, endangered>>
      BY DEF Open
    <2>1. CASE file.kind # "absent" /\ file' = file
      BY <2>1 DEF IInv, TypeOK, FilesOK, FileOK, Holds, Intact
    <2>2. CASE file.kind = "absent" /\ file' = File("empty", Nothing)
      <3>1. /\ file'.kind = "empty" /\ file' \in Files
            /\ \A k \in Keys : file'.journal[k] = NoRecord
        BY <2>2 DEF File, Files, Nothing, Journals
      <3>2. \A q \in Operations : handed[q] = {}
        BY <2>2 DEF IInv, FilesOK, FileOK
      <3>3. lock = {}
        BY <1>4, <2>2 DEF IInv, TypeOK, LockOK, Writes
      <3> QED BY <3>1, <3>2, <3>3 DEF FileOK, Distinct, Used
    <2> QED BY <2>1, <2>2 DEF Open
  <1>6. lock' = lock \ {p} /\ calls' \in Nat /\ faults' \in Nat
    BY <1>4 DEF Open, IInv, TypeOK
  <1>7. call' = [call EXCEPT ![p] = c]
    BY <1>1 DEF Open
  <1>8. /\ endangered \subseteq endangered' /\ endangered' \subseteq Operations
        /\ UNCHANGED <<endangered, synced, handed>> /\ Goto(p, "opened")
    BY DEF Open, IInv, TypeOK
  <1> QED BY <1>3, <1>5, <1>6, <1>7, <1>8, MoveKeeps

\* The journal a process decides to write has no tag twice and takes nothing back.
LEMMA GrantedJournal ==
    ASSUME IInv, NEW p \in Processes, pc[p] = "opened", Grants(call[p]), file.kind \in {"journal", "empty"}
    PROVE  LET c == call[p]  journal == WithRecord(c)
           IN  /\ journal \in Journals /\ Distinct(journal) /\ Holds(journal)
               /\ journal[c.operation] = c.wanted
  <1> DEFINE c == call[p]  journal == WithRecord(c)  o == c.operation
  <1>1. o \in Operations /\ o \in Keys /\ c.wanted \in Reservations
    BY DEF IInv, OpenedOK, Keys
  <1>2. file.journal \in [Keys -> Reservations \cup Blends \cup {NoRecord}]
    BY DEF IInv, TypeOK, Files, Journals
  <1>3. \A k \in Keys : journal[k] = IF k = o THEN c.wanted ELSE file.journal[k]
    BY <1>1, <1>2 DEF WithRecord
  <1>4. journal \in Journals
    BY <1>1, <1>2 DEF WithRecord, Journals
  <1>5. /\ file.journal[o] \in {NoRecord, c.wanted}
        /\ \A k \in Keys : k # o /\ file.journal[k] # NoRecord => file.journal[k].tag # c.wanted.tag
    BY <1>1 DEF Grants, Rebound, Reserved
  <1>6. Distinct(file.journal) /\ (file.kind = "journal" => Holds(file.journal))
    BY DEF IInv, FilesOK, FileOK
  <1> HIDE DEF journal, c, o
  <1>7. Distinct(journal)
    <2> SUFFICES ASSUME NEW k \in Keys, NEW l \in Keys, journal[k] # NoRecord, journal[l] # NoRecord,
                        journal[k].tag = journal[l].tag, k # l
                 PROVE  journal[k].tag = Garbled
      BY DEF Distinct, Used
    <2>1. k # o /\ l # o
      BY <1>3, <1>5
    <2> QED BY <1>3, <1>6, <2>1 DEF Distinct, Used
  <1>8. Holds(journal)
    <2>1. ASSUME NEW q \in Intact, NEW r \in handed[q] PROVE journal[q] = r
      <3>1. q \in Operations /\ q \in Keys
        BY DEF Intact, Keys
      <3>2. file.kind = "journal"
        BY <2>1, <3>1 DEF IInv, FilesOK, FileOK
      <3>3. file.journal[q] = r /\ r # NoRecord
        BY <1>6, <2>1, <3>1, <3>2, TagAssumption DEF Holds, IInv, TypeOK, Reservations
      <3> QED BY <1>3, <1>5, <3>1, <3>3
    <2> QED BY <2>1 DEF Holds
  <1> QED BY <1>1, <1>3, <1>4, <1>7, <1>8 DEF journal, c, o

\* One process goes on under the lock it holds or takes.
LEMMA LockedKeeps ==
    ASSUME IInv, NEW p \in Processes, NEW step \in {"write", "sync", "return"}, NEW c \in Calls,
           Goto(p, step), call' = [call EXCEPT ![p] = c],
           lock \subseteq {p}, lock' = {p},
           file' \in Files, synced' \in Files, FileOK(file'), FileOK(synced'), file'.kind # "absent",
           UNCHANGED <<handed, endangered, calls, faults>>, WriterOK(p)'
    PROVE  IInv'
  <1>1. \A q \in Processes : /\ pc'[q] = IF q = p THEN step ELSE pc[q]
                            /\ call'[q] = IF q = p THEN c ELSE call[q]
    BY DEF IInv, TypeOK, Goto
  <1>2. TypeOK'
    BY DEF IInv, TypeOK, Goto, Calls
  <1>3. LockOK'
    BY <1>1 DEF IInv, LockOK, Writes
  <1>4. FilesOK' /\ OpenedOK'
    BY <1>1 DEF IInv, FilesOK, FileOK, Holds, Intact, OpenedOK
  <1>5. WritersOK'
    BY <1>1 DEF IInv, WritersOK, WriterOK, Writes, LockOK
  <1>6. IntactTagsExclusive' /\ OneReservation'
    BY DEF IInv, IntactTagsExclusive, OneReservation, Intact
  <1> QED BY <1>2, <1>3, <1>4, <1>5, <1>6 DEF IInv

LEMMA ReserveKeeps == ASSUME IInv, NEW p \in Processes, Reserve(p) PROVE IInv'
  <1> DEFINE old == call[p]
             granted == Grants(old)
             journal == IF granted THEN WithRecord(old) ELSE file.journal
  <1>1. PICK c : c = [old EXCEPT !.granted = granted, !.journal = journal]
    OBVIOUS
  <1>2. /\ pc[p] = "opened" /\ lock = {} /\ lock' = {p} /\ Goto(p, "write")
        /\ call' = [call EXCEPT ![p] = c] /\ UNCHANGED <<file, synced, handed, endangered, calls, faults>>
        /\ file.kind \in {"journal", "empty"} /\ (granted \/ file.kind = "empty")
    BY <1>1 DEF Reserve, Readable
  <1>3. old \in Calls /\ old.operation \in Operations /\ old.wanted \in Reservations
    BY <1>2 DEF IInv, TypeOK, OpenedOK, Calls
  <1>4. /\ journal \in Journals /\ Distinct(journal) /\ Holds(journal)
        /\ granted => journal[old.operation] = old.wanted
    <2>1. CASE granted
      BY <1>2, <2>1, GrantedJournal
    <2>2. CASE ~granted
      <3>1. journal = file.journal /\ file.kind = "empty"
        BY <1>2, <2>2
      <3>2. Holds(file.journal)
        BY <3>1 DEF IInv, FilesOK, FileOK, Holds, Intact
      <3> QED BY <2>2, <3>1, <3>2 DEF IInv, TypeOK, Files, FilesOK, FileOK
    <2> QED BY <2>1, <2>2
  <1>5. granted \in BOOLEAN
    BY DEF Grants, Rebound, Reserved, Occupied
  <1> HIDE DEF granted, journal, old
  <1>6. /\ c \in Calls /\ c.operation = old.operation /\ c.wanted = old.wanted
        /\ c.granted = granted /\ c.journal = journal
    <2>1. PICK d : d = [old EXCEPT !.granted = granted]
      OBVIOUS
    <2>2. c = [d EXCEPT !.journal = journal]
      BY <1>1, <2>1
    <2>3. d \in Calls /\ d.operation = old.operation /\ d.wanted = old.wanted /\ d.granted = granted
      BY <1>3, <1>5, <2>1 DEF Calls
    <2> QED BY <1>4, <2>2, <2>3 DEF Calls
  <1>7. pc'[p] = "write" /\ call'[p] = c
    BY <1>2 DEF IInv, TypeOK, Goto
  <1>8. WriterOK(p)'
    BY <1>2, <1>3, <1>4, <1>6, <1>7 DEF WriterOK, Holds, Intact
  <1> QED BY <1>2, <1>6, <1>8, LockedKeeps DEF IInv, TypeOK, FilesOK

LEMMA RefuseKeeps == ASSUME IInv, NEW p \in Processes, Refuse(p) PROVE IInv'
  <1>1. /\ Goto(p, "idle") /\ call' = [call EXCEPT ![p] = NoCall] /\ lock' = lock \ {p}
        /\ UNCHANGED <<file, synced, handed, endangered, calls, faults>>
    BY DEF Refuse, Leave
  <1>2. FileOK(file)'
    BY <1>1, FileStays DEF IInv, FilesOK
  <1> QED BY <1>1, <1>2, NoCallTyped, MoveKeeps DEF IInv, TypeOK

\* The file as its one writer leaves it.
LEMMA WrittenFile ==
    ASSUME IInv, NEW p \in Processes, Writes(p)
    PROVE  /\ lock = {p} /\ call[p] \in Calls
           /\ File("journal", call[p].journal) \in Files /\ FileOK(File("journal", call[p].journal))
           /\ File("journal", call[p].journal).kind = "journal"
           /\ File("journal", call[p].journal).journal = call[p].journal
  <1>1. lock = {p} /\ call[p] \in Calls
    BY DEF IInv, TypeOK, LockOK, Calls
  <1>2. call[p].journal \in Journals /\ Distinct(call[p].journal) /\ Holds(call[p].journal)
    BY <1>1 DEF IInv, WritersOK, WriterOK, Calls
  <1> QED BY <1>1, <1>2 DEF File, Files, FileOK

LEMMA WriteKeeps == ASSUME IInv, NEW p \in Processes, Write(p) PROVE IInv'
  <1>1. /\ Writes(p) /\ Goto(p, "sync") /\ file' = File("journal", call[p].journal)
        /\ UNCHANGED <<synced, call, lock, handed, endangered, calls, faults>>
    BY DEF Write, Writes
  <1>2. call' = [call EXCEPT ![p] = call[p]] /\ pc'[p] = "sync"
    BY <1>1 DEF IInv, TypeOK, Goto
  <1>3. WriterOK(p)'
    <2>1. WriterOK(p) /\ Writes(p)
      BY <1>1 DEF IInv, WritersOK
    <2> QED BY <1>1, <1>2, <2>1 DEF WriterOK, Holds, Intact
  <1> QED BY <1>1, <1>2, <1>3, WrittenFile, LockedKeeps DEF IInv, TypeOK, FilesOK

LEMMA SyncKeeps == ASSUME IInv, NEW p \in Processes, Sync(p) PROVE IInv'
  <1>1. /\ Writes(p) /\ Goto(p, "return") /\ synced' = file /\ file = File("journal", call[p].journal)
        /\ UNCHANGED <<file, call, lock, handed, endangered, calls, faults>>
    BY DEF Sync, Synced, Writes, IInv, WritersOK, WriterOK
  <1>2. call' = [call EXCEPT ![p] = call[p]] /\ pc'[p] = "return"
    BY <1>1 DEF IInv, TypeOK, Goto
  <1>3. WriterOK(p)'
    <2>1. WriterOK(p) /\ Writes(p)
      BY <1>1 DEF IInv, WritersOK
    <2> QED BY <1>1, <1>2, <2>1 DEF WriterOK, Holds, Intact
  <1> QED BY <1>1, <1>2, <1>3, WrittenFile, LockedKeeps DEF IInv, TypeOK, FilesOK

LEMMA ReturnKeeps == ASSUME IInv, NEW p \in Processes, Return(p) PROVE IInv'
  <1> DEFINE c == call[p]
  <1>1. /\ pc[p] = "return" /\ Goto(p, "idle") /\ call' = [call EXCEPT ![p] = NoCall] /\ lock' = lock \ {p}
        /\ UNCHANGED <<file, synced, endangered, calls, faults>>
    BY DEF Return, Leave
  <1>2. /\ lock = {p} /\ file.kind = "journal" /\ file.journal = c.journal /\ synced = file
        /\ c.operation \in Operations /\ c.wanted \in Reservations
        /\ Distinct(file.journal) /\ Holds(file.journal)
        /\ c.granted => file.journal[c.operation] = c.wanted
    BY <1>1, WrittenFile DEF Writes, IInv, WritersOK, WriterOK
  <1>3. CASE ~c.granted
    <2>1. UNCHANGED handed
      BY <1>3 DEF Return
    <2>2. FileOK(file)'
      BY <1>1, <2>1, FileStays DEF IInv, FilesOK
    <2> QED BY <1>1, <2>1, <2>2, NoCallTyped, MoveKeeps DEF IInv, TypeOK
  <1>4. CASE c.granted
    <2>1. \A o \in Operations : handed'[o] = IF o = c.operation THEN handed[o] \cup {c.wanted} ELSE handed[o]
      BY <1>4 DEF Return, IInv, TypeOK
    <2>2. handed' \in [Operations -> SUBSET Reservations]
      BY <1>2, <1>4 DEF Return, IInv, TypeOK
    <2>3. \A o \in Intact' : \A r \in handed'[o] :
            file.journal[o] = r /\ r # NoRecord /\ r.tag # Garbled /\ o \in Keys
      BY <1>1, <1>2, <1>4, <2>1, <2>2, TagAssumption DEF Holds, Reservations, Intact, Keys
    <2>4. \A q \in Processes : /\ pc'[q] = IF q = p THEN "idle" ELSE pc[q]
                              /\ call'[q] = IF q = p THEN NoCall ELSE call[q]
      BY <1>1 DEF IInv, TypeOK, Goto
    <2>5. TypeOK'
      BY <1>1, <2>2, NoCallTyped DEF IInv, TypeOK, Goto, Calls
    <2>6. LockOK' /\ OpenedOK'
      BY <1>1, <1>2, <2>4 DEF IInv, LockOK, Writes, OpenedOK
    <2>7. FilesOK'
      BY <1>1, <1>2, <2>3 DEF FilesOK, FileOK, Holds
    <2>8. WritersOK'
      BY <1>2, <2>4 DEF WritersOK, WriterOK, Writes, IInv, LockOK
    <2>9. IntactTagsExclusive' /\ OneReservation'
      BY <1>2, <2>3 DEF IntactTagsExclusive, OneReservation, Distinct, Used
    <2> QED BY <2>5, <2>6, <2>7, <2>8, <2>9 DEF IInv
  <1> QED BY <1>3, <1>4

\* A file that is torn while a journal is written that holds what was handed.
LEMMA TornFile ==
    ASSUME NEW j \in Journals, Distinct(j), Holds(j)
    PROVE  /\ File("torn", j) \in Files /\ FileOK(File("torn", j))
           /\ File("torn", j).kind = "torn"
  BY DEF File, Files, FileOK

LEMMA DiesKeeps == ASSUME IInv, NEW p \in Processes, Dies(p) PROVE IInv'
  <1> DEFINE written == call[p].journal
  <1>1. /\ Goto(p, "idle") /\ call' = [call EXCEPT ![p] = NoCall] /\ lock' = lock \ {p}
        /\ UNCHANGED <<synced, handed, calls>> /\ faults' \in Nat /\ calls' \in Nat
    BY DEF Dies, Leave, Faulty, IInv, TypeOK
  <1>2. CASE UNCHANGED <<file, endangered>>
    <2>1. FileOK(file)'
      BY <1>1, <1>2 DEF IInv, FilesOK, FileOK, Holds, Intact
    <2> QED BY <1>1, <1>2, <2>1, NoCallTyped, MoveKeeps DEF IInv, TypeOK
  <1>3. ASSUME pc[p] = "write"
        PROVE  /\ lock = {p} /\ written \in Journals /\ Distinct(written) /\ Holds(written)
               /\ File("journal", written) \in Files /\ FileOK(File("journal", written))
               /\ File("journal", written).kind = "journal"
    <2>1. Writes(p)
      BY <1>3 DEF Writes
    <2>2. WriterOK(p) /\ written \in Journals
      BY DEF IInv, WritersOK, TypeOK
    <2> QED BY <2>1, <2>2, WrittenFile DEF WriterOK
  <1>4. CASE /\ pc[p] = "write" /\ UNCHANGED endangered
             /\ file' \in {File("torn", written), File("journal", written)}
    <2>1. file' \in Files /\ FileOK(file') /\ file'.kind # "absent" /\ p \in lock
      BY <1>3, <1>4, TornFile
    <2>2. FileOK(file)'
      BY <1>1, <1>4, <2>1 DEF FileOK, Holds, Intact
    <2> QED BY <1>1, <1>4, <2>1, <2>2, NoCallTyped, MoveKeeps DEF IInv, TypeOK
  <1>5. CASE pc[p] = "write" /\ file.kind = "journal" /\ Mixed(written, file.journal)
    <2>1. file.journal \in Journals
      BY DEF IInv, TypeOK, Files
    <2>2. /\ file' \in Files /\ FileOK(file)' /\ file'.kind = "journal"
          /\ endangered \subseteq endangered' /\ endangered' \subseteq Operations
      BY <1>1, <1>3, <1>5, <2>1, MixedFile
    <2> QED BY <1>1, <1>3, <1>5, <2>2, NoCallTyped, MoveKeeps
  <1> QED BY <1>2, <1>4, <1>5 DEF Dies

LEMMA PowerLossKeeps == ASSUME IInv, PowerLoss PROVE IInv'
  <1>1. /\ synced' = file' /\ lock' = {} /\ UNCHANGED <<handed, calls>> /\ faults' \in Nat
        /\ pc' = [p \in Processes |-> "idle"] /\ call' = [p \in Processes |-> NoCall]
    BY DEF PowerLoss, Faulty, IInv, TypeOK
  <1>2. /\ file.journal \in Journals /\ synced.journal \in Journals
        /\ Distinct(file.journal) /\ Distinct(synced.journal)
        /\ Holds(file.journal) /\ Holds(synced.journal)
    BY DEF IInv, TypeOK, Files, FilesOK, FileOK, Holds, Intact
  <1>3. /\ file' \in Files /\ FileOK(file)'
        /\ endangered \subseteq endangered' /\ endangered' \subseteq Operations
    <2>1. CASE file' \in {synced, file, File("torn", file.journal)} /\ UNCHANGED endangered
      <3>1. file' \in Files /\ FileOK(file')
        BY <1>2, <2>1, TornFile DEF IInv, TypeOK, FilesOK
      <3> QED BY <1>1, <2>1, <3>1 DEF FileOK, Holds, Intact, IInv, TypeOK
    <2>2. CASE Mixed(file.journal, synced.journal)
      BY <1>1, <1>2, <2>2, MixedFile
    <2>3. CASE Mixed(synced.journal, file.journal)
      BY <1>1, <1>2, <2>3, MixedFile
    <2> QED BY <2>1, <2>2, <2>3 DEF PowerLoss
  <1>4. TypeOK'
    BY <1>1, <1>3, NoCallTyped DEF IInv, TypeOK, Calls
  <1>5. LockOK' /\ OpenedOK' /\ WritersOK'
    BY <1>1 DEF LockOK, Writes, OpenedOK, WritersOK, WriterOK
  <1>6. FilesOK'
    BY <1>1, <1>3 DEF FilesOK, FileOK, Holds
  <1>7. IntactTagsExclusive' /\ OneReservation'
    BY <1>1, <1>3 DEF IInv, IntactTagsExclusive, OneReservation, Intact
  <1> QED BY <1>4, <1>5, <1>6, <1>7 DEF IInv

LEMMA StepIInv == ASSUME IInv, [Next]_vars PROVE IInv'
  <1>1. CASE UNCHANGED vars
    <2>1. TypeOK' /\ LockOK' /\ OpenedOK'
      BY <1>1 DEF vars, IInv, TypeOK, LockOK, Writes, OpenedOK
    <2>2. FilesOK'
      BY <1>1 DEF vars, IInv, FilesOK, FileOK, Holds, Intact
    <2>3. WritersOK'
      BY <1>1 DEF vars, IInv, WritersOK, WriterOK, Writes, Holds, Intact
    <2>4. IntactTagsExclusive' /\ OneReservation'
      BY <1>1 DEF vars, IInv, IntactTagsExclusive, OneReservation, Intact
    <2> QED BY <2>1, <2>2, <2>3, <2>4 DEF IInv
  <1> QED BY <1>1, OpenKeeps, ReserveKeeps, RefuseKeeps, WriteKeeps, SyncKeeps, ReturnKeeps, DiesKeeps,
             PowerLossKeeps DEF Next
-----------------------------------------------------------------------------
(* The lock, the file and what was handed out agree in every reachable state. *)
THEOREM TagsInvariant == Spec => []IInv
  <1>1. Init => IInv
    BY InitIInv
  <1>2. IInv /\ [Next]_vars => IInv'
    BY StepIInv
  <1> QED BY <1>1, <1>2, PTL DEF Spec

(* Files, calls and the lock keep their types.                               *)
THEOREM TagsTypeCorrect == Spec => []TypeOK
  <1>1. IInv => TypeOK
    BY DEF IInv
  <1> QED BY <1>1, TagsInvariant, PTL

(* No tag is handed to two operations, whatever races, dies or is lost, but  *)
(* for operations at or after the place in which a write was cut off.        *)
THEOREM NoTagTwice == Spec => []IntactTagsExclusive
  <1>1. IInv => IntactTagsExclusive
    BY DEF IInv
  <1> QED BY <1>1, TagsInvariant, PTL

(* Any other operation is handed one reservation, however often it retries.  *)
THEOREM OneTagEach == Spec => []OneReservation
  <1>1. IInv => OneReservation
    BY DEF IInv
  <1> QED BY <1>1, TagsInvariant, PTL

(* A journal that can be read, be it the mixture a cut-off write left, holds *)
(* every reservation such an operation was handed.                           *)
THEOREM HandedStays == Spec => []HandedIsKept
  <1>1. ASSUME IInv, NEW f \in {file, synced}, NEW o \in Intact, handed[o] # {}
        PROVE  f.kind = "torn" \/ (f.kind = "journal" /\ f.journal[o] \in handed[o])
    BY <1>1 DEF IInv, FilesOK, FileOK, Holds, Intact
  <1>2. IInv => HandedIsKept
    BY <1>1 DEF HandedIsKept
  <1> QED BY <1>2, TagsInvariant, PTL
=============================================================================
