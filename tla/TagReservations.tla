--------------------------- MODULE TagReservations ---------------------------
(***************************************************************************)
(* The reservation journal of Cloud Run tags (operators/cloud_run_tags.py)  *)
(* of one service: allocate_tag reads the journal under a lock, reserves    *)
(* the tag for the operation and writes the journal back in place.          *)
(*                                                                         *)
(* A process may die at any step, leaving the file empty or half written,   *)
(* and the machine may lose power, which leaves some pages as they were     *)
(* synced and others as they were written.  The new text is written over    *)
(* the old one, one record longer: where it stops, the old text goes on.    *)
(* Records are taken to be of one length (the digests are, and the tags     *)
(* that are shortened), so what stops inside a slot may well be readable.   *)
(*                                                                         *)
(* Operations are named by the place of their digest in the sorted text.    *)
(* The tag an operation asks for stands for the preferred tag, or for the   *)
(* short one derived from it.                                               *)
(***************************************************************************)
EXTENDS Integers, FiniteSets

CONSTANTS
    Processes,
    Operations,
    Strays,                    \* bound: keys no operation has, left by a cut through a key
    Candidates,
    Tags,
    NoRecord, Free, Unknown,   \* Unknown: in the inventory, nobody knows whose
    Garbled,                   \* a field that nobody asks for, left by a cut through it
    MaxCalls,                  \* bound: calls of allocate_tag
    MaxFaults                  \* bound: deaths and power losses

ASSUME TagAssumption ==
    /\ MaxCalls \in Nat /\ MaxFaults \in Nat
    /\ Free \notin Candidates /\ Unknown \notin Candidates \cup {Free}
    /\ Operations \subseteq Nat /\ Strays \subseteq Nat /\ Operations \cap Strays = {}
    /\ IsFiniteSet(Operations) /\ IsFiniteSet(Strays)
    /\ Garbled \notin Candidates \cup Tags
    /\ NoRecord \notin [candidate : Candidates \cup {Garbled}, tag : Tags \cup {Garbled}]

VARIABLES
    file,      \* the journal's file as any process reads it
    synced,    \* what of it survives a loss of power
    pc, call,
    lock,      \* {} or {its holder}
    handed,    \* operation -> reservations a caller was given
    endangered,    \* history: operations a readable mixture of two texts may have lost
    calls, faults

vars == <<file, synced, pc, call, lock, handed, endangered, calls, faults>>

Reservations == [candidate : Candidates, tag : Tags]

Blends == [candidate : {Garbled}, tag : Tags \cup {Garbled}]

Keys == Operations \cup Strays

Journals == [Keys -> Reservations \cup Blends \cup {NoRecord}]

Nothing == [k \in Keys |-> NoRecord]

File(kind, journal) == [kind |-> kind, journal |-> journal]

Absent == File("absent", Nothing)

NoCall == [operation |-> NoRecord, wanted |-> NoRecord, inventory |-> Free, created |-> FALSE,
           journal |-> Nothing, granted |-> FALSE]

Init ==
    /\ file = Absent /\ synced = Absent
    /\ pc = [p \in Processes |-> "idle"] /\ call = [p \in Processes |-> NoCall]
    /\ lock = {} /\ handed = [o \in Operations |-> {}] /\ endangered = {}
    /\ calls = 0 /\ faults = 0

Goto(p, step) == pc' = [pc EXCEPT ![p] = step]

\* O_CREAT with O_EXCL, or a plain open; inventory is the caller's entry for the tag.
Open(p, o, wanted, inventory) ==
    /\ pc[p] = "idle" /\ calls < MaxCalls /\ calls' = calls + 1
    /\ call' = [call EXCEPT ![p] = [NoCall EXCEPT !.operation = o, !.wanted = wanted,
                    !.inventory = inventory, !.created = (file.kind = "absent")]]
    /\ file' = IF file.kind = "absent" THEN File("empty", Nothing) ELSE file
    /\ Goto(p, "opened")
    /\ UNCHANGED <<synced, lock, handed, endangered, faults>>

\* An empty journal is a new one only for the process that created the file.
Readable(p) == file.kind = "journal" \/ (file.kind = "empty" /\ call[p].created)

\* Mutant: a candidate may be replaced under its operation.
Rebinds(c) == FALSE

Rebound(c) == file.journal[c.operation] \notin {NoRecord, c.wanted}

\* Mutant: only the caller's inventory tells whether a tag is taken.
NobodyElse(c) == FALSE

Reserved(c) ==
    \E k \in Keys \ {c.operation} :
        file.journal[k] # NoRecord /\ file.journal[k].tag = c.wanted.tag

Occupied(c) ==
    /\ c.inventory # Free
    /\ file.journal[c.operation] # c.wanted \/ c.inventory # c.wanted.candidate

Grants(c) == ~Rebound(c) /\ ~Reserved(c) /\ ~Occupied(c)

WithRecord(c) == [file.journal EXCEPT ![c.operation] = c.wanted]

\* A new journal is written even where the tag is refused.
Reserve(p) ==
    LET c == call[p] IN
    /\ pc[p] = "opened" /\ lock = {} /\ Readable(p)
    /\ Grants(c) \/ file.kind = "empty"
    /\ lock' = {p} /\ Goto(p, "write")
    /\ call' = [call EXCEPT ![p].granted = Grants(c),
                            ![p].journal = IF Grants(c) THEN WithRecord(c) ELSE file.journal]
    /\ UNCHANGED <<file, synced, handed, endangered, calls, faults>>

Leave(p) == Goto(p, "idle") /\ call' = [call EXCEPT ![p] = NoCall]

Refuse(p) ==
    /\ pc[p] = "opened" /\ lock = {}
    /\ ~Readable(p) \/ (file.kind = "journal" /\ ~Grants(call[p]))
    /\ Leave(p) /\ UNCHANGED <<file, synced, lock, handed, endangered, calls, faults>>

Write(p) ==
    /\ pc[p] = "write" /\ file' = File("journal", call[p].journal) /\ Goto(p, "sync")
    /\ UNCHANGED <<synced, call, lock, handed, endangered, calls, faults>>

\* Mutant: what was written is taken to be safe.
Unsynced == synced

Synced == file

\* The file, and the directory's entry for it.
Sync(p) ==
    /\ pc[p] = "sync" /\ synced' = Synced /\ Goto(p, "return")
    /\ UNCHANGED <<file, call, lock, handed, endangered, calls, faults>>

Return(p) ==
    /\ pc[p] = "return" /\ lock' = lock \ {p} /\ Leave(p)
    /\ handed' = IF call[p].granted
                 THEN [handed EXCEPT ![call[p].operation] = @ \cup {call[p].wanted}] ELSE handed
    /\ UNCHANGED <<file, synced, endangered, calls, faults>>

(***************************************************************************)
(* A text cut off inside another one: the slots of s, up to the place of a, *)
(* then the slots of t, from the place of b.                                *)
(***************************************************************************)
Used(j) == {k \in Keys : j[k] # NoRecord}

Slot(j, k) == Cardinality({q \in Used(j) : q < k})

SameSlot(s, t) == {ab \in Used(s) \X Used(t) : Slot(s, ab[1]) = Slot(t, ab[2])}

\* What the slot holds in which s ends and t goes on: the record of one of them, that
\* of t under a key of nobody, or a blend of both under the key of s.
CutSlot(s, t, a, b) ==
    {<<a, s[a]>>, <<b, t[b]>>}
    \cup (IF a = b THEN {} ELSE (Strays \ (Used(s) \cup Used(t))) \X {t[b]})
    \cup (IF s[a] = t[b] THEN {}
          ELSE {a} \X [candidate : {Garbled}, tag : {t[b].tag, Garbled}])

\* Of two records with one key the later is read.
Splice(s, t, a, b, m) ==
    [k \in Keys |-> IF k > b /\ t[k] # NoRecord THEN t[k]
                    ELSE IF k = m[1] THEN m[2]
                    ELSE IF k < a THEN s[k] ELSE NoRecord]

\* _journal_valid: no tag twice.
Distinct(j) ==
    \A k, l \in Used(j) : j[k].tag = j[l].tag => k = l \/ j[k].tag = Garbled

\* The texts that can be read.
Mixtures(s, t) ==
    {j \in UNION {{Splice(s, t, ab[1], ab[2], m) : m \in CutSlot(s, t, ab[1], ab[2])} :
                      ab \in SameSlot(s, t)} : Distinct(j)}

\* Every place from the first in which s and t differ.
From(s, t) == {o \in Operations : \E k \in Keys : k <= o /\ s[k] # t[k]}

\* The file becomes a mixture of two journals.
Mixed(s, t) ==
    /\ \E j \in Mixtures(s, t) \ {s, t} : file' = File("journal", j)
    /\ endangered' = endangered \cup From(s, t)

Faulty == faults < MaxFaults /\ faults' = faults + 1

\* A process dies, or its write raises; the write may have happened in part.
Dies(p) ==
    LET written == call[p].journal IN
    /\ Faulty /\ pc[p] # "idle" /\ Leave(p) /\ lock' = lock \ {p}
    /\ \/ UNCHANGED <<file, endangered>>
       \/ /\ pc[p] = "write" /\ UNCHANGED endangered
          /\ file' \in {File("torn", written), File("journal", written)}
       \/ pc[p] = "write" /\ file.kind = "journal" /\ Mixed(written, file.journal)
    /\ UNCHANGED <<synced, handed, calls>>

\* The file is as it was synced, as it was written, or neither.
PowerLoss ==
    /\ Faulty
    /\ \/ /\ file' \in {synced, file, File("torn", file.journal)} /\ UNCHANGED endangered
          /\ file'.kind = "torn" => file # synced
       \/ /\ file.kind \in {"journal", "torn"} /\ synced.kind = "journal"
          /\ Mixed(file.journal, synced.journal) \/ Mixed(synced.journal, file.journal)
    /\ synced' = file' /\ lock' = {}
    /\ pc' = [p \in Processes |-> "idle"] /\ call' = [p \in Processes |-> NoCall]
    /\ UNCHANGED <<handed, calls>>

Next ==
    \/ \E p \in Processes :
          \/ \E o \in Operations, r \in Reservations, i \in Candidates \cup {Free, Unknown} : Open(p, o, r, i)
          \/ Reserve(p) \/ Refuse(p) \/ Write(p) \/ Sync(p) \/ Return(p) \/ Dies(p)
    \/ PowerLoss

Spec == Init /\ [][Next]_vars
-----------------------------------------------------------------------------
Files == [kind : {"absent", "empty", "torn", "journal"}, journal : Journals]

\* The type of every variable, and the lock is held by the one who writes.
TypeOK ==
    /\ file \in Files /\ synced \in Files
    /\ pc \in [Processes -> {"idle", "opened", "write", "sync", "return"}]
    /\ call \in [Processes -> [operation : Operations \cup {NoRecord}, wanted : Reservations \cup {NoRecord},
                               inventory : Candidates \cup {Free, Unknown}, created : BOOLEAN,
                               journal : Journals, granted : BOOLEAN]]
    /\ lock \subseteq Processes
    /\ handed \in [Operations -> SUBSET Reservations] /\ endangered \subseteq Operations
    /\ calls \in Nat /\ faults \in Nat

\* An interrupted write reaches no operation that sorts before the record it adds.
Intact == Operations \ endangered

\* No tag is handed to two operations, whatever processes race, die or lose what they
\* wrote, unless a write was cut off at the place of one of them, or before it.
IntactTagsExclusive ==
    \A o, other \in Intact : \A r \in handed[o], s \in handed[other] : r.tag = s.tag => o = other

\* Such an operation is handed one tag for one candidate, however often it retries.
OneReservation == \A o \in Intact : \A r, s \in handed[o] : r = s

\* What was handed survives: as long as the journal can be read, also after a cut-off
\* write or a loss of power, it holds every reservation such an operation was given.
HandedIsKept ==
    \A f \in {file, synced}, o \in Intact :
        handed[o] # {} => f.kind = "torn" \/ (f.kind = "journal" /\ f.journal[o] \in handed[o])
=============================================================================
