------------------------- MODULE StrategyRiskChain -------------------------
(***************************************************************************)
(* Writers of one strategy's risk state chain (StrategyRiskStateStore).    *)
(*                                                                         *)
(* The root object has a place of its own, every other transition is       *)
(* stored under the digest of its predecessor, and objects are only        *)
(* created.  append walks the chain from the root, one read at a time,     *)
(* decides at its end, and then creates the object there.  A store call    *)
(* can raise, and what a create was to write may be durable nevertheless.  *)
(*                                                                         *)
(* A transition is named by its content, so it is its own digest, and the  *)
(* place of the root is what a root gives as its predecessor.  All         *)
(* transitions have the identity of this chain: another identity is        *)
(* another directory.                                                      *)
(***************************************************************************)
EXTENDS Integers, Sequences, FiniteSets

CONSTANTS
    Transitions, Root, Previous, EffectiveSession, Writers,
    Absent,         \* no object
    MaxCalls,       \* bound: append calls of all writers
    MaxFaults       \* bound: store calls that raise

ASSUME ChainAssumption ==
    /\ Root \notin Transitions /\ Absent \notin Transitions
    /\ Previous \in [Transitions -> Transitions \cup {Root}]
    /\ EffectiveSession \in [Transitions -> Nat]
    /\ MaxCalls \in Nat /\ MaxFaults \in Nat

VARIABLES
    object,     \* place -> the transition stored there
    job,        \* writer -> the transition it appends, and the chain read so far
    pc,
    receipts,   \* how calls ended
    calls, faults

vars == <<object, job, pc, receipts, calls, faults>>

Places == Transitions \cup {Root}

Stored == {object[p] : p \in Places} \ {Absent}

History == INSTANCE RiskStateHistory WITH recorded <- Stored

\* Mutant: the walk does not advance.
RootAgain(chain) == Root

\* The place after a chain: the root's, or the one named by its last digest.
End(chain) == IF chain = <<>> THEN Root ELSE chain[Len(chain)]

\* Mutant: only the head is looked at.
IsHead(t, chain) == chain # <<>> /\ t = chain[Len(chain)]

InChain(t, chain) == \E i \in 1..Len(chain) : chain[i] = t

\* Mutant: a transition may be of its predecessor's session.
FollowsSameSession(t, chain) ==
    /\ Previous[t] = End(chain)
    /\ chain # <<>> => EffectiveSession[chain[Len(chain)]] <= EffectiveSession[t]

Follows(t, chain) ==
    /\ Previous[t] = End(chain)
    /\ chain # <<>> => EffectiveSession[chain[Len(chain)]] < EffectiveSession[t]

NoJob == [target |-> Absent, chain |-> <<>>]

Init ==
    /\ object = [p \in Places |-> Absent]
    /\ job = [w \in Writers |-> NoJob]
    /\ pc = [w \in Writers |-> "idle"]
    /\ receipts = {}
    /\ calls = 0
    /\ faults = 0

Begin(w, t) ==
    /\ pc[w] = "idle" /\ calls < MaxCalls
    /\ job' = [job EXCEPT ![w] = [target |-> t, chain |-> <<>>]]
    /\ pc' = [pc EXCEPT ![w] = "walk"]
    /\ calls' = calls + 1
    /\ UNCHANGED <<object, receipts, faults>>

\* What stands at the end of the chain that w has read so far.
Ahead(w) == object[End(job[w].chain)]

\* load_chain accepts the next object; one that does not follow would end the
\* call, and ChainReadable says there is none.
ReadNext(w) ==
    /\ pc[w] = "walk" /\ Ahead(w) # Absent
    /\ Follows(Ahead(w), job[w].chain)
    /\ job' = [job EXCEPT ![w].chain = Append(@, Ahead(w))]
    /\ UNCHANGED <<object, pc, receipts, calls, faults>>

\* The call returns or raises.
Return(w, status, length) ==
    /\ receipts' = receipts \cup
           {[of |-> job[w].target, status |-> status, length |-> length]}
    /\ pc' = [pc EXCEPT ![w] = "idle"]
    /\ job' = [job EXCEPT ![w] = NoJob]

\* The end of the chain: the transition is there, cannot follow, or is to be created.
Decide(w) ==
    LET t == job[w].target
        chain == job[w].chain
    IN  /\ pc[w] = "walk" /\ Ahead(w) = Absent
        /\ \/ InChain(t, chain) /\ Return(w, "already_appended", Len(chain))
           \/ ~InChain(t, chain) /\ ~Follows(t, chain) /\ Return(w, "refused", 0)
           \/ /\ ~InChain(t, chain) /\ Follows(t, chain)
              /\ pc' = [pc EXCEPT ![w] = "create"] /\ UNCHANGED <<job, receipts>>
        /\ UNCHANGED <<object, calls, faults>>

Vacant(p) == object[p] = Absent

Put(w) == object' = [object EXCEPT ![End(job[w].chain)] = job[w].target]

Create(w) ==
    /\ pc[w] = "create" /\ Vacant(End(job[w].chain))
    /\ Put(w)
    /\ Return(w, "created", Len(job[w].chain) + 1)
    /\ UNCHANGED <<calls, faults>>

\* Mutant: whoever lost the place is told that its transition is there.
AnyIsMine(w) == TRUE

Mine(w) == Ahead(w) = job[w].target

\* The place is taken: the writer reads what is there.
CreateFails(w) ==
    /\ pc[w] = "create" /\ ~Vacant(End(job[w].chain))
    /\ \/ Mine(w) /\ Return(w, "already_appended", Len(job[w].chain) + 1)
       \/ ~Mine(w) /\ Return(w, "conflict", 0)
    /\ UNCHANGED <<object, calls, faults>>

\* A store call raises, or the process dies; a create may have happened.
StoreRaises(w) ==
    /\ pc[w] # "idle" /\ faults < MaxFaults
    /\ faults' = faults + 1
    /\ \/ UNCHANGED object
       \/ pc[w] = "create" /\ Vacant(End(job[w].chain)) /\ Put(w)
    /\ pc' = [pc EXCEPT ![w] = "idle"]
    /\ job' = [job EXCEPT ![w] = NoJob]
    /\ UNCHANGED <<receipts, calls>>

Work(w) == ReadNext(w) \/ Decide(w) \/ Create(w) \/ CreateFails(w)

Next ==
    \E w \in Writers :
        \/ \E t \in Transitions : Begin(w, t)
        \/ Work(w)
        \/ StoreRaises(w)

Spec == Init /\ [][Next]_vars
-----------------------------------------------------------------------------
Statuses == {"created", "already_appended", "refused", "conflict"}

Job == [target : Transitions \cup {Absent}, chain : Seq(Transitions)]

\* The store holds transitions, a writer one of them and the chain it has read.
TypeOK ==
    /\ object \in [Places -> Transitions \cup {Absent}]
    /\ job \in [Writers -> Job]
    /\ pc \in [Writers -> {"idle", "walk", "create"}]
    /\ \A w \in Writers : pc[w] # "idle" => job[w].target \in Transitions
    /\ receipts \subseteq [of : Transitions, length : Nat, status : Statuses]
    /\ calls \in Nat /\ faults \in Nat

\* append, whatever writers race and retry, extends one history: the store
\* never forks, goes back in time or loses a transition.
ImplementsHistory == History!Spec

\* load_chain never meets an object it refuses: a chain stays readable.
ChainReadable ==
    \A w \in Writers :
        pc[w] = "walk" /\ Ahead(w) # Absent => Follows(Ahead(w), job[w].chain)

Position(t) == Cardinality({u \in Stored : EffectiveSession[u] <= EffectiveSession[t]})

\* append's receipts are true for ever: what was created or already there is
\* stored, at the stated length or before it; what met a conflict never is.
ReceiptsTrue ==
    \A r \in receipts :
        /\ r.status = "created" => r.of \in Stored /\ Position(r.of) = r.length
        /\ r.status = "already_appended" =>
               r.of \in Stored /\ Position(r.of) <= r.length /\ r.length <= Cardinality(Stored)
        /\ r.status = "conflict" => r.of \notin Stored

\* A writer that repeats an append that took effect is not refused.
RefusedIsAbsent ==
    [][\A r \in receipts' \ receipts :
           r.status \in {"refused", "conflict"} => r.of \notin Stored]_vars
=============================================================================
