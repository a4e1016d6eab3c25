--------------------- MODULE ReconciliationRecoveryProofs ---------------------
(***************************************************************************)
(* What a plan of recovery rests on, for any number of receipts, incidents, *)
(* controllers and changes of the account between them.                    *)
(***************************************************************************)
EXTENDS ReconciliationRecovery, FiniteSetTheorems, TLAPS

\* Only a complete read has a digest of the account's books.
ReceiptsOK ==
    /\ IsFiniteSet(receipts)
    /\ \A e \in receipts :
          e.at <= now /\ (e.book = Fragment <=> e.reading \in {"unread", "partial"})

\* A reconciled receipt of the very facts of c.
FoundIn(c, seen) == \E e \in seen : e.reading = "reconciled" /\ e.book = c.book

CandidatesOK ==
    /\ \A c \in candidates : c.kind # "v3" => FoundIn(c, receipts)
    /\ \A r \in records : r.candidate \in candidates

ConfirmationsOK ==
    \A confirmation \in confirmations :
        /\ confirmation.candidate \in candidates /\ confirmation.candidate.kind # "v1"
        /\ \A e \in confirmation.seen : e.at <= confirmation.at
        /\ confirmation.candidate.kind = "v2" => FoundIn(confirmation.candidate, confirmation.seen)

RecordsOK == \A r \in records : r.candidate.kind = "v2"

PlanOK(p) ==
    /\ p.confirmation \in confirmations /\ p.evidence \in receipts
    /\ p.evidence.at > p.confirmation.at
    /\ p.verified - p.confirmation.at <= MaxAge
    /\ p.evidence.book = p.confirmation.candidate.book /\ p.evidence.book \in Books
    /\ p.confirmation.candidate.kind = "v2" => p.evidence.reading = "reconciled"

PlansOK == \A controller \in Controllers : plan[controller] # NoPlan => PlanOK(plan[controller])

IInv == TypeOK /\ ReceiptsOK /\ CandidatesOK /\ RecordsOK /\ ConfirmationsOK /\ PlansOK

LEMMA InitIInv == Init => IInv
  <1>1. IsFiniteSet({})
    BY FS_EmptySet
  <1> QED BY <1>1, RecoveryAssumption
          DEF Init, IInv, TypeOK, ReceiptsOK, CandidatesOK, RecordsOK, ConfirmationsOK, PlansOK

\* What an action that stores nothing new leaves alone.
LEMMA NothingStored ==
    ASSUME IInv, UNCHANGED <<receipts, candidates, records, confirmations>>, now' \in Nat, now <= now',
           book' \in Books, target' \in Targets, state' \in {"RECONCILE_ONLY", "ACTIVE_LKG"}, incident' \in Nat,
           plan' \in [Controllers -> Plans \cup {NoPlan}], PlansOK'
    PROVE  IInv'
  <1>1. TypeOK'
    BY DEF IInv, TypeOK
  <1>2. ReceiptsOK'
    BY DEF IInv, TypeOK, ReceiptsOK, Receipts
  <1>3. CandidatesOK' /\ RecordsOK' /\ ConfirmationsOK'
    BY DEF IInv, CandidatesOK, RecordsOK, ConfirmationsOK
  <1> QED BY <1>1, <1>2, <1>3 DEF IInv

\* What is stored is never taken away, and plans do not depend on more.
LEMMA MoreStored ==
    ASSUME IInv, receipts \subseteq receipts', confirmations \subseteq confirmations', UNCHANGED plan
    PROVE  PlansOK'
  BY DEF IInv, PlansOK, PlanOK

LEMMA WorldKeeps ==
    ASSUME IInv,
           \/ Tick \/ Incident
           \/ \E b \in Books : BookChanges(b)
           \/ \E t \in Targets : Deploy(t)
    PROVE  IInv'
  <1>1. UNCHANGED <<receipts, candidates, records, confirmations, plan>>
    BY DEF Tick, Incident, BookChanges, Deploy
  <1>2. PlansOK'
    BY <1>1, MoreStored
  <1>3. now' \in Nat /\ now <= now' /\ incident' \in Nat
    BY DEF IInv, TypeOK, Tick, Incident, BookChanges, Deploy
  <1>4. book' \in Books /\ target' \in Targets /\ state' \in {"RECONCILE_ONLY", "ACTIVE_LKG"}
    BY DEF IInv, TypeOK, Tick, Incident, BookChanges, Deploy
  <1> QED BY <1>1, <1>2, <1>3, <1>4, NothingStored DEF IInv, TypeOK

LEMMA ObserveKeeps ==
    ASSUME IInv, NEW reading \in Readings, Observe(reading)
    PROVE  IInv'
  <1> DEFINE e == [at |-> now, reading |-> reading, target |-> target,
                   book |-> IF reading \in {"unread", "partial"} THEN Fragment ELSE book]
  <1>1. /\ receipts' = receipts \cup {e}
        /\ UNCHANGED <<now, book, target, state, incident, candidates, records, confirmations, plan>>
    BY DEF Observe
  <1>2. e \in Receipts /\ e.at = now /\ (e.book = Fragment <=> e.reading \in {"unread", "partial"})
    BY RecoveryAssumption DEF IInv, TypeOK, Receipts
  <1> HIDE DEF e
  <1>3. IsFiniteSet(receipts')
    BY <1>1, FS_AddElement DEF IInv, ReceiptsOK
  <1>4. ReceiptsOK'
    BY <1>1, <1>2, <1>3 DEF IInv, TypeOK, ReceiptsOK
  <1>5. TypeOK'
    BY <1>1, <1>2 DEF IInv, TypeOK
  <1>6. CandidatesOK' /\ RecordsOK' /\ ConfirmationsOK'
    BY <1>1 DEF IInv, CandidatesOK, FoundIn, RecordsOK, ConfirmationsOK
  <1>7. PlansOK'
    BY <1>1, MoreStored
  <1> QED BY <1>4, <1>5, <1>6, <1>7 DEF IInv

(***************************************************************************)
(* Candidates.                                                             *)
(***************************************************************************)
\* One or two receipts have a first and a last.
LEMMA Ends ==
    ASSUME IInv, NEW samples \in Pairs
    PROVE  /\ First(samples) \in samples /\ Last(samples) \in samples
           /\ First(samples).at <= Last(samples).at
  <1>1. samples \subseteq receipts /\ IsFiniteSet(samples) /\ Cardinality(samples) \in {1, 2}
    BY FS_Subset DEF IInv, ReceiptsOK, Pairs
  <1>2. \A e \in samples : e.at \in Nat
    BY <1>1 DEF IInv, TypeOK, Receipts
  <1>3. PICK x, y : samples = {x, y}
    <2>1. PICK x : x \in samples
      BY <1>1, FS_EmptySet
    <2>2. IsFiniteSet(samples \ {x}) /\ Cardinality(samples \ {x}) = Cardinality(samples) - 1
      BY <1>1, <2>1, FS_RemoveElement
    <2>3. CASE Cardinality(samples) = 1
      <3>1. samples \ {x} = {}
        BY <2>2, <2>3, FS_EmptySet
      <3> QED BY <2>1, <3>1
    <2>4. CASE Cardinality(samples) = 2
      <3>1. Cardinality(samples \ {x}) = 1
        BY <2>2, <2>4
      <3>2. \E y : samples \ {x} = {y}
        BY <2>2, <3>1, FS_Singleton
      <3> QED BY <2>1, <3>2
    <2> QED BY <1>1, <2>3, <2>4
  <1>4. \E e \in samples : \A f \in samples : e.at <= f.at
    BY <1>2, <1>3
  <1>5. \E e \in samples : \A f \in samples : f.at <= e.at
    BY <1>2, <1>3
  <1>6. First(samples) \in samples /\ \A f \in samples : First(samples).at <= f.at
    BY <1>4 DEF First
  <1>7. Last(samples) \in samples
    BY <1>5 DEF Last
  <1> QED BY <1>6, <1>7

LEMMA CandidateKeeps ==
    ASSUME IInv, NEW c \in Candidates, c.first <= c.last, c.complete <=> c.book \in Books,
           c.kind # "v3" => FoundIn(c, receipts),
           candidates' = candidates \cup {c},
           UNCHANGED <<now, book, target, state, incident, receipts, records, confirmations, plan>>
    PROVE  IInv'
  <1>1. TypeOK'
    BY DEF IInv, TypeOK
  <1>2. ReceiptsOK' /\ RecordsOK'
    BY DEF IInv, ReceiptsOK, RecordsOK
  <1>3. CandidatesOK' /\ ConfirmationsOK'
    BY DEF IInv, CandidatesOK, ConfirmationsOK
  <1>4. PlansOK'
    BY MoreStored
  <1> QED BY <1>1, <1>2, <1>3, <1>4 DEF IInv

LEMMA EnrollKeeps ==
    ASSUME IInv, NEW kind \in {"v1", "v2"}, NEW samples \in Pairs, Enroll(kind, samples)
    PROVE  IInv'
  <1> DEFINE e == First(samples)  f == Last(samples)  c == Candidate(kind, samples)
  <1>1. e \in samples /\ f \in samples /\ e.at <= f.at
    BY Ends
  <1>2. e \in receipts /\ f \in receipts /\ e \in Receipts /\ f \in Receipts
    BY <1>1 DEF Pairs, IInv, TypeOK
  <1>3. e.reading = "reconciled" /\ e.book \in Books
    BY <1>1, <1>2 DEF Enroll, Reconciled, IInv, ReceiptsOK, Receipts
  <1>4. c = [kind |-> kind, book |-> e.book, complete |-> TRUE, first |-> e.at, last |-> f.at]
    BY <1>3 DEF Candidate
  <1>5. candidates' = candidates \cup {c}
    BY DEF Enroll
  <1> HIDE DEF c, e, f
  <1>6. c \in Candidates /\ c.first <= c.last /\ (c.complete <=> c.book \in Books) /\ c.book = e.book
    BY <1>1, <1>2, <1>3, <1>4 DEF Candidates, Receipts
  <1>7. FoundIn(c, receipts)
    BY <1>2, <1>3, <1>6 DEF FoundIn
  <1> QED BY <1>5, <1>6, <1>7, CandidateKeeps DEF Enroll

LEMMA EnrollInitialKeeps ==
    ASSUME IInv, NEW e \in receipts, EnrollInitial(e)
    PROVE  IInv'
  <1> DEFINE c == Candidate("v3", {e})
  <1>1. First({e}) = e /\ Last({e}) = e
    BY DEF First, Last, IInv, TypeOK, Receipts
  <1>2. c = [kind |-> "v3", book |-> e.book, complete |-> e.reading # "partial",
             first |-> e.at, last |-> e.at]
    BY <1>1 DEF Candidate
  <1>3. e \in Receipts /\ e.reading # "unread" /\ (e.book = Fragment <=> e.reading = "partial")
    BY DEF EnrollInitial, IInv, TypeOK, ReceiptsOK
  <1>4. candidates' = candidates \cup {c}
    BY DEF EnrollInitial
  <1> HIDE DEF c
  <1>5. c \in Candidates /\ c.first <= c.last /\ c.kind = "v3"
    BY <1>2, <1>3 DEF Candidates, Receipts
  <1>6. c.complete <=> c.book \in Books
    BY <1>2, <1>3, RecoveryAssumption DEF Receipts
  <1> QED BY <1>4, <1>5, <1>6, CandidateKeeps DEF EnrollInitial

(***************************************************************************)
(* Confirmations and plans.                                                *)
(***************************************************************************)
LEMMA PublishKeeps ==
    ASSUME IInv, NEW c \in candidates, Publish(c)
    PROVE  IInv'
  <1> DEFINE r == [recovery |-> incident, candidate |-> c]
  <1>1. /\ records' = records \cup {r} /\ c.kind = "v2"
        /\ UNCHANGED <<now, book, target, state, incident, receipts, candidates, confirmations, plan>>
    BY DEF Publish, SourceBound
  <1>2. r \in Records /\ r.candidate = c
    BY DEF IInv, TypeOK, Records
  <1> HIDE DEF r
  <1>3. TypeOK' /\ ReceiptsOK'
    BY <1>1, <1>2 DEF IInv, TypeOK, ReceiptsOK
  <1>4. CandidatesOK' /\ RecordsOK' /\ ConfirmationsOK'
    BY <1>1, <1>2 DEF IInv, CandidatesOK, RecordsOK, ConfirmationsOK
  <1> QED BY <1>1, <1>3, <1>4, MoreStored DEF IInv

LEMMA ConfirmKeeps ==
    ASSUME IInv, NEW c \in candidates, Confirm(c)
    PROVE  IInv'
  <1> DEFINE confirmation == [recovery |-> incident, candidate |-> c, at |-> now, seen |-> receipts]
  <1>1. /\ confirmations' = confirmations \cup {confirmation}
        /\ UNCHANGED <<now, book, target, state, incident, receipts, candidates, records, plan>>
    BY DEF Confirm
  <1>2. c.kind \in {"v2", "v3"}
    <2>1. CASE [recovery |-> incident, candidate |-> c] \in records
      BY <2>1 DEF IInv, RecordsOK
    <2> QED BY <2>1 DEF Confirm
  <1>3. /\ confirmation \in Confirmations /\ confirmation.candidate = c
        /\ confirmation.at = now /\ confirmation.seen = receipts
    BY DEF IInv, TypeOK, Confirmations
  <1>4. c.kind = "v2" => FoundIn(c, receipts)
    BY DEF IInv, CandidatesOK
  <1> HIDE DEF confirmation
  <1>5. TypeOK' /\ ReceiptsOK'
    BY <1>1, <1>3 DEF IInv, TypeOK, ReceiptsOK
  <1>6. CandidatesOK' /\ RecordsOK'
    BY <1>1 DEF IInv, CandidatesOK, RecordsOK
  <1>7. ConfirmationsOK'
    BY <1>1, <1>2, <1>3, <1>4 DEF IInv, ConfirmationsOK, ReceiptsOK
  <1> QED BY <1>1, <1>5, <1>6, <1>7, MoreStored DEF IInv

\* What a receipt that activates a confirmation says.
LEMMA ActivationFacts ==
    ASSUME IInv, NEW confirmation \in confirmations, NEW e \in receipts, Activates(e, confirmation)
    PROVE  /\ e.at > confirmation.at /\ now - confirmation.at <= MaxAge
           /\ e.book = confirmation.candidate.book /\ e.book \in Books
           /\ confirmation.candidate.kind = "v2" => e.reading = "reconciled"
  <1>1. confirmation.candidate \in candidates /\ e \in Receipts
    BY DEF IInv, TypeOK, ConfirmationsOK
  <1>2. confirmation.candidate.complete <=> confirmation.candidate.book \in Books
    BY <1>1 DEF IInv, TypeOK
  <1>3. e.reading = "reconciled" => e.book \in Books
    BY <1>1 DEF IInv, ReceiptsOK, Receipts
  <1> QED BY <1>2, <1>3 DEF Activates, Fresh, ReobservedAfter, Recovers, Reconciled, InitialActivation

LEMMA EvaluateKeeps ==
    ASSUME IInv, NEW controller \in Controllers, NEW confirmation \in confirmations, NEW e \in receipts,
           Evaluate(controller, confirmation, e)
    PROVE  IInv'
  <1> DEFINE p == [recovery |-> incident, confirmation |-> confirmation, evidence |-> e, verified |-> now]
  <1>1. /\ plan' = [plan EXCEPT ![controller] = p] /\ Activates(e, confirmation)
        /\ UNCHANGED <<now, book, target, state, incident, receipts, candidates, records, confirmations>>
    BY DEF Evaluate
  <1>2. p \in Plans
    BY DEF IInv, TypeOK, Plans
  <1>3. PlanOK(p)
    BY <1>1, ActivationFacts DEF PlanOK
  <1> HIDE DEF p
  <1>4. plan' \in [Controllers -> Plans \cup {NoPlan}] /\ PlansOK'
    BY <1>1, <1>2, <1>3 DEF IInv, TypeOK, PlansOK, PlanOK
  <1>5. now' \in Nat /\ now <= now'
    BY <1>1 DEF IInv, TypeOK
  <1> QED BY <1>1, <1>4, <1>5, NothingStored DEF IInv, TypeOK

LEMMA ApplyKeeps ==
    ASSUME IInv, NEW controller \in Controllers, Apply(controller)
    PROVE  IInv'
  <1>1. plan' \in [Controllers -> Plans \cup {NoPlan}] /\ PlansOK'
    BY DEF Apply, IInv, TypeOK, PlansOK, PlanOK
  <1>2. now' \in Nat /\ now <= now'
    BY DEF Apply, IInv, TypeOK
  <1>3. state' \in {"RECONCILE_ONLY", "ACTIVE_LKG"}
    BY DEF Apply, IInv, TypeOK
  <1> QED BY <1>1, <1>2, <1>3, NothingStored DEF Apply, IInv, TypeOK

LEMMA StepIInv == ASSUME IInv, [Next]_vars PROVE IInv'
  <1>1. CASE UNCHANGED vars
    <2>1. PlansOK'
      BY <1>1, MoreStored DEF vars
    <2>2. now' \in Nat /\ now <= now'
      BY <1>1 DEF vars, IInv, TypeOK
    <2> QED BY <1>1, <2>1, <2>2, NothingStored DEF vars, IInv, TypeOK
  <1> QED BY <1>1, WorldKeeps, ObserveKeeps, EnrollKeeps, EnrollInitialKeeps, PublishKeeps, ConfirmKeeps,
             EvaluateKeeps, ApplyKeeps DEF Next
-----------------------------------------------------------------------------
(* Receipts, candidates, confirmations and plans fit together in every       *)
(* reachable state.                                                          *)
THEOREM RecoveryInvariant == Spec => []IInv
  <1>1. Init => IInv
    BY InitIInv
  <1>2. IInv /\ [Next]_vars => IInv'
    BY StepIInv
  <1> QED BY <1>1, <1>2, PTL DEF Spec

(* Everything stored keeps its type; a candidate that claims complete facts  *)
(* has the digest of a complete read.                                        *)
THEOREM RecoveryTypeCorrect == Spec => []TypeOK
  <1>1. IInv => TypeOK
    BY DEF IInv
  <1> QED BY <1>1, RecoveryInvariant, PTL

\* A receipt after the confirmation is none of those there were.
LEMMA EvidenceIsNew ==
    ASSUME IInv, NEW p, PlanOK(p)
    PROVE  p.evidence \notin p.confirmation.seen
  <1>1. p.evidence.at \in Nat /\ p.confirmation.at \in Nat
    BY DEF PlanOK, IInv, TypeOK, Receipts, Confirmations
  <1> QED BY <1>1 DEF PlanOK, IInv, ConfirmationsOK

(* A plan rests on a receipt made after the confirmation, of the facts that  *)
(* were confirmed.                                                           *)
THEOREM PlansAreWitnessed == Spec => []PlanIsWitnessed
  <1>1. ASSUME IInv PROVE PlanIsWitnessed
    BY <1>1, EvidenceIsNew DEF IInv, PlansOK, PlanOK, ConfirmationsOK, PlanIsWitnessed
  <1> QED BY <1>1, RecoveryInvariant, PTL

(* The facts of a source-bound plan were found before the operator confirmed *)
(* them and again after.                                                     *)
THEOREM FactsReconciledTwice == Spec => []ReconciledTwice
  <1>1. ASSUME IInv, NEW controller \in Controllers, plan[controller] # NoPlan,
               plan[controller].confirmation.candidate.kind = "v2"
        PROVE  \E e \in plan[controller].confirmation.seen, f \in receipts :
                   /\ e.at < f.at /\ f \notin plan[controller].confirmation.seen
                   /\ \A g \in {e, f} : /\ g.reading = "reconciled"
                                       /\ g.book = plan[controller].confirmation.candidate.book
    <2> DEFINE p == plan[controller]
    <2>1. PlanOK(p) /\ p.evidence \notin p.confirmation.seen
      BY <1>1, EvidenceIsNew DEF IInv, PlansOK
    <2>2. PICK e \in p.confirmation.seen : e.reading = "reconciled" /\ e.book = p.confirmation.candidate.book
      BY <1>1, <2>1 DEF IInv, ConfirmationsOK, PlanOK, FoundIn
    <2>3. e.at <= p.confirmation.at /\ e.at \in Nat /\ p.confirmation.at \in Nat /\ p.evidence.at \in Nat
      BY <1>1, <2>1 DEF IInv, TypeOK, ConfirmationsOK, PlanOK, Confirmations, Receipts
    <2>4. e.at < p.evidence.at
      BY <2>1, <2>3 DEF PlanOK
    <2> QED BY <1>1, <2>1, <2>2, <2>4 DEF PlanOK
  <1>2. IInv => ReconciledTwice
    BY <1>1 DEF ReconciledTwice
  <1> QED BY <1>2, RecoveryInvariant, PTL

(* Trading resumes only as an operator confirmed and a later receipt found.  *)
THEOREM ResumesOnlyAsConfirmed == Spec => ResumesAsConfirmed
  <1>1. ASSUME IInv, [Next]_vars, state = "RECONCILE_ONLY", state' = "ACTIVE_LKG"
        PROVE  /\ target = Baseline
               /\ \E confirmation \in confirmations, e \in receipts :
                      /\ e \notin confirmation.seen
                      /\ e.book = book /\ confirmation.candidate.book = book
    <2>1. PICK controller \in Controllers : Apply(controller)
      BY <1>1 DEF Next, vars, Tick, Incident, BookChanges, Deploy, Observe, Enroll, EnrollInitial, Publish,
                  Confirm, Evaluate
    <2>2. plan[controller] # NoPlan /\ Exact(plan[controller])
      BY <1>1, <2>1 DEF Apply
    <2>3. PlanOK(plan[controller])
      BY <1>1, <2>2 DEF IInv, PlansOK
    <2> QED BY <1>1, <2>2, <2>3, EvidenceIsNew DEF Exact, PlanOK
  <1>2. IInv /\ [Next]_vars => [state = "RECONCILE_ONLY" /\ state' = "ACTIVE_LKG" =>
            /\ target = Baseline
            /\ \E confirmation \in confirmations, e \in receipts :
                   /\ e \notin confirmation.seen
                   /\ e.book = book /\ confirmation.candidate.book = book]_vars
    BY <1>1
  <1> QED BY <1>2, RecoveryInvariant, PTL DEF Spec, ResumesAsConfirmed
=============================================================================
