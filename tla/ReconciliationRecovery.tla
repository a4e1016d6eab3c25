----------------------- MODULE ReconciliationRecovery -----------------------
(***************************************************************************)
(* How an account that was put to RECONCILE_ONLY trades again              *)
(* (reconciliation_recovery, broker_reconciliation and its enrollment).    *)
(*                                                                         *)
(* Receipts of broker reads become a candidate; an operator confirms it; a *)
(* controller evaluates the confirmation with another receipt, and hands   *)
(* the plan it gets to the platform's compare-and-set.  A candidate of     *)
(* kind v1 has no source root, one of kind v3 enrolls an account whose     *)
(* facts nothing could yet be reconciled with.                             *)
(*                                                                         *)
(* The five state digests are one value, the platform, strategy, account   *)
(* and baseline are fixed, content digests are the content itself, and all *)
(* clocks agree.  The operator, the broker, deployments and the            *)
(* compare-and-set are outside the library; the last is taken at its best. *)
(***************************************************************************)
EXTENDS Integers, FiniteSets

CONSTANTS
    Books,        \* states of positions, cash, orders, executions and ledger
    Fragment,     \* the digest of an incomplete read
    Targets, Baseline,
    Controllers,
    MaxAge, MaxSpan,
    MaxTime, MaxReceipts, MaxCandidates, MaxConfirmations, MaxIncidents   \* bounds

ASSUME RecoveryAssumption ==
    /\ Fragment \notin Books /\ Baseline \in Targets
    /\ MaxAge \in Nat \ {0} /\ MaxSpan \in Nat \ {0}
    /\ \A bound \in {MaxTime, MaxReceipts, MaxCandidates, MaxConfirmations, MaxIncidents} : bound \in Nat

VARIABLES
    now, book, target,
    state,          \* live continuity: "RECONCILE_ONLY" or "ACTIVE_LKG"
    incident,       \* which recovery the account is in, or was in last
    receipts, candidates, records, confirmations,
    plan            \* controller -> the plan it holds, or NoPlan

vars == <<now, book, target, state, incident, receipts, candidates, records, confirmations, plan>>

NoPlan == [recovery |-> 0]

Init ==
    /\ now = 0 /\ book \in Books /\ target = Baseline
    /\ state = "RECONCILE_ONLY" /\ incident = 1
    /\ receipts = {} /\ candidates = {} /\ records = {} /\ confirmations = {}
    /\ plan = [c \in Controllers |-> NoPlan]

(***************************************************************************)
(* The world.                                                              *)
(***************************************************************************)
Tick ==
    /\ now < MaxTime /\ now' = now + 1
    /\ UNCHANGED <<book, target, state, incident, receipts, candidates, records, confirmations, plan>>

BookChanges(b) ==
    /\ b # book /\ book' = b
    /\ UNCHANGED <<now, target, state, incident, receipts, candidates, records, confirmations, plan>>

Deploy(t) ==
    /\ t # target /\ target' = t
    /\ UNCHANGED <<now, book, state, incident, receipts, candidates, records, confirmations, plan>>

Incident ==
    /\ state = "ACTIVE_LKG" /\ incident < MaxIncidents
    /\ state' = "RECONCILE_ONLY" /\ incident' = incident + 1
    /\ UNCHANGED <<now, book, target, receipts, candidates, records, confirmations, plan>>

(***************************************************************************)
(* Receipts.                                                               *)
(***************************************************************************)
Readings == {"unread", "partial", "unreconciled", "reconciled"}

\* A read of the broker and of the target, with what the producer makes of it:
\* no connection or the wrong account, incomplete, unexplained, or reconciled.
Observe(reading) ==
    /\ Cardinality(receipts) < MaxReceipts
    /\ receipts' = receipts \cup
           {[at |-> now, reading |-> reading, target |-> target,
             book |-> IF reading \in {"unread", "partial"} THEN Fragment ELSE book]}
    /\ UNCHANGED <<now, book, target, state, incident, candidates, records, confirmations, plan>>

Fresh(at) == at <= now /\ now - at <= MaxAge

(***************************************************************************)
(* Candidates.                                                             *)
(***************************************************************************)
\* Mutant: the producer's reconciliation is not asked for.
Readable(e) == e.reading # "unread" /\ e.target = Baseline

Reconciled(e) == e.reading = "reconciled" /\ e.target = Baseline

SameObservation(e, f) == e.book = f.book /\ e.target = f.target

First(samples) == CHOOSE e \in samples : \A f \in samples : e.at <= f.at

Last(samples) == CHOOSE e \in samples : \A f \in samples : f.at <= e.at

Candidate(kind, samples) ==
    [kind |-> kind, book |-> First(samples).book, complete |-> First(samples).reading # "partial",
     first |-> First(samples).at, last |-> Last(samples).at]

\* evaluate_broker_reconciliation_baseline_enrollment, with a source root (v2) or without.
Enroll(kind, samples) ==
    /\ Cardinality(candidates) < MaxCandidates
    /\ samples # {} /\ (kind = "v1" => Cardinality(samples) >= 2)
    /\ Last(samples).at - First(samples).at <= MaxSpan
    /\ \A e \in samples : Fresh(e.at) /\ Reconciled(e) /\ SameObservation(First(samples), e)
    /\ candidates' = candidates \cup {Candidate(kind, samples)}
    /\ UNCHANGED <<now, book, target, state, incident, receipts, records, confirmations, plan>>

\* build_initial_enrollment_candidate.
EnrollInitial(e) ==
    /\ Cardinality(candidates) < MaxCandidates
    /\ Fresh(e.at) /\ e.reading # "unread" /\ e.target = Baseline
    /\ candidates' = candidates \cup {Candidate("v3", {e})}
    /\ UNCHANGED <<now, book, target, state, incident, receipts, records, confirmations, plan>>

(***************************************************************************)
(* Records and confirmations.                                              *)
(***************************************************************************)
SourceBound(c) == c.kind = "v2"

\* build_reconciliation_recovery_record, when nothing blocks it.
Publish(c) ==
    /\ state = "RECONCILE_ONLY"
    /\ SourceBound(c) /\ c.last - c.first <= MaxSpan /\ Fresh(c.last)
    /\ records' = records \cup {[recovery |-> incident, candidate |-> c]}
    /\ UNCHANGED <<now, book, target, state, incident, receipts, candidates, confirmations, plan>>

\* The operator confirms a record, or the displayed facts of an initial candidate.
\* "seen" is kept for the properties: the receipts there were.
Confirm(c) ==
    /\ state = "RECONCILE_ONLY" /\ Cardinality(confirmations) < MaxConfirmations
    /\ [recovery |-> incident, candidate |-> c] \in records \/ c.kind = "v3"
    /\ confirmations' = confirmations \cup
           {[recovery |-> incident, candidate |-> c, at |-> now, seen |-> receipts]}
    /\ UNCHANGED <<now, book, target, state, incident, receipts, candidates, records, plan>>

(***************************************************************************)
(* Activation.                                                             *)
(***************************************************************************)
\* Mutant: a receipt of the same second will do.
NotBefore(e, confirmation) == e.at >= confirmation.at

ReobservedAfter(e, confirmation) == e.at > confirmation.at

\* Mutant: the digests are not compared again.
OnlyReconciled(e, c) == Reconciled(e)

\* evaluate_broker_reconciliation_recovery, against the candidate's digests.
Recovers(e, c) == Reconciled(e) /\ e.book = c.book

\* _evaluate_initial_activation: unchanged, complete, and confirmed in time.
InitialActivation(e, confirmation) ==
    LET c == confirmation.candidate IN
    /\ c.last <= confirmation.at /\ confirmation.at - c.last <= MaxAge
    /\ c.complete
    /\ e.reading # "unread" /\ e.target = Baseline /\ e.book = c.book

Activates(e, confirmation) ==
    /\ Fresh(confirmation.at) /\ Fresh(e.at) /\ ReobservedAfter(e, confirmation)
    /\ \/ confirmation.candidate.kind = "v2" /\ Recovers(e, confirmation.candidate)
       \/ confirmation.candidate.kind = "v3" /\ InitialActivation(e, confirmation)

\* evaluate_reconciliation_recovery_activation, for the recovery at hand.
Evaluate(controller, confirmation, e) ==
    /\ plan[controller] = NoPlan /\ state = "RECONCILE_ONLY"
    /\ confirmation.recovery = incident
    /\ Activates(e, confirmation)
    /\ plan' = [plan EXCEPT ![controller] =
           [recovery |-> incident, confirmation |-> confirmation, evidence |-> e, verified |-> now]]
    /\ UNCHANGED <<now, book, target, state, incident, receipts, candidates, records, confirmations>>

\* What a plan asks to be compared: the state, the frozen target, the five digests.
Exact(p) ==
    /\ state = "RECONCILE_ONLY" /\ target = Baseline
    /\ book = p.confirmation.candidate.book

Apply(controller) ==
    /\ plan[controller] # NoPlan
    /\ state' = IF Exact(plan[controller]) THEN "ACTIVE_LKG" ELSE state
    /\ plan' = [plan EXCEPT ![controller] = NoPlan]
    /\ UNCHANGED <<now, book, target, incident, receipts, candidates, records, confirmations>>

Pairs == {samples \in SUBSET receipts : Cardinality(samples) \in {1, 2}}

Next ==
    \/ Tick \/ Incident
    \/ \E b \in Books : BookChanges(b)
    \/ \E t \in Targets : Deploy(t)
    \/ \E reading \in Readings : Observe(reading)
    \/ \E kind \in {"v1", "v2"}, samples \in Pairs : Enroll(kind, samples)
    \/ \E e \in receipts : EnrollInitial(e)
    \/ \E c \in candidates : Publish(c) \/ Confirm(c)
    \/ \E controller \in Controllers :
           \/ \E confirmation \in confirmations, e \in receipts : Evaluate(controller, confirmation, e)
           \/ Apply(controller)

Spec == Init /\ [][Next]_vars
-----------------------------------------------------------------------------
Receipts == [at : Nat, reading : Readings, target : Targets, book : Books \cup {Fragment}]

Candidates == [kind : {"v1", "v2", "v3"}, book : Books \cup {Fragment}, complete : BOOLEAN,
               first : Nat, last : Nat]

Records == [recovery : Nat, candidate : Candidates]

Confirmations == [recovery : Nat, candidate : Candidates, at : Nat, seen : SUBSET Receipts]

Plans == [recovery : Nat, confirmation : Confirmations, evidence : Receipts, verified : Nat]

\* What the console, the controllers and the account can hold; a candidate that
\* claims complete facts has the digest of a complete read.
TypeOK ==
    /\ now \in Nat /\ book \in Books /\ target \in Targets
    /\ state \in {"RECONCILE_ONLY", "ACTIVE_LKG"} /\ incident \in Nat
    /\ receipts \subseteq Receipts /\ candidates \subseteq Candidates
    /\ records \subseteq Records /\ confirmations \subseteq Confirmations
    /\ plan \in [Controllers -> Plans \cup {NoPlan}]
    /\ \A c \in candidates : c.first <= c.last /\ (c.complete <=> c.book \in Books)

\* evaluate_reconciliation_recovery_activation: "must prove a *new* read after the
\* operator confirmed the intent", of the very facts that were confirmed, and on
\* complete facts of a kind that may be confirmed.
PlanIsWitnessed ==
    \A controller \in Controllers :
        plan[controller] # NoPlan =>
            LET p == plan[controller]
                c == p.confirmation.candidate
            IN  /\ p.evidence \in receipts \ p.confirmation.seen
                /\ p.evidence.book = c.book /\ c.book \in Books
                /\ p.confirmation \in confirmations /\ c.kind # "v1"
                /\ p.verified - p.confirmation.at <= MaxAge

\* The facts of a source-bound plan were found, reconciled, before the operator
\* confirmed them and again after.
ReconciledTwice ==
    \A controller \in Controllers :
        plan[controller] # NoPlan /\ plan[controller].confirmation.candidate.kind = "v2" =>
            \E e \in plan[controller].confirmation.seen, f \in receipts :
                /\ e.at < f.at /\ f \notin plan[controller].confirmation.seen
                /\ \A g \in {e, f} : g.reading = "reconciled" /\ g.book = plan[controller].confirmation.candidate.book

\* Trading resumes only as an operator confirmed and a later receipt found it.
ResumesAsConfirmed ==
    [][state = "RECONCILE_ONLY" /\ state' = "ACTIVE_LKG" =>
           /\ target = Baseline
           /\ \E confirmation \in confirmations, e \in receipts :
                  /\ e \notin confirmation.seen
                  /\ e.book = book /\ confirmation.candidate.book = book]_vars
=============================================================================
