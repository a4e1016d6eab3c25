-------------------------- MODULE AccountSubmission --------------------------
(***************************************************************************)
(* AccountSubmissionSession: sessions of several processes share one       *)
(* account journal, and at most one of them may be writing to the broker.  *)
(*                                                                         *)
(* A method holds its session's own mutex from start to end, so a session  *)
(* is one sequential actor with a program counter.  A decision is made on  *)
(* the journal as it was read; what was decided is written later, by a     *)
(* create-only append at the sequence number after the one read, and is    *)
(* confirmed by reading the journal again.  On a local directory the file  *)
(* is created and written in two steps; an object store creates it whole.  *)
(* Only dispatch and record_circuit_breaker_open take the account mutex    *)
(* (shared by the sessions of one process) and the writer guard (a kernel  *)
(* file lock, or permanent ownership by one process on an object store).   *)
(*                                                                         *)
(* A call refused on what it read changes nothing and is no step, unless   *)
(* locks are given back.  Identity checks on the caller's arguments (the   *)
(* account, the domain's policy window, the release) are assumed to pass.  *)
(***************************************************************************)
EXTENDS AccountJournal

CONSTANTS
    Sessions, Processes,
    ProcessOf,      \* [Sessions -> Processes]
    Cloud,          \* the journal is on an object store, not a local directory
    IntentOf,       \* [Sessions -> Intents]
    DomainOf,       \* [Sessions -> Domains \cup {"none"}]
    DecisionAt,     \* [Sessions -> instants]: observed_at = decision_at
    InitialDomain,  \* the domain the journal is bound to from the start, or "none"
    NewRiskFlags,   \* values callers give reserve's new_risk
    Reports,        \* reports the broker may return
    Equities, Flows, PerUnits,      \* inputs of equity and risk reservations
    Cash,           \* what a snapshot may report as the account's cash
    PerTradeLimit, TotalLimit, Floor,   \* the account budget policy
    Validity,       \* valid_until - valuation_at of a snapshot
    MaxTime         \* bound: the clock

ASSUME SubmissionAssumption ==
    /\ ProcessOf \in [Sessions -> Processes]
    /\ IntentOf \in [Sessions -> Intents]
    /\ DomainOf \in [Sessions -> Domains \cup {"none"}]
    /\ DecisionAt \in [Sessions -> Nat]
    /\ InitialDomain \in Domains \cup {"none"}
    /\ Cloud \in BOOLEAN /\ NewRiskFlags \subseteq BOOLEAN
    /\ Reports \subseteq ReportSet
    /\ Equities \subseteq Nat /\ Flows \subseteq Nat /\ PerUnits \subseteq Nat \ {0}
    /\ Cash \subseteq Int
    /\ PerTradeLimit \in Nat /\ TotalLimit \in Nat /\ Floor \in Nat
    /\ Validity \in Nat /\ MaxTime \in Nat
    /\ Sessions \cap Processes = {} /\ "free" \notin Sessions \cup Processes

VARIABLES
    journal,    \* what replay of the readable events gives
    torn,       \* a created but unwritten file occupies the next sequence
    poisoned,   \* an event that replay refuses occupies the next sequence
    pc, op,     \* where each session is, and the operation it performs
    failed,     \* the session's persistence is uncertain: every method refuses
    issued,     \* attempts whose grant the session holds in memory
    used,       \* grants it has consumed
    mutex,      \* account mutex of each process: the holding session or "free"
    writer,     \* writer guard: the holding session (local), the owning process
                \* (cloud), or "free"
    sent,       \* orders the broker received, per attempt
    now         \* the clock dispatch reads

store    == <<journal, torn, poisoned>>
memory   == <<failed, issued, used>>
locks    == <<mutex, writer>>
world    == <<sent, now>>
vars     == <<store, pc, op, memory, locks, world>>

NoEvent == [kind |-> "none"]

NoOp == [base |-> 0, event |-> NoEvent, then |-> "idle", attempt |-> 0, order |-> "none",
         newRisk |-> FALSE, report |-> NoReport, raised |-> FALSE]

Steps == {"idle", "bound", "checked", "locked", "sending", "returned", "openLocked",
          "create", "write", "confirm", "crashed"}

Init ==
    /\ journal = [EmptyJournal EXCEPT !.domain = InitialDomain,
                                      !.generation = IF InitialDomain = "none" THEN 0 ELSE 1]
    /\ torn = FALSE /\ poisoned = FALSE
    /\ pc = [s \in Sessions |-> "idle"]
    /\ op = [s \in Sessions |-> NoOp]
    /\ failed = [s \in Sessions |-> FALSE]
    /\ issued = [s \in Sessions |-> {}]
    /\ used = [s \in Sessions |-> {}]
    /\ mutex = [p \in Processes |-> "free"]
    /\ writer = "free"
    /\ sent = [a \in AttemptIds |-> 0]
    /\ now = 0

(***************************************************************************)
(* Building blocks.                                                        *)
(***************************************************************************)
\* A session remembers which grants it received and which it has consumed.
AnyAttempt(s, a) == a \in Present(journal)     \* mutant: the journal is trusted instead
UnusedGrant(s, a) == a \in issued[s] \ used[s]
DispatchedGrant(s, a) == a \in issued[s] \cap used[s]

Readable == ~torn /\ ~poisoned

\* A method is called on a healthy session and reads the journal.  The bound on
\* the journal's length stops calls, never what a call in progress appends.
Called(s) ==
    pc[s] = "idle" /\ ~failed[s] /\ Readable /\ journal.generation < MaxEvents

Goto(s, step) == pc' = [pc EXCEPT ![s] = step]

\* Mutant: the file lock outlives the call.
KeepFileLock(s) ==
    /\ mutex' = [p \in Processes |-> IF mutex[p] = s THEN "free" ELSE mutex[p]]
    /\ UNCHANGED writer

ReleaseLocks(s) ==
    /\ mutex' = [p \in Processes |-> IF mutex[p] = s THEN "free" ELSE mutex[p]]
    /\ writer' = IF ~Cloud /\ writer = s THEN "free" ELSE writer

\* The method returns or raises: the session is idle and holds no lock.
Finish(s) == Goto(s, "idle") /\ op' = [op EXCEPT ![s] = NoOp] /\ ReleaseLocks(s)

\* The method raises and the session refuses everything from now on.
Fail(s) == Finish(s) /\ failed' = [failed EXCEPT ![s] = TRUE] /\ UNCHANGED <<issued, used>>

StartAppend(s, e, then) ==
    /\ Goto(s, "create")
    /\ op' = [op EXCEPT ![s] = [@ EXCEPT !.base = journal.generation, !.event = e,
                                         !.then = then]]

\* The event becomes readable, and replay accepts or refuses it.
Publish(e) ==
    \/ ReplayAccepts(journal, e) /\ journal' = Replay(journal, e) /\ UNCHANGED poisoned
    \/ ~ReplayAccepts(journal, e) /\ poisoned' = TRUE /\ UNCHANGED journal

(***************************************************************************)
(* _append: create the next event, then read the journal back.             *)
(***************************************************************************)
NextSequenceFree(s) == journal.generation = op[s].base /\ Readable

Create(s) ==
    /\ pc[s] = "create" /\ NextSequenceFree(s)
    /\ IF Cloud THEN Goto(s, "confirm") /\ Publish(op[s].event) /\ UNCHANGED torn
                ELSE Goto(s, "write") /\ torn' = TRUE /\ UNCHANGED <<journal, poisoned>>
    /\ UNCHANGED <<op, memory, locks, world>>

CreateConflict(s) ==
    /\ pc[s] = "create" /\ ~NextSequenceFree(s)
    /\ Fail(s) /\ UNCHANGED <<store, world>>

Write(s) ==
    /\ pc[s] = "write"
    /\ Publish(op[s].event) /\ torn' = FALSE /\ Goto(s, "confirm")
    /\ UNCHANGED <<op, memory, locks, world>>

\* The store raises: before anything was created, or between create and write.
StoreFails(s) ==
    /\ pc[s] \in {"create", "write"}
    /\ Fail(s) /\ UNCHANGED <<store, world>>

Confirmable(s) == Readable /\ journal.generation = op[s].base + 1

Confirm(s) ==
    /\ pc[s] = "confirm" /\ Confirmable(s)
    /\ IF op[s].then = "bound" THEN Goto(s, "bound") /\ UNCHANGED <<op, locks>>
                               ELSE Finish(s)
    /\ issued' = IF op[s].then = "grant" THEN [issued EXCEPT ![s] = @ \cup {op[s].base + 1}]
                                         ELSE issued
    /\ UNCHANGED <<store, failed, used, world>>

\* Another writer already appended, or the acknowledgement or the reading back
\* failed: the event is durable but the session gives up.
ConfirmFails(s) ==
    /\ pc[s] = "confirm"
    /\ Fail(s) /\ UNCHANGED <<store, world>>

(***************************************************************************)
(* reserve, reserve_reduction: the PREPARED event and its grant.           *)
(***************************************************************************)
\* Mutant: a reservation made on an older valuation is good enough.
ReserveOnOldValuation(s, o) ==
    /\ DomainOf[s] # "none" => Reserved(journal, o)
    /\ ~HasUnresolved(journal)
    /\ DomainOf[s] # "none" => ~ReservationUsed(journal, o)
    /\ ~PairUsed(journal, IntentOf[s], o)

ReserveChecks(s, o) ==
    /\ DomainOf[s] # "none" => Reserved(journal, o) /\ journal.risk[o].at = journal.equity.at
    /\ ~HasUnresolved(journal)
    /\ DomainOf[s] # "none" => ~ReservationUsed(journal, o)
    /\ ~PairUsed(journal, IntentOf[s], o)

Prepared(s, o, newRisk, reduction) ==
    [kind |-> "PREPARED", intent |-> IntentOf[s], order |-> o, newRisk |-> newRisk,
     reduction |-> reduction, source |-> IF reduction THEN journal.equity.at ELSE 0]

Reserve(s, o, newRisk) ==
    /\ Called(s)
    /\ newRisk => ~journal.breakerOpen
    /\ journal.domain = DomainOf[s]
    /\ ReserveChecks(s, o)
    /\ StartAppend(s, Prepared(s, o, newRisk, FALSE), "grant")
    /\ UNCHANGED <<store, memory, locks, world>>

\* The first session with a domain binds the journal, inside reserve.
ReserveBinds(s, o, newRisk) ==
    /\ Called(s)
    /\ newRisk => ~journal.breakerOpen
    /\ DomainOf[s] # "none" /\ journal.domain = "none"
    /\ Goto(s, "create")
    /\ op' = [op EXCEPT ![s] =
                [@ EXCEPT !.base = journal.generation, !.then = "bound", !.order = o,
                          !.newRisk = newRisk,
                          !.event = [kind |-> "DOMAIN_BOUND", domain |-> DomainOf[s]]]]
    /\ UNCHANGED <<store, memory, locks, world>>

\* reserve reads the journal again after binding it, and goes on.
ReserveAfterBind(s) ==
    /\ pc[s] = "bound" /\ journal.generation < MaxEvents
    /\ \/ /\ Readable /\ journal.domain = DomainOf[s] /\ ReserveChecks(s, op[s].order)
          /\ StartAppend(s, Prepared(s, op[s].order, op[s].newRisk, FALSE), "grant")
          /\ UNCHANGED locks
       \/ /\ ~(Readable /\ journal.domain = DomainOf[s] /\ ReserveChecks(s, op[s].order))
          /\ Finish(s)
    /\ UNCHANGED <<store, memory, world>>

(***************************************************************************)
(* Domain-bound accounts: equity observations, risk reservations and       *)
(* reductions.                                                             *)
(***************************************************************************)
BoundTo(s) == DomainOf[s] # "none" /\ journal.domain = DomainOf[s]

\* valuation_at <= t < valid_until
Current(valuation, t) == valuation <= t /\ t < valuation + Validity

Decided(s) == DecisionAt[s] <= now

\* A complete snapshot that covers the fills of the attempts in c, as their
\* reports stand in the journal.  A unit of every order loses at most 1.
Snapshot(at, equity, flow, c) ==
    LET covered == [a \in AttemptIds |-> IF a \in c THEN journal.attempts[a].filled ELSE -1]
    IN  [at |-> at, equity |-> equity, peak |-> NextPeak(journal, equity, flow),
         covered |-> covered, positionRisk |-> Total(covered, Bought(journal)),
         position |-> Net(journal, covered),
         ordersEmpty |-> \A a \in AttemptIds :
                            journal.attempts[a].certainty # "KNOWN_PENDING"]

\* A later complete snapshot covers what an earlier one did (c is a set of
\* attempts the journal holds).  A short position is refused; of the cash nothing
\* is asked but that it is a number.
RecordEquity(s, at, equity, flow, cash, c) ==
    /\ Called(s) /\ BoundTo(s) /\ Decided(s)
    /\ at > journal.equity.at /\ Current(at, DecisionAt[s])
    /\ {a \in AttemptIds : journal.equity.covered[a] >= 0} \subseteq c
    /\ Snapshot(at, equity, flow, c).position >= 0
    /\ StartAppend(s, [kind |-> "EQUITY_OBSERVED", flow |-> flow, cash |-> cash,
                       snapshot |-> Snapshot(at, equity, flow, c)], "idle")
    /\ UNCHANGED <<store, memory, locks, world>>

\* available_new_risk_budget of the recorded snapshot.
Budget == LET left == journal.equity.equity - Floor - AccountedRisk(journal)
          IN  IF left < PerTradeLimit THEN left ELSE PerTradeLimit

ReserveRisk(s, o, perUnit) ==
    /\ Called(s) /\ BoundTo(s) /\ Decided(s)
    /\ ~HasUnresolved(journal)
    /\ journal.equity.at > 0 /\ Current(journal.equity.at, DecisionAt[s])
    /\ journal.equity.peak > 0 /\ ~Braked(journal.equity.equity, journal.equity.peak)
    /\ ~Reserved(journal, o)
    /\ perUnit * Quantity[o] <= Budget
    /\ AccountedRisk(journal) + perUnit * Quantity[o] <= TotalLimit
    /\ StartAppend(s, [kind |-> "RISK_RESERVED", order |-> o, perUnit |-> perUnit,
                       at |-> journal.equity.at], "idle")
    /\ UNCHANGED <<store, memory, locks, world>>

ReconcileRisk(s, a) ==
    /\ Called(s) /\ BoundTo(s) /\ Decided(s)
    /\ a \in Present(journal)
    /\ Reconcilable(journal, a, journal.attempts[a].filled)
    /\ StartAppend(s, [kind |-> "RISK_RECONCILED", attempt |-> a,
                       filled |-> journal.attempts[a].filled,
                       source |-> journal.equity.at], "idle")
    /\ UNCHANGED <<store, memory, locks, world>>

\* Every possible fill of o stays between the position and zero.
Reduces(position, o) ==
    IF o \in Sells THEN position > 0 /\ Quantity[o] <= position
                   ELSE position < 0 /\ Quantity[o] <= -position

\* Mutant: fills need not be in the snapshot the reduction is proven on.
FillsUncovered(j) == TRUE

\* Every filled attempt is in a snapshot newer than the one it was prepared on.
FillsCovered(j) ==
    \A a \in Present(j) : j.attempts[a].filled > 0 =>
        /\ j.attempts[a].snapshotAt > 0
        /\ j.equity.covered[a] = j.attempts[a].filled
        /\ j.equity.at > j.attempts[a].snapshotAt

ReserveReduction(s, o) ==
    /\ Called(s) /\ BoundTo(s) /\ Decided(s)
    /\ journal.equity.at > 0 /\ journal.equity.ordersEmpty
    /\ Current(journal.equity.at, DecisionAt[s])
    /\ journal.equity.peak > 0 /\ Braked(journal.equity.equity, journal.equity.peak)
    /\ Reduces(journal.equity.position, o)
    /\ \A a \in Present(journal) : journal.attempts[a].certainty = "TERMINAL"
    /\ FillsCovered(journal)
    /\ ~PairUsed(journal, IntentOf[s], o)
    /\ StartAppend(s, Prepared(s, o, FALSE, TRUE), "grant")
    /\ UNCHANGED <<store, memory, locks, world>>

(***************************************************************************)
(* dispatch.                                                               *)
(***************************************************************************)
\* Mutant: the breaker is not read again before the submit.
PreparedIsEnough(a) == Readable /\ journal.attempts[a].certainty = "PREPARED"

\* The grant's attempt may still be sent, as the journal stands.
Dispatchable(a) ==
    /\ Readable
    /\ journal.attempts[a].certainty = "PREPARED"
    /\ journal.attempts[a].newRisk => ~journal.breakerOpen

\* The snapshot the attempt was prepared on is the latest, and not expired.
DomainFresh(s, a) ==
    LET att == journal.attempts[a]
    IN  DomainOf[s] # "none" =>
        /\ BoundTo(s) /\ journal.equity.at > 0
        /\ IF att.reduction THEN journal.equity.ordersEmpty /\ journal.equity.at = att.source
           ELSE Reserved(journal, att.order) /\ journal.risk[att.order].at = journal.equity.at
        /\ Current(journal.equity.at, now)

DispatchBegin(s, a) ==
    /\ Called(s)
    /\ UnusedGrant(s, a)
    /\ Dispatchable(a) /\ DomainFresh(s, a)
    /\ Goto(s, "checked") /\ op' = [op EXCEPT ![s].attempt = a]
    /\ UNCHANGED <<store, memory, locks, world>>

MutexFree(s) == mutex[ProcessOf[s]] = "free"

TakeMutex(s) == mutex' = [mutex EXCEPT ![ProcessOf[s]] = s]

\* Takes the account mutex and reads the journal again.
DispatchLock(s) ==
    /\ pc[s] = "checked" /\ MutexFree(s)
    /\ IF Dispatchable(op[s].attempt)
       THEN Goto(s, "locked") /\ TakeMutex(s) /\ UNCHANGED <<op, writer>>
       ELSE Finish(s)
    /\ UNCHANGED <<store, memory, world>>

NoExclusion(s) == TRUE      \* mutant: the guard excludes nobody
GuardFree(s) == writer \in {"free"} \cup (IF Cloud THEN {ProcessOf[s]} ELSE {})

TakeGuard(s) == writer' = IF Cloud THEN ProcessOf[s] ELSE s

\* Takes the writer guard and reads the journal once more inside it.
DispatchGuard(s) ==
    /\ pc[s] = "locked" /\ GuardFree(s)
    /\ IF Dispatchable(op[s].attempt)
       THEN /\ Goto(s, "sending") /\ TakeGuard(s)
            /\ used' = [used EXCEPT ![s] = @ \cup {op[s].attempt}]
            /\ UNCHANGED <<op, mutex>>
       ELSE /\ Goto(s, "idle") /\ op' = [op EXCEPT ![s] = NoOp]
            /\ mutex' = [mutex EXCEPT ![ProcessOf[s]] = "free"]
            /\ writer' = IF Cloud THEN ProcessOf[s] ELSE writer
            /\ UNCHANGED used
    /\ UNCHANGED <<store, failed, issued, world>>

\* The guard cannot be had (another process owns it, the store or the lock file
\* fails) or can no longer be confirmed, before or after the submit.
GuardFails(s) ==
    /\ pc[s] \in {"locked", "openLocked", "sending", "returned"}
    /\ Fail(s) /\ UNCHANGED <<store, world>>

\* On an object store, ownership by another process is never given up.
OwnedElsewhere(s) == Cloud /\ writer \notin {"free", ProcessOf[s]}

\* submit() returns a report: the broker has the order.
Submit(s) ==
    /\ pc[s] = "sending"
    /\ sent' = [sent EXCEPT ![op[s].attempt] = @ + 1]
    /\ \E r \in Reports : op' = [op EXCEPT ![s].report = r]
    /\ Goto(s, "returned")
    /\ UNCHANGED <<store, memory, locks, now>>

\* submit() raises: the broker may have the order or not.
SubmitRaises(s) ==
    /\ pc[s] = "sending"
    /\ \E n \in {0, 1} : sent' = [sent EXCEPT ![op[s].attempt] = @ + n]
    /\ op' = [op EXCEPT ![s].raised = TRUE]
    /\ Goto(s, "returned")
    /\ UNCHANGED <<store, memory, locks, now>>

\* A report record_observation can store as it is, for attempt att.
Consistent(att, r) ==
    /\ r.filled \in att.filled..Quantity[att.order]
    /\ att.seen.id # "none" => r.id = att.seen.id

StoredAsIs(att, r) == r     \* mutant: contradictory reports are not degraded

\* What it stores: an inconsistent report degrades to an unknown status.
Stored(att, r) ==
    IF Consistent(att, r) THEN r
    ELSE [att.seen EXCEPT !.status = "Unknown", !.filled = att.filled]

Observed(a, r) ==
    [kind |-> "OBSERVED", attempt |-> a, report |-> Stored(journal.attempts[a], r)]

\* dispatch stores the outcome before it gives the locks back.
RecordOutcome(s) ==
    /\ pc[s] = "returned"
    /\ \/ /\ Readable
          /\ StartAppend(s, Observed(op[s].attempt, op[s].report), "idle")
          /\ UNCHANGED <<failed, locks>>
       \/ ~Readable /\ ~op[s].raised /\ Finish(s) /\ UNCHANGED failed
       \/ ~Readable /\ op[s].raised /\ Finish(s) /\ failed' = [failed EXCEPT ![s] = TRUE]
    /\ UNCHANGED <<store, issued, used, world>>

\* record_observation, called later for a grant that was dispatched.
RecordObservation(s, a, r) ==
    /\ Called(s)
    /\ DispatchedGrant(s, a)
    /\ journal.attempts[a].certainty \notin Settled
    /\ \/ journal.attempts[a].certainty = "PREPARED"
       \/ journal.attempts[a].seen # Stored(journal.attempts[a], r)
    /\ StartAppend(s, Observed(a, r), "idle")
    /\ UNCHANGED <<store, memory, locks, world>>

(***************************************************************************)
(* record_circuit_breaker_open, for a snapshot that trips the hard brake.  *)
(***************************************************************************)
OpenLock(s) ==
    /\ pc[s] = "idle" /\ ~failed[s] /\ journal.generation < MaxEvents
    /\ MutexFree(s) /\ TakeMutex(s) /\ Goto(s, "openLocked")
    /\ UNCHANGED <<store, op, memory, writer, world>>

OpenGuard(s) ==
    /\ pc[s] = "openLocked" /\ GuardFree(s)
    /\ IF Readable /\ ~journal.breakerOpen
       THEN StartAppend(s, [kind |-> "CIRCUIT_BREAKER_OPEN"], "idle")
            /\ TakeGuard(s) /\ UNCHANGED mutex
       ELSE /\ Goto(s, "idle") /\ UNCHANGED op
            /\ mutex' = [mutex EXCEPT ![ProcessOf[s]] = "free"]
            /\ writer' = IF Cloud THEN ProcessOf[s] ELSE writer
    /\ UNCHANGED <<store, memory, world>>

(***************************************************************************)
(* The environment: a process dies with its memory and its file lock, but  *)
(* neither its ownership record nor a half-written event goes away.        *)
(***************************************************************************)
Crash(p) ==
    LET dead == {s \in Sessions : ProcessOf[s] = p} IN
    /\ \E s \in dead : pc[s] # "crashed"
    /\ pc' = [s \in Sessions |-> IF s \in dead THEN "crashed" ELSE pc[s]]
    /\ op' = [s \in Sessions |-> IF s \in dead THEN NoOp ELSE op[s]]
    /\ issued' = [s \in Sessions |-> IF s \in dead THEN {} ELSE issued[s]]
    /\ used' = [s \in Sessions |-> IF s \in dead THEN {} ELSE used[s]]
    /\ mutex' = [mutex EXCEPT ![p] = "free"]
    /\ writer' = IF writer \in dead THEN "free" ELSE writer
    /\ UNCHANGED <<store, failed, world>>

Tick == now < MaxTime /\ now' = now + 1 /\ UNCHANGED <<store, pc, op, memory, locks, sent>>

(***************************************************************************)
(* The specification.                                                      *)
(***************************************************************************)
Appending(s) ==
    Create(s) \/ CreateConflict(s) \/ Write(s) \/ StoreFails(s) \/ Confirm(s) \/ ConfirmFails(s)

\* A method goes on: what a running thread does without being called again.
Proceed(s) ==
    \/ Appending(s) \/ ReserveAfterBind(s)
    \/ DispatchLock(s) \/ DispatchGuard(s) \/ GuardFails(s)
    \/ Submit(s) \/ SubmitRaises(s) \/ RecordOutcome(s) \/ OpenGuard(s)

Call(s) ==
    \/ \E o \in Orders, newRisk \in NewRiskFlags : Reserve(s, o, newRisk)
    \/ \E o \in Orders, newRisk \in NewRiskFlags : ReserveBinds(s, o, newRisk)
    \/ \E at \in 1..MaxTime, equity \in Equities, flow \in Flows, cash \in Cash,
          c \in SUBSET Present(journal) : RecordEquity(s, at, equity, flow, cash, c)
    \/ \E o \in Orders, perUnit \in PerUnits : ReserveRisk(s, o, perUnit)
    \/ \E a \in AttemptIds : ReconcileRisk(s, a)
    \/ \E o \in Orders : ReserveReduction(s, o)
    \/ \E a \in AttemptIds : DispatchBegin(s, a)
    \/ \E a \in AttemptIds, r \in Reports : RecordObservation(s, a, r)
    \/ OpenLock(s)

Next ==
    \/ \E s \in Sessions : Proceed(s) \/ Call(s)
    \/ \E p \in Processes : Crash(p)
    \/ Tick

Spec == Init /\ [][Next]_vars

\* What a running thread does when nothing it uses fails.
Progress(s) ==
    \/ Create(s) \/ CreateConflict(s) \/ Write(s) \/ Confirm(s)
    \/ ~Confirmable(s) /\ ConfirmFails(s)
    \/ ReserveAfterBind(s) \/ DispatchLock(s) \/ DispatchGuard(s)
    \/ OwnedElsewhere(s) /\ GuardFails(s)
    \/ Submit(s) \/ RecordOutcome(s) \/ OpenGuard(s)

\* A running thread is scheduled until its call ends; nobody has to call.
FairSpec == Spec /\ \A s \in Sessions : WF_vars(Progress(s))

(***************************************************************************)
(* Correctness.                                                            *)
(***************************************************************************)
SnapshotOK(n) ==
    /\ n.at \in 0..MaxTime /\ n.equity \in Nat /\ n.peak \in Nat
    /\ n.positionRisk \in Nat /\ n.position \in Nat
    /\ n.covered \in [AttemptIds -> -1..MaxQuantity]
    /\ n.ordersEmpty \in BOOLEAN

AttemptSet ==
    [certainty: Certainties, intent: Intents \cup {"none"}, order: Orders \cup {"none"},
     newRisk: BOOLEAN, reduction: BOOLEAN, source: 0..MaxTime, seen: ReportSet,
     filled: 0..MaxQuantity, snapshotAt: 0..MaxTime]

RiskSet == [perUnit: Nat, remaining: Nat, reconciled: 0..MaxQuantity, at: 0..MaxTime]

JournalTypeOK(j) ==
    /\ j.generation \in Nat /\ j.breakerOpen \in BOOLEAN
    /\ j.domain \in Domains \cup {"none"}
    /\ SnapshotOK(j.equity) /\ j.positionRisk \in Nat
    /\ j.risk \in [Orders -> RiskSet]
    /\ j.attempts \in [AttemptIds -> AttemptSet]

\* The journal's reduced state and the sessions' memory have the shapes
\* read_state and AccountSubmissionSession give them.
TypeOK ==
    /\ JournalTypeOK(journal)
    /\ torn \in BOOLEAN /\ poisoned \in BOOLEAN
    /\ pc \in [Sessions -> Steps]
    /\ \A s \in Sessions : op[s].report \in ReportSet /\ op[s].attempt \in AttemptIds \cup {0}
    /\ failed \in [Sessions -> BOOLEAN]
    /\ issued \in [Sessions -> SUBSET AttemptIds]
    /\ used \in [Sessions -> SUBSET AttemptIds]
    /\ mutex \in [Processes -> Sessions \cup {"free"}]
    /\ writer \in Sessions \cup Processes \cup {"free"}
    /\ sent \in [AttemptIds -> Nat]
    /\ now \in 0..MaxTime

\* A grant is consumed exactly once and a retry gets no second grant: whatever
\* sessions race, crash or fail, the broker receives at most one order for an
\* attempt, and at most one attempt of the same intent and order.
OrderSentOnce ==
    /\ \A a \in AttemptIds : sent[a] <= 1
    /\ \A a, b \in AttemptIds :
        /\ sent[a] > 0 /\ sent[b] > 0
        /\ journal.attempts[a].intent = journal.attempts[b].intent
        /\ journal.attempts[a].order = journal.attempts[b].order
        => a = b

\* What a writer may append and what replay accepts agree: no interleaving of
\* the methods leaves an event that makes every later read_state raise.
JournalNeverPoisoned == ~poisoned

\* record_account_equity does not look at the sign of the cash that read_state refuses.
Owes(e) == e.kind = "EQUITY_OBSERVED" /\ e.cash < 0

\* The one event of any interleaving that replay refuses is the snapshot of an account
\* that owes cash: the races to bind, reserve, observe and reconcile leave none.
OnlyDebtPoisons ==
    [][poisoned' # poisoned =>
           \E s \in Sessions : pc[s] \in {"create", "write"} /\ Owes(op[s].event)]_vars

\* Whatever sessions race, at most one attempt of the account is prepared and not
\* yet observed: two orders are never on their way to the broker together.
OnePreparedAtATime ==
    \A a, b \in AttemptIds :
        /\ journal.attempts[a].certainty = "PREPARED"
        /\ journal.attempts[b].certainty = "PREPARED"
        => a = b

\* What journal j knows of the orders.
OrdersOf(j) ==
    [a \in AttemptIds |->
        [certainty |-> j.attempts[a].certainty, intent |-> j.attempts[a].intent,
         order |-> j.attempts[a].order, newRisk |-> j.attempts[a].newRisk,
         id |-> j.attempts[a].seen.id, filled |-> j.attempts[a].filled]]

Ledger == INSTANCE SubmissionLedger WITH
    Attempts <- AttemptIds, ledger <- OrdersOf(journal), open <- journal.breakerOpen

\* Racing, failing and crashing sessions that each read, decide and append later
\* implement one ledger: an order is entered once and only while nothing is unclear,
\* sent once while it is prepared, never as new risk past OPEN, and what is known of
\* it is only added to.
ImplementsLedger == Ledger!Spec

\* No order marked as new risk is submitted once the OPEN of the circuit breaker
\* is in the journal, whichever process recorded it.
OpenBarsNewRisk ==
    [][\A a \in AttemptIds :
        sent'[a] # sent[a] /\ journal.attempts[a].newRisk => ~journal.breakerOpen]_vars

\* A dispatch holds the guard from its submit until its outcome is written.
Submitting(s) ==
    op[s].attempt # 0 /\ pc[s] \in {"sending", "returned", "create", "write"}

\* OPEN is never recorded between a submit and the writing of its outcome, so
\* the two cannot race for a sequence number and lose the broker's answer.
OpenWaitsForOutcome ==
    [][journal'.breakerOpen # journal.breakerOpen => \A s \in Sessions : ~Submitting(s)]_vars

\* An attempt that is UNKNOWN or TERMINAL never changes, and no observation takes
\* back a fill or changes the identity the broker gave the order.
ObservationsFinal ==
    [][\A a \in AttemptIds :
        LET before == journal.attempts[a]
            after  == journal'.attempts[a]
        IN  before # after /\ before.certainty # "ABSENT" =>
                /\ before.certainty \notin {"UNKNOWN", "TERMINAL"}
                /\ after.filled >= before.filled
                /\ before.seen.id # "none" => after.seen.id = before.seen.id]_vars

\* Only a session that consumed the attempt's grant and still remembers it can
\* change the attempt: nobody takes over what a crash left behind.
OnlyOwnerResolves ==
    [][\A a \in AttemptIds :
        journal.attempts[a].certainty # "ABSENT" /\ journal'.attempts[a] # journal.attempts[a]
            => \E s \in Sessions : a \in used[s]]_vars

\* The account mutex and the file lock cannot deadlock: a lock that is held is
\* given back, unless its holder's call is still running.
LocksReleased ==
    /\ \A p \in Processes : mutex[p] # "free" ~> mutex[p] = "free"
    /\ \A s \in Sessions : writer = s ~> writer # s

(***************************************************************************)
(* Correctness of a domain-bound account's risk.                           *)
(***************************************************************************)
Fills(j) == [a \in AttemptIds |-> j.attempts[a].filled]

\* The attempts whose outcome is final among those order o's reservation backs.
Final(j, o) ==
    {a \in Present(j) : /\ j.attempts[a].order = o /\ ~j.attempts[a].reduction
                        /\ j.attempts[a].certainty = "TERMINAL"}

\* What an opening order can still lose, at 1 per unit: its fills once they are
\* final, all of it before.
Exposure(j, o) ==
    IF ~Reserved(j, o) \/ o \in Sells THEN 0
    ELSE IF Final(j, o) = {} THEN Quantity[o]
    ELSE Total(Fills(j), Final(j, o))

ExposedRisk == Total([o \in Orders |-> Exposure(journal, o)], Orders)

\* Moving fills from reservations into snapshots never loses sight of a loss the
\* account may still take: fills, partial fills, unknown outcomes and unsent
\* orders stay counted, and racing reservations never pass the account's limit.
RiskNeverUndercounted == ExposedRisk <= AccountedRisk(journal) /\ ExposedRisk <= TotalLimit

\* An order that is not a reduction is prepared only on the valuation its risk
\* was reserved on, with no newer observation in the journal.
PreparedOnLatestValuation ==
    [][\A a \in AttemptIds :
        LET att == journal'.attempts[a]
        IN  /\ journal.attempts[a].certainty = "ABSENT" /\ att.certainty = "PREPARED"
            /\ journal.domain # "none" /\ ~att.reduction
            => journal.risk[att.order].at = journal.equity.at]_vars

\* Units held according to every report in the journal.
Position == Net(journal, Fills(journal))

\* A reduction never sells more than is held when it is submitted, although its
\* proof was made earlier on a snapshot another session may have recorded.
ReductionWithinPosition ==
    [][\A a \in AttemptIds :
        sent'[a] # sent[a] /\ journal.attempts[a].reduction =>
            Reduces(Position, journal.attempts[a].order)]_vars
=============================================================================
