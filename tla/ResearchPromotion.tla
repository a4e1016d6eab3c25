-------------------------- MODULE ResearchPromotion --------------------------
(***************************************************************************)
(* The saved research promotion cycle (run_saved_research_promotion_cycle)  *)
(* over the tickets of one directory, all of one research scope.            *)
(*                                                                         *)
(* A process holds the directory's lock for a whole call; one that finds it *)
(* taken returns at once, so the only processes here are the holder, which  *)
(* may die at any save, and the people and the console around it.  A stage  *)
(* is saved as running before its callback is called.  What the holder has  *)
(* in memory is what it last saved, so the tickets on disk are the state;   *)
(* task is where the holder is.  A research stands for its exact identity.  *)
(***************************************************************************)
EXTENDS Integers, FiniteSets

CONSTANTS
    Researches,
    Digests,      \* of proposals that improve nothing
    MaxRounds,    \* _MAX_NO_IMPROVEMENT_ROUNDS (3 in the code)
    MaxIdle,      \* _MAX_IDLE_DAYS (30 in the code)
    MaxTime,      \* bound of the clock
    MaxCrashes    \* bound: holders that die

ASSUME PromotionAssumption ==
    /\ MaxRounds \in Nat \ {0} /\ MaxIdle \in Nat \ {0}
    /\ MaxTime \in Nat /\ MaxCrashes \in Nat

VARIABLES
    ticket,     \* research -> its file
    pc, task,   \* the holder of the lock; pc = "free": nobody
    now,
    ran,        \* research -> callback -> times called
    remote,     \* research -> state of the ticket at the console
    inflight,   \* researches whose POST has not arrived
    crashes

vars == <<ticket, pc, task, now, ran, remote, inflight, crashes>>

Stages == {"diagnose", "optimize", "backtest", "shadow"}

Callbacks == Stages \cup {"summarize", "post"}

Never == MaxTime + 1   \* a retry_at that is not usable

None == "none"

NoTicket ==
    [state |-> None, stage |-> [s \in Stages |-> "absent"], result |-> [s \in Stages |-> None],
     digest |-> None, retry |-> Never, counted |-> {}, last |-> 0, paused |-> FALSE,
     archived |-> FALSE, delivery |-> None, summarised |-> FALSE, decision |-> None]

NoTask == [research |-> None, stage |-> None, polls |-> FALSE, stale |-> FALSE, resumed |-> FALSE]

Init ==
    /\ ticket = [e \in Researches |-> NoTicket]
    /\ pc = "free" /\ task = NoTask /\ now = 0
    /\ ran = [e \in Researches |-> [c \in Callbacks |-> 0]]
    /\ remote = [e \in Researches |-> None]
    /\ inflight = {} /\ crashes = 0

Held == ticket[task.research]

Save(t) == ticket' = [ticket EXCEPT ![task.research] = t]

Release == pc' = "free" /\ task' = NoTask

Calls(c) == ran' = [ran EXCEPT ![task.research][c] = @ + 1]

(***************************************************************************)
(* The scope: what may be archived, and what a new ticket inherits.        *)
(***************************************************************************)
Records == {e \in Researches : ticket[e].state # None}

Interrupted(t) == \E s \in Stages : t.stage[s] \in {"running", "unknown"}

Protected(t) == Interrupted(t) \/ t.state \in {"shadow_recorded", "awaiting_human", "human_accepted"}

Terminal(t) == t.state \in {"parked", "human_accepted", "human_rejected"}

Archived(t) == [t EXCEPT !.archived = TRUE, !.state = "parked"]

IdleSince(last) == now - last >= MaxIdle

Rounds == UNION {ticket[e].counted : e \in Records}

\* _scope_lifecycle: a later ticket of the same age decides in file order.
Latest == {e \in Records : \A o \in Records : ticket[o].last <= ticket[e].last}

ScopePaused(e) == ticket[e].paused \/ \E o \in Records : Protected(ticket[o])

Exhausted(e) ==
    \/ Cardinality(Rounds) >= MaxRounds
    \/ ~ScopePaused(e) /\ IdleSince(ticket[e].last)

NothingArchived == \A e \in Records : ~ticket[e].archived

\* The last file of the directory is archived: any of the scope.
ArchiveScope(e, victim) ==
    /\ pc = "free" /\ e \notin Records /\ victim \in Records /\ NothingArchived
    /\ \E l \in Latest : Exhausted(l)
    /\ ticket' = [ticket EXCEPT ![victim] = Archived(@)]
    /\ UNCHANGED <<pc, task, now, ran, remote, inflight, crashes>>

NewTicket == [NoTicket EXCEPT !.state = "bounded_reopt"]

\* The observation is fresh and the dispatcher admits it.
Create(e) ==
    /\ pc = "free" /\ e \notin Records /\ NothingArchived
    /\ \/ Records = {} /\ ticket' = [ticket EXCEPT ![e] = [NewTicket EXCEPT !.last = now]]
       \/ \E l \in Latest :
             /\ ~Exhausted(l)
             /\ ticket' = [ticket EXCEPT ![e] = [NewTicket EXCEPT !.counted = Rounds,
                               !.last = ticket[l].last, !.paused = ScopePaused(l)]]
    /\ pc' = "at" /\ task' = [NoTask EXCEPT !.research = e, !.stage = "diagnose"]
    /\ UNCHANGED <<now, ran, remote, inflight, crashes>>

(***************************************************************************)
(* A saved ticket is taken up again.                                       *)
(***************************************************************************)
Idles(t) == t.state # "human_rejected" /\ ~Protected(t) /\ ~t.paused /\ IdleSince(t.last)

ArchiveIdle(e) ==
    /\ pc = "free" /\ e \in Records /\ Idles(ticket[e])
    /\ ticket' = [ticket EXCEPT ![e] = Archived(@)]
    /\ UNCHANGED <<pc, task, now, ran, remote, inflight, crashes>>

ShadowPending(t) == t.stage["shadow"] = "pending"

ShadowCompleted(t) == t.state = "shadow_recorded" /\ t.result["shadow"] = "complete"

Resumable(t) == t.state # None /\ ~Idles(t) /\ ~t.archived /\ ~Interrupted(t) /\ ~Terminal(t)

\* Where a call continues; a stale observation permits only the tail.
Entry(t) ==
    CASE t.state = "awaiting_human" -> <<"summary", "shadow">>
      [] ShadowPending(t) \/ ShadowCompleted(t) -> <<"at", "shadow">>
      [] OTHER -> <<"at", "diagnose">>

Resume(e, stale) ==
    LET t == ticket[e] IN
    /\ pc = "free" /\ Resumable(t)
    /\ (ShadowPending(t) \/ t.stage["diagnose"] = "deferred") => t.retry <= now
    /\ stale => t.state = "awaiting_human" \/ ShadowPending(t) \/ ShadowCompleted(t)
    /\ pc' = Entry(t)[1]
    /\ task' = [research |-> e, stage |-> Entry(t)[2], polls |-> FALSE, stale |-> stale,
                resumed |-> t.state = "awaiting_human"]
    /\ UNCHANGED <<ticket, now, ran, remote, inflight, crashes>>

(***************************************************************************)
(* One stage: saved as running, called, saved with its result.             *)
(***************************************************************************)
MayBegin(t, s) ==
    \/ t.stage[s] = "absent"
    \/ s = "shadow" /\ t.stage[s] = "pending"
    \/ s = "diagnose" /\ t.stage[s] \in {"ai_pending", "deferred"}

\* Pending work is read, never created again.
Polls(t, s) == t.stage[s] \in {"pending", "ai_pending"}

\* Mutant: a stage is saved only once it has a result.
Unsaved(t, s) == t

Running(t, s) == [t EXCEPT !.stage[s] = "running"]

Begin ==
    /\ pc = "at" /\ MayBegin(Held, task.stage)
    /\ Save(Running(Held, task.stage))
    /\ task' = [task EXCEPT !.polls = Polls(Held, task.stage)] /\ pc' = "call"
    /\ UNCHANGED <<now, ran, remote, inflight, crashes>>

Call ==
    /\ pc = "call" /\ pc' = "return"
    /\ IF task.polls THEN UNCHANGED ran ELSE Calls(task.stage)
    /\ UNCHANGED <<ticket, task, now, remote, inflight, crashes>>

Raises ==
    /\ pc = "return" /\ Save([Held EXCEPT !.stage[task.stage] = "unknown"]) /\ Release
    /\ UNCHANGED <<now, ran, remote, inflight, crashes>>

\* "worse": rejected and comparable, nothing improved; "weak": PASS, but not by
\* the strict gate; "complete": a validated whole window, "passed": only passed.
Outcomes(s, polls) ==
    CASE s = "diagnose" -> {"needed", "not_needed", "ai_pending", "deferred"}
      [] s = "optimize" -> {"candidate", "reject", "worse"}
      [] s = "backtest" -> {"pass", "weak", "fail"}
      [] s = "shadow" -> {"complete", "failed", "pending"} \cup (IF polls THEN {} ELSE {"passed"})

ShadowState(t, outcome) == IF outcome \in {"pending", "complete"} THEN "shadow_recorded" ELSE t.state

Finished(t, s, outcome) ==
    [t EXCEPT !.stage[s] = IF outcome = "pending" THEN "pending" ELSE "completed",
              !.result[s] = outcome, !.last = now, !.paused = FALSE,
              !.state = ShadowState(t, outcome)]

Returns(outcome, d, retry) ==
    /\ pc = "return" /\ outcome \in Outcomes(task.stage, task.polls)
    /\ Save([Finished(Held, task.stage, outcome) EXCEPT
                !.digest = IF outcome = "worse" THEN d ELSE @,
                !.retry = IF outcome \in {"pending", "deferred"} THEN retry ELSE @])
    /\ pc' = "judge"
    /\ UNCHANGED <<task, now, ran, remote, inflight, crashes>>

(***************************************************************************)
(* What follows from a saved result; a reused result passes the same gates. *)
(***************************************************************************)
At(s) == task.stage = s /\ (pc = "judge" \/ (pc = "at" /\ Held.stage[s] = "completed"))

Onward(s) == pc' = "at" /\ task' = [task EXCEPT !.stage = s] /\ UNCHANGED ticket

Leave(t) == Save(t) /\ Release

Parked(t) == [t EXCEPT !.state = "parked"]

Diagnosed ==
    /\ At("diagnose")
    /\ LET r == Held.result["diagnose"] IN
       \/ r = "needed" /\ Onward("optimize") /\ UNCHANGED ran
       \/ r = "not_needed" /\ Leave(Parked(Held)) /\ UNCHANGED ran
       \/ r = "ai_pending" /\ Leave([Held EXCEPT !.stage["diagnose"] = r]) /\ UNCHANGED ran
       \/ /\ r = "deferred" /\ Leave([Held EXCEPT !.stage["diagnose"] = r])
          \* A definite deferral: the diagnosis was not made.
          /\ ran' = [ran EXCEPT ![task.research]["diagnose"] = 0]
    /\ UNCHANGED <<now, remote, inflight, crashes>>

\* Mutant: only a proposal whose backtest passed is counted.
OnlyBacktested(t) == Parked(t)

\* A round without improvement, once for the same evidence.
Counted(t) ==
    LET counted == t.counted \cup {t.digest}
        touched == [Parked(t) EXCEPT !.counted = counted, !.last = now, !.paused = FALSE]
    IN  IF counted # t.counted /\ Cardinality(counted) >= MaxRounds THEN Archived(touched) ELSE touched

Optimized ==
    /\ At("optimize")
    /\ LET r == Held.result["optimize"] IN
       \/ r = "candidate" /\ Onward("backtest")
       \/ r = "worse" /\ Leave(Counted(Held))
       \/ r = "reject" /\ Leave(Parked(Held))
    /\ UNCHANGED <<now, ran, remote, inflight, crashes>>

\* Mutant: the summary's word is enough.
ByStatus(r) == r \in {"pass", "weak"}

GatesOk(r) == r = "pass"

\* Missing evidence pauses the scope before it parks the ticket.
Backtested ==
    /\ At("backtest")
    /\ LET r == Held.result["backtest"] IN
       \/ GatesOk(r) /\ Onward("shadow")
       \/ r = "fail" /\ ~Held.paused /\ Save([Held EXCEPT !.paused = TRUE]) /\ UNCHANGED <<pc, task>>
       \/ ~GatesOk(r) /\ (r = "fail" => Held.paused) /\ Leave(Parked(Held))
    /\ UNCHANGED <<now, ran, remote, inflight, crashes>>

Shadowed ==
    /\ At("shadow")
    /\ LET r == Held.result["shadow"] IN
       \/ /\ r \in {"complete", "passed"} /\ Save([Held EXCEPT !.state = "awaiting_human"])
          /\ pc' = "summary" /\ UNCHANGED task
       \/ r = "pending" /\ Leave(Held)
       \/ r = "failed" /\ Leave(Parked(Held))
    /\ UNCHANGED <<now, ran, remote, inflight, crashes>>

(***************************************************************************)
(* A ticket that awaits people: its summary, its decision, its delivery.   *)
(***************************************************************************)
\* The summary is reserved as unavailable before its one call.
Summary ==
    /\ pc = "summary"
    /\ \/ ~Held.summarised /\ Save([Held EXCEPT !.summarised = TRUE]) /\ pc' = "summarise"
       \/ Held.summarised /\ pc' = "reconcile" /\ UNCHANGED ticket
    /\ UNCHANGED <<task, now, ran, remote, inflight, crashes>>

Summarise ==
    /\ pc = "summarise" /\ Calls("summarize")
    /\ pc' = IF task.resumed THEN "reconcile" ELSE "deliver"
    /\ UNCHANGED <<ticket, task, now, remote, inflight, crashes>>

\* Mutant: a decision is applied to a ticket that has one.
AnySaved(t) == t.state \in {"awaiting_human", "human_accepted", "human_rejected"}

Decidable(t) == t.state = "awaiting_human"

Decided(t, decision) ==
    [t EXCEPT !.decision = decision,
              !.state = IF decision = "accept" THEN "human_accepted" ELSE "human_rejected"]

\* The console has a decision on this very candidate.
Pulled(e) ==
    \E decision \in {"accept", "reject"} :
        /\ remote[e] = decision /\ Decidable(ticket[e])
        /\ ticket' = [ticket EXCEPT ![e] = Decided(@, decision)]

\* The console may be unreachable, and its ticket undecided.
Reconcile ==
    /\ pc = "reconcile"
    /\ Pulled(task.research) \/ UNCHANGED ticket
    /\ \/ task.stale /\ Release
       \/ ~task.stale /\ pc' = "deliver" /\ UNCHANGED task
    /\ UNCHANGED <<now, ran, remote, inflight, crashes>>

ReconcileAlone(e) ==
    /\ pc = "free" /\ Pulled(e)
    /\ UNCHANGED <<pc, task, now, ran, remote, inflight, crashes>>

Decide(e, decision) ==
    /\ pc = "free" /\ Decidable(ticket[e])
    /\ ticket' = [ticket EXCEPT ![e] = Decided(@, decision)]
    /\ UNCHANGED <<pc, task, now, ran, remote, inflight, crashes>>

Deliver ==
    /\ pc = "deliver"
    /\ \/ /\ Held.state = "awaiting_human" /\ Held.delivery = None
          /\ Save([Held EXCEPT !.delivery = "running"]) /\ pc' = "sync" /\ UNCHANGED task
       \/ Release /\ UNCHANGED ticket
    /\ UNCHANGED <<now, ran, remote, inflight, crashes>>

\* Only a confirmed absence permits the one POST.
Post ==
    /\ pc = "sync" /\ remote[task.research] = None
    /\ Calls("post") /\ inflight' = inflight \cup {task.research} /\ pc' = "readback"
    /\ UNCHANGED <<ticket, task, now, remote, crashes>>

\* The POST arrives, at once, after its time-out, or never.
Arrive(e) ==
    /\ e \in inflight /\ inflight' = inflight \ {e}
    /\ remote' = [remote EXCEPT ![e] = "awaiting_human"]
    /\ UNCHANGED <<ticket, pc, task, now, ran, crashes>>

ConsoleDecide(e, decision) ==
    /\ remote[e] = "awaiting_human" /\ remote' = [remote EXCEPT ![e] = decision]
    /\ UNCHANGED <<ticket, pc, task, now, ran, inflight, crashes>>

\* Mutant: the answer to the POST confirms it.
Answered(e) == TRUE

ReadBack(e) == remote[e] = "awaiting_human"

SyncEnds(confirmed) ==
    /\ pc \in {"sync", "readback"} /\ (confirmed => ReadBack(task.research))
    /\ Leave([Held EXCEPT !.delivery = IF confirmed THEN "confirmed" ELSE "unconfirmed"])
    /\ UNCHANGED <<now, ran, remote, inflight, crashes>>

Crash ==
    /\ pc # "free" /\ crashes < MaxCrashes /\ crashes' = crashes + 1
    /\ Release /\ UNCHANGED <<ticket, now, ran, remote, inflight>>

Tick ==
    /\ now < MaxTime /\ now' = now + 1
    /\ UNCHANGED <<ticket, pc, task, ran, remote, inflight, crashes>>

Next ==
    \/ \E e \in Researches :
          \/ Create(e) \/ ArchiveIdle(e) \/ ReconcileAlone(e) \/ Arrive(e)
          \/ \E victim \in Researches : ArchiveScope(e, victim)
          \/ \E stale \in BOOLEAN : Resume(e, stale)
          \/ \E decision \in {"accept", "reject"} : Decide(e, decision) \/ ConsoleDecide(e, decision)
    \/ Begin \/ Call \/ Raises
    \/ \E outcome \in UNION {Outcomes(s, FALSE) : s \in Stages}, d \in Digests, r \in (now + 1)..Never :
          Returns(outcome, d, r)
    \/ Diagnosed \/ Optimized \/ Backtested \/ Shadowed
    \/ Summary \/ Summarise \/ Reconcile \/ Deliver \/ Post
    \/ \E confirmed \in BOOLEAN : SyncEnds(confirmed)
    \/ Crash \/ Tick

Spec == Init /\ [][Next]_vars
-----------------------------------------------------------------------------
Results == {None} \cup UNION {Outcomes(s, FALSE) : s \in Stages}

Tickets ==
    [state : {None, "bounded_reopt", "shadow_recorded", "awaiting_human", "human_accepted",
              "human_rejected", "parked"},
     stage : [Stages -> {"absent", "running", "unknown", "completed", "pending", "ai_pending", "deferred"}],
     result : [Stages -> Results], digest : Digests \cup {None}, retry : Nat,
     counted : SUBSET Digests, last : Nat, paused : BOOLEAN, archived : BOOLEAN,
     delivery : {None, "running", "confirmed", "unconfirmed"}, summarised : BOOLEAN,
     decision : {None, "accept", "reject"}]

\* The type of every variable: a saved ticket is always one the loader knows.
TypeOK ==
    /\ ticket \in [Researches -> Tickets]
    /\ pc \in {"free", "at", "call", "return", "judge", "summary", "summarise", "reconcile",
               "deliver", "sync", "readback"}
    /\ task \in [research : Researches \cup {None}, stage : Stages \cup {None}, polls : BOOLEAN,
                 stale : BOOLEAN, resumed : BOOLEAN]
    /\ now \in Nat /\ crashes \in Nat
    /\ ran \in [Researches -> [Callbacks -> Nat]]
    /\ remote \in [Researches -> {None, "awaiting_human", "accept", "reject"}]
    /\ inflight \subseteq Researches

\* Whatever dies, is called again or comes late, no ticket diagnoses, optimizes,
\* backtests, opens a shadow observation, summarises or POSTs twice (a deferred
\* diagnosis was not made; reading pending work is not repeating it).
AtMostOnce == \A e \in Researches, c \in Callbacks : ran[e][c] <= 1

\* People are asked, and have decided, only on a candidate all of whose
\* evidence is saved and good, also after a resumption in the middle.
EvidenceBeforeHuman ==
    \A e \in Researches :
        LET t == ticket[e] IN
        (t.state = "awaiting_human" \/ t.decision # None) =>
            /\ \A s \in Stages : t.stage[s] = "completed"
            /\ t.result["diagnose"] = "needed" /\ t.result["optimize"] = "candidate"
            /\ t.result["backtest"] = "pass" /\ t.result["shadow"] \in {"complete", "passed"}

\* A round without improvement is never lost: the ticket it parked counts it,
\* wherever a process died before.
RoundsCounted ==
    \A e \in Researches :
        LET t == ticket[e] IN
        (t.state = "parked" /\ ~t.archived /\ t.result["optimize"] = "worse") => t.digest \in t.counted

\* Delivery is confirmed only of a ticket the console holds, though its POST may
\* be lost or late and a decision may already have been made there.
ConfirmedIsHeld == \A e \in Researches : ticket[e].delivery = "confirmed" => remote[e] # None

\* A person's decision is never changed, by the console's or by another one.
DecisionStays == [][\A e \in Researches : ticket[e].decision # None => ticket'[e].decision = ticket[e].decision]_vars

\* An accepted ticket stays accepted: people's stages protect it from archiving.
AcceptedStays == \A e \in Researches : ticket[e].decision = "accept" => ticket[e].state = "human_accepted"
=============================================================================
