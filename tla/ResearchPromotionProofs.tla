----------------------- MODULE ResearchPromotionProofs -----------------------
(***************************************************************************)
(* What a research ticket promises, for any number of tickets, rounds and  *)
(* crashes: no callback is called twice, no person is asked without all of *)
(* the evidence, and no decision is changed.                               *)
(***************************************************************************)
EXTENDS ResearchPromotion, TLAPS

Passes(t, s, result) == t.stage[s] = "completed" /\ t.result[s] = result

\* Every stage before s is saved and good.
Passed(t, s) ==
    /\ s \in {"optimize", "backtest", "shadow"} => Passes(t, "diagnose", "needed")
    /\ s \in {"backtest", "shadow"} => Passes(t, "optimize", "candidate")
    /\ s = "shadow" => Passes(t, "backtest", "pass")

Witnessed(t) ==
    /\ Passed(t, "shadow") /\ t.stage["shadow"] = "completed"
    /\ t.result["shadow"] \in {"complete", "passed"}

\* Alone, a saved ticket is the trace of stages passed in order.
TicketOK(t) ==
    /\ t.state = None => t = NoTicket
    /\ \A s \in Stages : t.stage[s] # "absent" => Passed(t, s)
    /\ \A s \in Stages : t.result[s] # None => t.stage[s] # "absent"
    /\ t.result["optimize"] = "worse" => t.digest \in Digests
    /\ t.state \in {None, "bounded_reopt", "shadow_recorded", "awaiting_human"} => t.decision = None
    /\ (t.state = "awaiting_human" \/ t.decision # None) => Witnessed(t)
    /\ (t.state = "parked" /\ ~t.archived /\ t.result["optimize"] = "worse") => t.digest \in t.counted

TicketsOK == \A e \in Researches : TicketOK(ticket[e])

\* A callback was not called before its save.
CountOK(t, n) ==
    /\ \A c \in Callbacks : n[c] \in {0, 1}
    /\ \A s \in Stages : t.stage[s] \in {"absent", "deferred"} => n[s] = 0
    /\ ~t.summarised => n["summarize"] = 0
    /\ t.delivery = None => n["post"] = 0

CountsOK == \A e \in Researches : CountOK(ticket[e], ran[e])

InStage == pc \in {"at", "call", "return", "judge"}

\* Where the holder is, and what its ticket says.
HolderOK ==
    /\ pc # "free" => task.research \in Researches
    /\ InStage =>
          /\ task.stage \in Stages /\ Passed(Held, task.stage)
          /\ Held.state \in {"bounded_reopt", "shadow_recorded"}
    /\ pc \in {"call", "return"} => Held.stage[task.stage] = "running"
    /\ pc = "call" /\ ~task.polls => ran[task.research][task.stage] = 0
    /\ pc = "judge" =>
          Held.stage[task.stage] = IF Held.result[task.stage] = "pending" THEN "pending" ELSE "completed"
    /\ pc \in {"summary", "summarise", "reconcile", "deliver", "sync", "readback"} => Held.state # None
    /\ pc = "summarise" => ran[task.research]["summarize"] = 0 /\ Held.summarised
    /\ pc = "sync" => ran[task.research]["post"] = 0
    /\ pc \in {"sync", "readback"} => Held.delivery # None

IInv == TypeOK /\ TicketsOK /\ CountsOK /\ HolderOK /\ ConfirmedIsHeld

\* The names of stages and callbacks differ.
LEMMA Spelled ==
    /\ Stages = {"diagnose", "optimize", "backtest", "shadow"}
    /\ Callbacks = {"diagnose", "optimize", "backtest", "shadow", "summarize", "post"}
    /\ None = "none" /\ Never \in Nat
    /\ Results = {"needed", "not_needed", "ai_pending", "deferred", "candidate", "reject", "worse",
                  "pass", "weak", "fail", "complete", "failed", "pending", "passed", "none"}
  <1>1. Stages = {"diagnose", "optimize", "backtest", "shadow"}
    BY DEF Stages
  <1>2. Results = Outcomes("diagnose", FALSE) \cup Outcomes("optimize", FALSE)
                 \cup Outcomes("backtest", FALSE) \cup Outcomes("shadow", FALSE) \cup {None}
    BY <1>1 DEF Results
  <1> QED BY <1>1, <1>2, PromotionAssumption DEF Callbacks, Stages, None, Never, Outcomes

LEMMA NoTicketOK == NoTicket \in Tickets /\ TicketOK(NoTicket)
  BY Spelled DEF NoTicket, Tickets, TicketOK, Passed, Witnessed

LEMMA InitIInv == Init => IInv
  <1> SUFFICES ASSUME Init PROVE IInv
    OBVIOUS
  <1>1. TypeOK
    BY NoTicketOK, Spelled DEF Init, TypeOK, NoTask
  <1>2. TicketsOK
    BY NoTicketOK DEF Init, TicketsOK
  <1>3. CountsOK
    BY Spelled DEF Init, CountsOK, CountOK
  <1>4. HolderOK /\ ConfirmedIsHeld
    BY Spelled DEF Init, HolderOK, InStage, ConfirmedIsHeld, NoTicket
  <1> QED BY <1>1, <1>2, <1>3, <1>4 DEF IInv

States == {"bounded_reopt", "shadow_recorded"}

Steps == {"free", "at", "call", "return", "judge", "summary", "summarise", "reconcile", "deliver",
          "sync", "readback"}

Tasks == [research : Researches \cup {None}, stage : Stages \cup {None}, polls : BOOLEAN,
          stale : BOOLEAN, resumed : BOOLEAN]

(***************************************************************************)
(* What a save leaves true of the ticket that is saved.                    *)
(***************************************************************************)
\* The stage at hand is saved anew, while no later stage has begun.
LEMMA StageSaved ==
    ASSUME NEW t \in Tickets, NEW u \in Tickets, NEW s \in Stages, TicketOK(t), Passed(t, s),
           t.stage[s] # "completed" \/ t.result[s] \notin {"needed", "candidate", "pass"},
           \A v \in Stages : v # s => u.stage[v] = t.stage[v] /\ u.result[v] = t.result[v],
           u.stage[s] # "absent", u.state \in States, u.decision = None,
           u.result["optimize"] = "worse" => u.digest \in Digests
    PROVE  TicketOK(u) /\ Passed(u, s)
  <1>1. Passed(u, s)
    BY Spelled DEF Passed, Passes
  <1>2. \A v \in Stages : u.stage[v] # "absent" => Passed(u, v)
    BY <1>1, Spelled DEF TicketOK, Passed, Passes
  <1>3. \A v \in Stages : u.result[v] # None => u.stage[v] # "absent"
    BY DEF TicketOK
  <1> QED BY <1>1, <1>2, <1>3, Spelled DEF TicketOK, States

\* Only what is known beside the stages is saved.
LEMMA RestSaved ==
    ASSUME NEW t \in Tickets, NEW u \in Tickets, TicketOK(t),
           u.stage = t.stage, u.result = t.result, u.state # None,
           u.result["optimize"] = "worse" => u.digest \in Digests,
           u.state \in States \cup {"awaiting_human"} => u.decision = None,
           u.state = "awaiting_human" \/ u.decision # None => Witnessed(t),
           u.state = "parked" /\ ~u.archived /\ u.result["optimize"] = "worse" => u.digest \in u.counted
    PROVE  TicketOK(u)
  <1>1. \A v \in Stages : Passed(u, v) <=> Passed(t, v)
    BY DEF Passed, Passes
  <1>2. Witnessed(u) <=> Witnessed(t)
    BY <1>1, Spelled DEF Witnessed
  <1> QED BY <1>1, <1>2, Spelled DEF TicketOK, States

\* One ticket is saved and its holder goes on.
LEMMA SaveKeeps ==
    ASSUME IInv, NEW e \in Researches, NEW t \in Tickets,
           TicketOK(t), CountOK(t, ran[e]), t.delivery = "confirmed" => remote[e] # None,
           ticket' = [ticket EXCEPT ![e] = t], UNCHANGED <<now, ran, remote, inflight, crashes>>,
           pc' \in Steps, task' \in Tasks, HolderOK'
    PROVE  IInv'
  <1>1. \A o \in Researches : ticket'[o] = IF o = e THEN t ELSE ticket[o]
    BY DEF IInv, TypeOK
  <1>2. TypeOK'
    BY DEF IInv, TypeOK, Steps, Tasks
  <1>3. TicketsOK' /\ CountsOK' /\ ConfirmedIsHeld'
    BY <1>1 DEF IInv, TicketsOK, CountsOK, ConfirmedIsHeld
  <1> QED BY <1>2, <1>3 DEF IInv

\* Nobody holds the lock before or after.
LEMMA FreeKeeps ==
    ASSUME IInv, pc' = "free", task' \in Tasks
    PROVE  pc' \in Steps /\ HolderOK'
  BY DEF Steps, HolderOK, InStage

LEMMA NoTaskTyped == NoTask \in Tasks
  BY Spelled DEF NoTask, Tasks

(***************************************************************************)
(* Actions of a free directory.                                            *)
(***************************************************************************)
LEMMA ArchivedOK ==
    ASSUME NEW t \in Tickets, TicketOK(t), t.state # None
    PROVE  /\ Archived(t) \in Tickets /\ TicketOK(Archived(t))
           /\ Archived(t).delivery = t.delivery
           /\ \A n : CountOK(t, n) => CountOK(Archived(t), n)
  <1>1. Archived(t) \in Tickets
    BY DEF Archived, Tickets
  <1>2. /\ Archived(t).stage = t.stage /\ Archived(t).result = t.result
        /\ Archived(t).state = "parked" /\ Archived(t).archived /\ Archived(t).digest = t.digest
        /\ Archived(t).decision = t.decision /\ Archived(t).delivery = t.delivery
        /\ Archived(t).summarised = t.summarised
    BY DEF Archived, Tickets
  <1>3. TicketOK(Archived(t))
    <2>1. Archived(t).decision # None => Witnessed(t)
      BY <1>2 DEF TicketOK
    <2>2. Archived(t).result["optimize"] = "worse" => Archived(t).digest \in Digests
      BY <1>2 DEF TicketOK
    <2> QED BY <1>1, <1>2, <2>1, <2>2, RestSaved, Spelled DEF States
  <1>4. \A n : CountOK(t, n) => CountOK(Archived(t), n)
    BY <1>2 DEF CountOK
  <1> QED BY <1>1, <1>2, <1>3, <1>4

LEMMA ArchiveKeeps ==
    ASSUME IInv, NEW e \in Researches, e \in Records, pc = "free",
           ticket' = [ticket EXCEPT ![e] = Archived(@)],
           UNCHANGED <<pc, task, now, ran, remote, inflight, crashes>>
    PROVE  IInv'
  <1>1. ticket[e] \in Tickets /\ TicketOK(ticket[e]) /\ CountOK(ticket[e], ran[e])
    BY DEF IInv, TypeOK, TicketsOK, CountsOK
  <1>2. ticket[e].state # None /\ (ticket[e].delivery = "confirmed" => remote[e] # None)
    BY DEF IInv, Records, ConfirmedIsHeld
  <1>3. pc' \in Steps /\ task' \in Tasks /\ HolderOK'
    BY FreeKeeps DEF IInv, TypeOK, Tasks
  <1> QED BY <1>1, <1>2, <1>3, ArchivedOK, SaveKeeps

LEMMA DecidedOK ==
    ASSUME NEW t \in Tickets, TicketOK(t), Decidable(t), NEW decision \in {"accept", "reject"}
    PROVE  /\ Decided(t, decision) \in Tickets /\ TicketOK(Decided(t, decision))
           /\ Decided(t, decision).delivery = t.delivery
           /\ Decided(t, decision).state # None
           /\ \A n : CountOK(t, n) => CountOK(Decided(t, decision), n)
  <1> DEFINE u == Decided(t, decision)
  <1>0. PICK state \in {"human_accepted", "human_rejected"} :
            u = [t EXCEPT !.decision = decision, !.state = state]
    BY DEF Decided
  <1>1. u \in Tickets
    <2>1. [t EXCEPT !.decision = decision, !.state = state] \in Tickets
      BY DEF Tickets
    <2> QED BY <1>0, <2>1
  <1>2. /\ u.stage = t.stage /\ u.result = t.result /\ u.digest = t.digest
        /\ u.state \in {"human_accepted", "human_rejected"}
        /\ u.delivery = t.delivery /\ u.summarised = t.summarised
    BY <1>0 DEF Tickets
  <1>3. Witnessed(t) /\ (u.result["optimize"] = "worse" => u.digest \in Digests)
    BY <1>2 DEF TicketOK, Decidable
  <1>4. \A n : CountOK(t, n) => CountOK(u, n)
    BY <1>2 DEF CountOK
  <1> HIDE DEF u
  <1>5. TicketOK(u)
    BY <1>1, <1>2, <1>3, RestSaved, Spelled DEF States
  <1> QED BY <1>1, <1>2, <1>4, <1>5, Spelled DEF u

LEMMA DecideKeeps ==
    ASSUME IInv, NEW e \in Researches, NEW decision \in {"accept", "reject"}, Decidable(ticket[e]),
           ticket' = [ticket EXCEPT ![e] = Decided(@, decision)],
           UNCHANGED <<now, ran, remote, inflight, crashes>>,
           pc' \in Steps, task' \in Tasks, HolderOK'
    PROVE  IInv'
  <1>1. ticket[e] \in Tickets /\ TicketOK(ticket[e]) /\ CountOK(ticket[e], ran[e])
    BY DEF IInv, TypeOK, TicketsOK, CountsOK
  <1>2. ticket[e].delivery = "confirmed" => remote[e] # None
    BY DEF IInv, ConfirmedIsHeld
  <1> QED BY <1>1, <1>2, DecidedOK, SaveKeeps

\* What is true of a ticket that was just created.
Begun(t) ==
    /\ t.state = "bounded_reopt" /\ t.stage = NoTicket.stage /\ t.result = NoTicket.result
    /\ t.decision = None /\ t.delivery = None /\ ~t.summarised

LEMMA NewTicketFacts == NewTicket \in Tickets /\ Begun(NewTicket)
  BY Spelled DEF NewTicket, NoTicket, Tickets, Begun

LEMMA CreateKeeps ==
    ASSUME IInv, NEW e \in Researches, Create(e)
    PROVE  IInv'
  <1> DEFINE u == ticket'[e]
             Fresh == /\ ticket' = [ticket EXCEPT ![e] = u] /\ u \in Tickets /\ Begun(u)
  <1>1. Fresh
    <2>1. Rounds \subseteq Digests
      BY DEF IInv, TypeOK, Rounds, Records, Tickets
    <2>2. CASE ticket' = [ticket EXCEPT ![e] = [NewTicket EXCEPT !.last = now]]
      <3>1. u = [NewTicket EXCEPT !.last = now] /\ now \in Nat
        BY <2>2 DEF IInv, TypeOK
      <3>2. ASSUME NEW t \in Tickets, Begun(t), NEW v, v = [t EXCEPT !.last = now], now \in Nat
            PROVE  v \in Tickets /\ Begun(v)
        BY <3>2 DEF Tickets, Begun
      <3> QED BY <2>2, <3>1, <3>2, NewTicketFacts
    <2>3. ASSUME NEW l \in Latest,
                 ticket' = [ticket EXCEPT ![e] = [NewTicket EXCEPT !.counted = Rounds,
                               !.last = ticket[l].last, !.paused = ScopePaused(l)]]
          PROVE  Fresh
      <3>1. ticket[l].last \in Nat /\ ScopePaused(l) \in BOOLEAN
        BY DEF IInv, TypeOK, Latest, Records, Tickets, ScopePaused
      <3>2. u = [NewTicket EXCEPT !.counted = Rounds, !.last = ticket[l].last, !.paused = ScopePaused(l)]
        BY <2>3 DEF IInv, TypeOK
      <3>3. PICK v : v = [NewTicket EXCEPT !.counted = Rounds]
        OBVIOUS
      <3>4. PICK w : w = [v EXCEPT !.last = ticket[l].last]
        OBVIOUS
      <3>5. u = [w EXCEPT !.paused = ScopePaused(l)]
        BY <3>2, <3>3, <3>4
      <3>6. v \in Tickets /\ Begun(v)
        BY <2>1, <3>3, NewTicketFacts DEF Tickets, Begun
      <3>7. w \in Tickets /\ Begun(w)
        BY <3>1, <3>4, <3>6 DEF Tickets, Begun
      <3>8. u \in Tickets /\ Begun(u)
        BY <3>1, <3>5, <3>7 DEF Tickets, Begun
      <3> QED BY <2>3, <3>2, <3>8
    <2> QED BY <2>2, <2>3 DEF Create
  <1>2. ticket[e] = NoTicket
    BY DEF IInv, TicketsOK, TicketOK, Create, Records
  <1>3. TicketOK(u)
    BY <1>1, Spelled DEF TicketOK, NoTicket, Begun
  <1>4. CountOK(u, ran[e])
    BY <1>1, <1>2, Spelled DEF IInv, CountsOK, CountOK, NoTicket, Begun
  <1> HIDE DEF u
  <1>5. /\ pc' = "at" /\ task'.research = e /\ task'.stage = "diagnose" /\ task' \in Tasks
        /\ UNCHANGED <<now, ran, remote, inflight, crashes>>
    BY Spelled DEF Create, NoTask, Tasks
  <1>6. ticket'[e] = u
    BY <1>1 DEF IInv, TypeOK
  <1>7. HolderOK' /\ pc' \in Steps
    BY <1>1, <1>5, <1>6, Spelled DEF HolderOK, InStage, Held, Passed, Steps, Begun
  <1> QED BY <1>1, <1>3, <1>4, <1>5, <1>7, Spelled, SaveKeeps DEF Begun

LEMMA ResumeKeeps ==
    ASSUME IInv, NEW e \in Researches, NEW stale \in BOOLEAN, Resume(e, stale)
    PROVE  IInv'
  <1> DEFINE t == ticket[e]
  <1>1. t \in Tickets /\ TicketOK(t)
    BY DEF IInv, TypeOK, TicketsOK
  <1>2. /\ pc' = Entry(t)[1] /\ task' \in Tasks /\ task'.research = e /\ task'.stage = Entry(t)[2]
        /\ UNCHANGED <<ticket, now, ran, remote, inflight, crashes>>
    BY Spelled DEF Resume, Tasks, Entry
  <1>3. t.state \in States \cup {"awaiting_human"}
    BY <1>1, Spelled DEF Resume, Resumable, Terminal, Tickets, States
  <1>4. CASE t.state = "awaiting_human"
    <2>1. Entry(t) = <<"summary", "shadow">>
      <3>1. ~ShadowPending(t) /\ ~ShadowCompleted(t)
        BY <1>1, <1>4, Spelled DEF ShadowPending, ShadowCompleted, TicketOK, Witnessed
      <3> QED BY <1>4, <3>1 DEF Entry
    <2>2. pc' = "summary"
      BY <1>2, <2>1
    <2> QED BY <1>2, <1>4, <2>2, Spelled
            DEF IInv, TypeOK, Tasks, TicketsOK, CountsOK, ConfirmedIsHeld, HolderOK, InStage, Held
  <1>5. CASE t.state # "awaiting_human"
    <2>1. pc' = "at" /\ task'.stage \in Stages /\ Passed(t, task'.stage)
      <3>1. CASE ShadowPending(t) \/ ShadowCompleted(t)
        <4>1. t.stage["shadow"] # "absent"
          BY <1>1, <3>1, Spelled DEF ShadowPending, ShadowCompleted, TicketOK
        <4> QED BY <1>1, <1>2, <1>5, <3>1, <4>1, Spelled DEF Entry, TicketOK
      <3>2. CASE ~(ShadowPending(t) \/ ShadowCompleted(t))
        BY <1>2, <1>5, <3>2, Spelled DEF Entry, Passed
      <3> QED BY <3>1, <3>2
    <2>2. HolderOK'
      BY <1>2, <1>3, <1>5, <2>1 DEF HolderOK, InStage, Held, States
    <2>3. TypeOK'
      BY <1>2, <2>1 DEF IInv, TypeOK, Tasks
    <2> QED BY <1>2, <2>2, <2>3 DEF IInv, TicketsOK, CountsOK, ConfirmedIsHeld
  <1> QED BY <1>4, <1>5

(***************************************************************************)
(* A stage.                                                                *)
(***************************************************************************)
StageAt(t, s, x) == [t EXCEPT !.stage[s] = x]

StageOnly(t, s, x, u) ==
    /\ u.stage = [t.stage EXCEPT ![s] = x] /\ u.result = t.result
    /\ u.state = t.state /\ u.decision = t.decision /\ u.delivery = t.delivery
    /\ u.summarised = t.summarised /\ u.digest = t.digest

LEMMA StageSet ==
    ASSUME NEW t \in Tickets, NEW s \in Stages, NEW x \in {"running", "unknown", "ai_pending", "deferred"},
           NEW u, u = StageAt(t, s, x)
    PROVE  u \in Tickets /\ StageOnly(t, s, x, u)
  BY DEF Tickets, StageAt, StageOnly

\* What the holder of a stage may rely on.
LEMMA InStageFacts ==
    ASSUME IInv, InStage
    PROVE  /\ task.research \in Researches /\ task.stage \in Stages /\ task \in Tasks
           /\ Held = ticket[task.research] /\ Held \in Tickets /\ TicketOK(Held)
           /\ CountOK(Held, ran[task.research])
           /\ Passed(Held, task.stage) /\ Held.state \in States /\ Held.decision = None
           /\ Held.delivery = "confirmed" => remote[task.research] # None
           /\ Held.result["optimize"] = "worse" => Held.digest \in Digests
  <1>1. task.research \in Researches /\ task.stage \in Stages /\ task \in Tasks
    BY DEF IInv, TypeOK, HolderOK, InStage, Tasks
  <1>2. Held \in Tickets /\ TicketOK(Held) /\ CountOK(Held, ran[task.research])
    BY <1>1 DEF IInv, TypeOK, TicketsOK, CountsOK, Held
  <1>3. Passed(Held, task.stage) /\ Held.state \in States
    BY DEF IInv, HolderOK, States
  <1> QED BY <1>1, <1>2, <1>3 DEF IInv, ConfirmedIsHeld, TicketOK, Held, States

LEMMA BeginKeeps == ASSUME IInv, Begin PROVE IInv'
  <1> DEFINE e == task.research  s == task.stage  u == Running(Held, s)
  <1>1. InStage /\ UNCHANGED <<now, ran, remote, inflight, crashes>> /\ MayBegin(Held, s)
    BY DEF Begin, InStage
  <1>a. Held \in Tickets /\ s \in Stages /\ u = StageAt(Held, s, "running")
    BY <1>1, InStageFacts DEF StageAt, Running
  <1>b. ticket' = [ticket EXCEPT ![e] = u]
    BY DEF Begin, Save
  <1> HIDE DEF u, s
  <1>2. u \in Tickets /\ StageOnly(Held, s, "running", u)
    BY <1>a, StageSet
  <1> USE DEF StageOnly, s
  <1>3. ticket' = [ticket EXCEPT ![e] = u] /\ pc' = "call" /\ task' = [task EXCEPT !.polls = Polls(Held, s)]
    BY <1>b DEF Begin
  <1>4. Held.stage \in [Stages -> {"absent", "running", "unknown", "completed", "pending", "ai_pending", "deferred"}]
    BY <1>1, InStageFacts DEF Tickets
  <1>5. ~Polls(Held, s) => ran[e][s] = 0
    BY <1>1, InStageFacts, Spelled DEF MayBegin, Polls, CountOK
  <1>6. Held.stage[s] # "completed"
    BY <1>1 DEF MayBegin
  <1> HIDE DEF u
  <1>7. TicketOK(u) /\ Passed(u, s)
    BY <1>1, <1>2, <1>4, <1>6, InStageFacts, StageSaved
  <1>8. CountOK(u, ran[e])
    BY <1>1, <1>2, <1>4, InStageFacts DEF CountOK
  <1>9. task' \in Tasks /\ task'.research = e /\ task'.stage = s /\ (task'.polls <=> Polls(Held, s))
    <2>1. Polls(Held, s) \in BOOLEAN
      BY DEF Polls
    <2> QED BY <1>1, <1>3, <2>1, InStageFacts DEF Tasks
  <1>10. ticket'[e] = u
    BY <1>1, <1>3, InStageFacts DEF IInv, TypeOK
  <1>11. u.stage[s] = "running"
    BY <1>1, <1>2, <1>4, InStageFacts
  <1> HIDE DEF e, s
  <1>12. HolderOK' /\ pc' \in Steps
    <2>1. pc' = "call" /\ Held' = u /\ task'.research = e /\ task'.stage = s
      BY <1>3, <1>9, <1>10 DEF Held
    <2>2. e \in Researches /\ s \in Stages /\ u.state \in States
      BY <1>1, <1>2, InStageFacts DEF e, s
    <2>3. ~task'.polls => ran'[e][s] = 0
      BY <1>1, <1>5, <1>9
    <2> QED BY <1>7, <1>11, <2>1, <2>2, <2>3 DEF HolderOK, InStage, Steps, States
  <1> QED BY <1>1, <1>2, <1>3, <1>7, <1>8, <1>9, <1>12, InStageFacts, SaveKeeps DEF e

\* A callback that was never called is called.
LEMMA CallsOnce ==
    ASSUME IInv, NEW e \in Researches, NEW c \in Callbacks, ran[e][c] = 0,
           ran' = [ran EXCEPT ![e][c] = @ + 1], UNCHANGED ticket,
           c \in Stages => ticket[e].stage[c] \notin {"absent", "deferred"},
           c = "summarize" => ticket[e].summarised,
           c = "post" => ticket[e].delivery # None
    PROVE  ran' \in [Researches -> [Callbacks -> Nat]] /\ CountsOK'
  <1>1. \A o \in Researches, d \in Callbacks :
            ran'[o][d] = IF o = e /\ d = c THEN 1 ELSE ran[o][d]
    BY DEF IInv, TypeOK
  <1>2. ran' \in [Researches -> [Callbacks -> Nat]]
    BY DEF IInv, TypeOK
  <1>3. ASSUME NEW o \in Researches PROVE CountOK(ticket[o], ran'[o])
    <2>1. CountOK(ticket[o], ran[o])
      BY DEF IInv, CountsOK
    <2>2. \A s \in Stages : s \in Callbacks
      BY Spelled
    <2> QED BY <1>1, <2>1, <2>2, Spelled DEF CountOK
  <1> QED BY <1>2, <1>3 DEF CountsOK

LEMMA CallKeeps == ASSUME IInv, Call PROVE IInv'
  <1>1. InStage /\ pc = "call" /\ pc' = "return" /\ UNCHANGED <<ticket, task, now, remote, inflight, crashes>>
    BY DEF Call, InStage
  <1>2. ran' \in [Researches -> [Callbacks -> Nat]] /\ CountsOK'
    <2>1. CASE task.polls
      BY <1>1, <2>1 DEF Call, IInv, TypeOK, CountsOK
    <2>2. CASE ~task.polls
      <3>1. ran[task.research][task.stage] = 0 /\ Held.stage[task.stage] = "running"
        BY <1>1, <2>2 DEF IInv, HolderOK
      <3>2. ran' = [ran EXCEPT ![task.research][task.stage] = @ + 1]
        BY <2>2 DEF Call, Calls
      <3> QED BY <1>1, <3>1, <3>2, InStageFacts, CallsOnce, Spelled
    <2> QED BY <2>1, <2>2
  <1>3. HolderOK' /\ ConfirmedIsHeld' /\ TicketsOK'
    BY <1>1 DEF IInv, HolderOK, InStage, Held, ConfirmedIsHeld, TicketsOK
  <1>4. TypeOK'
    BY <1>1, <1>2 DEF IInv, TypeOK
  <1> QED BY <1>2, <1>3, <1>4 DEF IInv

LEMMA RaisesKeeps == ASSUME IInv, Raises PROVE IInv'
  <1> DEFINE e == task.research  s == task.stage  u == [Held EXCEPT !.stage[s] = "unknown"]
  <1>1. InStage /\ UNCHANGED <<now, ran, remote, inflight, crashes>> /\ Held.stage[s] = "running"
    BY DEF Raises, InStage, IInv, HolderOK
  <1>a. Held \in Tickets /\ s \in Stages /\ u = StageAt(Held, s, "unknown")
    BY <1>1, InStageFacts DEF StageAt
  <1>b. ticket' = [ticket EXCEPT ![e] = u]
    BY DEF Raises, Save
  <1> HIDE DEF u, s
  <1>2. u \in Tickets /\ StageOnly(Held, s, "unknown", u)
    BY <1>a, StageSet
  <1> USE DEF StageOnly, s
  <1>3. ticket' = [ticket EXCEPT ![e] = u] /\ pc' = "free" /\ task' \in Tasks
    BY <1>b, NoTaskTyped DEF Raises, Release
  <1>4. Held.stage \in [Stages -> {"absent", "running", "unknown", "completed", "pending", "ai_pending", "deferred"}]
    BY <1>1, InStageFacts DEF Tickets
  <1> HIDE DEF u
  <1>5. TicketOK(u)
    BY <1>1, <1>2, <1>4, InStageFacts, StageSaved
  <1>6. CountOK(u, ran[e])
    BY <1>1, <1>2, <1>4, InStageFacts DEF CountOK
  <1> QED BY <1>1, <1>2, <1>3, <1>5, <1>6, InStageFacts, FreeKeeps, SaveKeeps

\* What saving a result leaves of the ticket.
ResultOnly(t, s, outcome, u) ==
    /\ u.stage = [t.stage EXCEPT ![s] = IF outcome = "pending" THEN "pending" ELSE "completed"]
    /\ u.result = [t.result EXCEPT ![s] = outcome]
    /\ u.state = ShadowState(t, outcome) /\ u.decision = t.decision /\ u.delivery = t.delivery
    /\ u.summarised = t.summarised

LEMMA ResultSet ==
    ASSUME NEW t \in Tickets, NEW s \in Stages, NEW outcome \in Results, now \in Nat
    PROVE  /\ Finished(t, s, outcome) \in Tickets
           /\ ResultOnly(t, s, outcome, Finished(t, s, outcome))
           /\ Finished(t, s, outcome).digest = t.digest
  <1> DEFINE u == Finished(t, s, outcome)
             x == IF outcome = "pending" THEN "pending" ELSE "completed"
  <1>1. u.stage = [t.stage EXCEPT ![s] = x]
    BY DEF Tickets, Finished
  <1>2. u.result = [t.result EXCEPT ![s] = outcome]
    BY DEF Tickets, Finished
  <1>3. u.state = ShadowState(t, outcome)
    BY DEF Tickets, Finished
  <1>4. u.decision = t.decision
    BY DEF Tickets, Finished
  <1>5. u.delivery = t.delivery
    BY DEF Tickets, Finished
  <1>6. u.summarised = t.summarised
    BY DEF Tickets, Finished
  <1>7. u.digest = t.digest
    BY DEF Tickets, Finished
  <1>8. u \in Tickets
    <2>1. PICK a : a = [t EXCEPT !.stage[s] = x]
      OBVIOUS
    <2>2. PICK b : b = [a EXCEPT !.result[s] = outcome]
      OBVIOUS
    <2>3. PICK c : c = [b EXCEPT !.last = now]
      OBVIOUS
    <2>4. PICK d : d = [c EXCEPT !.paused = FALSE]
      OBVIOUS
    <2>5. u = [d EXCEPT !.state = ShadowState(t, outcome)]
      BY <2>1, <2>2, <2>3, <2>4 DEF Finished
    <2>6. x \in {"pending", "completed"} /\ ShadowState(t, outcome) \in {t.state, "shadow_recorded"}
      BY DEF ShadowState
    <2> HIDE DEF x, u
    <2>7. a \in Tickets /\ a.state = t.state
      BY <2>1, <2>6 DEF Tickets
    <2>8. b \in Tickets /\ b.state = t.state
      BY <2>2, <2>7 DEF Tickets
    <2>9. c \in Tickets /\ c.state = t.state
      BY <2>3, <2>8 DEF Tickets
    <2>10. d \in Tickets /\ d.state = t.state
      BY <2>4, <2>9 DEF Tickets
    <2>11. ShadowState(t, outcome) \in {d.state, "shadow_recorded"}
      BY <2>6, <2>10
    <2> QED BY <2>5, <2>10, <2>11 DEF Tickets
  <1> QED BY <1>1, <1>2, <1>3, <1>4, <1>5, <1>6, <1>7, <1>8 DEF ResultOnly

\* The evidence and the time of the next attempt, saved with the result.
WithEvidence(t, d, r) == [t EXCEPT !.digest = d, !.retry = r]

LEMMA EvidenceSet ==
    ASSUME NEW t \in Tickets, NEW d \in Digests \cup {None}, NEW r \in Nat,
           NEW u, u = WithEvidence(t, d, r)
    PROVE  /\ u \in Tickets /\ u.digest = d
           /\ u.stage = t.stage /\ u.result = t.result /\ u.state = t.state
           /\ u.decision = t.decision /\ u.delivery = t.delivery /\ u.summarised = t.summarised
  <1>1. PICK v : v = [t EXCEPT !.digest = d]
    OBVIOUS
  <1>2. u = [v EXCEPT !.retry = r]
    BY <1>1 DEF WithEvidence
  <1>3. /\ v \in Tickets /\ v.digest = d
        /\ v.stage = t.stage /\ v.result = t.result /\ v.state = t.state
        /\ v.decision = t.decision /\ v.delivery = t.delivery /\ v.summarised = t.summarised
    BY <1>1 DEF Tickets
  <1> QED BY <1>2, <1>3 DEF Tickets

LEMMA ReturnsKeeps ==
    ASSUME IInv, NEW outcome \in Results, NEW d \in Digests, NEW retry \in Nat, Returns(outcome, d, retry)
    PROVE  IInv'
  <1> DEFINE e == task.research
             s == task.stage
             f == Finished(Held, s, outcome)
             digest == IF outcome = "worse" THEN d ELSE f.digest
             again == IF outcome \in {"pending", "deferred"} THEN retry ELSE f.retry
             u == WithEvidence(f, digest, again)
  <1>1. /\ InStage /\ UNCHANGED <<task, now, ran, remote, inflight, crashes>>
        /\ Held.stage[s] = "running" /\ outcome \in Outcomes(s, task.polls) /\ pc' = "judge" /\ now \in Nat
    BY DEF Returns, InStage, IInv, HolderOK, TypeOK
  <1>2. ticket' = [ticket EXCEPT ![e] = u]
    BY DEF Returns, Save, WithEvidence
  <1>3. f \in Tickets /\ ResultOnly(Held, s, outcome, f) /\ f.digest = Held.digest
    BY <1>1, InStageFacts, ResultSet
  <1> HIDE DEF f
  <1>4. digest \in Digests \cup {None} /\ again \in Nat
    BY <1>3 DEF Tickets
  <1> HIDE DEF digest, again
  <1>5. PICK v : v = u
    OBVIOUS
  <1>6. /\ v \in Tickets /\ v.digest = digest
        /\ v.stage = f.stage /\ v.result = f.result /\ v.state = f.state
        /\ v.decision = f.decision /\ v.delivery = f.delivery /\ v.summarised = f.summarised
    BY <1>3, <1>4, <1>5, EvidenceSet
  <1>7. ticket' = [ticket EXCEPT ![e] = v]
    BY <1>2, <1>5
  <1> HIDE DEF u
  <1>8. /\ Held.stage \in [Stages -> {"absent", "running", "unknown", "completed", "pending", "ai_pending", "deferred"}]
        /\ Held.result \in [Stages -> Results]
    BY <1>1, InStageFacts DEF Tickets
  <1>9. /\ v.stage = [Held.stage EXCEPT ![s] = IF outcome = "pending" THEN "pending" ELSE "completed"]
        /\ v.result = [Held.result EXCEPT ![s] = outcome] /\ v.delivery = Held.delivery
        /\ v.summarised = Held.summarised /\ v.decision = None /\ v.state \in States
    BY <1>1, <1>3, <1>6, InStageFacts DEF ResultOnly, ShadowState, States
  <1>10. v.result["optimize"] = "worse" => v.digest \in Digests
    BY <1>1, <1>3, <1>6, <1>8, <1>9, InStageFacts, Spelled DEF digest
  <1>11. v.stage[s] = (IF outcome = "pending" THEN "pending" ELSE "completed") /\ v.result[s] = outcome
    BY <1>1, <1>8, <1>9, InStageFacts
  <1>12. TicketOK(v) /\ Passed(v, s)
    BY <1>1, <1>6, <1>8, <1>9, <1>10, <1>11, InStageFacts, StageSaved
  <1>13. CountOK(v, ran[e])
    BY <1>1, <1>8, <1>9, InStageFacts DEF CountOK
  <1>14. ticket'[e] = v
    BY <1>1, <1>7, InStageFacts DEF IInv, TypeOK
  <1>15. HolderOK' /\ pc' \in Steps /\ task' \in Tasks
    BY <1>1, <1>9, <1>11, <1>12, <1>14, InStageFacts DEF HolderOK, InStage, Held, Steps, States
  <1> QED BY <1>1, <1>6, <1>7, <1>9, <1>12, <1>13, <1>15, InStageFacts, SaveKeeps

(***************************************************************************)
(* After a stage.                                                          *)
(***************************************************************************)
\* The holder saves the ticket a last time and goes.
LEMMA LeaveKeeps ==
    ASSUME IInv, task.research \in Researches, NEW u \in Tickets, TicketOK(u),
           CountOK(u, ran[task.research]), u.delivery = "confirmed" => remote[task.research] # None,
           Leave(u), UNCHANGED <<now, ran, remote, inflight, crashes>>
    PROVE  IInv'
  <1>1. ticket' = [ticket EXCEPT ![task.research] = u] /\ pc' = "free" /\ task' \in Tasks
    BY NoTaskTyped DEF Leave, Save, Release
  <1> QED BY <1>1, FreeKeeps, SaveKeeps

LEMMA OnwardKeeps ==
    ASSUME IInv, InStage, NEW s \in Stages, Passed(Held, s), Onward(s),
           UNCHANGED <<now, ran, remote, inflight, crashes>>
    PROVE  IInv'
  <1>1. pc' = "at" /\ task' \in Tasks /\ task'.research = task.research /\ task'.stage = s /\ UNCHANGED ticket
    BY InStageFacts DEF Onward, Tasks
  <1>2. HolderOK'
    BY <1>1, InStageFacts DEF HolderOK, InStage, Held, States
  <1>3. TypeOK'
    BY <1>1 DEF IInv, TypeOK, Tasks
  <1> QED BY <1>1, <1>2, <1>3 DEF IInv, TicketsOK, CountsOK, ConfirmedIsHeld

LEMMA AtFacts ==
    ASSUME IInv, NEW s \in Stages, At(s)
    PROVE  /\ InStage /\ task.stage = s
           /\ Held.result[s] # "pending" => Held.stage[s] = "completed"
  BY DEF At, InStage, IInv, HolderOK

\* A ticket parked for a reason other than a proposal that improves nothing.
LEMMA ParkedKeeps ==
    ASSUME IInv, InStage, Held.result["optimize"] # "worse", Leave(Parked(Held)),
           UNCHANGED <<now, ran, remote, inflight, crashes>>
    PROVE  IInv'
  <1> DEFINE u == Parked(Held)
  <1>1. /\ u \in Tickets /\ u.stage = Held.stage /\ u.result = Held.result /\ u.state = "parked"
        /\ u.digest = Held.digest /\ u.decision = None /\ u.delivery = Held.delivery
        /\ u.summarised = Held.summarised
    BY InStageFacts DEF Parked, Tickets
  <1> HIDE DEF u
  <1>2. TicketOK(u)
    BY <1>1, RestSaved, InStageFacts, Spelled DEF States
  <1>3. CountOK(u, ran[task.research])
    BY <1>1, InStageFacts DEF CountOK
  <1> QED BY <1>1, <1>2, <1>3, InStageFacts, LeaveKeeps DEF u

LEMMA DiagnosedKeeps == ASSUME IInv, Diagnosed PROVE IInv'
  <1> DEFINE r == Held.result["diagnose"]
  <1>1. "diagnose" \in Stages /\ "optimize" \in Stages /\ At("diagnose")
    BY Spelled DEF Diagnosed
  <1>2. InStage /\ task.stage = "diagnose" /\ UNCHANGED <<now, remote, inflight, crashes>>
    BY <1>1, AtFacts DEF Diagnosed
  <1>3. CASE r = "needed" /\ Onward("optimize") /\ UNCHANGED ran
    <2>1. Passed(Held, "optimize")
      BY <1>1, <1>3, AtFacts DEF Passed, Passes
    <2> QED BY <1>1, <1>2, <1>3, <2>1, OnwardKeeps
  <1>4. CASE r = "not_needed" /\ Leave(Parked(Held)) /\ UNCHANGED ran
    <2>1. Held.result["optimize"] # "worse"
      BY <1>1, <1>2, <1>4, InStageFacts, Spelled DEF TicketOK, Passed, Passes
    <2> QED BY <1>2, <1>4, <2>1, ParkedKeeps
  <1>5. ASSUME NEW x \in {"ai_pending", "deferred"}, r = x,
               Leave([Held EXCEPT !.stage["diagnose"] = x]),
               x = "ai_pending" => UNCHANGED ran,
               x = "deferred" => ran' = [ran EXCEPT ![task.research]["diagnose"] = 0]
        PROVE  IInv'
    <2> DEFINE e == task.research  u == StageAt(Held, "diagnose", x)
    <2>1. ticket' = [ticket EXCEPT ![e] = u] /\ pc' = "free" /\ task' = NoTask
      BY <1>5 DEF Leave, Save, Release, StageAt
    <2> HIDE DEF u
    <2>2. u \in Tickets /\ StageOnly(Held, "diagnose", x, u)
      BY <1>1, <1>2, InStageFacts, StageSet DEF u
    <2>3. Held.stage \in [Stages -> {"absent", "running", "unknown", "completed", "pending", "ai_pending", "deferred"}]
      BY <1>2, InStageFacts DEF Tickets
    <2>4. /\ u.stage = [Held.stage EXCEPT !["diagnose"] = x] /\ u.result = Held.result
          /\ u.state = Held.state /\ u.decision = Held.decision /\ u.delivery = Held.delivery
          /\ u.summarised = Held.summarised /\ u.digest = Held.digest
      BY <2>2 DEF StageOnly
    <2>5. TicketOK(u)
      BY <1>1, <1>2, <1>5, <2>2, <2>3, <2>4, InStageFacts, StageSaved
    <2>6. \A o \in Researches : ticket'[o] = IF o = e THEN u ELSE ticket[o]
      BY <2>1 DEF IInv, TypeOK
    <2>7. ran' \in [Researches -> [Callbacks -> Nat]] /\ CountsOK'
      <3>1. ASSUME NEW o \in Researches PROVE CountOK(ticket'[o], ran'[o])
        <4>1. CountOK(ticket[o], ran[o]) /\ CountOK(Held, ran[e])
          BY <1>2, InStageFacts DEF IInv, CountsOK
        <4>2. CASE x = "ai_pending"
          BY <1>1, <1>5, <2>3, <2>4, <2>6, <4>1, <4>2 DEF CountOK
        <4>3. CASE x = "deferred"
          <5>1. \A c \in Callbacks : ran'[o][c] = IF o = e /\ c = "diagnose" THEN 0 ELSE ran[o][c]
            BY <1>5, <4>3 DEF IInv, TypeOK
          <5>2. \A v \in Stages : v \in Callbacks
            BY Spelled
          <5>3. \A v \in Stages : u.stage[v] = IF v = "diagnose" THEN x ELSE Held.stage[v]
            BY <1>1, <2>3, <2>4
          <5>4. "summarize" \in Callbacks /\ "post" \in Callbacks
            BY Spelled
          <5>5. CASE o = e
            <6>1. \A c \in Callbacks : ran'[o][c] \in {0, 1}
              BY <4>1, <5>1, <5>5 DEF CountOK
            <6>2. \A v \in Stages : u.stage[v] \in {"absent", "deferred"} => ran'[o][v] = 0
              BY <4>1, <5>1, <5>2, <5>3, <5>5 DEF CountOK
            <6>3. /\ ~u.summarised => ran'[o]["summarize"] = 0
                  /\ u.delivery = None => ran'[o]["post"] = 0
              BY <2>4, <4>1, <5>1, <5>4, <5>5 DEF CountOK
            <6> QED BY <2>6, <5>5, <6>1, <6>2, <6>3 DEF CountOK
          <5>6. CASE o # e
            BY <2>6, <4>1, <5>1, <5>2, <5>4, <5>6 DEF CountOK
          <5> QED BY <5>5, <5>6
        <4> QED BY <4>2, <4>3
      <3>2. ran' \in [Researches -> [Callbacks -> Nat]]
        BY <1>5 DEF IInv, TypeOK
      <3> QED BY <3>1, <3>2 DEF CountsOK
    <2>8. TicketsOK' /\ ConfirmedIsHeld'
      BY <1>2, <2>4, <2>5, <2>6, InStageFacts DEF IInv, TicketsOK, ConfirmedIsHeld
    <2>9. TypeOK' /\ HolderOK'
      BY <1>2, <2>1, <2>2, <2>7, NoTaskTyped DEF IInv, TypeOK, Tasks, HolderOK, InStage
    <2> QED BY <2>7, <2>8, <2>9 DEF IInv
  <1> QED BY <1>3, <1>4, <1>5 DEF Diagnosed

\* The stages, the decision and the delivery are left alone.
Kept(t, u) ==
    /\ u.stage = t.stage /\ u.result = t.result /\ u.digest = t.digest
    /\ u.decision = t.decision /\ u.delivery = t.delivery /\ u.summarised = t.summarised

LEMMA CountedFacts ==
    ASSUME NEW t \in Tickets, t.digest \in Digests, now \in Nat
    PROVE  /\ Counted(t) \in Tickets /\ Kept(t, Counted(t))
           /\ Counted(t).state = "parked" /\ t.digest \in Counted(t).counted
  <1> DEFINE counted == t.counted \cup {t.digest}
  <1>1. PICK a : a = Parked(t)
    OBVIOUS
  <1>2. PICK b : b = [a EXCEPT !.counted = counted]
    OBVIOUS
  <1>3. PICK c : c = [b EXCEPT !.last = now]
    OBVIOUS
  <1>4. PICK v : v = [c EXCEPT !.paused = FALSE]
    OBVIOUS
  <1>5. Counted(t) = v \/ Counted(t) = Archived(v)
    BY <1>1, <1>2, <1>3, <1>4 DEF Counted
  <1>6. counted \in SUBSET Digests /\ t.digest \in counted
    BY DEF Tickets
  <1>7. a \in Tickets /\ Kept(t, a) /\ a.state = "parked"
    BY <1>1 DEF Parked, Tickets, Kept
  <1> HIDE DEF counted
  <1>8. b \in Tickets /\ Kept(t, b) /\ b.state = "parked" /\ b.counted = counted
    BY <1>2, <1>6, <1>7 DEF Tickets, Kept
  <1>9. c \in Tickets /\ Kept(t, c) /\ c.state = "parked" /\ c.counted = counted
    BY <1>3, <1>8 DEF Tickets, Kept
  <1>10. v \in Tickets /\ Kept(t, v) /\ v.state = "parked" /\ v.counted = counted
    BY <1>4, <1>9 DEF Tickets, Kept
  <1>11. /\ Archived(v) \in Tickets /\ Kept(v, Archived(v))
         /\ Archived(v).state = "parked" /\ Archived(v).counted = v.counted
    <2>1. PICK w : w = [v EXCEPT !.archived = TRUE]
      OBVIOUS
    <2>2. Archived(v) = [w EXCEPT !.state = "parked"]
      BY <2>1 DEF Archived
    <2>3. w \in Tickets /\ Kept(v, w) /\ w.counted = v.counted
      BY <1>10, <2>1 DEF Tickets, Kept
    <2>4. PICK z : z = [w EXCEPT !.state = "parked"]
      OBVIOUS
    <2>5. z \in Tickets /\ Kept(w, z) /\ z.state = "parked" /\ z.counted = w.counted
      BY <2>3, <2>4 DEF Tickets, Kept
    <2> QED BY <2>2, <2>3, <2>4, <2>5 DEF Kept
  <1> QED BY <1>5, <1>6, <1>10, <1>11 DEF Kept

LEMMA OptimizedKeeps == ASSUME IInv, Optimized PROVE IInv'
  <1> DEFINE r == Held.result["optimize"]
  <1>1. "optimize" \in Stages /\ "backtest" \in Stages /\ At("optimize")
    BY Spelled DEF Optimized
  <1>2. InStage /\ task.stage = "optimize" /\ UNCHANGED <<now, ran, remote, inflight, crashes>>
    BY <1>1, AtFacts DEF Optimized
  <1>3. CASE r = "candidate" /\ Onward("backtest")
    <2>1. Passed(Held, "backtest")
      BY <1>1, <1>2, <1>3, AtFacts, InStageFacts DEF Passed, Passes
    <2> QED BY <1>1, <1>2, <1>3, <2>1, OnwardKeeps
  <1>4. CASE r = "worse" /\ Leave(Counted(Held))
    <2> DEFINE u == Counted(Held)
    <2>1. Held.digest \in Digests /\ now \in Nat
      BY <1>2, <1>4, InStageFacts DEF IInv, TypeOK
    <2>2. u \in Tickets /\ Kept(Held, u) /\ u.state = "parked" /\ Held.digest \in u.counted
      BY <1>2, <2>1, InStageFacts, CountedFacts
    <2> HIDE DEF u
    <2>3. TicketOK(u)
      BY <1>2, <2>1, <2>2, InStageFacts, RestSaved, Spelled DEF Kept, States
    <2>4. CountOK(u, ran[task.research]) /\ u.delivery = Held.delivery
      BY <1>2, <2>2, InStageFacts DEF CountOK, Kept
    <2> QED BY <1>2, <1>4, <2>2, <2>3, <2>4, InStageFacts, LeaveKeeps DEF u
  <1>5. CASE r = "reject" /\ Leave(Parked(Held))
    BY <1>2, <1>5, ParkedKeeps
  <1> QED BY <1>3, <1>4, <1>5 DEF Optimized

\* What TicketOK speaks of is left alone.
Alike(t, u) ==
    /\ u.stage = t.stage /\ u.result = t.result /\ u.digest = t.digest /\ u.decision = t.decision
    /\ u.state = t.state /\ u.archived = t.archived /\ u.counted = t.counted

LEMMA AlikeOK ==
    ASSUME NEW t \in Tickets, TicketOK(t), t.state # None, NEW u \in Tickets, Alike(t, u)
    PROVE  TicketOK(u)
  <1>1. /\ u.result["optimize"] = "worse" => u.digest \in Digests
        /\ u.state \in States \cup {"awaiting_human"} => u.decision = None
        /\ u.state = "awaiting_human" \/ u.decision # None => Witnessed(t)
        /\ u.state = "parked" /\ ~u.archived /\ u.result["optimize"] = "worse" => u.digest \in u.counted
    BY DEF Alike, TicketOK, States
  <1> QED BY <1>1, RestSaved DEF Alike

LEMMA BacktestedKeeps == ASSUME IInv, Backtested PROVE IInv'
  <1> DEFINE r == Held.result["backtest"]
  <1>1. "backtest" \in Stages /\ "shadow" \in Stages /\ At("backtest")
    BY Spelled DEF Backtested
  <1>2. InStage /\ task.stage = "backtest" /\ UNCHANGED <<now, ran, remote, inflight, crashes>>
    BY <1>1, AtFacts DEF Backtested
  <1>3. CASE GatesOk(r) /\ Onward("shadow")
    <2>1. Passed(Held, "shadow")
      BY <1>1, <1>2, <1>3, AtFacts, InStageFacts DEF Passed, Passes, GatesOk
    <2> QED BY <1>1, <1>2, <1>3, <2>1, OnwardKeeps
  <1>4. CASE Save([Held EXCEPT !.paused = TRUE]) /\ UNCHANGED <<pc, task>>
    <2> DEFINE e == task.research  u == [Held EXCEPT !.paused = TRUE]
    <2>1. /\ u \in Tickets /\ Alike(Held, u)
          /\ u.delivery = Held.delivery /\ u.summarised = Held.summarised
      BY <1>2, InStageFacts DEF Tickets, Alike
    <2>2. ticket' = [ticket EXCEPT ![e] = u]
      BY <1>4 DEF Save
    <2> HIDE DEF u
    <2>3. TicketOK(u)
      <3>1. Held.state # None
        BY <1>2, InStageFacts, Spelled DEF States
      <3> QED BY <1>2, <2>1, <3>1, InStageFacts, AlikeOK
    <2>4. CountOK(u, ran[e])
      BY <1>2, <2>1, InStageFacts DEF CountOK, Alike
    <2>5. ticket'[e] = u
      BY <1>2, <2>2, InStageFacts DEF IInv, TypeOK
    <2>6. Passed(u, task.stage)
      BY <1>2, <2>1, InStageFacts DEF Passed, Passes, Alike
    <2>7. pc' \in Steps /\ task' \in Tasks
      BY <1>2, <1>4, InStageFacts DEF InStage, Steps
    <2>8. HolderOK'
      BY <1>2, <1>4, <2>1, <2>5, <2>6, InStageFacts DEF IInv, HolderOK, InStage, Held, Alike, States
    <2> QED BY <1>2, <2>1, <2>2, <2>3, <2>4, <2>7, <2>8, InStageFacts, SaveKeeps
  <1>5. CASE Leave(Parked(Held))
    <2>1. Held.result["optimize"] # "worse"
      BY <1>2, InStageFacts DEF Passed, Passes
    <2> QED BY <1>2, <1>5, <2>1, ParkedKeeps
  <1> QED BY <1>3, <1>4, <1>5 DEF Backtested

LEMMA ShadowedKeeps == ASSUME IInv, Shadowed PROVE IInv'
  <1> DEFINE r == Held.result["shadow"]  e == task.research
  <1>1. "shadow" \in Stages /\ At("shadow")
    BY Spelled DEF Shadowed
  <1>2. InStage /\ task.stage = "shadow" /\ UNCHANGED <<now, ran, remote, inflight, crashes>>
    BY <1>1, AtFacts DEF Shadowed
  <1>3. CASE /\ r \in {"complete", "passed"} /\ Save([Held EXCEPT !.state = "awaiting_human"])
             /\ pc' = "summary" /\ UNCHANGED task
    <2> DEFINE u == [Held EXCEPT !.state = "awaiting_human"]
    <2>1. u \in Tickets /\ Kept(Held, u) /\ u.state = "awaiting_human"
      BY <1>2, InStageFacts DEF Tickets, Kept
    <2>2. ticket' = [ticket EXCEPT ![e] = u]
      BY <1>3 DEF Save
    <2> HIDE DEF u
    <2>3. Witnessed(Held)
      BY <1>1, <1>2, <1>3, AtFacts, InStageFacts DEF Witnessed
    <2>4. TicketOK(u)
      BY <1>2, <2>1, <2>3, InStageFacts, RestSaved, Spelled DEF Kept, States
    <2>5. CountOK(u, ran[e]) /\ u.delivery = Held.delivery
      BY <1>2, <2>1, InStageFacts DEF CountOK, Kept
    <2>6. ticket'[e] = u
      BY <1>2, <2>2, InStageFacts DEF IInv, TypeOK
    <2>7. pc' \in Steps /\ task' \in Tasks /\ HolderOK'
      BY <1>2, <1>3, <2>1, <2>6, InStageFacts, Spelled DEF HolderOK, InStage, Held, Steps
    <2> QED BY <1>2, <2>1, <2>2, <2>4, <2>5, <2>7, InStageFacts, SaveKeeps
  <1>4. CASE r = "pending" /\ Leave(Held)
    BY <1>2, <1>4, InStageFacts, LeaveKeeps
  <1>5. CASE r = "failed" /\ Leave(Parked(Held))
    <2>1. Held.result["optimize"] # "worse"
      BY <1>2, InStageFacts DEF Passed, Passes
    <2> QED BY <1>2, <1>5, <2>1, ParkedKeeps
  <1> QED BY <1>3, <1>4, <1>5 DEF Shadowed

(***************************************************************************)
(* People and the console.                                                 *)
(***************************************************************************)
AfterStages == pc \in {"summary", "summarise", "reconcile", "deliver", "sync", "readback"}

LEMMA AfterStagesFacts ==
    ASSUME IInv, AfterStages
    PROVE  /\ task.research \in Researches /\ task \in Tasks
           /\ Held = ticket[task.research] /\ Held \in Tickets /\ TicketOK(Held)
           /\ CountOK(Held, ran[task.research]) /\ Held.state # None
           /\ Held.delivery = "confirmed" => remote[task.research] # None
  <1>1. task.research \in Researches /\ task \in Tasks /\ Held.state # None
    BY DEF IInv, TypeOK, HolderOK, AfterStages, Tasks
  <1> QED BY <1>1 DEF IInv, TypeOK, TicketsOK, CountsOK, ConfirmedIsHeld, Held

\* The holder goes on from one of these steps, and its ticket is as it was.
LEMMA GoesOn ==
    ASSUME IInv, AfterStages, UNCHANGED <<ticket, now, ran, remote, inflight, crashes>>,
           \/ pc' \in {"reconcile", "deliver"} /\ UNCHANGED task
           \/ Release
    PROVE  IInv'
  <1>1. pc' \in Steps /\ task' \in Tasks
    BY AfterStagesFacts, NoTaskTyped DEF Steps, Release
  <1>2. HolderOK'
    BY AfterStagesFacts DEF HolderOK, InStage, Held, Release
  <1> QED BY <1>1, <1>2 DEF IInv, TypeOK, Steps, Tasks, TicketsOK, CountsOK, ConfirmedIsHeld

LEMMA SummaryKeeps == ASSUME IInv, Summary PROVE IInv'
  <1>1. AfterStages /\ UNCHANGED <<task, now, ran, remote, inflight, crashes>>
    BY DEF Summary, AfterStages
  <1>2. CASE ~Held.summarised /\ Save([Held EXCEPT !.summarised = TRUE]) /\ pc' = "summarise"
    <2> DEFINE e == task.research  u == [Held EXCEPT !.summarised = TRUE]
    <2>1. u \in Tickets /\ Alike(Held, u) /\ u.delivery = Held.delivery /\ u.summarised
      BY <1>1, AfterStagesFacts DEF Tickets, Alike
    <2>2. ticket' = [ticket EXCEPT ![e] = u]
      BY <1>2 DEF Save
    <2> HIDE DEF u
    <2>3. TicketOK(u)
      BY <1>1, <2>1, AfterStagesFacts, AlikeOK
    <2>4. CountOK(u, ran[e]) /\ ran[e]["summarize"] = 0
      BY <1>1, <1>2, <2>1, AfterStagesFacts DEF CountOK, Alike
    <2>5. ticket'[e] = u
      BY <1>1, <2>2, AfterStagesFacts DEF IInv, TypeOK
    <2>6. pc' \in Steps /\ task' \in Tasks /\ HolderOK'
      BY <1>1, <1>2, <2>1, <2>4, <2>5, AfterStagesFacts DEF HolderOK, InStage, Held, Steps, Alike
    <2> QED BY <1>1, <2>1, <2>2, <2>3, <2>4, <2>6, AfterStagesFacts, SaveKeeps
  <1>3. CASE pc' = "reconcile" /\ UNCHANGED ticket
    BY <1>1, <1>3, GoesOn
  <1> QED BY <1>2, <1>3 DEF Summary

LEMMA SummariseKeeps == ASSUME IInv, Summarise PROVE IInv'
  <1>1. AfterStages /\ UNCHANGED <<ticket, task, now, remote, inflight, crashes>> /\ pc' \in {"reconcile", "deliver"}
    BY DEF Summarise, AfterStages
  <1>2. ran[task.research]["summarize"] = 0 /\ Held.summarised
    BY DEF Summarise, IInv, HolderOK
  <1>3. ran' = [ran EXCEPT ![task.research]["summarize"] = @ + 1]
    BY DEF Summarise, Calls
  <1>4. "summarize" \in Callbacks /\ "summarize" \notin Stages
    BY Spelled
  <1>5. ran' \in [Researches -> [Callbacks -> Nat]] /\ CountsOK'
    BY <1>1, <1>2, <1>3, <1>4, AfterStagesFacts, CallsOnce
  <1>6. HolderOK'
    BY <1>1, AfterStagesFacts DEF HolderOK, InStage, Held
  <1>7. TypeOK' /\ TicketsOK' /\ ConfirmedIsHeld'
    BY <1>1, <1>5 DEF IInv, TypeOK, TicketsOK, ConfirmedIsHeld
  <1> QED BY <1>5, <1>6, <1>7 DEF IInv

LEMMA ReconcileKeeps == ASSUME IInv, Reconcile PROVE IInv'
  <1>1. /\ AfterStages /\ UNCHANGED <<now, ran, remote, inflight, crashes>>
        /\ (pc' = "deliver" /\ UNCHANGED task) \/ Release
    BY DEF Reconcile, AfterStages
  <1>2. CASE UNCHANGED ticket
    BY <1>1, <1>2, GoesOn
  <1>3. ASSUME NEW decision \in {"accept", "reject"}, Decidable(Held),
               ticket' = [ticket EXCEPT ![task.research] = Decided(@, decision)]
        PROVE  IInv'
    <2>1. ticket'[task.research] = Decided(Held, decision)
      BY <1>1, <1>3, AfterStagesFacts DEF IInv, TypeOK
    <2>2. Decided(Held, decision).state # None
      BY <1>1, <1>3, AfterStagesFacts, DecidedOK
    <2>3. pc' \in Steps /\ task' \in Tasks
      BY <1>1, AfterStagesFacts, NoTaskTyped DEF Steps, Release
    <2>4. HolderOK'
      BY <1>1, <2>1, <2>2, AfterStagesFacts DEF HolderOK, InStage, Held, Release
    <2> QED BY <1>1, <1>3, <2>3, <2>4, AfterStagesFacts, DecideKeeps
  <1> QED BY <1>1, <1>2, <1>3, AfterStagesFacts DEF Reconcile, Pulled

LEMMA FreeDecideKeeps ==
    ASSUME IInv, NEW e \in Researches, pc = "free",
           Pulled(e) \/ \E decision \in {"accept", "reject"} :
               Decidable(ticket[e]) /\ ticket' = [ticket EXCEPT ![e] = Decided(@, decision)],
           UNCHANGED <<pc, task, now, ran, remote, inflight, crashes>>
    PROVE  IInv'
  <1>1. PICK decision \in {"accept", "reject"} :
            Decidable(ticket[e]) /\ ticket' = [ticket EXCEPT ![e] = Decided(@, decision)]
    BY DEF Pulled
  <1>2. pc' \in Steps /\ task' \in Tasks /\ HolderOK'
    BY FreeKeeps DEF IInv, TypeOK, Tasks
  <1> QED BY <1>1, <1>2, DecideKeeps

\* The delivery of the held ticket is saved.
LEMMA DeliverySet ==
    ASSUME IInv, AfterStages, NEW delivery \in {"running", "confirmed", "unconfirmed"},
           NEW u, u = [Held EXCEPT !.delivery = delivery]
    PROVE  u \in Tickets /\ TicketOK(u) /\ CountOK(u, ran[task.research])
           /\ u.delivery = delivery /\ u.state # None
  <1>1. /\ u \in Tickets /\ Alike(Held, u) /\ u.delivery = delivery
        /\ u.summarised = Held.summarised
    BY AfterStagesFacts DEF Tickets, Alike
  <1>2. TicketOK(u)
    BY <1>1, AfterStagesFacts, AlikeOK
  <1>3. CountOK(u, ran[task.research])
    BY <1>1, AfterStagesFacts, Spelled DEF CountOK, Alike
  <1> QED BY <1>1, <1>2, <1>3, AfterStagesFacts DEF Alike

LEMMA DeliverKeeps == ASSUME IInv, Deliver PROVE IInv'
  <1>1. AfterStages /\ UNCHANGED <<now, ran, remote, inflight, crashes>>
    BY DEF Deliver, AfterStages
  <1>2. CASE Release /\ UNCHANGED ticket
    BY <1>1, <1>2, GoesOn
  <1>3. CASE /\ Held.delivery = None
             /\ Save([Held EXCEPT !.delivery = "running"]) /\ pc' = "sync" /\ UNCHANGED task
    <2> DEFINE e == task.research
    <2>1. PICK u : u = [Held EXCEPT !.delivery = "running"]
      OBVIOUS
    <2>2. u \in Tickets /\ TicketOK(u) /\ CountOK(u, ran[e]) /\ u.delivery = "running" /\ u.state # None
      BY <1>1, <2>1, DeliverySet
    <2>3. ticket' = [ticket EXCEPT ![e] = u]
      BY <1>3, <2>1 DEF Save
    <2>4. ticket'[e] = u
      BY <1>1, <2>3, AfterStagesFacts DEF IInv, TypeOK
    <2>5. ran[e]["post"] = 0
      BY <1>1, <1>3, AfterStagesFacts DEF CountOK
    <2>6. pc' \in Steps /\ task' \in Tasks /\ HolderOK'
      BY <1>1, <1>3, <2>2, <2>4, <2>5, AfterStagesFacts, Spelled DEF HolderOK, InStage, Held, Steps
    <2> QED BY <1>1, <2>2, <2>3, <2>6, AfterStagesFacts, SaveKeeps
  <1> QED BY <1>2, <1>3 DEF Deliver

LEMMA PostKeeps == ASSUME IInv, Post PROVE IInv'
  <1>1. /\ AfterStages /\ UNCHANGED <<ticket, task, now, remote, crashes>> /\ pc' = "readback"
        /\ inflight' = inflight \cup {task.research}
    BY DEF Post, AfterStages
  <1>2. ran[task.research]["post"] = 0 /\ Held.delivery # None
    BY DEF Post, IInv, HolderOK
  <1>3. ran' = [ran EXCEPT ![task.research]["post"] = @ + 1]
    BY DEF Post, Calls
  <1>4. "post" \in Callbacks /\ "post" \notin Stages
    BY Spelled
  <1>5. ran' \in [Researches -> [Callbacks -> Nat]] /\ CountsOK'
    BY <1>1, <1>2, <1>3, <1>4, AfterStagesFacts, CallsOnce
  <1>6. HolderOK'
    BY <1>1, <1>2, AfterStagesFacts DEF HolderOK, InStage, Held
  <1>7. TypeOK' /\ TicketsOK' /\ ConfirmedIsHeld'
    BY <1>1, <1>5, AfterStagesFacts DEF IInv, TypeOK, TicketsOK, ConfirmedIsHeld
  <1> QED BY <1>5, <1>6, <1>7 DEF IInv

LEMMA SyncEndsKeeps == ASSUME IInv, NEW confirmed \in BOOLEAN, SyncEnds(confirmed) PROVE IInv'
  <1> DEFINE e == task.research
             delivery == IF confirmed THEN "confirmed" ELSE "unconfirmed"
  <1>1. AfterStages /\ UNCHANGED <<now, ran, remote, inflight, crashes>>
    BY DEF SyncEnds, AfterStages
  <1>2. PICK u : u = [Held EXCEPT !.delivery = delivery]
    OBVIOUS
  <1>3. Leave(u)
    BY <1>2 DEF SyncEnds
  <1>4. delivery \in {"confirmed", "unconfirmed"} /\ (delivery = "confirmed" => remote[e] # None)
    BY Spelled DEF SyncEnds, ReadBack
  <1> HIDE DEF delivery
  <1>5. u \in Tickets /\ TicketOK(u) /\ CountOK(u, ran[e]) /\ u.delivery = delivery
    BY <1>1, <1>2, <1>4, DeliverySet
  <1> QED BY <1>1, <1>3, <1>4, <1>5, AfterStagesFacts, LeaveKeeps

\* The console's own steps.
LEMMA RemoteKeeps ==
    ASSUME IInv, NEW e \in Researches, NEW state \in {"awaiting_human", "accept", "reject"},
           remote' = [remote EXCEPT ![e] = state], inflight' \subseteq Researches,
           UNCHANGED <<ticket, pc, task, now, ran, crashes>>
    PROVE  IInv'
  <1>1. TypeOK' /\ TicketsOK' /\ CountsOK'
    BY DEF IInv, TypeOK, TicketsOK, CountsOK
  <1>2. HolderOK'
    BY DEF IInv, HolderOK, InStage, Held
  <1>3. ConfirmedIsHeld'
    BY Spelled DEF IInv, TypeOK, ConfirmedIsHeld
  <1> QED BY <1>1, <1>2, <1>3 DEF IInv

LEMMA CrashKeeps == ASSUME IInv, Crash PROVE IInv'
  BY NoTaskTyped DEF Crash, Release, IInv, TypeOK, Tasks, TicketsOK, CountsOK, HolderOK, InStage, ConfirmedIsHeld

LEMMA TickKeeps == ASSUME IInv, Tick PROVE IInv'
  BY DEF Tick, IInv, TypeOK, TicketsOK, CountsOK, HolderOK, InStage, Held, ConfirmedIsHeld

(***************************************************************************)
(* Every step.                                                             *)
(***************************************************************************)
LEMMA StepIInv == ASSUME IInv, [Next]_vars PROVE IInv'
  <1>1. CASE UNCHANGED vars
    BY <1>1 DEF vars, IInv, TypeOK, TicketsOK, CountsOK, HolderOK, InStage, Held, ConfirmedIsHeld
  <1>2. ASSUME NEW e \in Researches,
               \/ ArchiveIdle(e)
               \/ \E victim \in Researches : ArchiveScope(e, victim)
        PROVE  IInv'
    BY <1>2, ArchiveKeeps DEF ArchiveIdle, ArchiveScope, Records
  <1>3. ASSUME NEW e \in Researches,
               ReconcileAlone(e) \/ \E decision \in {"accept", "reject"} : Decide(e, decision)
        PROVE  IInv'
    BY <1>3, FreeDecideKeeps DEF ReconcileAlone, Decide
  <1>4. ASSUME NEW e \in Researches,
               Arrive(e) \/ \E decision \in {"accept", "reject"} : ConsoleDecide(e, decision)
        PROVE  IInv'
    <2>1. CASE Arrive(e)
      BY <2>1, RemoteKeeps DEF Arrive, IInv, TypeOK
    <2>2. ASSUME NEW decision \in {"accept", "reject"}, ConsoleDecide(e, decision) PROVE IInv'
      BY <2>2, RemoteKeeps DEF ConsoleDecide, IInv, TypeOK
    <2> QED BY <1>4, <2>1, <2>2
  <1>5. ASSUME NEW outcome \in UNION {Outcomes(s, FALSE) : s \in Stages}, NEW d \in Digests,
               NEW r \in (now + 1)..Never, Returns(outcome, d, r)
        PROVE  IInv'
    <2>1. outcome \in Results
      BY DEF Results
    <2>2. r \in Nat
      BY Spelled DEF IInv, TypeOK
    <2> QED BY <1>5, <2>1, <2>2, ReturnsKeeps
  <1>6. CASE Begin \/ Call \/ Raises \/ Diagnosed \/ Optimized \/ Backtested \/ Shadowed
    BY <1>6, BeginKeeps, CallKeeps, RaisesKeeps, DiagnosedKeeps, OptimizedKeeps, BacktestedKeeps, ShadowedKeeps
  <1>7. CASE Summary \/ Summarise \/ Reconcile \/ Deliver \/ Post \/ Crash \/ Tick
    BY <1>7, SummaryKeeps, SummariseKeeps, ReconcileKeeps, DeliverKeeps, PostKeeps, CrashKeeps, TickKeeps
  <1> QED BY <1>1, <1>2, <1>3, <1>4, <1>5, <1>6, <1>7, CreateKeeps, ResumeKeeps, SyncEndsKeeps DEF Next

\* A save of one ticket is harmless to decisions where it has none or keeps it.
LEMMA SaveKeepsDecisions ==
    ASSUME IInv, NEW r \in Researches, NEW u, ticket' = [ticket EXCEPT ![r] = u],
           ticket[r].decision # None => u.decision = ticket[r].decision, NEW e \in Researches,
           ticket[e].decision # None
    PROVE  ticket'[e].decision = ticket[e].decision
  <1>1. ticket'[e] = IF e = r THEN u ELSE ticket[e]
    BY DEF IInv, TypeOK
  <1> QED BY <1>1

\* Holders of a stage have a ticket without a decision.
LEMMA InStageDecisions ==
    ASSUME IInv, InStage, NEW u, Save(u), NEW e \in Researches, ticket[e].decision # None
    PROVE  ticket'[e].decision = ticket[e].decision
  BY InStageFacts, SaveKeepsDecisions DEF Save, Held

LEMMA DecisionsKept ==
    ASSUME IInv, [Next]_vars, NEW e \in Researches, ticket[e].decision # None
    PROVE  ticket'[e].decision = ticket[e].decision
  <1> DEFINE Goal == ticket'[e].decision = ticket[e].decision
  <1>1. CASE UNCHANGED ticket
    BY <1>1
  <1>2. \A r \in Researches : ticket[r] \in Tickets /\ TicketOK(ticket[r])
    BY DEF IInv, TypeOK, TicketsOK
  <1>3. ASSUME NEW r \in Researches, ticket' = [ticket EXCEPT ![r] = Archived(@)] PROVE Goal
    <2>1. Archived(ticket[r]).decision = ticket[r].decision
      BY <1>2 DEF Archived, Tickets
    <2> QED BY <1>3, <2>1, SaveKeepsDecisions
  <1>4. ASSUME NEW r \in Researches, NEW decision \in {"accept", "reject"}, Decidable(ticket[r]),
               ticket' = [ticket EXCEPT ![r] = Decided(@, decision)]
        PROVE  Goal
    <2>1. ticket[r].decision = None
      BY <1>2, <1>4 DEF Decidable, TicketOK
    <2> QED BY <1>4, <2>1, SaveKeepsDecisions
  <1>5. ASSUME NEW r \in Researches, Create(r) PROVE Goal
    <2>1. ticket[r].decision = None
      BY <1>2, <1>5 DEF TicketOK, Create, Records, NoTicket
    <2>2. \A o \in Researches : o # r => ticket'[o] = ticket[o]
      BY <1>5 DEF Create, IInv, TypeOK
    <2> QED BY <2>1, <2>2
  <1>6. ASSUME InStage, NEW u, Save(u) PROVE Goal
    BY <1>6, InStageDecisions
  <1>7. CASE Begin \/ Raises
    BY <1>6, <1>7 DEF Begin, Raises, InStage
  <1>8. ASSUME NEW outcome, NEW d, NEW r, Returns(outcome, d, r) PROVE Goal
    BY <1>6, <1>8 DEF Returns, InStage
  <1>9. CASE Diagnosed \/ Optimized \/ Backtested \/ Shadowed
    <2>1. InStage
      BY <1>9 DEF Diagnosed, Optimized, Backtested, Shadowed, At, InStage
    <2> QED BY <1>1, <1>6, <1>9, <2>1 DEF Diagnosed, Optimized, Backtested, Shadowed, Onward, Leave
  <1>10. ASSUME AfterStages, NEW u, Save(u), u.decision = Held.decision PROVE Goal
    BY <1>10, AfterStagesFacts, SaveKeepsDecisions DEF Save
  <1>11. CASE Summary \/ Deliver \/ \E confirmed \in BOOLEAN : SyncEnds(confirmed)
    <2>1. AfterStages
      BY <1>11 DEF Summary, Deliver, SyncEnds, AfterStages
    <2>2. Held \in Tickets
      BY <2>1, AfterStagesFacts
    <2>3. [Held EXCEPT !.summarised = TRUE].decision = Held.decision
      BY <2>2 DEF Tickets
    <2>4. \A x : [Held EXCEPT !.delivery = x].decision = Held.decision
      BY <2>2 DEF Tickets
    <2>5. CASE Summary
      BY <1>1, <1>10, <2>1, <2>3, <2>5 DEF Summary
    <2>6. CASE Deliver
      BY <1>1, <1>10, <2>1, <2>4, <2>6 DEF Deliver
    <2>7. ASSUME NEW confirmed \in BOOLEAN, SyncEnds(confirmed) PROVE Goal
      BY <1>10, <2>1, <2>4, <2>7 DEF SyncEnds, Leave
    <2> QED BY <1>11, <2>5, <2>6, <2>7
  <1>12. ASSUME NEW r \in Researches, Pulled(r) PROVE Goal
    BY <1>4, <1>12 DEF Pulled
  <1>13. CASE Reconcile
    <2>1. task.research \in Researches
      BY <1>13, AfterStagesFacts DEF Reconcile, AfterStages
    <2> QED BY <1>1, <1>12, <1>13, <2>1 DEF Reconcile
  <1>14. ASSUME NEW r \in Researches,
                \/ ArchiveIdle(r) \/ ReconcileAlone(r) \/ Arrive(r)
                \/ \E victim \in Researches : ArchiveScope(r, victim)
                \/ \E stale \in BOOLEAN : Resume(r, stale)
                \/ \E decision \in {"accept", "reject"} : Decide(r, decision) \/ ConsoleDecide(r, decision)
         PROVE  Goal
    BY <1>1, <1>3, <1>4, <1>12, <1>14
       DEF ArchiveIdle, ReconcileAlone, Arrive, ArchiveScope, Resume, Decide, ConsoleDecide
  <1>15. CASE Call \/ Summarise \/ Post \/ Crash \/ Tick \/ UNCHANGED vars
    BY <1>1, <1>15 DEF Call, Summarise, Post, Crash, Tick, vars
  <1>16. ASSUME NEW outcome \in UNION {Outcomes(s, FALSE) : s \in Stages}, NEW d \in Digests,
                NEW r \in (now + 1)..Never, Returns(outcome, d, r)
         PROVE  Goal
    BY <1>8, <1>16
  <1>17. CASE Next
    BY <1>5, <1>7, <1>9, <1>11, <1>13, <1>14, <1>15, <1>16, <1>17 DEF Next
  <1>18. Goal
    BY <1>15, <1>17
  <1> QED BY <1>18

-----------------------------------------------------------------------------
(* Every reachable directory of tickets is typed; each ticket is a trace of  *)
(* stages passed in order, and no callback was called before its save.       *)
THEOREM PromotionInvariant == Spec => []IInv
  <1>1. Init => IInv
    BY InitIInv
  <1>2. IInv /\ [Next]_vars => IInv'
    BY StepIInv
  <1> QED BY <1>1, <1>2, PTL DEF Spec

(* A saved ticket is always one the loader knows.                            *)
THEOREM PromotionTypeCorrect == Spec => []TypeOK
  <1>1. IInv => TypeOK
    BY DEF IInv
  <1> QED BY <1>1, PromotionInvariant, PTL

(* No ticket diagnoses, optimizes, backtests, opens a shadow observation,    *)
(* summarises or POSTs twice, wherever its holders die and however often it  *)
(* is taken up again.                                                        *)
THEOREM CallbacksRunOnce == Spec => []AtMostOnce
  <1>1. IInv => AtMostOnce
    BY DEF IInv, CountsOK, CountOK, AtMostOnce
  <1> QED BY <1>1, PromotionInvariant, PTL

(* People are asked, and have decided, only on a candidate that passed every *)
(* stage.                                                                    *)
THEOREM PeopleSeeAllEvidence == Spec => []EvidenceBeforeHuman
  <1>1. IInv => EvidenceBeforeHuman
    BY Spelled DEF IInv, TicketsOK, TicketOK, Witnessed, Passed, Passes, EvidenceBeforeHuman
  <1> QED BY <1>1, PromotionInvariant, PTL

(* A round that improved nothing is counted by the ticket it parked.         *)
THEOREM RoundsAreCounted == Spec => []RoundsCounted
  <1>1. IInv => RoundsCounted
    BY DEF IInv, TicketsOK, TicketOK, RoundsCounted
  <1> QED BY <1>1, PromotionInvariant, PTL

(* A delivery that is confirmed is held by the console.                      *)
THEOREM ConfirmedDeliveryIsHeld == Spec => []ConfirmedIsHeld
  <1>1. IInv => ConfirmedIsHeld
    BY DEF IInv
  <1> QED BY <1>1, PromotionInvariant, PTL

(* A person's decision is never changed, by the console's or by another.     *)
THEOREM DecisionsStay == Spec => DecisionStays
  <1>1. IInv /\ [Next]_vars =>
            [\A e \in Researches : ticket[e].decision # None => ticket'[e].decision = ticket[e].decision]_vars
    BY DecisionsKept
  <1> QED BY <1>1, PromotionInvariant, PTL DEF Spec, DecisionStays
=============================================================================
