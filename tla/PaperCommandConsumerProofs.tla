--------------------- MODULE PaperCommandConsumerProofs ---------------------
(***************************************************************************)
(* For any commands, workers, dates and number of failing calls: histories *)
(* stay readable and the queue implements CommandLifecycle.                *)
(***************************************************************************)
EXTENDS PaperCommandConsumer, SequenceTheorems, TLAPS

\* Where a worker has claimed the command it works on.
Held == {"evaluate", "read", "append", "reconcile", "flag"}

\* A command has no events before it is enqueued.
QueueOK == \A c \in Commands : c \notin queue => history[c] = <<>>

\* Only a claimed command was ever evaluated.
EvaluatedOK == \A c \in evaluated : Claimant(history[c]) \in Workers

\* What a worker is about to submit is approved.
Cleared(w) ==
    job[w].next = "submitted" =>
        Approved(Content[job[w].cmd], Runtime[w], job[w].reported, job[w].effects)

\* A worker's job speaks of enqueued commands and of events that exist; it holds
\* commands it claimed, has not evaluated one before it does, and what it read
\* of a history is still true while the end of the history is where it was.
WorkerOK(w) ==
    LET c == job[w].cmd
        h == history[c]
    IN  /\ job[w].todo \subseteq queue
        /\ pc[w] \in Held \cup {"claim"} => c \in queue /\ job[w].base <= Len(h)
        /\ pc[w] \in Held => Claimant(h) = w
        /\ pc[w] = "evaluate" => c \notin evaluated
        /\ pc[w] = "claim" => job[w].base = 0
        /\ pc[w] \in {"read", "append"} => job[w].next \in DOMAIN Expected /\ Cleared(w)
        /\ pc[w] = "append" /\ job[w].base = Len(h) => Current(h) = Expected[job[w].next]
        /\ pc[w] = "flag" /\ job[w].base = Len(h) => Current(h) \in Reconcilable

IInv ==
    TypeOK /\ HistoriesLegal /\ QueueOK /\ EvaluatedOK /\ \A w \in Workers : WorkerOK(w)

(***************************************************************************)
(* The gates.                                                              *)
(***************************************************************************)

\* Admission leaves a command nothing but the finding that it may only reduce: then
\* every binding of its release and of its receipt holds.
LEMMA AdmissionFacts ==
    ASSUME NEW command, NEW expected, AdmissionFindings(command, expected) \subseteq Reducing
    PROVE  LET receipt == command.receipt
           IN  /\ command.mode = "paper" /\ command.release = expected
               /\ command.hasReceipt /\ receipt.sealed
               /\ receipt.decision = command.decision /\ receipt.session = command.date
               /\ receipt.profile = command.profile /\ receipt.release = expected.id
               /\ receipt.policy = expected.policy
               /\ receipt.disposition \in {"allow_new_risk", "reducing_only"}
               /\ receipt.disposition = "reducing_only" =>
                     AdmissionFindings(command, expected) # {}
<1> DEFINE receipt == command.receipt
<1>1. command.mode = "paper"
  BY DEF AdmissionFindings, Reducing
<1>2. command.release = expected
  BY <1>1 DEF AdmissionFindings, ReleaseFindings, When, Reducing
<1>3. command.hasReceipt
  BY <1>1, <1>2 DEF AdmissionFindings, Reducing
<1>4. ReceiptValid(receipt)
  BY <1>1, <1>2, <1>3 DEF AdmissionFindings, Reducing
<1>5. ReceiptBinding(command, expected) = {}
  <2>1. ReceiptBinding(command, expected) \cap Reducing = {}
    BY DEF ReceiptBinding, When, Reducing
  <2>2. SUFFICES ASSUME ReceiptBinding(command, expected) # {}
                 PROVE  ReceiptBinding(command, expected) \subseteq Reducing
    BY <2>1
  <2> QED BY <1>1, <1>2, <1>3, <1>4, <2>2 DEF AdmissionFindings
<1>6. /\ receipt.decision = command.decision /\ receipt.session = command.date
      /\ receipt.profile = command.profile /\ receipt.release = expected.id
      /\ receipt.policy = expected.policy
  BY <1>5 DEF ReceiptBinding, When
<1>7. AdmissionFindings(command, expected) = DispositionFindings(receipt)
  BY <1>1, <1>2, <1>3, <1>4, <1>5 DEF AdmissionFindings
<1>8. receipt.disposition # "halted"
  BY <1>7 DEF DispositionFindings, When, Reducing
<1>9. receipt.disposition = "reducing_only" => DispositionFindings(receipt) # {}
  BY DEF DispositionFindings, When
<1> QED BY <1>1, <1>2, <1>3, <1>4, <1>6, <1>7, <1>8, <1>9 DEF ReceiptValid

\* Whatever a platform reports and proposes, the gates let through only what is
\* approved; a command for another runtime has its mismatches among the reports.
LEMMA GatesApprove ==
    ASSUME NEW command, NEW runtime, NEW reported, NEW effects \in SUBSET Effects,
           Submittable(command, runtime, reported, effects),
           BindingFindings(command, runtime) \subseteq reported
    PROVE  Approved(command, runtime, reported, effects)
<1> DEFINE findings == AdmissionFindings(command, runtime.expected) \cup reported
                           \cup RuntimeFindings(runtime)
           orders == IF effects = {} THEN {"neutral"} ELSE effects
<1>1. \A effect \in orders : Permits(Mode(findings), effect)
  BY DEF Submittable
<1>2. orders # {}
  OBVIOUS
<1>3. Mode(findings) # "halted" /\ "unknown" \notin orders
  BY <1>1, <1>2 DEF Permits
<1>4. findings \subseteq Reducing
  BY <1>3 DEF Mode
<1>5. findings # {} => effects = {"reduces"}
  <2>1. findings # {} => \A effect \in orders : effect = "reduces"
    BY <1>1, <1>4 DEF Mode, Permits
  <2> QED BY <1>2, <2>1
<1>6. runtime.attested /\ runtime.loaded = runtime.expected
  BY <1>4 DEF RuntimeFindings, ReleaseFindings, When, Reducing
<1>7. /\ command.platform = runtime.platform /\ command.account = runtime.account
      /\ command.profile = runtime.profile
  BY <1>4 DEF BindingFindings, When, Reducing
<1>8. AdmissionFindings(command, runtime.expected) \subseteq Reducing
  BY <1>4
<1>9. reported \subseteq Reducing /\ (reported # {} => effects = {"reduces"})
      /\ (AdmissionFindings(command, runtime.expected) # {} => effects = {"reduces"})
  BY <1>4, <1>5
<1>10. "unknown" \notin effects
  BY <1>3
<1> HIDE DEF findings, orders
<1> QED BY <1>6, <1>7, <1>8, <1>9, <1>10, AdmissionFacts DEF Approved

(***************************************************************************)
(* Transitions and histories.                                              *)
(***************************************************************************)
\* No transition leads back to queued, and only a queued command is claimed.
LEMMA TransitionFacts ==
    ASSUME NEW p \in Lifecycle!States, NEW s, Allows(p, s)
    PROVE  s \in Lifecycle!States \ {"queued"} /\ (s = "claimed" => p = "queued")
BY DEF Allows, Lifecycle!Allowed, Lifecycle!States

\* Only a command without events is queued.
LEMMA CurrentFacts ==
    ASSUME NEW h \in Seq(Events), LegalHistory(h)
    PROVE  Current(h) \in Lifecycle!States /\ (Current(h) = "queued" <=> h = <<>>)
<1>1. CASE h = <<>>
  BY <1>1 DEF Current, Lifecycle!States, Lifecycle!Allowed
<1>2. CASE h # <<>>
  <2>1. Len(h) \in 1..Len(h) /\ h[Len(h)] \in Events
    BY <1>2
  <2>2. Allows(h[Len(h)].previous, h[Len(h)].state) /\ h[Len(h)].previous \in Lifecycle!States
    BY <2>1 DEF LegalHistory, Events
  <2>3. h[Len(h)].state \in Lifecycle!States \ {"queued"}
    BY <2>2, TransitionFacts
  <2> QED BY <1>2, <2>3 DEF Current
<1> QED BY <1>1, <1>2

\* A history with one more event.
Grown(h, s, b) == Append(h, Event(Current(h), s, b))

\* What an event that is allowed after the last one makes of a history.
LEMMA AppendFacts ==
    ASSUME NEW h \in Seq(Events), LegalHistory(h), NEW s, Allows(Current(h), s),
           NEW b \in Workers \cup {"none"}
    PROVE  /\ Grown(h, s, b) \in Seq(Events) /\ LegalHistory(Grown(h, s, b))
           /\ Current(Grown(h, s, b)) = s /\ Len(Grown(h, s, b)) = Len(h) + 1
           /\ s = "claimed" => h = <<>> /\ Claimant(Grown(h, s, b)) = b
           /\ s # "claimed" => Claimant(Grown(h, s, b)) = Claimant(h)
           /\ Claimant(h) # "none" => Claimant(Grown(h, s, b)) = Claimant(h)
<1> DEFINE k == Grown(h, s, b)
<1> DEFINE e == Event(Current(h), s, b)
<1>1. Current(h) \in Lifecycle!States /\ (Current(h) = "queued" <=> h = <<>>)
  BY CurrentFacts
<1>2. s \in Lifecycle!States /\ (s = "claimed" => h = <<>>)
  BY <1>1, TransitionFacts
<1>3. e \in Events /\ e.previous = Current(h) /\ e.state = s /\ e.by = b
  BY <1>1, <1>2 DEF Event, Events
<1> HIDE DEF e, k
<1>4. /\ k \in Seq(Events) /\ Len(k) = Len(h) + 1 /\ k[Len(h) + 1] = e /\ k # <<>>
      /\ \A i \in 1..Len(h) : k[i] = h[i]
  BY <1>3 DEF e, k, Grown
<1>5. Current(k) = s
  BY <1>3, <1>4 DEF Current
<1>6. LegalHistory(k)
  <2> SUFFICES ASSUME NEW i \in 1..Len(k)
               PROVE  /\ k[i].previous = (IF i = 1 THEN "queued" ELSE k[i - 1].state)
                      /\ Allows(k[i].previous, k[i].state)
    BY DEF LegalHistory
  <2>1. CASE i \in 1..Len(h)
    <3>1. k[i] = h[i] /\ (i # 1 => k[i - 1] = h[i - 1])
      BY <1>4, <2>1
    <3> QED BY <2>1, <3>1 DEF LegalHistory
  <2>2. CASE i = Len(h) + 1
    <3>1. k[i] = e /\ Allows(e.previous, e.state)
      BY <1>3, <1>4, <2>2
    <3>2. e.previous = IF i = 1 THEN "queued" ELSE k[i - 1].state
      <4>1. CASE h = <<>>
        BY <1>3, <2>2, <4>1 DEF Current
      <4>2. CASE h # <<>>
        BY <1>3, <1>4, <2>2, <4>2 DEF Current
      <4> QED BY <4>1, <4>2
    <3> QED BY <3>1, <3>2
  <2> QED BY <1>4, <2>1, <2>2
<1>7. s = "claimed" => Claimant(k) = b
  BY <1>2, <1>3, <1>4 DEF Claimant
<1>8. h # <<>> => Claimant(k) = Claimant(h)
  BY <1>4 DEF Claimant
<1>9. h = <<>> /\ s # "claimed" => Claimant(k) = Claimant(h)
  BY <1>3, <1>4 DEF Claimant
<1>10. Claimant(h) # "none" => h # <<>>
  BY DEF Claimant
<1> QED BY <1>2, <1>4, <1>5, <1>6, <1>7, <1>8, <1>9, <1>10 DEF k

(***************************************************************************)
(* Every change of the store appends one allowed event to one history.     *)
(***************************************************************************)
Grows(c, s, b) ==
    /\ c \in queue /\ b \in Workers \cup {"none"}
    /\ Allows(Current(history[c]), s)
    /\ history' = [history EXCEPT ![c] = Grown(@, s, b)]

\* What that leaves of everything read or claimed before.
OnlyGrows ==
    \A d \in Commands :
        /\ Len(history'[d]) \in Nat /\ Len(history[d]) <= Len(history'[d])
        /\ Len(history'[d]) = Len(history[d]) => history'[d] = history[d]
        /\ Claimant(history[d]) \in Workers => Claimant(history'[d]) = Claimant(history[d])

\* A create that finds its number free appends to the history as it is.
LEMMA PutGrows ==
    ASSUME IInv, NEW w \in Workers, NEW s, pc[w] \in Held \cup {"claim"},
           Vacant(job[w].cmd, job[w].base), Put(w, s),
           Allows(Current(history[job[w].cmd]), s)
    PROVE  Grows(job[w].cmd, s, w)
<1> DEFINE h == history[job[w].cmd]
<1>1. job[w].cmd \in queue /\ h \in Seq(Events)
  BY DEF IInv, WorkerOK, TypeOK
<1>2. job[w].base = Len(h) /\ SubSeq(h, 1, job[w].base) = h
  BY <1>1 DEF Vacant
<1>3. ~(job[w].base < Len(h)) /\ job[w].cmd \in DOMAIN history
  BY <1>1, <1>2 DEF IInv, TypeOK
<1>4. history' = [history EXCEPT ![job[w].cmd] = Grown(h, s, w)]
  BY <1>2, <1>3, Zenon DEF Put, Grown
<1> QED BY <1>1, <1>4 DEF Grows

\* What growth does to the history that grows and to the others.
LEMMA GrowthFacts ==
    ASSUME IInv, NEW c, NEW s, NEW b, Grows(c, s, b), s = "claimed" => b \in Workers
    PROVE  /\ history' \in [Commands -> Seq(Events)] /\ HistoriesLegal' /\ c \in Commands
           /\ Current(history'[c]) = s /\ Len(history'[c]) = Len(history[c]) + 1
           /\ s = "claimed" => history[c] = <<>> /\ Claimant(history'[c]) = b
           /\ s # "claimed" => Claimant(history'[c]) = Claimant(history[c])
           /\ \A d \in Commands : d # c => history'[d] = history[d]
           /\ OnlyGrows
<1>1. c \in Commands /\ history \in [Commands -> Seq(Events)]
  BY DEF Grows, IInv, TypeOK
<1>2. LegalHistory(history[c])
  BY <1>1 DEF IInv, HistoriesLegal
<1>3. /\ history[c] \in Seq(Events) /\ Allows(Current(history[c]), s) /\ b \in Workers \cup {"none"}
      /\ history'[c] = Grown(history[c], s, b)
  BY <1>1 DEF Grows
<1>4. /\ history'[c] \in Seq(Events) /\ LegalHistory(history'[c]) /\ Current(history'[c]) = s
      /\ Len(history'[c]) = Len(history[c]) + 1
      /\ s = "claimed" => history[c] = <<>> /\ Claimant(history'[c]) = b
      /\ s # "claimed" => Claimant(history'[c]) = Claimant(history[c])
      /\ Claimant(history[c]) # "none" => Claimant(history'[c]) = Claimant(history[c])
  BY <1>2, <1>3, AppendFacts
<1>5. \A d \in Commands : d # c => history'[d] = history[d]
  BY <1>1 DEF Grows
<1>6. history' \in [Commands -> Seq(Events)]
  BY <1>1, <1>4 DEF Grows
<1>7. HistoriesLegal'
  <2>1. ASSUME NEW d \in Commands PROVE LegalHistory(history'[d])
    <3>1. LegalHistory(history[d])
      BY DEF IInv, HistoriesLegal
    <3> QED BY <1>4, <1>5, <3>1
  <2> QED BY <2>1 DEF HistoriesLegal
<1>8. OnlyGrows
  <2> SUFFICES ASSUME NEW d \in Commands
               PROVE  /\ Len(history'[d]) \in Nat /\ Len(history[d]) <= Len(history'[d])
                      /\ Len(history'[d]) = Len(history[d]) => history'[d] = history[d]
                      /\ Claimant(history[d]) \in Workers =>
                            Claimant(history'[d]) = Claimant(history[d])
    BY DEF OnlyGrows
  <2>1. CASE d = c
    BY <1>1, <1>4, <2>1, ConsumerAssumption
  <2>2. CASE d # c
    BY <1>1, <1>5, <2>2
  <2> QED BY <2>1, <2>2
<1> QED BY <1>1, <1>4, <1>5, <1>6, <1>7, <1>8

LEMMA UnchangedGrows == ASSUME IInv, UNCHANGED history PROVE OnlyGrows
BY DEF IInv, TypeOK, OnlyGrows

(***************************************************************************)
(* The invariant.                                                          *)
(***************************************************************************)
\* What others do does not disturb a worker.
LEMMA OthersKeepWorker ==
    ASSUME IInv, NEW w \in Workers, pc'[w] = pc[w], job'[w] = job[w], queue \subseteq queue',
           OnlyGrows, pc[w] = "evaluate" => job[w].cmd \notin evaluated'
    PROVE  WorkerOK(w)'
<1> DEFINE c == job[w].cmd
<1>1. WorkerOK(w)
  BY DEF IInv
<1>2. CASE pc[w] \in Held \cup {"claim"}
  <2>1. c \in Commands /\ job[w].base \in Nat /\ Len(history[c]) \in Nat
    BY <1>1, <1>2 DEF WorkerOK, IInv, TypeOK, Jobs
  <2>2. /\ Len(history'[c]) \in Nat /\ Len(history[c]) <= Len(history'[c])
        /\ Len(history'[c]) = Len(history[c]) => history'[c] = history[c]
        /\ Claimant(history[c]) \in Workers => Claimant(history'[c]) = Claimant(history[c])
    BY <2>1 DEF OnlyGrows
  <2>3. job[w].base <= Len(history[c])
    BY <1>1, <1>2 DEF WorkerOK
  <2>4. job[w].base <= Len(history'[c]) /\ (job[w].base = Len(history'[c]) => history'[c] = history[c])
    <3>1. \A b, m, n \in Nat : b <= m /\ m <= n => b <= n /\ (b = n => n = m)
      OBVIOUS
    <3> QED BY <2>1, <2>2, <2>3, <3>1
  <2>5. pc[w] \in Held => Claimant(history'[c]) = w
    BY <1>1, <2>2 DEF WorkerOK
  <2>6. /\ pc[w] = "append" /\ job[w].base = Len(history'[c]) =>
              Current(history'[c]) = Expected[job[w].next]
        /\ pc[w] = "flag" /\ job[w].base = Len(history'[c]) => Current(history'[c]) \in Reconcilable
    BY <1>1, <2>4 DEF WorkerOK
  <2>7. Cleared(w)' <=> Cleared(w)
    BY DEF Cleared
  <2> QED BY <1>1, <2>4, <2>5, <2>6, <2>7 DEF WorkerOK
<1>3. CASE pc[w] \notin Held \cup {"claim"}
  BY <1>1, <1>3 DEF WorkerOK, Held
<1> QED BY <1>2, <1>3

\* A step of one worker keeps the invariant if it keeps the store and the worker's
\* own part of it.
LEMMA WorkerStep ==
    ASSUME IInv, NEW v \in Workers, queue' = queue, faults' \in Nat,
           NEW step \in Steps, pc' = [pc EXCEPT ![v] = step],
           NEW j \in Jobs, job' = [job EXCEPT ![v] = j],
           history' \in [Commands -> Seq(Events)], HistoriesLegal', QueueOK', OnlyGrows,
           EvaluatedOK',
           evaluated' = evaluated
             \/ (pc[v] = "evaluate" /\ evaluated' = evaluated \cup {job[v].cmd}),
           WorkerOK(v)'
    PROVE  IInv'
<1>1. TypeOK'
  <2>1. pc[v] = "evaluate" => job[v].cmd \in Commands
    BY DEF IInv, WorkerOK, TypeOK, Held
  <2> QED BY <2>1 DEF IInv, TypeOK
<1>2. ASSUME NEW w \in Workers PROVE WorkerOK(w)'
  <2>1. CASE w = v
    BY <2>1
  <2>2. CASE w # v
    <3>1. pc'[w] = pc[w] /\ job'[w] = job[w]
      BY <2>2 DEF IInv, TypeOK
    <3>2. pc[w] = "evaluate" => job[w].cmd \notin evaluated'
      <4> SUFFICES ASSUME pc[w] = "evaluate" PROVE job[w].cmd \notin evaluated'
        OBVIOUS
      <4>1. Claimant(history[job[w].cmd]) = w /\ job[w].cmd \notin evaluated
        BY DEF IInv, WorkerOK, Held
      <4>2. pc[v] = "evaluate" => Claimant(history[job[v].cmd]) = v
        BY DEF IInv, WorkerOK, Held
      <4> QED BY <2>2, <4>1, <4>2
    <3> QED BY <3>1, <3>2, OthersKeepWorker
  <2> QED BY <2>1, <2>2
<1> QED BY <1>1, <1>2 DEF IInv

\* In particular a step that leaves the store alone.
LEMMA QuietStep ==
    ASSUME IInv, NEW v \in Workers, queue' = queue, history' = history, faults' \in Nat,
           NEW step \in Steps, pc' = [pc EXCEPT ![v] = step],
           NEW j \in Jobs, job' = [job EXCEPT ![v] = j],
           evaluated' = evaluated
             \/ (pc[v] = "evaluate" /\ evaluated' = evaluated \cup {job[v].cmd}),
           WorkerOK(v)'
    PROVE  IInv'
<1>1. OnlyGrows
  BY UnchangedGrows
<1>2. history' \in [Commands -> Seq(Events)] /\ HistoriesLegal' /\ QueueOK'
  BY DEF IInv, TypeOK, HistoriesLegal, LegalHistory, QueueOK
<1>3. EvaluatedOK'
  <2>1. pc[v] = "evaluate" => Claimant(history[job[v].cmd]) \in Workers
    BY DEF IInv, WorkerOK, Held
  <2> QED BY <2>1 DEF IInv, EvaluatedOK, Claimant
<1> QED BY <1>1, <1>2, <1>3, WorkerStep

\* And a step that creates an event of the command the worker has claimed or claims.
LEMMA CreateStep ==
    ASSUME IInv, NEW v \in Workers, queue' = queue, evaluated' = evaluated, faults' \in Nat,
           NEW step \in Steps, pc' = [pc EXCEPT ![v] = step],
           NEW j \in Jobs, job' = [job EXCEPT ![v] = j],
           NEW c, NEW s, Grows(c, s, v), WorkerOK(v)'
    PROVE  IInv'
<1>1. /\ history' \in [Commands -> Seq(Events)] /\ HistoriesLegal' /\ c \in Commands /\ OnlyGrows
      /\ \A d \in Commands : d # c => history'[d] = history[d]
  BY GrowthFacts
<1>2. QueueOK'
  BY <1>1 DEF IInv, QueueOK, Grows
<1>3. EvaluatedOK'
  <2>1. ASSUME NEW d \in evaluated PROVE Claimant(history'[d]) \in Workers
    <3>1. d \in Commands /\ Claimant(history[d]) \in Workers
      BY DEF IInv, TypeOK, EvaluatedOK
    <3> QED BY <1>1, <3>1 DEF OnlyGrows
  <2> QED BY <2>1 DEF EvaluatedOK
<1> QED BY <1>1, <1>2, <1>3, WorkerStep

LEMMA InitInvariant == ASSUME Init PROVE IInv
<1>1. TypeOK
  BY ConsumerAssumption DEF Init, TypeOK, NoJob, Jobs, Steps, Events
<1>2. HistoriesLegal /\ QueueOK /\ EvaluatedOK
  BY DEF Init, HistoriesLegal, LegalHistory, QueueOK, EvaluatedOK
<1>3. \A w \in Workers : WorkerOK(w)
  BY DEF Init, WorkerOK, Held, NoJob
<1> QED BY <1>1, <1>2, <1>3 DEF IInv

\* One more command, and an operator's event: no worker moves.
LEMMA EnqueueStep == ASSUME IInv, NEW c \in Commands, Enqueue(c) PROVE IInv'
<1> USE DEF Enqueue
<1>1. TypeOK' /\ HistoriesLegal' /\ EvaluatedOK'
  BY DEF IInv, TypeOK, HistoriesLegal, LegalHistory, EvaluatedOK, Claimant
<1>2. QueueOK'
  BY DEF IInv, QueueOK
<1>3. OnlyGrows /\ queue \subseteq queue'
  BY UnchangedGrows
<1>4. ASSUME NEW w \in Workers PROVE WorkerOK(w)'
  <2>1. pc[w] = "evaluate" => job[w].cmd \notin evaluated'
    BY DEF IInv, WorkerOK
  <2> QED BY <1>3, <2>1, OthersKeepWorker
<1> QED BY <1>1, <1>2, <1>4 DEF IInv

LEMMA OperateGrows ==
    ASSUME IInv, NEW c \in Commands, NEW s, Operate(c, s)
    PROVE  Grows(c, s, "none") /\ s # "claimed"
BY DEF Operate, Grows, Grown, Allows, Lifecycle!Allowed

LEMMA OperateStep == ASSUME IInv, NEW c \in Commands, NEW s, Operate(c, s) PROVE IInv'
<1>1. Grows(c, s, "none") /\ s # "claimed"
  BY OperateGrows
<1>2. /\ history' \in [Commands -> Seq(Events)] /\ HistoriesLegal' /\ OnlyGrows
      /\ \A d \in Commands : d # c => history'[d] = history[d]
  BY <1>1, GrowthFacts
<1>3. UNCHANGED <<queue, pc, job, evaluated, faults>>
  BY DEF Operate
<1>4. TypeOK' /\ QueueOK'
  BY <1>1, <1>2, <1>3 DEF IInv, TypeOK, QueueOK, Grows
<1>5. EvaluatedOK'
  <2>1. ASSUME NEW d \in evaluated PROVE Claimant(history'[d]) \in Workers
    <3>1. d \in Commands /\ Claimant(history[d]) \in Workers
      BY DEF IInv, TypeOK, EvaluatedOK
    <3> QED BY <1>2, <3>1 DEF OnlyGrows
  <2> QED BY <1>3, <2>1 DEF EvaluatedOK
<1>6. ASSUME NEW w \in Workers PROVE WorkerOK(w)'
  <2>1. pc[w] = "evaluate" => job[w].cmd \notin evaluated'
    BY <1>3 DEF IInv, WorkerOK
  <2> QED BY <1>2, <1>3, <2>1, OthersKeepWorker
<1> QED BY <1>2, <1>4, <1>5, <1>6 DEF IInv

\* What IInv says of one worker and the history it works on, unfolded.
LEMMA WorkerFacts ==
    ASSUME IInv, NEW w \in Workers
    PROVE  /\ job[w] \in Jobs /\ pc[w] \in Steps /\ WorkerOK(w) /\ queue \subseteq Commands
           /\ faults \in Nat /\ history \in [Commands -> Seq(Events)]
           /\ DOMAIN pc = Workers /\ DOMAIN job = Workers
BY DEF IInv, TypeOK

\* A worker that holds nothing needs only a list of enqueued commands.
LEMMA Rests ==
    ASSUME IInv, NEW v \in Workers, pc'[v] \notin Held \cup {"claim"},
           job'[v].todo \subseteq queue'
    PROVE  WorkerOK(v)'
BY DEF WorkerOK, Held

\* Steps after which the worker holds nothing.
LEMMA NextCommandStep ==
    ASSUME IInv, NEW v \in Workers, NextCommand(v), queue' = queue
    PROVE  /\ "look" \in Steps /\ [NoJob EXCEPT !.todo = job[v].todo] \in Jobs
           /\ pc' = [pc EXCEPT ![v] = "look"]
           /\ job' = [job EXCEPT ![v] = [NoJob EXCEPT !.todo = job[v].todo]]
           /\ WorkerOK(v)'
<1>1. [NoJob EXCEPT !.todo = job[v].todo] \in Jobs
  BY WorkerFacts DEF NoJob, Jobs
<1>2. /\ pc' = [pc EXCEPT ![v] = "look"]
      /\ job' = [job EXCEPT ![v] = [NoJob EXCEPT !.todo = job[v].todo]]
  BY DEF NextCommand, Goto
<1>3. pc'[v] = "look" /\ job'[v].todo = job[v].todo
  BY <1>2, WorkerFacts DEF NoJob
<1>4. job'[v].todo \subseteq queue'
  BY <1>3, WorkerFacts DEF WorkerOK
<1>5. WorkerOK(v)'
  BY <1>3, <1>4, Rests DEF Held
<1> QED BY <1>1, <1>2, <1>5 DEF Steps

LEMMA DropJobStep ==
    ASSUME IInv, NEW v \in Workers, NEW step \in {"idle", "crashed"}, Goto(v, step),
           job' = [job EXCEPT ![v] = NoJob]
    PROVE  /\ step \in Steps /\ NoJob \in Jobs /\ pc' = [pc EXCEPT ![v] = step]
           /\ WorkerOK(v)'
<1>1. NoJob \in Jobs
  BY DEF NoJob, Jobs
<1>2. pc'[v] = step /\ job'[v].todo = {}
  BY WorkerFacts DEF NoJob, Goto
<1>3. WorkerOK(v)'
  BY <1>2, Rests DEF Held
<1> QED BY <1>1, <1>3 DEF Steps, Goto

LEMMA RunStep ==
    ASSUME IInv, NEW v \in Workers,
           \/ \E date \in Sessions : StartRun(v, date)
           \/ Look(v) \/ EndRun(v) \/ Crash(v)
    PROVE  IInv'
<1>1. ASSUME NEW date \in Sessions, StartRun(v, date) PROVE IInv'
  <2> DEFINE j == [job[v] EXCEPT !.todo = {c \in queue : Content[c].date = date}]
  <2>1. j \in Jobs /\ j.todo \subseteq queue
    BY WorkerFacts DEF Jobs
  <2>2. pc' = [pc EXCEPT ![v] = "look"] /\ job' = [job EXCEPT ![v] = j]
    BY <1>1 DEF StartRun, Goto
  <2>3. pc'[v] = "look" /\ job'[v] = j
    BY <2>2, WorkerFacts
  <2>4. UNCHANGED <<queue, history, evaluated>> /\ faults' \in Nat /\ "look" \in Steps
    BY <1>1, WorkerFacts DEF StartRun, Steps
  <2> HIDE DEF j
  <2>5. WorkerOK(v)'
    BY <2>1, <2>3, <2>4, Rests DEF Held
  <2> QED BY <2>1, <2>2, <2>4, <2>5, QuietStep
<1>2. CASE Look(v)
  <2>1. PICK c \in job[v].todo :
          \/ /\ Claimable(history[c])
             /\ job' = [job EXCEPT ![v].todo = @ \ {c}, ![v].cmd = c,
                                   ![v].base = Len(history[c])]
             /\ Goto(v, "claim")
          \/ /\ ~Claimable(history[c])
             /\ job' = [job EXCEPT ![v].todo = @ \ {c}] /\ UNCHANGED pc
    BY <1>2 DEF Look
  <2>2. /\ c \in queue /\ c \in Commands /\ job[v].todo \subseteq queue /\ pc[v] = "look"
        /\ UNCHANGED <<queue, history, evaluated>> /\ faults' \in Nat
    BY <1>2, WorkerFacts DEF Look, WorkerOK
  <2>3. CASE Claimable(history[c])
    <3> DEFINE j == [job[v] EXCEPT !.todo = @ \ {c}, !.cmd = c, !.base = Len(history[c])]
    <3>1. history[c] \in Seq(Events) /\ LegalHistory(history[c])
      BY <2>2 DEF IInv, TypeOK, HistoriesLegal
    <3>2. history[c] = <<>>
      BY <2>3, <3>1, CurrentFacts DEF Claimable
    <3>3. /\ j \in Jobs /\ j.todo \subseteq queue /\ j.cmd = c /\ j.base = 0
      BY <2>2, <3>2, WorkerFacts DEF Jobs
    <3>4. job' = [job EXCEPT ![v] = j] /\ pc' = [pc EXCEPT ![v] = "claim"]
      BY <2>1, <2>3 DEF Goto
    <3>5. pc'[v] = "claim" /\ job'[v] = j
      BY <3>4, WorkerFacts
    <3> HIDE DEF j
    <3>6. WorkerOK(v)'
      BY <2>2, <3>2, <3>3, <3>5 DEF WorkerOK, Held
    <3> QED BY <2>2, <3>3, <3>4, <3>6, QuietStep DEF Steps
  <2>4. CASE ~Claimable(history[c])
    <3> DEFINE j == [job[v] EXCEPT !.todo = @ \ {c}]
    <3>1. j \in Jobs /\ j.todo \subseteq queue
      BY <2>2, WorkerFacts DEF Jobs
    <3>2. job' = [job EXCEPT ![v] = j] /\ pc' = [pc EXCEPT ![v] = "look"]
      <4>1. pc' = pc /\ job' = [job EXCEPT ![v] = j]
        BY <2>1, <2>4, Zenon
      <4>2. pc = [pc EXCEPT ![v] = "look"]
        BY <2>2 DEF IInv, TypeOK
      <4> QED BY <4>1, <4>2
    <3>3. pc'[v] = "look" /\ job'[v] = j
      BY <3>2, WorkerFacts
    <3> HIDE DEF j
    <3>4. WorkerOK(v)'
      BY <2>2, <3>1, <3>3, Rests DEF Held
    <3> QED BY <2>2, <3>1, <3>2, <3>4, QuietStep DEF Steps
  <2> QED BY <2>3, <2>4
<1>3. CASE EndRun(v)
  BY <1>3, WorkerFacts, DropJobStep, QuietStep DEF EndRun
<1>4. CASE Crash(v)
  BY <1>4, WorkerFacts, DropJobStep, QuietStep DEF Crash
<1> QED BY <1>1, <1>2, <1>3, <1>4

\* What a worker creates, an allowed event each time.
LEMMA ClaimGrows ==
    ASSUME IInv, NEW v \in Workers, pc[v] = "claim", Vacant(job[v].cmd, job[v].base),
           Put(v, "claimed")
    PROVE  Grows(job[v].cmd, "claimed", v)
<1>1. job[v].cmd \in Commands /\ job[v].base = 0
  BY WorkerFacts DEF WorkerOK
<1>2. history[job[v].cmd] \in Seq(Events) /\ Len(history[job[v].cmd]) = 0
  BY <1>1, WorkerFacts DEF Vacant
<1>3. Current(history[job[v].cmd]) = "queued"
  BY <1>2 DEF Current
<1>4. Allows(Current(history[job[v].cmd]), "claimed")
  BY <1>3 DEF Allows, Lifecycle!Allowed
<1> QED BY <1>4, PutGrows

LEMMA AppendGrows ==
    ASSUME IInv, NEW v \in Workers, pc[v] = "append", Vacant(job[v].cmd, job[v].base),
           Put(v, job[v].next)
    PROVE  Grows(job[v].cmd, job[v].next, v) /\ job[v].next \in DOMAIN Expected
<1>1. /\ job[v].next \in DOMAIN Expected
      /\ Current(history[job[v].cmd]) = Expected[job[v].next]
  BY WorkerFacts DEF Vacant, WorkerOK
<1>2. Allows(Current(history[job[v].cmd]), job[v].next)
  BY <1>1 DEF Allows, Lifecycle!Allowed, Expected
<1> QED BY <1>1, <1>2, PutGrows DEF Held

LEMMA FlagGrows ==
    ASSUME IInv, NEW v \in Workers, pc[v] = "flag", Vacant(job[v].cmd, job[v].base),
           Put(v, "reconciliation_required")
    PROVE  Grows(job[v].cmd, "reconciliation_required", v)
<1>1. Current(history[job[v].cmd]) \in Reconcilable
  BY WorkerFacts DEF Vacant, WorkerOK
<1>2. Allows(Current(history[job[v].cmd]), "reconciliation_required")
  BY <1>1 DEF Allows, Lifecycle!Allowed, Reconcilable
<1> QED BY <1>2, PutGrows DEF Held

\* A worker that goes on holding its command, with nothing it would have to
\* remember of the history but its claim.
LEMMA KeepsHolding ==
    ASSUME IInv, NEW v \in Workers, queue' = queue, OnlyGrows, pc[v] \in Held,
           pc'[v] \in {"read", "reconcile"}, job'[v] \in Jobs, job'[v].todo = job[v].todo,
           job'[v].cmd = job[v].cmd, job'[v].base = job[v].base,
           pc'[v] = "read" => job'[v].next \in DOMAIN Expected /\ Cleared(v)'
    PROVE  WorkerOK(v)'
<1> DEFINE c == job[v].cmd
<1>1. /\ WorkerOK(v) /\ c \in Commands /\ c \in queue /\ job[v].base \in Nat
      /\ Len(history[c]) \in Nat /\ job[v].base <= Len(history[c])
      /\ Claimant(history[c]) = v
  BY WorkerFacts DEF WorkerOK, Jobs
<1>2. job[v].base <= Len(history'[c]) /\ Claimant(history'[c]) = v
  BY <1>1 DEF OnlyGrows
<1> QED BY <1>1, <1>2 DEF WorkerOK, Held

LEMMA ClaimStep ==
    ASSUME IInv, NEW v \in Workers, Claim(v) \/ RunAborts(v)
    PROVE  IInv'
<1>1. CASE Claim(v) /\ Vacant(job[v].cmd, job[v].base)
  <2>1. /\ Put(v, "claimed") /\ Goto(v, "evaluate") /\ job' = job /\ pc[v] = "claim"
        /\ UNCHANGED <<queue, evaluated, faults>>
    BY <1>1 DEF Claim
  <2>2. Grows(job[v].cmd, "claimed", v)
    BY <1>1, <2>1, ClaimGrows
  <2>3. pc' = [pc EXCEPT ![v] = "evaluate"] /\ pc'[v] = "evaluate" /\ "evaluate" \in Steps
    BY <2>1, WorkerFacts DEF Goto, Steps
  <2>4. job[v] \in Jobs /\ job' = [job EXCEPT ![v] = job[v]] /\ faults' \in Nat
    BY <2>1 DEF IInv, TypeOK
  <2>5. WorkerOK(v)'
    <3> DEFINE c == job[v].cmd
    <3>1. c \in queue /\ c \in Commands /\ job[v].todo \subseteq queue /\ job[v].base = 0
      BY <2>1, WorkerFacts DEF WorkerOK
    <3>2. /\ Claimant(history'[c]) = v /\ history[c] = <<>>
          /\ Len(history'[c]) = Len(history[c]) + 1
      BY <2>2, <3>1, GrowthFacts
    <3>3. Claimant(history[c]) = "none"
      BY <3>2 DEF Claimant
    <3>4. c \notin evaluated
      BY <3>3, ConsumerAssumption DEF IInv, EvaluatedOK
    <3> QED BY <2>1, <2>3, <3>1, <3>2, <3>4 DEF WorkerOK, Held
  <2> QED BY <2>1, <2>2, <2>3, <2>4, <2>5, CreateStep
<1>2. CASE Claim(v) /\ ~Vacant(job[v].cmd, job[v].base)
  BY <1>2, WorkerFacts, NextCommandStep, QuietStep DEF Claim
<1>3. CASE RunAborts(v) /\ UNCHANGED history
  <2>1. /\ Goto(v, "idle") /\ job' = [job EXCEPT ![v] = NoJob]
        /\ UNCHANGED <<queue, history, evaluated>> /\ faults' \in Nat
    BY <1>3, WorkerFacts DEF RunAborts, Raises
  <2> QED BY <2>1, DropJobStep, QuietStep
<1>4. CASE RunAborts(v) /\ history' # history
  <2>1. /\ pc[v] = "claim" /\ Vacant(job[v].cmd, job[v].base) /\ Put(v, "claimed")
        /\ Goto(v, "idle") /\ job' = [job EXCEPT ![v] = NoJob]
        /\ UNCHANGED <<queue, evaluated>> /\ faults' \in Nat
    BY <1>4, WorkerFacts DEF RunAborts, Raises
  <2>2. Grows(job[v].cmd, "claimed", v)
    BY <2>1, ClaimGrows
  <2> QED BY <2>1, <2>2, DropJobStep, CreateStep
<1> QED BY <1>1, <1>2, <1>3, <1>4

LEMMA EvaluateStep ==
    ASSUME IInv, NEW v \in Workers, Evaluate(v) \/ EvaluateRaises(v)
    PROVE  IInv'
<1>1. /\ pc[v] = "evaluate" /\ pc[v] \in Held /\ UNCHANGED <<queue, history>>
      /\ evaluated' = evaluated \/ evaluated' = evaluated \cup {job[v].cmd}
      /\ faults' \in Nat /\ OnlyGrows
  BY WorkerFacts, UnchangedGrows DEF Evaluate, EvaluateRaises, Raises, Held
<1>2. CASE Evaluate(v)
  <2> DEFINE foreign == BindingFindings(Content[job[v].cmd], Runtime[v])
  <2>1. PICK reported \in SUBSET Findings, effects \in SUBSET Effects :
           foreign \subseteq reported /\ Judge(v, reported, effects)
    <3>1. CASE foreign # {}
      <4>1. Judge(v, foreign, {})
        BY <1>2, <3>1 DEF Evaluate
      <4>2. foreign \in SUBSET Findings
        <5>1. foreign \subseteq {"command_platform_mismatch", "command_account_scope_mismatch",
                                "command_strategy_profile_mismatch"}
          BY DEF BindingFindings, When
        <5> HIDE DEF foreign
        <5> QED BY <5>1 DEF Findings
      <4>3. foreign \subseteq foreign /\ {} \in SUBSET Effects
        OBVIOUS
      <4> HIDE DEF foreign
      <4> WITNESS foreign \in SUBSET Findings, {} \in SUBSET Effects
      <4> QED BY <4>1, <4>3
    <3>2. CASE foreign = {}
      <4>1. PICK reported \in Reports, effects \in Proposals : Judge(v, reported, effects)
        BY <1>2, <3>2 DEF Evaluate
      <4>2. reported \in SUBSET Findings /\ effects \in SUBSET Effects
        BY ConsumerAssumption DEF Findings
      <4> QED BY <3>2, <4>1, <4>2
    <3> QED BY <3>1, <3>2
  <2> DEFINE passes == Submittable(Content[job[v].cmd], Runtime[v], reported, effects)
             verdict == IF passes THEN "submitted" ELSE "rejected"
             j == [job[v] EXCEPT !.next = verdict, !.reported = reported, !.effects = effects]
  <2>2. verdict \in {"submitted", "rejected"} /\ (verdict = "submitted" => passes)
    OBVIOUS
  <2>3. /\ pc' = [pc EXCEPT ![v] = "read"]
        /\ job' = [job EXCEPT ![v].next = verdict, ![v].reported = reported,
                              ![v].effects = effects]
    BY <1>2, <2>1 DEF Evaluate, Judge, Goto
  <2> HIDE DEF verdict, passes
  <2>4. /\ j \in Jobs /\ j.todo = job[v].todo /\ j.cmd = job[v].cmd /\ j.base = job[v].base
        /\ j.next = verdict /\ j.reported = reported /\ j.effects = effects
        /\ j.next \in DOMAIN Expected
    BY <2>2, WorkerFacts DEF Jobs, Expected, Lifecycle!States, Lifecycle!Allowed
  <2>5. job' = [job EXCEPT ![v] = j]
    BY <2>3, WorkerFacts DEF Jobs
  <2>6. pc'[v] = "read" /\ job'[v] = j
    BY <2>3, <2>5, WorkerFacts
  <2>7. Cleared(v)'
    <3>1. verdict = "submitted" =>
             Approved(Content[job[v].cmd], Runtime[v], reported, effects)
      BY <2>1, <2>2, GatesApprove DEF passes
    <3> QED BY <2>4, <2>6, <3>1 DEF Cleared
  <2> HIDE DEF j
  <2>8. WorkerOK(v)'
    BY <1>1, <2>4, <2>6, <2>7, KeepsHolding
  <2> QED BY <1>1, <2>3, <2>4, <2>5, <2>8, QuietStep DEF Steps
<1>3. CASE EvaluateRaises(v)
  <2>1. pc' = [pc EXCEPT ![v] = "reconcile"] /\ job' = job
    BY <1>3 DEF EvaluateRaises, Goto
  <2>2. /\ pc'[v] = "reconcile" /\ job' = [job EXCEPT ![v] = job[v]]
        /\ job'[v] = job[v] /\ job[v] \in Jobs
    BY <2>1 DEF IInv, TypeOK
  <2>3. WorkerOK(v)'
    BY <1>1, <2>2, KeepsHolding
  <2> QED BY <1>1, <2>1, <2>2, <2>3, QuietStep DEF Steps
<1> QED BY <1>2, <1>3

LEMMA ReadStep ==
    ASSUME IInv, NEW v \in Workers, ReadHistory(v)
    PROVE  IInv'
<1> DEFINE c == job[v].cmd
           j == [job[v] EXCEPT !.base = Len(history[c])]
<1>1. /\ pc[v] = "read" /\ job' = [job EXCEPT ![v] = j]
      /\ UNCHANGED <<queue, history, evaluated>> /\ faults' \in Nat
  BY WorkerFacts DEF ReadHistory
<1>2. /\ c \in Commands /\ c \in queue /\ Claimant(history[c]) = v /\ Len(history[c]) \in Nat
      /\ job[v].next \in DOMAIN Expected /\ job[v].todo \subseteq queue
  BY <1>1, WorkerFacts DEF WorkerOK, Held
<1>3. /\ j \in Jobs /\ j.todo = job[v].todo /\ j.cmd = c /\ j.base = Len(history[c])
      /\ j.next = job[v].next /\ j.reported = job[v].reported /\ j.effects = job[v].effects
  BY <1>2, WorkerFacts DEF Jobs
<1>4. job'[v] = j
  BY <1>1, WorkerFacts
<1> HIDE DEF j
<1>5. CASE Current(history[c]) = Expected[job[v].next]
  <2>1. pc' = [pc EXCEPT ![v] = "append"] /\ pc'[v] = "append"
    BY <1>5, WorkerFacts DEF ReadHistory, Goto
  <2>2. Cleared(v)'
    BY <1>1, <1>3, <1>4, WorkerFacts DEF WorkerOK, Cleared
  <2>3. WorkerOK(v)'
    BY <1>1, <1>2, <1>3, <1>4, <1>5, <2>1, <2>2 DEF WorkerOK, Held
  <2> QED BY <1>1, <1>3, <2>1, <2>3, QuietStep DEF Steps
<1>6. CASE Current(history[c]) # Expected[job[v].next]
  <2>1. pc' = [pc EXCEPT ![v] = "reconcile"] /\ pc'[v] = "reconcile"
    BY <1>6, WorkerFacts DEF ReadHistory, Goto
  <2>2. WorkerOK(v)'
    BY <1>1, <1>2, <1>3, <1>4, <1>6, <2>1 DEF WorkerOK, Held
  <2> QED BY <1>1, <1>3, <2>1, <2>2, QuietStep DEF Steps
<1> QED BY <1>5, <1>6

LEMMA AppendStep ==
    ASSUME IInv, NEW v \in Workers, AppendEvent(v) \/ AppendRaises(v)
    PROVE  IInv'
<1>1. /\ pc[v] \in {"read", "append"} /\ pc[v] \in Held
      /\ UNCHANGED <<queue, evaluated>> /\ faults' \in Nat
  BY WorkerFacts DEF AppendEvent, AppendRaises, Raises, Held
<1>2. CASE Goto(v, "reconcile") /\ UNCHANGED <<history, job>>
  <2>1. /\ pc' = [pc EXCEPT ![v] = "reconcile"] /\ pc'[v] = "reconcile"
        /\ job' = [job EXCEPT ![v] = job[v]] /\ job'[v] = job[v] /\ job[v] \in Jobs
    BY <1>2, WorkerFacts DEF Goto, IInv, TypeOK
  <2>2. OnlyGrows
    BY <1>2, UnchangedGrows
  <2>3. WorkerOK(v)'
    BY <1>1, <2>1, <2>2, KeepsHolding
  <2> QED BY <1>1, <1>2, <2>1, <2>3, QuietStep DEF Steps
<1>3. CASE pc[v] = "append" /\ Vacant(job[v].cmd, job[v].base) /\ Put(v, job[v].next)
  <2>1. Grows(job[v].cmd, job[v].next, v) /\ job[v].next \in DOMAIN Expected
    BY <1>3, AppendGrows
  <2>2. job[v].next # "claimed"
    BY <2>1 DEF Expected
  <2>3. OnlyGrows
    BY <2>1, <2>2, GrowthFacts
  <2>4. CASE NextCommand(v)
    BY <1>1, <2>1, <2>4, NextCommandStep, CreateStep
  <2>5. CASE Goto(v, "reconcile") /\ UNCHANGED job
    <3>1. /\ pc' = [pc EXCEPT ![v] = "reconcile"] /\ pc'[v] = "reconcile"
          /\ job' = [job EXCEPT ![v] = job[v]] /\ job'[v] = job[v] /\ job[v] \in Jobs
      BY <2>5, WorkerFacts DEF Goto, IInv, TypeOK
    <3>2. WorkerOK(v)'
      BY <1>1, <2>3, <3>1, KeepsHolding
    <3> QED BY <1>1, <2>1, <3>1, <3>2, CreateStep DEF Steps
  <2>6. CASE /\ job[v].next \in DOMAIN Following
             /\ Goto(v, "read") /\ job' = [job EXCEPT ![v].next = Following[@]]
    <3> DEFINE j == [job[v] EXCEPT !.next = Following[@]]
    <3>1. /\ j \in Jobs /\ j.todo = job[v].todo /\ j.cmd = job[v].cmd /\ j.base = job[v].base
          /\ j.next \in DOMAIN Expected /\ j.next # "submitted"
      <4>1. /\ Following[job[v].next] \in Lifecycle!States
            /\ Following[job[v].next] \in DOMAIN Expected \ {"submitted"}
        BY <2>6 DEF Expected, Following, Lifecycle!States, Lifecycle!Allowed
      <4> QED BY <4>1, WorkerFacts DEF Jobs
    <3>2. pc' = [pc EXCEPT ![v] = "read"] /\ job' = [job EXCEPT ![v] = j]
      BY <2>6 DEF Goto
    <3>3. pc'[v] = "read" /\ job'[v] = j
      BY <3>2, WorkerFacts
    <3> HIDE DEF j
    <3>4. Cleared(v)'
      BY <3>1, <3>3 DEF Cleared
    <3>5. WorkerOK(v)'
      BY <1>1, <2>3, <3>1, <3>3, <3>4, KeepsHolding
    <3> QED BY <1>1, <2>1, <3>1, <3>2, <3>5, CreateStep DEF Steps
  <2>7. \/ NextCommand(v)
        \/ Goto(v, "reconcile") /\ UNCHANGED job
        \/ /\ job[v].next \in DOMAIN Following
           /\ Goto(v, "read") /\ job' = [job EXCEPT ![v].next = Following[@]]
    BY <1>3 DEF AppendEvent, AppendRaises
  <2> QED BY <2>4, <2>5, <2>6, <2>7
<1> QED BY <1>2, <1>3 DEF AppendEvent, AppendRaises

LEMMA FlagStep ==
    ASSUME IInv, NEW v \in Workers, Reconcile(v) \/ Flag(v) \/ FlagRaises(v)
    PROVE  IInv'
<1>1. /\ pc[v] \in {"reconcile", "flag"} /\ UNCHANGED <<queue, evaluated>> /\ faults' \in Nat
  BY WorkerFacts DEF Reconcile, Flag, FlagRaises, Raises
<1>2. CASE UNCHANGED history /\ NextCommand(v)
  BY <1>1, <1>2, NextCommandStep, QuietStep
<1>3. CASE /\ pc[v] = "flag" /\ Vacant(job[v].cmd, job[v].base)
           /\ Put(v, "reconciliation_required") /\ NextCommand(v)
  BY <1>1, <1>3, FlagGrows, NextCommandStep, CreateStep
<1>4. CASE /\ Current(history[job[v].cmd]) \in Reconcilable /\ UNCHANGED history
           /\ job' = [job EXCEPT ![v].base = Len(history[job[v].cmd])]
           /\ Goto(v, "flag") /\ pc[v] = "reconcile"
  <2> DEFINE c == job[v].cmd
             j == [job[v] EXCEPT !.base = Len(history[c])]
  <2>1. /\ c \in Commands /\ c \in queue /\ Claimant(history[c]) = v
        /\ Len(history[c]) \in Nat /\ job[v].todo \subseteq queue
    BY <1>4, WorkerFacts DEF WorkerOK, Held
  <2>2. j \in Jobs /\ j.todo = job[v].todo /\ j.cmd = c /\ j.base = Len(history[c])
    BY <2>1, WorkerFacts DEF Jobs
  <2>3. pc' = [pc EXCEPT ![v] = "flag"] /\ job' = [job EXCEPT ![v] = j]
    BY <1>4 DEF Goto
  <2>4. pc'[v] = "flag" /\ job'[v] = j
    BY <2>3, WorkerFacts
  <2> HIDE DEF j
  <2>5. WorkerOK(v)'
    BY <1>1, <1>4, <2>1, <2>2, <2>4 DEF WorkerOK, Held
  <2> QED BY <1>1, <1>4, <2>2, <2>3, <2>5, QuietStep DEF Steps
<1> QED BY <1>2, <1>3, <1>4 DEF Reconcile, Flag, FlagRaises

LEMMA StepKeepsInvariant == ASSUME IInv, [Next]_vars PROVE IInv'
<1>1. ASSUME NEW c \in Commands, Enqueue(c) PROVE IInv'
  BY <1>1, EnqueueStep
<1>2. ASSUME NEW c \in Commands, NEW s \in Lifecycle!States, Operate(c, s) PROVE IInv'
  BY <1>2, OperateStep
<1>3. ASSUME NEW v \in Workers,
             \/ \E date \in Sessions : StartRun(v, date)
             \/ Work(v) \/ RunAborts(v) \/ EvaluateRaises(v)
             \/ AppendRaises(v) \/ FlagRaises(v) \/ Crash(v)
      PROVE  IInv'
  BY <1>3, RunStep, ClaimStep, EvaluateStep, ReadStep, AppendStep, FlagStep DEF Work
<1>4. CASE UNCHANGED vars
  BY <1>4 DEF vars, IInv, TypeOK, HistoriesLegal, LegalHistory, QueueOK, EvaluatedOK, WorkerOK,
                Cleared
<1> QED BY <1>1, <1>2, <1>3, <1>4 DEF Next

\* The invariant that makes the store's histories and the workers' jobs fit.
THEOREM InductiveInvariant == Spec => []IInv
BY InitInvariant, StepKeepsInvariant, PTL DEF Spec

\* The job of a worker, its place in the consumer's loop and the histories keep their
\* types, whatever raises.
THEOREM ConsumerTypeCorrect == Spec => []TypeOK
<1>1. IInv => TypeOK
  BY DEF IInv
<1> QED BY <1>1, InductiveInvariant, PTL

\* Whatever workers race or die, and whichever store operations fail, events() never
\* meets a history it refuses.
THEOREM HistoriesStayLegal == Spec => []HistoriesLegal
<1>1. IInv => HistoriesLegal
  BY DEF IInv
<1> QED BY <1>1, InductiveInvariant, PTL

(***************************************************************************)
(* What is submitted was approved.                                         *)
(***************************************************************************)
\* An event that makes a command submitted is one a worker appends after the gates.
LEMMA StepSubmitsApproved ==
    ASSUME IInv, [Next]_vars, NEW w \in Workers, NEW c \in Commands,
           Current(history[c]) # "submitted", Current(history'[c]) = "submitted",
           history'[c][Len(history'[c])].by = w
    PROVE  job[w].cmd = c /\ Approved(Content[c], Runtime[w], job[w].reported, job[w].effects)
<1>1. history' # history
  OBVIOUS
<1>2. ASSUME NEW d, NEW s, NEW b, Grows(d, s, b), s = "claimed" => b \in Workers
      PROVE  d = c /\ s = "submitted" /\ b = w
  <2>1. /\ Current(history'[d]) = s /\ d \in Commands
        /\ \A e \in Commands : e # d => history'[e] = history[e]
    BY <1>2, GrowthFacts
  <2>2. d = c /\ s = "submitted"
    BY <2>1
  <2>3. history[c] \in Seq(Events) /\ c \in DOMAIN history
    BY DEF IInv, TypeOK
  <2>4. history'[c] = Append(history[c], Event(Current(history[c]), s, b))
    BY <1>2, <2>2, <2>3 DEF Grows, Grown
  <2>5. history'[c][Len(history'[c])] = Event(Current(history[c]), s, b)
    BY <2>3, <2>4
  <2> QED BY <2>2, <2>5 DEF Event
<1>3. ASSUME NEW d \in Commands, NEW s, Operate(d, s) PROVE FALSE
  BY <1>2, <1>3, OperateGrows, ConsumerAssumption
<1>4. PICK v \in Workers :
        \/ pc[v] = "claim" /\ Vacant(job[v].cmd, job[v].base) /\ Put(v, "claimed")
        \/ pc[v] = "append" /\ Vacant(job[v].cmd, job[v].base) /\ Put(v, job[v].next)
        \/ pc[v] = "flag" /\ Vacant(job[v].cmd, job[v].base) /\ Put(v, "reconciliation_required")
  <2>1. \A d \in Commands : ~Enqueue(d)
    BY <1>1 DEF Enqueue
  <2>2. PICK v \in Workers : Work(v) \/ RunAborts(v) \/ AppendRaises(v) \/ FlagRaises(v)
    BY <1>1, <1>3, <2>1 DEF Next, vars, StartRun, EvaluateRaises, Crash
  <2>3. Claim(v) \/ RunAborts(v) \/ AppendEvent(v) \/ AppendRaises(v) \/ Flag(v) \/ FlagRaises(v)
    BY <1>1, <2>2 DEF Work, Look, EndRun, Evaluate, ReadHistory, Reconcile
  <2> QED BY <1>1, <2>3 DEF Claim, RunAborts, AppendEvent, AppendRaises, Flag, FlagRaises
<1>5. ~(pc[v] = "claim" /\ Vacant(job[v].cmd, job[v].base) /\ Put(v, "claimed"))
  BY <1>2, ClaimGrows
<1>6. ~(pc[v] = "flag" /\ Vacant(job[v].cmd, job[v].base) /\ Put(v, "reconciliation_required"))
  BY <1>2, FlagGrows
<1>7. Grows(job[v].cmd, job[v].next, v) /\ pc[v] = "append"
  BY <1>4, <1>5, <1>6, AppendGrows
<1>8. job[v].cmd = c /\ job[v].next = "submitted" /\ v = w
  BY <1>2, <1>7
<1>9. Cleared(v)
  BY <1>7, WorkerFacts DEF WorkerOK
<1> QED BY <1>8, <1>9 DEF Cleared

\* A worker submits a command only if it is of its own runtime and release and its
\* receipt and the reconciled account allow every order, whatever raced or failed
\* between the verdict and the event.
THEOREM SubmissionsApproved == Spec => SubmittedAsApproved
<1>1. ASSUME IInv, [Next]_vars
      PROVE  [\A w \in Workers : \A c \in Commands :
                /\ Current(history[c]) # "submitted" /\ Current(history'[c]) = "submitted"
                /\ history'[c][Len(history'[c])].by = w
                => /\ job[w].cmd = c
                   /\ Approved(Content[c], Runtime[w], job[w].reported, job[w].effects)]_vars
  BY <1>1, StepSubmitsApproved
<1> QED BY <1>1, InductiveInvariant, PTL DEF Spec, SubmittedAsApproved

(***************************************************************************)
(* The queue implements CommandLifecycle.                                  *)
(***************************************************************************)
\* The abstract state and owner of the commands.
Stage == [c \in Commands |-> IF c \in queue THEN Current(history[c]) ELSE "absent"]
Owner == [c \in Commands |-> Claimant(history[c])]

\* A created event is the abstract Claim or Advance.
LEMMA GrowthRefines ==
    ASSUME IInv, NEW c, NEW s, NEW b, Grows(c, s, b), s = "claimed" => b \in Workers,
           UNCHANGED <<queue, evaluated>>
    PROVE  Lifecycle!Next
<1>1. /\ c \in Commands /\ c \in queue /\ Current(history'[c]) = s
      /\ s = "claimed" => history[c] = <<>> /\ Claimant(history'[c]) = b
      /\ s # "claimed" => Claimant(history'[c]) = Claimant(history[c])
      /\ \A d \in Commands : d # c => history'[d] = history[d]
  BY GrowthFacts DEF Grows
<1>2. Stage[c] = Current(history[c]) /\ Owner[c] = Claimant(history[c])
  BY <1>1 DEF Stage, Owner
<1>3. Stage' = [Stage EXCEPT ![c] = s]
  BY <1>1 DEF Stage
<1>4. CASE s = "claimed"
  <2>1. Stage[c] = "queued" /\ Owner[c] = "none"
    BY <1>1, <1>2, <1>4 DEF Current, Claimant
  <2>2. Owner' = [Owner EXCEPT ![c] = b]
    BY <1>1, <1>4 DEF Owner
  <2>3. Lifecycle!Claim(b, c)
    BY <1>3, <1>4, <2>1, <2>2 DEF Lifecycle!Claim, Stage, Owner
  <2> QED BY <1>1, <1>4, <2>3 DEF Lifecycle!Next
<1>5. CASE s # "claimed"
  <2>1. Owner' = Owner
    BY <1>1, <1>5 DEF Owner
  <2>2. Stage[c] \in Lifecycle!States /\ s \in Lifecycle!Allowed[Stage[c]] \ {"claimed"}
    <3>1. history[c] \in Seq(Events) /\ LegalHistory(history[c])
      BY <1>1 DEF IInv, TypeOK, HistoriesLegal
    <3>2. Current(history[c]) \in Lifecycle!States
      BY <3>1, CurrentFacts
    <3> QED BY <1>2, <1>5, <3>2 DEF Grows, Allows
  <2>3. Lifecycle!Advance(c)
    BY <1>3, <2>1, <2>2 DEF Lifecycle!Advance, Stage, Owner
  <2> QED BY <1>1, <2>3 DEF Lifecycle!Next
<1> QED BY <1>4, <1>5

\* Beginning to reconcile a command is the abstract Evaluate.
LEMMA EvaluationRefines ==
    ASSUME IInv, NEW v \in Workers, pc[v] = "evaluate", UNCHANGED <<queue, history>>,
           evaluated' = evaluated \cup {job[v].cmd}
    PROVE  Lifecycle!Next
<1> DEFINE c == job[v].cmd
<1>1. c \in Commands /\ Claimant(history[c]) = v /\ c \notin evaluated
  BY WorkerFacts DEF WorkerOK, Held
<1>2. Owner[c] = v /\ Owner' = Owner /\ Stage' = Stage
  BY <1>1 DEF Owner, Stage
<1>3. Lifecycle!Evaluate(v, c)
  BY <1>1, <1>2 DEF Lifecycle!Evaluate, Owner, Stage
<1> QED BY <1>1, <1>3 DEF Lifecycle!Next

LEMMA EnqueueRefines ==
    ASSUME IInv, NEW c \in Commands, Enqueue(c)
    PROVE  Lifecycle!Next
<1>1. c \notin queue /\ queue' = queue \cup {c} /\ UNCHANGED <<history, evaluated>>
  BY DEF Enqueue
<1>2. Current(history[c]) = "queued"
  BY <1>1 DEF IInv, QueueOK, Current
<1>3. Stage[c] = "absent" /\ Stage' = [Stage EXCEPT ![c] = "queued"] /\ Owner' = Owner
  BY <1>1, <1>2 DEF Stage, Owner
<1>4. Lifecycle!Enqueue(c)
  BY <1>1, <1>3 DEF Lifecycle!Enqueue, Stage, Owner
<1> QED BY <1>4 DEF Lifecycle!Next

\* A step that leaves queue, histories and evaluations alone is no step there.
LEMMA StutterRefines ==
    ASSUME UNCHANGED <<queue, history, evaluated>>
    PROVE  UNCHANGED Lifecycle!lifecycle
BY DEF Lifecycle!lifecycle

LEMMA StepRefines == ASSUME IInv, [Next]_vars PROVE [Lifecycle!Next]_(Lifecycle!lifecycle)
<1>1. ASSUME NEW c \in Commands, Enqueue(c) PROVE Lifecycle!Next
  BY <1>1, EnqueueRefines
<1>2. ASSUME NEW c \in Commands, NEW s \in Lifecycle!States, Operate(c, s) PROVE Lifecycle!Next
  BY <1>2, OperateGrows, GrowthRefines DEF Operate
<1>3. ASSUME NEW v \in Workers,
             \/ \E date \in Sessions : StartRun(v, date)
             \/ Look(v) \/ EndRun(v) \/ Crash(v) \/ ReadHistory(v) \/ Reconcile(v)
      PROVE  UNCHANGED <<queue, history, evaluated>>
  BY <1>3 DEF StartRun, Look, EndRun, Crash, ReadHistory, Reconcile
<1>4. ASSUME NEW v \in Workers, Claim(v) \/ RunAborts(v)
      PROVE  Lifecycle!Next \/ UNCHANGED <<queue, history, evaluated>>
  <2>1. UNCHANGED <<queue, evaluated>>
    BY <1>4 DEF Claim, RunAborts
  <2>2. \/ UNCHANGED history
        \/ pc[v] = "claim" /\ Vacant(job[v].cmd, job[v].base) /\ Put(v, "claimed")
    BY <1>4 DEF Claim, RunAborts
  <2> QED BY <2>1, <2>2, ClaimGrows, GrowthRefines
<1>5. ASSUME NEW v \in Workers, Evaluate(v) \/ EvaluateRaises(v)
      PROVE  Lifecycle!Next \/ UNCHANGED <<queue, history, evaluated>>
  <2>1. /\ pc[v] = "evaluate" /\ UNCHANGED <<queue, history>>
        /\ evaluated' = evaluated \/ evaluated' = evaluated \cup {job[v].cmd}
    BY <1>5 DEF Evaluate, EvaluateRaises
  <2> QED BY <2>1, EvaluationRefines
<1>6. ASSUME NEW v \in Workers, AppendEvent(v) \/ AppendRaises(v)
      PROVE  Lifecycle!Next \/ UNCHANGED <<queue, history, evaluated>>
  <2>1. UNCHANGED <<queue, evaluated>>
    BY <1>6 DEF AppendEvent, AppendRaises
  <2>2. \/ UNCHANGED history
        \/ pc[v] = "append" /\ Vacant(job[v].cmd, job[v].base) /\ Put(v, job[v].next)
    BY <1>6 DEF AppendEvent, AppendRaises
  <2> QED BY <2>1, <2>2, AppendGrows, GrowthRefines
<1>7. ASSUME NEW v \in Workers, Flag(v) \/ FlagRaises(v)
      PROVE  Lifecycle!Next \/ UNCHANGED <<queue, history, evaluated>>
  <2>1. UNCHANGED <<queue, evaluated>>
    BY <1>7 DEF Flag, FlagRaises
  <2>2. \/ UNCHANGED history
        \/ /\ pc[v] = "flag" /\ Vacant(job[v].cmd, job[v].base)
           /\ Put(v, "reconciliation_required")
    BY <1>7 DEF Flag, FlagRaises
  <2> QED BY <2>1, <2>2, FlagGrows, GrowthRefines
<1>8. CASE UNCHANGED vars
  BY <1>8, StutterRefines DEF vars
<1> QED BY <1>1, <1>2, <1>3, <1>4, <1>5, <1>6, <1>7, <1>8, StutterRefines DEF Next, Work

LEMMA InitRefines == ASSUME Init PROVE Lifecycle!Init
BY DEF Init, Lifecycle!Init, Claimant

\* The durable queue with its racing workers, failing calls and crashes implements the
\* lifecycle: one claim, at most one evaluation, by the claimant, and only allowed
\* transitions.
THEOREM QueueImplementsLifecycle == Spec => ImplementsLifecycle
<1>1. Init => Lifecycle!Init
  BY InitRefines
<1>2. IInv /\ [Next]_vars => [Lifecycle!Next]_(Lifecycle!lifecycle)
  BY StepRefines
<1> QED BY <1>1, <1>2, InductiveInvariant, PTL DEF Spec, ImplementsLifecycle, Lifecycle!Spec
=============================================================================
