------------------------ MODULE AccountSubmissionProofs ------------------------
(***************************************************************************)
(* What AccountSubmission guarantees for every number of sessions,         *)
(* processes, orders and events, on a local directory and on an object     *)
(* store: a grant reaches the broker at most once, and no two attempts of  *)
(* the same intent and order do.                                           *)
(*                                                                         *)
(* The argument.  Only one session can be between the creation and the     *)
(* writing of an event, so an event lands at the sequence number its       *)
(* session read; the attempt it prepares is new to every memory; its grant *)
(* therefore goes to one session, and a session that submits has consumed  *)
(* it.  Replay refuses a second attempt of one intent and order.           *)
(*                                                                         *)
(* Then, in this order: the locks around submit and OPEN; what a method    *)
(* decided compared with what replay accepts, with the types; the position *)
(* and the risk that snapshots and reservations account for.               *)
(***************************************************************************)
EXTENDS AccountSubmission, FiniteSetTheorems, TLAPS

Kinds == {"CIRCUIT_BREAKER_OPEN", "DOMAIN_BOUND", "EQUITY_OBSERVED", "RISK_RESERVED",
          "RISK_RECONCILED", "PREPARED", "OBSERVED"}

AttemptFields == {"certainty", "intent", "order", "newRisk", "reduction", "source", "seen",
                  "filled", "snapshotAt"}
JournalFields == {"generation", "breakerOpen", "domain", "equity", "risk", "positionRisk",
                  "attempts"}
OpFields == {"base", "event", "then", "attempt", "order", "newRisk", "report", "raised"}

\* The journal has the parts replay gives it, whatever the values of the others.
JournalShape(j) ==
    /\ DOMAIN j = JournalFields
    /\ j.generation \in Nat
    /\ DOMAIN j.attempts = AttemptIds
    /\ \A a \in AttemptIds : DOMAIN j.attempts[a] = AttemptFields

(***************************************************************************)
(* The inductive invariant.                                                *)
(***************************************************************************)
Shape ==
    /\ JournalShape(journal)
    /\ pc \in [Sessions -> Steps]
    /\ DOMAIN op = Sessions
    /\ issued \in [Sessions -> SUBSET AttemptIds]
    /\ used \in [Sessions -> SUBSET AttemptIds]
    /\ sent \in [AttemptIds -> Nat]

\* An append in progress carries an event of a known kind, and a grant only with
\* the event that prepares it.
AppendOK(s) ==
    /\ DOMAIN op[s] = OpFields
    /\ op[s].base \in Nat
    /\ pc[s] \in {"create", "write"} =>
        /\ op[s].event.kind \in Kinds
        /\ op[s].event.kind = "PREPARED" <=> op[s].then = "grant"
        /\ op[s].event.kind = "OBSERVED" => op[s].event.attempt \in AttemptIds
    /\ pc[s] \in {"create", "write", "confirm"} /\ op[s].then = "grant" =>
        op[s].base + 1 \in AttemptIds

\* A dispatch works on a grant of its own, unused until the guard is taken and not
\* yet sent until submit is called.
DispatchOK(s) ==
    /\ pc[s] \in {"checked", "locked"} => op[s].attempt \in issued[s] \ used[s]
    /\ pc[s] = "sending" =>
        op[s].attempt \in issued[s] \cap used[s] /\ sent[op[s].attempt] = 0
    /\ pc[s] = "returned" => op[s].attempt \in AttemptIds

\* Attempts are numbered by the events read; a pair is never prepared twice.
AttemptsOK ==
    /\ \A a \in Present(journal) : a <= journal.generation
    /\ \A a, b \in Present(journal) :
        /\ journal.attempts[a].intent = journal.attempts[b].intent
        /\ journal.attempts[a].order = journal.attempts[b].order
        => a = b

\* Whoever created a file is alone until it is written.
WritingOK ==
    /\ \A s \in Sessions : pc[s] = "write" => torn /\ op[s].base = journal.generation
    /\ \A s, t \in Sessions : pc[s] = "write" /\ pc[t] = "write" => s = t

\* The attempt a session is about to confirm is unknown to every other memory.
ConfirmOK ==
    ~poisoned => \A s \in Sessions : pc[s] = "confirm" =>
        /\ op[s].base + 1 <= journal.generation
        /\ \A t \in Sessions : pc[t] = "confirm" /\ op[t].base = op[s].base => s = t
        /\ op[s].then = "grant" =>
            /\ op[s].base + 1 \in Present(journal)
            /\ sent[op[s].base + 1] = 0
            /\ \A t \in Sessions : op[s].base + 1 \notin issued[t]

GrantsOK ==
    /\ \A s \in Sessions : used[s] \subseteq issued[s] /\ issued[s] \subseteq Present(journal)
    /\ \A s, t \in Sessions : s # t => issued[s] \cap issued[t] = {}
    /\ \A s \in Sessions : \A a \in issued[s] \ used[s] : sent[a] = 0

SentOK == \A a \in AttemptIds : sent[a] <= 1 /\ (sent[a] > 0 => a \in Present(journal))

IInv ==
    /\ Shape
    /\ \A s \in Sessions : AppendOK(s) /\ DispatchOK(s)
    /\ AttemptsOK /\ WritingOK /\ ConfirmOK /\ GrantsOK /\ SentOK

(***************************************************************************)
(* Replay.                                                                 *)
(***************************************************************************)
\* Replaying any event counts it and keeps the other parts of the journal's shape.
LEMMA ReplayCounts ==
    ASSUME NEW j, NEW e, JournalShape(j), e.kind \in Kinds
    PROVE  Replay(j, e).generation = j.generation + 1 /\ DOMAIN Replay(j, e) = JournalFields
BY DEF JournalShape, JournalFields, Kinds, Replay

LEMMA ReplayPrepares ==
    ASSUME NEW j, NEW e, JournalShape(j), e.kind = "PREPARED"
    PROVE  Replay(j, e).attempts = [j.attempts EXCEPT ![j.generation + 1] = PreparedAttempt(j, e)]
BY DEF JournalShape, JournalFields, Replay

LEMMA ReplayObserves ==
    ASSUME NEW j, NEW e, JournalShape(j), e.kind = "OBSERVED"
    PROVE  Replay(j, e).attempts = [j.attempts EXCEPT ![e.attempt] = ObservedAttempt(j, e)]
BY DEF JournalShape, JournalFields, Replay

LEMMA ReplayKeepsAttempts ==
    ASSUME NEW j, NEW e, JournalShape(j), e.kind \in Kinds \ {"PREPARED", "OBSERVED"}
    PROVE  Replay(j, e).attempts = j.attempts
BY DEF JournalShape, JournalFields, Kinds, Replay

LEMMA PreparedFields ==
    ASSUME NEW j, NEW e
    PROVE  LET p == PreparedAttempt(j, e) IN
           /\ DOMAIN p = AttemptFields /\ p.certainty = "PREPARED"
           /\ p.intent = e.intent /\ p.order = e.order
BY DEF AttemptFields, PreparedAttempt

LEMMA CertaintyOfReport ==
    ASSUME NEW r, NEW q
    PROVE  Certainty(r, q) \in {"UNKNOWN", "TERMINAL", "KNOWN_PENDING"}
BY DEF Certainty

LEMMA ObservedFields ==
    ASSUME NEW j, NEW e, JournalShape(j), e.attempt \in AttemptIds
    PROVE  LET o == ObservedAttempt(j, e) IN
           /\ DOMAIN o = AttemptFields /\ o.certainty # "ABSENT" /\ o.certainty # "PREPARED"
           /\ o.intent = j.attempts[e.attempt].intent
           /\ o.order = j.attempts[e.attempt].order
BY CertaintyOfReport DEF JournalShape, AttemptFields, ObservedAttempt

(***************************************************************************)
(* Steps that change nothing but the place of one session.                 *)
(***************************************************************************)
Moves(s) ==
    /\ UNCHANGED <<store, issued, used, sent>>
    /\ pc' \in [Sessions -> Steps] /\ DOMAIN op' = Sessions
    /\ \A t \in Sessions \ {s} : pc'[t] = pc[t] /\ op'[t] = op[t]

LEMMA MoveKeepsInvariant ==
    ASSUME IInv, NEW s \in Sessions, Moves(s), pc'[s] \notin {"write", "confirm"},
           AppendOK(s)', DispatchOK(s)'
    PROVE  IInv'
<1>1. Shape'
  BY DEF IInv, Shape, Moves, store
<1>2. ASSUME NEW t \in Sessions PROVE AppendOK(t)' /\ DispatchOK(t)'
  <2>1. CASE t = s
    BY <2>1
  <2>2. CASE t # s
    <3>1. AppendOK(t) /\ DispatchOK(t)
      BY DEF IInv
    <3>2. pc'[t] = pc[t] /\ op'[t] = op[t] /\ UNCHANGED <<issued, used, sent>>
      BY <2>2 DEF Moves
    <3> QED BY <3>1, <3>2 DEF AppendOK, DispatchOK
  <2> QED BY <2>1, <2>2
<1>3. AttemptsOK' /\ GrantsOK' /\ SentOK'
  BY DEF IInv, Moves, store, AttemptsOK, GrantsOK, SentOK, Present
<1>4. WritingOK'
  BY DEF IInv, Moves, store, WritingOK
<1>5. ConfirmOK'
  BY DEF IInv, Moves, store, ConfirmOK, Present
<1> QED BY <1>1, <1>2, <1>3, <1>4, <1>5 DEF IInv

LEMMA NoOpFields == DOMAIN NoOp = OpFields /\ NoOp.base \in Nat
BY DEF NoOp, OpFields

\* A call that ends, whatever it gives back.
LEMMA FinishKeepsInvariant ==
    ASSUME IInv, NEW s \in Sessions, Finish(s), UNCHANGED <<store, issued, used, sent>>
    PROVE  IInv'
<1>1. Moves(s) /\ pc'[s] = "idle" /\ op'[s] = NoOp
  BY DEF IInv, Shape, Finish, Goto, Moves, Steps
<1>2. AppendOK(s)' /\ DispatchOK(s)'
  BY <1>1, NoOpFields DEF AppendOK, DispatchOK
<1> QED BY <1>1, <1>2, MoveKeepsInvariant

\* An append that begins on the journal as it was read.
LEMMA StartKeepsInvariant ==
    ASSUME IInv, NEW s \in Sessions, NEW e, NEW then, StartAppend(s, e, then),
           UNCHANGED <<store, issued, used, sent>>,
           e.kind \in Kinds, e.kind = "PREPARED" <=> then = "grant",
           e.kind = "OBSERVED" => e.attempt \in AttemptIds,
           then = "grant" => journal.generation < MaxEvents
    PROVE  IInv'
<1>1. /\ Moves(s) /\ pc'[s] = "create"
      /\ op'[s] = [op[s] EXCEPT !.base = journal.generation, !.event = e, !.then = then]
  BY DEF IInv, Shape, StartAppend, Goto, Moves, Steps
<1>2. /\ DOMAIN op'[s] = OpFields /\ op'[s].base = journal.generation
      /\ op'[s].event = e /\ op'[s].then = then
  BY <1>1 DEF IInv, AppendOK, OpFields
<1>3. AppendOK(s)'
  BY <1>1, <1>2, JournalAssumption DEF IInv, Shape, JournalShape, AppendOK, AttemptIds
<1>4. DispatchOK(s)'
  BY <1>1 DEF DispatchOK
<1> QED BY <1>1, <1>3, <1>4, MoveKeepsInvariant

LEMMA InitIInv == Init => IInv
<1> SUFFICES ASSUME Init PROVE IInv
  OBVIOUS
<1>1. JournalShape(journal)
  BY DEF Init, JournalShape, EmptyJournal, NoAttempt, JournalFields, AttemptFields
<1>2. Present(journal) = {}
  BY DEF Init, Present, EmptyJournal, NoAttempt
<1>3. Shape
  BY <1>1 DEF Init, Shape, Steps
<1>4. ASSUME NEW s \in Sessions PROVE AppendOK(s) /\ DispatchOK(s)
  BY NoOpFields DEF Init, AppendOK, DispatchOK
<1>5. AttemptsOK /\ WritingOK /\ ConfirmOK /\ GrantsOK /\ SentOK
  BY <1>2 DEF Init, AttemptsOK, WritingOK, ConfirmOK, GrantsOK, SentOK
<1> QED BY <1>3, <1>4, <1>5 DEF IInv

(***************************************************************************)
(* An event becomes readable.                                              *)
(***************************************************************************)
\* An event that an append may carry after journal j.
Appendable(j, e) ==
    /\ e.kind \in Kinds
    /\ e.kind = "PREPARED" => j.generation + 1 \in AttemptIds
    /\ e.kind = "OBSERVED" => e.attempt \in AttemptIds

\* An accepted event keeps every attempt and its pair, and adds one attempt at most:
\* the one it prepares, of a pair no attempt has.
LEMMA ReplayAttempts ==
    ASSUME NEW j, NEW e, JournalShape(j), Appendable(j, e), ReplayAccepts(j, e),
           \A a \in Present(j) : a <= j.generation
    PROVE  LET k == Replay(j, e) IN
           /\ JournalShape(k)
           /\ Present(k) = IF e.kind = "PREPARED" THEN Present(j) \cup {j.generation + 1}
                                                  ELSE Present(j)
           /\ \A a \in Present(j) : /\ k.attempts[a].intent = j.attempts[a].intent
                                    /\ k.attempts[a].order = j.attempts[a].order
           /\ e.kind = "PREPARED" =>
                \A a \in Present(j) : ~ /\ k.attempts[a].intent = k.attempts[j.generation + 1].intent
                                        /\ k.attempts[a].order = k.attempts[j.generation + 1].order
<1> DEFINE k == Replay(j, e)
<1>1. k.generation \in Nat /\ DOMAIN k = JournalFields
  BY ReplayCounts DEF JournalShape, Appendable
<1>2. CASE e.kind = "PREPARED"
  <2> DEFINE n == j.generation + 1
             p == PreparedAttempt(j, e)
  <2>1. k.attempts = [j.attempts EXCEPT ![n] = p]
    BY <1>2, ReplayPrepares
  <2>2. n \in AttemptIds /\ n \notin Present(j)
    BY <1>2 DEF Appendable, JournalShape
  <2>3. /\ DOMAIN p = AttemptFields /\ p.certainty = "PREPARED"
        /\ p.intent = e.intent /\ p.order = e.order
    BY PreparedFields
  <2>4. ~PairUsed(j, e.intent, e.order)
    BY <1>2 DEF ReplayAccepts, AcceptsPrepared
  <2> HIDE DEF p, n
  <2>5. JournalShape(k)
    BY <1>1, <2>1, <2>2, <2>3 DEF JournalShape
  <2>6. k.attempts[n] = p /\ \A a \in AttemptIds \ {n} : k.attempts[a] = j.attempts[a]
    BY <2>1, <2>2 DEF JournalShape
  <2>7. Present(k) = Present(j) \cup {n}
    BY <2>2, <2>3, <2>6 DEF Present
  <2>8. \A a \in Present(j) : ~(j.attempts[a].intent = e.intent /\ j.attempts[a].order = e.order)
    BY <2>4 DEF PairUsed
  <2>9. \A a \in Present(j) : k.attempts[a] = j.attempts[a]
    BY <2>2, <2>6 DEF Present
  <2> QED BY <1>2, <2>3, <2>5, <2>6, <2>7, <2>8, <2>9 DEF n
<1>3. CASE e.kind = "OBSERVED"
  <2> DEFINE b == e.attempt
             o == ObservedAttempt(j, e)
  <2>1. k.attempts = [j.attempts EXCEPT ![b] = o] /\ b \in AttemptIds
    BY <1>3, ReplayObserves DEF Appendable
  <2>2. /\ DOMAIN o = AttemptFields /\ o.certainty # "ABSENT"
        /\ o.intent = j.attempts[b].intent /\ o.order = j.attempts[b].order
    BY <2>1, ObservedFields
  <2>3. b \in Present(j)
    BY <1>3, <2>1 DEF ReplayAccepts, AcceptsObserved, Present
  <2> HIDE DEF o, b
  <2>4. JournalShape(k)
    BY <1>1, <2>1, <2>2 DEF JournalShape
  <2>5. k.attempts[b] = o /\ \A a \in AttemptIds \ {b} : k.attempts[a] = j.attempts[a]
    BY <2>1 DEF JournalShape
  <2>6. Present(k) = Present(j)
    BY <2>2, <2>3, <2>5 DEF Present
  <2> QED BY <1>3, <2>2, <2>4, <2>5, <2>6 DEF Present
<1>4. CASE e.kind \notin {"PREPARED", "OBSERVED"}
  <2>1. k.attempts = j.attempts
    BY <1>4, ReplayKeepsAttempts DEF Appendable
  <2> QED BY <1>1, <1>4, <2>1 DEF JournalShape, Present
<1> QED BY <1>2, <1>3, <1>4

\* The event of session s becomes readable, or blocks the journal.
LEMMA PublishKeepsInvariant ==
    ASSUME IInv, NEW s \in Sessions, pc[s] \in {"create", "write"},
           op[s].base = journal.generation,
           \A t \in Sessions : pc[t] = "write" => t = s,
           Publish(op[s].event), Goto(s, "confirm"), UNCHANGED <<op, issued, used, sent>>
    PROVE  IInv'
<1> DEFINE e == op[s].event
           n == journal.generation + 1
<1>1. /\ pc' \in [Sessions -> Steps] /\ pc'[s] = "confirm"
      /\ \A t \in Sessions \ {s} : pc'[t] = pc[t] /\ pc'[t] # "write"
  BY DEF IInv, Shape, Goto, Steps
<1>2. \A t \in Sessions : AppendOK(t)' /\ DispatchOK(t)'
  BY <1>1 DEF IInv, AppendOK, DispatchOK
<1>3. WritingOK'
  BY <1>1 DEF WritingOK
<1>4. CASE poisoned' /\ UNCHANGED journal
  <2>1. ConfirmOK'
    BY <1>4 DEF ConfirmOK
  <2>2. Shape'
    BY <1>1, <1>4 DEF IInv, Shape
  <2>3. AttemptsOK' /\ SentOK'
    BY <1>4 DEF IInv, AttemptsOK, SentOK, Present
  <2>4. GrantsOK'
    BY <1>4 DEF IInv, GrantsOK, Present
  <2> QED BY <1>2, <1>3, <2>1, <2>2, <2>3, <2>4 DEF IInv
<1>5. CASE ReplayAccepts(journal, e) /\ journal' = Replay(journal, e) /\ UNCHANGED poisoned
  <2>1. /\ JournalShape(journal) /\ Appendable(journal, e)
        /\ \A a \in Present(journal) : a <= journal.generation
        /\ e.kind = "PREPARED" <=> op[s].then = "grant"
    BY DEF IInv, Shape, AppendOK, Appendable, AttemptsOK
  <2>2. journal'.generation = n
    BY <1>5, <2>1, ReplayCounts DEF Appendable
  <2>3. /\ JournalShape(journal')
        /\ Present(journal') = IF e.kind = "PREPARED" THEN Present(journal) \cup {n}
                                                      ELSE Present(journal)
        /\ \A a \in Present(journal) :
              /\ journal'.attempts[a].intent = journal.attempts[a].intent
              /\ journal'.attempts[a].order = journal.attempts[a].order
        /\ e.kind = "PREPARED" =>
              \A a \in Present(journal) :
                ~ /\ journal'.attempts[a].intent = journal'.attempts[n].intent
                  /\ journal'.attempts[a].order = journal'.attempts[n].order
    <3> HIDE DEF e
    <3> QED BY <1>5, <2>1, ReplayAttempts
  <2>4. Shape'
    BY <1>1, <2>2, <2>3 DEF IInv, Shape
  <2>5. n \notin Present(journal) /\ journal.generation \in Nat
    BY <2>1 DEF JournalShape
  <2> HIDE DEF e, n
  <2>6. AttemptsOK'
    <3>1. \A a \in Present(journal') : a <= journal'.generation
      BY <2>2, <2>3, <2>5, JournalAssumption DEF IInv, AttemptsOK, Present, AttemptIds, n
    <3>2. \A a, b \in Present(journal') :
            /\ journal'.attempts[a].intent = journal'.attempts[b].intent
            /\ journal'.attempts[a].order = journal'.attempts[b].order
            => a = b
      BY <2>2, <2>3 DEF IInv, AttemptsOK
    <3> QED BY <3>1, <3>2 DEF AttemptsOK
  <2>7. Present(journal) \subseteq Present(journal')
    BY <2>2, <2>3
  <2>8. GrantsOK' /\ SentOK'
    BY <2>7 DEF IInv, GrantsOK, SentOK
  <2>9. ConfirmOK'
    <3> SUFFICES ASSUME ~poisoned', NEW t \in Sessions, pc'[t] = "confirm"
                 PROVE  /\ op[t].base + 1 <= n
                        /\ \A u \in Sessions : pc'[u] = "confirm" /\ op[u].base = op[t].base => t = u
                        /\ op[t].then = "grant" =>
                            /\ op[t].base + 1 \in Present(journal')
                            /\ sent[op[t].base + 1] = 0
                            /\ \A u \in Sessions : op[t].base + 1 \notin issued[u]
      BY <2>2, <2>3 DEF ConfirmOK
    <3>1. \A u \in Sessions \ {s} : pc'[u] = "confirm" =>
            /\ op[u].base + 1 <= journal.generation
            /\ \A v \in Sessions : pc[v] = "confirm" /\ op[v].base = op[u].base => u = v
            /\ op[u].then = "grant" =>
                /\ op[u].base + 1 \in Present(journal)
                /\ sent[op[u].base + 1] = 0
                /\ \A v \in Sessions : op[u].base + 1 \notin issued[v]
      BY <1>1, <1>5 DEF IInv, ConfirmOK
    <3>2. \A u \in Sessions : op[u].base \in Nat
      BY DEF IInv, AppendOK
    <3>3. \A u \in Sessions \ {s} : pc'[u] = "confirm" => op[u].base # op[s].base
      BY <3>1, <3>2, <2>5
    <3>4. CASE t = s
      <4>1. op[s].then = "grant" => n \in Present(journal') /\ n \in AttemptIds
        BY <2>1, <2>2, <2>3 DEF Appendable, n
      <4>2. \A u \in Sessions : n \notin issued[u]
        BY <2>5 DEF IInv, GrantsOK
      <4>3. n \in AttemptIds => sent[n] = 0
        BY <2>5 DEF IInv, SentOK, Shape
      <4> QED BY <3>3, <3>4, <4>1, <4>2, <4>3, <2>5 DEF n
    <3>5. CASE t # s
      <4>1. pc[t] = "confirm"
        BY <1>1, <3>5
      <4>2. op[t].base + 1 <= n
        BY <3>1, <3>2, <3>5, <2>5 DEF n
      <4>3. \A u \in Sessions : pc'[u] = "confirm" /\ op[u].base = op[t].base => t = u
        BY <1>1, <3>1, <3>3, <3>5
      <4> QED BY <2>7, <3>1, <3>5, <4>2, <4>3
    <3> QED BY <3>4, <3>5
  <2> QED BY <1>2, <1>3, <2>4, <2>6, <2>8, <2>9 DEF IInv
<1> QED BY <1>4, <1>5 DEF Publish

(***************************************************************************)
(* The steps.                                                              *)
(***************************************************************************)
LEMMA FailKeepsInvariant ==
    ASSUME IInv, NEW s \in Sessions, Fail(s), UNCHANGED <<store, world>>
    PROVE  IInv'
BY FinishKeepsInvariant DEF Fail, world

LEMMA CreateKeepsInvariant ==
    ASSUME IInv, NEW s \in Sessions, Create(s)
    PROVE  IInv'
<1>1. /\ pc[s] = "create" /\ op[s].base = journal.generation
      /\ \A t \in Sessions : pc[t] # "write"
      /\ UNCHANGED <<op, issued, used, sent>>
  BY DEF IInv, WritingOK, Create, NextSequenceFree, Readable, memory, world
<1>2. CASE Cloud
  BY <1>1, <1>2, PublishKeepsInvariant DEF Create
<1>3. CASE ~Cloud
  <2>1. /\ pc' \in [Sessions -> Steps] /\ pc'[s] = "write"
        /\ \A t \in Sessions \ {s} : pc'[t] = pc[t]
        /\ torn' /\ UNCHANGED <<journal, poisoned>>
    BY <1>3 DEF IInv, Shape, Steps, Create, Goto
  <2>2. Shape' /\ AttemptsOK' /\ GrantsOK' /\ SentOK'
    BY <1>1, <2>1 DEF IInv, Shape, AttemptsOK, GrantsOK, SentOK, Present
  <2>3. \A t \in Sessions : AppendOK(t)' /\ DispatchOK(t)'
    BY <1>1, <2>1 DEF IInv, AppendOK, DispatchOK
  <2>4. WritingOK'
    BY <1>1, <2>1 DEF WritingOK
  <2>5. ConfirmOK'
    BY <1>1, <2>1 DEF IInv, ConfirmOK, Present
  <2> QED BY <2>2, <2>3, <2>4, <2>5 DEF IInv
<1> QED BY <1>2, <1>3

LEMMA WriteKeepsInvariant ==
    ASSUME IInv, NEW s \in Sessions, Write(s)
    PROVE  IInv'
BY PublishKeepsInvariant DEF Write, IInv, WritingOK, memory, world

\* The only step that hands a grant out.
LEMMA ConfirmKeepsInvariant ==
    ASSUME IInv, NEW s \in Sessions, Confirm(s)
    PROVE  IInv'
<1> DEFINE n == op[s].base + 1
<1>1. /\ pc[s] = "confirm" /\ ~poisoned /\ UNCHANGED <<store, used, sent>>
      /\ issued' = IF op[s].then = "grant" THEN [issued EXCEPT ![s] = @ \cup {n}] ELSE issued
  BY DEF Confirm, Confirmable, Readable, world
<1>2. /\ pc' \in [Sessions -> Steps] /\ DOMAIN op' = Sessions
      /\ pc'[s] \in {"idle", "bound"} /\ op'[s] \in {op[s], NoOp}
      /\ \A t \in Sessions \ {s} : pc'[t] = pc[t] /\ op'[t] = op[t]
  BY DEF IInv, Shape, Steps, Confirm, Goto, Finish
<1>3. op[s].then = "grant" =>
        /\ n \in AttemptIds /\ n \in Present(journal) /\ sent[n] = 0
        /\ \A t \in Sessions : n \notin issued[t]
  BY <1>1 DEF IInv, AppendOK, ConfirmOK
<1>4. \A t \in Sessions : pc'[t] = "confirm" => t # s /\ op'[t].base # op[s].base
  BY <1>1, <1>2 DEF IInv, ConfirmOK
<1>5. \A t \in Sessions : op[t].base \in Nat
  BY DEF IInv, AppendOK
<1>6. Shape'
  BY <1>1, <1>2, <1>3 DEF IInv, Shape, store
<1>7. ASSUME NEW t \in Sessions PROVE AppendOK(t)' /\ DispatchOK(t)'
  <2>1. CASE t = s
    BY <1>2, <2>1, NoOpFields DEF IInv, AppendOK, DispatchOK
  <2>2. CASE t # s
    BY <1>1, <1>2, <2>2 DEF IInv, Shape, AppendOK, DispatchOK
  <2> QED BY <2>1, <2>2
<1>8. AttemptsOK' /\ WritingOK' /\ SentOK'
  BY <1>1, <1>2 DEF IInv, AttemptsOK, WritingOK, SentOK, Present, store
<1>9. GrantsOK'
  <2>1. \A t \in Sessions : used'[t] \subseteq issued'[t] /\ issued'[t] \subseteq Present(journal)
    BY <1>1, <1>3 DEF IInv, Shape, GrantsOK
  <2>2. \A t, u \in Sessions : t # u => issued'[t] \cap issued'[u] = {}
    BY <1>1, <1>3 DEF IInv, Shape, GrantsOK
  <2>3. \A t \in Sessions : \A a \in issued'[t] \ used'[t] : sent'[a] = 0
    BY <1>1, <1>3 DEF IInv, Shape, GrantsOK
  <2> QED BY <1>1, <2>1, <2>2, <2>3 DEF GrantsOK, Present, store
<1>10. ConfirmOK'
  <2> SUFFICES ASSUME NEW t \in Sessions, pc'[t] = "confirm"
               PROVE  /\ op'[t].base + 1 <= journal.generation
                      /\ \A u \in Sessions : pc'[u] = "confirm" /\ op'[u].base = op'[t].base => t = u
                      /\ op'[t].then = "grant" =>
                          /\ op'[t].base + 1 \in Present(journal)
                          /\ sent[op'[t].base + 1] = 0
                          /\ \A u \in Sessions : op'[t].base + 1 \notin issued'[u]
    BY <1>1 DEF ConfirmOK, Present, store
  <2>1. t # s /\ pc[t] = "confirm" /\ op'[t] = op[t] /\ op[t].base # op[s].base
    BY <1>2, <1>4
  <2>2. op[t].base + 1 # n
    BY <1>5, <2>1
  <2>3. \A u \in Sessions : pc'[u] = "confirm" => pc[u] = "confirm" /\ op'[u] = op[u]
    BY <1>2, <1>4
  <2> HIDE DEF n
  <2> QED BY <1>1, <2>1, <2>2, <2>3 DEF IInv, Shape, ConfirmOK
<1> QED BY <1>6, <1>7, <1>8, <1>9, <1>10 DEF IInv

LEMMA ReserveAfterBindKeepsInvariant ==
    ASSUME IInv, NEW s \in Sessions, ReserveAfterBind(s)
    PROVE  IInv'
<1>1. UNCHANGED <<store, issued, used, sent>> /\ journal.generation < MaxEvents
  BY DEF ReserveAfterBind, memory, world
<1>2. CASE Finish(s)
  BY <1>1, <1>2, FinishKeepsInvariant
<1>3. CASE StartAppend(s, Prepared(s, op[s].order, op[s].newRisk, FALSE), "grant")
  BY <1>1, <1>3, StartKeepsInvariant DEF Prepared, Kinds
<1> QED BY <1>2, <1>3 DEF ReserveAfterBind

LEMMA DispatchLockKeepsInvariant ==
    ASSUME IInv, NEW s \in Sessions, DispatchLock(s)
    PROVE  IInv'
<1>1. UNCHANGED <<store, issued, used, sent>> /\ pc[s] = "checked"
  BY DEF DispatchLock, memory, world
<1>2. CASE Finish(s)
  BY <1>1, <1>2, FinishKeepsInvariant
<1>3. CASE Goto(s, "locked") /\ UNCHANGED op
  <2>1. Moves(s) /\ pc'[s] = "locked"
    BY <1>1, <1>3 DEF IInv, Shape, Goto, Moves, Steps
  <2>2. AppendOK(s)' /\ DispatchOK(s)'
    BY <1>1, <1>3, <2>1 DEF IInv, AppendOK, DispatchOK
  <2> QED BY <2>1, <2>2, MoveKeepsInvariant
<1> QED BY <1>2, <1>3 DEF DispatchLock

\* The step that consumes a grant.
LEMMA DispatchGuardKeepsInvariant ==
    ASSUME IInv, NEW s \in Sessions, DispatchGuard(s)
    PROVE  IInv'
<1>1. UNCHANGED <<store, issued, sent>> /\ pc[s] = "locked"
  BY DEF DispatchGuard, world
<1>2. CASE Goto(s, "idle") /\ op' = [op EXCEPT ![s] = NoOp] /\ UNCHANGED used
  <2>1. Moves(s) /\ pc'[s] = "idle" /\ op'[s] = NoOp
    BY <1>1, <1>2 DEF IInv, Shape, Goto, Moves, Steps
  <2>2. AppendOK(s)' /\ DispatchOK(s)'
    BY <2>1, NoOpFields DEF AppendOK, DispatchOK
  <2> QED BY <2>1, <2>2, MoveKeepsInvariant
<1>3. CASE /\ Goto(s, "sending") /\ UNCHANGED op
           /\ used' = [used EXCEPT ![s] = @ \cup {op[s].attempt}]
  <2> DEFINE a == op[s].attempt
  <2>1. /\ pc' \in [Sessions -> Steps] /\ pc'[s] = "sending"
        /\ \A t \in Sessions \ {s} : pc'[t] = pc[t]
    BY <1>3 DEF IInv, Shape, Goto, Steps
  <2>2. a \in issued[s] \ used[s] /\ sent[a] = 0 /\ a \in AttemptIds
    BY <1>1 DEF IInv, Shape, DispatchOK, GrantsOK
  <2>3. Shape'
    BY <1>1, <1>3, <2>1, <2>2 DEF IInv, Shape, store
  <2>4. ASSUME NEW t \in Sessions PROVE AppendOK(t)' /\ DispatchOK(t)'
    BY <1>1, <1>3, <2>1, <2>2 DEF IInv, Shape, AppendOK, DispatchOK
  <2>5. AttemptsOK' /\ WritingOK' /\ ConfirmOK' /\ SentOK'
    <3>1. AttemptsOK' /\ SentOK'
      BY <1>1 DEF IInv, AttemptsOK, SentOK, Present, store
    <3>2. WritingOK'
      BY <1>1, <1>3, <2>1 DEF IInv, WritingOK, store
    <3>3. ConfirmOK'
      BY <1>1, <1>3, <2>1 DEF IInv, ConfirmOK, Present, store
    <3> QED BY <3>1, <3>2, <3>3
  <2>6. GrantsOK'
    BY <1>1, <1>3, <2>2 DEF IInv, Shape, GrantsOK, Present, store
  <2> QED BY <2>3, <2>4, <2>5, <2>6 DEF IInv
<1> QED BY <1>2, <1>3 DEF DispatchGuard

\* The broker receives at most one order for the grant just consumed.
LEMMA SubmitKeepsInvariant ==
    ASSUME IInv, NEW s \in Sessions, Submit(s) \/ SubmitRaises(s)
    PROVE  IInv'
<1> DEFINE a == op[s].attempt
<1>1. /\ pc[s] = "sending" /\ UNCHANGED <<store, issued, used>>
      /\ \E n \in {0, 1} : sent' = [sent EXCEPT ![a] = @ + n]
  BY DEF Submit, SubmitRaises, memory
<1>2. /\ pc' \in [Sessions -> Steps] /\ pc'[s] = "returned" /\ DOMAIN op' = Sessions
      /\ \A t \in Sessions \ {s} : pc'[t] = pc[t] /\ op'[t] = op[t]
      /\ DOMAIN op'[s] = OpFields /\ op'[s].base = op[s].base /\ op'[s].attempt = a
  BY DEF IInv, Shape, Steps, Submit, SubmitRaises, Goto, AppendOK, OpFields
<1>3. a \in issued[s] \cap used[s] /\ sent[a] = 0 /\ a \in AttemptIds /\ a \in Present(journal)
  BY <1>1 DEF IInv, Shape, DispatchOK, GrantsOK
<1>4. /\ sent'[a] \in {0, 1} /\ sent' \in [AttemptIds -> Nat]
      /\ \A b \in AttemptIds \ {a} : sent'[b] = sent[b]
  BY <1>1, <1>3 DEF IInv, Shape
<1> HIDE DEF a
<1>5. Shape'
  BY <1>1, <1>2, <1>4 DEF IInv, Shape, store
<1>6. ASSUME NEW t \in Sessions PROVE AppendOK(t)' /\ DispatchOK(t)'
  <2>1. CASE t = s
    BY <1>2, <1>3, <2>1 DEF IInv, AppendOK, DispatchOK
  <2>2. CASE t # s
    BY <1>1, <1>2, <1>3, <1>4, <2>2 DEF IInv, Shape, AppendOK, DispatchOK, GrantsOK
  <2> QED BY <2>1, <2>2
<1>7. AttemptsOK' /\ WritingOK'
  BY <1>1, <1>2 DEF IInv, AttemptsOK, WritingOK, Present, store
<1>8. ConfirmOK'
  BY <1>1, <1>2, <1>3, <1>4 DEF IInv, ConfirmOK, Present, store
<1>9. GrantsOK'
  BY <1>1, <1>3, <1>4 DEF IInv, Shape, GrantsOK, Present, store
<1>10. SentOK'
  BY <1>1, <1>3, <1>4 DEF IInv, SentOK, Present, store
<1> QED BY <1>5, <1>6, <1>7, <1>8, <1>9, <1>10 DEF IInv

LEMMA RecordOutcomeKeepsInvariant ==
    ASSUME IInv, NEW s \in Sessions, RecordOutcome(s)
    PROVE  IInv'
<1>1. UNCHANGED <<store, issued, used, sent>> /\ pc[s] = "returned"
  BY DEF RecordOutcome, world
<1>2. CASE Finish(s)
  BY <1>1, <1>2, FinishKeepsInvariant
<1>3. CASE StartAppend(s, Observed(op[s].attempt, op[s].report), "idle")
  <2>1. op[s].attempt \in AttemptIds
    BY <1>1 DEF IInv, DispatchOK
  <2> QED BY <1>1, <1>3, <2>1, StartKeepsInvariant DEF Observed, Kinds
<1> QED BY <1>2, <1>3 DEF RecordOutcome

LEMMA OpenKeepsInvariant ==
    ASSUME IInv, NEW s \in Sessions, OpenLock(s) \/ OpenGuard(s)
    PROVE  IInv'
<1>1. UNCHANGED <<store, issued, used, sent>>
  BY DEF OpenLock, OpenGuard, memory, world
<1>2. CASE StartAppend(s, [kind |-> "CIRCUIT_BREAKER_OPEN"], "idle")
  BY <1>1, <1>2, StartKeepsInvariant DEF Kinds
<1>3. CASE (Goto(s, "idle") \/ Goto(s, "openLocked")) /\ UNCHANGED op
  <2>1. Moves(s) /\ pc'[s] \in {"idle", "openLocked"}
    BY <1>1, <1>3 DEF IInv, Shape, Goto, Moves, Steps
  <2>2. AppendOK(s)' /\ DispatchOK(s)'
    BY <1>3, <2>1 DEF IInv, AppendOK, DispatchOK
  <2> QED BY <2>1, <2>2, MoveKeepsInvariant
<1> QED BY <1>2, <1>3 DEF OpenLock, OpenGuard

LEMMA DispatchBeginKeepsInvariant ==
    ASSUME IInv, NEW s \in Sessions, NEW a \in AttemptIds, DispatchBegin(s, a)
    PROVE  IInv'
<1>1. /\ UNCHANGED <<store, issued, used, sent>> /\ a \in issued[s] \ used[s]
      /\ Moves(s) /\ pc'[s] = "checked" /\ op'[s] = [op[s] EXCEPT !.attempt = a]
  BY DEF IInv, Shape, DispatchBegin, UnusedGrant, Goto, Moves, Steps, memory, world
<1>2. DOMAIN op'[s] = OpFields /\ op'[s].attempt = a /\ op'[s].base = op[s].base
  BY <1>1 DEF IInv, AppendOK, OpFields
<1>3. AppendOK(s)' /\ DispatchOK(s)'
  BY <1>1, <1>2 DEF IInv, AppendOK, DispatchOK
<1> QED BY <1>1, <1>3, MoveKeepsInvariant

LEMMA ReserveBindsKeepsInvariant ==
    ASSUME IInv, NEW s \in Sessions, NEW o, NEW newRisk, ReserveBinds(s, o, newRisk)
    PROVE  IInv'
<1> DEFINE e == [kind |-> "DOMAIN_BOUND", domain |-> DomainOf[s]]
<1>1. /\ Moves(s) /\ pc'[s] = "create"
      /\ op'[s] = [op[s] EXCEPT !.base = journal.generation, !.then = "bound", !.order = o,
                                !.newRisk = newRisk, !.event = e]
  BY DEF IInv, Shape, ReserveBinds, Goto, Moves, Steps, memory, world
<1>2. /\ DOMAIN op'[s] = OpFields /\ op'[s].base = journal.generation
      /\ op'[s].event = e /\ op'[s].then = "bound"
  BY <1>1 DEF IInv, AppendOK, OpFields
<1>3. AppendOK(s)' /\ DispatchOK(s)'
  BY <1>1, <1>2 DEF IInv, Shape, JournalShape, AppendOK, DispatchOK, Kinds
<1> QED BY <1>1, <1>3, MoveKeepsInvariant

\* The calls that decide on the journal and start to append.
LEMMA AppendCallKeepsInvariant ==
    ASSUME IInv, NEW s \in Sessions,
           \/ \E o \in Orders, newRisk \in NewRiskFlags : Reserve(s, o, newRisk)
           \/ \E o \in Orders : ReserveReduction(s, o)
           \/ \E at \in 1..MaxTime, equity \in Equities, flow \in Flows, cash \in Cash,
                 c \in SUBSET Present(journal) : RecordEquity(s, at, equity, flow, cash, c)
           \/ \E o \in Orders, perUnit \in PerUnits : ReserveRisk(s, o, perUnit)
           \/ \E a \in AttemptIds : ReconcileRisk(s, a)
           \/ \E a \in AttemptIds, r \in Reports : RecordObservation(s, a, r)
    PROVE  IInv'
<1>1. ASSUME NEW o \in Orders, NEW newRisk \in NewRiskFlags, Reserve(s, o, newRisk) PROVE IInv'
  BY <1>1, StartKeepsInvariant DEF Reserve, Called, Prepared, Kinds, memory, world
<1>2. ASSUME NEW o \in Orders, ReserveReduction(s, o) PROVE IInv'
  BY <1>2, StartKeepsInvariant DEF ReserveReduction, Called, Prepared, Kinds, memory, world
<1>3. ASSUME NEW at, NEW equity, NEW flow, NEW cash, NEW c,
             RecordEquity(s, at, equity, flow, cash, c)
      PROVE  IInv'
  BY <1>3, StartKeepsInvariant DEF RecordEquity, Kinds, memory, world
<1>4. ASSUME NEW o, NEW perUnit, ReserveRisk(s, o, perUnit) PROVE IInv'
  BY <1>4, StartKeepsInvariant DEF ReserveRisk, Kinds, memory, world
<1>5. ASSUME NEW a, ReconcileRisk(s, a) PROVE IInv'
  BY <1>5, StartKeepsInvariant DEF ReconcileRisk, Kinds, memory, world
<1>6. ASSUME NEW a \in AttemptIds, NEW r, RecordObservation(s, a, r) PROVE IInv'
  BY <1>6, StartKeepsInvariant DEF RecordObservation, Observed, Kinds, memory, world
<1> QED BY <1>1, <1>2, <1>3, <1>4, <1>5, <1>6

LEMMA CrashKeepsInvariant ==
    ASSUME IInv, NEW p \in Processes, Crash(p)
    PROVE  IInv'
<1> DEFINE dead == {s \in Sessions : ProcessOf[s] = p}
<1>1. /\ UNCHANGED <<store, sent>> /\ pc' \in [Sessions -> Steps] /\ DOMAIN op' = Sessions
      /\ issued' \in [Sessions -> SUBSET AttemptIds] /\ used' \in [Sessions -> SUBSET AttemptIds]
      /\ \A s \in dead : pc'[s] = "crashed" /\ op'[s] = NoOp /\ issued'[s] = {} /\ used'[s] = {}
      /\ \A s \in Sessions \ dead : /\ pc'[s] = pc[s] /\ op'[s] = op[s]
                                    /\ issued'[s] = issued[s] /\ used'[s] = used[s]
  BY DEF IInv, Shape, Steps, Crash, world
<1> HIDE DEF dead
<1>2. Shape'
  BY <1>1 DEF IInv, Shape, store
<1>3. ASSUME NEW s \in Sessions PROVE AppendOK(s)' /\ DispatchOK(s)'
  <2>1. CASE s \in dead
    BY <1>1, <2>1, NoOpFields DEF AppendOK, DispatchOK
  <2>2. CASE s \notin dead
    BY <1>1, <2>2 DEF IInv, AppendOK, DispatchOK
  <2> QED BY <2>1, <2>2
<1>4. \A s \in Sessions : pc'[s] \in {"write", "confirm"} => s \notin dead
  BY <1>1
<1>5. \A s \in Sessions : /\ issued'[s] \subseteq issued[s] /\ used'[s] \subseteq issued'[s]
                          /\ issued'[s] \ used'[s] \subseteq issued[s] \ used[s]
  BY <1>1 DEF IInv, GrantsOK
<1>6. AttemptsOK' /\ SentOK'
  BY <1>1 DEF IInv, AttemptsOK, SentOK, Present, store
<1>7. WritingOK'
  BY <1>1, <1>4 DEF IInv, WritingOK, store
<1>8. ConfirmOK'
  <2>1. \A s \in Sessions : pc'[s] = "confirm" => pc[s] = "confirm" /\ op'[s] = op[s]
    BY <1>1, <1>4
  <2> QED BY <1>1, <1>5, <2>1 DEF IInv, ConfirmOK, Present, store
<1>9. GrantsOK'
  BY <1>1, <1>5 DEF IInv, GrantsOK, Present, store
<1> QED BY <1>2, <1>3, <1>6, <1>7, <1>8, <1>9 DEF IInv

LEMMA UnchangedKeepsInvariant ==
    ASSUME IInv, UNCHANGED <<store, pc, op, issued, used, sent>>
    PROVE  IInv'
<1>1. Shape' /\ WritingOK'
  BY DEF IInv, Shape, WritingOK, store
<1>2. (\A s \in Sessions : AppendOK(s) /\ DispatchOK(s))'
  BY DEF IInv, AppendOK, DispatchOK
<1>3. AttemptsOK' /\ SentOK'
  BY DEF IInv, AttemptsOK, SentOK, Present, store
<1>4. ConfirmOK' /\ GrantsOK'
  BY DEF IInv, ConfirmOK, GrantsOK, Present, store
<1> QED BY <1>1, <1>2, <1>3, <1>4 DEF IInv

LEMMA StepKeepsInvariant == IInv /\ [Next]_vars => IInv'
<1> SUFFICES ASSUME IInv, [Next]_vars PROVE IInv'
  OBVIOUS
<1>1. ASSUME NEW s \in Sessions, Proceed(s) PROVE IInv'
  <2>1. CASE CreateConflict(s) \/ StoreFails(s) \/ ConfirmFails(s) \/ GuardFails(s)
    BY <2>1, FailKeepsInvariant DEF CreateConflict, StoreFails, ConfirmFails, GuardFails
  <2>2. CASE Create(s) \/ Write(s) \/ Confirm(s)
    BY <2>2, CreateKeepsInvariant, WriteKeepsInvariant, ConfirmKeepsInvariant
  <2>3. CASE ReserveAfterBind(s) \/ DispatchLock(s) \/ DispatchGuard(s)
    BY <2>3, ReserveAfterBindKeepsInvariant, DispatchLockKeepsInvariant,
       DispatchGuardKeepsInvariant
  <2>4. CASE Submit(s) \/ SubmitRaises(s) \/ RecordOutcome(s) \/ OpenGuard(s)
    BY <2>4, SubmitKeepsInvariant, RecordOutcomeKeepsInvariant, OpenKeepsInvariant
  <2> QED BY <1>1, <2>1, <2>2, <2>3, <2>4 DEF Proceed, Appending
<1>2. ASSUME NEW s \in Sessions, Call(s) PROVE IInv'
  <2>1. CASE \E o \in Orders, newRisk \in NewRiskFlags : ReserveBinds(s, o, newRisk)
    BY <2>1, ReserveBindsKeepsInvariant
  <2>2. CASE \E a \in AttemptIds : DispatchBegin(s, a)
    BY <2>2, DispatchBeginKeepsInvariant
  <2>3. CASE OpenLock(s)
    BY <2>3, OpenKeepsInvariant
  <2> QED BY <1>2, <2>1, <2>2, <2>3, AppendCallKeepsInvariant DEF Call
<1>3. ASSUME NEW p \in Processes, Crash(p) PROVE IInv'
  BY <1>3, CrashKeepsInvariant
<1>4. CASE Tick \/ UNCHANGED vars
  BY <1>4, UnchangedKeepsInvariant DEF Tick, vars, memory, world
<1> QED BY <1>1, <1>2, <1>3, <1>4 DEF Next

(***************************************************************************)
(* The theorems.                                                           *)
(***************************************************************************)
\* Every reachable state satisfies the inductive invariant: appends land where
\* their session read, grants belong to one session, dispatches to their grants.
THEOREM InductiveInvariant == Spec => []IInv
<1>1. IInv /\ [Next]_vars => IInv'
  BY StepKeepsInvariant
<1> QED BY InitIInv, <1>1, PTL DEF Spec

\* Whatever sessions and processes race, crash or fail in dispatch and _append, the
\* broker receives at most one order for an attempt and for an intent and order.
THEOREM OrderIsSentOnce == Spec => []OrderSentOnce
<1>1. IInv => OrderSentOnce
  <2> SUFFICES ASSUME IInv PROVE OrderSentOnce
    OBVIOUS
  <2>1. \A a \in AttemptIds : sent[a] <= 1 /\ (sent[a] > 0 => a \in Present(journal))
    BY DEF IInv, SentOK
  <2> QED BY <2>1 DEF IInv, AttemptsOK, OrderSentOnce
<1> QED BY InductiveInvariant, <1>1, PTL

-----------------------------------------------------------------------------
(***************************************************************************)
(* Once the circuit breaker is OPEN no new risk reaches the broker, and    *)
(* OPEN never falls between a submit and the writing of its outcome: for   *)
(* any sessions and processes, on a local directory (mutex and file lock)  *)
(* and on an object store (mutex and permanent ownership).                 *)
(*                                                                         *)
(* The argument.  A session that submits and a session that writes OPEN    *)
(* hold both locks, so they are the same session; what the last read in    *)
(* the guard said of the breaker is therefore true until the submit.       *)
(***************************************************************************)
OpenEvent(s) == op[s].event.kind = "CIRCUIT_BREAKER_OPEN"

\* What both locks protect: from the submit, or the decision to open, to the end
\* of the append.
InGuard(s) ==
    \/ pc[s] \in {"sending", "returned"}
    \/ pc[s] \in {"create", "write", "confirm"} /\ (op[s].attempt # 0 \/ OpenEvent(s))

HasMutex(s) == mutex[ProcessOf[s]] = s

HasGuard(s) == writer = IF Cloud THEN ProcessOf[s] ELSE s

LockOK(s) ==
    /\ pc[s] \in {"locked", "openLocked"} => HasMutex(s)
    /\ InGuard(s) => HasMutex(s) /\ HasGuard(s)
    /\ pc[s] \in {"idle", "openLocked"} => op[s] = NoOp
    /\ pc[s] = "bound" => op[s].then = "bound"
    /\ op[s].then = "bound" => op[s].attempt = 0
    /\ OpenEvent(s) => op[s].attempt = 0

LockInv == DOMAIN mutex = Processes /\ \A s \in Sessions : LockOK(s)

\* A session about to call submit for new risk saw the breaker closed, and it is.
BarOK ==
    \A s \in Sessions :
        pc[s] = "sending" /\ journal.attempts[op[s].attempt].newRisk => ~journal.breakerOpen

LEMMA NoOpIsQuiet ==
    /\ NoOp.attempt = 0 /\ NoOp.then = "idle" /\ NoOp.event.kind = "none"
BY DEF NoOp, NoEvent

LEMMA OneInGuard ==
    ASSUME LockInv, NEW s \in Sessions, NEW t \in Sessions, InGuard(s), InGuard(t)
    PROVE  s = t
<1>1. HasMutex(s) /\ HasGuard(s) /\ HasMutex(t) /\ HasGuard(t)
  BY DEF LockInv, LockOK
<1>2. CASE Cloud
  BY <1>1, <1>2 DEF HasMutex, HasGuard
<1>3. CASE ~Cloud
  BY <1>1, <1>3 DEF HasGuard
<1> QED BY <1>2, <1>3

(***************************************************************************)
(* The locks.                                                              *)
(***************************************************************************)
\* A step of session s leaves the others where they are, with the locks they have.
OthersKeep(s) ==
    /\ DOMAIN mutex' = Processes
    /\ \A t \in Sessions \ {s} :
        /\ pc'[t] = pc[t] /\ op'[t] = op[t]
        /\ HasMutex(t) => HasMutex(t)'
        /\ HasMutex(t) /\ HasGuard(t) => HasGuard(t)'

LEMMA OwnStepSuffices ==
    ASSUME LockInv, NEW s \in Sessions, OthersKeep(s), LockOK(s)'
    PROVE  LockInv'
<1>1. ASSUME NEW t \in Sessions \ {s} PROVE LockOK(t)'
  <2>1. /\ pc'[t] = pc[t] /\ op'[t] = op[t] /\ LockOK(t)
        /\ HasMutex(t) => HasMutex(t)'
        /\ HasMutex(t) /\ HasGuard(t) => HasGuard(t)'
    BY DEF OthersKeep, LockInv
  <2>2. (OpenEvent(t)' <=> OpenEvent(t)) /\ (InGuard(t)' <=> InGuard(t))
    BY <2>1 DEF OpenEvent, InGuard
  <2> QED BY <2>1, <2>2 DEF LockOK
<1> QED BY <1>1 DEF LockInv, OthersKeep

\* Locks are not touched.
LEMMA KeepLocks ==
    ASSUME IInv, LockInv, NEW s \in Sessions, UNCHANGED locks,
           \A t \in Sessions \ {s} : pc'[t] = pc[t] /\ op'[t] = op[t]
    PROVE  OthersKeep(s)
BY DEF LockInv, locks, OthersKeep, HasMutex, HasGuard

\* The session gives its locks back.
LEMMA ReleaseKeepsOthers ==
    ASSUME IInv, LockInv, NEW s \in Sessions, ReleaseLocks(s),
           \A t \in Sessions \ {s} : pc'[t] = pc[t] /\ op'[t] = op[t]
    PROVE  OthersKeep(s)
<1>1. ASSUME NEW t \in Sessions \ {s}, HasMutex(t) PROVE HasMutex(t)'
  BY <1>1, SubmissionAssumption DEF ReleaseLocks, HasMutex
<1>2. ASSUME NEW t \in Sessions \ {s}, HasGuard(t) PROVE HasGuard(t)'
  BY <1>2 DEF ReleaseLocks, HasGuard
<1> QED BY <1>1, <1>2 DEF OthersKeep, ReleaseLocks

\* The session takes the account mutex, which nobody has.
LEMMA MutexKeepsOthers ==
    ASSUME IInv, LockInv, NEW s \in Sessions, MutexFree(s), TakeMutex(s), UNCHANGED writer,
           \A t \in Sessions \ {s} : pc'[t] = pc[t] /\ op'[t] = op[t]
    PROVE  OthersKeep(s) /\ HasMutex(s)'
<1>1. ASSUME NEW t \in Sessions, HasMutex(t) PROVE HasMutex(t)'
  BY <1>1, SubmissionAssumption DEF MutexFree, TakeMutex, HasMutex, LockInv
<1>2. HasMutex(s)'
  BY SubmissionAssumption DEF TakeMutex, HasMutex, LockInv
<1> QED BY <1>1, <1>2 DEF OthersKeep, TakeMutex, LockInv, HasGuard

\* The session that has the mutex takes the guard, which nobody else has.
LEMMA GuardKeepsOthers ==
    ASSUME IInv, LockInv, NEW s \in Sessions, HasMutex(s), GuardFree(s), TakeGuard(s),
           UNCHANGED mutex,
           \A t \in Sessions \ {s} : pc'[t] = pc[t] /\ op'[t] = op[t]
    PROVE  OthersKeep(s) /\ HasMutex(s)' /\ HasGuard(s)'
<1>1. HasMutex(s)' /\ HasGuard(s)'
  BY DEF TakeGuard, HasMutex, HasGuard
<1>2. ASSUME NEW t \in Sessions \ {s}, HasGuard(t) PROVE HasGuard(t)'
  BY <1>2, SubmissionAssumption DEF GuardFree, TakeGuard, HasGuard
<1> QED BY <1>1, <1>2 DEF OthersKeep, LockInv, HasMutex

\* The guard is free, but the call ends: on an object store the process owns it.
LEMMA RefusalKeepsOthers ==
    ASSUME IInv, LockInv, NEW s \in Sessions, HasMutex(s), GuardFree(s),
           mutex' = [mutex EXCEPT ![ProcessOf[s]] = "free"],
           writer' = IF Cloud THEN ProcessOf[s] ELSE writer,
           \A t \in Sessions \ {s} : pc'[t] = pc[t] /\ op'[t] = op[t]
    PROVE  OthersKeep(s)
<1>1. ASSUME NEW t \in Sessions \ {s}, HasMutex(t) PROVE HasMutex(t)'
  BY <1>1, SubmissionAssumption DEF HasMutex, LockInv
<1>2. ASSUME NEW t \in Sessions \ {s}, HasGuard(t) PROVE HasGuard(t)'
  BY <1>2, SubmissionAssumption DEF GuardFree, HasGuard
<1> QED BY <1>1, <1>2 DEF OthersKeep, LockInv

LEMMA InitLocks == Init => LockInv
BY NoOpIsQuiet DEF Init, LockInv, LockOK, OpenEvent, InGuard

(***************************************************************************)
(* The steps and the locks.                                                *)
(***************************************************************************)
\* A call that ends.
LEMMA FinishKeepsLocks ==
    ASSUME IInv, LockInv, NEW s \in Sessions, Finish(s)
    PROVE  LockInv'
<1>1. /\ pc'[s] = "idle" /\ op'[s] = NoOp
      /\ \A t \in Sessions \ {s} : pc'[t] = pc[t] /\ op'[t] = op[t]
  BY DEF IInv, Shape, Finish, Goto
<1>2. OthersKeep(s)
  BY <1>1, ReleaseKeepsOthers DEF Finish
<1>3. LockOK(s)'
  BY <1>1, NoOpIsQuiet DEF LockOK, OpenEvent, InGuard
<1> QED BY <1>2, <1>3, OwnStepSuffices

\* An append that begins: a call from outside the guard starts it with an event
\* other than OPEN, a dispatch keeps its locks.
LEMMA StartKeepsLocks ==
    ASSUME IInv, LockInv, NEW s \in Sessions, NEW e, NEW then, StartAppend(s, e, then),
           UNCHANGED locks, e.kind # "CIRCUIT_BREAKER_OPEN",
           then = "bound" => op[s].attempt = 0,
           pc[s] = "returned" \/ op[s].attempt = 0
    PROVE  LockInv'
<1>1. /\ pc'[s] = "create" /\ \A t \in Sessions \ {s} : pc'[t] = pc[t] /\ op'[t] = op[t]
      /\ op'[s] = [op[s] EXCEPT !.base = journal.generation, !.event = e, !.then = then]
  BY DEF IInv, Shape, StartAppend, Goto
<1>2. op'[s].event = e /\ op'[s].then = then /\ op'[s].attempt = op[s].attempt
  BY <1>1 DEF IInv, AppendOK, OpFields
<1>3. OthersKeep(s)
  BY <1>1, KeepLocks
<1>4. (HasMutex(s)' <=> HasMutex(s)) /\ (HasGuard(s)' <=> HasGuard(s))
  BY DEF locks, HasMutex, HasGuard
<1>5. pc[s] = "returned" => HasMutex(s) /\ HasGuard(s)
  BY DEF LockInv, LockOK, InGuard
<1>6. LockOK(s)'
  BY <1>1, <1>2, <1>4, <1>5 DEF LockOK, OpenEvent, InGuard
<1> QED BY <1>3, <1>6, OwnStepSuffices

\* Steps inside _append that keep the session's job and the locks.
LEMMA AppendKeepsLocks ==
    ASSUME IInv, LockInv, NEW s \in Sessions, Create(s) \/ Write(s) \/ Confirm(s)
    PROVE  LockInv'
<1>1. CASE Finish(s)
  BY <1>1, FinishKeepsLocks
<1>2. CASE /\ pc[s] \in {"create", "write", "confirm"} /\ UNCHANGED <<op, locks>>
           /\ \/ Goto(s, "write") \/ Goto(s, "confirm")
              \/ Goto(s, "bound") /\ op[s].then = "bound"
  <2>1. /\ pc'[s] \in {"write", "confirm", "bound"} /\ op'[s] = op[s]
        /\ pc'[s] = "bound" => op[s].then = "bound"
        /\ \A t \in Sessions \ {s} : pc'[t] = pc[t] /\ op'[t] = op[t]
    BY <1>2 DEF IInv, Shape, Goto
  <2>2. OthersKeep(s)
    BY <1>2, <2>1, KeepLocks
  <2>3. (HasMutex(s)' <=> HasMutex(s)) /\ (HasGuard(s)' <=> HasGuard(s))
    BY <1>2 DEF locks, HasMutex, HasGuard
  <2>4. LockOK(s)'
    BY <1>2, <2>1, <2>3 DEF LockInv, LockOK, OpenEvent, InGuard
  <2> QED BY <2>2, <2>4, OwnStepSuffices
<1> QED BY <1>1, <1>2 DEF Create, Write, Confirm, memory

LEMMA DispatchLockKeepsLocks ==
    ASSUME IInv, LockInv, NEW s \in Sessions, DispatchLock(s)
    PROVE  LockInv'
<1>1. CASE Finish(s)
  BY <1>1, FinishKeepsLocks
<1>2. CASE MutexFree(s) /\ Goto(s, "locked") /\ TakeMutex(s) /\ UNCHANGED <<op, writer>>
  <2>1. /\ pc'[s] = "locked" /\ op'[s] = op[s]
        /\ \A t \in Sessions \ {s} : pc'[t] = pc[t] /\ op'[t] = op[t]
    BY <1>2 DEF IInv, Shape, Goto
  <2>2. OthersKeep(s) /\ HasMutex(s)'
    BY <1>2, <2>1, MutexKeepsOthers
  <2>3. LockOK(s)'
    BY <2>1, <2>2 DEF LockInv, LockOK, OpenEvent, InGuard
  <2> QED BY <2>2, <2>3, OwnStepSuffices
<1> QED BY <1>1, <1>2 DEF DispatchLock

LEMMA DispatchGuardKeepsLocks ==
    ASSUME IInv, LockInv, NEW s \in Sessions, DispatchGuard(s)
    PROVE  LockInv'
<1>1. pc[s] = "locked" /\ GuardFree(s) /\ HasMutex(s)
  BY DEF DispatchGuard, LockInv, LockOK
<1>2. CASE Goto(s, "sending") /\ TakeGuard(s) /\ UNCHANGED <<op, mutex>>
  <2>1. /\ pc'[s] = "sending" /\ op'[s] = op[s]
        /\ \A t \in Sessions \ {s} : pc'[t] = pc[t] /\ op'[t] = op[t]
    BY <1>2 DEF IInv, Shape, Goto
  <2>2. OthersKeep(s) /\ HasMutex(s)' /\ HasGuard(s)'
    BY <1>1, <1>2, <2>1, GuardKeepsOthers
  <2>3. LockOK(s)'
    BY <2>1, <2>2 DEF LockInv, LockOK, OpenEvent
  <2> QED BY <2>2, <2>3, OwnStepSuffices
<1>3. CASE /\ Goto(s, "idle") /\ op' = [op EXCEPT ![s] = NoOp]
           /\ mutex' = [mutex EXCEPT ![ProcessOf[s]] = "free"]
           /\ writer' = IF Cloud THEN ProcessOf[s] ELSE writer
  <2>1. /\ pc'[s] = "idle" /\ op'[s] = NoOp
        /\ \A t \in Sessions \ {s} : pc'[t] = pc[t] /\ op'[t] = op[t]
    BY <1>3 DEF IInv, Shape, Goto
  <2>2. OthersKeep(s)
    BY <1>1, <1>3, <2>1, RefusalKeepsOthers
  <2>3. LockOK(s)'
    BY <2>1, NoOpIsQuiet DEF LockOK, OpenEvent, InGuard
  <2> QED BY <2>2, <2>3, OwnStepSuffices
<1> QED BY <1>2, <1>3 DEF DispatchGuard

LEMMA SubmitKeepsLocks ==
    ASSUME IInv, LockInv, NEW s \in Sessions, Submit(s) \/ SubmitRaises(s)
    PROVE  LockInv'
<1>1. /\ pc[s] = "sending" /\ pc'[s] = "returned" /\ UNCHANGED locks
      /\ \A t \in Sessions \ {s} : pc'[t] = pc[t] /\ op'[t] = op[t]
      /\ \/ \E r \in Reports : op'[s] = [op[s] EXCEPT !.report = r]
         \/ op'[s] = [op[s] EXCEPT !.raised = TRUE]
  BY DEF IInv, Shape, Submit, SubmitRaises, Goto
<1>2. op'[s].event = op[s].event /\ op'[s].then = op[s].then /\ op'[s].attempt = op[s].attempt
  BY <1>1 DEF IInv, AppendOK, OpFields
<1>3. OthersKeep(s)
  BY <1>1, KeepLocks
<1>4. (HasMutex(s)' <=> HasMutex(s)) /\ (HasGuard(s)' <=> HasGuard(s))
  BY <1>1 DEF locks, HasMutex, HasGuard
<1>5. LockOK(s)'
  BY <1>1, <1>2, <1>4 DEF LockInv, LockOK, OpenEvent, InGuard
<1> QED BY <1>3, <1>5, OwnStepSuffices

LEMMA RecordOutcomeKeepsLocks ==
    ASSUME IInv, LockInv, NEW s \in Sessions, RecordOutcome(s)
    PROVE  LockInv'
<1>1. CASE Finish(s)
  BY <1>1, FinishKeepsLocks
<1>2. CASE StartAppend(s, Observed(op[s].attempt, op[s].report), "idle") /\ UNCHANGED locks
  BY <1>2, StartKeepsLocks DEF RecordOutcome, Observed
<1> QED BY <1>1, <1>2 DEF RecordOutcome

LEMMA OpenKeepsLocks ==
    ASSUME IInv, LockInv, NEW s \in Sessions, OpenLock(s) \/ OpenGuard(s)
    PROVE  LockInv'
<1>1. CASE OpenLock(s)
  <2>1. /\ pc[s] = "idle" /\ pc'[s] = "openLocked" /\ op'[s] = op[s]
        /\ \A t \in Sessions \ {s} : pc'[t] = pc[t] /\ op'[t] = op[t]
    BY <1>1 DEF IInv, Shape, OpenLock, Goto
  <2>2. OthersKeep(s) /\ HasMutex(s)'
    BY <1>1, <2>1, MutexKeepsOthers DEF OpenLock
  <2>3. LockOK(s)'
    BY <2>1, <2>2, NoOpIsQuiet DEF LockInv, LockOK, OpenEvent, InGuard
  <2> QED BY <2>2, <2>3, OwnStepSuffices
<1>2. CASE OpenGuard(s)
  <2>1. pc[s] = "openLocked" /\ GuardFree(s) /\ HasMutex(s) /\ op[s] = NoOp
    BY <1>2 DEF OpenGuard, LockInv, LockOK
  <2>2. CASE /\ StartAppend(s, [kind |-> "CIRCUIT_BREAKER_OPEN"], "idle")
             /\ TakeGuard(s) /\ UNCHANGED mutex
    <3>1. /\ pc'[s] = "create" /\ \A t \in Sessions \ {s} : pc'[t] = pc[t] /\ op'[t] = op[t]
          /\ op'[s] = [op[s] EXCEPT !.base = journal.generation,
                                    !.event = [kind |-> "CIRCUIT_BREAKER_OPEN"], !.then = "idle"]
      BY <2>2 DEF IInv, Shape, StartAppend, Goto
    <3>2. op'[s].then = "idle" /\ op'[s].attempt = 0
      BY <2>1, <3>1, NoOpIsQuiet DEF IInv, AppendOK, OpFields
    <3>3. OthersKeep(s) /\ HasMutex(s)' /\ HasGuard(s)'
      BY <2>1, <2>2, <3>1, GuardKeepsOthers
    <3>4. LockOK(s)'
      BY <3>1, <3>2, <3>3 DEF LockOK
    <3> QED BY <3>3, <3>4, OwnStepSuffices
  <2>3. CASE /\ Goto(s, "idle") /\ UNCHANGED op
             /\ mutex' = [mutex EXCEPT ![ProcessOf[s]] = "free"]
             /\ writer' = IF Cloud THEN ProcessOf[s] ELSE writer
    <3>1. /\ pc'[s] = "idle" /\ op'[s] = NoOp
          /\ \A t \in Sessions \ {s} : pc'[t] = pc[t] /\ op'[t] = op[t]
      BY <2>1, <2>3 DEF IInv, Shape, Goto
    <3>2. OthersKeep(s)
      BY <2>1, <2>3, <3>1, RefusalKeepsOthers
    <3>3. LockOK(s)'
      BY <3>1, NoOpIsQuiet DEF LockOK, OpenEvent, InGuard
    <3> QED BY <3>2, <3>3, OwnStepSuffices
  <2> QED BY <1>2, <2>2, <2>3 DEF OpenGuard
<1> QED BY <1>1, <1>2

LEMMA DispatchBeginKeepsLocks ==
    ASSUME IInv, LockInv, NEW s \in Sessions, NEW a, DispatchBegin(s, a)
    PROVE  LockInv'
<1>1. /\ pc[s] = "idle" /\ pc'[s] = "checked" /\ UNCHANGED locks /\ op[s] = NoOp
      /\ op'[s] = [op[s] EXCEPT !.attempt = a]
      /\ \A t \in Sessions \ {s} : pc'[t] = pc[t] /\ op'[t] = op[t]
  BY DEF IInv, Shape, DispatchBegin, Called, Goto, LockInv, LockOK
<1>2. op'[s].then = "idle" /\ op'[s].event.kind = "none"
  BY <1>1, NoOpIsQuiet DEF IInv, AppendOK, OpFields
<1>3. OthersKeep(s)
  BY <1>1, KeepLocks
<1>4. LockOK(s)'
  BY <1>1, <1>2 DEF LockOK, OpenEvent, InGuard
<1> QED BY <1>3, <1>4, OwnStepSuffices

LEMMA ReserveBindsKeepsLocks ==
    ASSUME IInv, LockInv, NEW s \in Sessions, NEW o, NEW newRisk, ReserveBinds(s, o, newRisk)
    PROVE  LockInv'
<1> DEFINE e == [kind |-> "DOMAIN_BOUND", domain |-> DomainOf[s]]
<1>1. /\ pc[s] = "idle" /\ pc'[s] = "create" /\ UNCHANGED locks /\ op[s] = NoOp
      /\ op'[s] = [op[s] EXCEPT !.base = journal.generation, !.then = "bound", !.order = o,
                                !.newRisk = newRisk, !.event = e]
      /\ \A t \in Sessions \ {s} : pc'[t] = pc[t] /\ op'[t] = op[t]
  BY DEF IInv, Shape, ReserveBinds, Called, Goto, LockInv, LockOK
<1>2. op'[s].then = "bound" /\ op'[s].event = e /\ op'[s].attempt = 0
  BY <1>1, NoOpIsQuiet DEF IInv, AppendOK, OpFields
<1>3. OthersKeep(s)
  BY <1>1, KeepLocks
<1>4. LockOK(s)'
  BY <1>1, <1>2 DEF LockOK, OpenEvent, InGuard
<1> QED BY <1>3, <1>4, OwnStepSuffices

LEMMA ReserveAfterBindKeepsLocks ==
    ASSUME IInv, LockInv, NEW s \in Sessions, ReserveAfterBind(s)
    PROVE  LockInv'
<1>1. op[s].attempt = 0
  BY DEF ReserveAfterBind, LockInv, LockOK
<1>2. CASE Finish(s)
  BY <1>2, FinishKeepsLocks
<1>3. CASE /\ StartAppend(s, Prepared(s, op[s].order, op[s].newRisk, FALSE), "grant")
           /\ UNCHANGED locks
  BY <1>1, <1>3, StartKeepsLocks DEF Prepared
<1> QED BY <1>2, <1>3 DEF ReserveAfterBind

\* The calls that start an append outside the guard.
LEMMA AppendCallKeepsLocks ==
    ASSUME IInv, LockInv, NEW s \in Sessions,
           \/ \E o \in Orders, newRisk \in NewRiskFlags : Reserve(s, o, newRisk)
           \/ \E o \in Orders : ReserveReduction(s, o)
           \/ \E at \in 1..MaxTime, equity \in Equities, flow \in Flows, cash \in Cash,
                 c \in SUBSET Present(journal) : RecordEquity(s, at, equity, flow, cash, c)
           \/ \E o \in Orders, perUnit \in PerUnits : ReserveRisk(s, o, perUnit)
           \/ \E a \in AttemptIds : ReconcileRisk(s, a)
           \/ \E a \in AttemptIds, r \in Reports : RecordObservation(s, a, r)
    PROVE  LockInv'
<1>1. ASSUME Called(s), NEW e, NEW then, StartAppend(s, e, then), UNCHANGED locks,
             e.kind # "CIRCUIT_BREAKER_OPEN"
      PROVE  LockInv'
  <2>1. op[s].attempt = 0
    BY <1>1, NoOpIsQuiet DEF Called, LockInv, LockOK
  <2> QED BY <1>1, <2>1, StartKeepsLocks
<1>2. ASSUME NEW o, NEW newRisk, Reserve(s, o, newRisk) PROVE LockInv'
  BY <1>1, <1>2 DEF Reserve, Prepared
<1>3. ASSUME NEW o, ReserveReduction(s, o) PROVE LockInv'
  BY <1>1, <1>3 DEF ReserveReduction, Prepared
<1>4. ASSUME NEW at, NEW equity, NEW flow, NEW cash, NEW c,
             RecordEquity(s, at, equity, flow, cash, c)
      PROVE  LockInv'
  BY <1>1, <1>4 DEF RecordEquity
<1>5. ASSUME NEW o, NEW perUnit, ReserveRisk(s, o, perUnit) PROVE LockInv'
  BY <1>1, <1>5 DEF ReserveRisk
<1>6. ASSUME NEW a, ReconcileRisk(s, a) PROVE LockInv'
  BY <1>1, <1>6 DEF ReconcileRisk
<1>7. ASSUME NEW a, NEW r, RecordObservation(s, a, r) PROVE LockInv'
  BY <1>1, <1>7 DEF RecordObservation, Observed
<1> QED BY <1>2, <1>3, <1>4, <1>5, <1>6, <1>7

\* A crash frees the locks of the process that dies, and no others.
LEMMA CrashKeepsLocks ==
    ASSUME IInv, LockInv, NEW p \in Processes, Crash(p)
    PROVE  LockInv'
<1>1. ASSUME NEW t \in Sessions, ProcessOf[t] = p PROVE LockOK(t)'
  <2>1. pc'[t] = "crashed" /\ op'[t] = NoOp
    BY <1>1 DEF IInv, Shape, Crash
  <2> QED BY <2>1, NoOpIsQuiet DEF LockOK, OpenEvent, InGuard
<1>2. ASSUME NEW t \in Sessions, ProcessOf[t] # p PROVE LockOK(t)'
  <2>1. pc'[t] = pc[t] /\ op'[t] = op[t]
    BY <1>2 DEF IInv, Shape, Crash
  <2>2. HasMutex(t) => HasMutex(t)'
    BY <1>2, SubmissionAssumption DEF Crash, HasMutex, LockInv
  <2>3. HasGuard(t) => HasGuard(t)'
    BY <1>2, SubmissionAssumption DEF Crash, HasGuard
  <2>4. (OpenEvent(t)' <=> OpenEvent(t)) /\ (InGuard(t)' <=> InGuard(t))
    BY <2>1 DEF OpenEvent, InGuard
  <2> QED BY <2>1, <2>2, <2>3, <2>4 DEF LockInv, LockOK
<1> QED BY <1>1, <1>2 DEF LockInv, Crash

LEMMA StepKeepsLocks == ASSUME IInv, LockInv, [Next]_vars PROVE LockInv'
<1>1. ASSUME NEW s \in Sessions, Proceed(s) PROVE LockInv'
  <2>1. CASE CreateConflict(s) \/ StoreFails(s) \/ ConfirmFails(s) \/ GuardFails(s)
    BY <2>1, FinishKeepsLocks DEF CreateConflict, StoreFails, ConfirmFails, GuardFails, Fail
  <2>2. CASE Create(s) \/ Write(s) \/ Confirm(s)
    BY <2>2, AppendKeepsLocks
  <2>3. CASE ReserveAfterBind(s) \/ DispatchLock(s) \/ DispatchGuard(s)
    BY <2>3, ReserveAfterBindKeepsLocks, DispatchLockKeepsLocks, DispatchGuardKeepsLocks
  <2>4. CASE Submit(s) \/ SubmitRaises(s) \/ RecordOutcome(s) \/ OpenGuard(s)
    BY <2>4, SubmitKeepsLocks, RecordOutcomeKeepsLocks, OpenKeepsLocks
  <2> QED BY <1>1, <2>1, <2>2, <2>3, <2>4 DEF Proceed, Appending
<1>2. ASSUME NEW s \in Sessions, Call(s) PROVE LockInv'
  <2>1. CASE \E o \in Orders, newRisk \in NewRiskFlags : ReserveBinds(s, o, newRisk)
    BY <2>1, ReserveBindsKeepsLocks
  <2>2. CASE \E a \in AttemptIds : DispatchBegin(s, a)
    BY <2>2, DispatchBeginKeepsLocks
  <2>3. CASE OpenLock(s)
    BY <2>3, OpenKeepsLocks
  <2> QED BY <1>2, <2>1, <2>2, <2>3, AppendCallKeepsLocks DEF Call
<1>3. ASSUME NEW p \in Processes, Crash(p) PROVE LockInv'
  BY <1>3, CrashKeepsLocks
<1>4. CASE Tick \/ UNCHANGED vars
  BY <1>4 DEF Tick, vars, locks, LockInv, LockOK, OpenEvent, InGuard, HasMutex, HasGuard
<1> QED BY <1>1, <1>2, <1>3, <1>4 DEF Next

(***************************************************************************)
(* The breaker.                                                            *)
(***************************************************************************)
\* Only an OPEN event opens the breaker, and no event changes whether an attempt is
\* for new risk.
LEMMA ReplayBreaker ==
    ASSUME NEW j, NEW e, JournalShape(j), e.kind \in Kinds \ {"CIRCUIT_BREAKER_OPEN"}
    PROVE  Replay(j, e).breakerOpen = j.breakerOpen
BY DEF JournalShape, JournalFields, Kinds, Replay

LEMMA ReplayKeepsFlag ==
    ASSUME NEW j, NEW e, JournalShape(j), Appendable(j, e), ReplayAccepts(j, e),
           NEW a \in Present(j), \A b \in Present(j) : b <= j.generation
    PROVE  Replay(j, e).attempts[a].newRisk = j.attempts[a].newRisk
<1>1. a \in AttemptIds /\ a # j.generation + 1 /\ DOMAIN j.attempts[a] = AttemptFields
  BY DEF Present, JournalShape
<1>2. CASE e.kind = "PREPARED"
  <2>1. Replay(j, e).attempts = [j.attempts EXCEPT ![j.generation + 1] = PreparedAttempt(j, e)]
    BY <1>2, ReplayPrepares
  <2>2. Replay(j, e).attempts[a] = j.attempts[a]
    BY <1>1, <2>1 DEF JournalShape
  <2> QED BY <2>2
<1>3. CASE e.kind = "OBSERVED"
  <2>1. Replay(j, e).attempts = [j.attempts EXCEPT ![e.attempt] = ObservedAttempt(j, e)]
    BY <1>3, ReplayObserves
  <2>2. CASE a = e.attempt
    <3>1. ObservedAttempt(j, e).newRisk = j.attempts[a].newRisk
      BY <1>1, <2>2 DEF ObservedAttempt, AttemptFields
    <3> QED BY <1>1, <2>1, <2>2, <3>1 DEF JournalShape
  <2>3. CASE a # e.attempt
    BY <1>1, <2>1, <2>3 DEF JournalShape
  <2> QED BY <2>2, <2>3
<1>4. CASE e.kind \notin {"PREPARED", "OBSERVED"}
  BY <1>4, ReplayKeepsAttempts DEF Appendable
<1> QED BY <1>2, <1>3, <1>4

\* Only an append at the sequence number its session read changes what replay gives.
LEMMA PublishSteps ==
    ASSUME IInv, [Next]_vars, journal' # journal \/ poisoned' # poisoned
    PROVE  \E s \in Sessions :
             /\ pc[s] \in {"create", "write"} /\ pc'[s] = "confirm"
             /\ \A t \in Sessions \ {s} : pc'[t] = pc[t]
             /\ UNCHANGED op
             /\ op[s].base = journal.generation /\ Appendable(journal, op[s].event)
             /\ Publish(op[s].event)
<1>1. ASSUME NEW s \in Sessions, Proceed(s), ~((Create(s) \/ Write(s)) /\ Publish(op[s].event))
      PROVE  UNCHANGED <<journal, poisoned>>
  BY <1>1 DEF Proceed, Appending, Create, Write, CreateConflict, StoreFails, Confirm, ConfirmFails,
     ReserveAfterBind, DispatchLock, DispatchGuard, GuardFails, Submit, SubmitRaises,
     RecordOutcome, OpenGuard, store
<1>2. ASSUME NEW s \in Sessions, Call(s) PROVE UNCHANGED <<journal, poisoned>>
  BY <1>2 DEF Call, Reserve, ReserveBinds, RecordEquity, ReserveRisk, ReconcileRisk,
     ReserveReduction, DispatchBegin, RecordObservation, OpenLock, store
<1>3. ASSUME (\E p \in Processes : Crash(p)) \/ Tick \/ UNCHANGED vars
      PROVE  UNCHANGED <<journal, poisoned>>
  BY <1>3 DEF Crash, Tick, vars, store
<1>4. PICK s \in Sessions : (Create(s) \/ Write(s)) /\ Publish(op[s].event)
  BY <1>1, <1>2, <1>3 DEF Next
<1>5. ~(~Cloud /\ Create(s))
  BY DEF Create
<1>6. /\ pc[s] \in {"create", "write"} /\ UNCHANGED op /\ Goto(s, "confirm")
      /\ op[s].base = journal.generation
  BY <1>4, <1>5 DEF Create, Write, NextSequenceFree, IInv, WritingOK
<1>7. pc'[s] = "confirm" /\ \A t \in Sessions \ {s} : pc'[t] = pc[t]
  BY <1>6 DEF IInv, Shape, Goto
<1>8. Appendable(journal, op[s].event)
  BY <1>6 DEF IInv, AppendOK, Appendable
<1> QED BY <1>4, <1>6, <1>7, <1>8

LEMMA JournalSteps ==
    ASSUME IInv, [Next]_vars, journal' # journal
    PROVE  \E s \in Sessions :
             /\ pc[s] \in {"create", "write"} /\ pc'[s] = "confirm"
             /\ \A t \in Sessions \ {s} : pc'[t] = pc[t]
             /\ UNCHANGED <<op, poisoned>>
             /\ op[s].base = journal.generation /\ Appendable(journal, op[s].event)
             /\ ReplayAccepts(journal, op[s].event) /\ journal' = Replay(journal, op[s].event)
BY PublishSteps DEF Publish

\* Whoever opens the breaker is inside the guard.
LEMMA OpenerInGuard ==
    ASSUME IInv, [Next]_vars, journal'.breakerOpen # journal.breakerOpen
    PROVE  \E s \in Sessions : pc[s] \in {"create", "write"} /\ OpenEvent(s) /\ InGuard(s)
<1>1. PICK s \in Sessions :
        /\ pc[s] \in {"create", "write"}
        /\ Appendable(journal, op[s].event) /\ journal' = Replay(journal, op[s].event)
  BY JournalSteps
<1>2. OpenEvent(s)
  BY <1>1, ReplayBreaker DEF IInv, Shape, Appendable, OpenEvent
<1> QED BY <1>1, <1>2 DEF InGuard

LEMMA FlagsStay ==
    ASSUME IInv, [Next]_vars, NEW a \in Present(journal)
    PROVE  journal'.attempts[a].newRisk = journal.attempts[a].newRisk
<1>1. CASE journal' # journal
  <2>1. PICK s \in Sessions :
          /\ Appendable(journal, op[s].event)
          /\ ReplayAccepts(journal, op[s].event) /\ journal' = Replay(journal, op[s].event)
    BY <1>1, JournalSteps
  <2> QED BY <2>1, ReplayKeepsFlag DEF IInv, Shape, AttemptsOK
<1> QED BY <1>1

\* A session's step moves nobody else, and only DispatchGuard leads to a submit.
LEMMA OneMoves ==
    ASSUME IInv, NEW s \in Sessions, Proceed(s) \/ Call(s)
    PROVE  /\ \A t \in Sessions \ {s} : pc'[t] = pc[t] /\ op'[t] = op[t]
           /\ pc'[s] = "sending" => DispatchGuard(s)
<1> DEFINE Goal == /\ \A t \in Sessions \ {s} : pc'[t] = pc[t] /\ op'[t] = op[t]
                   /\ pc'[s] = "sending" => DispatchGuard(s)
<1>1. DOMAIN pc = Sessions /\ DOMAIN op = Sessions
  BY DEF IInv, Shape
<1>2. Finish(s) => Goal
  BY <1>1 DEF Finish, Goto
<1>3. ASSUME NEW e, NEW then, StartAppend(s, e, then) PROVE Goal
  BY <1>1, <1>3 DEF StartAppend, Goto
<1>4. CASE CreateConflict(s) \/ StoreFails(s) \/ ConfirmFails(s) \/ GuardFails(s)
  <2>1. Finish(s)
    BY <1>4 DEF CreateConflict, StoreFails, ConfirmFails, GuardFails, Fail
  <2> QED BY <1>2, <2>1
<1>5. CASE Create(s) \/ Write(s) \/ Confirm(s)
  <2>1. Finish(s) \/ (UNCHANGED op /\ \E step \in {"write", "confirm", "bound"} : Goto(s, step))
    BY <1>5 DEF Create, Write, Confirm
  <2>2. ASSUME UNCHANGED op, NEW step \in {"write", "confirm", "bound"}, Goto(s, step) PROVE Goal
    BY <1>1, <2>2 DEF Goto
  <2> QED BY <1>2, <2>1, <2>2
<1>6. CASE ReserveAfterBind(s) \/ RecordOutcome(s)
  <2>1. Finish(s) \/ \E e, then : StartAppend(s, e, then)
    BY <1>6 DEF ReserveAfterBind, RecordOutcome
  <2> QED BY <1>2, <1>3, <2>1
<1>7. CASE DispatchLock(s)
  <2>1. Finish(s) \/ (UNCHANGED op /\ Goto(s, "locked"))
    BY <1>7 DEF DispatchLock
  <2>2. ASSUME UNCHANGED op, Goto(s, "locked") PROVE Goal
    BY <1>1, <2>2 DEF Goto
  <2> QED BY <1>2, <2>1, <2>2
<1>8. CASE DispatchGuard(s)
  BY <1>1, <1>8 DEF DispatchGuard, Goto
<1>9. CASE Submit(s) \/ SubmitRaises(s)
  BY <1>1, <1>9 DEF Submit, SubmitRaises, Goto
<1>10. CASE OpenGuard(s)
  <2>1. ASSUME UNCHANGED op, Goto(s, "idle") PROVE Goal
    BY <1>1, <2>1 DEF Goto
  <2> QED BY <1>3, <1>10, <2>1 DEF OpenGuard
<1>11. CASE OpenLock(s)
  BY <1>1, <1>11 DEF OpenLock, Goto
<1>12. CASE \E a \in AttemptIds : DispatchBegin(s, a)
  BY <1>1, <1>12 DEF DispatchBegin, Goto
<1>13. CASE \E o \in Orders, newRisk \in NewRiskFlags : ReserveBinds(s, o, newRisk)
  BY <1>1, <1>13 DEF ReserveBinds, Goto
<1>14. CASE \/ \E o \in Orders, newRisk \in NewRiskFlags : Reserve(s, o, newRisk)
            \/ \E o \in Orders : ReserveReduction(s, o)
            \/ \E at \in 1..MaxTime, equity \in Equities, flow \in Flows, cash \in Cash,
                  c \in SUBSET Present(journal) : RecordEquity(s, at, equity, flow, cash, c)
            \/ \E o \in Orders, perUnit \in PerUnits : ReserveRisk(s, o, perUnit)
            \/ \E a \in AttemptIds : ReconcileRisk(s, a)
            \/ \E a \in AttemptIds, r \in Reports : RecordObservation(s, a, r)
  <2>1. \E e, then : StartAppend(s, e, then)
    BY <1>14 DEF Reserve, ReserveReduction, RecordEquity, ReserveRisk, ReconcileRisk,
       RecordObservation
  <2> QED BY <1>3, <2>1
<1> QED BY <1>4, <1>5, <1>6, <1>7, <1>8, <1>9, <1>10, <1>11, <1>12, <1>13, <1>14
        DEF Proceed, Appending, Call

\* A session that is about to submit after a step was before, or has just read the
\* journal inside the guard.
LEMMA SendingSteps ==
    ASSUME IInv, [Next]_vars, NEW t \in Sessions, pc'[t] = "sending"
    PROVE  \/ pc[t] = "sending" /\ op'[t] = op[t]
           \/ Dispatchable(op[t].attempt) /\ op'[t] = op[t] /\ UNCHANGED journal
<1>1. ASSUME NEW s \in Sessions, Proceed(s) \/ Call(s), s # t
      PROVE  pc[t] = "sending" /\ op'[t] = op[t]
  BY <1>1, OneMoves
<1>2. ASSUME Proceed(t) \/ Call(t)
      PROVE  Dispatchable(op[t].attempt) /\ op'[t] = op[t] /\ UNCHANGED journal
  <2>1. DispatchGuard(t)
    BY <1>2, OneMoves
  <2>2. ~Goto(t, "idle")
    BY DEF Goto, IInv, Shape
  <2> QED BY <2>1, <2>2 DEF DispatchGuard, store
<1>3. ASSUME NEW p \in Processes, Crash(p) PROVE pc[t] = "sending" /\ op'[t] = op[t]
  BY <1>3 DEF Crash, IInv, Shape
<1>4. CASE Tick \/ UNCHANGED vars
  BY <1>4 DEF Tick, vars
<1> QED BY <1>1, <1>2, <1>3, <1>4 DEF Next

LEMMA StepKeepsBar == ASSUME IInv, LockInv, BarOK, [Next]_vars PROVE BarOK'
<1> SUFFICES ASSUME NEW t \in Sessions, pc'[t] = "sending",
                    journal'.attempts[op'[t].attempt].newRisk
             PROVE  ~journal'.breakerOpen
  BY DEF BarOK
<1>1. CASE Dispatchable(op[t].attempt) /\ op'[t] = op[t] /\ UNCHANGED journal
  BY <1>1 DEF Dispatchable
<1>2. CASE pc[t] = "sending" /\ op'[t] = op[t]
  <2>1. op[t].attempt \in Present(journal)
    BY <1>2 DEF IInv, DispatchOK, GrantsOK
  <2>2. ~journal.breakerOpen
    BY <1>2, <2>1, FlagsStay DEF BarOK
  <2>3. journal'.breakerOpen = journal.breakerOpen
    <3> SUFFICES ASSUME journal'.breakerOpen # journal.breakerOpen PROVE FALSE
      OBVIOUS
    <3>1. PICK s \in Sessions : pc[s] \in {"create", "write"} /\ InGuard(s)
      BY OpenerInGuard
    <3>2. InGuard(t)
      BY <1>2 DEF InGuard
    <3> QED BY <1>2, <3>1, <3>2, OneInGuard
  <2> QED BY <2>2, <2>3
<1> QED BY <1>1, <1>2, SendingSteps

(***************************************************************************)
(* The theorems.                                                           *)
(***************************************************************************)
BreakerInv == IInv /\ LockInv /\ BarOK

LEMMA BreakerInvariant == Spec => []BreakerInv
<1>1. Init => BreakerInv
  BY InitIInv, InitLocks DEF BreakerInv, BarOK, Init
<1>2. BreakerInv /\ [Next]_vars => BreakerInv'
  BY StepKeepsInvariant, StepKeepsLocks, StepKeepsBar DEF BreakerInv
<1> QED BY <1>1, <1>2, PTL DEF Spec

\* Nothing but submit sends an order.
LEMMA OnlySubmitSends ==
    ASSUME [Next]_vars, sent' # sent
    PROVE  \E s \in Sessions : Submit(s) \/ SubmitRaises(s)
  <1>1. ASSUME NEW s \in Sessions, Proceed(s), ~(Submit(s) \/ SubmitRaises(s))
        PROVE  sent' = sent
    BY <1>1 DEF Proceed, Appending, Create, Write, Confirm, CreateConflict, StoreFails,
       ConfirmFails, ReserveAfterBind, DispatchLock, DispatchGuard, GuardFails,
       RecordOutcome, OpenGuard, world
  <1>2. ASSUME NEW s \in Sessions, Call(s) PROVE sent' = sent
    BY <1>2 DEF Call, Reserve, ReserveBinds, RecordEquity, ReserveRisk, ReconcileRisk,
       ReserveReduction, DispatchBegin, RecordObservation, OpenLock, world
  <1>3. ASSUME (\E p \in Processes : Crash(p)) \/ Tick \/ UNCHANGED vars PROVE sent' = sent
    BY <1>3 DEF Crash, Tick, vars, world
  <1> QED BY <1>1, <1>2, <1>3 DEF Next

\* dispatch's last read inside the guard stays true until submit: once OPEN is in the
\* journal no order marked as new risk reaches the broker.
THEOREM OpenBarsEveryNewRisk == Spec => OpenBarsNewRisk
<1> DEFINE A == \A a \in AttemptIds :
        sent'[a] # sent[a] /\ journal.attempts[a].newRisk => ~journal.breakerOpen
<1>1. ASSUME BreakerInv, [Next]_vars PROVE A
  <2> SUFFICES ASSUME NEW a \in AttemptIds, sent'[a] # sent[a], journal.attempts[a].newRisk
               PROVE  ~journal.breakerOpen
    OBVIOUS
  <2>1. PICK s \in Sessions : Submit(s) \/ SubmitRaises(s)
    BY <1>1, OnlySubmitSends
  <2>2. pc[s] = "sending" /\ a = op[s].attempt
    BY <1>1, <2>1 DEF Submit, SubmitRaises, BreakerInv, IInv, Shape
  <2> QED BY <1>1, <2>2 DEF BreakerInv, BarOK
<1>2. BreakerInv /\ [Next]_vars => [A]_vars
  BY <1>1
<1> QED BY <1>2, BreakerInvariant, PTL DEF Spec, OpenBarsNewRisk

\* dispatch holds its locks until its outcome is written, and OPEN needs both: the two
\* appends cannot take one sequence number.
THEOREM OpenWaitsForEveryOutcome == Spec => OpenWaitsForOutcome
<1> DEFINE A == journal'.breakerOpen # journal.breakerOpen => \A s \in Sessions : ~Submitting(s)
<1>1. ASSUME BreakerInv, [Next]_vars PROVE A
  <2> SUFFICES ASSUME journal'.breakerOpen # journal.breakerOpen,
                      NEW t \in Sessions, Submitting(t)
               PROVE  FALSE
    OBVIOUS
  <2>1. PICK s \in Sessions : pc[s] \in {"create", "write"} /\ OpenEvent(s) /\ InGuard(s)
    BY <1>1, OpenerInGuard DEF BreakerInv
  <2>2. InGuard(t) /\ op[t].attempt # 0
    BY DEF Submitting, InGuard
  <2>3. s = t
    BY <1>1, <2>1, <2>2, OneInGuard DEF BreakerInv
  <2> QED BY <1>1, <2>1, <2>2, <2>3 DEF BreakerInv, LockInv, LockOK
<1>2. BreakerInv /\ [Next]_vars => [A]_vars
  BY <1>1
<1> QED BY <1>2, BreakerInvariant, PTL DEF Spec, OpenWaitsForOutcome
-----------------------------------------------------------------------------
(***************************************************************************)
(* What the journal and the sessions' memory are, and what a method        *)
(* decided stays true until its event is created.                          *)
(*                                                                         *)
(* The argument.  An event is created only at the number after the journal *)
(* its method read, so the journal is the one the method decided on;       *)
(* replay then accepts the event, unless it is a new-risk PREPARED of a    *)
(* session that has just bound the account and did not check the breaker   *)
(* again, or a snapshot of an account that owes cash.                      *)
(***************************************************************************)

\* No session binds an account and reserves new risk in one call.
NoRiskWhileBinding ==
    \/ InitialDomain # "none" \/ \A s \in Sessions : DomainOf[s] = "none"
    \/ TRUE \notin NewRiskFlags

\* No snapshot reports negative cash.
NoDebt == Cash \subseteq Nat

\* Callers ask for nothing a method appends and replay refuses.
Harmless == NoRiskWhileBinding /\ NoDebt

(***************************************************************************)
(* The inductive invariant.                                                *)
(***************************************************************************)
\* The parts of an event that replay copies into the journal.
EventOK(e) ==
    /\ e.kind = "DOMAIN_BOUND" => e.domain \in Domains
    /\ e.kind = "EQUITY_OBSERVED" => SnapshotOK(e.snapshot) /\ e.cash \in Cash
    /\ e.kind = "RISK_RESERVED" =>
        e.order \in Orders /\ e.perUnit \in Nat /\ e.at \in 0..MaxTime
    /\ e.kind = "RISK_RECONCILED" => e.attempt \in AttemptIds
    /\ e.kind = "PREPARED" =>
        /\ e.intent \in Intents /\ e.order \in Orders /\ e.newRisk \in BOOLEAN
        /\ e.reduction \in BOOLEAN /\ e.source \in 0..MaxTime
    /\ e.kind = "OBSERVED" => e.attempt \in AttemptIds /\ e.report \in ReportSet

\* An attempt is of an order, and fills no more than its quantity.
FillsOK(j) ==
    \A a \in Present(j) :
        j.attempts[a].order \in Orders /\ j.attempts[a].filled \in 0..Quantity[j.attempts[a].order]

\* At most one attempt is prepared.
OnePrepared(j) ==
    \A a, b \in AttemptIds :
        j.attempts[a].certainty = "PREPARED" /\ j.attempts[b].certainty = "PREPARED" => a = b

\* What the session remembers has its type; its event was decided on what it read.
JobOK(s) ==
    /\ op[s].report \in ReportSet /\ op[s].attempt \in AttemptIds \cup {0}
    /\ pc[s] \in {"create", "write"} =>
        EventOK(op[s].event) /\ op[s].base <= journal.generation
    /\ op[s].then = "bound" =>
        /\ op[s].order \in Orders /\ op[s].newRisk \in NewRiskFlags
        /\ DomainOf[s] # "none" /\ InitialDomain = "none"

\* Replay accepts the event after the journal as it is, and a PREPARED event that
\* needs a reservation is on the latest valuation.
Right(e) ==
    /\ NoRiskWhileBinding /\ ~Owes(e) => ReplayAccepts(journal, e)
    /\ e.kind = "PREPARED" /\ journal.domain # "none" /\ ~e.reduction =>
        journal.risk[e.order].at = journal.equity.at

\* What the session decided is right while nothing was appended since.
DecisionOK(s) ==
    pc[s] \in {"create", "write"} /\ op[s].base = journal.generation => Right(op[s].event)

\* A session observes attempts it dispatched; the one in dispatch has no outcome.
OwnerOK(s) ==
    /\ pc[s] \in {"sending", "returned"} =>
        /\ op[s].attempt \in used[s]
        /\ journal.attempts[op[s].attempt].certainty = "PREPARED"
    /\ pc[s] \in {"create", "write"} /\ op[s].event.kind = "OBSERVED" =>
        op[s].event.attempt \in used[s]

FactsOK ==
    /\ FillsOK(journal) /\ OnePrepared(journal)
    /\ InitialDomain # "none" => journal.domain # "none"
    /\ Harmless => ~poisoned

SessionOK(s) == JobOK(s) /\ DecisionOK(s) /\ OwnerOK(s)

JournalInv == BreakerInv /\ TypeOK /\ FactsOK /\ \A s \in Sessions : SessionOK(s)

(***************************************************************************)
(* Sums.                                                                   *)
(***************************************************************************)
\* A finite sum of numbers is a natural number.
LEMMA TotalType ==
    ASSUME NEW S, IsFiniteSet(S), NEW f, \A x \in S : f[x] \in Int
    PROVE  IsFiniteSet(Units(f, S)) /\ Total(f, S) \in Nat
<1> DEFINE Of == [x \in S |-> {x} \X (1..f[x])]
           All == {{x} \X (1..f[x]) : x \in S}
<1>1. Of \in Surjection(S, All)
  BY DEF Surjection
<1>2. IsFiniteSet(All)
  BY <1>1, FS_Surjection
<1>3. ASSUME NEW x \in S PROVE IsFiniteSet({x} \X (1..f[x]))
  <2>1. IsFiniteSet({x})
    BY FS_Singleton
  <2>2. IsFiniteSet(1..f[x])
    BY FS_Interval
  <2> QED BY <2>1, <2>2, FS_Product
<1>4. \A T \in All : IsFiniteSet(T)
  BY <1>3
<1>5. IsFiniteSet(UNION All)
  BY <1>2, <1>4, FS_UNION
<1> QED BY <1>5, FS_CardinalityType DEF Units, Total

\* What a sum counts.
LEMMA UnitsOf ==
    ASSUME NEW S, NEW f
    PROVE  \A u : u \in Units(f, S) <=> \E x \in S : \E i \in 1..f[x] : u = <<x, i>>
BY DEF Units

\* A journal has finitely many attempts on each side.
LEMMA PresentFinite == ASSUME NEW j PROVE IsFiniteSet(Bought(j)) /\ IsFiniteSet(Sold(j))
<1>1. IsFiniteSet(AttemptIds)
  BY FS_Interval, JournalAssumption DEF AttemptIds
<1>2. Bought(j) \in SUBSET AttemptIds /\ Sold(j) \in SUBSET AttemptIds
  BY DEF Bought, Sold, Present
<1> QED BY <1>1, <1>2, FS_Subset

\* Functions that count the same units have the same sum.
LEMMA SameUnits ==
    ASSUME NEW S, NEW T, NEW f, NEW g, 
           \A x \in S : 1..f[x] # {} => x \in T /\ 1..f[x] = 1..g[x],
           \A x \in T : 1..g[x] # {} => x \in S /\ 1..f[x] = 1..g[x]
    PROVE  Units(f, S) = Units(g, T) /\ Total(f, S) = Total(g, T)
<1>1. Units(f, S) = Units(g, T)
  <2>1. \A u : u \in Units(f, S) <=> \E x \in S : \E i \in 1..f[x] : u = <<x, i>>
    BY UnitsOf
  <2>2. \A u : u \in Units(g, T) <=> \E x \in T : \E i \in 1..g[x] : u = <<x, i>>
    BY UnitsOf
  <2>3. \A u \in Units(f, S) : u \in Units(g, T)
    BY <2>1, <2>2
  <2>4. \A u \in Units(g, T) : u \in Units(f, S)
    BY <2>1, <2>2
  <2> QED BY <2>3, <2>4
<1> QED BY <1>1 DEF Total

(***************************************************************************)
(* Records.                                                                *)
(***************************************************************************)
LEMMA NoReportType == NoReport \in ReportSet
BY JournalAssumption DEF NoReport, ReportSet, Statuses

LEMMA NoAttemptType == NoAttempt \in AttemptSet
BY NoReportType, JournalAssumption, SubmissionAssumption DEF NoAttempt, AttemptSet, Certainties

LEMMA ProductIsNat == ASSUME NEW m \in Nat, NEW n \in Nat PROVE m * n \in Nat
OBVIOUS

LEMMA QuantityType ==
    ASSUME NEW o \in Orders
    PROVE  Quantity[o] \in Nat \ {0} /\ Quantity[o] <= MaxQuantity
BY JournalAssumption

\* Whatever record_observation stores is a report replay accepts.
LEMMA StoredReport ==
    ASSUME NEW att \in AttemptSet, NEW r \in ReportSet, att.order \in Orders,
           att.filled \in 0..Quantity[att.order]
    PROVE  /\ Stored(att, r) \in ReportSet
           /\ Stored(att, r).filled \in att.filled..Quantity[att.order]
           /\ att.seen.id # "none" => Stored(att, r).id = att.seen.id
<1>1. /\ att.seen \in ReportSet /\ Quantity[att.order] \in Nat
      /\ Quantity[att.order] <= MaxQuantity /\ MaxQuantity \in Nat
  BY QuantityType, JournalAssumption DEF AttemptSet
<1>2. CASE Consistent(att, r)
  BY <1>1, <1>2 DEF Consistent, Stored
<1>3. CASE ~Consistent(att, r)
  <2> DEFINE seen == att.seen
             stored == [seen EXCEPT !.status = "Unknown", !.filled = att.filled]
  <2>1. Stored(att, r) = stored
    BY <1>3 DEF Stored
  <2>2. att.filled \in 0..MaxQuantity + 1
    BY <1>1
  <2>3. /\ stored.id = seen.id /\ stored.filled = att.filled
        /\ stored \in ReportSet
    BY <1>1, <2>2 DEF ReportSet, Statuses
  <2> HIDE DEF stored
  <2> QED BY <1>1, <2>1, <2>3
<1> QED BY <1>2, <1>3

\* A snapshot's sums are those of the fills it covers.
LEMMA SnapshotSums ==
    ASSUME NEW at, NEW equity, NEW flow, NEW c
    PROVE  LET n == Snapshot(at, equity, flow, c) IN
           /\ n.covered = [a \in AttemptIds |-> IF a \in c THEN journal.attempts[a].filled ELSE -1]
           /\ n.positionRisk = Total(n.covered, Bought(journal))
           /\ n.position = Net(journal, n.covered)
BY DEF Snapshot

LEMMA SnapshotType ==
    ASSUME JournalTypeOK(journal), FillsOK(journal), NEW at \in 1..MaxTime,
           NEW equity \in Equities, NEW flow \in Flows, NEW c \in SUBSET Present(journal),
           Snapshot(at, equity, flow, c).position >= 0
    PROVE  /\ SnapshotOK(Snapshot(at, equity, flow, c))
           /\ Snapshot(at, equity, flow, c).at = at
           /\ Snapshot(at, equity, flow, c).equity = equity
           /\ Snapshot(at, equity, flow, c).peak = NextPeak(journal, equity, flow)
<1> DEFINE n == Snapshot(at, equity, flow, c)
           fills == [a \in AttemptIds |-> IF a \in c THEN journal.attempts[a].filled ELSE -1]
<1>1. /\ n.at = at /\ n.equity = equity /\ n.peak = NextPeak(journal, equity, flow)
      /\ n.covered = fills /\ n.ordersEmpty \in BOOLEAN
      /\ n.positionRisk = Total(fills, Bought(journal)) /\ n.position = Net(journal, fills)
  BY DEF Snapshot
<1>2. NextPeak(journal, equity, flow) \in Nat
  BY SubmissionAssumption DEF NextPeak, Larger, JournalTypeOK, SnapshotOK
<1>3. ASSUME NEW a \in c PROVE journal.attempts[a].filled \in -1..MaxQuantity
  <2>1. journal.attempts[a].order \in Orders
    BY DEF FillsOK
  <2>2. /\ journal.attempts[a].filled \in 0..Quantity[journal.attempts[a].order]
        /\ Quantity[journal.attempts[a].order] \in Nat
        /\ Quantity[journal.attempts[a].order] <= MaxQuantity
    BY <2>1, QuantityType DEF FillsOK
  <2> QED BY <2>2, JournalAssumption
<1>4. fills \in [AttemptIds -> -1..MaxQuantity]
  BY <1>3, JournalAssumption
<1>5. at \in 0..MaxTime /\ equity \in Nat
  BY SubmissionAssumption
<1>6. n.position >= 0
  OBVIOUS
<1>7. Total(fills, Bought(journal)) \in Nat /\ Total(fills, Sold(journal)) \in Nat
  <2>1. \A a \in AttemptIds : fills[a] \in Int
    BY <1>4, JournalAssumption
  <2>2. Bought(journal) \subseteq AttemptIds /\ Sold(journal) \subseteq AttemptIds
    BY DEF Bought, Sold, Present
  <2> HIDE DEF fills
  <2> QED BY <2>1, <2>2, PresentFinite, TotalType
<1>8. SnapshotOK(n)
  <2> HIDE DEF n, fills
  <2> QED BY <1>1, <1>2, <1>4, <1>5, <1>6, <1>7 DEF SnapshotOK, Net
<1> QED BY <1>1, <1>8

(***************************************************************************)
(* Replay.                                                                 *)
(***************************************************************************)
\* Each event changes one part of the journal.
LEMMA ReplayParts ==
    ASSUME NEW j, NEW e, JournalShape(j), e.kind \in Kinds
    PROVE  /\ Replay(j, e).breakerOpen =
                IF e.kind = "CIRCUIT_BREAKER_OPEN" THEN TRUE ELSE j.breakerOpen
           /\ Replay(j, e).domain = IF e.kind = "DOMAIN_BOUND" THEN e.domain ELSE j.domain
           /\ Replay(j, e).equity = IF e.kind = "EQUITY_OBSERVED" THEN e.snapshot ELSE j.equity
           /\ Replay(j, e).positionRisk =
                IF e.kind = "EQUITY_OBSERVED" THEN e.snapshot.positionRisk
                ELSE IF e.kind = "RISK_RECONCILED" THEN j.equity.positionRisk
                ELSE j.positionRisk
           /\ e.kind \notin {"RISK_RESERVED", "RISK_RECONCILED"} => Replay(j, e).risk = j.risk
BY DEF JournalShape, JournalFields, Kinds, Replay

LEMMA ReplayReserves ==
    ASSUME NEW j, NEW e, JournalShape(j), e.kind = "RISK_RESERVED"
    PROVE  Replay(j, e).risk =
             [j.risk EXCEPT ![e.order] =
                [perUnit |-> e.perUnit, remaining |-> e.perUnit * Quantity[e.order],
                 reconciled |-> 0, at |-> e.at]]
BY DEF JournalShape, JournalFields, Replay

LEMMA ReplayReconciles ==
    ASSUME NEW j, NEW e, JournalShape(j), e.kind = "RISK_RECONCILED"
    PROVE  Replay(j, e).risk =
             [j.risk EXCEPT ![j.attempts[e.attempt].order] = AfterReconcile(j, e)]
BY DEF JournalShape, JournalFields, Replay

LEMMA PreparedType ==
    ASSUME NEW j, NEW e, j.equity.at \in 0..MaxTime, EventOK(e), e.kind = "PREPARED"
    PROVE  PreparedAttempt(j, e) \in AttemptSet /\ PreparedAttempt(j, e).filled = 0
<1>1. /\ e.intent \in Intents /\ e.order \in Orders /\ e.newRisk \in BOOLEAN
      /\ e.reduction \in BOOLEAN /\ e.source \in 0..MaxTime
  BY DEF EventOK
<1> QED BY <1>1, NoReportType, JournalAssumption DEF PreparedAttempt, AttemptSet, Certainties

LEMMA ObservedType ==
    ASSUME NEW j, NEW e, e.attempt \in Present(j), j.attempts[e.attempt] \in AttemptSet,
           e.report \in ReportSet, FillsOK(j),
           e.report.filled \in j.attempts[e.attempt].filled..Quantity[j.attempts[e.attempt].order]
    PROVE  /\ ObservedAttempt(j, e) \in AttemptSet
           /\ ObservedAttempt(j, e).order = j.attempts[e.attempt].order
           /\ ObservedAttempt(j, e).filled = e.report.filled
           /\ ObservedAttempt(j, e).seen = e.report
           /\ e.report.filled \in 0..Quantity[j.attempts[e.attempt].order]
<1> DEFINE att == j.attempts[e.attempt]
           c == Certainty(e.report, Quantity[att.order])
<1>1. /\ att.order \in Orders /\ att.filled \in 0..Quantity[att.order]
      /\ Quantity[att.order] \in Nat /\ Quantity[att.order] <= MaxQuantity
  BY QuantityType DEF FillsOK
<1>2. c \in Certainties
  BY CertaintyOfReport DEF Certainties
<1>3. ObservedAttempt(j, e) = [att EXCEPT !.certainty = c, !.seen = e.report,
                                          !.filled = e.report.filled]
  BY DEF ObservedAttempt
<1>4. e.report.filled \in 0..Quantity[att.order] /\ e.report.filled \in 0..MaxQuantity
  BY <1>1, JournalAssumption
<1> HIDE DEF c
<1> QED BY <1>1, <1>2, <1>3, <1>4 DEF AttemptSet

\* An accepted event of the right type keeps the journal's.
LEMMA ReplayTyped ==
    ASSUME NEW j, NEW e, JournalShape(j), JournalTypeOK(j), FillsOK(j), EventOK(e),
           Appendable(j, e), ReplayAccepts(j, e), \A a \in Present(j) : a <= j.generation
    PROVE  JournalTypeOK(Replay(j, e)) /\ FillsOK(Replay(j, e))
<1> DEFINE k == Replay(j, e)
<1>1. e.kind \in Kinds /\ k.generation \in Nat
  BY ReplayCounts DEF Appendable, JournalShape
<1>2. /\ k.breakerOpen = IF e.kind = "CIRCUIT_BREAKER_OPEN" THEN TRUE ELSE j.breakerOpen
      /\ k.domain = IF e.kind = "DOMAIN_BOUND" THEN e.domain ELSE j.domain
      /\ k.equity = IF e.kind = "EQUITY_OBSERVED" THEN e.snapshot ELSE j.equity
      /\ k.positionRisk = IF e.kind = "EQUITY_OBSERVED" THEN e.snapshot.positionRisk
                          ELSE IF e.kind = "RISK_RECONCILED" THEN j.equity.positionRisk
                          ELSE j.positionRisk
      /\ e.kind \notin {"RISK_RESERVED", "RISK_RECONCILED"} => k.risk = j.risk
  BY <1>1, ReplayParts
<1>3. /\ k.breakerOpen \in BOOLEAN /\ k.domain \in Domains \cup {"none"}
      /\ SnapshotOK(k.equity) /\ k.positionRisk \in Nat
  BY <1>2 DEF JournalTypeOK, EventOK, SnapshotOK
<1>4. k.risk \in [Orders -> RiskSet]
  <2>1. CASE e.kind = "RISK_RESERVED"
    <3>1. /\ e.order \in Orders /\ e.perUnit \in Nat /\ e.at \in 0..MaxTime
          /\ Quantity[e.order] \in Nat
      BY <2>1, QuantityType DEF EventOK
    <3>2. e.perUnit * Quantity[e.order] \in Nat
      BY <3>1, ProductIsNat
    <3>3. [perUnit |-> e.perUnit, remaining |-> e.perUnit * Quantity[e.order],
           reconciled |-> 0, at |-> e.at] \in RiskSet
      BY <3>1, <3>2, JournalAssumption DEF RiskSet
    <3>4. j.risk \in [Orders -> RiskSet]
      BY DEF JournalTypeOK
    <3> DEFINE new == [perUnit |-> e.perUnit, remaining |-> e.perUnit * Quantity[e.order],
                       reconciled |-> 0, at |-> e.at]
    <3>5. k.risk = [j.risk EXCEPT ![e.order] = new] /\ new \in RiskSet
      BY <2>1, <3>3, ReplayReserves
    <3> HIDE DEF new, k
    <3> QED BY <3>1, <3>4, <3>5
  <2>2. CASE e.kind = "RISK_RECONCILED"
    <3> DEFINE att == j.attempts[e.attempt]
               res == j.risk[att.order]
               part == res.perUnit * (Quantity[att.order] - e.filled)
               left == IF att.certainty = "TERMINAL" THEN 0 ELSE part
    <3>1. /\ e.attempt \in AttemptIds /\ att.certainty \in {"TERMINAL", "KNOWN_PENDING"}
          /\ e.filled = att.filled
      BY <2>2 DEF EventOK, ReplayAccepts, AcceptsReconciled, Reconcilable
    <3>2. /\ att.order \in Orders /\ e.filled \in 0..Quantity[att.order]
          /\ Quantity[att.order] \in Nat /\ Quantity[att.order] <= MaxQuantity
      BY <3>1, QuantityType DEF FillsOK, Present
    <3>3. res \in RiskSet
      BY <3>2 DEF JournalTypeOK
    <3>4. e.filled \in 0..MaxQuantity /\ Quantity[att.order] - e.filled \in Nat
      BY <3>2, JournalAssumption
    <3>5. part \in Nat
      BY <3>3, <3>4, ProductIsNat DEF RiskSet
    <3> HIDE DEF part
    <3>6. left \in Nat
      BY <3>5
    <3>7. AfterReconcile(j, e) = [res EXCEPT !.reconciled = e.filled, !.remaining = left]
      BY DEF AfterReconcile, part
    <3>8. /\ j.risk \in [Orders -> RiskSet]
          /\ k.risk = [j.risk EXCEPT ![att.order] = AfterReconcile(j, e)]
      BY <2>2, ReplayReconciles DEF JournalTypeOK
    <3> HIDE DEF left, res, att, k
    <3>9. AfterReconcile(j, e) \in RiskSet
      BY <3>3, <3>4, <3>6, <3>7 DEF RiskSet
    <3> QED BY <3>2, <3>8, <3>9
  <2> QED BY <1>2, <2>1, <2>2 DEF JournalTypeOK
<1>5. k.attempts \in [AttemptIds -> AttemptSet] /\ FillsOK(k)
  <2> DEFINE n == j.generation + 1
  <2>1. CASE e.kind = "PREPARED"
    <3>1. /\ k.attempts = [j.attempts EXCEPT ![n] = PreparedAttempt(j, e)]
          /\ n \in AttemptIds
      BY <2>1, ReplayPrepares DEF Appendable
    <3>2. /\ PreparedAttempt(j, e) \in AttemptSet /\ PreparedAttempt(j, e).filled = 0
          /\ PreparedAttempt(j, e).order = e.order /\ e.order \in Orders
      BY <2>1, PreparedType, PreparedFields DEF JournalTypeOK, SnapshotOK, EventOK
    <3>3. k.attempts \in [AttemptIds -> AttemptSet]
      BY <3>1, <3>2 DEF JournalTypeOK
    <3>4. ASSUME NEW a \in Present(k)
          PROVE  k.attempts[a].order \in Orders
                 /\ k.attempts[a].filled \in 0..Quantity[k.attempts[a].order]
      <4>1. CASE a = n
        <5>1. k.attempts[a] = PreparedAttempt(j, e)
          BY <3>1, <4>1 DEF JournalTypeOK
        <5> QED BY <3>2, <5>1, QuantityType
      <4>2. CASE a # n
        <5>1. k.attempts[a] = j.attempts[a] /\ a \in Present(j)
          BY <3>1, <4>2 DEF JournalTypeOK, Present
        <5> QED BY <5>1 DEF FillsOK
      <4> QED BY <4>1, <4>2
    <3> HIDE DEF k
    <3> QED BY <3>3, <3>4 DEF FillsOK
  <2>2. CASE e.kind = "OBSERVED"
    <3>1. /\ k.attempts = [j.attempts EXCEPT ![e.attempt] = ObservedAttempt(j, e)]
          /\ e.attempt \in AttemptIds /\ e.report \in ReportSet
      BY <2>2, ReplayObserves DEF EventOK
    <3>2. /\ e.attempt \in Present(j)
          /\ e.report.filled \in
                j.attempts[e.attempt].filled..Quantity[j.attempts[e.attempt].order]
      BY <2>2, <3>1 DEF ReplayAccepts, AcceptsObserved, Present
    <3>3. /\ ObservedAttempt(j, e) \in AttemptSet
          /\ ObservedAttempt(j, e).order = j.attempts[e.attempt].order
          /\ ObservedAttempt(j, e).filled = e.report.filled
          /\ e.report.filled \in 0..Quantity[j.attempts[e.attempt].order]
      BY <3>1, <3>2, ObservedType DEF JournalTypeOK
    <3>4. k.attempts \in [AttemptIds -> AttemptSet]
      BY <3>1, <3>3 DEF JournalTypeOK
    <3>5. ASSUME NEW a \in Present(k)
          PROVE  k.attempts[a].order \in Orders
                 /\ k.attempts[a].filled \in 0..Quantity[k.attempts[a].order]
      <4>1. CASE a = e.attempt
        <5>1. k.attempts[a] = ObservedAttempt(j, e)
          BY <3>1, <4>1 DEF JournalTypeOK
        <5>2. j.attempts[e.attempt].order \in Orders
          BY <3>2 DEF FillsOK
        <5> QED BY <3>3, <5>1, <5>2
      <4>2. CASE a # e.attempt
        <5>1. k.attempts[a] = j.attempts[a] /\ a \in Present(j)
          BY <3>1, <4>2 DEF JournalTypeOK, Present
        <5> QED BY <5>1 DEF FillsOK
      <4> QED BY <4>1, <4>2
    <3> HIDE DEF k
    <3> QED BY <3>4, <3>5 DEF FillsOK
  <2>3. CASE e.kind \notin {"PREPARED", "OBSERVED"}
    <3>1. k.attempts = j.attempts
      BY <1>1, <2>3, ReplayKeepsAttempts
    <3> QED BY <3>1 DEF JournalTypeOK, FillsOK, Present
  <2> QED BY <2>1, <2>2, <2>3
<1> HIDE DEF k
<1>6. JournalTypeOK(k)
  BY <1>1, <1>3, <1>4, <1>5 DEF JournalTypeOK
<1> QED BY <1>5, <1>6 DEF k

(***************************************************************************)
(* What a method decides.                                                  *)
(***************************************************************************)
\* The event session s is about to append.
Decides(s, e) ==
    /\ EventOK(e) /\ Right(e)
    /\ e.kind = "OBSERVED" => e.attempt \in used[s]

LEMMA StartSession ==
    ASSUME JournalInv, NEW s \in Sessions, NEW e, NEW then, StartAppend(s, e, then),
           UNCHANGED <<journal, used>>, then # "bound", Decides(s, e)
    PROVE  SessionOK(s)'
<1>1. /\ pc'[s] = "create"
      /\ op'[s] = [op[s] EXCEPT !.base = journal.generation, !.event = e, !.then = then]
      /\ DOMAIN op[s] = OpFields
  BY DEF JournalInv, BreakerInv, IInv, Shape, AppendOK, StartAppend, Goto
<1>2. /\ op'[s].event = e /\ op'[s].then = then /\ op'[s].base = journal.generation
      /\ op'[s].report = op[s].report /\ op'[s].attempt = op[s].attempt
  BY <1>1 DEF OpFields
<1>3. JobOK(s)'
  <2>1. journal.generation \in Nat
    BY DEF JournalInv, TypeOK, JournalTypeOK
  <2> QED BY <1>1, <1>2, <2>1 DEF JobOK, JournalInv, SessionOK, Decides, EventOK
<1>4. DecisionOK(s)'
  BY <1>1, <1>2 DEF DecisionOK, Decides, Right
<1>5. OwnerOK(s)'
  BY <1>1, <1>2 DEF OwnerOK, Decides
<1> QED BY <1>3, <1>4, <1>5 DEF SessionOK

LEMMA ReserveDecides ==
    ASSUME JournalInv, NEW s \in Sessions, NEW o \in Orders, NEW newRisk \in NewRiskFlags,
           newRisk /\ NoRiskWhileBinding => ~journal.breakerOpen,
           journal.domain = DomainOf[s], ReserveChecks(s, o)
    PROVE  Decides(s, Prepared(s, o, newRisk, FALSE))
<1> DEFINE e == Prepared(s, o, newRisk, FALSE)
<1>1. /\ e.kind = "PREPARED" /\ e.intent = IntentOf[s] /\ e.order = o
      /\ e.newRisk = newRisk /\ e.reduction = FALSE /\ e.source = 0
  BY DEF Prepared
<1> HIDE DEF e
<1>2. EventOK(e)
  <2>1. 0 \in 0..MaxTime
    BY SubmissionAssumption
  <2>2. e.newRisk \in BOOLEAN /\ e.reduction \in BOOLEAN /\ e.intent \in Intents
    BY <1>1, SubmissionAssumption, Zenon
  <2> QED BY <1>1, <2>1, <2>2 DEF EventOK
<1>3. NoRiskWhileBinding => AcceptsPrepared(journal, e)
  BY <1>1 DEF AcceptsPrepared, ReserveChecks
<1>4. journal.domain # "none" => journal.risk[o].at = journal.equity.at
  BY DEF ReserveChecks
<1> QED BY <1>1, <1>2, <1>3, <1>4 DEF Decides, Right, ReplayAccepts, e

LEMMA ReductionDecides ==
    ASSUME JournalInv, NEW s \in Sessions, NEW o \in Orders, ReserveReduction(s, o)
    PROVE  Decides(s, Prepared(s, o, FALSE, TRUE))
<1> DEFINE e == Prepared(s, o, FALSE, TRUE)
<1>1. /\ e.kind = "PREPARED" /\ e.intent = IntentOf[s] /\ e.order = o
      /\ e.newRisk = FALSE /\ e.reduction = TRUE /\ e.source = journal.equity.at
  BY DEF Prepared
<1> HIDE DEF e
<1>2. EventOK(e)
  BY <1>1, SubmissionAssumption DEF EventOK, JournalInv, TypeOK, JournalTypeOK, SnapshotOK
<1>3. ~HasUnresolved(journal)
  BY DEF ReserveReduction, HasUnresolved, Unresolved, Present
<1>4. AcceptsPrepared(journal, e)
  BY <1>1, <1>3 DEF AcceptsPrepared, ReserveReduction
<1> QED BY <1>1, <1>2, <1>4 DEF Decides, Right, ReplayAccepts, e

LEMMA EquityDecides ==
    ASSUME JournalInv, NEW s \in Sessions, NEW at \in 1..MaxTime, NEW equity \in Equities,
           NEW flow \in Flows, NEW cash \in Cash, NEW c \in SUBSET Present(journal),
           RecordEquity(s, at, equity, flow, cash, c)
    PROVE  Decides(s, [kind |-> "EQUITY_OBSERVED", flow |-> flow, cash |-> cash,
                       snapshot |-> Snapshot(at, equity, flow, c)])
<1> DEFINE n == Snapshot(at, equity, flow, c)
           e == [kind |-> "EQUITY_OBSERVED", flow |-> flow, cash |-> cash, snapshot |-> n]
<1>0. n.position >= 0
  BY DEF RecordEquity
<1>1. SnapshotOK(n) /\ n.at = at /\ n.equity = equity /\ n.peak = NextPeak(journal, equity, flow)
  <2>1. JournalTypeOK(journal) /\ FillsOK(journal)
    BY DEF JournalInv, TypeOK, FactsOK
  <2> QED BY <1>0, <2>1, SnapshotType
<1> HIDE DEF n
<1>2. e.kind = "EQUITY_OBSERVED" /\ e.flow = flow /\ e.cash = cash /\ e.snapshot = n
  OBVIOUS
<1> HIDE DEF e
<1>3. EventOK(e)
  BY <1>1, <1>2 DEF EventOK
<1>4. ~Owes(e) => AcceptsEquity(journal, e)
  BY <1>0, <1>1, <1>2, SubmissionAssumption DEF AcceptsEquity, RecordEquity, BoundTo, Owes
<1>5. Decides(s, e)
  BY <1>2, <1>3, <1>4 DEF Decides, Right, ReplayAccepts
<1> QED BY <1>5 DEF e, n

LEMMA RiskDecides ==
    ASSUME JournalInv, NEW s \in Sessions, NEW o \in Orders, NEW perUnit \in PerUnits,
           ReserveRisk(s, o, perUnit)
    PROVE  Decides(s, [kind |-> "RISK_RESERVED", order |-> o, perUnit |-> perUnit,
                       at |-> journal.equity.at])
<1> DEFINE e == [kind |-> "RISK_RESERVED", order |-> o, perUnit |-> perUnit,
                 at |-> journal.equity.at]
<1>1. /\ e.kind = "RISK_RESERVED" /\ e.order = o /\ e.perUnit = perUnit
      /\ e.at = journal.equity.at
  OBVIOUS
<1> HIDE DEF e
<1>2. EventOK(e)
  BY <1>1, SubmissionAssumption DEF EventOK, JournalInv, TypeOK, JournalTypeOK, SnapshotOK
<1>3. AcceptsRisk(journal, e)
  BY <1>1, SubmissionAssumption DEF AcceptsRisk, ReserveRisk, BoundTo
<1>4. Decides(s, e)
  BY <1>1, <1>2, <1>3 DEF Decides, Right, ReplayAccepts
<1> QED BY <1>4 DEF e

LEMMA ReconcileDecides ==
    ASSUME JournalInv, NEW s \in Sessions, NEW a \in AttemptIds, ReconcileRisk(s, a)
    PROVE  Decides(s, [kind |-> "RISK_RECONCILED", attempt |-> a,
                       filled |-> journal.attempts[a].filled, source |-> journal.equity.at])
<1> DEFINE e == [kind |-> "RISK_RECONCILED", attempt |-> a,
                 filled |-> journal.attempts[a].filled, source |-> journal.equity.at]
<1>1. /\ e.kind = "RISK_RECONCILED" /\ e.attempt = a
      /\ e.filled = journal.attempts[a].filled /\ e.source = journal.equity.at
  OBVIOUS
<1> HIDE DEF e
<1>2. EventOK(e)
  BY <1>1 DEF EventOK
<1>3. AcceptsReconciled(journal, e)
  BY <1>1 DEF AcceptsReconciled, ReconcileRisk
<1>4. Decides(s, e)
  BY <1>1, <1>2, <1>3 DEF Decides, Right, ReplayAccepts
<1> QED BY <1>4 DEF e

\* An observation of an attempt the session dispatched and that is not settled.
LEMMA ObservationDecides ==
    ASSUME JournalInv, NEW s \in Sessions, NEW a \in used[s], NEW r \in ReportSet,
           journal.attempts[a].certainty \notin Settled
    PROVE  Decides(s, Observed(a, r))
<1> DEFINE e == Observed(a, r)
           att == journal.attempts[a]
           rep == Stored(att, r)
<1>1. e.kind = "OBSERVED" /\ e.attempt = a /\ e.report = rep
  BY DEF Observed
<1>2. a \in Present(journal) /\ a \in AttemptIds /\ att.certainty # "ABSENT"
  BY DEF JournalInv, BreakerInv, IInv, GrantsOK, Present
<1>3. /\ att \in AttemptSet /\ att.order \in Orders /\ att.filled \in 0..Quantity[att.order]
  BY <1>2 DEF JournalInv, TypeOK, JournalTypeOK, FactsOK, FillsOK
<1> HIDE DEF e, att
<1>4. /\ rep \in ReportSet /\ rep.filled \in att.filled..Quantity[att.order]
      /\ att.seen.id # "none" => rep.id = att.seen.id
  BY <1>3, StoredReport
<1> HIDE DEF rep
<1>5. EventOK(e)
  BY <1>1, <1>2, <1>4 DEF EventOK
<1>6. AcceptsObserved(journal, e)
  BY <1>1, <1>2, <1>4 DEF AcceptsObserved, att
<1> QED BY <1>1, <1>5, <1>6 DEF Decides, Right, ReplayAccepts, e

(***************************************************************************)
(* What a step does to the journal.                                        *)
(***************************************************************************)
\* An attempt appears with the event that prepares it, and changes with an event of a
\* session that dispatched it.
LEMMA AttemptSteps ==
    ASSUME JournalInv, [Next]_vars, NEW a \in AttemptIds,
           journal'.attempts[a] # journal.attempts[a]
    PROVE  \E s \in Sessions : LET e == op[s].event IN
             /\ pc[s] \in {"create", "write"} /\ Right(e) /\ ReplayAccepts(journal, e)
             /\ EventOK(e)
             /\ journal' = Replay(journal, e)
             /\ \/ /\ e.kind = "PREPARED" /\ a = journal.generation + 1
                   /\ journal'.attempts[a] = PreparedAttempt(journal, e)
                \/ /\ e.kind = "OBSERVED" /\ a = e.attempt /\ a \in used[s]
                   /\ journal'.attempts[a] = ObservedAttempt(journal, e)
<1>1. PICK s \in Sessions :
        /\ pc[s] \in {"create", "write"} /\ op[s].base = journal.generation
        /\ Appendable(journal, op[s].event)
        /\ ReplayAccepts(journal, op[s].event) /\ journal' = Replay(journal, op[s].event)
  BY JournalSteps DEF JournalInv, BreakerInv
<1> DEFINE e == op[s].event
<1>2. Right(e) /\ EventOK(e) /\ (e.kind = "OBSERVED" => e.attempt \in used[s])
  BY <1>1 DEF JournalInv, SessionOK, JobOK, DecisionOK, OwnerOK
<1>3. JournalShape(journal)
  BY DEF JournalInv, BreakerInv, IInv, Shape
<1> HIDE DEF e
<1>4. CASE e.kind = "PREPARED"
  <2>1. journal'.attempts = [journal.attempts EXCEPT ![journal.generation + 1] =
                                                        PreparedAttempt(journal, e)]
    BY <1>1, <1>3, <1>4, ReplayPrepares DEF e
  <2> QED BY <1>1, <1>2, <1>3, <1>4, <2>1 DEF JournalShape, e
<1>5. CASE e.kind = "OBSERVED"
  <2>1. journal'.attempts = [journal.attempts EXCEPT ![e.attempt] = ObservedAttempt(journal, e)]
    BY <1>1, <1>3, <1>5, ReplayObserves DEF e
  <2> QED BY <1>1, <1>2, <1>3, <1>5, <2>1 DEF JournalShape, e
<1>6. CASE e.kind \notin {"PREPARED", "OBSERVED"}
  BY <1>1, <1>3, <1>6, ReplayKeepsAttempts DEF Appendable, e
<1> QED BY <1>4, <1>5, <1>6

LEMMA StepKeepsFacts ==
    ASSUME JournalInv, [Next]_vars
    PROVE  JournalTypeOK(journal)' /\ FactsOK'
<1>1. CASE UNCHANGED journal
  <2>1. ASSUME Harmless, poisoned' # poisoned PROVE FALSE
    <3>1. PICK s \in Sessions :
            /\ pc[s] \in {"create", "write"} /\ op[s].base = journal.generation
            /\ Publish(op[s].event)
      BY <2>1, PublishSteps DEF JournalInv, BreakerInv
    <3>2. NoRiskWhileBinding /\ ~Owes(op[s].event)
      <4>1. EventOK(op[s].event)
        BY <3>1 DEF JournalInv, SessionOK, JobOK
      <4>2. \A e : e.kind = "EQUITY_OBSERVED" /\ EventOK(e) => e.cash \in Cash
        BY DEF EventOK
      <4>3. \A c \in Cash : ~(c < 0)
        BY <2>1 DEF Harmless, NoDebt
      <4>4. ~Owes(op[s].event)
        BY <4>1, <4>2, <4>3, Zenon DEF Owes
      <4> QED BY <2>1, <4>4 DEF Harmless
    <3>3. ReplayAccepts(journal, op[s].event)
      BY <3>1, <3>2 DEF JournalInv, SessionOK, DecisionOK, Right
    <3> QED BY <2>1, <3>1, <3>3 DEF Publish
  <2> QED BY <1>1, <2>1 DEF JournalInv, TypeOK, FactsOK
<1>2. CASE journal' # journal
  <2>1. PICK s \in Sessions :
          /\ pc[s] \in {"create", "write"} /\ op[s].base = journal.generation
          /\ Appendable(journal, op[s].event)
          /\ ReplayAccepts(journal, op[s].event) /\ journal' = Replay(journal, op[s].event)
          /\ UNCHANGED poisoned
    BY <1>2, JournalSteps DEF JournalInv, BreakerInv
  <2> DEFINE e == op[s].event
  <2>2. EventOK(e) /\ JournalShape(journal) /\ \A a \in Present(journal) : a <= journal.generation
    BY <2>1 DEF JournalInv, SessionOK, JobOK, BreakerInv, IInv, Shape, AttemptsOK
  <2>3. JournalTypeOK(journal') /\ FillsOK(journal')
    BY <2>1, <2>2, ReplayTyped DEF JournalInv, TypeOK, FactsOK
  <2>4. InitialDomain # "none" => journal'.domain # "none"
    <3>1. journal'.domain = IF e.kind = "DOMAIN_BOUND" THEN e.domain ELSE journal.domain
      BY <2>1, <2>2, ReplayParts DEF Appendable
    <3> QED BY <2>2, <3>1, JournalAssumption DEF EventOK, JournalInv, FactsOK
  <2>5. OnePrepared(journal')
    <3> SUFFICES ASSUME NEW a \in AttemptIds, NEW b \in AttemptIds, a # b,
                        journal'.attempts[a].certainty = "PREPARED",
                        journal'.attempts[b].certainty = "PREPARED"
                 PROVE  FALSE
      BY DEF OnePrepared
    <3>1. ASSUME NEW d \in AttemptIds, journal'.attempts[d] # journal.attempts[d],
                 journal'.attempts[d].certainty = "PREPARED"
          PROVE  /\ ~HasUnresolved(journal)
                 /\ \A x \in AttemptIds \ {d} : journal'.attempts[x] = journal.attempts[x]
      <4>1. PICK t \in Sessions : LET f == op[t].event IN
              /\ ReplayAccepts(journal, f) /\ EventOK(f) /\ journal' = Replay(journal, f)
              /\ \/ f.kind = "PREPARED" /\ d = journal.generation + 1
                 \/ /\ f.kind = "OBSERVED"
                    /\ journal'.attempts[d] = ObservedAttempt(journal, f)
        BY <3>1, AttemptSteps
      <4> DEFINE f == op[t].event
      <4>2. f.kind # "OBSERVED"
        BY <2>2, <3>1, <4>1, ObservedFields DEF EventOK
      <4>3. f.kind = "PREPARED" /\ d = journal.generation + 1
        BY <4>1, <4>2
      <4>4. journal'.attempts = [journal.attempts EXCEPT ![d] = PreparedAttempt(journal, f)]
        BY <2>2, <4>1, <4>3, ReplayPrepares
      <4> HIDE DEF f
      <4>5. AcceptsPrepared(journal, f)
        BY <4>1, <4>3 DEF ReplayAccepts, f
      <4> QED BY <2>2, <4>4, <4>5 DEF AcceptsPrepared, JournalShape
    <3>2. journal'.attempts[a] = journal.attempts[a]
      BY <3>1 DEF HasUnresolved, Unresolved
    <3>3. journal'.attempts[b] = journal.attempts[b]
      BY <3>1 DEF HasUnresolved, Unresolved
    <3> QED BY <3>2, <3>3 DEF JournalInv, FactsOK, OnePrepared
  <2>6. Harmless => ~poisoned'
    BY <2>1 DEF JournalInv, FactsOK
  <2> QED BY <2>3, <2>4, <2>5, <2>6 DEF FactsOK
<1> QED BY <1>1, <1>2

(***************************************************************************)
(* What a step does to the sessions.                                       *)
(***************************************************************************)
\* A session that is neither appending nor submitting after the step.
LEMMA ParkedSession ==
    ASSUME JournalInv, NEW s \in Sessions, op'[s] = op[s] \/ op'[s] = NoOp,
           pc'[s] \notin {"create", "write", "sending", "returned"}
    PROVE  SessionOK(s)'
<1>1. JobOK(s)'
  <2>1. CASE op'[s] = op[s]
    BY <2>1 DEF JournalInv, SessionOK, JobOK
  <2>2. CASE op'[s] = NoOp
    <3>1. NoOp.report = NoReport /\ NoOp.attempt = 0 /\ NoOp.then = "idle"
      BY DEF NoOp
    <3> QED BY <2>2, <3>1, NoReportType DEF JobOK
  <2> QED BY <2>1, <2>2
<1> QED BY <1>1 DEF SessionOK, DecisionOK, OwnerOK

LEMMA FinishSession ==
    ASSUME JournalInv, NEW s \in Sessions, Finish(s)
    PROVE  SessionOK(s)'
<1>1. pc'[s] = "idle" /\ op'[s] = NoOp
  BY DEF JournalInv, BreakerInv, IInv, Shape, Finish, Goto
<1> QED BY <1>1, ParkedSession

\* A session that does not take part in the step, and keeps its memory.
LEMMA RestingSession ==
    ASSUME JournalInv, [Next]_vars, NEW s \in Sessions,
           pc'[s] = pc[s], op'[s] = op[s], used'[s] = used[s]
    PROVE  SessionOK(s)'
<1>1. CASE UNCHANGED journal
  BY <1>1 DEF JournalInv, SessionOK, JobOK, DecisionOK, Right, OwnerOK
<1>2. CASE journal' # journal
  <2>1. journal.generation \in Nat /\ journal'.generation = journal.generation + 1
    BY <1>2, JournalSteps, ReplayCounts DEF JournalInv, BreakerInv, IInv, Shape, JournalShape,
       Appendable
  <2>2. pc[s] \in {"create", "write"} => op[s].base <= journal.generation /\ op[s].base \in Nat
    BY DEF JournalInv, SessionOK, JobOK, BreakerInv, IInv, AppendOK
  <2>3. JobOK(s)' /\ DecisionOK(s)'
    BY <2>1, <2>2 DEF JournalInv, SessionOK, JobOK, DecisionOK
  <2>4. ASSUME pc[s] \in {"sending", "returned"}
        PROVE  journal'.attempts[op[s].attempt] = journal.attempts[op[s].attempt]
    <3> DEFINE a == op[s].attempt
    <3>1. a \in used[s] /\ a \in Present(journal) /\ a \in AttemptIds /\ a <= journal.generation
      BY <2>4 DEF JournalInv, SessionOK, OwnerOK, BreakerInv, IInv, GrantsOK, AttemptsOK, Present
    <3> HIDE DEF a
    <3> SUFFICES ASSUME journal'.attempts[a] # journal.attempts[a] PROVE FALSE
      BY DEF a
    <3>2. PICK t \in Sessions :
            pc[t] \in {"create", "write"} /\ (a = journal.generation + 1 \/ a \in used[t])
      BY <3>1, AttemptSteps
    <3>3. t = s
      BY <2>1, <3>1, <3>2, JournalAssumption DEF JournalInv, BreakerInv, IInv, GrantsOK, AttemptIds
    <3> QED BY <2>4, <3>2, <3>3
  <2>5. OwnerOK(s)'
    BY <2>4 DEF JournalInv, SessionOK, OwnerOK
  <2> QED BY <2>3, <2>5 DEF SessionOK
<1> QED BY <1>1, <1>2

LEMMA AppendSession ==
    ASSUME JournalInv, NEW s \in Sessions, Create(s) \/ Write(s) \/ Confirm(s)
    PROVE  SessionOK(s)'
<1>1. CASE Finish(s)
  BY <1>1, FinishSession
<1>2. CASE (Goto(s, "confirm") \/ Goto(s, "bound")) /\ UNCHANGED op
  <2>1. pc'[s] \in {"confirm", "bound"}
    BY <1>2 DEF JournalInv, BreakerInv, IInv, Shape, Goto
  <2> QED BY <1>2, <2>1, ParkedSession
<1>3. CASE pc[s] = "create" /\ Goto(s, "write") /\ UNCHANGED <<op, journal, used>>
  <2>1. pc'[s] = "write"
    BY <1>3 DEF JournalInv, BreakerInv, IInv, Shape, Goto
  <2> QED BY <1>3, <2>1 DEF JournalInv, SessionOK, JobOK, DecisionOK, Right, OwnerOK
<1> QED BY <1>1, <1>2, <1>3 DEF Create, Write, Confirm, memory

\* reserve goes on after binding: it does not read the breaker again.
LEMMA ReserveAfterBindSession ==
    ASSUME JournalInv, NEW s \in Sessions, ReserveAfterBind(s)
    PROVE  SessionOK(s)'
<1>1. CASE Finish(s)
  BY <1>1, FinishSession
<1>2. CASE /\ journal.domain = DomainOf[s] /\ ReserveChecks(s, op[s].order)
           /\ StartAppend(s, Prepared(s, op[s].order, op[s].newRisk, FALSE), "grant")
  <2>1. op[s].then = "bound"
    BY DEF ReserveAfterBind, JournalInv, BreakerInv, LockInv, LockOK
  <2>2. /\ op[s].order \in Orders /\ op[s].newRisk \in NewRiskFlags
        /\ NoRiskWhileBinding => TRUE \notin NewRiskFlags
    BY <2>1 DEF JournalInv, SessionOK, JobOK, NoRiskWhileBinding
  <2>3. op[s].newRisk /\ NoRiskWhileBinding => ~journal.breakerOpen
    BY <2>2, SubmissionAssumption
  <2>4. Decides(s, Prepared(s, op[s].order, op[s].newRisk, FALSE))
    BY <1>2, <2>2, <2>3, ReserveDecides
  <2>5. UNCHANGED <<journal, used>>
    BY DEF ReserveAfterBind, store, memory
  <2> QED BY <1>2, <2>4, <2>5, StartSession
<1> QED BY <1>1, <1>2 DEF ReserveAfterBind

LEMMA DispatchSession ==
    ASSUME JournalInv, NEW s \in Sessions,
           DispatchLock(s) \/ DispatchGuard(s) \/ \E a \in AttemptIds : DispatchBegin(s, a)
    PROVE  SessionOK(s)'
<1>1. DOMAIN pc = Sessions /\ DOMAIN op = Sessions /\ DOMAIN used = Sessions /\ DOMAIN op[s] = OpFields
  BY DEF JournalInv, BreakerInv, IInv, Shape, AppendOK
<1>2. CASE Finish(s)
  BY <1>2, FinishSession
<1>3. CASE UNCHANGED op /\ Goto(s, "locked")
  <2>1. pc'[s] = "locked"
    BY <1>1, <1>3 DEF Goto
  <2> QED BY <1>3, <2>1, ParkedSession
<1>4. CASE op' = [op EXCEPT ![s] = NoOp] /\ Goto(s, "idle")
  <2>1. pc'[s] = "idle" /\ op'[s] = NoOp
    BY <1>1, <1>4 DEF Goto
  <2> QED BY <2>1, ParkedSession
<1>5. CASE /\ Dispatchable(op[s].attempt) /\ Goto(s, "sending") /\ UNCHANGED <<op, journal>>
           /\ used' = [used EXCEPT ![s] = @ \cup {op[s].attempt}]
  <2>1. /\ pc'[s] = "sending" /\ op'[s] = op[s] /\ op[s].attempt \in used'[s]
        /\ journal'.attempts[op[s].attempt].certainty = "PREPARED"
    BY <1>1, <1>5 DEF Goto, Dispatchable
  <2>2. JobOK(s)'
    BY <2>1 DEF JournalInv, SessionOK, JobOK
  <2> QED BY <2>1, <2>2 DEF SessionOK, DecisionOK, OwnerOK
<1>6. ASSUME NEW a \in AttemptIds, DispatchBegin(s, a) PROVE SessionOK(s)'
  <2>1. pc'[s] = "checked" /\ op'[s] = [op[s] EXCEPT !.attempt = a]
    BY <1>1, <1>6 DEF DispatchBegin, Goto
  <2>2. /\ op'[s].report = op[s].report /\ op'[s].attempt = a /\ op'[s].then = op[s].then
        /\ op'[s].order = op[s].order /\ op'[s].newRisk = op[s].newRisk
    BY <1>1, <2>1 DEF OpFields
  <2>3. JobOK(s)'
    BY <2>1, <2>2 DEF JournalInv, SessionOK, JobOK
  <2> QED BY <2>1, <2>3 DEF SessionOK, DecisionOK, OwnerOK
<1> QED BY <1>2, <1>3, <1>4, <1>5, <1>6 DEF DispatchLock, DispatchGuard, store

LEMMA SubmitSession ==
    ASSUME JournalInv, NEW s \in Sessions, Submit(s) \/ SubmitRaises(s)
    PROVE  SessionOK(s)'
<1>1. DOMAIN pc = Sessions /\ DOMAIN op = Sessions /\ DOMAIN op[s] = OpFields
  BY DEF JournalInv, BreakerInv, IInv, Shape, AppendOK
<1>2. /\ pc[s] = "sending" /\ pc'[s] = "returned" /\ UNCHANGED <<journal, used>>
      /\ \/ \E r \in Reports : op'[s] = [op[s] EXCEPT !.report = r]
         \/ op'[s] = [op[s] EXCEPT !.raised = TRUE]
  BY <1>1 DEF Submit, SubmitRaises, Goto, store, memory
<1>3. /\ op'[s].report \in ReportSet /\ op'[s].attempt = op[s].attempt
      /\ op'[s].then = op[s].then /\ op'[s].order = op[s].order
      /\ op'[s].newRisk = op[s].newRisk
  BY <1>1, <1>2, SubmissionAssumption DEF OpFields, JournalInv, SessionOK, JobOK
<1>4. JobOK(s)' /\ OwnerOK(s)'
  BY <1>2, <1>3 DEF JournalInv, SessionOK, JobOK, OwnerOK
<1> QED BY <1>2, <1>4 DEF SessionOK, DecisionOK

LEMMA RecordOutcomeSession ==
    ASSUME JournalInv, NEW s \in Sessions, RecordOutcome(s)
    PROVE  SessionOK(s)'
<1>1. CASE Finish(s)
  BY <1>1, FinishSession
<1>2. CASE StartAppend(s, Observed(op[s].attempt, op[s].report), "idle")
  <2>1. /\ op[s].attempt \in used[s] /\ op[s].report \in ReportSet
        /\ journal.attempts[op[s].attempt].certainty \notin Settled
    BY DEF RecordOutcome, JournalInv, SessionOK, JobOK, OwnerOK, Settled
  <2>2. Decides(s, Observed(op[s].attempt, op[s].report))
    BY <2>1, ObservationDecides
  <2>3. UNCHANGED <<journal, used>>
    BY DEF RecordOutcome, store
  <2> QED BY <1>2, <2>2, <2>3, StartSession
<1> QED BY <1>1, <1>2 DEF RecordOutcome

LEMMA OpenSession ==
    ASSUME JournalInv, NEW s \in Sessions, OpenLock(s) \/ OpenGuard(s)
    PROVE  SessionOK(s)'
<1> DEFINE e == [kind |-> "CIRCUIT_BREAKER_OPEN"]
<1>1. CASE UNCHANGED op /\ (Goto(s, "idle") \/ Goto(s, "openLocked"))
  <2>1. pc'[s] \in {"idle", "openLocked"}
    BY <1>1 DEF JournalInv, BreakerInv, IInv, Shape, Goto
  <2> QED BY <1>1, <2>1, ParkedSession
<1>2. CASE StartAppend(s, e, "idle") /\ ~journal.breakerOpen /\ UNCHANGED <<journal, used>>
  <2>1. e.kind = "CIRCUIT_BREAKER_OPEN"
    OBVIOUS
  <2> HIDE DEF e
  <2>2. Decides(s, e)
    BY <1>2, <2>1 DEF Decides, EventOK, Right, ReplayAccepts, AcceptsOpen
  <2> QED BY <1>2, <2>2, StartSession
<1> QED BY <1>1, <1>2 DEF OpenLock, OpenGuard, store, memory

LEMMA ReserveBindsSession ==
    ASSUME JournalInv, NEW s \in Sessions, NEW o \in Orders, NEW newRisk \in NewRiskFlags,
           ReserveBinds(s, o, newRisk)
    PROVE  SessionOK(s)'
<1> DEFINE e == [kind |-> "DOMAIN_BOUND", domain |-> DomainOf[s]]
<1>1. DOMAIN pc = Sessions /\ DOMAIN op = Sessions /\ DOMAIN op[s] = OpFields
  BY DEF JournalInv, BreakerInv, IInv, Shape, AppendOK
<1>2. /\ pc'[s] = "create" /\ UNCHANGED <<journal, used>>
      /\ op'[s] = [op[s] EXCEPT !.base = journal.generation, !.then = "bound", !.order = o,
                                !.newRisk = newRisk, !.event = e]
  BY <1>1 DEF ReserveBinds, Goto, store, memory
<1>3. /\ op'[s].base = journal.generation /\ op'[s].event = e /\ op'[s].order = o
      /\ op'[s].newRisk = newRisk /\ op'[s].report = op[s].report
      /\ op'[s].attempt = op[s].attempt
  BY <1>1, <1>2 DEF OpFields
<1>4. /\ DomainOf[s] \in Domains /\ journal.domain = "none"
      /\ InitialDomain = "none" /\ DomainOf[s] # "none"
  BY SubmissionAssumption DEF ReserveBinds, JournalInv, FactsOK
<1>5. e.kind = "DOMAIN_BOUND" /\ e.domain = DomainOf[s]
  OBVIOUS
<1> HIDE DEF e
<1>6. EventOK(e) /\ Right(e)
  BY <1>4, <1>5 DEF EventOK, Right, ReplayAccepts, AcceptsBound
<1>7. JobOK(s)'
  <2>1. journal.generation \in Nat
    BY DEF JournalInv, TypeOK, JournalTypeOK
  <2> QED BY <1>2, <1>3, <1>4, <1>6, <2>1 DEF JobOK, JournalInv, SessionOK, EventOK
<1>8. DecisionOK(s)'
  BY <1>2, <1>3, <1>6 DEF DecisionOK, Right
<1>9. OwnerOK(s)'
  BY <1>2, <1>3, <1>5 DEF OwnerOK
<1> QED BY <1>7, <1>8, <1>9 DEF SessionOK

LEMMA AppendCallSession ==
    ASSUME JournalInv, NEW s \in Sessions,
           \/ \E o \in Orders, newRisk \in NewRiskFlags : Reserve(s, o, newRisk)
           \/ \E o \in Orders : ReserveReduction(s, o)
           \/ \E at \in 1..MaxTime, equity \in Equities, flow \in Flows, cash \in Cash,
                 c \in SUBSET Present(journal) : RecordEquity(s, at, equity, flow, cash, c)
           \/ \E o \in Orders, perUnit \in PerUnits : ReserveRisk(s, o, perUnit)
           \/ \E a \in AttemptIds : ReconcileRisk(s, a)
           \/ \E a \in AttemptIds, r \in Reports : RecordObservation(s, a, r)
    PROVE  SessionOK(s)'
<1>1. ASSUME NEW o \in Orders, NEW newRisk \in NewRiskFlags, Reserve(s, o, newRisk)
      PROVE  SessionOK(s)'
  <2>1. Decides(s, Prepared(s, o, newRisk, FALSE))
    BY <1>1, ReserveDecides DEF Reserve
  <2> QED BY <1>1, <2>1, StartSession DEF Reserve, store, memory
<1>2. ASSUME NEW o \in Orders, ReserveReduction(s, o) PROVE SessionOK(s)'
  <2>1. Decides(s, Prepared(s, o, FALSE, TRUE))
    BY <1>2, ReductionDecides
  <2> QED BY <1>2, <2>1, StartSession DEF ReserveReduction, store, memory
<1>3. ASSUME NEW at \in 1..MaxTime, NEW equity \in Equities, NEW flow \in Flows,
             NEW cash \in Cash, NEW c \in SUBSET Present(journal),
             RecordEquity(s, at, equity, flow, cash, c)
      PROVE  SessionOK(s)'
  <2>1. Decides(s, [kind |-> "EQUITY_OBSERVED", flow |-> flow, cash |-> cash,
                    snapshot |-> Snapshot(at, equity, flow, c)])
    BY <1>3, EquityDecides
  <2> QED BY <1>3, <2>1, StartSession DEF RecordEquity, store, memory
<1>4. ASSUME NEW o \in Orders, NEW perUnit \in PerUnits, ReserveRisk(s, o, perUnit)
      PROVE  SessionOK(s)'
  <2>1. Decides(s, [kind |-> "RISK_RESERVED", order |-> o, perUnit |-> perUnit,
                    at |-> journal.equity.at])
    BY <1>4, RiskDecides
  <2> QED BY <1>4, <2>1, StartSession DEF ReserveRisk, store, memory
<1>5. ASSUME NEW a \in AttemptIds, ReconcileRisk(s, a) PROVE SessionOK(s)'
  <2>1. Decides(s, [kind |-> "RISK_RECONCILED", attempt |-> a,
                    filled |-> journal.attempts[a].filled, source |-> journal.equity.at])
    BY <1>5, ReconcileDecides
  <2> QED BY <1>5, <2>1, StartSession DEF ReconcileRisk, store, memory
<1>6. ASSUME NEW a \in AttemptIds, NEW r \in Reports, RecordObservation(s, a, r)
      PROVE  SessionOK(s)'
  <2>1. a \in used[s] /\ r \in ReportSet /\ journal.attempts[a].certainty \notin Settled
    BY <1>6, SubmissionAssumption DEF RecordObservation, DispatchedGrant
  <2>2. Decides(s, Observed(a, r))
    BY <2>1, ObservationDecides
  <2> QED BY <1>6, <2>2, StartSession DEF RecordObservation, store, memory
<1> QED BY <1>1, <1>2, <1>3, <1>4, <1>5, <1>6

\* No session consumes a grant for another one.
LEMMA OthersRemember ==
    ASSUME IInv, NEW s \in Sessions, Proceed(s) \/ Call(s), NEW t \in Sessions \ {s}
    PROVE  used'[t] = used[t]
<1>1. used \in [Sessions -> SUBSET AttemptIds]
  BY DEF IInv, Shape
<1>2. CASE DispatchGuard(s)
  BY <1>1, <1>2 DEF DispatchGuard
<1>3. CASE Proceed(s) /\ ~DispatchGuard(s)
  BY <1>3 DEF Proceed, Appending, Create, Write, CreateConflict, StoreFails, Confirm,
     ConfirmFails, Fail, ReserveAfterBind, DispatchLock, GuardFails, Submit, SubmitRaises,
     RecordOutcome, OpenGuard, memory
<1>4. CASE Call(s)
  BY <1>4 DEF Call, Reserve, ReserveBinds, RecordEquity, ReserveRisk, ReconcileRisk,
     ReserveReduction, DispatchBegin, RecordObservation, OpenLock, memory
<1> QED BY <1>2, <1>3, <1>4

LEMMA StepKeepsSessions ==
    ASSUME JournalInv, [Next]_vars, NEW t \in Sessions
    PROVE  SessionOK(t)'
<1>1. ASSUME NEW s \in Sessions, Proceed(s) \/ Call(s), s # t PROVE SessionOK(t)'
  BY <1>1, OneMoves, OthersRemember, RestingSession DEF JournalInv, BreakerInv
<1>2. CASE Proceed(t)
  <2>1. CASE CreateConflict(t) \/ StoreFails(t) \/ ConfirmFails(t) \/ GuardFails(t)
    BY <2>1, FinishSession DEF CreateConflict, StoreFails, ConfirmFails, GuardFails, Fail
  <2>2. CASE Create(t) \/ Write(t) \/ Confirm(t)
    BY <2>2, AppendSession
  <2>3. CASE ReserveAfterBind(t) \/ DispatchLock(t) \/ DispatchGuard(t)
    BY <2>3, ReserveAfterBindSession, DispatchSession
  <2>4. CASE Submit(t) \/ SubmitRaises(t) \/ RecordOutcome(t) \/ OpenGuard(t)
    BY <2>4, SubmitSession, RecordOutcomeSession, OpenSession
  <2> QED BY <1>2, <2>1, <2>2, <2>3, <2>4 DEF Proceed, Appending
<1>3. CASE Call(t)
  <2>1. CASE \E o \in Orders, newRisk \in NewRiskFlags : ReserveBinds(t, o, newRisk)
    BY <2>1, ReserveBindsSession
  <2>2. CASE \E a \in AttemptIds : DispatchBegin(t, a)
    BY <2>2, DispatchSession
  <2>3. CASE OpenLock(t)
    BY <2>3, OpenSession
  <2> QED BY <1>3, <2>1, <2>2, <2>3, AppendCallSession DEF Call
<1>4. ASSUME NEW p \in Processes, Crash(p) PROVE SessionOK(t)'
  <2>1. CASE ProcessOf[t] = p
    <3>1. pc'[t] = "crashed" /\ op'[t] = NoOp
      BY <1>4, <2>1 DEF Crash, JournalInv, BreakerInv, IInv, Shape
    <3> QED BY <3>1, ParkedSession
  <2>2. CASE ProcessOf[t] # p
    <3>1. pc'[t] = pc[t] /\ op'[t] = op[t] /\ used'[t] = used[t]
      BY <1>4, <2>2 DEF Crash
    <3> QED BY <3>1, RestingSession
  <2> QED BY <2>1, <2>2
<1>5. CASE Tick \/ UNCHANGED vars
  BY <1>5, RestingSession DEF Tick, vars, memory
<1> QED BY <1>1, <1>2, <1>3, <1>4, <1>5 DEF Next

(***************************************************************************)
(* The types of the remaining variables.                                   *)
(***************************************************************************)
PlainTypes ==
    /\ torn \in BOOLEAN /\ poisoned \in BOOLEAN
    /\ failed \in [Sessions -> BOOLEAN]
    /\ mutex \in [Processes -> Sessions \cup {"free"}]
    /\ writer \in Sessions \cup Processes \cup {"free"}
    /\ now \in 0..MaxTime

LEMMA ReleaseTypes ==
    ASSUME PlainTypes, NEW s \in Sessions, ReleaseLocks(s)
    PROVE  /\ mutex' \in [Processes -> Sessions \cup {"free"}]
           /\ writer' \in Sessions \cup Processes \cup {"free"}
BY DEF PlainTypes, ReleaseLocks

LEMMA TakeTypes ==
    ASSUME PlainTypes, NEW s \in Sessions
    PROVE  /\ TakeMutex(s) => mutex' \in [Processes -> Sessions \cup {"free"}]
           /\ TakeGuard(s) => writer' \in Sessions \cup Processes \cup {"free"}
           /\ [mutex EXCEPT ![ProcessOf[s]] = "free"] \in [Processes -> Sessions \cup {"free"}]
           /\ (IF Cloud THEN ProcessOf[s] ELSE writer) \in Sessions \cup Processes \cup {"free"}
BY SubmissionAssumption DEF PlainTypes, TakeMutex, TakeGuard

LEMMA StepKeepsPlainTypes ==
    ASSUME PlainTypes, [Next]_vars
    PROVE  PlainTypes'
<1>1. ASSUME NEW s \in Sessions, Proceed(s) PROVE PlainTypes'
  <2>1. ASSUME Finish(s), UNCHANGED <<torn, poisoned, now>>,
               failed' = failed \/ failed' = [failed EXCEPT ![s] = TRUE]
        PROVE  PlainTypes'
    BY <2>1, ReleaseTypes DEF PlainTypes, Finish
  <2>2. CASE CreateConflict(s) \/ StoreFails(s) \/ ConfirmFails(s) \/ GuardFails(s)
    BY <2>1, <2>2 DEF CreateConflict, StoreFails, ConfirmFails, GuardFails, Fail, store, world
  <2>3. CASE Create(s) \/ Write(s)
    BY <2>3 DEF Create, Write, Publish, PlainTypes, memory, locks, world
  <2>4. CASE Confirm(s) \/ ReserveAfterBind(s) \/ RecordOutcome(s)
    BY <2>1, <2>4 DEF Confirm, ReserveAfterBind, RecordOutcome, PlainTypes, store, memory,
       locks, world
  <2>5. CASE DispatchLock(s)
    BY <2>1, <2>5, TakeTypes DEF DispatchLock, PlainTypes, store, memory, world
  <2>6. CASE DispatchGuard(s) \/ OpenGuard(s)
    BY <2>6, TakeTypes DEF DispatchGuard, OpenGuard, PlainTypes, store, memory, world
  <2>7. CASE Submit(s) \/ SubmitRaises(s)
    BY <2>7 DEF Submit, SubmitRaises, PlainTypes, store, memory, locks
  <2> QED BY <1>1, <2>2, <2>3, <2>4, <2>5, <2>6, <2>7 DEF Proceed, Appending
<1>2. ASSUME NEW s \in Sessions, Call(s) PROVE PlainTypes'
  <2>1. CASE OpenLock(s)
    BY <2>1, TakeTypes DEF OpenLock, PlainTypes, store, memory, world
  <2>2. CASE Call(s) /\ ~OpenLock(s)
    BY <2>2 DEF Call, Reserve, ReserveBinds, RecordEquity, ReserveRisk, ReconcileRisk,
       ReserveReduction, DispatchBegin, RecordObservation, PlainTypes, store, memory, locks, world
  <2> QED BY <1>2, <2>1, <2>2
<1>3. ASSUME NEW p \in Processes, Crash(p) PROVE PlainTypes'
  BY <1>3 DEF Crash, PlainTypes, store, world
<1>4. CASE Tick \/ UNCHANGED vars
  BY <1>4, SubmissionAssumption DEF Tick, PlainTypes, vars, store, memory, locks, world
<1> QED BY <1>1, <1>2, <1>3, <1>4 DEF Next

(***************************************************************************)
(* The theorems.                                                           *)
(***************************************************************************)
LEMMA InitJournal == Init => JournalInv
<1> SUFFICES ASSUME Init PROVE JournalInv
  OBVIOUS
<1>1. BreakerInv
  BY InitIInv, InitLocks DEF BreakerInv, BarOK, Init
<1>2. /\ journal.generation \in {0, 1} /\ journal.breakerOpen = FALSE
      /\ journal.domain = InitialDomain /\ journal.equity = NoEquity
      /\ journal.risk = [o \in Orders |-> NoRisk]
      /\ journal.attempts = [a \in AttemptIds |-> NoAttempt]
      /\ journal.positionRisk = 0
  BY DEF Init, EmptyJournal
<1>3. SnapshotOK(NoEquity)
  BY SubmissionAssumption, JournalAssumption DEF SnapshotOK, NoEquity
<1>4. NoRisk \in RiskSet
  BY SubmissionAssumption, JournalAssumption DEF NoRisk, RiskSet
<1>5. JournalTypeOK(journal)
  <2>1. journal.risk \in [Orders -> RiskSet] /\ journal.attempts \in [AttemptIds -> AttemptSet]
    BY <1>2, <1>4, NoAttemptType
  <2>2. journal.generation \in Nat /\ journal.domain \in Domains \cup {"none"}
    BY <1>2, SubmissionAssumption
  <2>3. journal.breakerOpen \in BOOLEAN
    BY <1>2, Zenon
  <2>4. journal.positionRisk \in Nat
    BY <1>2
  <2> QED BY <1>2, <1>3, <2>1, <2>2, <2>3, <2>4, Zenon DEF JournalTypeOK
<1>6. FactsOK
  <2>1. Present(journal) = {}
    BY <1>2 DEF Present, NoAttempt
  <2> QED BY <1>2, <2>1 DEF FactsOK, FillsOK, OnePrepared, NoAttempt, Init
<1>7. NoOp.report = NoReport /\ NoOp.attempt = 0 /\ NoOp.then = "idle"
  BY DEF NoOp
<1>8. \A s \in Sessions : SessionOK(s)
  BY <1>7, NoReportType DEF Init, SessionOK, JobOK, DecisionOK, OwnerOK
<1>9. TypeOK
  <2>1. PlainTypes
    <3>1. /\ torn \in BOOLEAN /\ poisoned \in BOOLEAN /\ failed \in [Sessions -> BOOLEAN]
          /\ mutex \in [Processes -> Sessions \cup {"free"}]
          /\ writer \in Sessions \cup Processes \cup {"free"}
      BY Zenon DEF Init
    <3>2. now \in 0..MaxTime
      BY SubmissionAssumption DEF Init
    <3> QED BY <3>1, <3>2, Zenon DEF PlainTypes
  <2> QED BY <1>1, <1>5, <1>8, <2>1
          DEF TypeOK, PlainTypes, SessionOK, JobOK, BreakerInv, IInv, Shape
<1> QED BY <1>1, <1>6, <1>8, <1>9 DEF JournalInv

LEMMA StepKeepsJournal == JournalInv /\ [Next]_vars => JournalInv'
<1> SUFFICES ASSUME JournalInv, [Next]_vars PROVE JournalInv'
  OBVIOUS
<1>1. BreakerInv'
  BY StepKeepsInvariant, StepKeepsLocks, StepKeepsBar DEF JournalInv, BreakerInv
<1>2. JournalTypeOK(journal)' /\ FactsOK'
  BY StepKeepsFacts
<1>3. \A s \in Sessions : SessionOK(s)'
  BY StepKeepsSessions
<1>4. PlainTypes'
  <2>1. PlainTypes
    BY DEF JournalInv, TypeOK, PlainTypes
  <2> QED BY <2>1, StepKeepsPlainTypes
<1>5. TypeOK'
  BY <1>1, <1>2, <1>3, <1>4 DEF TypeOK, PlainTypes, SessionOK, JobOK, BreakerInv, IInv, Shape
<1> QED BY <1>1, <1>2, <1>3, <1>5 DEF JournalInv

LEMMA JournalInvariant == Spec => []JournalInv
BY InitJournal, StepKeepsJournal, PTL DEF Spec

\* The journal read_state computes and the sessions' memory keep their types in every
\* run: whatever report the broker returns, an attempt's fill stays within its order.
THEOREM TypeCorrect == Spec => []TypeOK
<1>1. JournalInv => TypeOK
  BY DEF JournalInv
<1> QED BY <1>1, JournalInvariant, PTL

\* If no caller asks for new risk in the call that binds the account, and no snapshot
\* reports negative cash, nothing a method appends is refused by replay: the guards of
\* the methods imply all the others of read_state.
THEOREM JournalIsNeverPoisoned ==
    ASSUME Harmless
    PROVE  Spec => []JournalNeverPoisoned
<1>1. JournalInv => JournalNeverPoisoned
  BY DEF JournalInv, FactsOK, JournalNeverPoisoned
<1> QED BY <1>1, JournalInvariant, PTL

\* Without the condition on cash: the only events that replay refuses are snapshots
\* with negative cash, which record_account_equity lets through.
THEOREM OnlyDebtPoisonsTheJournal ==
    ASSUME NoRiskWhileBinding
    PROVE  Spec => OnlyDebtPoisons
<1> DEFINE A == poisoned' # poisoned =>
        \E s \in Sessions : pc[s] \in {"create", "write"} /\ Owes(op[s].event)
<1>1. ASSUME JournalInv, [Next]_vars PROVE A
  <2> SUFFICES ASSUME poisoned' # poisoned
               PROVE  \E s \in Sessions : pc[s] \in {"create", "write"} /\ Owes(op[s].event)
    OBVIOUS
  <2>1. PICK s \in Sessions :
          /\ pc[s] \in {"create", "write"} /\ op[s].base = journal.generation
          /\ Publish(op[s].event)
    BY <1>1, PublishSteps DEF JournalInv, BreakerInv
  <2>2. ~ReplayAccepts(journal, op[s].event)
    BY <2>1 DEF Publish
  <2>3. Owes(op[s].event)
    BY <1>1, <2>1, <2>2 DEF JournalInv, SessionOK, DecisionOK, Right
  <2> QED BY <2>1, <2>3
<1> QED BY <1>1, JournalInvariant, PTL DEF OnlyDebtPoisons, Spec

\* The sessions of any processes keep at most one order of the account prepared and
\* not yet observed.
THEOREM OneIsPreparedAtATime == Spec => []OnePreparedAtATime
<1>1. JournalInv => OnePreparedAtATime
  BY DEF JournalInv, FactsOK, OnePrepared, OnePreparedAtATime
<1> QED BY <1>1, JournalInvariant, PTL

\* record_observation never changes an attempt that is UNKNOWN or TERMINAL, takes back
\* a fill or changes the broker's identity of an order.
THEOREM ObservationsAreFinal == Spec => ObservationsFinal
<1> DEFINE A == \A a \in AttemptIds :
        LET before == journal.attempts[a]
            after  == journal'.attempts[a]
        IN  before # after /\ before.certainty # "ABSENT" =>
                /\ before.certainty \notin {"UNKNOWN", "TERMINAL"}
                /\ after.filled >= before.filled
                /\ before.seen.id # "none" => after.seen.id = before.seen.id
<1>1. ASSUME JournalInv, [Next]_vars PROVE A
  <2> SUFFICES ASSUME NEW a \in AttemptIds, journal'.attempts[a] # journal.attempts[a],
                      journal.attempts[a].certainty # "ABSENT"
               PROVE  /\ journal.attempts[a].certainty \notin {"UNKNOWN", "TERMINAL"}
                      /\ journal'.attempts[a].filled >= journal.attempts[a].filled
                      /\ journal.attempts[a].seen.id # "none" =>
                            journal'.attempts[a].seen.id = journal.attempts[a].seen.id
    OBVIOUS
  <2>1. a \in Present(journal) /\ a <= journal.generation /\ journal.generation \in Nat
    BY <1>1 DEF JournalInv, BreakerInv, IInv, AttemptsOK, Present, TypeOK, JournalTypeOK
  <2>2. PICK s \in Sessions : LET e == op[s].event IN
          /\ ReplayAccepts(journal, e) /\ EventOK(e)
          /\ \/ a = journal.generation + 1
             \/ /\ e.kind = "OBSERVED" /\ a = e.attempt
                /\ journal'.attempts[a] = ObservedAttempt(journal, e)
    BY <1>1, AttemptSteps
  <2> DEFINE e == op[s].event
  <2>3. /\ e.kind = "OBSERVED" /\ a = e.attempt
        /\ journal'.attempts[a] = ObservedAttempt(journal, e)
    BY <2>1, <2>2, JournalAssumption DEF AttemptIds
  <2>4. AcceptsObserved(journal, e) /\ e.report \in ReportSet
    BY <2>2, <2>3 DEF ReplayAccepts, EventOK
  <2>5. /\ journal.attempts[a] \in AttemptSet /\ FillsOK(journal)
        /\ journal.attempts[a].filled \in Nat
    BY <1>1 DEF JournalInv, FactsOK, TypeOK, JournalTypeOK, AttemptSet
  <2> HIDE DEF e
  <2>6. journal'.attempts[a].filled = e.report.filled /\ journal'.attempts[a].seen = e.report
    BY <2>1, <2>3, <2>4, <2>5, ObservedType DEF AcceptsObserved
  <2>7. /\ journal.attempts[a].order \in Orders
        /\ e.report.filled \in journal.attempts[a].filled..Quantity[journal.attempts[a].order]
    BY <2>1, <2>3, <2>4, <2>5 DEF AcceptsObserved, FillsOK
  <2>8. e.report.filled >= journal.attempts[a].filled
    BY <2>5, <2>7, QuantityType
  <2> QED BY <2>3, <2>4, <2>6, <2>8 DEF AcceptsObserved, Settled
<1>2. JournalInv /\ [Next]_vars => [A]_vars
  BY <1>1
<1> QED BY <1>2, JournalInvariant, PTL DEF Spec, ObservationsFinal

\* An attempt is resolved only by a session that dispatched it and still runs.
THEOREM OnlyTheOwnerResolves == Spec => OnlyOwnerResolves
<1> DEFINE A == \A a \in AttemptIds :
        journal.attempts[a].certainty # "ABSENT" /\ journal'.attempts[a] # journal.attempts[a]
            => \E s \in Sessions : a \in used[s]
<1>1. ASSUME JournalInv, [Next]_vars PROVE A
  <2> SUFFICES ASSUME NEW a \in AttemptIds, journal'.attempts[a] # journal.attempts[a],
                      journal.attempts[a].certainty # "ABSENT"
               PROVE  \E s \in Sessions : a \in used[s]
    OBVIOUS
  <2>1. a <= journal.generation /\ journal.generation \in Nat
    BY <1>1 DEF JournalInv, BreakerInv, IInv, AttemptsOK, Present, TypeOK, JournalTypeOK
  <2>2. a # journal.generation + 1
    BY <2>1, JournalAssumption DEF AttemptIds
  <2> QED BY <1>1, <2>2, AttemptSteps
<1>2. JournalInv /\ [Next]_vars => [A]_vars
  BY <1>1
<1> QED BY <1>2, JournalInvariant, PTL DEF Spec, OnlyOwnerResolves

\* reserve's check of the valuation is still true when its event is written.
THEOREM PreparedOnTheLatest == Spec => PreparedOnLatestValuation
<1> DEFINE A == \A a \in AttemptIds :
        LET att == journal'.attempts[a]
        IN  /\ journal.attempts[a].certainty = "ABSENT" /\ att.certainty = "PREPARED"
            /\ journal.domain # "none" /\ ~att.reduction
            => journal.risk[att.order].at = journal.equity.at
<1>1. ASSUME JournalInv, [Next]_vars PROVE A
  <2> SUFFICES ASSUME NEW a \in AttemptIds, journal.attempts[a].certainty = "ABSENT",
                      journal'.attempts[a].certainty = "PREPARED",
                      journal.domain # "none", ~journal'.attempts[a].reduction
               PROVE  journal.risk[journal'.attempts[a].order].at = journal.equity.at
    OBVIOUS
  <2>1. PICK s \in Sessions : LET e == op[s].event IN
          /\ Right(e) /\ EventOK(e)
          /\ \/ e.kind = "PREPARED" /\ journal'.attempts[a] = PreparedAttempt(journal, e)
             \/ e.kind = "OBSERVED" /\ journal'.attempts[a] = ObservedAttempt(journal, e)
    BY <1>1, AttemptSteps
  <2> DEFINE e == op[s].event
  <2>2. e.kind = "PREPARED" /\ journal'.attempts[a] = PreparedAttempt(journal, e)
    BY <1>1, <2>1, ObservedFields DEF EventOK, JournalInv, BreakerInv, IInv, Shape
  <2>3. journal'.attempts[a].order = e.order /\ ~e.reduction
    BY <2>2 DEF PreparedAttempt
  <2> QED BY <2>1, <2>2, <2>3 DEF Right
<1>2. JournalInv /\ [Next]_vars => [A]_vars
  BY <1>1
<1> QED BY <1>2, JournalInvariant, PTL DEF Spec, PreparedOnLatestValuation

(***************************************************************************)
(* The risk the account can still take, and its position.  A snapshot sums *)
(* exactly the fills it covers, and an attempt that may still fill is      *)
(* reserved or covered.                                                    *)
(***************************************************************************)

\* Journal j may be followed by event e.
Ready(j, e) ==
    /\ JournalShape(j) /\ JournalTypeOK(j) /\ FillsOK(j)
    /\ \A a \in Present(j) : a <= j.generation
    /\ Appendable(j, e) /\ ReplayAccepts(j, e) /\ EventOK(e)

\* An event adds at most one attempt, without a fill, and changes an attempt only by
\* observing it; what an attempt is of never changes.
LEMMA AttemptsAfter ==
    ASSUME NEW j, NEW e, Ready(j, e)
    PROVE  LET k == Replay(j, e)
               n == j.generation + 1
           IN
           /\ JournalTypeOK(k) /\ FillsOK(k)
           /\ e.kind # "PREPARED" => Present(k) = Present(j)
           /\ e.kind = "PREPARED" =>
                /\ Present(k) = Present(j) \cup {n}
                /\ n \in AttemptIds /\ n \notin Present(j)
                /\ k.attempts[n] = PreparedAttempt(j, e)
           /\ \A a \in Present(j) :
                /\ k.attempts[a].order = j.attempts[a].order
                /\ k.attempts[a].reduction = j.attempts[a].reduction
                /\ k.attempts[a].filled >= j.attempts[a].filled
                /\ \/ k.attempts[a] = j.attempts[a]
                   \/ /\ e.kind = "OBSERVED" /\ a = e.attempt
                      /\ j.attempts[a].certainty \notin Settled
                      /\ k.attempts[a].certainty # "PREPARED"
<1> DEFINE k == Replay(j, e)
           n == j.generation + 1
<1>1. JournalTypeOK(k) /\ FillsOK(k)
  BY ReplayTyped DEF Ready
<1>2. /\ Present(k) = IF e.kind = "PREPARED" THEN Present(j) \cup {n} ELSE Present(j)
      /\ \A a \in Present(j) : k.attempts[a].order = j.attempts[a].order
  BY ReplayAttempts DEF Ready
<1>3. ASSUME e.kind = "PREPARED"
      PROVE  n \in AttemptIds /\ n \notin Present(j)
  BY <1>3 DEF Ready, Appendable, JournalShape
<1>4. ASSUME e.kind = "PREPARED"
      PROVE  /\ k.attempts[n] = PreparedAttempt(j, e)
             /\ \A a \in Present(j) : k.attempts[a] = j.attempts[a]
  <2>1. k.attempts = [j.attempts EXCEPT ![n] = PreparedAttempt(j, e)]
    BY <1>4, ReplayPrepares DEF Ready
  <2> HIDE DEF k, n
  <2> QED BY <1>3, <1>4, <2>1 DEF Ready, JournalShape, Present
<1>5. ASSUME e.kind = "OBSERVED"
      PROVE  \A a \in Present(j) :
                /\ k.attempts[a].reduction = j.attempts[a].reduction
                /\ k.attempts[a].filled >= j.attempts[a].filled
                /\ \/ k.attempts[a] = j.attempts[a]
                   \/ /\ a = e.attempt /\ j.attempts[a].certainty \notin Settled
                      /\ k.attempts[a].certainty # "PREPARED"
  <2>1. /\ k.attempts = [j.attempts EXCEPT ![e.attempt] = ObservedAttempt(j, e)]
        /\ e.attempt \in AttemptIds /\ e.report \in ReportSet
    BY <1>5, ReplayObserves DEF Ready, EventOK
  <2>2. AcceptsObserved(j, e) /\ e.attempt \in Present(j)
    BY <1>5, <2>1 DEF Ready, ReplayAccepts, AcceptsObserved, Present
  <2> DEFINE b == e.attempt
             o == ObservedAttempt(j, e)
  <2>3. /\ j.attempts[b] \in AttemptSet /\ j.attempts[b].order \in Orders
        /\ e.report.filled \in j.attempts[b].filled..Quantity[j.attempts[b].order]
        /\ j.attempts[b].certainty \notin Settled
    BY <2>1, <2>2 DEF Ready, JournalTypeOK, AcceptsObserved, FillsOK
  <2>4. o.filled = e.report.filled /\ o.certainty # "PREPARED"
    BY <2>1, <2>2, <2>3, ObservedType, ObservedFields DEF Ready
  <2>5. o.reduction = j.attempts[b].reduction
    BY <2>3 DEF ObservedAttempt, AttemptSet
  <2>6. o.filled >= j.attempts[b].filled
    BY <2>3, <2>4, QuantityType DEF AttemptSet
  <2>7. k.attempts[b] = o /\ \A a \in AttemptIds \ {b} : k.attempts[a] = j.attempts[a]
    BY <2>1 DEF Ready, JournalShape
  <2>8. \A a \in Present(j) : j.attempts[a].filled \in Nat /\ a \in AttemptIds
    BY DEF Ready, JournalTypeOK, Present, AttemptSet
  <2> HIDE DEF k, o
  <2> QED BY <2>3, <2>4, <2>5, <2>6, <2>7, <2>8
<1>6. ASSUME e.kind \notin {"PREPARED", "OBSERVED"} PROVE k.attempts = j.attempts
  BY <1>6, ReplayKeepsAttempts DEF Ready, Appendable
<1>7. \A a \in Present(j) : j.attempts[a].filled \in Nat
  BY DEF Ready, JournalTypeOK, Present, AttemptSet
<1>8. \A a \in Present(j) :
        /\ k.attempts[a].reduction = j.attempts[a].reduction
        /\ k.attempts[a].filled >= j.attempts[a].filled
        /\ \/ k.attempts[a] = j.attempts[a]
           \/ /\ e.kind = "OBSERVED" /\ a = e.attempt
              /\ j.attempts[a].certainty \notin Settled
              /\ k.attempts[a].certainty # "PREPARED"
  <2> HIDE DEF k, n
  <2>1. CASE e.kind = "OBSERVED"
    BY <1>5, <2>1
  <2>2. CASE e.kind # "OBSERVED"
    <3>1. \A a \in Present(j) : k.attempts[a] = j.attempts[a]
      BY <1>4, <1>6, <2>2
    <3> QED BY <1>7, <3>1
  <2> QED BY <2>1, <2>2
<1> HIDE DEF k, n
<1>9. e.kind = "PREPARED" => n \in AttemptIds /\ n \notin Present(j)
                             /\ k.attempts[n] = PreparedAttempt(j, e)
  BY <1>3, <1>4
<1> QED BY <1>1, <1>2, <1>8, <1>9 DEF k, n

(***************************************************************************)
(* What the recorded snapshot covers.                                      *)
(***************************************************************************)
\* The snapshot covers fills the journal knows, and its sums are theirs.
CoverOK(j) ==
    /\ \A a \in AttemptIds :
        /\ j.equity.covered[a] <= j.attempts[a].filled
        /\ j.equity.covered[a] >= 0 => a \in Present(j)
    /\ j.equity.positionRisk = Total(j.equity.covered, Bought(j))
    /\ j.equity.position = Net(j, j.equity.covered)
    /\ j.positionRisk = j.equity.positionRisk

\* While a reduction is prepared nothing else is open, and every fill of it stays
\* between the position and zero.
ReductionOK(j) ==
    \A a \in AttemptIds :
        j.attempts[a].certainty = "PREPARED" /\ j.attempts[a].reduction =>
            /\ \A b \in Present(j) \ {a} : j.attempts[b].certainty = "TERMINAL"
            /\ Reduces(Net(j, Fills(j)), j.attempts[a].order)

\* No session can reserve orders of an account that is not bound to a domain.
AccountAlwaysBound == InitialDomain # "none" \/ \A s \in Sessions : DomainOf[s] # "none"

\* What a method established of the event it appends, as far as replay does not check it.
Sound(j, e) ==
    /\ e.kind = "EQUITY_OBSERVED" =>
        /\ \A a \in AttemptIds :
            /\ j.equity.covered[a] <= e.snapshot.covered[a]
            /\ e.snapshot.covered[a] <= j.attempts[a].filled
            /\ e.snapshot.covered[a] >= 0 => a \in Present(j)
        /\ e.snapshot.positionRisk = Total(e.snapshot.covered, Bought(j))
        /\ e.snapshot.position = Net(j, e.snapshot.covered)
    /\ e.kind = "RISK_RESERVED" =>
        AccountedRisk(j) + e.perUnit * Quantity[e.order] <= TotalLimit
    /\ e.kind = "PREPARED" /\ e.reduction =>
        /\ \A a \in Present(j) : j.attempts[a].certainty = "TERMINAL"
        /\ Reduces(Net(j, Fills(j)), e.order) /\ e.order \in Sells
    /\ e.kind = "PREPARED" /\ AccountAlwaysBound => j.domain # "none"

\* The session's event is still sound while nothing was appended since its decision.
Foreseen(s) ==
    pc[s] \in {"create", "write"} /\ op[s].base = journal.generation =>
        Sound(journal, op[s].event)

CoverInv ==
    /\ JournalInv /\ CoverOK(journal) /\ ReductionOK(journal)
    /\ \A s \in Sessions : Foreseen(s)

\* Fills of the same attempts, on the same sides, add up to the same position.
LEMMA SameNet ==
    ASSUME NEW j, NEW k, NEW f, NEW g,
           \A a \in Present(j) : 1..f[a] # {} =>
                /\ a \in Present(k) /\ k.attempts[a].order = j.attempts[a].order
                /\ 1..f[a] = 1..g[a],
           \A a \in Present(k) : 1..g[a] # {} =>
                /\ a \in Present(j) /\ k.attempts[a].order = j.attempts[a].order
                /\ 1..f[a] = 1..g[a]
    PROVE  Net(j, f) = Net(k, g) /\ Total(f, Bought(j)) = Total(g, Bought(k))
<1>1. /\ \A a \in Bought(j) : 1..f[a] # {} => a \in Bought(k) /\ 1..f[a] = 1..g[a]
      /\ \A a \in Bought(k) : 1..g[a] # {} => a \in Bought(j) /\ 1..f[a] = 1..g[a]
  BY DEF Bought
<1>2. /\ \A a \in Sold(j) : 1..f[a] # {} => a \in Sold(k) /\ 1..f[a] = 1..g[a]
      /\ \A a \in Sold(k) : 1..g[a] # {} => a \in Sold(j) /\ 1..f[a] = 1..g[a]
  BY DEF Sold
<1>3. Total(f, Bought(j)) = Total(g, Bought(k))
  BY <1>1, SameUnits
<1>4. Total(f, Sold(j)) = Total(g, Sold(k))
  BY <1>2, SameUnits
<1> QED BY <1>3, <1>4 DEF Net

\* Every event keeps the snapshot covering only fills the journal knows; a new
\* snapshot sums exactly the fills it covers.
LEMMA CoverAfter ==
    ASSUME NEW j, NEW e, Ready(j, e), CoverOK(j), Sound(j, e)
    PROVE  CoverOK(Replay(j, e))
<1> DEFINE k == Replay(j, e)
<1>1. /\ e.kind \in Kinds /\ JournalShape(j)
      /\ JournalTypeOK(j) /\ JournalTypeOK(k)
  BY AttemptsAfter DEF Ready, Appendable
<1>2. /\ k.equity = IF e.kind = "EQUITY_OBSERVED" THEN e.snapshot ELSE j.equity
      /\ k.positionRisk = IF e.kind = "EQUITY_OBSERVED" THEN e.snapshot.positionRisk
                          ELSE IF e.kind = "RISK_RECONCILED" THEN j.equity.positionRisk
                          ELSE j.positionRisk
  BY <1>1, ReplayParts
<1>3. k.positionRisk = k.equity.positionRisk
  BY <1>2 DEF CoverOK
<1>4. CASE e.kind = "EQUITY_OBSERVED"
  <2>1. k.attempts = j.attempts
    BY <1>1, <1>4, ReplayKeepsAttempts
  <2>2. Present(k) = Present(j) /\ Bought(k) = Bought(j) /\ Sold(k) = Sold(j)
    BY <2>1 DEF Present, Bought, Sold
  <2>3. Net(k, e.snapshot.covered) = Net(j, e.snapshot.covered)
    BY <2>2 DEF Net
  <2>4. k.equity = e.snapshot
    BY <1>2, <1>4
  <2> HIDE DEF k
  <2>5. \A a \in AttemptIds : /\ e.snapshot.covered[a] <= j.attempts[a].filled
                              /\ e.snapshot.covered[a] >= 0 => a \in Present(j)
    BY <1>4 DEF Sound
  <2>6. /\ e.snapshot.positionRisk = Total(e.snapshot.covered, Bought(j))
        /\ e.snapshot.position = Net(j, e.snapshot.covered)
    BY <1>4 DEF Sound
  <2>7. \A a \in AttemptIds : /\ k.equity.covered[a] <= k.attempts[a].filled
                              /\ k.equity.covered[a] >= 0 => a \in Present(k)
    BY <2>1, <2>2, <2>4, <2>5
  <2>8. k.equity.positionRisk = Total(k.equity.covered, Bought(k))
    BY <2>2, <2>4, <2>6, Zenon
  <2>9. k.equity.position = Net(k, k.equity.covered)
    BY <2>3, <2>4, <2>6, Zenon
  <2> QED BY <1>3, <2>7, <2>8, <2>9 DEF CoverOK, k
<1>5. CASE e.kind # "EQUITY_OBSERVED"
  <2> DEFINE c == j.equity.covered
  <2>1. k.equity = j.equity
    BY <1>2, <1>5
  <2>2. /\ \A a \in Present(j) : /\ a \in Present(k)
                                 /\ k.attempts[a].order = j.attempts[a].order
                                 /\ k.attempts[a].filled >= j.attempts[a].filled
    BY AttemptsAfter
  <2>3. \A a \in AttemptIds : /\ c[a] \in Int
                              /\ k.attempts[a].filled \in Nat /\ j.attempts[a].filled \in Nat
    BY <1>1, JournalAssumption DEF JournalTypeOK, SnapshotOK, AttemptSet
  <2>4. \A a \in AttemptIds : c[a] >= 0 => a \in Present(j)
    BY DEF CoverOK
  <2>5. Present(j) \subseteq AttemptIds /\ Present(k) \subseteq AttemptIds
    BY DEF Present
  <2> HIDE DEF k, c
  <2>6. \A a \in AttemptIds : c[a] <= k.attempts[a].filled /\ (c[a] >= 0 => a \in Present(k))
    <3>1. \A a \in AttemptIds : c[a] <= j.attempts[a].filled
      BY DEF CoverOK, c
    <3> QED BY <2>2, <2>3, <2>4, <3>1
  <2>7. \A a \in AttemptIds : 1..c[a] # {} => c[a] >= 0
    BY <2>3
  <2>8. Net(j, c) = Net(k, c) /\ Total(c, Bought(j)) = Total(c, Bought(k))
    BY <2>2, <2>4, <2>5, <2>7, SameNet
  <2>9. j.equity.positionRisk = Total(c, Bought(j)) /\ j.equity.position = Net(j, c)
    BY DEF CoverOK, c
  <2>10. k.equity.covered = c
    BY <2>1 DEF c
  <2>11. k.equity.positionRisk = Total(k.equity.covered, Bought(k))
    BY <2>1, <2>8, <2>9, <2>10, Zenon
  <2>12. k.equity.position = Net(k, k.equity.covered)
    BY <2>1, <2>8, <2>9, <2>10, Zenon
  <2> QED BY <1>3, <2>6, <2>10, <2>11, <2>12 DEF CoverOK, k
<1> QED BY <1>4, <1>5

\* Every event keeps a prepared reduction the only attempt that can still fill, within
\* the position the snapshot saw.
LEMMA ReductionAfter ==
    ASSUME NEW j, NEW e, Ready(j, e), ReductionOK(j), Sound(j, e)
    PROVE  ReductionOK(Replay(j, e))
<1> DEFINE k == Replay(j, e)
           n == j.generation + 1
<1> SUFFICES ASSUME NEW a \in AttemptIds, k.attempts[a].certainty = "PREPARED",
                    k.attempts[a].reduction
             PROVE  /\ \A b \in Present(k) \ {a} : k.attempts[b].certainty = "TERMINAL"
                    /\ Reduces(Net(k, Fills(k)), k.attempts[a].order)
  BY DEF ReductionOK
<1>1. /\ e.kind # "PREPARED" => Present(k) = Present(j)
      /\ e.kind = "PREPARED" =>
            /\ Present(k) = Present(j) \cup {n}
            /\ n \in AttemptIds /\ n \notin Present(j)
            /\ k.attempts[n] = PreparedAttempt(j, e)
      /\ \A b \in Present(j) :
            /\ k.attempts[b].order = j.attempts[b].order
            /\ \/ k.attempts[b] = j.attempts[b]
               \/ /\ e.kind = "OBSERVED" /\ j.attempts[b].certainty \notin Settled
                  /\ k.attempts[b].certainty # "PREPARED"
  BY AttemptsAfter
<1>2. a \in Present(k)
  BY DEF Present
<1>3. Present(j) \subseteq AttemptIds
  BY DEF Present
<1> HIDE DEF k, n
<1>4. /\ \A b \in Present(j) : k.attempts[b] = j.attempts[b]
      /\ \A b \in Present(j) \ {a} : j.attempts[b].certainty = "TERMINAL"
      /\ Reduces(Net(j, Fills(j)), k.attempts[a].order)
  <2>1. CASE e.kind = "PREPARED"
    <3>1. ~HasUnresolved(j)
      BY <2>1 DEF Ready, ReplayAccepts, AcceptsPrepared
    <3>2. \A b \in Present(j) : k.attempts[b] = j.attempts[b]
      BY <1>1, <2>1
    <3>3. a = n
      BY <1>1, <1>2, <1>3, <2>1, <3>1, <3>2 DEF HasUnresolved, Unresolved
    <3>4. PreparedAttempt(j, e).reduction = e.reduction /\ PreparedAttempt(j, e).order = e.order
      BY DEF PreparedAttempt
    <3> QED BY <1>1, <2>1, <3>2, <3>3, <3>4 DEF Sound
  <2>2. CASE e.kind # "PREPARED"
    <3>1. a \in Present(j) /\ k.attempts[a] = j.attempts[a]
      BY <1>1, <1>2, <2>2
    <3>2. /\ \A b \in Present(j) \ {a} : j.attempts[b].certainty = "TERMINAL"
          /\ Reduces(Net(j, Fills(j)), j.attempts[a].order)
      BY <1>3, <3>1 DEF ReductionOK
    <3> QED BY <1>1, <3>1, <3>2 DEF Settled
  <2> QED BY <2>1, <2>2
<1>5. \A b \in Present(k) \ {a} : b \in Present(j)
  <2>1. CASE e.kind = "PREPARED"
    <3>1. ~HasUnresolved(j)
      BY <2>1 DEF Ready, ReplayAccepts, AcceptsPrepared
    <3>2. a = n
      BY <1>1, <1>2, <1>3, <1>4, <2>1, <3>1 DEF HasUnresolved, Unresolved
    <3> QED BY <1>1, <2>1, <3>2
  <2>2. CASE e.kind # "PREPARED"
    BY <1>1, <2>2
  <2> QED BY <2>1, <2>2
<1>6. Net(j, Fills(j)) = Net(k, Fills(k))
  <2>1. \A b \in Present(j) : b \in Present(k) /\ Fills(j)[b] = Fills(k)[b]
    BY <1>1, <1>3, <1>4 DEF Fills
  <2>2. \A b \in Present(k) : b \in Present(j) \/ Fills(k)[b] = 0
    <3>1. PreparedAttempt(j, e).filled = 0
      BY DEF PreparedAttempt
    <3> QED BY <1>1, <3>1 DEF Fills
  <2>3. \A b \in Present(k) : 1..Fills(k)[b] # {} => b \in Present(j)
    BY <2>2
  <2> QED BY <1>1, <2>1, <2>3, SameNet
<1> QED BY <1>4, <1>5, <1>6

(***************************************************************************)
(* What a method established is still true when its event is created.      *)
(***************************************************************************)
LEMMA EquitySound ==
    ASSUME CoverInv, NEW s \in Sessions, NEW at \in 1..MaxTime, NEW equity \in Equities,
           NEW flow \in Flows, NEW cash \in Cash, NEW c \in SUBSET Present(journal),
           RecordEquity(s, at, equity, flow, cash, c)
    PROVE  Sound(journal, [kind |-> "EQUITY_OBSERVED", flow |-> flow, cash |-> cash,
                           snapshot |-> Snapshot(at, equity, flow, c)])
<1> DEFINE n == Snapshot(at, equity, flow, c)
           e == [kind |-> "EQUITY_OBSERVED", flow |-> flow, cash |-> cash, snapshot |-> n]
<1>1. /\ n.covered = [a \in AttemptIds |-> IF a \in c THEN journal.attempts[a].filled ELSE -1]
      /\ n.positionRisk = Total(n.covered, Bought(journal))
      /\ n.position = Net(journal, n.covered)
  BY SnapshotSums
<1> HIDE DEF n
<1>2. e.kind = "EQUITY_OBSERVED" /\ e.snapshot = n
  OBVIOUS
<1> HIDE DEF e
<1>3. \A a \in AttemptIds : /\ journal.equity.covered[a] \in Int
                            /\ journal.equity.covered[a] >= -1
                            /\ journal.attempts[a].filled \in Nat
                            /\ journal.equity.covered[a] <= journal.attempts[a].filled
  BY JournalAssumption
     DEF CoverInv, CoverOK, JournalInv, TypeOK, JournalTypeOK, SnapshotOK, AttemptSet
<1>4. \A a \in AttemptIds : journal.equity.covered[a] >= 0 => a \in c
  BY DEF RecordEquity
<1>5. \A a \in AttemptIds : /\ journal.equity.covered[a] <= n.covered[a]
                            /\ n.covered[a] <= journal.attempts[a].filled
                            /\ n.covered[a] >= 0 => a \in Present(journal)
  <2> SUFFICES ASSUME NEW a \in AttemptIds
               PROVE  /\ journal.equity.covered[a] <= n.covered[a]
                      /\ n.covered[a] <= journal.attempts[a].filled
                      /\ n.covered[a] >= 0 => a \in Present(journal)
    OBVIOUS
  <2>1. n.covered[a] = IF a \in c THEN journal.attempts[a].filled ELSE -1
    BY <1>1
  <2> QED BY <1>3, <1>4, <2>1
<1>6. Sound(journal, e)
  BY <1>1, <1>2, <1>5 DEF Sound
<1> QED BY <1>6 DEF e, n

\* A risk check that passed established what its event needs, on the journal it read.
LEMMA RiskSound ==
    ASSUME NEW s \in Sessions, NEW o \in Orders, NEW perUnit \in PerUnits,
           ReserveRisk(s, o, perUnit)
    PROVE  Sound(journal, [kind |-> "RISK_RESERVED", order |-> o, perUnit |-> perUnit,
                           at |-> journal.equity.at])
BY DEF Sound, ReserveRisk

\* Every fill is in the snapshot: the position it shows is the one held.
LEMMA ReductionSound ==
    ASSUME CoverInv, NEW s \in Sessions, NEW o \in Orders, ReserveReduction(s, o)
    PROVE  Sound(journal, Prepared(s, o, FALSE, TRUE))
<1> DEFINE c == journal.equity.covered
           f == Fills(journal)
<1>1. \A a \in Present(journal) :
        /\ a \in AttemptIds /\ c[a] \in Int /\ f[a] \in Nat /\ c[a] <= f[a]
        /\ f[a] > 0 => c[a] = f[a]
  <2>1. \A a \in AttemptIds : /\ c[a] \in Int /\ f[a] \in Nat /\ c[a] <= f[a]
                              /\ f[a] = journal.attempts[a].filled
    BY JournalAssumption
       DEF CoverInv, CoverOK, JournalInv, TypeOK, JournalTypeOK, SnapshotOK, AttemptSet, Fills
  <2>2. \A a \in Present(journal) : journal.attempts[a].filled > 0 => c[a] = journal.attempts[a].filled
    BY DEF ReserveReduction, FillsCovered
  <2> QED BY <2>1, <2>2 DEF Present
<1>2. journal.equity.position = Net(journal, c)
  BY DEF CoverInv, CoverOK
<1>3. Reduces(journal.equity.position, o)
  BY DEF ReserveReduction
<1> HIDE DEF c, f
<1>4. \A a \in Present(journal) : 1..c[a] = 1..f[a]
  <2> SUFFICES ASSUME NEW a \in Present(journal) PROVE 1..c[a] = 1..f[a]
    OBVIOUS
  <2>1. CASE f[a] > 0
    BY <1>1, <2>1
  <2>2. CASE f[a] = 0
    BY <1>1, <2>2
  <2> QED BY <1>1, <2>1, <2>2
<1>5. Net(journal, c) = Net(journal, f)
  BY <1>4, SameNet
<1>6. Reduces(Net(journal, f), o)
  BY <1>2, <1>3, <1>5, Zenon
<1>7. \A a \in Present(journal) : journal.attempts[a].certainty = "TERMINAL"
  BY DEF ReserveReduction
<1>8. journal.domain # "none"
  BY DEF ReserveReduction, BoundTo
<1> DEFINE e == Prepared(s, o, FALSE, TRUE)
<1>9. e.kind = "PREPARED" /\ e.order = o
  BY DEF Prepared
<1>10. o \in Sells
  <2>1. journal.equity.position \in Nat
    BY DEF CoverInv, JournalInv, TypeOK, JournalTypeOK, SnapshotOK
  <2> QED BY <1>3, <2>1 DEF Reduces
<1> HIDE DEF e
<1> QED BY <1>6, <1>7, <1>8, <1>9, <1>10 DEF Sound, e, f

\* So did a check that reserved the risk of a new order.
LEMMA ReserveSound ==
    ASSUME CoverInv, NEW s \in Sessions, NEW o, NEW newRisk, journal.domain = DomainOf[s]
    PROVE  Sound(journal, Prepared(s, o, newRisk, FALSE))
<1>1. AccountAlwaysBound => journal.domain # "none"
  BY DEF AccountAlwaysBound, CoverInv, JournalInv, FactsOK
<1> DEFINE e == Prepared(s, o, newRisk, FALSE)
<1>2. e.kind = "PREPARED" /\ e.reduction = FALSE
  BY DEF Prepared
<1> HIDE DEF e
<1>3. Sound(journal, e)
  BY <1>1, <1>2 DEF Sound
<1> QED BY <1>3 DEF e

\* The event a session starts to append is the one its method built.
LEMMA StartedEvent ==
    ASSUME JournalInv, NEW s \in Sessions, NEW e, NEW then, StartAppend(s, e, then)
    PROVE  op'[s].event = e
<1>1. op'[s] = [op[s] EXCEPT !.base = journal.generation, !.event = e, !.then = then]
      /\ DOMAIN op[s] = OpFields
  BY DEF JournalInv, BreakerInv, IInv, Shape, AppendOK, StartAppend, Goto
<1> QED BY <1>1 DEF OpFields

\* A session that has an event to create after its step had it before, or established
\* what it needs to be sound in the step.
LEMMA AppendStarts ==
    ASSUME CoverInv, NEW s \in Sessions, Proceed(s) \/ Call(s), pc'[s] \in {"create", "write"}
    PROVE  \/ pc[s] \in {"create", "write"} /\ op'[s] = op[s]
           \/ UNCHANGED journal /\ Sound(journal, op'[s].event)
<1> DEFINE Goal == \/ pc[s] \in {"create", "write"} /\ op'[s] = op[s]
                   \/ UNCHANGED journal /\ Sound(journal, op'[s].event)
<1>1. JournalInv /\ DOMAIN pc = Sessions /\ DOMAIN op = Sessions
  BY DEF CoverInv, JournalInv, BreakerInv, IInv, Shape
<1>2. \A step : Goto(s, step) => step \in {"create", "write"}
  BY <1>1 DEF Goto
<1>3. ~Finish(s)
  BY <1>2 DEF Finish
<1>4. ASSUME NEW e, NEW then, StartAppend(s, e, then), UNCHANGED journal, Sound(journal, e)
      PROVE  Goal
  BY <1>1, <1>4, StartedEvent
<1>5. CASE Create(s) \/ Write(s) \/ CreateConflict(s) \/ StoreFails(s) \/ Confirm(s)
           \/ ConfirmFails(s) \/ GuardFails(s)
  BY <1>2, <1>3, <1>5 DEF Create, Write, CreateConflict, StoreFails, Confirm, ConfirmFails,
     GuardFails, Fail
<1>6. CASE ReserveAfterBind(s)
  <2>1. /\ journal.domain = DomainOf[s] /\ UNCHANGED journal
        /\ StartAppend(s, Prepared(s, op[s].order, op[s].newRisk, FALSE), "grant")
    BY <1>3, <1>6 DEF ReserveAfterBind, store
  <2> QED BY <1>4, <2>1, ReserveSound
<1>7. CASE DispatchLock(s) \/ DispatchGuard(s) \/ Submit(s) \/ SubmitRaises(s)
  BY <1>2, <1>3, <1>7 DEF DispatchLock, DispatchGuard, Submit, SubmitRaises
<1>8. CASE RecordOutcome(s)
  <2>1. /\ StartAppend(s, Observed(op[s].attempt, op[s].report), "idle") /\ UNCHANGED journal
    BY <1>3, <1>8 DEF RecordOutcome, store
  <2> QED BY <1>4, <2>1 DEF Sound, Observed
<1>9. CASE OpenGuard(s)
  <2>1. StartAppend(s, [kind |-> "CIRCUIT_BREAKER_OPEN"], "idle") /\ UNCHANGED journal
    BY <1>2, <1>9 DEF OpenGuard, store
  <2> QED BY <1>4, <2>1 DEF Sound
<1>10. CASE \E o \in Orders, newRisk \in NewRiskFlags : Reserve(s, o, newRisk)
  <2>1. PICK o \in Orders, newRisk \in NewRiskFlags :
          /\ journal.domain = DomainOf[s] /\ UNCHANGED journal
          /\ StartAppend(s, Prepared(s, o, newRisk, FALSE), "grant")
    BY <1>10 DEF Reserve, store
  <2> QED BY <1>4, <2>1, ReserveSound
<1>11. CASE \E o \in Orders, newRisk \in NewRiskFlags : ReserveBinds(s, o, newRisk)
  <2>1. UNCHANGED journal /\ op'[s].event.kind = "DOMAIN_BOUND"
    BY <1>1, <1>11 DEF ReserveBinds, store, JournalInv, BreakerInv, IInv, AppendOK, OpFields
  <2> QED BY <2>1 DEF Sound
<1>12. CASE \E at \in 1..MaxTime, equity \in Equities, flow \in Flows, cash \in Cash,
               c \in SUBSET Present(journal) : RecordEquity(s, at, equity, flow, cash, c)
  <2>1. PICK at \in 1..MaxTime, equity \in Equities, flow \in Flows, cash \in Cash,
             c \in SUBSET Present(journal) : RecordEquity(s, at, equity, flow, cash, c)
    BY <1>12
  <2>2. /\ UNCHANGED journal
        /\ StartAppend(s, [kind |-> "EQUITY_OBSERVED", flow |-> flow, cash |-> cash,
                           snapshot |-> Snapshot(at, equity, flow, c)], "idle")
    BY <2>1 DEF RecordEquity, store
  <2>3. Sound(journal, [kind |-> "EQUITY_OBSERVED", flow |-> flow, cash |-> cash,
                        snapshot |-> Snapshot(at, equity, flow, c)])
    BY <2>1, EquitySound
  <2> QED BY <1>4, <2>2, <2>3
<1>13. CASE \E o \in Orders, perUnit \in PerUnits : ReserveRisk(s, o, perUnit)
  <2>1. PICK o \in Orders, perUnit \in PerUnits : ReserveRisk(s, o, perUnit)
    BY <1>13
  <2>2. /\ UNCHANGED journal
        /\ StartAppend(s, [kind |-> "RISK_RESERVED", order |-> o, perUnit |-> perUnit,
                           at |-> journal.equity.at], "idle")
    BY <2>1 DEF ReserveRisk, store
  <2> QED BY <1>4, <2>1, <2>2, RiskSound
<1>14. CASE \E a \in AttemptIds : ReconcileRisk(s, a)
  <2>1. PICK e : StartAppend(s, e, "idle") /\ UNCHANGED journal /\ e.kind = "RISK_RECONCILED"
    BY <1>14 DEF ReconcileRisk, store
  <2> QED BY <1>4, <2>1 DEF Sound
<1>15. CASE \E o \in Orders : ReserveReduction(s, o)
  <2>1. PICK o \in Orders : ReserveReduction(s, o)
    BY <1>15
  <2>2. UNCHANGED journal /\ StartAppend(s, Prepared(s, o, FALSE, TRUE), "grant")
    BY <2>1 DEF ReserveReduction, store
  <2> QED BY <1>4, <2>1, <2>2, ReductionSound
<1>16. CASE \E a \in AttemptIds, r \in Reports : RecordObservation(s, a, r)
  <2>1. PICK e : StartAppend(s, e, "idle") /\ UNCHANGED journal /\ e.kind = "OBSERVED"
    BY <1>16 DEF RecordObservation, Observed, store
  <2> QED BY <1>4, <2>1 DEF Sound
<1>17. CASE (\E a \in AttemptIds : DispatchBegin(s, a)) \/ OpenLock(s)
  BY <1>2, <1>17 DEF DispatchBegin, OpenLock
<1> QED BY <1>5, <1>6, <1>7, <1>8, <1>9, <1>10, <1>11, <1>12, <1>13, <1>14, <1>15, <1>16, <1>17
        DEF Proceed, Appending, Call

(***************************************************************************)
(* The invariant is kept.                                                  *)
(***************************************************************************)
\* Whatever becomes readable was decided on the journal it follows.
LEMMA SoundSteps ==
    ASSUME CoverInv, [Next]_vars, journal' # journal
    PROVE  \E s \in Sessions :
             /\ Ready(journal, op[s].event) /\ Sound(journal, op[s].event)
             /\ journal' = Replay(journal, op[s].event)
<1>1. JournalInv /\ IInv
  BY DEF CoverInv, JournalInv, BreakerInv
<1>2. PICK s \in Sessions :
        /\ pc[s] \in {"create", "write"} /\ op[s].base = journal.generation
        /\ Appendable(journal, op[s].event)
        /\ ReplayAccepts(journal, op[s].event) /\ journal' = Replay(journal, op[s].event)
  BY <1>1, JournalSteps
<1>3. EventOK(op[s].event) /\ Sound(journal, op[s].event)
  BY <1>1, <1>2 DEF CoverInv, Foreseen, JournalInv, SessionOK, JobOK
<1>4. /\ JournalShape(journal) /\ JournalTypeOK(journal) /\ FillsOK(journal)
      /\ \A a \in Present(journal) : a <= journal.generation
  BY <1>1 DEF JournalInv, TypeOK, FactsOK, IInv, Shape, AttemptsOK
<1> QED BY <1>2, <1>3, <1>4 DEF Ready

\* Every step keeps what the sessions foresee.
LEMMA StepKeepsForeseen ==
    ASSUME CoverInv, [Next]_vars, NEW t \in Sessions
    PROVE  Foreseen(t)'
<1>1. JournalInv /\ IInv
  BY DEF CoverInv, JournalInv, BreakerInv
<1> SUFFICES ASSUME pc'[t] \in {"create", "write"}, op'[t].base = journal'.generation
             PROVE  Sound(journal', op'[t].event)
  BY DEF Foreseen
<1>2. CASE journal' # journal
  <2>1. PICK s \in Sessions :
          /\ pc'[s] = "confirm" /\ \A r \in Sessions \ {s} : pc'[r] = pc[r]
          /\ UNCHANGED op
          /\ Appendable(journal, op[s].event) /\ journal' = Replay(journal, op[s].event)
    BY <1>1, <1>2, JournalSteps
  <2>2. journal.generation \in Nat /\ journal'.generation = journal.generation + 1
    BY <1>1, <2>1, ReplayCounts DEF IInv, Shape, JournalShape, Appendable
  <2>3. pc[t] = pc'[t] /\ op'[t] = op[t]
    BY <2>1
  <2>4. op[t].base <= journal.generation /\ op[t].base \in Nat
    BY <1>1, <2>3 DEF JournalInv, SessionOK, JobOK, IInv, AppendOK
  <2> QED BY <2>2, <2>3, <2>4
<1>3. CASE UNCHANGED journal
  <2>1. ASSUME pc'[t] = pc[t], op'[t] = op[t] PROVE Sound(journal', op'[t].event)
    BY <1>3, <2>1 DEF CoverInv, Foreseen
  <2>2. ASSUME NEW s \in Sessions, Proceed(s) \/ Call(s), s # t
        PROVE  Sound(journal', op'[t].event)
    BY <1>1, <2>1, <2>2, OneMoves
  <2>3. CASE Proceed(t) \/ Call(t)
    <3>1. \/ pc[t] \in {"create", "write"} /\ op'[t] = op[t]
          \/ Sound(journal, op'[t].event)
      BY <2>3, AppendStarts
    <3> QED BY <1>3, <3>1 DEF CoverInv, Foreseen
  <2>4. ASSUME NEW p \in Processes, Crash(p) PROVE pc'[t] = pc[t] /\ op'[t] = op[t]
    BY <1>1, <2>4 DEF Crash, IInv, Shape
  <2>5. CASE Tick \/ UNCHANGED vars
    BY <2>1, <2>5 DEF Tick, vars
  <2> QED BY <2>1, <2>2, <2>3, <2>4, <2>5 DEF Next
<1> QED BY <1>2, <1>3

\* It holds at the start: nothing is covered and nothing has filled.
LEMMA InitCover == Init => CoverInv
<1> SUFFICES ASSUME Init PROVE CoverInv
  OBVIOUS
<1>1. /\ journal.equity = NoEquity /\ journal.positionRisk = 0
      /\ journal.attempts = [a \in AttemptIds |-> NoAttempt]
  BY DEF Init, EmptyJournal
<1>2. Present(journal) = {} /\ Bought(journal) = {} /\ Sold(journal) = {}
  BY <1>1 DEF Present, NoAttempt, Bought, Sold
<1>3. ASSUME NEW f PROVE Total(f, {}) = 0
  <2>1. Units(f, {}) = {}
    BY DEF Units
  <2> QED BY <2>1, FS_EmptySet DEF Total
<1>4. /\ Total(journal.equity.covered, Bought(journal)) = 0
      /\ Net(journal, journal.equity.covered) = 0
  BY <1>2, <1>3 DEF Net
<1>5. CoverOK(journal)
  <2>1. \A a \in AttemptIds : journal.equity.covered[a] = -1 /\ journal.attempts[a].filled = 0
    BY <1>1 DEF NoEquity, NoAttempt
  <2>2. journal.equity.positionRisk = 0 /\ journal.equity.position = 0
    BY <1>1 DEF NoEquity
  <2> QED BY <1>1, <1>4, <2>1, <2>2 DEF CoverOK
<1>6. ReductionOK(journal)
  BY <1>1 DEF ReductionOK, NoAttempt
<1>7. \A s \in Sessions : Foreseen(s)
  BY DEF Init, Foreseen
<1> QED BY <1>5, <1>6, <1>7, InitJournal DEF CoverInv

\* Every step keeps the invariant of the snapshot.
LEMMA StepKeepsCover == CoverInv /\ [Next]_vars => CoverInv'
<1> SUFFICES ASSUME CoverInv, [Next]_vars PROVE CoverInv'
  OBVIOUS
<1>1. JournalInv'
  BY StepKeepsJournal DEF CoverInv
<1>2. CoverOK(journal)' /\ ReductionOK(journal)'
  <2>1. CASE UNCHANGED journal
    BY <2>1 DEF CoverInv
  <2>2. CASE journal' # journal
    <3>1. PICK s \in Sessions :
            /\ Ready(journal, op[s].event) /\ Sound(journal, op[s].event)
            /\ journal' = Replay(journal, op[s].event)
      BY <2>2, SoundSteps
    <3>2. CoverOK(journal') /\ ReductionOK(journal')
      BY <3>1, CoverAfter, ReductionAfter DEF CoverInv
    <3> QED BY <3>2
  <2> QED BY <2>1, <2>2
<1>3. \A s \in Sessions : Foreseen(s)'
  BY StepKeepsForeseen
<1> QED BY <1>1, <1>2, <1>3 DEF CoverInv

\* It holds always.
LEMMA CoverInvariant == Spec => []CoverInv
BY InitCover, StepKeepsCover, PTL DEF Spec

\* A reduction is submitted while its attempt is prepared, and since it was prepared
\* nobody could fill anything else.
THEOREM ReductionStaysWithinPosition == Spec => ReductionWithinPosition
<1> DEFINE A == \A a \in AttemptIds :
        sent'[a] # sent[a] /\ journal.attempts[a].reduction =>
            Reduces(Position, journal.attempts[a].order)
<1>1. ASSUME CoverInv, [Next]_vars PROVE A
  <2> SUFFICES ASSUME NEW a \in AttemptIds, sent'[a] # sent[a], journal.attempts[a].reduction
               PROVE  Reduces(Position, journal.attempts[a].order)
    OBVIOUS
  <2>1. PICK s \in Sessions : Submit(s) \/ SubmitRaises(s)
    BY <1>1, OnlySubmitSends
  <2>2. pc[s] = "sending" /\ op[s].attempt = a
    BY <1>1, <2>1 DEF Submit, SubmitRaises, CoverInv, JournalInv, BreakerInv, IInv, Shape
  <2>3. journal.attempts[a].certainty = "PREPARED"
    BY <1>1, <2>2 DEF CoverInv, JournalInv, SessionOK, OwnerOK
  <2> QED BY <1>1, <2>3 DEF CoverInv, ReductionOK, Position
<1>2. CoverInv /\ [Next]_vars => [A]_vars
  BY <1>1
<1> QED BY <1>2, CoverInvariant, PTL DEF Spec, ReductionWithinPosition

(***************************************************************************)
(* More about sums.                                                        *)
(***************************************************************************)
\* One key with a value of n has n units.
LEMMA UnitsOfOne ==
    ASSUME NEW x, NEW n \in Nat
    PROVE  IsFiniteSet({x} \X (1..n)) /\ Cardinality({x} \X (1..n)) = n
<1>1. IsFiniteSet({x}) /\ Cardinality({x}) = 1
  BY FS_Singleton
<1>2. IsFiniteSet(1..n) /\ Cardinality(1..n) = n
  BY FS_Interval
<1>3. /\ IsFiniteSet({x} \X (1..n))
      /\ Cardinality({x} \X (1..n)) = Cardinality({x}) * Cardinality(1..n)
  BY <1>1, <1>2, FS_Product
<1> QED BY <1>1, <1>2, <1>3

\* The sum over one key is its value.
LEMMA TotalOfOne == ASSUME NEW x, NEW f, f[x] \in Nat PROVE Total(f, {x}) = f[x]
<1>1. Units(f, {x}) = {x} \X (1..f[x])
  BY DEF Units
<1> QED BY <1>1, UnitsOfOne DEF Total

\* A sum of smaller numbers is smaller.
LEMMA TotalShrinks ==
    ASSUME NEW S, IsFiniteSet(S), NEW f, NEW g,
           \A x \in S : f[x] \in Int /\ g[x] \in Int, \A x \in S : f[x] <= g[x]
    PROVE  Total(f, S) <= Total(g, S)
<1>1. \A u : u \in Units(f, S) <=> \E x \in S : \E i \in 1..f[x] : u = <<x, i>>
  BY UnitsOf
<1>2. \A u : u \in Units(g, S) <=> \E x \in S : \E i \in 1..g[x] : u = <<x, i>>
  BY UnitsOf
<1>3. \A x \in S : \A i \in 1..f[x] : i \in 1..g[x]
  OBVIOUS
<1>4. Units(f, S) \in SUBSET Units(g, S)
  BY <1>1, <1>2, <1>3
<1>5. IsFiniteSet(Units(g, S))
  BY TotalType
<1> QED BY <1>4, <1>5, FS_Subset DEF Total

\* Where one summand grows by at most n, so does the sum.
LEMMA TotalGrows ==
    ASSUME NEW S, IsFiniteSet(S), NEW f, NEW g, \A x \in S : f[x] \in Int /\ g[x] \in Int,
           NEW y, NEW n \in Nat,
           \A x \in S \ {y} : f[x] <= g[x], y \in S => f[y] <= n
    PROVE  Total(f, S) <= Total(g, S) + n
<1> DEFINE new == {y} \X (1..n)
<1>1. /\ IsFiniteSet(Units(f, S)) /\ IsFiniteSet(Units(g, S))
      /\ Total(f, S) \in Nat /\ Total(g, S) \in Nat
  BY TotalType
<1>2. IsFiniteSet(new) /\ Cardinality(new) = n
  BY UnitsOfOne
<1>3. \A u \in Units(f, S) : u \in Units(g, S) \cup new
  <2>1. \A u : u \in Units(f, S) <=> \E x \in S : \E i \in 1..f[x] : u = <<x, i>>
    BY UnitsOf
  <2>2. \A u : u \in Units(g, S) <=> \E x \in S : \E i \in 1..g[x] : u = <<x, i>>
    BY UnitsOf
  <2> SUFFICES ASSUME NEW x \in S, NEW i \in 1..f[x]
               PROVE  <<x, i>> \in Units(g, S) \cup new
    BY <2>1
  <2>3. CASE x = y
    BY <2>3
  <2>4. CASE x # y
    BY <2>2, <2>4
  <2> QED BY <2>3, <2>4
<1> HIDE DEF new
<1>4. IsFiniteSet(Units(g, S) \cup new)
      /\ Cardinality(Units(g, S) \cup new) =
            Cardinality(Units(g, S)) + Cardinality(new) - Cardinality(Units(g, S) \cap new)
  BY <1>1, <1>2, FS_Union
<1>5. IsFiniteSet(Units(g, S) \cap new)
  BY <1>1, FS_Intersection
<1>6. Cardinality(Units(g, S) \cap new) \in Nat
  BY <1>5, FS_CardinalityType
<1>7. Units(f, S) \in SUBSET (Units(g, S) \cup new)
  BY <1>3
<1>8. Cardinality(Units(f, S)) <= Cardinality(Units(g, S) \cup new)
  BY <1>4, <1>7, FS_Subset
<1> QED BY <1>1, <1>2, <1>4, <1>6, <1>8 DEF Total

\* The parts of f's summands that exceed g's are covered by different summands of h.
LEMMA TotalSplits ==
    ASSUME NEW S, IsFiniteSet(S), NEW T, IsFiniteSet(T), NEW f, NEW g, NEW h,
           \A x \in S : f[x] \in Int /\ g[x] \in Int, \A y \in T : h[y] \in Int,
           NEW at,
           \A x \in S : f[x] > g[x] => at[x] \in T /\ f[x] <= g[x] + h[at[x]],
           \A x, z \in S : f[x] > g[x] /\ f[z] > g[z] /\ at[x] = at[z] => x = z
    PROVE  Total(f, S) <= Total(g, S) + Total(h, T)
<1> DEFINE low == {u \in Units(f, S) : u[2] <= g[u[1]]}
           high == {u \in Units(f, S) : ~(u[2] <= g[u[1]])}
           To == [u \in high |-> <<at[u[1]], u[2] - g[u[1]]>>]
<1>1. /\ IsFiniteSet(Units(f, S)) /\ IsFiniteSet(Units(g, S)) /\ IsFiniteSet(Units(h, T))
      /\ Total(f, S) \in Nat /\ Total(g, S) \in Nat /\ Total(h, T) \in Nat
  BY TotalType
<1>2. \A u : u \in Units(f, S) <=> \E x \in S : \E i \in 1..f[x] : u = <<x, i>>
  BY UnitsOf
<1>3. low \in SUBSET Units(g, S)
  <2>1. \A u : u \in Units(g, S) <=> \E x \in S : \E i \in 1..g[x] : u = <<x, i>>
    BY UnitsOf
  <2> SUFFICES ASSUME NEW x \in S, NEW i \in 1..f[x], i <= g[x] PROVE <<x, i>> \in Units(g, S)
    BY <1>2
  <2> QED BY <2>1
<1>4. To \in Injection(high, Units(h, T))
  <2>1. \A u : u \in Units(h, T) <=> \E y \in T : \E i \in 1..h[y] : u = <<y, i>>
    BY UnitsOf
  <2>2. ASSUME NEW u \in high
        PROVE  /\ u[1] \in S /\ u[2] \in Int /\ f[u[1]] > g[u[1]] /\ u = <<u[1], u[2]>>
               /\ <<at[u[1]], u[2] - g[u[1]]>> \in Units(h, T)
    <3>1. PICK x \in S : \E i \in 1..f[x] : u = <<x, i>>
      BY <1>2
    <3> PICK i \in 1..f[x] : u = <<x, i>>
      BY <3>1
    <3>2. i > g[x] /\ i \in Int
      OBVIOUS
    <3>3. at[x] \in T /\ f[x] <= g[x] + h[at[x]] /\ f[x] > g[x]
      BY <3>2
    <3>4. i - g[x] \in 1..h[at[x]]
      BY <3>2, <3>3
    <3>5. <<at[x], i - g[x]>> \in Units(h, T)
      BY <2>1, <3>3, <3>4
    <3> QED BY <3>2, <3>3, <3>5
  <2>3. To \in [high -> Units(h, T)]
    BY <2>2
  <2>4. ASSUME NEW u \in high, NEW v \in high, To[u] = To[v] PROVE u = v
    <3>1. at[u[1]] = at[v[1]] /\ u[2] - g[u[1]] = v[2] - g[v[1]]
      BY <2>4
    <3>2. u[1] = v[1]
      BY <2>2, <3>1
    <3>3. g[u[1]] \in Int /\ u[2] \in Int /\ v[2] \in Int
      BY <2>2
    <3>4. u[2] - g[u[1]] = v[2] - g[u[1]]
      BY <3>1, <3>2
    <3>5. u[2] = v[2]
      BY <3>3, <3>4
    <3> QED BY <2>2, <3>2, <3>5
  <2> HIDE DEF To, high
  <2> QED BY <2>3, <2>4 DEF Injection, IsInjective
<1>5. IsFiniteSet(low) /\ Cardinality(low) <= Total(g, S)
  BY <1>1, <1>3, FS_Subset DEF Total
<1>6. IsFiniteSet(high) /\ Cardinality(high) <= Total(h, T)
  BY <1>1, <1>4, FS_Injection DEF Total
<1>7. Units(f, S) = low \cup high
  OBVIOUS
<1> HIDE DEF low, high, To
<1>8. Cardinality(low \cup high) = Cardinality(low) + Cardinality(high) - Cardinality(low \cap high)
  BY <1>5, <1>6, FS_Union
<1>9. IsFiniteSet(low \cap high)
  BY <1>5, FS_Intersection
<1>10. /\ Cardinality(low \cap high) \in Nat /\ Cardinality(low) \in Nat
       /\ Cardinality(high) \in Nat
  BY <1>5, <1>6, <1>9, FS_CardinalityType
<1>11. Total(f, S) = Cardinality(low \cup high)
  BY <1>7 DEF Total
<1> QED BY <1>1, <1>5, <1>6, <1>8, <1>10, <1>11

(***************************************************************************)
(* Reservations and the attempts they back.                                *)
(***************************************************************************)
Openings(j, o) == {a \in Present(j) : j.attempts[a].order = o /\ ~j.attempts[a].reduction}

\* A reservation backs at most one attempt, and an attempt that is not a reduction has one.
UniqueOK(j) ==
    \A o \in Orders : \A a \in Openings(j, o) :
        Reserved(j, o) /\ \A b \in Openings(j, o) : a = b

\* What an order can still lose is reserved, or partly covered by the snapshot.
HeldOK(j) ==
    \A o \in Orders :
        \/ Exposure(j, o) <= j.risk[o].remaining
        \/ \E a \in Openings(j, o) : Exposure(j, o) <= j.risk[o].remaining + j.equity.covered[a]

\* A buying order of a reduction has no reservation of its own.
ReductionsApart(j) ==
    \A a \in Present(j) :
        j.attempts[a].reduction /\ j.attempts[a].order \notin Sells =>
            ~Reserved(j, j.attempts[a].order)

\* The opening's fills once they are final, all of the order before.
LEMMA ExposureIs ==
    ASSUME NEW j, JournalTypeOK(j), FillsOK(j), UniqueOK(j), NEW o \in Orders
    PROVE  /\ Exposure(j, o) \in Nat /\ Exposure(j, o) <= Quantity[o]
           /\ ~Reserved(j, o) \/ o \in Sells => Exposure(j, o) = 0
           /\ Reserved(j, o) /\ o \notin Sells =>
                /\ \A a \in Openings(j, o) :
                        j.attempts[a].certainty = "TERMINAL" =>
                            Exposure(j, o) = j.attempts[a].filled
                /\ (\A a \in Openings(j, o) : j.attempts[a].certainty # "TERMINAL") =>
                        Exposure(j, o) = Quantity[o]
<1>1. Quantity[o] \in Nat
  BY QuantityType
<1>2. CASE ~Reserved(j, o) \/ o \in Sells
  <2>1. Exposure(j, o) = 0
    BY <1>2 DEF Exposure
  <2> QED BY <1>1, <1>2, <2>1
<1>3. CASE Reserved(j, o) /\ o \notin Sells /\ Final(j, o) = {}
  <2>1. Exposure(j, o) = Quantity[o]
    BY <1>3 DEF Exposure
  <2>2. \A a \in Openings(j, o) : j.attempts[a].certainty # "TERMINAL"
    BY <1>3 DEF Final, Openings
  <2> QED BY <1>1, <1>3, <2>1, <2>2
<1>4. CASE Reserved(j, o) /\ o \notin Sells /\ Final(j, o) # {}
  <2>1. PICK a : a \in Final(j, o)
    BY <1>4
  <2>2. a \in Openings(j, o) /\ j.attempts[a].certainty = "TERMINAL" /\ a \in Present(j)
        /\ j.attempts[a].order = o /\ a \in AttemptIds
    BY <2>1 DEF Final, Openings, Present
  <2>3. Final(j, o) \subseteq Openings(j, o)
    BY DEF Final, Openings
  <2>4. \A b \in Openings(j, o) : b = a
    BY <2>2 DEF UniqueOK
  <2>5. Final(j, o) = {a}
    BY <2>1, <2>3, <2>4
  <2>6. j.attempts[a].filled \in Nat /\ j.attempts[a].filled <= Quantity[o]
    BY <1>1, <2>2 DEF FillsOK
  <2>7. Fills(j)[a] = j.attempts[a].filled
    BY <2>2 DEF Fills
  <2>8. Total(Fills(j), {a}) = j.attempts[a].filled
    BY <2>6, <2>7, TotalOfOne
  <2>9. Exposure(j, o) = j.attempts[a].filled
    BY <1>4, <2>5, <2>8 DEF Exposure
  <2> QED BY <1>4, <2>2, <2>4, <2>6, <2>9
<1> QED BY <1>2, <1>3, <1>4

\* A reservation appears once, and changes only when the fills of an attempt of its
\* order are reconciled.
LEMMA RiskAfter ==
    ASSUME NEW j, NEW e, Ready(j, e), NEW o \in Orders
    PROVE  LET k == Replay(j, e)
               a == e.attempt
           IN
           \/ k.risk[o] = j.risk[o]
           \/ /\ e.kind = "RISK_RESERVED" /\ o = e.order /\ ~Reserved(j, o)
              /\ e.perUnit \in Nat \ {0} /\ k.risk[o].perUnit = e.perUnit
              /\ k.risk[o].remaining = e.perUnit * Quantity[o]
           \/ /\ e.kind = "RISK_RECONCILED" /\ a \in Present(j) /\ o = j.attempts[a].order
              /\ Reserved(j, o) /\ k.risk[o].perUnit = j.risk[o].perUnit
              /\ j.equity.covered[a] = j.attempts[a].filled
              /\ k.risk[o].remaining =
                    IF j.attempts[a].certainty = "TERMINAL" THEN 0
                    ELSE j.risk[o].perUnit * (Quantity[o] - j.attempts[a].filled)
<1> DEFINE k == Replay(j, e)
           a == e.attempt
<1>1. JournalShape(j) /\ e.kind \in Kinds /\ j.risk \in [Orders -> RiskSet]
  BY DEF Ready, Appendable, JournalTypeOK
<1>2. CASE e.kind = "RISK_RESERVED"
  <2> DEFINE new == [perUnit |-> e.perUnit, remaining |-> e.perUnit * Quantity[e.order],
                     reconciled |-> 0, at |-> e.at]
  <2>1. k.risk = [j.risk EXCEPT ![e.order] = new]
    BY <1>1, <1>2, ReplayReserves
  <2>2. e.perUnit \in Nat \ {0} /\ ~Reserved(j, e.order) /\ e.order \in Orders
    BY <1>2 DEF Ready, ReplayAccepts, AcceptsRisk, EventOK
  <2>3. CASE o = e.order
    <3>1. k.risk[o] = new
      BY <1>1, <2>1, <2>3
    <3> QED BY <1>2, <2>2, <2>3, <3>1
  <2>4. CASE o # e.order
    BY <1>1, <2>1, <2>4
  <2> QED BY <2>3, <2>4
<1>3. CASE e.kind = "RISK_RECONCILED"
  <2>1. Reconcilable(j, a, e.filled) /\ a \in AttemptIds
    BY <1>3 DEF Ready, ReplayAccepts, AcceptsReconciled, EventOK
  <2>2. a \in Present(j) /\ Reserved(j, j.attempts[a].order)
        /\ j.equity.covered[a] = j.attempts[a].filled /\ e.filled = j.attempts[a].filled
    BY <2>1 DEF Reconcilable, Present
  <2>3. k.risk = [j.risk EXCEPT ![j.attempts[a].order] = AfterReconcile(j, e)]
    BY <1>1, <1>3, ReplayReconciles
  <2>4. CASE o = j.attempts[a].order
    <3>1. k.risk[o] = AfterReconcile(j, e)
      BY <1>1, <2>3, <2>4
    <3> DEFINE left == IF j.attempts[a].certainty = "TERMINAL" THEN 0
                       ELSE j.risk[o].perUnit * (Quantity[o] - j.attempts[a].filled)
               res == j.risk[o]
    <3>2. AfterReconcile(j, e) = [res EXCEPT !.reconciled = e.filled, !.remaining = left]
      BY <2>2, <2>4 DEF AfterReconcile
    <3>3. res \in RiskSet
      BY <1>1
    <3> HIDE DEF left, res
    <3>4. /\ AfterReconcile(j, e).perUnit = res.perUnit
          /\ AfterReconcile(j, e).remaining = left
      BY <3>2, <3>3 DEF RiskSet
    <3> QED BY <1>3, <2>2, <2>4, <3>1, <3>4 DEF left, res
  <2>5. CASE o # j.attempts[a].order
    BY <1>1, <2>3, <2>5
  <2> QED BY <2>4, <2>5
<1>4. CASE e.kind \notin {"RISK_RESERVED", "RISK_RECONCILED"}
  BY <1>1, <1>4, ReplayParts
<1> QED BY <1>2, <1>3, <1>4

\* What is reserved for an order is released by nothing but its reconciliation.
LEMMA ReservedStays ==
    ASSUME NEW j, NEW e, Ready(j, e), NEW o \in Orders, Reserved(j, o)
    PROVE  Reserved(Replay(j, e), o)
BY RiskAfter DEF Reserved

\* An event adds an opening only where a reservation has none.
LEMMA UniqueAfter ==
    ASSUME NEW j, NEW e, Ready(j, e), Sound(j, e), AccountAlwaysBound, UniqueOK(j)
    PROVE  /\ UniqueOK(Replay(j, e))
           /\ \A o \in Orders : Openings(j, o) \subseteq Openings(Replay(j, e), o)
           /\ \A o \in Orders : \A a \in Openings(Replay(j, e), o) \ Openings(j, o) :
                Replay(j, e).attempts[a].certainty = "PREPARED" /\ Openings(j, o) = {}
<1> DEFINE k == Replay(j, e)
           n == j.generation + 1
<1>1. /\ e.kind # "PREPARED" => Present(k) = Present(j)
      /\ e.kind = "PREPARED" =>
            /\ Present(k) = Present(j) \cup {n}
            /\ n \notin Present(j) /\ k.attempts[n] = PreparedAttempt(j, e)
      /\ \A a \in Present(j) :
            /\ k.attempts[a].order = j.attempts[a].order
            /\ k.attempts[a].reduction = j.attempts[a].reduction
  BY AttemptsAfter
<1>2. \A o \in Orders : Reserved(j, o) => Reserved(k, o)
  BY ReservedStays
<1> HIDE DEF k, n
<1>3. \A o \in Orders : Openings(j, o) \subseteq Openings(k, o)
  BY <1>1 DEF Openings
<1>4. CASE e.kind = "PREPARED" /\ ~e.reduction
  <2>1. Reserved(j, e.order) /\ ~ReservationUsed(j, e.order)
    BY <1>4 DEF Ready, ReplayAccepts, AcceptsPrepared, Sound
  <2>2. Openings(j, e.order) = {}
    BY <2>1 DEF Openings, ReservationUsed
  <2>3. PreparedAttempt(j, e).order = e.order /\ PreparedAttempt(j, e).certainty = "PREPARED"
    BY DEF PreparedAttempt
  <2>4. \A o \in Orders \ {e.order} : Openings(k, o) = Openings(j, o)
    BY <1>1, <1>4, <2>3 DEF Openings
  <2>5. Openings(k, e.order) \subseteq {n}
    BY <1>1, <1>4, <2>2 DEF Openings
  <2>6. UniqueOK(k)
    BY <1>2, <2>1, <2>4, <2>5 DEF UniqueOK
  <2>7. \A o \in Orders : \A a \in Openings(k, o) \ Openings(j, o) :
            k.attempts[a].certainty = "PREPARED" /\ Openings(j, o) = {}
    BY <1>1, <1>4, <2>2, <2>3, <2>4, <2>5
  <2> QED BY <1>3, <2>6, <2>7 DEF k
<1>5. CASE ~(e.kind = "PREPARED" /\ ~e.reduction)
  <2>1. \A o \in Orders : Openings(k, o) = Openings(j, o)
    <3>1. PreparedAttempt(j, e).reduction = e.reduction
      BY DEF PreparedAttempt
    <3> QED BY <1>1, <1>5, <3>1 DEF Openings
  <2>2. UniqueOK(k)
    BY <1>2, <2>1 DEF UniqueOK
  <2> QED BY <2>1, <2>2 DEF k
<1> QED BY <1>4, <1>5

\* What an order can lose grows only when its risk is reserved.
LEMMA ExposureAfter ==
    ASSUME NEW j, NEW e, Ready(j, e), Sound(j, e), AccountAlwaysBound, UniqueOK(j),
           NEW o \in Orders, ~(e.kind = "RISK_RESERVED" /\ e.order = o)
    PROVE  Exposure(Replay(j, e), o) <= Exposure(j, o)
<1> DEFINE k == Replay(j, e)
<1>1. /\ JournalTypeOK(j) /\ FillsOK(j) /\ JournalTypeOK(k) /\ FillsOK(k) /\ UniqueOK(k)
      /\ Openings(j, o) \subseteq Openings(k, o)
      /\ \A a \in Openings(k, o) \ Openings(j, o) :
            k.attempts[a].certainty = "PREPARED" /\ Openings(j, o) = {}
  BY AttemptsAfter, UniqueAfter DEF Ready
<1>2. Reserved(k, o) <=> Reserved(j, o)
  BY RiskAfter DEF Reserved
<1>3. \A a \in Present(j) : k.attempts[a] = j.attempts[a] \/ j.attempts[a].certainty # "TERMINAL"
  BY AttemptsAfter DEF Settled
<1>4. /\ Exposure(k, o) \in Nat /\ Exposure(k, o) <= Quantity[o]
      /\ ~Reserved(k, o) \/ o \in Sells => Exposure(k, o) = 0
      /\ Reserved(k, o) /\ o \notin Sells =>
            \A a \in Openings(k, o) :
                k.attempts[a].certainty = "TERMINAL" => Exposure(k, o) = k.attempts[a].filled
  BY <1>1, ExposureIs
<1>5. /\ Exposure(j, o) \in Nat
      /\ Reserved(j, o) /\ o \notin Sells =>
            /\ \A a \in Openings(j, o) :
                    j.attempts[a].certainty = "TERMINAL" => Exposure(j, o) = j.attempts[a].filled
            /\ (\A a \in Openings(j, o) : j.attempts[a].certainty # "TERMINAL") =>
                    Exposure(j, o) = Quantity[o]
  BY <1>1, ExposureIs
<1> HIDE DEF k
<1>6. CASE ~Reserved(j, o) \/ o \in Sells
  BY <1>2, <1>4, <1>5, <1>6 DEF k
<1>7. CASE Reserved(j, o) /\ o \notin Sells
  <2>1. CASE \A a \in Openings(j, o) : j.attempts[a].certainty # "TERMINAL"
    BY <1>4, <1>5, <1>7, <2>1 DEF k
  <2>2. CASE \E a \in Openings(j, o) : j.attempts[a].certainty = "TERMINAL"
    <3>1. PICK a \in Openings(j, o) : j.attempts[a].certainty = "TERMINAL"
      BY <2>2
    <3>2. a \in Present(j) /\ a \in Openings(k, o)
      BY <1>1 DEF Openings
    <3>3. k.attempts[a] = j.attempts[a]
      BY <1>3, <3>1, <3>2
    <3>4. Exposure(k, o) = Exposure(j, o)
      BY <1>2, <1>4, <1>5, <1>7, <3>1, <3>2, <3>3
    <3> QED BY <1>5, <3>4 DEF k
  <2> QED BY <2>1, <2>2
<1> QED BY <1>6, <1>7

\* A unit of an order is reserved with at least 1.
LEMMA ReservedShare ==
    ASSUME NEW p \in Nat \ {0}, NEW q \in Nat
    PROVE  p * q \in Nat /\ q <= p * q
<1>1. PICK r \in Nat : p = r + 1
  <2>1. p - 1 \in Nat /\ p = (p - 1) + 1
    OBVIOUS
  <2> QED BY <2>1
<1>2. r * q \in Nat
  BY ProductIsNat
<1>3. p * q = r * q + q
  BY <1>1
<1> QED BY <1>2, <1>3

\* Every event keeps what an order can still lose reserved or covered.
LEMMA HeldAfter ==
    ASSUME NEW j, NEW e, Ready(j, e), Sound(j, e), AccountAlwaysBound, UniqueOK(j),
           CoverOK(j), HeldOK(j), ReductionsApart(j)
    PROVE  HeldOK(Replay(j, e))
<1> DEFINE k == Replay(j, e)
<1>1. /\ JournalTypeOK(j) /\ FillsOK(j) /\ JournalTypeOK(k) /\ FillsOK(k) /\ UniqueOK(k)
      /\ JournalShape(j) /\ e.kind \in Kinds
  BY AttemptsAfter, UniqueAfter DEF Ready, Appendable
<1> SUFFICES ASSUME NEW o \in Orders
             PROVE  \/ Exposure(k, o) <= k.risk[o].remaining
                    \/ \E a \in Openings(k, o) :
                            Exposure(k, o) <= k.risk[o].remaining + k.equity.covered[a]
  BY DEF HeldOK
<1>2. /\ Exposure(k, o) \in Nat /\ Exposure(k, o) <= Quantity[o]
      /\ ~Reserved(k, o) \/ o \in Sells => Exposure(k, o) = 0
      /\ Reserved(k, o) /\ o \notin Sells =>
            \A a \in Openings(k, o) :
                k.attempts[a].certainty = "TERMINAL" => Exposure(k, o) = k.attempts[a].filled
  BY <1>1, ExposureIs
<1>3. Quantity[o] \in Nat /\ k.risk[o].remaining \in Nat /\ j.risk[o].remaining \in Nat
  BY <1>1, QuantityType DEF JournalTypeOK, RiskSet
<1>4. Openings(j, o) \subseteq Openings(k, o)
  BY UniqueAfter
<1>5. k.equity = IF e.kind = "EQUITY_OBSERVED" THEN e.snapshot ELSE j.equity
  BY <1>1, ReplayParts
<1>6. /\ \A a \in AttemptIds : k.equity.covered[a] \in Int /\ j.equity.covered[a] \in Int
      /\ \A a \in AttemptIds : k.equity.covered[a] >= j.equity.covered[a]
  <2>1. \A a \in AttemptIds : k.equity.covered[a] \in Int /\ j.equity.covered[a] \in Int
    BY <1>1, JournalAssumption DEF JournalTypeOK, SnapshotOK
  <2>2. CASE e.kind = "EQUITY_OBSERVED"
    <3>1. \A a \in AttemptIds : j.equity.covered[a] <= e.snapshot.covered[a]
      BY <2>2 DEF Sound
    <3> HIDE DEF k
    <3> QED BY <1>5, <2>1, <2>2, <3>1
  <2>3. CASE e.kind # "EQUITY_OBSERVED"
    <3> HIDE DEF k
    <3> QED BY <1>5, <2>1, <2>3
  <2> QED BY <2>1, <2>2, <2>3
<1>7. CASE k.risk[o] = j.risk[o] /\ ~(e.kind = "RISK_RESERVED" /\ e.order = o)
  <2>1. Exposure(k, o) <= Exposure(j, o) /\ Exposure(j, o) \in Nat
    BY <1>1, <1>7, ExposureAfter, ExposureIs
  <2>2. \/ Exposure(j, o) <= j.risk[o].remaining
        \/ \E a \in Openings(j, o) : Exposure(j, o) <= j.risk[o].remaining + j.equity.covered[a]
    BY DEF HeldOK
  <2>3. Openings(j, o) \subseteq AttemptIds
    BY DEF Openings, Present
  <2> HIDE DEF k
  <2>4. CASE Exposure(j, o) <= j.risk[o].remaining
    BY <1>2, <1>3, <1>7, <2>1, <2>4
  <2>5. CASE \E a \in Openings(j, o) :
                Exposure(j, o) <= j.risk[o].remaining + j.equity.covered[a]
    <3>1. PICK a \in Openings(j, o) :
            Exposure(j, o) <= j.risk[o].remaining + j.equity.covered[a]
      BY <2>5
    <3>2. a \in Openings(k, o) /\ a \in AttemptIds
      BY <1>4, <2>3
    <3>3. Exposure(k, o) <= k.risk[o].remaining + k.equity.covered[a]
      BY <1>2, <1>3, <1>6, <1>7, <2>1, <3>1, <3>2
    <3> QED BY <3>2, <3>3
  <2> QED BY <2>2, <2>4, <2>5
<1>8. CASE e.kind = "RISK_RESERVED" /\ e.order = o
  <2>1. /\ e.perUnit \in Nat \ {0} /\ ~Reserved(j, o)
    BY <1>8 DEF Ready, ReplayAccepts, AcceptsRisk, EventOK
  <2>2. k.risk[o].remaining = e.perUnit * Quantity[o]
    <3>1. k.risk[o].perUnit = e.perUnit
      <4>1. k.risk = [j.risk EXCEPT ![o] = [perUnit |-> e.perUnit,
                        remaining |-> e.perUnit * Quantity[o], reconciled |-> 0, at |-> e.at]]
        BY <1>1, <1>8, ReplayReserves
      <4>2. j.risk \in [Orders -> RiskSet]
        BY <1>1 DEF JournalTypeOK
      <4> HIDE DEF k
      <4> QED BY <4>1, <4>2
    <3>2. k.risk[o] # j.risk[o]
      BY <2>1, <3>1 DEF Reserved
    <3> QED BY <1>8, <3>2, RiskAfter
  <2>3. Quantity[o] <= e.perUnit * Quantity[o] /\ e.perUnit * Quantity[o] \in Nat
    BY <1>3, <2>1, ReservedShare
  <2>4. Exposure(k, o) <= k.risk[o].remaining
    <3> HIDE DEF k
    <3> QED BY <1>2, <1>3, <2>2, <2>3
  <2> QED BY <2>4
<1>9. CASE e.kind = "RISK_RECONCILED" /\ k.risk[o] # j.risk[o]
  <2> DEFINE b == e.attempt
             p == j.risk[o].perUnit
             f == j.attempts[b].filled
  <2>1. /\ b \in Present(j) /\ o = j.attempts[b].order /\ Reserved(j, o)
        /\ j.equity.covered[b] = f
        /\ k.risk[o].remaining = IF j.attempts[b].certainty = "TERMINAL" THEN 0
                                 ELSE p * (Quantity[o] - f)
    BY <1>9, RiskAfter
  <2>2. CASE o \in Sells
    <3> HIDE DEF k
    <3> QED BY <1>2, <1>3, <2>2
  <2>3. CASE o \notin Sells
    <3>1. b \in Openings(k, o) /\ b \in Openings(j, o) /\ b \in AttemptIds
      BY <1>4, <2>1, <2>3 DEF ReductionsApart, Openings, Present
    <3>2. /\ k.attempts = j.attempts /\ k.equity = j.equity
      BY <1>1, <1>5, <1>9, ReplayKeepsAttempts
    <3>3. Reserved(k, o)
      BY <2>1, ReservedStays
    <3>4. f \in Nat /\ f <= Quantity[o] /\ p \in Nat \ {0}
      <4>1. p \in Nat /\ p > 0
        BY <1>1, <2>1 DEF JournalTypeOK, RiskSet, Reserved
      <4>2. f \in 0..Quantity[o] /\ Quantity[o] \in Nat
        BY <1>1, <1>3, <2>1 DEF FillsOK
      <4> QED BY <4>1, <4>2
    <3>5. k.equity.covered[b] = f
      BY <2>1, <3>2
    <3> HIDE DEF k, f, p
    <3>6. CASE j.attempts[b].certainty = "TERMINAL"
      <4>1. Exposure(k, o) = f
        BY <1>2, <2>3, <3>1, <3>2, <3>3, <3>6 DEF f
      <4> QED BY <2>1, <3>1, <3>4, <3>5, <3>6, <4>1
    <3>7. CASE j.attempts[b].certainty # "TERMINAL"
      <4>1. Quantity[o] - f \in Nat
        BY <1>3, <3>4
      <4>2. /\ p * (Quantity[o] - f) \in Nat
            /\ Quantity[o] - f <= p * (Quantity[o] - f)
        BY <3>4, <4>1, ReservedShare
      <4>3. k.risk[o].remaining = p * (Quantity[o] - f)
        BY <2>1, <3>7
      <4>4. Exposure(k, o) <= k.risk[o].remaining + k.equity.covered[b]
        BY <1>2, <1>3, <3>4, <3>5, <4>2, <4>3
      <4> QED BY <3>1, <4>4
    <3> QED BY <3>6, <3>7
  <2> QED BY <2>2, <2>3
<1>10. \/ k.risk[o] = j.risk[o]
       \/ e.kind = "RISK_RESERVED" /\ e.order = o
       \/ e.kind = "RISK_RECONCILED" /\ k.risk[o] # j.risk[o]
  BY RiskAfter
<1> QED BY <1>7, <1>8, <1>9, <1>10

(***************************************************************************)
(* The account's risk.                                                     *)
(***************************************************************************)
Exposures(j) == [o \in Orders |-> Exposure(j, o)]

\* The snapshot counts what it covers of an opening, and the reservation the rest.
LEMMA ExposedIsAccounted ==
    ASSUME NEW j, JournalTypeOK(j), FillsOK(j), UniqueOK(j), CoverOK(j), HeldOK(j)
    PROVE  /\ Total(Exposures(j), Orders) \in Nat /\ AccountedRisk(j) \in Nat
           /\ Total(Exposures(j), Orders) <= AccountedRisk(j)
<1> DEFINE f == Exposures(j)
           g == [o \in Orders |-> j.risk[o].remaining]
           h == j.equity.covered
           at == [o \in Orders |-> CHOOSE a \in Openings(j, o) : f[o] <= g[o] + h[a]]
<1>1. IsFiniteSet(Orders)
  BY JournalAssumption
<1>2. ASSUME NEW o \in Orders
      PROVE  /\ f[o] \in Nat /\ g[o] \in Nat
             /\ o \in Sells => f[o] = 0
             /\ f[o] <= g[o] \/ \E a \in Openings(j, o) : f[o] <= g[o] + h[a]
  <2>1. Exposure(j, o) \in Nat /\ (o \in Sells => Exposure(j, o) = 0)
    BY ExposureIs
  <2>2. j.risk[o].remaining \in Nat
    BY DEF JournalTypeOK, RiskSet
  <2>3. f[o] = Exposure(j, o)
    BY DEF Exposures
  <2>4. g[o] = j.risk[o].remaining
    OBVIOUS
  <2>5. \/ Exposure(j, o) <= j.risk[o].remaining
        \/ \E a \in Openings(j, o) : Exposure(j, o) <= j.risk[o].remaining + h[a]
    BY DEF HeldOK
  <2> QED BY <2>1, <2>2, <2>3, <2>4, <2>5
<1>3. \A a \in Bought(j) : h[a] \in Int
  BY JournalAssumption DEF JournalTypeOK, SnapshotOK, Bought, Present
<1> HIDE DEF f, g, h
<1>4. ASSUME NEW o \in Orders, f[o] > g[o]
      PROVE  at[o] \in Openings(j, o) /\ f[o] <= g[o] + h[at[o]] /\ at[o] \in Bought(j)
  <2>1. \E a \in Openings(j, o) : f[o] <= g[o] + h[a]
    BY <1>2, <1>4
  <2>2. at[o] \in Openings(j, o) /\ f[o] <= g[o] + h[at[o]]
    BY <2>1
  <2>3. o \notin Sells
    BY <1>2, <1>4
  <2> QED BY <2>2, <2>3 DEF Openings, Bought
<1> HIDE DEF at
<1>5. \A x, z \in Orders : f[x] > g[x] /\ f[z] > g[z] /\ at[x] = at[z] => x = z
  BY <1>4 DEF Openings
<1>6. IsFiniteSet(Bought(j))
  BY PresentFinite
<1>7. Total(f, Orders) <= Total(g, Orders) + Total(h, Bought(j))
  <2>1. \A x \in Orders : f[x] \in Int /\ g[x] \in Int
    BY <1>2
  <2>2. \A x \in Orders : f[x] > g[x] => at[x] \in Bought(j) /\ f[x] <= g[x] + h[at[x]]
    BY <1>4
  <2> QED BY <1>1, <1>3, <1>5, <1>6, <2>1, <2>2, TotalSplits
<1>8. Total(f, Orders) \in Nat /\ Total(g, Orders) \in Nat /\ Total(h, Bought(j)) \in Nat
  <2>1. \A x \in Orders : f[x] \in Int /\ g[x] \in Int
    BY <1>2
  <2> QED BY <1>1, <1>3, <1>6, <2>1, TotalType
<1>9. AccountedRisk(j) = Total(h, Bought(j)) + Total(g, Orders)
  BY DEF AccountedRisk, CoverOK, g, h
<1> QED BY <1>7, <1>8, <1>9 DEF f

\* The limit was checked for what a reservation adds, and nothing else adds risk.
LEMMA ExposedAfter ==
    ASSUME NEW j, NEW e, Ready(j, e), Sound(j, e), AccountAlwaysBound, UniqueOK(j),
           CoverOK(j), HeldOK(j), Total(Exposures(j), Orders) <= TotalLimit
    PROVE  Total(Exposures(Replay(j, e)), Orders) <= TotalLimit
<1> DEFINE k == Replay(j, e)
           f == Exposures(k)
           g == Exposures(j)
<1>1. JournalTypeOK(j) /\ FillsOK(j) /\ JournalTypeOK(k) /\ FillsOK(k) /\ UniqueOK(k)
  BY AttemptsAfter, UniqueAfter DEF Ready
<1>2. ASSUME NEW o \in Orders
      PROVE  /\ f[o] = Exposure(k, o) /\ g[o] = Exposure(j, o)
             /\ f[o] \in Nat /\ g[o] \in Nat /\ f[o] <= Quantity[o]
  BY <1>1, ExposureIs DEF Exposures
<1>3. /\ \A o \in Orders : f[o] \in Int /\ g[o] \in Int
      /\ IsFiniteSet(Orders) /\ TotalLimit \in Nat
  BY <1>2, JournalAssumption, SubmissionAssumption
<1>4. Total(f, Orders) \in Nat /\ Total(g, Orders) \in Nat
  <2> HIDE DEF f, g
  <2> QED BY <1>3, TotalType
<1>5. CASE e.kind = "RISK_RESERVED"
  <2> DEFINE o == e.order
             q == Quantity[o]
  <2>1. o \in Orders /\ e.perUnit \in Nat \ {0} /\ q \in Nat
    BY <1>5, QuantityType DEF Ready, ReplayAccepts, AcceptsRisk, EventOK
  <2>2. AccountedRisk(j) + e.perUnit * q <= TotalLimit
    BY <1>5 DEF Sound
  <2>3. q <= e.perUnit * q /\ e.perUnit * q \in Nat
    BY <2>1, ReservedShare
  <2>4. AccountedRisk(j) \in Nat /\ Total(g, Orders) <= AccountedRisk(j)
    BY <1>1, ExposedIsAccounted
  <2>5. \A x \in Orders \ {o} : f[x] <= g[x]
    BY <1>2, ExposureAfter
  <2>6. f[o] <= q
    BY <1>2, <2>1
  <2> HIDE DEF k, f, g, o, q
  <2>7. Total(f, Orders) <= Total(g, Orders) + q
    BY <1>3, <2>1, <2>5, <2>6, TotalGrows
  <2>8. Total(f, Orders) <= TotalLimit
    BY <1>3, <1>4, <2>1, <2>2, <2>3, <2>4, <2>7
  <2> QED BY <2>8 DEF k, f
<1>6. CASE e.kind # "RISK_RESERVED"
  <2>1. \A x \in Orders : f[x] <= g[x]
    BY <1>2, <1>6, ExposureAfter
  <2> HIDE DEF k, f, g
  <2>2. Total(f, Orders) <= Total(g, Orders)
    BY <1>3, <2>1, TotalShrinks
  <2>3. Total(g, Orders) <= TotalLimit
    BY DEF g
  <2> QED BY <1>3, <1>4, <2>2, <2>3 DEF f, k
<1> QED BY <1>5, <1>6

(***************************************************************************)
(* The invariant of an account that was always bound.                      *)
(***************************************************************************)
RiskInv ==
    /\ CoverInv /\ UniqueOK(journal) /\ HeldOK(journal)
    /\ Total(Exposures(journal), Orders) <= TotalLimit

\* Every reduction sells.
ReductionsSell ==
    \A a \in Present(journal) :
        journal.attempts[a].reduction => journal.attempts[a].order \in Sells

\* A snapshot never shows a short position, so a reduction always sells.
LEMMA ReductionsAreSales == Spec => []ReductionsSell
<1>1. Init => ReductionsSell
  BY DEF Init, EmptyJournal, ReductionsSell, Present, NoAttempt
<1>2. CoverInv /\ ReductionsSell /\ [Next]_vars => ReductionsSell'
  <2> SUFFICES ASSUME CoverInv, ReductionsSell, [Next]_vars PROVE ReductionsSell'
    OBVIOUS
  <2>1. CASE UNCHANGED journal
    BY <2>1 DEF ReductionsSell
  <2>2. CASE journal' # journal
    <3>1. PICK s \in Sessions :
            /\ Ready(journal, op[s].event) /\ Sound(journal, op[s].event)
            /\ journal' = Replay(journal, op[s].event)
      BY <2>2, SoundSteps
    <3> DEFINE e == op[s].event
               n == journal.generation + 1
    <3>2. /\ e.kind # "PREPARED" => Present(journal') = Present(journal)
          /\ e.kind = "PREPARED" =>
                /\ Present(journal') = Present(journal) \cup {n}
                /\ journal'.attempts[n] = PreparedAttempt(journal, e)
          /\ \A a \in Present(journal) :
                /\ journal'.attempts[a].order = journal.attempts[a].order
                /\ journal'.attempts[a].reduction = journal.attempts[a].reduction
      BY <3>1, AttemptsAfter
    <3>3. ASSUME e.kind = "PREPARED", e.reduction PROVE e.order \in Sells
      BY <3>1, <3>3 DEF Sound
    <3>4. /\ PreparedAttempt(journal, e).order = e.order
          /\ PreparedAttempt(journal, e).reduction = e.reduction
      BY DEF PreparedAttempt
    <3> HIDE DEF e, n
    <3> QED BY <3>2, <3>3, <3>4 DEF ReductionsSell
  <2> QED BY <2>1, <2>2
<1> QED BY <1>1, <1>2, CoverInvariant, PTL DEF Spec

\* The invariant of the reservations holds at the start.
LEMMA InitRisk == Init => RiskInv
<1> SUFFICES ASSUME Init PROVE RiskInv
  OBVIOUS
<1>1. CoverInv
  BY InitCover
<1>2. \A o \in Orders : journal.risk[o] = NoRisk
  BY DEF Init, EmptyJournal
<1>3. Present(journal) = {}
  BY DEF Init, EmptyJournal, Present, NoAttempt
<1>4. UniqueOK(journal)
  BY <1>3 DEF UniqueOK, Openings
<1>5. \A o \in Orders : Exposure(journal, o) = 0 /\ journal.risk[o].remaining = 0
  BY <1>2 DEF Exposure, Reserved, NoRisk
<1>6. HeldOK(journal)
  BY <1>5 DEF HeldOK
<1>7. Total(Exposures(journal), Orders) = 0
  <2>1. \A o \in Orders : Exposures(journal)[o] = 0
    BY <1>5 DEF Exposures
  <2>2. Units(Exposures(journal), Orders) = {}
    BY <2>1 DEF Units
  <2> QED BY <2>2, FS_EmptySet DEF Total
<1> QED BY <1>1, <1>4, <1>6, <1>7, SubmissionAssumption DEF RiskInv

\* Every step keeps it.
LEMMA StepKeepsRisk ==
    ASSUME AccountAlwaysBound
    PROVE  RiskInv /\ ReductionsSell /\ [Next]_vars => RiskInv'
<1> SUFFICES ASSUME RiskInv, ReductionsSell, [Next]_vars PROVE RiskInv'
  OBVIOUS
<1>1. CoverInv'
  BY StepKeepsCover DEF RiskInv
<1>2. /\ UniqueOK(journal)' /\ HeldOK(journal)'
      /\ (Total(Exposures(journal), Orders) <= TotalLimit)'
  <2>1. CASE UNCHANGED journal
    BY <2>1 DEF RiskInv
  <2>2. CASE journal' # journal
    <3>1. PICK s \in Sessions :
            /\ Ready(journal, op[s].event) /\ Sound(journal, op[s].event)
            /\ journal' = Replay(journal, op[s].event)
      BY <2>2, SoundSteps DEF RiskInv
    <3>2. /\ UniqueOK(journal) /\ HeldOK(journal) /\ CoverOK(journal)
          /\ ReductionsApart(journal) /\ Total(Exposures(journal), Orders) <= TotalLimit
      BY DEF RiskInv, CoverInv, ReductionsSell, ReductionsApart
    <3>3. UniqueOK(journal') /\ HeldOK(journal')
      BY <3>1, <3>2, UniqueAfter, HeldAfter
    <3>4. Total(Exposures(journal'), Orders) <= TotalLimit
      BY <3>1, <3>2, ExposedAfter
    <3> QED BY <3>3, <3>4
  <2> QED BY <2>1, <2>2
<1> QED BY <1>1, <1>2 DEF RiskInv

\* It bounds the risk of all orders together.
LEMMA RiskInvMeans == RiskInv => RiskNeverUndercounted
<1> SUFFICES ASSUME RiskInv PROVE RiskNeverUndercounted
  OBVIOUS
<1>1. /\ JournalTypeOK(journal) /\ FillsOK(journal) /\ UniqueOK(journal)
      /\ CoverOK(journal) /\ HeldOK(journal)
  BY DEF RiskInv, CoverInv, JournalInv, TypeOK, FactsOK
<1>2. Total(Exposures(journal), Orders) <= AccountedRisk(journal)
  BY <1>1, ExposedIsAccounted
<1>3. ExposedRisk = Total(Exposures(journal), Orders)
  BY DEF ExposedRisk, Exposures
<1> QED BY <1>2, <1>3 DEF RiskInv, RiskNeverUndercounted

\* On an account whose orders are all reserved under its domain, what open orders and
\* holdings can lose is never more than the journal accounts for, nor than the limit,
\* whatever sessions race, fail and crash.
THEOREM RiskIsNeverUndercounted ==
    ASSUME AccountAlwaysBound
    PROVE  Spec => []RiskNeverUndercounted
<1>1. RiskInv /\ ReductionsSell /\ [Next]_vars => RiskInv'
  BY StepKeepsRisk
<1> QED BY <1>1, InitRisk, RiskInvMeans, ReductionsAreSales, PTL DEF Spec

(***************************************************************************)
(* An account that opens by buying is never short.  Its sales are          *)
(* reductions, of which one at most can still fill, and the position       *)
(* covers what it can still sell.                                          *)
(***************************************************************************)
\* The account is never short.
LongOnly == Position >= 0

\* No risk is reserved for an order that sells: no session opens a short position.
OpensByBuying == \A o \in Sells : ~Reserved(journal, o)

\* The sales that may still be filled.
OpenSales(j) == {a \in Sold(j) : j.attempts[a].certainty # "TERMINAL"}

\* The position covers what the one open sale can still fill.
SalesOK(j) ==
    /\ Net(j, Fills(j)) >= 0
    /\ \A a, b \in OpenSales(j) : a = b
    /\ \A a \in OpenSales(j) :
          Net(j, Fills(j)) >= Quantity[j.attempts[a].order] - j.attempts[a].filled

\* The sums of a journal's fills are numbers.
LEMMA FillsAddUp ==
    ASSUME NEW j, JournalTypeOK(j)
    PROVE  /\ \A a \in AttemptIds : Fills(j)[a] = j.attempts[a].filled /\ Fills(j)[a] \in Nat
           /\ Total(Fills(j), Bought(j)) \in Nat /\ Total(Fills(j), Sold(j)) \in Nat
           /\ Net(j, Fills(j)) \in Int
<1>1. \A a \in AttemptIds : Fills(j)[a] = j.attempts[a].filled /\ Fills(j)[a] \in Nat
  BY DEF Fills, JournalTypeOK, AttemptSet
<1>2. Bought(j) \subseteq AttemptIds /\ Sold(j) \subseteq AttemptIds
  BY DEF Bought, Sold, Present
<1>3. Total(Fills(j), Bought(j)) \in Nat /\ Total(Fills(j), Sold(j)) \in Nat
  BY <1>1, <1>2, PresentFinite, TotalType
<1> QED BY <1>1, <1>3 DEF Net

\* A sale that is entered finds no other and a position that covers it.
LEMMA SalesAfterPrepare ==
    ASSUME NEW j, NEW e, Ready(j, e), Sound(j, e), SalesOK(j), AccountAlwaysBound,
           \A o \in Sells : ~Reserved(j, o), e.kind = "PREPARED"
    PROVE  SalesOK(Replay(j, e))
<1> DEFINE k == Replay(j, e)
           n == j.generation + 1
           p == PreparedAttempt(j, e)
<1>1. /\ JournalTypeOK(j) /\ JournalTypeOK(k)
      /\ Present(k) = Present(j) \cup {n} /\ n \in AttemptIds /\ n \notin Present(j)
      /\ k.attempts[n] = p
      /\ \A a \in Present(j) : /\ k.attempts[a] = j.attempts[a]
                               /\ a \in AttemptIds
  BY AttemptsAfter DEF Ready, Present
<1>2. p.order = e.order /\ p.filled = 0 /\ p.reduction = e.reduction
  BY DEF PreparedAttempt
<1>3. Net(j, Fills(j)) = Net(k, Fills(k))
  <2> HIDE DEF k, n, p
  <2>1. \A a \in AttemptIds : /\ Fills(j)[a] = j.attempts[a].filled
                             /\ Fills(k)[a] = k.attempts[a].filled
    BY <1>1, FillsAddUp
  <2>2. 1..Fills(k)[n] = {}
    BY <1>1, <1>2, <2>1
  <2> QED BY <1>1, <2>1, <2>2, SameNet
<1>4. Net(j, Fills(j)) \in Int /\ Net(j, Fills(j)) >= 0
  BY <1>1, FillsAddUp DEF SalesOK
<1>5. CASE e.order \in Sells
  <2>1. e.reduction
    BY <1>5 DEF Ready, ReplayAccepts, AcceptsPrepared, Sound
  <2>2. /\ \A a \in Present(j) : j.attempts[a].certainty = "TERMINAL"
        /\ Reduces(Net(j, Fills(j)), e.order)
    BY <2>1 DEF Sound
  <2>3. Quantity[e.order] <= Net(j, Fills(j))
    BY <1>5, <2>2 DEF Reduces
  <2> HIDE DEF k, n, p
  <2>4. OpenSales(k) \subseteq {n}
    BY <1>1, <2>2 DEF OpenSales, Sold
  <2>5. Quantity[e.order] \in Int
    BY <1>5, JournalAssumption, QuantityType
  <2>6. k.attempts[n].order = e.order /\ k.attempts[n].filled = 0
    BY <1>1, <1>2
  <2> QED BY <1>3, <1>4, <2>3, <2>4, <2>5, <2>6 DEF SalesOK, k
<1>6. CASE e.order \notin Sells
  <2> HIDE DEF k, n, p
  <2>1. OpenSales(k) = OpenSales(j)
    BY <1>1, <1>2, <1>6 DEF OpenSales, Sold
  <2>2. \A a \in OpenSales(j) : k.attempts[a] = j.attempts[a]
    BY <1>1 DEF OpenSales, Sold
  <2> QED BY <1>3, <2>1, <2>2 DEF SalesOK, k
<1> QED BY <1>5, <1>6

\* What an observation adds to the fills of one attempt changes the position by as much.
LEMMA PositionAfterFill ==
    ASSUME NEW j, NEW k, JournalTypeOK(j), JournalTypeOK(k), Present(k) = Present(j),
           NEW a \in Present(j),
           \A b \in Present(j) : k.attempts[b].order = j.attempts[b].order,
           \A b \in Present(j) \ {a} : k.attempts[b] = j.attempts[b],
           k.attempts[a].filled >= j.attempts[a].filled
    PROVE  /\ a \in Bought(j) => Net(k, Fills(k)) >= Net(j, Fills(j))
           /\ a \in Sold(j) =>
                Net(k, Fills(k)) >=
                    Net(j, Fills(j)) - (k.attempts[a].filled - j.attempts[a].filled)
<1> DEFINE f == Fills(k)
           g == Fills(j)
           d == k.attempts[a].filled - j.attempts[a].filled
<1>1. Bought(k) = Bought(j) /\ Sold(k) = Sold(j)
  BY DEF Bought, Sold
<1>2. /\ \A b \in AttemptIds : f[b] = k.attempts[b].filled /\ f[b] \in Nat
      /\ \A b \in AttemptIds : g[b] = j.attempts[b].filled /\ g[b] \in Nat
      /\ Total(f, Bought(j)) \in Nat /\ Total(f, Sold(j)) \in Nat
      /\ Total(g, Bought(j)) \in Nat /\ Total(g, Sold(j)) \in Nat
  BY <1>1, FillsAddUp
<1>3. Present(j) \subseteq AttemptIds /\ Bought(j) \subseteq Present(j)
      /\ Sold(j) \subseteq Present(j)
  BY DEF Present, Bought, Sold
<1>4. d \in Nat /\ f[a] = g[a] + d /\ \A b \in Present(j) \ {a} : f[b] = g[b]
  BY <1>2, <1>3
<1>5. /\ Net(k, f) = Total(f, Bought(j)) - Total(f, Sold(j))
      /\ Net(j, g) = Total(g, Bought(j)) - Total(g, Sold(j))
  BY <1>1 DEF Net
<1> HIDE DEF f, g, d
<1>6. \A b \in Present(j) : f[b] \in Nat /\ g[b] \in Nat /\ g[b] <= f[b]
  BY <1>2, <1>3, <1>4
<1>7. Total(g, Bought(j)) <= Total(f, Bought(j))
  BY <1>3, <1>6, PresentFinite, TotalShrinks
<1>8. ASSUME a \in Bought(j) PROVE Total(f, Sold(j)) <= Total(g, Sold(j))
  <2>1. a \notin Sold(j)
    BY <1>8 DEF Bought, Sold
  <2>2. \A b \in Sold(j) : f[b] \in Int /\ g[b] \in Int /\ f[b] <= g[b]
    BY <1>3, <1>4, <1>6, <2>1
  <2> QED BY <2>2, PresentFinite, TotalShrinks
<1>9. Total(f, Sold(j)) <= Total(g, Sold(j)) + d
  <2> DEFINE h == [b \in {a} |-> d]
             at == [b \in Sold(j) |-> a]
  <2>1. Total(h, {a}) = d
    BY <1>4, TotalOfOne
  <2>2. IsFiniteSet({a}) /\ IsFiniteSet(Sold(j))
    BY PresentFinite, FS_Singleton
  <2>3. \A b \in Sold(j) : f[b] > g[b] => b = a
    BY <1>3, <1>4, <1>6
  <2>4. h[a] = d /\ \A b \in Sold(j) : at[b] = a
    OBVIOUS
  <2> HIDE DEF h, at
  <2>5. \A b \in Sold(j) : f[b] > g[b] => at[b] \in {a} /\ f[b] <= g[b] + h[at[b]]
    BY <1>4, <1>6, <2>3, <2>4, <1>3
  <2>6. \A b, c \in Sold(j) : f[b] > g[b] /\ f[c] > g[c] /\ at[b] = at[c] => b = c
    BY <2>3
  <2>7. \A b \in Sold(j) : f[b] \in Int /\ g[b] \in Int
    BY <1>3, <1>6
  <2>8. \A b \in {a} : h[b] \in Int
    BY <1>4, <2>4
  <2>9. Total(f, Sold(j)) <= Total(g, Sold(j)) + Total(h, {a})
    BY <2>2, <2>5, <2>6, <2>7, <2>8, TotalSplits
  <2> QED BY <2>1, <2>9
<1>10. a \in Bought(j) => Net(k, f) >= Net(j, g)
  BY <1>2, <1>5, <1>7, <1>8
<1>11. Net(k, f) >= Net(j, g) - d
  BY <1>2, <1>4, <1>5, <1>7, <1>9
<1> QED BY <1>10, <1>11 DEF f, g, d

\* A fill of the open sale leaves a position that covers the rest of it.
LEMMA SalesAfterObservation ==
    ASSUME NEW j, NEW e, Ready(j, e), SalesOK(j), e.kind = "OBSERVED"
    PROVE  SalesOK(Replay(j, e))
<1> DEFINE k == Replay(j, e)
           a == e.attempt
           q == Quantity[j.attempts[a].order]
<1>1. /\ JournalTypeOK(j) /\ JournalTypeOK(k) /\ FillsOK(j) /\ FillsOK(k)
      /\ Present(k) = Present(j)
      /\ \A b \in Present(j) :
            /\ k.attempts[b].order = j.attempts[b].order
            /\ k.attempts[b].filled >= j.attempts[b].filled
            /\ k.attempts[b] = j.attempts[b] \/ b = a
  BY AttemptsAfter DEF Ready
<1>2. a \in Present(j) /\ j.attempts[a].certainty # "TERMINAL"
  BY DEF Ready, ReplayAccepts, AcceptsObserved, EventOK, Present, Settled
<1>3. /\ Net(j, Fills(j)) \in Int /\ Net(k, Fills(k)) \in Int
      /\ \A b \in AttemptIds : j.attempts[b].filled \in Nat /\ k.attempts[b].filled \in Nat
  BY <1>1, FillsAddUp
<1> HIDE DEF k, a
<1>4. /\ a \in Bought(j) => Net(k, Fills(k)) >= Net(j, Fills(j))
      /\ a \in Sold(j) =>
            Net(k, Fills(k)) >= Net(j, Fills(j)) - (k.attempts[a].filled - j.attempts[a].filled)
  BY <1>1, <1>2, PositionAfterFill
<1>5. OpenSales(k) \subseteq OpenSales(j)
  BY <1>1, <1>2 DEF OpenSales, Sold
<1>6. \A b, c \in OpenSales(k) : b = c
  BY <1>5 DEF SalesOK
<1>7. /\ OpenSales(j) \subseteq Present(j) /\ Present(j) \subseteq AttemptIds
      /\ \A b \in Present(j) : j.attempts[b].order \in Orders
      /\ \A o \in Orders : Quantity[o] \in Nat
  BY <1>1, QuantityType DEF OpenSales, Sold, Present, FillsOK
<1>8. CASE a \in Sold(j)
  <2>1. a \in OpenSales(j)
    BY <1>2, <1>8 DEF OpenSales
  <2>2. Net(j, Fills(j)) >= q - j.attempts[a].filled
    BY <2>1 DEF SalesOK
  <2>3. /\ q \in Nat /\ j.attempts[a].filled \in Nat /\ k.attempts[a].filled \in Nat
        /\ k.attempts[a].filled <= q
    BY <1>1, <1>2, <1>3, <1>7 DEF FillsOK
  <2> HIDE DEF q
  <2>4. Net(k, Fills(k)) >= q - k.attempts[a].filled
    BY <1>3, <1>4, <1>8, <2>2, <2>3
  <2>5. Net(k, Fills(k)) >= 0
    BY <1>3, <2>3, <2>4
  <2>6. \A b \in OpenSales(k) : b = a
    BY <1>5, <2>1 DEF SalesOK
  <2>7. Quantity[k.attempts[a].order] = q
    BY <1>1, <1>2 DEF q
  <2> QED BY <1>6, <2>4, <2>5, <2>6, <2>7 DEF SalesOK, k
<1>9. CASE a \notin Sold(j)
  <2>1. Net(k, Fills(k)) >= Net(j, Fills(j))
    BY <1>2, <1>4, <1>9 DEF Sold, Bought
  <2>2. Net(k, Fills(k)) >= 0
    BY <1>3, <2>1 DEF SalesOK
  <2> SUFFICES ASSUME NEW b \in OpenSales(k)
               PROVE  Net(k, Fills(k)) >= Quantity[k.attempts[b].order] - k.attempts[b].filled
    BY <1>6, <2>2 DEF SalesOK, k
  <2>3. b \in OpenSales(j) /\ b # a
    BY <1>5, <1>9 DEF OpenSales
  <2>4. k.attempts[b] = j.attempts[b]
    BY <1>1, <1>7, <2>3
  <2>5. Net(j, Fills(j)) >= Quantity[j.attempts[b].order] - j.attempts[b].filled
    BY <2>3 DEF SalesOK
  <2>6. Quantity[j.attempts[b].order] \in Nat /\ j.attempts[b].filled \in Nat
    BY <1>3, <1>7, <2>3
  <2> QED BY <1>3, <2>1, <2>4, <2>5, <2>6
<1> QED BY <1>8, <1>9

\* Every event keeps the position at what the open sale can still fill.
LEMMA SalesAfter ==
    ASSUME NEW j, NEW e, Ready(j, e), Sound(j, e), SalesOK(j), AccountAlwaysBound,
           \A o \in Sells : ~Reserved(j, o)
    PROVE  SalesOK(Replay(j, e))
<1>1. CASE e.kind \notin {"PREPARED", "OBSERVED"}
  <2>1. Replay(j, e).attempts = j.attempts
    BY <1>1, ReplayKeepsAttempts DEF Ready, Appendable
  <2> QED BY <2>1 DEF SalesOK, OpenSales, Sold, Bought, Present, Net, Fills
<1> QED BY <1>1, SalesAfterPrepare, SalesAfterObservation

\* Where the account's orders are reserved under its domain and no risk is reserved for
\* an order that sells, no interleaving of fills, reductions and snapshots sells more
\* than was bought.
THEOREM AccountIsNeverShort ==
    ASSUME AccountAlwaysBound
    PROVE  Spec /\ []OpensByBuying => []LongOnly
<1> DEFINE Covered == SalesOK(journal)
<1>1. Init => Covered
  <2> SUFFICES ASSUME Init PROVE Covered
    OBVIOUS
  <2>1. Present(journal) = {}
    BY DEF Init, EmptyJournal, Present, NoAttempt
  <2>2. Bought(journal) = {} /\ Sold(journal) = {}
    BY <2>1 DEF Bought, Sold
  <2>3. JournalTypeOK(journal)
    BY InitJournal DEF JournalInv, TypeOK
  <2>4. Net(journal, Fills(journal)) = 0
    BY <2>2, <2>3, FillsAddUp DEF Net
  <2> QED BY <2>2, <2>4 DEF SalesOK, OpenSales
<1>2. CoverInv /\ OpensByBuying /\ Covered /\ [Next]_vars => Covered'
  <2> SUFFICES ASSUME CoverInv, OpensByBuying, Covered, [Next]_vars PROVE Covered'
    OBVIOUS
  <2>1. CASE UNCHANGED journal
    BY <2>1
  <2>2. CASE journal' # journal
    <3>1. PICK s \in Sessions :
            /\ Ready(journal, op[s].event) /\ Sound(journal, op[s].event)
            /\ journal' = Replay(journal, op[s].event)
      BY <2>2, SoundSteps
    <3> QED BY <3>1, SalesAfter DEF OpensByBuying
  <2> QED BY <2>1, <2>2
<1>3. Covered => LongOnly
  BY DEF SalesOK, LongOnly, Position
<1> HIDE DEF Covered
<1> QED BY <1>1, <1>2, <1>3, CoverInvariant, PTL DEF Spec

(***************************************************************************)
(* The journal implements the ledger.  An event that becomes readable      *)
(* enters an order, adds to what is known of one or opens the breaker, or  *)
(* changes nothing the ledger shows; a submit sends.                       *)
(***************************************************************************)
LEMMA LedgerOf ==
    ASSUME NEW j, NEW a \in AttemptIds
    PROVE  /\ OrdersOf(j)[a].certainty = j.attempts[a].certainty
           /\ OrdersOf(j)[a].intent = j.attempts[a].intent
           /\ OrdersOf(j)[a].order = j.attempts[a].order
           /\ OrdersOf(j)[a].newRisk = j.attempts[a].newRisk
BY DEF OrdersOf

\* One attempt changes: so does the ledger, at its place.
LEMMA LedgerChanges ==
    ASSUME NEW j, NEW k, NEW a \in AttemptIds, 
           \A b \in AttemptIds \ {a} : k.attempts[b] = j.attempts[b]
    PROVE  OrdersOf(k) = [OrdersOf(j) EXCEPT ![a] = OrdersOf(k)[a]]
<1> DEFINE new == OrdersOf(k)
           old == OrdersOf(j)
<1>1. new = [b \in AttemptIds |-> new[b]] /\ old = [b \in AttemptIds |-> old[b]]
  BY DEF OrdersOf
<1>2. \A b \in AttemptIds \ {a} : new[b] = old[b]
  BY DEF OrdersOf
<1> HIDE DEF new, old
<1> QED BY <1>1, <1>2 DEF new, old

LEMMA LedgerPrepares ==
    ASSUME NEW e, Ready(journal, e), e.kind = "PREPARED", journal' = Replay(journal, e),
           UNCHANGED sent
    PROVE  \E a \in AttemptIds : Ledger!Prepare(a)
<1> DEFINE n == journal.generation + 1
           new == OrdersOf(journal')[n]
           p == PreparedAttempt(journal, e)
<1>1. /\ JournalShape(journal) /\ n \in AttemptIds /\ n \notin Present(journal)
      /\ e.intent \in Intents /\ e.order \in Orders /\ e.newRisk \in BOOLEAN
      /\ AcceptsPrepared(journal, e)
  BY JournalAssumption DEF Ready, Appendable, EventOK, ReplayAccepts, AttemptIds, JournalShape
<1>2. journal'.attempts = [journal.attempts EXCEPT ![n] = p]
  BY <1>1, ReplayPrepares
<1>3. /\ journal'.attempts[n] = p
      /\ \A b \in AttemptIds \ {n} : journal'.attempts[b] = journal.attempts[b]
  BY <1>1, <1>2 DEF JournalShape
<1>4. new = [certainty |-> "PREPARED", intent |-> e.intent, order |-> e.order,
             newRisk |-> e.newRisk, id |-> "none", filled |-> 0]
  BY <1>1, <1>3 DEF PreparedAttempt, NoReport, OrdersOf
<1>5. OrdersOf(journal)[n].certainty = "ABSENT"
  BY <1>1, LedgerOf DEF Present
<1>6. Ledger!Entry(new)
  <2> HIDE DEF new
  <2> QED BY <1>1, <1>4 DEF Ledger!Entry
<1>7. Ledger!Clear
  <2>1. ~HasUnresolved(journal)
    BY <1>1 DEF AcceptsPrepared
  <2> QED BY <2>1, LedgerOf DEF Ledger!Clear, HasUnresolved, Unresolved
<1>8. ~Ledger!Entered(new.intent, new.order)
  <2>1. ~PairUsed(journal, e.intent, e.order) /\ new.intent = e.intent /\ new.order = e.order
    BY <1>1, <1>4 DEF AcceptsPrepared
  <2> HIDE DEF new
  <2> QED BY <2>1, LedgerOf DEF Ledger!Entered, PairUsed, Present
<1>9. new.newRisk => ~journal.breakerOpen
  BY <1>1, <1>4 DEF AcceptsPrepared
<1>10. Ledger!Changes(n)
  <2>1. UNCHANGED journal.breakerOpen
    BY <1>1, ReplayBreaker DEF Kinds
  <2> HIDE DEF n, p
  <2>2. OrdersOf(journal') = [OrdersOf(journal) EXCEPT ![n] = OrdersOf(journal')[n]]
    BY <1>1, <1>3, LedgerChanges
  <2> QED BY <2>1, <2>2 DEF Ledger!Changes
<1>11. Ledger!Prepare(n)
  <2> HIDE DEF n
  <2> QED BY <1>5, <1>6, <1>7, <1>8, <1>9, <1>10 DEF Ledger!Prepare
<1> QED BY <1>1, <1>11

LEMMA LedgerObserves ==
    ASSUME NEW e, Ready(journal, e), e.kind = "OBSERVED", journal' = Replay(journal, e),
           UNCHANGED sent
    PROVE  \E a \in AttemptIds : Ledger!Observe(a)
<1> DEFINE a == e.attempt
           att == journal.attempts[a]
           o == ObservedAttempt(journal, e)
           old == OrdersOf(journal)[a]
           new == OrdersOf(journal')[a]
<1>1. /\ JournalShape(journal) /\ a \in AttemptIds /\ AcceptsObserved(journal, e)
      /\ e.report \in ReportSet /\ FillsOK(journal)
      /\ att \in AttemptSet
  BY DEF Ready, EventOK, ReplayAccepts, JournalTypeOK
<1>2. a \in Present(journal)
  BY <1>1 DEF AcceptsObserved, Present
<1>3. journal'.attempts = [journal.attempts EXCEPT ![a] = o]
  BY <1>1, ReplayObserves
<1>4. /\ journal'.attempts[a] = o
      /\ \A b \in AttemptIds \ {a} : journal'.attempts[b] = journal.attempts[b]
  BY <1>1, <1>3 DEF JournalShape
<1>5. /\ o.certainty \in {"UNKNOWN", "TERMINAL", "KNOWN_PENDING"}
      /\ o.intent = att.intent /\ o.order = att.order /\ o.newRisk = att.newRisk
      /\ o.seen = e.report /\ o.filled = e.report.filled
  BY <1>1, CertaintyOfReport DEF ObservedAttempt, AttemptSet
<1>6. old = [certainty |-> att.certainty, intent |-> att.intent, order |-> att.order,
             newRisk |-> att.newRisk, id |-> att.seen.id, filled |-> att.filled]
  BY <1>1 DEF OrdersOf
<1>7. new = [certainty |-> o.certainty, intent |-> att.intent, order |-> att.order,
             newRisk |-> att.newRisk, id |-> e.report.id, filled |-> e.report.filled]
  BY <1>1, <1>4, <1>5 DEF OrdersOf
<1>8. /\ att.certainty \in {"PREPARED", "KNOWN_PENDING"}
      /\ att.seen.id # "none" => e.report.id = att.seen.id
      /\ e.report.filled \in att.filled..Quantity[att.order]
  BY <1>1 DEF AcceptsObserved, Settled, AttemptSet, Certainties
<1>9. Ledger!Learns(old, new)
  <2> HIDE DEF old, new, o, att
  <2>1. /\ old.certainty = att.certainty /\ old.id = att.seen.id /\ old.filled = att.filled
        /\ old.order = att.order
        /\ new.certainty = o.certainty /\ new.id = e.report.id /\ new.filled = e.report.filled
    BY <1>6, <1>7
  <2> DEFINE Of == [certainty: {att.certainty, o.certainty}, intent: {att.intent},
                    order: {att.order}, newRisk: {att.newRisk},
                    id: {att.seen.id, e.report.id}, filled: {att.filled, e.report.filled}]
  <2>2. old \in Of /\ new \in Of
    BY <1>6, <1>7
  <2>3. new = [old EXCEPT !.certainty = new.certainty, !.id = new.id, !.filled = new.filled]
    BY <2>2
  <2> QED BY <1>5, <1>8, <2>1, <2>3 DEF Ledger!Learns
<1>10. Ledger!Changes(a)
  <2>1. UNCHANGED journal.breakerOpen
    BY <1>1, ReplayBreaker DEF Kinds
  <2>2. /\ a \in AttemptIds
        /\ \A b \in AttemptIds \ {a} : journal'.attempts[b] = journal.attempts[b]
    BY <1>1, <1>4
  <2> HIDE DEF a, o, att, old, new
  <2>3. OrdersOf(journal') = [OrdersOf(journal) EXCEPT ![a] = OrdersOf(journal')[a]]
    BY <2>2, LedgerChanges
  <2> QED BY <2>1, <2>3 DEF Ledger!Changes
<1>11. Ledger!Observe(a)
  <2> HIDE DEF a
  <2> QED BY <1>9, <1>10 DEF Ledger!Observe
<1> QED BY <1>1, <1>11

\* An event of another kind.
LEMMA LedgerKeeps ==
    ASSUME NEW e, Ready(journal, e), e.kind \notin {"PREPARED", "OBSERVED"},
           journal' = Replay(journal, e), UNCHANGED sent
    PROVE  Ledger!Open \/ UNCHANGED Ledger!vars
<1>1. JournalShape(journal) /\ e.kind \in Kinds
  BY DEF Ready, Appendable
<1>2. UNCHANGED OrdersOf(journal)
  <2>1. journal'.attempts = journal.attempts
    BY <1>1, ReplayKeepsAttempts
  <2> QED BY <2>1 DEF OrdersOf
<1>3. CASE e.kind = "CIRCUIT_BREAKER_OPEN"
  <2>1. ReplayAccepts(journal, e)
    BY DEF Ready
  <2>2. ~journal.breakerOpen
    BY <1>3, <2>1 DEF ReplayAccepts, AcceptsOpen
  <2>3. journal'.breakerOpen = TRUE
    BY <1>1, <1>3 DEF JournalShape, JournalFields, Replay
  <2> QED BY <1>2, <2>2, <2>3 DEF Ledger!Open
<1>4. CASE e.kind # "CIRCUIT_BREAKER_OPEN"
  BY <1>1, <1>2, <1>4, ReplayBreaker DEF Ledger!vars
<1> QED BY <1>3, <1>4

LEMMA LedgerSends ==
    ASSUME JournalInv, NEW s \in Sessions, Submit(s) \/ SubmitRaises(s), sent' # sent
    PROVE  \E a \in AttemptIds : Ledger!Send(a)
<1> DEFINE a == op[s].attempt
<1>1. /\ pc[s] = "sending" /\ UNCHANGED journal
      /\ \E n \in {0, 1} : sent' = [sent EXCEPT ![a] = @ + n]
  BY DEF Submit, SubmitRaises, store
<1>2. a \in AttemptIds /\ sent[a] = 0 /\ sent \in [AttemptIds -> Nat]
  BY <1>1 DEF JournalInv, BreakerInv, IInv, Shape, DispatchOK
<1>3. /\ journal.attempts[a].certainty = "PREPARED"
      /\ journal.attempts[a].newRisk => ~journal.breakerOpen
  BY <1>1 DEF JournalInv, BreakerInv, BarOK, SessionOK, OwnerOK
<1> HIDE DEF a
<1>4. sent' = [sent EXCEPT ![a] = 1]
  <2>1. PICK n \in {0, 1} : sent' = [sent EXCEPT ![a] = @ + n]
    BY <1>1
  <2>2. n = 1
    <3> SUFFICES ASSUME n = 0 PROVE sent' = sent
      OBVIOUS
    <3> QED BY <1>2, <2>1
  <2> QED BY <1>2, <2>1, <2>2
<1>5. /\ OrdersOf(journal)[a].certainty = "PREPARED"
      /\ OrdersOf(journal)[a].newRisk => ~journal.breakerOpen
  <2>1. /\ OrdersOf(journal)[a].certainty = journal.attempts[a].certainty
        /\ OrdersOf(journal)[a].newRisk = journal.attempts[a].newRisk
    BY <1>2, LedgerOf
  <2> QED BY <1>3, <2>1
<1>6. Ledger!Send(a)
  BY <1>1, <1>2, <1>4, <1>5 DEF Ledger!Send
<1> QED BY <1>2, <1>6

LEMMA StepImplementsLedger ==
    ASSUME CoverInv, [Next]_vars
    PROVE  [Ledger!Next]_(Ledger!vars)
<1>1. CASE sent' # sent
  <2>1. PICK s \in Sessions : Submit(s) \/ SubmitRaises(s)
    BY <1>1, OnlySubmitSends
  <2> QED BY <1>1, <2>1, LedgerSends DEF CoverInv, Ledger!Next
<1>2. CASE journal' # journal /\ sent' = sent
  <2>1. PICK s \in Sessions :
          Ready(journal, op[s].event) /\ journal' = Replay(journal, op[s].event)
    BY <1>2, SoundSteps
  <2> QED BY <1>2, <2>1, LedgerPrepares, LedgerObserves, LedgerKeeps DEF Ledger!Next
<1>3. CASE journal' = journal /\ sent' = sent
  BY <1>3 DEF Ledger!vars
<1> QED BY <1>1, <1>2, <1>3

LEMMA InitLedger == ASSUME Init PROVE Ledger!Init
<1>1. journal.attempts = [a \in AttemptIds |-> NoAttempt] /\ journal.breakerOpen = FALSE
  BY DEF Init, EmptyJournal
<1>2. OrdersOf(journal) = [a \in AttemptIds |-> Ledger!Blank]
  BY <1>1 DEF OrdersOf, NoAttempt, NoReport, Ledger!Blank
<1> QED BY <1>1, <1>2 DEF Init, Ledger!Init

\* However sessions race, fail and crash, what becomes readable and what is sent are
\* the steps of one ledger.
THEOREM JournalImplementsLedger == Spec => ImplementsLedger
<1>1. Init => Ledger!Init
  BY InitLedger
<1>2. CoverInv /\ [Next]_vars => [Ledger!Next]_(Ledger!vars)
  BY StepImplementsLedger
<1> QED BY <1>1, <1>2, CoverInvariant, PTL DEF Spec, ImplementsLedger, Ledger!Spec
=============================================================================
