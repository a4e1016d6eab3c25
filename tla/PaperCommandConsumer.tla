------------------------ MODULE PaperCommandConsumer ------------------------
(***************************************************************************)
(* Paper workers consume the queue of durable execution commands           *)
(* (ExecutionCommandStore and consume_due_paper_execution_commands).       *)
(*                                                                         *)
(* A command's history is the sequence of its event objects.  append_event *)
(* reads it, decides, and later creates the object at the next sequence    *)
(* number; the create is atomic and fails when the number is taken.  A     *)
(* store operation can also raise, and what it was to create may be        *)
(* durable nevertheless.  A worker runs for a session date, claims the     *)
(* commands of that date one by one, and never has a broker.               *)
(*                                                                         *)
(* What reconcile_command finds and proposes is a choice; the verdict on   *)
(* the command follows from it by the gates of CommandGates.  Two reads of *)
(* one history with nothing in between, whose difference would only make   *)
(* the create conflict, are one.                                           *)
(***************************************************************************)
EXTENDS Integers, Sequences, CommandGates

CONSTANTS
    Commands, Workers,
    Sessions,   \* session dates
    Content,    \* the immutable command, see CommandGates
    Runtime,    \* the runtime a worker belongs to, see CommandGates
    Reports,    \* sets of findings reconcile_command may report
    Proposals,  \* sets of exposure effects it may propose
    MaxFaults   \* bound: store operations and reconciliations that raise

ASSUME ConsumerAssumption ==
    /\ \A effects \in Proposals : effects \subseteq Effects
    /\ MaxFaults \in Nat /\ "none" \notin Workers

VARIABLES
    queue,      \* commands whose command.json exists
    history,    \* their events, oldest first
    pc, job,    \* where each worker is, and what it works on
    evaluated,  \* commands for which reconcile_command was entered
    faults      \* store operations and reconciliations that raised

vars == <<queue, history, pc, job, evaluated, faults>>

Event(previous, state, by) == [previous |-> previous, state |-> state, by |-> by]

Current(h) == IF h = <<>> THEN "queued" ELSE h[Len(h)].state

\* The claimant stored in the claimed event, which can only be the first.
Claimant(h) == IF h # <<>> /\ h[1].state = "claimed" THEN h[1].by ELSE "none"

\* The worker's queue promise, over what the store holds.
Lifecycle == INSTANCE CommandLifecycle WITH
    state <- [c \in Commands |-> IF c \in queue THEN Current(history[c]) ELSE "absent"],
    owner <- [c \in Commands |-> Claimant(history[c])]

Allows(previous, state) == state \in Lifecycle!Allowed[previous]

\* What events() accepts: a chain of allowed transitions from queued.
LegalHistory(h) ==
    \A i \in 1..Len(h) :
        /\ h[i].previous = (IF i = 1 THEN "queued" ELSE h[i - 1].state)
        /\ Allows(h[i].previous, h[i].state)

NoJob == [todo |-> {}, cmd |-> "none", base |-> 0, next |-> "none",
          reported |-> {}, effects |-> {}]

Init ==
    /\ queue = {}
    /\ history = [c \in Commands |-> <<>>]
    /\ pc = [w \in Workers |-> "idle"]
    /\ job = [w \in Workers |-> NoJob]
    /\ evaluated = {}
    /\ faults = 0

Goto(w, step) == pc' = [pc EXCEPT ![w] = step]

\* The worker turns to the other commands of its list.
NextCommand(w) ==
    Goto(w, "look") /\ job' = [job EXCEPT ![w] = [NoJob EXCEPT !.todo = job[w].todo]]

\* Mutant: the object is written over what is there.
Overwrites(c, base) == TRUE

\* Create-only: the sequence number after the events read is still free.
Vacant(c, base) == Len(history[c]) = base

\* The event object exists from now on, at the number after the events read.
Put(w, state) ==
    LET c == job[w].cmd
        n == job[w].base
        e == Event(Current(SubSeq(history[c], 1, n)), state, w)
    IN  history' = [history EXCEPT ![c] = IF n < Len(@) THEN [@ EXCEPT ![n + 1] = e]
                                                        ELSE Append(@, e)]

Raises == faults < MaxFaults /\ faults' = faults + 1

(***************************************************************************)
(* The signal producer.                                                    *)
(***************************************************************************)
Enqueue(c) ==
    /\ c \notin queue
    /\ queue' = queue \cup {c}
    /\ UNCHANGED <<history, pc, job, evaluated, faults>>

(***************************************************************************)
(* A run of the consumer: list the due commands, claim them in turn.       *)
(***************************************************************************)
\* A runtime that does not attest its release is stopped before it lists anything.
StartRun(w, date) ==
    /\ pc[w] = "idle" /\ RuntimeFindings(Runtime[w]) = {}
    /\ Goto(w, "look")
    /\ job' = [job EXCEPT ![w].todo = {c \in queue : Content[c].date = date}]
    /\ UNCHANGED <<queue, history, evaluated, faults>>

\* Mutant: unfinished commands are retried.
AnyLive(h) == Current(h) \notin Lifecycle!Terminal

Claimable(h) == Current(h) = "queued"

Look(w) ==
    /\ pc[w] = "look"
    /\ \E c \in job[w].todo :
        \/ /\ Claimable(history[c])
           /\ job' = [job EXCEPT ![w].todo = @ \ {c}, ![w].cmd = c,
                                 ![w].base = Len(history[c])]
           /\ Goto(w, "claim")
        \/ /\ ~Claimable(history[c])
           /\ job' = [job EXCEPT ![w].todo = @ \ {c}] /\ UNCHANGED pc
    /\ UNCHANGED <<queue, history, evaluated, faults>>

EndRun(w) ==
    /\ pc[w] = "look" /\ job[w].todo = {}
    /\ Goto(w, "idle") /\ job' = [job EXCEPT ![w] = NoJob]
    /\ UNCHANGED <<queue, history, evaluated, faults>>

\* claim_due's create: one worker wins, the others go on to the next command.
Claim(w) ==
    /\ pc[w] = "claim"
    /\ \/ /\ Vacant(job[w].cmd, job[w].base)
          /\ Put(w, "claimed") /\ Goto(w, "evaluate") /\ UNCHANGED job
       \/ ~Vacant(job[w].cmd, job[w].base) /\ NextCommand(w) /\ UNCHANGED history
    /\ UNCHANGED <<queue, evaluated, faults>>

\* The store raises outside the try block: the whole run ends.
RunAborts(w) ==
    /\ pc[w] \in {"look", "claim"}
    /\ \/ UNCHANGED history
       \/ pc[w] = "claim" /\ Vacant(job[w].cmd, job[w].base) /\ Put(w, "claimed")
    /\ Raises
    /\ Goto(w, "idle") /\ job' = [job EXCEPT ![w] = NoJob]
    /\ UNCHANGED <<queue, evaluated>>

(***************************************************************************)
(* A claimed command: admission, reconciliation, gate; then its lifecycle. *)
(***************************************************************************)
Following == [submitted |-> "accepted", accepted |-> "filled"]

\* The verdict on what was reported and proposed; both are in the event's details.
Judge(w, reported, effects) ==
    job' = [job EXCEPT ![w].next = IF Submittable(Content[job[w].cmd], Runtime[w], reported, effects)
                                   THEN "submitted" ELSE "rejected",
                       ![w].reported = reported, ![w].effects = effects]

\* A command for another runtime is refused without entering reconcile_command.
Evaluate(w) ==
    /\ pc[w] = "evaluate"
    /\ LET foreign == BindingFindings(Content[job[w].cmd], Runtime[w])
       IN  \/ /\ foreign = {} /\ evaluated' = evaluated \cup {job[w].cmd}
              /\ \E reported \in Reports, effects \in Proposals : Judge(w, reported, effects)
           \/ foreign # {} /\ UNCHANGED evaluated /\ Judge(w, foreign, {})
    /\ Goto(w, "read")
    /\ UNCHANGED <<queue, history, faults>>

EvaluateRaises(w) ==
    /\ pc[w] = "evaluate"
    /\ BindingFindings(Content[job[w].cmd], Runtime[w]) = {}
    /\ evaluated' = evaluated \cup {job[w].cmd}
    /\ Raises
    /\ Goto(w, "reconcile")
    /\ UNCHANGED <<queue, history, job>>

Expected == [submitted |-> "claimed", rejected |-> "claimed",
             accepted  |-> "submitted", filled |-> "accepted"]

\* append_event reads the history; a state it does not expect makes it give up.
ReadHistory(w) ==
    /\ pc[w] = "read"
    /\ job' = [job EXCEPT ![w].base = Len(history[job[w].cmd])]
    /\ IF Current(history[job[w].cmd]) = Expected[job[w].next]
       THEN Goto(w, "append") ELSE Goto(w, "reconcile")
    /\ UNCHANGED <<queue, history, evaluated, faults>>

AppendEvent(w) ==
    /\ pc[w] = "append"
    /\ \/ /\ Vacant(job[w].cmd, job[w].base)
          /\ Put(w, job[w].next)
          /\ IF job[w].next \in DOMAIN Following
             THEN Goto(w, "read") /\ job' = [job EXCEPT ![w].next = Following[@]]
             ELSE NextCommand(w)
       \/ /\ ~Vacant(job[w].cmd, job[w].base)
          /\ Goto(w, "reconcile") /\ UNCHANGED <<history, job>>
    /\ UNCHANGED <<queue, evaluated, faults>>

\* The store raises inside the try block.
AppendRaises(w) ==
    /\ pc[w] \in {"read", "append"}
    /\ \/ UNCHANGED history
       \/ pc[w] = "append" /\ Vacant(job[w].cmd, job[w].base) /\ Put(w, job[w].next)
    /\ Raises
    /\ Goto(w, "reconcile")
    /\ UNCHANGED <<queue, job, evaluated>>

(***************************************************************************)
(* _attempt_reconciliation_required, whose own failures are swallowed.     *)
(***************************************************************************)
\* Mutant: an appended command is left as it is.
OnlyClaimed == {"claimed"}

Reconcilable == {"claimed", "submitted", "accepted", "partially_filled"}

Reconcile(w) ==
    /\ pc[w] = "reconcile"
    /\ \/ /\ Current(history[job[w].cmd]) \in Reconcilable
          /\ job' = [job EXCEPT ![w].base = Len(history[job[w].cmd])]
          /\ Goto(w, "flag")
       \/ Current(history[job[w].cmd]) \notin Reconcilable /\ NextCommand(w)
    /\ UNCHANGED <<queue, history, evaluated, faults>>

Flag(w) ==
    /\ pc[w] = "flag"
    /\ \/ Vacant(job[w].cmd, job[w].base) /\ Put(w, "reconciliation_required")
       \/ ~Vacant(job[w].cmd, job[w].base) /\ UNCHANGED history
    /\ NextCommand(w)
    /\ UNCHANGED <<queue, evaluated, faults>>

FlagRaises(w) ==
    /\ pc[w] \in {"reconcile", "flag"}
    /\ \/ UNCHANGED history
       \/ pc[w] = "flag" /\ Vacant(job[w].cmd, job[w].base) /\ Put(w, "reconciliation_required")
    /\ Raises
    /\ NextCommand(w)
    /\ UNCHANGED <<queue, evaluated>>

(***************************************************************************)
(* An operator, through append_event: cancels a command, even one a worker *)
(* holds, and records how a flagged one ended.  A worker's process dies.   *)
(***************************************************************************)
Operate(c, state) ==
    /\ c \in queue
    /\ Allows(Current(history[c]), state)
    /\ state = "cancelled" \/ Current(history[c]) = "reconciliation_required"
    /\ history' = [history EXCEPT ![c] = Append(@, Event(Current(@), state, "none"))]
    /\ UNCHANGED <<queue, pc, job, evaluated, faults>>

Crash(w) ==
    /\ pc[w] # "crashed"
    /\ Goto(w, "crashed") /\ job' = [job EXCEPT ![w] = NoJob]
    /\ UNCHANGED <<queue, history, evaluated, faults>>

\* What a running worker does when the store answers.
Work(w) ==
    \/ Look(w) \/ EndRun(w) \/ Claim(w) \/ Evaluate(w) \/ ReadHistory(w)
    \/ AppendEvent(w) \/ Reconcile(w) \/ Flag(w)

Next ==
    \/ \E c \in Commands : Enqueue(c)
    \/ \E c \in Commands, state \in Lifecycle!States : Operate(c, state)
    \/ \E w \in Workers :
        \/ \E date \in Sessions : StartRun(w, date)
        \/ Work(w) \/ RunAborts(w) \/ EvaluateRaises(w)
        \/ AppendRaises(w) \/ FlagRaises(w) \/ Crash(w)

Spec == Init /\ [][Next]_vars

\* A worker that runs goes on running.
FairSpec == Spec /\ \A w \in Workers : WF_vars(Work(w))

(***************************************************************************)
(* Correctness.                                                            *)
(***************************************************************************)
Steps == {"idle", "look", "claim", "evaluate", "read", "append", "reconcile", "flag", "crashed"}

Findings == {"command_platform_mismatch", "command_account_scope_mismatch",
             "command_strategy_profile_mismatch"} \cup UNION Reports

Events == [previous: Lifecycle!States, state: Lifecycle!States, by: Workers \cup {"none"}]

Jobs == [todo: SUBSET Commands, cmd: Commands \cup {"none"}, base: Nat,
         next: Lifecycle!States \cup {"none"}, reported: SUBSET Findings,
         effects: SUBSET Effects]

\* Histories, jobs and counters have the shapes of the store and the consumer.
TypeOK ==
    /\ queue \subseteq Commands /\ evaluated \subseteq Commands
    /\ history \in [Commands -> Seq(Events)]
    /\ pc \in [Workers -> Steps]
    /\ job \in [Workers -> Jobs]
    /\ faults \in Nat

\* Whatever workers race or die, events() never finds a history it refuses, which
\* would block every later read of the queue and of the recovery report.
HistoriesLegal == \A c \in Commands : LegalHistory(history[c])

\* The queue behaves as CommandLifecycle promises, though reading, deciding and
\* creating are separate steps of racing workers: a command is claimed once,
\* evaluated at most once, and nobody else starts it again after a crash.
ImplementsLifecycle == Lifecycle!Spec

\* What the receipt's issuer, the release and the reconciled account together allow.
Approved(command, runtime, reported, effects) ==
    LET receipt == command.receipt
    IN  /\ command.mode = "paper" /\ command.release = runtime.expected
        /\ runtime.attested /\ runtime.loaded = runtime.expected
        /\ command.platform = runtime.platform /\ command.account = runtime.account
        /\ command.profile = runtime.profile
        /\ command.hasReceipt /\ receipt.sealed
        /\ receipt.decision = command.decision /\ receipt.session = command.date
        /\ receipt.profile = command.profile /\ receipt.release = runtime.expected.id
        /\ receipt.policy = runtime.expected.policy
        /\ receipt.disposition \in {"allow_new_risk", "reducing_only"}
        /\ reported \subseteq Reducing /\ "unknown" \notin effects
        /\ receipt.disposition = "reducing_only" \/ reported # {} => effects = {"reduces"}

\* However workers of different runtimes race for a shared queue, crash or fail, a
\* command is submitted only by a worker of its own platform, account, strategy and
\* release, on a receipt for this very decision, date and policy; and where the
\* receipt or the reconciliation leaves only reductions, every order reduces.
SubmittedAsApproved ==
    [][\A w \in Workers : \A c \in Commands :
        /\ Current(history[c]) # "submitted" /\ Current(history'[c]) = "submitted"
        /\ history'[c][Len(history'[c])].by = w
        => /\ job[w].cmd = c
           /\ Approved(Content[c], Runtime[w], job[w].reported, job[w].effects)]_vars

Holding(w, c) ==
    job[w].cmd = c /\ pc[w] \in {"evaluate", "read", "append", "reconcile", "flag"}

\* A worker that survives never leaves the command it holds half way: when one
\* call raises it still ends the command or flags it for reconciliation.
HeldCommandSettles ==
    \A w \in Workers : \A c \in Commands :
        Holding(w, c) ~> \/ pc[w] = "crashed"
                         \/ Current(history[c]) \in Lifecycle!Terminal
                         \/ \E i \in 1..Len(history[c]) :
                                history[c][i].state = "reconciliation_required"

\* A claimed command is either still held by the worker that claimed it or ends up
\* resolved or flagged for reconciliation.
ClaimSettles ==
    \A c \in Commands :
        Current(history[c]) = "claimed" ~> Current(history[c]) # "claimed"
=============================================================================
