-------------------------- MODULE ExecutionMarkers --------------------------
(***************************************************************************)
(* The create-only objects that keep one signal of one brokerage account   *)
(* from being executed twice (ExecutionMarkerStore, claim_account_owner):  *)
(* the account's owner fence, the signal's claim, the execution's outcome. *)
(*                                                                         *)
(* A run takes the fence, claims, submits, and records an outcome; it may  *)
(* be started again, and ask for its outcome to be recorded again.  Older  *)
(* callers use has_marker, submit, record_marker instead.  On an object    *)
(* store a create is one step; on local files a file exists before it is   *)
(* written.  Any call can raise, and a process can die.  The operator who  *)
(* hands an account over deletes the fence while nothing runs.             *)
(***************************************************************************)
EXTENDS Integers

CONSTANTS
    Runs,
    LegacyRuns,   \* the ones that use record_marker
    Owners, Owner,
    Absent, Empty,
    MaxStarts,    \* bound: starts of a run
    MaxFaults,    \* bound: raising calls and deaths
    MaxHandovers  \* bound: changes of the account's owner

ASSUME MarkersAssumption ==
    /\ LegacyRuns \subseteq Runs /\ Owner \in [Runs -> Owners]
    /\ Absent \notin Runs /\ Empty \notin Runs /\ Absent # Empty
    /\ MaxStarts \in Nat /\ MaxFaults \in Nat /\ MaxHandovers \in Nat

VARIABLES
    local,     \* local files, or an object store; the deployment never changes it
    object,    \* name -> Absent, Empty, or the run whose payload it is
    pc,        \* run -> where it is
    submits,   \* run -> orders it sent for this signal
    answers,   \* run -> what record_outcome told it
    starts, faults, handovers

vars == <<local, object, pc, submits, answers, starts, faults, handovers>>

Names == {"fence", "claim", "outcome"}

\* The call that creates a name, and the step at which it writes the local file.
Writing == [fence |-> "fence_write", claim |-> "claim_write", outcome |-> "outcome_write"]

\* Where a run goes on after it created a name.
After == [fence |-> "claim", claim |-> "submit", outcome |-> "done"]

Init ==
    /\ local \in BOOLEAN
    /\ object = [n \in Names |-> Absent]
    /\ pc = [r \in Runs |-> "stopped"]
    /\ submits = [r \in Runs |-> 0]
    /\ answers = [r \in Runs |-> {}]
    /\ starts = [r \in Runs |-> 0]
    /\ faults = 0 /\ handovers = 0

Goto(r, step) == pc' = [pc EXCEPT ![r] = step]

Tell(r, n, answer) ==
    answers' = IF n = "outcome" THEN [answers EXCEPT ![r] = @ \cup {answer}] ELSE answers

Start(r) ==
    /\ pc[r] = "stopped" /\ starts[r] < MaxStarts
    /\ starts' = [starts EXCEPT ![r] = @ + 1]
    /\ Goto(r, IF r \in LegacyRuns THEN "has_marker" ELSE "fence")
    /\ UNCHANGED <<local, object, submits, answers, faults, handovers>>

\* Mutant: a file without content counts as missing.
MissingOrEmpty(n) == object[n] \in {Absent, Empty}

Creatable(n) == object[n] = Absent

Put(r, n, content) == object' = [object EXCEPT ![n] = content]

(***************************************************************************)
(* Create-only objects: claim_marker and record_outcome.                   *)
(***************************************************************************)
Create(r, n) ==
    /\ pc[r] = n /\ Creatable(n)
    /\ IF local
       THEN Put(r, n, Empty) /\ Goto(r, Writing[n]) /\ UNCHANGED answers
       ELSE Put(r, n, r) /\ Goto(r, After[n]) /\ Tell(r, n, "recorded")
    /\ UNCHANGED <<local, submits, starts, faults, handovers>>

Write(r, n) ==
    /\ pc[r] = Writing[n]
    /\ Put(r, n, r) /\ Goto(r, After[n]) /\ Tell(r, n, "recorded")
    /\ UNCHANGED <<local, submits, starts, faults, handovers>>

Exists(r, n) ==
    /\ pc[r] = n /\ ~Creatable(n)
    /\ Goto(r, CASE n = "fence" -> "read_fence" [] n = "claim" -> "stopped" [] OTHER -> "done")
    /\ Tell(r, n, "already")
    /\ UNCHANGED <<local, object, submits, starts, faults, handovers>>

\* Mutant: whoever finds the fence goes on.
AnyOwner(r) == object["fence"] \in Runs

OwnFence(r) == object["fence"] \in Runs /\ Owner[object["fence"]] = Owner[r]

\* The fence stands: its owner may pass; another, or an unreadable one, may not.
ReadFence(r) ==
    /\ pc[r] = "read_fence"
    /\ Goto(r, IF OwnFence(r) THEN "claim" ELSE "stopped")
    /\ UNCHANGED <<local, object, submits, answers, starts, faults, handovers>>

(***************************************************************************)
(* Executions, and what older callers do instead of claiming.              *)
(***************************************************************************)
HasMarker(r) ==
    /\ pc[r] = "has_marker"
    /\ Goto(r, IF object["claim"] = Absent THEN "submit" ELSE "stopped")
    /\ UNCHANGED <<local, object, submits, answers, starts, faults, handovers>>

Submit(r) ==
    /\ pc[r] = "submit"
    /\ submits' = [submits EXCEPT ![r] = @ + 1]
    /\ Goto(r, IF r \in LegacyRuns THEN "record_marker" ELSE "outcome")
    /\ UNCHANGED <<local, object, answers, starts, faults, handovers>>

\* Mutant: the marker is made anew.
Replaced(r) == Absent

Recorded(r) == r

\* A local file is truncated first.
RecordMarker(r) ==
    /\ pc[r] = "record_marker"
    /\ object' = [object EXCEPT !["claim"] = IF local THEN Empty ELSE Recorded(r)]
    /\ Goto(r, IF local THEN "record_write" ELSE "stopped")
    /\ UNCHANGED <<local, submits, answers, starts, faults, handovers>>

\* What two overlapping writes leave in the claim, nobody here reads.
RecordWrite(r) ==
    /\ pc[r] = "record_write"
    /\ object' = [object EXCEPT !["claim"] = Recorded(r)]
    /\ Goto(r, "stopped")
    /\ UNCHANGED <<local, submits, answers, starts, faults, handovers>>

\* The caller asks again for the outcome of an execution it claimed.
RepeatOutcome(r) ==
    /\ pc[r] = "stopped" /\ submits[r] > 0 /\ r \notin LegacyRuns /\ starts[r] < MaxStarts
    /\ starts' = [starts EXCEPT ![r] = @ + 1]
    /\ Goto(r, "outcome")
    /\ UNCHANGED <<local, object, submits, answers, faults, handovers>>

End(r) ==
    /\ pc[r] = "done" /\ Goto(r, "stopped")
    /\ UNCHANGED <<local, object, submits, answers, starts, faults, handovers>>

(***************************************************************************)
(* Failures, and the operator.                                             *)
(***************************************************************************)
\* Mutant: a failed recorder removes whatever stands there.
AnyOutcome(r) == pc[r] \in {"outcome", "outcome_write"}

\* The recorder that created the outcome file and failed to write it removes it.
CleansUp(r) == pc[r] = "outcome_write"

\* A call raises, having done its work or not, and the run ends.
Raises(r) ==
    /\ pc[r] \notin {"stopped", "done", "submit"} /\ faults < MaxFaults
    /\ faults' = faults + 1
    /\ \/ CleansUp(r) /\ object' = [object EXCEPT !["outcome"] = Absent]
       \/ ~CleansUp(r) /\ UNCHANGED object
       \/ ~local /\ \E n \in Names : pc[r] = n /\ Creatable(n) /\ Put(r, n, r)
    /\ Goto(r, "stopped")
    /\ UNCHANGED <<local, submits, answers, starts, handovers>>

\* The process dies; a broker call that was made cannot be called back.
Dies(r) ==
    /\ pc[r] \notin {"stopped"} /\ faults < MaxFaults
    /\ faults' = faults + 1 /\ Goto(r, "stopped")
    /\ \/ UNCHANGED submits
       \/ pc[r] = "submit" /\ submits' = [submits EXCEPT ![r] = @ + 1]
    /\ UNCHANGED <<local, object, answers, starts, handovers>>

Handover ==
    /\ \A r \in Runs : pc[r] = "stopped"
    /\ object["fence"] # Absent /\ handovers < MaxHandovers
    /\ object' = [object EXCEPT !["fence"] = Absent]
    /\ handovers' = handovers + 1
    /\ UNCHANGED <<local, pc, submits, answers, starts, faults>>

Next ==
    \/ \E r \in Runs :
           \/ Start(r) \/ ReadFence(r) \/ HasMarker(r) \/ Submit(r) \/ RecordMarker(r) \/ RecordWrite(r)
           \/ RepeatOutcome(r) \/ End(r) \/ Raises(r) \/ Dies(r)
           \/ \E n \in Names : Create(r, n) \/ Write(r, n) \/ Exists(r, n)
    \/ Handover

Spec == Init /\ [][Next]_vars
-----------------------------------------------------------------------------
Claimers == Runs \ LegacyRuns

Steps == {"stopped", "done", "submit", "read_fence", "has_marker", "record_marker", "record_write"}
             \cup Names \cup {Writing[n] : n \in Names}

\* Objects hold runs' payloads, runs stand at steps of their calls, and a file
\* is empty until the run that created it has written it, unless it is a claim
\* that record_marker wrote over.
TypeOK ==
    /\ local \in BOOLEAN
    /\ object \in [Names -> Runs \cup {Absent, Empty}]
    /\ pc \in [Runs -> Steps]
    /\ submits \in [Runs -> Nat]
    /\ answers \in [Runs -> SUBSET {"recorded", "already"}]
    /\ starts \in [Runs -> Nat] /\ faults \in Nat /\ handovers \in Nat
    /\ \A r \in Runs, n \in Names : pc[r] = Writing[n] =>
           object[n] # Absent /\ (n # "claim" => object[n] = Empty)

\* claim_marker lets one caller through, ever: neither a crash, a lost answer,
\* a repeated start, a handover nor record_marker over the claim reopens it.
ClaimersSubmitOnce ==
    /\ \A r \in Claimers : submits[r] <= 1
    /\ \A r, q \in Claimers : submits[r] > 0 /\ submits[q] > 0 => r = q

PastFence(r) == pc[r] \in {"claim", "claim_write", "submit"}

\* claim_account_owner: runs of two owners are never past the fence together.
FenceExclusive ==
    \A r, q \in Claimers : PastFence(r) /\ PastFence(q) => Owner[r] = Owner[q]

\* What record_outcome acknowledged stays, unchanged.
OutcomeKept == \A r \in Runs : "recorded" \in answers[r] => object["outcome"] = r
=============================================================================
