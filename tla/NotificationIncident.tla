------------------------ MODULE NotificationIncident ------------------------
(***************************************************************************)
(* Workers that observe one incident and share its durable marker          *)
(* (IncidentTracker over an IncidentMarkerStore).                          *)
(*                                                                         *)
(* observe reads the marker, decides, and writes it by compare-and-set; it *)
(* starts again when another worker was faster, a bounded number of times. *)
(* A worker told to send does so, and records what the transport said, at  *)
(* once and perhaps later once more.  A compare-and-set can raise, having  *)
(* taken effect or not.  Severities are ranks; a transition key stands for *)
(* its generation, which no two transitions of an incident share; the text *)
(* of a state is left out, since any observation may change it.            *)
(***************************************************************************)
EXTENDS Integers

CONSTANTS
    Workers,
    Severities,      \* ranks, a set of naturals
    MaxAttempts,     \* bound of observe's loop (8 in the code)
    MaxObservations, \* bound: calls of observe
    MaxRecords,      \* bound: calls of record_delivery per decision
    MaxFaults        \* bound: compare-and-sets that raise

ASSUME IncidentAssumption ==
    /\ Severities \subseteq Nat
    /\ MaxAttempts \in Nat /\ MaxObservations \in Nat /\ MaxRecords \in Nat /\ MaxFaults \in Nat

VARIABLES
    version,    \* storage generation of the marker; 0: it does not exist
    marker,
    pc,
    call,       \* worker -> what it observed, read and was told
    told,       \* generation -> workers told to send it
    reserved,   \* generation -> severity at which it was reserved
    acked,      \* generations the transport has confirmed
    observations, faults

vars == <<version, marker, pc, call, told, reserved, acked, observations, faults>>

Missing == [active |-> FALSE, severity |-> 0, generation |-> 0, status |-> "not_attempted"]

NoCall == [severity |-> 0, recovered |-> FALSE, tries |-> 0, version |-> 0, read |-> Missing,
           generation |-> 0, records |-> 0, receipt |-> FALSE]

Generations == 1..MaxObservations

Init ==
    /\ version = 0 /\ marker = Missing
    /\ pc = [w \in Workers |-> "idle"]
    /\ call = [w \in Workers |-> NoCall]
    /\ told = [g \in Generations |-> {}]
    /\ reserved = [g \in Generations |-> 0]
    /\ acked = {} /\ observations = 0 /\ faults = 0

Goto(w, step) == pc' = [pc EXCEPT ![w] = step]

(***************************************************************************)
(* observe.                                                                *)
(***************************************************************************)
Observe(w, severity, recovered) ==
    /\ pc[w] = "idle" /\ observations < MaxObservations
    /\ observations' = observations + 1
    /\ call' = [call EXCEPT ![w] = [NoCall EXCEPT !.severity = severity, !.recovered = recovered]]
    /\ Goto(w, "read")
    /\ UNCHANGED <<version, marker, told, reserved, acked, faults>>

Read(w) ==
    /\ pc[w] = "read" /\ call[w].tries < MaxAttempts
    /\ call' = [call EXCEPT ![w] = [@ EXCEPT !.tries = call[w].tries + 1, !.version = version, !.read = marker]]
    /\ Goto(w, "write")
    /\ UNCHANGED <<version, marker, told, reserved, acked, observations, faults>>

\* The loop is exhausted: the call raises.
GivesUp(w) ==
    /\ pc[w] = "read" /\ call[w].tries = MaxAttempts
    /\ Goto(w, "idle") /\ call' = [call EXCEPT ![w] = NoCall]
    /\ UNCHANGED <<version, marker, told, reserved, acked, observations, faults>>

\* Mutant: any active incident swallows the observation.
AnyActive(c) == ~c.recovered /\ c.read.active

Duplicate(c) == ~c.recovered /\ c.read.active /\ c.severity <= c.read.severity

Sends(c) == ~c.recovered /\ ~Duplicate(c)

\* Mutant: a new transition keeps the delivery of the last one.
KeepsDelivery(c) ==
    [active |-> TRUE, severity |-> c.severity, generation |-> c.read.generation + 1, status |-> c.read.status]

Reservation(c) ==
    [active |-> TRUE, severity |-> c.severity, generation |-> c.read.generation + 1, status |-> "pending"]

\* The marker as this observation wants it.
Wanted(c) ==
    IF Sends(c) THEN Reservation(c)
    ELSE [c.read EXCEPT !.active = @ /\ ~c.recovered, !.severity = c.severity]

\* Mutant: the write is unconditional.
AnyVersion(w) == TRUE

Unchanged(w) == version = call[w].version

\* Another state text makes a new version even where nothing else changes.
Stores(value) == marker' = value /\ version' = version + 1

Reserves(w) ==
    /\ Sends(call[w])
    /\ reserved' = [reserved EXCEPT ![call[w].read.generation + 1] = call[w].severity]

Write(w) ==
    LET c == call[w] IN
    /\ pc[w] = "write" /\ Unchanged(w)
    /\ Stores(Wanted(c))
    /\ \/ /\ Reserves(w)
          /\ told' = [told EXCEPT ![c.read.generation + 1] = @ \cup {w}]
          /\ call' = [call EXCEPT ![w].generation = c.read.generation + 1]
          /\ Goto(w, "send")
       \/ /\ ~Sends(c)
          /\ UNCHANGED <<reserved, told>>
          /\ call' = [call EXCEPT ![w] = NoCall] /\ Goto(w, "idle")
    /\ UNCHANGED <<acked, observations, faults>>

\* What the marker already says is not written again, whatever happened since.
NothingToWrite(w) ==
    /\ pc[w] = "write" /\ call[w].version > 0 /\ Wanted(call[w]) = call[w].read
    /\ call' = [call EXCEPT ![w] = NoCall] /\ Goto(w, "idle")
    /\ UNCHANGED <<version, marker, told, reserved, acked, observations, faults>>

WriteLoses(w) ==
    /\ pc[w] = "write" /\ ~Unchanged(w)
    /\ Goto(w, "read")
    /\ UNCHANGED <<version, marker, call, told, reserved, acked, observations, faults>>

\* The store raises, or the worker dies; the marker may have been written.
WriteRaises(w) ==
    /\ pc[w] = "write" /\ faults < MaxFaults
    /\ faults' = faults + 1
    /\ \/ UNCHANGED <<marker, version, reserved>>
       \/ /\ Unchanged(w) /\ Stores(Wanted(call[w]))
          /\ Reserves(w) \/ (~Sends(call[w]) /\ UNCHANGED reserved)
    /\ Goto(w, "idle") /\ call' = [call EXCEPT ![w] = NoCall]
    /\ UNCHANGED <<told, acked, observations>>

(***************************************************************************)
(* The transport, and record_delivery.                                     *)
(***************************************************************************)
\* The caller sends and learns of a receipt, or does not.
Send(w, receipt) ==
    /\ pc[w] = "send"
    /\ call' = [call EXCEPT ![w] = [@ EXCEPT !.receipt = receipt, !.records = call[w].records + 1]]
    /\ acked' = IF receipt THEN acked \cup {call[w].generation} ELSE acked
    /\ Goto(w, "delivery_read")
    /\ UNCHANGED <<version, marker, told, reserved, observations, faults>>

\* Mutant: the delivery is recorded on whatever transition is current.
AnyTransition(w) == TRUE

SameTransition(w) == marker.generation = call[w].generation

DeliveryRead(w) ==
    /\ pc[w] = "delivery_read"
    /\ \/ /\ SameTransition(w)
          /\ call' = [call EXCEPT ![w] = [@ EXCEPT !.version = version, !.read = marker]]
          /\ Goto(w, "delivery_write")
       \/ ~SameTransition(w) /\ call' = [call EXCEPT ![w] = NoCall] /\ Goto(w, "idle")
    /\ UNCHANGED <<version, marker, told, reserved, acked, observations, faults>>

\* Without a receipt the caller may hear of one later, and record again.
DeliveryEnds(w) ==
    /\ \/ call' = [call EXCEPT ![w] = NoCall] /\ Goto(w, "idle")
       \/ ~call[w].receipt /\ call[w].records < MaxRecords /\ UNCHANGED call /\ Goto(w, "send")

DeliveryWrite(w) ==
    /\ pc[w] = "delivery_write" /\ Unchanged(w)
    /\ Stores([call[w].read EXCEPT !.status = IF call[w].receipt THEN "delivered" ELSE "uncertain"])
    /\ DeliveryEnds(w)
    /\ UNCHANGED <<told, reserved, acked, observations, faults>>

\* A concurrent observation came first: record_delivery raises.
DeliveryLoses(w) ==
    /\ pc[w] = "delivery_write" /\ ~Unchanged(w)
    /\ DeliveryEnds(w)
    /\ UNCHANGED <<version, marker, told, reserved, acked, observations, faults>>

Next ==
    \E w \in Workers :
        \/ \E severity \in Severities, recovered \in BOOLEAN : Observe(w, severity, recovered)
        \/ Read(w) \/ GivesUp(w) \/ Write(w) \/ NothingToWrite(w) \/ WriteLoses(w) \/ WriteRaises(w)
        \/ \E receipt \in BOOLEAN : Send(w, receipt)
        \/ DeliveryRead(w) \/ DeliveryWrite(w) \/ DeliveryLoses(w)

Spec == Init /\ [][Next]_vars
-----------------------------------------------------------------------------
Statuses == {"not_attempted", "pending", "uncertain", "delivered"}

Markers == [active : BOOLEAN, severity : Nat, generation : Nat, status : Statuses]

Calls == [severity : Nat, recovered : BOOLEAN, tries : Nat, version : Nat, read : Markers,
          generation : Nat, records : Nat, receipt : BOOLEAN]

\* What the marker store and the workers can hold; a marker _read_marker accepts.
TypeOK ==
    /\ version \in Nat /\ marker \in Markers
    /\ (marker.generation > 0) = (marker.status # "not_attempted")
    /\ pc \in [Workers -> {"idle", "read", "write", "send", "delivery_read", "delivery_write"}]
    /\ call \in [Workers -> Calls]
    /\ told \in [Generations -> SUBSET Workers]
    /\ reserved \in [Generations -> Nat]
    /\ acked \subseteq Generations /\ observations \in Nat /\ faults \in Nat

\* "Reserve before sending; pending/uncertain is never blindly resent": no
\* transition is given to two workers to send, nor one that is not reserved.
SentOnce ==
    \A g \in Generations :
        /\ \A w, v \in told[g] : w = v
        /\ told[g] # {} => g <= marker.generation

\* An observation is a duplicate only of something announced at least as
\* severe: the incident never stands at a severity its transition did not reach.
Announced == marker.active => marker.severity <= reserved[marker.generation]

\* A marker says delivered only when the transport confirmed that transition;
\* a receipt for an earlier one does not count.
DeliveredIsAcked == marker.status = "delivered" => marker.generation \in acked

\* A confirmed delivery is not taken back by a worker that read the marker before it.
DeliveryFinal ==
    [][/\ marker.generation <= marker'.generation
       /\ marker.status = "delivered" /\ marker'.generation = marker.generation
              => marker'.status = "delivered"]_vars
=============================================================================
