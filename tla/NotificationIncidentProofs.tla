---------------------- MODULE NotificationIncidentProofs ----------------------
(***************************************************************************)
(* An incident's marker and its deliveries, for any number of workers,     *)
(* severities, observations and faults.                                    *)
(*                                                                         *)
(* The argument.  Every write takes the version its worker read, so a      *)
(* worker that writes has read the marker as it is.  A transition is new   *)
(* when it is reserved, so only the worker that reserved it is told to     *)
(* send it and only that worker records its delivery, and it stops at the  *)
(* first receipt.                                                          *)
(***************************************************************************)
EXTENDS NotificationIncident, FiniteSetTheorems, TLAPS

\* Workers whose observation may still reserve a transition.
Pending == {w \in Workers : pc[w] \in {"read", "write"}}

\* Transitions are counted by observations, so there is one left for each of those.
CountOK ==
    /\ IsFiniteSet(Pending)
    /\ marker.generation + Cardinality(Pending) <= observations
    /\ observations <= MaxObservations
    /\ marker.active => marker.generation > 0

\* What a worker has read is the marker, unless there is a newer version of it.
ReadOK(w) ==
    pc[w] \in {"write", "delivery_write"} =>
        /\ call[w].version <= version
        /\ call[w].version = version => call[w].read = marker

\* A worker in the transport owns its transition, whose delivery is not confirmed
\* in the marker yet; a receipt it holds is the transport's.
OwnerOK(w) ==
    /\ pc[w] \in {"send", "delivery_read", "delivery_write"} =>
        /\ call[w].generation \in Generations /\ w \in told[call[w].generation]
        /\ marker.generation = call[w].generation => marker.status # "delivered"
    /\ pc[w] \in {"delivery_read", "delivery_write"} /\ call[w].receipt => call[w].generation \in acked
    /\ pc[w] = "delivery_write" => call[w].read.generation = call[w].generation

WorkersOK == \A w \in Workers : ReadOK(w) /\ OwnerOK(w)

IInv == TypeOK /\ SentOnce /\ Announced /\ DeliveredIsAcked /\ CountOK /\ WorkersOK

-----------------------------------------------------------------------------
(***************************************************************************)
(* Workers that wait for a transition are counted.                         *)
(***************************************************************************)
\* One worker moves: what becomes of the number of pending ones.
LEMMA PendingCounted ==
    ASSUME pc \in [Workers -> {"idle", "read", "write", "send", "delivery_read", "delivery_write"}],
           IsFiniteSet(Pending), NEW w \in Workers, NEW step, Goto(w, step)
    PROVE  /\ IsFiniteSet(Pending') /\ Cardinality(Pending) \in Nat /\ Cardinality(Pending') \in Nat
           /\ Cardinality(Pending') <= Cardinality(Pending) + 1
           /\ w \in Pending => Cardinality(Pending') <= Cardinality(Pending) /\ Cardinality(Pending) >= 1
           /\ step \notin {"read", "write"} => Cardinality(Pending') <= Cardinality(Pending)
           /\ w \in Pending /\ step \notin {"read", "write"} => Cardinality(Pending') = Cardinality(Pending) - 1
  <1>1. Pending' = IF step \in {"read", "write"} THEN Pending \cup {w} ELSE Pending \ {w}
    BY DEF Pending, Goto
  <1>2. Cardinality(Pending) \in Nat
    BY FS_CardinalityType
  <1>3. /\ IsFiniteSet(Pending \cup {w})
        /\ Cardinality(Pending \cup {w}) = IF w \in Pending THEN Cardinality(Pending) ELSE Cardinality(Pending) + 1
    BY FS_AddElement
  <1>4. /\ IsFiniteSet(Pending \ {w})
        /\ Cardinality(Pending \ {w}) = IF w \in Pending THEN Cardinality(Pending) - 1 ELSE Cardinality(Pending)
    BY FS_RemoveElement
  <1>5. w \in Pending => Cardinality(Pending) >= 1
    BY <1>2, FS_EmptySet
  <1>6. IsFiniteSet(Pending') /\ Cardinality(Pending') \in Nat
    BY <1>1, <1>3, <1>4, FS_CardinalityType
  <1> QED BY <1>1, <1>2, <1>3, <1>4, <1>5, <1>6

\* The count after a step that moves one worker and reserves nothing.
LEMMA CountKept ==
    ASSUME TypeOK, CountOK, NEW w \in Workers, NEW step, Goto(w, step),
           marker' \in Markers, marker'.generation = marker.generation, marker'.active => marker.active,
           \/ observations' = observations /\ (w \in Pending \/ step \notin {"read", "write"})
           \/ observations' = observations + 1 /\ observations < MaxObservations
    PROVE  CountOK'
  <1>1. /\ IsFiniteSet(Pending') /\ Cardinality(Pending) \in Nat /\ Cardinality(Pending') \in Nat
        /\ Cardinality(Pending') <= Cardinality(Pending) + 1
        /\ w \in Pending => Cardinality(Pending') <= Cardinality(Pending)
        /\ step \notin {"read", "write"} => Cardinality(Pending') <= Cardinality(Pending)
    BY PendingCounted DEF TypeOK, CountOK
  <1>2. marker.generation \in Nat /\ observations \in Nat /\ MaxObservations \in Nat
    BY IncidentAssumption DEF TypeOK, Markers
  <1>3. marker.generation + Cardinality(Pending') <= observations' /\ observations' <= MaxObservations
    BY <1>1, <1>2 DEF CountOK
  <1> QED BY <1>1, <1>3 DEF CountOK

\* While an observation is pending there is a transition left for it.
LEMMA NextTransition ==
    ASSUME TypeOK, CountOK, NEW w \in Pending
    PROVE  /\ marker.generation \in Nat /\ marker.generation + 1 \in Generations
           /\ marker.generation > 0 => marker.generation \in Generations
  <1>1. Cardinality(Pending) \in Nat /\ Cardinality(Pending) >= 1
    BY FS_CardinalityType, FS_EmptySet DEF CountOK
  <1>2. marker.generation \in Nat /\ observations \in Nat /\ MaxObservations \in Nat
    BY IncidentAssumption DEF TypeOK, Markers
  <1> QED BY <1>1, <1>2 DEF CountOK, Generations

\* A transition that was reserved is one of them.
LEMMA ThisTransition ==
    ASSUME TypeOK, CountOK, marker.generation > 0
    PROVE  marker.generation \in Generations
  <1>1. Cardinality(Pending) \in Nat
    BY FS_CardinalityType DEF CountOK
  <1>2. marker.generation \in Nat /\ observations \in Nat /\ MaxObservations \in Nat
    BY IncidentAssumption DEF TypeOK, Markers
  <1> QED BY <1>1, <1>2 DEF CountOK, Generations

-----------------------------------------------------------------------------
(***************************************************************************)
(* What a step leaves of what the workers know.                            *)
(***************************************************************************)
\* A worker that does not move, while the marker gets a new version or stays.
LEMMA OthersKeep ==
    ASSUME TypeOK, SentOnce, WorkersOK, NEW v \in Workers, call'[v] = call[v], pc'[v] = pc[v],
           version' \in Nat, version <= version', version' = version => marker' = marker,
           marker' \in Markers, marker.generation <= marker'.generation,
           \/ marker'.status # "delivered"
           \/ marker'.generation = marker.generation /\ marker.status = "delivered"
           \/ marker'.generation = marker.generation /\ ~(\E g \in Generations : g = marker.generation /\ v \in told[g]),
           acked \subseteq acked', \A g \in Generations : told[g] \subseteq told'[g]
    PROVE  ReadOK(v)' /\ OwnerOK(v)'
  <1>1. ReadOK(v) /\ OwnerOK(v)
    BY DEF WorkersOK
  <1>2. /\ version \in Nat /\ marker.generation \in Nat /\ marker'.generation \in Nat
        /\ call[v].version \in Nat /\ call[v].generation \in Nat
    BY DEF TypeOK, Markers, Calls
  <1>3. ReadOK(v)'
    BY <1>1, <1>2 DEF ReadOK
  <1>4. pc[v] \in {"send", "delivery_read", "delivery_write"} => call[v].generation <= marker.generation
    BY <1>1, <1>2 DEF OwnerOK, SentOnce
  <1>5. OwnerOK(v)'
    BY <1>1, <1>2, <1>4 DEF OwnerOK
  <1> QED BY <1>3, <1>5

\* Nobody else moves, and neither does the marker.
LEMMA SameMarker ==
    ASSUME IInv, UNCHANGED <<version, marker, told>>, acked \subseteq acked', NEW v \in Workers,
           call'[v] = call[v], pc'[v] = pc[v]
    PROVE  ReadOK(v)' /\ OwnerOK(v)'
  <1>1. version \in Nat /\ marker \in Markers /\ marker.generation \in Nat
    BY DEF IInv, TypeOK, Markers
  <1> QED BY <1>1, OthersKeep DEF IInv

\* A step of one worker that neither writes the marker nor hears of a receipt.
LEMMA LocalStep ==
    ASSUME IInv, NEW w \in Workers, NEW step \in {"idle", "read", "write", "send", "delivery_read", "delivery_write"},
           NEW c \in Calls, Goto(w, step), call' = [call EXCEPT ![w] = c],
           UNCHANGED <<version, marker, told, reserved, acked, faults>>,
           \/ observations' = observations /\ (w \in Pending \/ step \notin {"read", "write"})
           \/ observations' = observations + 1 /\ observations < MaxObservations,
           ReadOK(w)', OwnerOK(w)'
    PROVE  IInv'
  <1>1. TypeOK'
    BY DEF IInv, TypeOK, Goto
  <1>2. CountOK'
    BY CountKept DEF IInv, TypeOK
  <1>3. ASSUME NEW v \in Workers PROVE ReadOK(v)' /\ OwnerOK(v)'
    <2>1. CASE v # w
      <3>1. call'[v] = call[v] /\ pc'[v] = pc[v]
        BY <2>1 DEF IInv, TypeOK, Goto
      <3> QED BY <3>1, SameMarker
    <2> QED BY <2>1
  <1>4. SentOnce' /\ Announced' /\ DeliveredIsAcked'
    BY DEF IInv, SentOnce, Announced, DeliveredIsAcked
  <1> QED BY <1>1, <1>2, <1>3, <1>4 DEF IInv, WorkersOK

\* A call that ends, or begins, has nothing to keep.
LEMMA NoCallOK ==
    ASSUME NEW w \in Workers, NEW step \in {"idle", "read"}, pc'[w] = step
    PROVE  ReadOK(w)' /\ OwnerOK(w)'
  BY DEF ReadOK, OwnerOK

LEMMA NoCallTyped == NoCall \in Calls /\ Missing \in Markers
  BY DEF NoCall, Missing, Calls, Markers, Statuses

\* The worker goes back to rest.
LEMMA Rests ==
    ASSUME IInv, NEW w \in Workers, Goto(w, "idle"), call' = [call EXCEPT ![w] = NoCall],
           UNCHANGED <<version, marker, told, reserved, acked, observations, faults>>
    PROVE  IInv'
  <1>1. pc'[w] = "idle"
    BY DEF IInv, TypeOK, Goto
  <1>2. ReadOK(w)' /\ OwnerOK(w)'
    BY <1>1, NoCallOK
  <1> QED BY <1>2, NoCallTyped, LocalStep

-----------------------------------------------------------------------------
(***************************************************************************)
(* observe.                                                                *)
(***************************************************************************)
LEMMA ObserveKeeps ==
    ASSUME IInv, NEW w \in Workers, NEW severity \in Severities, NEW recovered \in BOOLEAN,
           Observe(w, severity, recovered)
    PROVE  IInv'
  <1> DEFINE c == [NoCall EXCEPT !.severity = severity, !.recovered = recovered]
  <1>1. c \in Calls
    BY NoCallTyped, IncidentAssumption DEF Calls
  <1>2. pc'[w] = "read" /\ Goto(w, "read") /\ call' = [call EXCEPT ![w] = c]
    BY DEF Observe, Goto, IInv, TypeOK
  <1>3. ReadOK(w)' /\ OwnerOK(w)'
    BY <1>2, NoCallOK
  <1> HIDE DEF c
  <1> QED BY <1>1, <1>2, <1>3, LocalStep DEF Observe

LEMMA ReadKeeps ==
    ASSUME IInv, NEW w \in Workers, Read(w)
    PROVE  IInv'
  <1> DEFINE c == [call[w] EXCEPT !.tries = call[w].tries + 1, !.version = version, !.read = marker]
  <1>1. c \in Calls /\ c.version = version /\ c.read = marker
    <2>1. call[w] \in Calls /\ version \in Nat /\ marker \in Markers /\ call[w].tries + 1 \in Nat
      BY DEF IInv, TypeOK, Calls
    <2> QED BY <2>1 DEF Calls
  <1>2. call' = [call EXCEPT ![w] = c] /\ call'[w] = c
    BY DEF Read, IInv, TypeOK, Calls
  <1>3. pc'[w] = "write" /\ Goto(w, "write") /\ w \in Pending
    BY DEF Read, Goto, IInv, TypeOK, Pending
  <1> HIDE DEF c
  <1>4. ReadOK(w)'
    BY <1>1, <1>2, <1>3 DEF ReadOK, Read, IInv, TypeOK
  <1>5. OwnerOK(w)'
    BY <1>3 DEF OwnerOK
  <1> QED BY <1>1, <1>2, <1>3, <1>4, <1>5, LocalStep DEF Read

LEMMA WriteLosesKeeps ==
    ASSUME IInv, NEW w \in Workers, WriteLoses(w)
    PROVE  IInv'
  <1>1. pc'[w] = "read" /\ Goto(w, "read") /\ w \in Pending
    BY DEF WriteLoses, Goto, IInv, TypeOK, Pending
  <1>2. call[w] \in Calls /\ call' = [call EXCEPT ![w] = call[w]]
    BY DEF WriteLoses, IInv, TypeOK
  <1>3. ReadOK(w)' /\ OwnerOK(w)'
    BY <1>1, NoCallOK
  <1> QED BY <1>1, <1>2, <1>3, LocalStep DEF WriteLoses

\* What an unchanged marker is written to: the reservation of the next
\* transition, or itself with another text and no more severe.
LEMMA WhatIsWanted ==
    ASSUME IInv, NEW w \in Workers, pc[w] = "write", Unchanged(w)
    PROVE  LET c == call[w] IN
           /\ c.read = marker /\ marker.generation + 1 \in Generations /\ c.severity \in Nat
           /\ Sends(c) => Wanted(c) = [active |-> TRUE, severity |-> c.severity,
                                       generation |-> marker.generation + 1, status |-> "pending"]
           /\ ~Sends(c) =>
                /\ Wanted(c) \in Markers
                /\ Wanted(c).generation = marker.generation /\ Wanted(c).status = marker.status
                /\ Wanted(c).active => marker.active /\ Wanted(c).severity <= marker.severity
  <1> DEFINE c == call[w]
  <1>1. c.read = marker /\ c \in Calls /\ marker \in Markers
    BY DEF IInv, WorkersOK, ReadOK, Unchanged, TypeOK
  <1>2. w \in Pending
    BY DEF Pending
  <1>3. marker.generation + 1 \in Generations
    BY <1>2, NextTransition DEF IInv
  <1>4. ~Sends(c) => c.recovered \/ (marker.active /\ c.severity <= marker.severity)
    BY <1>1 DEF Sends, Duplicate
  <1>5. Sends(c) => Wanted(c) = [active |-> TRUE, severity |-> c.severity,
                                 generation |-> marker.generation + 1, status |-> "pending"]
    BY <1>1 DEF Wanted, Reservation
  <1>6. ~Sends(c) => Wanted(c) = [marker EXCEPT !.active = @ /\ ~c.recovered, !.severity = c.severity]
    BY <1>1 DEF Wanted
  <1>7. ASSUME ~Sends(c)
        PROVE  /\ Wanted(c) \in Markers
               /\ Wanted(c).generation = marker.generation /\ Wanted(c).status = marker.status
               /\ Wanted(c).active = (marker.active /\ ~c.recovered) /\ Wanted(c).severity = c.severity
    <2>1. c.severity \in Nat /\ c.recovered \in BOOLEAN
      BY <1>1 DEF Calls
    <2> HIDE DEF c
    <2> QED BY <1>1, <1>6, <1>7, <2>1 DEF Markers
  <1> QED BY <1>1, <1>3, <1>4, <1>5, <1>7 DEF Calls

\* The marker written, whoever learns of it: nothing that was said before is lost.
LEMMA MarkerWritten ==
    ASSUME IInv, NEW w \in Workers, pc[w] = "write", Unchanged(w), Stores(Wanted(call[w])),
           \/ Reserves(w)
           \/ ~Sends(call[w]) /\ UNCHANGED reserved,
           UNCHANGED acked
    PROVE  /\ version' \in Nat /\ version < version' /\ marker' \in Markers
           /\ (marker'.generation > 0) = (marker'.status # "not_attempted")
           /\ reserved' \in [Generations -> Nat]
           /\ marker.generation <= marker'.generation
           /\ marker'.status # "delivered" \/ (marker'.generation = marker.generation /\ marker.status = "delivered")
           /\ Sends(call[w]) => /\ marker'.generation = marker.generation + 1 /\ marker.generation + 1 \in Generations
                                /\ marker'.status = "pending"
           /\ ~Sends(call[w]) => marker'.generation = marker.generation /\ (marker'.active => marker.active)
           /\ Announced' /\ DeliveredIsAcked'
  <1> DEFINE c == call[w]
  <1>1. /\ marker.generation + 1 \in Generations /\ c.severity \in Nat
        /\ Sends(c) => Wanted(c) = [active |-> TRUE, severity |-> c.severity,
                                    generation |-> marker.generation + 1, status |-> "pending"]
        /\ ~Sends(c) =>
             /\ Wanted(c) \in Markers
             /\ Wanted(c).generation = marker.generation /\ Wanted(c).status = marker.status
             /\ Wanted(c).active => marker.active /\ Wanted(c).severity <= marker.severity
    BY WhatIsWanted
  <1>2. marker' = Wanted(c) /\ version' = version + 1 /\ version \in Nat /\ marker.generation \in Nat
    BY DEF Stores, IInv, TypeOK, Markers
  <1>3. c.read = marker
    BY WhatIsWanted
  <1>4. CASE Sends(c)
    <2>1. marker' = [active |-> TRUE, severity |-> c.severity, generation |-> marker.generation + 1, status |-> "pending"]
      BY <1>1, <1>2, <1>4
    <2>2. marker' \in Markers
      BY <1>1, <1>2, <2>1 DEF Markers, Statuses
    <2>3. reserved' = [reserved EXCEPT ![marker.generation + 1] = c.severity]
      BY <1>3, <1>4 DEF Reserves
    <2>4. reserved' \in [Generations -> Nat] /\ reserved'[marker.generation + 1] = c.severity
      BY <1>1, <2>3 DEF IInv, TypeOK
    <2>5. Announced' /\ DeliveredIsAcked'
      BY <1>1, <2>1, <2>4 DEF Announced, DeliveredIsAcked
    <2> QED BY <1>1, <1>2, <1>4, <2>1, <2>2, <2>4, <2>5
  <1>5. CASE ~Sends(c)
    <2>1. /\ marker' \in Markers /\ marker'.generation = marker.generation /\ marker'.status = marker.status
          /\ marker'.active => marker.active /\ marker'.severity <= marker.severity
      BY <1>1, <1>2, <1>5
    <2>2. UNCHANGED reserved
      BY <1>5 DEF Reserves
    <2>3. marker.active => marker.generation \in Generations
      BY ThisTransition DEF IInv, CountOK
    <2>4. marker.active => reserved[marker.generation] \in Nat
      BY <2>3 DEF IInv, TypeOK
    <2>5. marker.severity \in Nat /\ marker'.severity \in Nat
      BY <2>1 DEF IInv, TypeOK, Markers
    <2>6. Announced'
      BY <2>1, <2>2, <2>4, <2>5 DEF IInv, Announced
    <2>7. DeliveredIsAcked'
      BY <2>1 DEF IInv, DeliveredIsAcked
    <2> QED BY <1>2, <1>5, <2>1, <2>2, <2>6, <2>7 DEF IInv, TypeOK
  <1> QED BY <1>4, <1>5

LEMMA WriteKeeps ==
    ASSUME IInv, NEW w \in Workers, Write(w)
    PROVE  IInv'
  <1> DEFINE c == call[w]
             next == marker.generation + 1
  <1>1. pc[w] = "write" /\ Unchanged(w) /\ Stores(Wanted(c)) /\ w \in Pending /\ c.read = marker
    BY WhatIsWanted DEF Write, Pending
  <1>2. Reserves(w) \/ (~Sends(c) /\ UNCHANGED reserved)
    BY DEF Write
  <1>3. /\ version' \in Nat /\ version < version' /\ marker' \in Markers
        /\ (marker'.generation > 0) = (marker'.status # "not_attempted")
        /\ reserved' \in [Generations -> Nat]
        /\ marker.generation <= marker'.generation
        /\ marker'.status # "delivered" \/ (marker'.generation = marker.generation /\ marker.status = "delivered")
        /\ Sends(c) => /\ marker'.generation = marker.generation + 1 /\ marker.generation + 1 \in Generations
                       /\ marker'.status = "pending"
        /\ ~Sends(c) => marker'.generation = marker.generation /\ (marker'.active => marker.active)
        /\ Announced' /\ DeliveredIsAcked'
    BY <1>1, <1>2, MarkerWritten DEF Write
  <1>4. /\ marker.generation \in Nat /\ marker'.generation \in Nat /\ version \in Nat
        /\ c \in Calls /\ pc \in [Workers -> {"idle", "read", "write", "send", "delivery_read", "delivery_write"}]
    BY <1>3 DEF IInv, TypeOK, Markers
  <1>5. ASSUME NEW v \in Workers, v # w, call'[v] = call[v], pc'[v] = pc[v],
               \A g \in Generations : told[g] \subseteq told'[g]
        PROVE  ReadOK(v)' /\ OwnerOK(v)'
    BY <1>3, <1>4, <1>5, OthersKeep DEF IInv, Write
  <1>6. CASE Sends(c)
    <2>1. /\ told' = [told EXCEPT ![next] = @ \cup {w}]
          /\ call' = [call EXCEPT ![w].generation = next] /\ Goto(w, "send")
      BY <1>1, <1>6 DEF Write
    <2>2. next \in Generations /\ next \in Nat /\ marker'.generation = next /\ marker'.status = "pending"
      BY <1>3, <1>4, <1>6
    <2>3. told[next] = {}
      BY <1>4, <2>2 DEF IInv, SentOnce
    <2>4. told' \in [Generations -> SUBSET Workers] /\ told'[next] = {w}
          /\ \A g \in Generations : g # next => told'[g] = told[g]
      BY <2>1, <2>2, <2>3 DEF IInv, TypeOK
    <2>5. call'[w] = [c EXCEPT !.generation = next] /\ pc'[w] = "send"
      BY <2>1, <1>4 DEF IInv, TypeOK, Goto
    <2>6. call'[w] \in Calls /\ call'[w].generation = next
      BY <1>4, <2>2, <2>5 DEF Calls
    <2>7. call' \in [Workers -> Calls]
      BY <2>1, <2>5, <2>6 DEF IInv, TypeOK
    <2>8. TypeOK'
      BY <1>3, <2>1, <2>4, <2>7 DEF Write, Goto, IInv, TypeOK
    <2>9. SentOnce'
      <3>1. ASSUME NEW g \in Generations
            PROVE  (\A x, y \in told'[g] : x = y) /\ (told'[g] # {} => g <= marker'.generation)
        <4>1. CASE g = next
          BY <2>2, <2>4, <4>1
        <4>2. CASE g # next
          BY <1>4, <2>2, <2>4, <4>2 DEF IInv, SentOnce, Generations
        <4> QED BY <4>1, <4>2
      <3> QED BY <3>1 DEF SentOnce
    <2>10. CountOK'
      <3>1. /\ IsFiniteSet(Pending') /\ Cardinality(Pending') = Cardinality(Pending) - 1 /\ Cardinality(Pending) \in Nat
        BY <1>1, <1>4, <2>1, PendingCounted DEF IInv, CountOK
      <3>2. observations' = observations /\ observations \in Nat
        BY DEF Write, IInv, TypeOK
      <3> QED BY <1>4, <2>2, <3>1, <3>2 DEF IInv, CountOK
    <2>11. ASSUME NEW v \in Workers PROVE ReadOK(v)' /\ OwnerOK(v)'
      <3>1. CASE v = w
        BY <2>2, <2>4, <2>5, <2>6, <3>1 DEF ReadOK, OwnerOK
      <3>2. CASE v # w
        <4>1. call'[v] = call[v] /\ pc'[v] = pc[v]
          BY <2>1, <3>2 DEF IInv, TypeOK, Goto
        <4> QED BY <1>5, <2>3, <2>4, <3>2, <4>1
      <3> QED BY <3>1, <3>2
    <2> QED BY <1>3, <2>8, <2>9, <2>10, <2>11 DEF IInv, WorkersOK
  <1>7. CASE ~Sends(c)
    <2>1. UNCHANGED <<reserved, told>> /\ call' = [call EXCEPT ![w] = NoCall] /\ Goto(w, "idle")
      BY <1>7 DEF Write, Reserves
    <2>2. TypeOK'
      BY <1>3, <2>1, NoCallTyped DEF Write, Goto, IInv, TypeOK
    <2>3. SentOnce'
      BY <1>3, <1>7, <2>1 DEF IInv, SentOnce
    <2>4. CountOK'
      BY <1>1, <1>3, <1>7, <2>1, CountKept DEF Write, IInv
    <2>5. ASSUME NEW v \in Workers PROVE ReadOK(v)' /\ OwnerOK(v)'
      <3>1. CASE v = w
        BY <2>1, <3>1, NoCallOK DEF IInv, TypeOK, Goto
      <3>2. CASE v # w
        <4>1. call'[v] = call[v] /\ pc'[v] = pc[v]
          BY <2>1, <3>2 DEF IInv, TypeOK, Goto
        <4> QED BY <1>5, <2>1, <3>2, <4>1
      <3> QED BY <3>1, <3>2
    <2> QED BY <1>3, <2>2, <2>3, <2>4, <2>5 DEF IInv, WorkersOK
  <1> QED BY <1>6, <1>7

LEMMA WriteRaisesKeeps ==
    ASSUME IInv, NEW w \in Workers, WriteRaises(w)
    PROVE  IInv'
  <1>1. /\ pc[w] = "write" /\ w \in Pending /\ Goto(w, "idle") /\ call' = [call EXCEPT ![w] = NoCall]
        /\ UNCHANGED <<told, acked, observations>> /\ faults' = faults + 1
    BY DEF WriteRaises, Pending
  <1>2. ASSUME /\ version' \in Nat /\ version <= version' /\ (version' = version => marker' = marker)
               /\ marker' \in Markers /\ (marker'.generation > 0) = (marker'.status # "not_attempted")
               /\ reserved' \in [Generations -> Nat] /\ marker.generation <= marker'.generation
               /\ \/ marker'.status # "delivered"
                  \/ marker'.generation = marker.generation /\ marker.status = "delivered"
               /\ Announced' /\ DeliveredIsAcked' /\ CountOK'
        PROVE  IInv'
    <2>1. TypeOK'
      BY <1>1, <1>2, NoCallTyped DEF Goto, IInv, TypeOK
    <2>2. SentOnce'
      <3>1. marker.generation \in Nat /\ marker'.generation \in Nat
        BY <1>2 DEF IInv, TypeOK, Markers
      <3> QED BY <1>1, <1>2, <3>1 DEF IInv, SentOnce, Generations
    <2>3. ASSUME NEW v \in Workers PROVE ReadOK(v)' /\ OwnerOK(v)'
      <3>1. CASE v = w
        BY <1>1, <3>1, NoCallOK DEF IInv, TypeOK, Goto
      <3>2. CASE v # w
        <4>1. call'[v] = call[v] /\ pc'[v] = pc[v]
          BY <1>1, <3>2 DEF IInv, TypeOK, Goto
        <4> QED BY <1>1, <1>2, <4>1, OthersKeep DEF IInv
      <3> QED BY <3>1, <3>2
    <2> QED BY <1>2, <2>1, <2>2, <2>3 DEF IInv, WorkersOK
  <1>3. CASE UNCHANGED <<marker, version, reserved>>
    <2>1. /\ version' \in Nat /\ version <= version' /\ marker' \in Markers /\ reserved' \in [Generations -> Nat]
          /\ (marker'.generation > 0) = (marker'.status # "not_attempted") /\ marker.generation <= marker'.generation
      BY <1>3 DEF IInv, TypeOK, Markers
    <2>2. CountOK'
      BY <1>1, <1>3, <2>1, CountKept DEF IInv
    <2>3. Announced' /\ DeliveredIsAcked'
      BY <1>1, <1>3 DEF IInv, Announced, DeliveredIsAcked
    <2> QED BY <1>2, <1>3, <2>1, <2>2, <2>3
  <1>4. CASE Unchanged(w) /\ Stores(Wanted(call[w])) /\ (Reserves(w) \/ (~Sends(call[w]) /\ UNCHANGED reserved))
    <2>1. /\ version' \in Nat /\ version < version' /\ marker' \in Markers
          /\ (marker'.generation > 0) = (marker'.status # "not_attempted")
          /\ reserved' \in [Generations -> Nat]
          /\ marker.generation <= marker'.generation
          /\ marker'.status # "delivered" \/ (marker'.generation = marker.generation /\ marker.status = "delivered")
          /\ Sends(call[w]) => /\ marker'.generation = marker.generation + 1 /\ marker.generation + 1 \in Generations
                               /\ marker'.status = "pending"
          /\ ~Sends(call[w]) => marker'.generation = marker.generation /\ (marker'.active => marker.active)
          /\ Announced' /\ DeliveredIsAcked'
      BY <1>1, <1>4, MarkerWritten
    <2>2. version \in Nat /\ marker.generation \in Nat /\ observations \in Nat
      BY DEF IInv, TypeOK, Markers
    <2>3. /\ IsFiniteSet(Pending') /\ Cardinality(Pending') = Cardinality(Pending) - 1 /\ Cardinality(Pending) \in Nat
      BY <1>1, PendingCounted DEF IInv, CountOK, TypeOK
    <2>4. CountOK'
      <3>1. marker'.generation + Cardinality(Pending') <= observations
        BY <2>1, <2>2, <2>3 DEF IInv, CountOK
      <3>2. marker'.active => marker'.generation > 0
        BY <2>1, <2>2 DEF IInv, CountOK
      <3> QED BY <1>1, <2>3, <3>1, <3>2 DEF IInv, CountOK
    <2>5. version <= version' /\ (version' = version => marker' = marker)
      BY <2>1, <2>2
    <2> QED BY <1>2, <2>1, <2>4, <2>5
  <1> QED BY <1>3, <1>4 DEF WriteRaises

-----------------------------------------------------------------------------
(***************************************************************************)
(* The transport, and record_delivery.                                     *)
(***************************************************************************)
LEMMA SendKeeps ==
    ASSUME IInv, NEW w \in Workers, NEW receipt \in BOOLEAN, Send(w, receipt)
    PROVE  IInv'
  <1> DEFINE c == [call[w] EXCEPT !.receipt = receipt, !.records = call[w].records + 1]
  <1>1. c \in Calls /\ c.generation = call[w].generation /\ c.receipt = receipt
    <2>1. call[w] \in Calls /\ call[w].records + 1 \in Nat
      BY DEF IInv, TypeOK, Calls
    <2> QED BY <2>1 DEF Calls
  <1>2. call' = [call EXCEPT ![w] = c] /\ call'[w] = c /\ pc'[w] = "delivery_read"
    BY DEF Send, Goto, IInv, TypeOK
  <1> HIDE DEF c
  <1>3. /\ call[w].generation \in Generations /\ w \in told[call[w].generation]
        /\ marker.generation = call[w].generation => marker.status # "delivered"
    BY DEF Send, IInv, WorkersOK, OwnerOK
  <1>4. acked \subseteq acked' /\ acked' \subseteq Generations /\ (receipt => call[w].generation \in acked')
    BY <1>3 DEF Send, IInv, TypeOK
  <1>5. TypeOK'
    BY <1>1, <1>2, <1>4 DEF Send, Goto, IInv, TypeOK
  <1>6. CountOK'
    BY CountKept DEF Send, IInv, TypeOK
  <1>7. ASSUME NEW v \in Workers PROVE ReadOK(v)' /\ OwnerOK(v)'
    <2>1. CASE v = w
      BY <1>1, <1>2, <1>3, <1>4, <2>1 DEF Send, ReadOK, OwnerOK
    <2>2. CASE v # w
      <3>1. call'[v] = call[v] /\ pc'[v] = pc[v]
        BY <2>2 DEF Send, IInv, TypeOK, Goto
      <3> QED BY <1>4, <3>1, SameMarker DEF Send
    <2> QED BY <2>1, <2>2
  <1>8. SentOnce' /\ Announced' /\ DeliveredIsAcked'
    BY <1>4 DEF Send, IInv, SentOnce, Announced, DeliveredIsAcked
  <1> QED BY <1>5, <1>6, <1>7, <1>8 DEF IInv, WorkersOK

LEMMA DeliveryReadKeeps ==
    ASSUME IInv, NEW w \in Workers, DeliveryRead(w)
    PROVE  IInv'
  <1> DEFINE c == [call[w] EXCEPT !.version = version, !.read = marker]
  <1>1. CASE SameTransition(w) /\ call' = [call EXCEPT ![w] = c] /\ Goto(w, "delivery_write")
    <2>1. call[w] \in Calls /\ version \in Nat /\ marker \in Markers
      BY DEF IInv, TypeOK
    <2>2. /\ c \in Calls /\ c.version = version /\ c.read = marker /\ c.generation = call[w].generation
          /\ c.receipt = call[w].receipt
      BY <2>1 DEF Calls
    <2>3. call'[w] = c /\ pc'[w] = "delivery_write"
      BY <1>1 DEF Goto, IInv, TypeOK
    <2> HIDE DEF c
    <2>4. OwnerOK(w)' /\ ReadOK(w)'
      BY <1>1, <2>1, <2>2, <2>3 DEF DeliveryRead, SameTransition, IInv, WorkersOK, OwnerOK, ReadOK
    <2> QED BY <1>1, <2>2, <2>4, LocalStep DEF DeliveryRead
  <1>2. CASE call' = [call EXCEPT ![w] = NoCall] /\ Goto(w, "idle")
    BY <1>2, Rests DEF DeliveryRead
  <1> QED BY <1>1, <1>2 DEF DeliveryRead

\* Who goes back to the transport after a delivery that was not confirmed still
\* owns the transition.
LEMMA DeliveryWriteKeeps ==
    ASSUME IInv, NEW w \in Workers, DeliveryWrite(w)
    PROVE  IInv' /\ marker'.generation = marker.generation /\ marker.status # "delivered"
  <1> DEFINE g == call[w].generation
             status == IF call[w].receipt THEN "delivered" ELSE "uncertain"
  <1>1. /\ pc[w] = "delivery_write" /\ call[w].version = version /\ call[w].read = marker
        /\ marker.generation = g /\ g \in Generations /\ w \in told[g] /\ marker.status # "delivered"
        /\ call[w].receipt => g \in acked
    BY DEF DeliveryWrite, Unchanged, IInv, WorkersOK, ReadOK, OwnerOK, TypeOK
  <1>2. marker \in Markers /\ version \in Nat /\ g \in Nat /\ g > 0
    BY <1>1 DEF IInv, TypeOK, Markers, Generations
  <1>3. marker' = [marker EXCEPT !.status = status] /\ version' = version + 1
    BY <1>1 DEF DeliveryWrite, Stores
  <1>4. /\ marker' \in Markers /\ marker'.generation = marker.generation /\ marker'.status = status
        /\ marker'.active = marker.active /\ marker'.severity = marker.severity
    BY <1>2, <1>3 DEF Markers, Statuses
  <1>5. /\ version' \in Nat /\ version < version'
        /\ (marker'.generation > 0) = (marker'.status # "not_attempted")
    BY <1>1, <1>2, <1>3, <1>4
  <1>6. PICK step \in {"idle", "send"} :
            /\ Goto(w, step) /\ call' \in [Workers -> Calls]
            /\ \A v \in Workers : v # w => call'[v] = call[v]
            /\ step = "send" => call'[w] = call[w] /\ ~call[w].receipt
    BY NoCallTyped DEF DeliveryWrite, DeliveryEnds, IInv, TypeOK
  <1>7. TypeOK'
    BY <1>4, <1>5, <1>6 DEF DeliveryWrite, Goto, IInv, TypeOK
  <1>8. SentOnce' /\ Announced' /\ DeliveredIsAcked'
    BY <1>1, <1>4 DEF DeliveryWrite, IInv, SentOnce, Announced, DeliveredIsAcked
  <1>9. CountOK'
    BY <1>4, <1>6, CountKept DEF DeliveryWrite, IInv
  <1>10. \A v \in Workers : v \in told[g] => v = w
    BY <1>1 DEF IInv, SentOnce
  <1>11. ASSUME NEW v \in Workers PROVE ReadOK(v)' /\ OwnerOK(v)'
    <2>1. CASE v = w
      <3>1. CASE step = "idle"
        BY <1>6, <2>1, <3>1, NoCallOK DEF IInv, TypeOK, Goto
      <3>2. CASE step = "send"
        <4>1. pc'[w] = "send" /\ call'[w] = call[w] /\ status = "uncertain"
          BY <1>6, <3>2 DEF IInv, TypeOK, Goto
        <4> QED BY <1>1, <1>4, <2>1, <4>1 DEF ReadOK, OwnerOK, DeliveryWrite
      <3> QED BY <3>1, <3>2
    <2>2. CASE v # w
      <3>1. call'[v] = call[v] /\ pc'[v] = pc[v]
        BY <1>6, <2>2 DEF IInv, TypeOK, Goto
      <3>2. ~(\E h \in Generations : h = marker.generation /\ v \in told[h])
        BY <1>1, <1>10, <2>2
      <3>3. version <= version' /\ (version' = version => marker' = marker) /\ marker.generation <= marker'.generation
        BY <1>1, <1>2, <1>4, <1>5
      <3>4. UNCHANGED <<told, acked>>
        BY DEF DeliveryWrite
      <3> QED BY <1>4, <1>5, <3>1, <3>2, <3>3, <3>4, OthersKeep DEF IInv
    <2> QED BY <2>1, <2>2
  <1> QED BY <1>1, <1>4, <1>7, <1>8, <1>9, <1>11 DEF IInv, WorkersOK

LEMMA DeliveryLosesKeeps ==
    ASSUME IInv, NEW w \in Workers, DeliveryLoses(w)
    PROVE  IInv'
  <1>1. CASE call' = [call EXCEPT ![w] = NoCall] /\ Goto(w, "idle")
    BY <1>1, Rests DEF DeliveryLoses
  <1>2. CASE UNCHANGED call /\ Goto(w, "send")
    <2>1. call[w] \in Calls /\ call' = [call EXCEPT ![w] = call[w]] /\ pc'[w] = "send"
      BY <1>2 DEF Goto, IInv, TypeOK
    <2>2. ReadOK(w)' /\ OwnerOK(w)'
      BY <1>2, <2>1 DEF DeliveryLoses, ReadOK, OwnerOK, IInv, WorkersOK
    <2> QED BY <1>2, <2>1, <2>2, LocalStep DEF DeliveryLoses
  <1> QED BY <1>1, <1>2 DEF DeliveryLoses, DeliveryEnds

-----------------------------------------------------------------------------
(***************************************************************************)
(* The theorems.                                                           *)
(***************************************************************************)
LEMMA InitIInv == Init => IInv
  <1> SUFFICES ASSUME Init PROVE IInv
    OBVIOUS
  <1>1. Pending = {}
    BY DEF Init, Pending
  <1>2. TypeOK
    BY NoCallTyped, IncidentAssumption DEF Init, TypeOK, Missing, Markers
  <1>3. CountOK
    BY <1>1, FS_EmptySet, IncidentAssumption DEF Init, CountOK, Missing
  <1>4. WorkersOK
    BY DEF Init, WorkersOK, ReadOK, OwnerOK
  <1>5. SentOnce /\ Announced /\ DeliveredIsAcked
    BY DEF Init, SentOnce, Announced, DeliveredIsAcked, Missing
  <1> QED BY <1>2, <1>3, <1>4, <1>5 DEF IInv

LEMMA NextKeeps == IInv /\ [Next]_vars => IInv'
  <1> SUFFICES ASSUME IInv, [Next]_vars PROVE IInv'
    OBVIOUS
  <1>1. CASE UNCHANGED vars
    BY <1>1 DEF vars, IInv, TypeOK, SentOnce, Announced, DeliveredIsAcked, CountOK, Pending, WorkersOK, ReadOK, OwnerOK
  <1>2. ASSUME NEW w \in Workers, GivesUp(w) \/ NothingToWrite(w) PROVE IInv'
    BY <1>2, Rests DEF GivesUp, NothingToWrite
  <1>3. CASE Next
    BY <1>2, <1>3, ObserveKeeps, ReadKeeps, WriteKeeps, WriteLosesKeeps, WriteRaisesKeeps, SendKeeps,
       DeliveryReadKeeps, DeliveryWriteKeeps, DeliveryLosesKeeps DEF Next
  <1> QED BY <1>1, <1>3

THEOREM IncidentInvariant == Spec => []IInv
  BY InitIInv, NextKeeps, PTL DEF Spec

\* Types: what the marker store and the workers can hold, and a transition
\* number is never beyond the number of observations.
THEOREM IncidentTypeCorrect == Spec => []TypeOK
  <1>1. IInv => TypeOK
    BY DEF IInv
  <1> QED BY <1>1, IncidentInvariant, PTL

\* "Reserve before sending; pending/uncertain is never blindly resent": no
\* transition is given to two workers, whatever they race and lose.
THEOREM TransitionIsSentOnce == Spec => []SentOnce
  <1>1. IInv => SentOnce
    BY DEF IInv
  <1> QED BY <1>1, IncidentInvariant, PTL

\* observe swallows only what was announced at least as severe.
THEOREM IncidentIsAnnounced == Spec => []Announced
  <1>1. IInv => Announced
    BY DEF IInv
  <1> QED BY <1>1, IncidentInvariant, PTL

\* record_delivery marks a transition as delivered only on its own receipt.
THEOREM DeliveredWasAcked == Spec => []DeliveredIsAcked
  <1>1. IInv => DeliveredIsAcked
    BY DEF IInv
  <1> QED BY <1>1, IncidentInvariant, PTL

\* No worker takes back a confirmed delivery: observe keeps the delivery of the
\* transition it leaves, and record_delivery belongs to one worker.
THEOREM DeliveryIsFinal == Spec => DeliveryFinal
  <1> DEFINE A == /\ marker.generation <= marker'.generation
                  /\ marker.status = "delivered" /\ marker'.generation = marker.generation
                         => marker'.status = "delivered"
  <1>1. ASSUME IInv, Next PROVE A
    <2>1. marker.generation \in Nat
      BY <1>1 DEF IInv, TypeOK, Markers
    <2>2. CASE UNCHANGED marker
      BY <2>1, <2>2
    <2>3. ASSUME NEW w \in Workers, pc[w] = "write", Unchanged(w), Stores(Wanted(call[w])),
                 Reserves(w) \/ (~Sends(call[w]) /\ UNCHANGED reserved), UNCHANGED acked
          PROVE  A
      <3>1. /\ Sends(call[w]) => marker'.generation = marker.generation + 1
            /\ ~Sends(call[w]) => Wanted(call[w]).status = marker.status /\ marker'.generation = marker.generation
        BY <1>1, <2>3, MarkerWritten, WhatIsWanted
      <3> QED BY <2>1, <2>3, <3>1 DEF Stores
    <2>4. ASSUME NEW w \in Workers, DeliveryWrite(w) PROVE A
      BY <1>1, <2>1, <2>4, DeliveryWriteKeeps
    <2>5. ASSUME NEW w \in Workers, Write(w) PROVE A
      BY <2>3, <2>5 DEF Write
    <2>6. ASSUME NEW w \in Workers, WriteRaises(w) PROVE A
      BY <2>2, <2>3, <2>6 DEF WriteRaises
    <2> QED
      BY <1>1, <2>2, <2>4, <2>5, <2>6
      DEF Next, Observe, Read, GivesUp, NothingToWrite, WriteLoses, Send, DeliveryRead, DeliveryLoses
  <1>2. IInv /\ [Next]_vars => [A]_vars
    BY <1>1
  <1> QED BY <1>2, IncidentInvariant, PTL DEF Spec, DeliveryFinal
===============================================================================
