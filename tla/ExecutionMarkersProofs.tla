----------------------- MODULE ExecutionMarkersProofs -----------------------
(***************************************************************************)
(* One execution per signal, one owner per account and one outcome per     *)
(* execution, for any number of runs, crashes and handovers.               *)
(***************************************************************************)
EXTENDS ExecutionMarkers, TLAPS

\* r has, or had, the claim.
Holds(r) == pc[r] \in {"claim_write", "submit"} \/ submits[r] > 0

ClaimOK ==
    /\ \A r \in Claimers : Holds(r) => object["claim"] # Absent
    /\ \A r, q \in Claimers : Holds(r) /\ Holds(q) => r = q
    /\ \A r \in Claimers : pc[r] \in {"claim_write", "submit"} => submits[r] = 0
    /\ \A r \in Claimers : submits[r] <= 1

\* Claimers and older callers keep to their own steps.
PathsOK ==
    /\ \A r \in Claimers : pc[r] \notin {"has_marker", "record_marker", "record_write"}
    /\ \A r \in LegacyRuns : pc[r] \in {"stopped", "has_marker", "submit", "record_marker", "record_write"}
    /\ ~local => \A r \in Runs, n \in Names : pc[r] # Writing[n]

\* The fence that runs are past is their owner's.
FenceOK ==
    \A r \in Claimers : PastFence(r) => object["fence"] \in Runs /\ Owner[object["fence"]] = Owner[r]

\* One run writes a file.
WritersOK ==
    \A r, q \in Runs, n \in Names : pc[r] = Writing[n] /\ pc[q] = Writing[n] => r = q

IInv == TypeOK /\ ClaimOK /\ PathsOK /\ FenceOK /\ WritersOK /\ OutcomeKept

\* Distinct steps and names, spelled out.
LEMMA Spelled ==
    /\ Names = {"fence", "claim", "outcome"}
    /\ Writing["fence"] = "fence_write" /\ Writing["claim"] = "claim_write"
    /\ Writing["outcome"] = "outcome_write"
    /\ After["fence"] = "claim" /\ After["claim"] = "submit" /\ After["outcome"] = "done"
    /\ Steps = {"stopped", "done", "submit", "read_fence", "has_marker", "record_marker", "record_write",
                "fence", "claim", "outcome", "fence_write", "claim_write", "outcome_write"}
  BY DEF Names, Writing, After, Steps

LEMMA InitIInv == Init => IInv
  BY Spelled, MarkersAssumption, SMTT(30)
     DEF Init, IInv, TypeOK, ClaimOK, PathsOK, FenceOK, WritersOK, OutcomeKept, Holds, PastFence, Claimers

\* Steps that only move a run between steps at which it holds nothing.
LEMMA MoveKeeps ==
    ASSUME IInv, NEW r \in Runs, NEW step \in {"stopped", "has_marker", "fence", "read_fence", "outcome", "done", "claim", "submit", "record_marker"},
           Goto(r, step), UNCHANGED <<local, object, submits, answers>>,
           r \in LegacyRuns => step \in {"stopped", "has_marker", "submit", "record_marker"},
           r \in Claimers => step \notin {"has_marker", "record_marker", "submit"},
           r \in Claimers /\ step = "claim" => OwnFence(r),
           starts' \in [Runs -> Nat], faults' \in Nat, handovers' \in Nat
    PROVE  IInv'
  <1>1. TypeOK'
    <2>1. step \in Steps /\ \A n \in Names : step # Writing[n]
      BY Spelled
    <2>2. pc' \in [Runs -> Steps] /\ \A q \in Runs : pc'[q] = IF q = r THEN step ELSE pc[q]
      BY <2>1 DEF IInv, TypeOK, Goto
    <2> QED BY <2>1, <2>2 DEF IInv, TypeOK
  <1>2. ClaimOK'
    BY Spelled DEF IInv, TypeOK, ClaimOK, Goto, Holds, Claimers
  <1>3. PathsOK' /\ FenceOK' /\ WritersOK' /\ OutcomeKept'
    BY Spelled DEF IInv, TypeOK, PathsOK, FenceOK, WritersOK, OutcomeKept, Goto, PastFence, OwnFence, Claimers
  <1> QED BY <1>1, <1>2, <1>3 DEF IInv

\* A claimer's step between its fence, claim and outcome that fills an object.
LEMMA FillKeeps ==
    ASSUME IInv, NEW r \in Claimers, NEW n \in Names, Tell(r, n, "recorded"),
           UNCHANGED <<local, submits>>, starts' \in [Runs -> Nat], faults' \in Nat, handovers' \in Nat,
           \/ pc[r] = n /\ object[n] = Absent
           \/ pc[r] = Writing[n],
           Put(r, n, r), Goto(r, After[n])
    PROVE  IInv'
  <1>1. r \in Runs /\ (n = "fence" \/ n = "claim" \/ n = "outcome")
    BY Spelled DEF Claimers
  <1>2. (n # "claim" => object[n] \in {Absent, Empty}) /\ \A q \in Runs : q # r => pc[q] # Writing[n]
    <2>1. CASE pc[r] = n /\ object[n] = Absent
      BY <1>1, <2>1, MarkersAssumption DEF IInv, TypeOK
    <2>2. CASE pc[r] = Writing[n]
      BY <1>1, <2>2 DEF IInv, TypeOK, WritersOK
    <2> QED BY <2>1, <2>2
  <1>3. object' = [object EXCEPT ![n] = r] /\ pc' = [pc EXCEPT ![r] = After[n]]
    BY DEF Put, Goto
  <1>4. TypeOK'
    <2>1. answers' \in [Runs -> SUBSET {"recorded", "already"}]
      BY <1>1 DEF IInv, TypeOK, Tell
    <2>2. object' \in [Names -> Runs \cup {Absent, Empty}] /\ pc' \in [Runs -> Steps]
      BY <1>1, <1>3, Spelled DEF IInv, TypeOK
    <2>3. ASSUME NEW q \in Runs, NEW m \in Names, pc'[q] = Writing[m]
          PROVE  object'[m] # Absent /\ (m # "claim" => object'[m] = Empty)
      <3>1. q # r /\ pc[q] = Writing[m]
        BY <1>1, <1>3, <2>3, Spelled DEF IInv, TypeOK
      <3>2. object[m] # Absent /\ (m # "claim" => object[m] = Empty)
        BY <3>1 DEF IInv, TypeOK
      <3>3. CASE m = n
        BY <1>1, <1>2, <1>3, <3>1, <3>3, MarkersAssumption DEF IInv, TypeOK
      <3>4. CASE m # n
        BY <1>1, <1>3, <3>2, <3>4 DEF IInv, TypeOK
      <3> QED BY <3>3, <3>4
    <2> QED BY <2>1, <2>2, <2>3 DEF IInv, TypeOK
  <1>5. ClaimOK'
    <2>1. CASE n = "claim"
      <3>1. \A q \in Claimers : q # r => ~Holds(q)
        <4> SUFFICES ASSUME NEW q \in Claimers, q # r, Holds(q) PROVE FALSE
          OBVIOUS
        <4>1. object["claim"] # Absent
          BY DEF IInv, ClaimOK
        <4>2. pc[r] = "claim_write"
          BY <2>1, <4>1, Spelled
        <4> QED BY <4>2 DEF IInv, ClaimOK, Holds
      <3>2. submits[r] = 0
        <4>1. CASE pc[r] = "claim" /\ object["claim"] = Absent
          <5>1. ~(submits[r] > 0)
            BY <4>1 DEF IInv, ClaimOK, Holds
          <5> QED BY <5>1, <1>1 DEF IInv, TypeOK
        <4>2. CASE pc[r] = "claim_write"
          BY <4>2 DEF IInv, ClaimOK
        <4> QED BY <2>1, <4>1, <4>2, Spelled
      <3> QED BY <1>1, <1>3, <2>1, <3>1, <3>2, MarkersAssumption, Spelled DEF IInv, TypeOK, ClaimOK, Holds, Claimers
    <2>2. CASE n # "claim"
      BY <1>1, <1>3, <2>2, Spelled DEF IInv, TypeOK, ClaimOK, Holds, Claimers
    <2> QED BY <2>1, <2>2
  <1>6. PathsOK'
    BY <1>1, <1>3, Spelled DEF IInv, TypeOK, PathsOK, Claimers
  <1>7. FenceOK'
    <2>1. CASE n = "fence"
      <3>1. \A q \in Claimers : ~PastFence(q)
        BY <1>2, <2>1, MarkersAssumption DEF IInv, FenceOK
      <3> QED BY <1>1, <1>3, <2>1, <3>1, Spelled DEF IInv, TypeOK, FenceOK, PastFence, Claimers
    <2>2. CASE n # "fence"
      BY <1>1, <1>3, <2>2, Spelled DEF IInv, TypeOK, FenceOK, PastFence, Claimers
    <2> QED BY <2>1, <2>2
  <1>8. WritersOK'
    BY <1>1, <1>3, Spelled DEF IInv, TypeOK, WritersOK
  <1>9. OutcomeKept'
    <2>1. CASE n = "outcome"
      <3>1. \A q \in Runs : "recorded" \notin answers[q]
        BY <1>2, <2>1, MarkersAssumption DEF IInv, OutcomeKept
      <3> QED BY <1>1, <1>3, <2>1, <3>1, Spelled DEF IInv, TypeOK, OutcomeKept, Tell
    <2>2. CASE n # "outcome"
      BY <1>1, <1>3, <2>2, Spelled DEF IInv, TypeOK, OutcomeKept, Tell
    <2> QED BY <2>1, <2>2
  <1> QED BY <1>4, <1>5, <1>6, <1>7, <1>8, <1>9 DEF IInv

\* A create took effect and its answer was lost.
LEMMA LostAnswerKeeps ==
    ASSUME IInv, NEW r \in Runs, NEW n \in Names, pc[r] = n, Creatable(n), Put(r, n, r), Goto(r, "stopped"),
           UNCHANGED <<local, submits, answers, starts, handovers>>, faults' \in Nat
    PROVE  IInv'
  <1>1. /\ n = "fence" \/ n = "claim" \/ n = "outcome"
        /\ object[n] = Absent /\ object' = [object EXCEPT ![n] = r] /\ pc' = [pc EXCEPT ![r] = "stopped"]
        /\ Absent \notin Runs /\ Empty # Absent
    BY Spelled, MarkersAssumption DEF Creatable, Put, Goto
  <1>2. \A q \in Runs : pc[q] # Writing[n]
    BY <1>1 DEF IInv, TypeOK
  <1>3. TypeOK'
    BY <1>1, <1>2, Spelled DEF IInv, TypeOK
  <1>4. ClaimOK'
    BY <1>1, Spelled DEF IInv, TypeOK, ClaimOK, Holds, Claimers
  <1>5. PathsOK' /\ WritersOK'
    BY <1>1, <1>2, Spelled DEF IInv, TypeOK, PathsOK, WritersOK, Claimers
  <1>6. FenceOK' /\ OutcomeKept'
    BY <1>1, Spelled DEF IInv, TypeOK, FenceOK, OutcomeKept, PastFence, Claimers
  <1> QED BY <1>3, <1>4, <1>5, <1>6 DEF IInv

\* A local file comes into being, empty.
LEMMA OpenKeeps ==
    ASSUME IInv, local, NEW r \in Claimers, NEW n \in Names, pc[r] = n, object[n] = Absent,
           Put(r, n, Empty), Goto(r, Writing[n]), UNCHANGED <<local, submits, answers, starts, faults, handovers>>
    PROVE  IInv'
  <1>1. r \in Runs /\ (n = "fence" \/ n = "claim" \/ n = "outcome") /\ Absent # Empty /\ Empty \notin Runs /\ Absent \notin Runs
    BY Spelled, MarkersAssumption DEF Claimers
  <1>2. \A q \in Runs : pc[q] # Writing[n]
    BY <1>1 DEF IInv, TypeOK
  <1>3. object' = [object EXCEPT ![n] = Empty] /\ pc' = [pc EXCEPT ![r] = Writing[n]]
    BY DEF Put, Goto
  <1>4. TypeOK'
    BY <1>1, <1>2, <1>3, Spelled DEF IInv, TypeOK
  <1>5. ClaimOK'
    <2>1. CASE n = "claim"
      <3>1. \A q \in Claimers : ~Holds(q)
        BY <2>1 DEF IInv, ClaimOK
      <3>2. submits[r] = 0
        BY <3>1, <1>1 DEF Holds, IInv, TypeOK
      <3> QED BY <1>1, <1>3, <2>1, <3>1, <3>2, Spelled DEF IInv, TypeOK, ClaimOK, Holds, Claimers
    <2>2. CASE n # "claim"
      BY <1>1, <1>3, <2>2, Spelled DEF IInv, TypeOK, ClaimOK, Holds, Claimers
    <2> QED BY <2>1, <2>2
  <1>6. PathsOK' /\ WritersOK'
    BY <1>1, <1>2, <1>3, Spelled DEF IInv, TypeOK, PathsOK, WritersOK, Claimers
  <1>7. FenceOK' /\ OutcomeKept'
    BY <1>1, <1>3, Spelled DEF IInv, TypeOK, FenceOK, OutcomeKept, PastFence, Claimers
  <1> QED BY <1>4, <1>5, <1>6, <1>7 DEF IInv

\* Only claimers create.
LEMMA CreatorsClaim ==
    ASSUME IInv, NEW r \in Runs, NEW n \in Names, pc[r] = n \/ pc[r] = Writing[n]
    PROVE  r \in Claimers
  BY Spelled DEF IInv, PathsOK, Claimers

LEMMA CreateKeeps ==
    ASSUME IInv, NEW r \in Runs, NEW n \in Names, Create(r, n)
    PROVE  IInv'
  <1>1. r \in Claimers /\ pc[r] = n /\ object[n] = Absent
    BY CreatorsClaim DEF Create, Creatable
  <1>2. starts' \in [Runs -> Nat] /\ faults' \in Nat /\ handovers' \in Nat /\ UNCHANGED <<local, submits, starts, faults, handovers>>
    BY DEF Create, IInv, TypeOK
  <1>3. CASE local
    BY <1>1, <1>2, <1>3, OpenKeeps DEF Create
  <1>4. CASE ~local
    BY <1>1, <1>2, <1>4, FillKeeps DEF Create
  <1> QED BY <1>3, <1>4

LEMMA WriteKeeps ==
    ASSUME IInv, NEW r \in Runs, NEW n \in Names, Write(r, n)
    PROVE  IInv'
  <1>1. r \in Claimers
    BY CreatorsClaim DEF Write
  <1>2. starts' \in [Runs -> Nat] /\ faults' \in Nat /\ handovers' \in Nat
    BY DEF Write, IInv, TypeOK
  <1> QED BY <1>1, <1>2, FillKeeps DEF Write

LEMMA ExistsKeeps ==
    ASSUME IInv, NEW r \in Runs, NEW n \in Names, Exists(r, n)
    PROVE  IInv'
  <1>1. r \in Claimers /\ r \in Runs /\ r \notin LegacyRuns
    BY CreatorsClaim, MarkersAssumption DEF Exists, Claimers
  <1> DEFINE step == CASE n = "fence" -> "read_fence" [] n = "claim" -> "stopped" [] OTHER -> "done"
  <1>2. step \in {"read_fence", "stopped", "done"} /\ pc' = [pc EXCEPT ![r] = step] /\ UNCHANGED <<local, object, submits, starts, faults, handovers>>
    BY Spelled DEF Exists, Goto
  <1> HIDE DEF step
  <1>3. answers' \in [Runs -> SUBSET {"recorded", "already"}] /\ \A q \in Runs : "recorded" \in answers'[q] => "recorded" \in answers[q]
    BY <1>1 DEF Exists, Tell, IInv, TypeOK
  <1>4. TypeOK'
    <2>1. step \in Steps /\ \A m \in Names : step # Writing[m]
      BY <1>2, Spelled
    <2>2. pc' \in [Runs -> Steps] /\ \A q \in Runs : pc'[q] = IF q = r THEN step ELSE pc[q]
      BY <1>2, <2>1 DEF IInv, TypeOK
    <2> QED BY <1>2, <1>3, <2>1, <2>2 DEF IInv, TypeOK
  <1>5. ClaimOK'
    BY <1>1, <1>2, Spelled DEF IInv, TypeOK, ClaimOK, Holds, Claimers
  <1>6. PathsOK' /\ FenceOK' /\ WritersOK'
    BY <1>1, <1>2, Spelled DEF IInv, TypeOK, PathsOK, FenceOK, WritersOK, PastFence, Claimers
  <1>7. OutcomeKept'
    BY <1>2, <1>3 DEF IInv, OutcomeKept
  <1> QED BY <1>4, <1>5, <1>6, <1>7 DEF IInv

\* An order is sent: by the one claimer that holds the claim, or an older caller.
LEMMA SubmittedKeeps ==
    ASSUME IInv, NEW r \in Runs, pc[r] = "submit", submits' = [submits EXCEPT ![r] = @ + 1],
           NEW step \in {"stopped", "record_marker", "outcome"}, Goto(r, step),
           r \in LegacyRuns => step # "outcome", r \in Claimers => step # "record_marker",
           UNCHANGED <<local, object, answers>>, starts' \in [Runs -> Nat], faults' \in Nat, handovers' \in Nat
    PROVE  IInv'
  <1>1. TypeOK'
    <2>1. submits' \in [Runs -> Nat]
      BY DEF IInv, TypeOK
    <2>2. pc' \in [Runs -> Steps] /\ \A q \in Runs : pc'[q] = IF q = r THEN step ELSE pc[q]
      BY Spelled DEF IInv, TypeOK, Goto
    <2>3. \A q \in Runs, n \in Names :
              pc'[q] = Writing[n] => object'[n] # Absent /\ (n # "claim" => object'[n] = Empty)
      BY <2>2, Spelled DEF IInv, TypeOK
    <2> QED BY <2>1, <2>2, <2>3 DEF IInv, TypeOK
  <1>2. ClaimOK'
    BY Spelled DEF IInv, TypeOK, ClaimOK, Goto, Holds, Claimers
  <1>3. PathsOK' /\ FenceOK' /\ WritersOK' /\ OutcomeKept'
    BY Spelled DEF IInv, TypeOK, PathsOK, FenceOK, WritersOK, OutcomeKept, Goto, PastFence, Claimers
  <1> QED BY <1>1, <1>2, <1>3 DEF IInv

LEMMA SubmitKeeps ==
    ASSUME IInv, NEW r \in Runs, Submit(r)
    PROVE  IInv'
  <1>1. (r \in Claimers) = (r \notin LegacyRuns)
    BY DEF Claimers
  <1>2. starts' \in [Runs -> Nat] /\ faults' \in Nat /\ handovers' \in Nat
    BY DEF Submit, IInv, TypeOK
  <1> QED BY <1>1, <1>2, SubmittedKeeps DEF Submit

\* An older caller empties the claim, or writes it.
LEMMA OverwriteKeeps ==
    ASSUME IInv, NEW r \in LegacyRuns, NEW content \in {r, Empty}, NEW step \in {"stopped", "record_write"},
           object' = [object EXCEPT !["claim"] = content], pc' = [pc EXCEPT ![r] = step],
           UNCHANGED <<local, submits, answers, starts, faults, handovers>>
    PROVE  IInv'
  <1>1. r \in Runs /\ r \notin Claimers /\ Absent \notin Runs /\ Absent # Empty
    BY MarkersAssumption DEF Claimers
  <1>2. content \in Runs \cup {Empty} /\ content # Absent
    BY <1>1
  <1>3. TypeOK'
    BY <1>1, <1>2, Spelled DEF IInv, TypeOK
  <1>4. ClaimOK'
    BY <1>1, <1>2, Spelled DEF IInv, TypeOK, ClaimOK, Holds, Claimers
  <1>5. PathsOK' /\ FenceOK' /\ WritersOK' /\ OutcomeKept'
    BY <1>1, <1>2, Spelled DEF IInv, TypeOK, PathsOK, FenceOK, WritersOK, OutcomeKept, PastFence, Claimers
  <1> QED BY <1>3, <1>4, <1>5 DEF IInv

LEMMA RecordMarkerKeeps ==
    ASSUME IInv, NEW r \in Runs, RecordMarker(r) \/ RecordWrite(r)
    PROVE  IInv'
  <1>1. r \in LegacyRuns
    BY DEF RecordMarker, RecordWrite, IInv, PathsOK, Claimers
  <1>2. CASE RecordMarker(r)
    <2>1. CASE local
      BY <1>1, <1>2, <2>1, OverwriteKeeps DEF RecordMarker, Goto
    <2>2. CASE ~local
      BY <1>1, <1>2, <2>2, OverwriteKeeps DEF RecordMarker, Recorded, Goto
    <2> QED BY <2>1, <2>2
  <1>3. CASE RecordWrite(r)
    BY <1>1, <1>3, OverwriteKeeps DEF RecordWrite, Recorded, Goto
  <1> QED BY <1>2, <1>3

\* A failed recorder removes the file it created.
LEMMA CleanUpKeeps ==
    ASSUME IInv, NEW r \in Runs, pc[r] = "outcome_write", Goto(r, "stopped"),
           object' = [object EXCEPT !["outcome"] = Absent],
           UNCHANGED <<local, submits, answers, starts, handovers>>, faults' \in Nat
    PROVE  IInv'
  <1>1. object["outcome"] = Empty /\ Empty \notin Runs /\ \A q \in Runs : q # r => pc[q] # "outcome_write"
    BY Spelled, MarkersAssumption DEF IInv, TypeOK, WritersOK
  <1>2. TypeOK'
    BY <1>1, Spelled DEF IInv, TypeOK, Goto
  <1>3. ClaimOK' /\ PathsOK' /\ FenceOK' /\ WritersOK'
    <2>1. ClaimOK' /\ PathsOK'
      BY Spelled DEF IInv, TypeOK, ClaimOK, PathsOK, Goto, Holds, Claimers
    <2>2. FenceOK'
      BY Spelled DEF IInv, TypeOK, FenceOK, Goto, Holds, PastFence
    <2>3. WritersOK'
      BY Spelled DEF IInv, TypeOK, WritersOK, Goto
    <2> QED BY <2>1, <2>2, <2>3
  <1>4. OutcomeKept'
    BY <1>1 DEF IInv, OutcomeKept
  <1> QED BY <1>2, <1>3, <1>4 DEF IInv

LEMMA RaisesKeeps ==
    ASSUME IInv, NEW r \in Runs, Raises(r)
    PROVE  IInv'
  <1>1. /\ starts' \in [Runs -> Nat] /\ faults' \in Nat /\ handovers' \in Nat
        /\ Goto(r, "stopped") /\ UNCHANGED <<local, submits, answers, starts, handovers>>
    BY DEF Raises, IInv, TypeOK
  <1>2. CASE UNCHANGED object
    BY <1>1, <1>2, MoveKeeps
  <1>3. CASE CleansUp(r) /\ object' = [object EXCEPT !["outcome"] = Absent]
    BY <1>1, <1>3, CleanUpKeeps DEF CleansUp
  <1>4. ASSUME NEW n \in Names, pc[r] = n, Creatable(n), Put(r, n, r)
        PROVE  IInv'
    BY <1>1, <1>4, LostAnswerKeeps
  <1> QED BY <1>2, <1>3, <1>4 DEF Raises

LEMMA DiesKeeps ==
    ASSUME IInv, NEW r \in Runs, Dies(r)
    PROVE  IInv'
  <1>1. /\ starts' \in [Runs -> Nat] /\ faults' \in Nat /\ handovers' \in Nat
        /\ Goto(r, "stopped") /\ UNCHANGED <<local, object, answers>>
    BY DEF Dies, IInv, TypeOK
  <1>2. CASE UNCHANGED submits
    BY <1>1, <1>2, MoveKeeps
  <1>3. CASE pc[r] = "submit" /\ submits' = [submits EXCEPT ![r] = @ + 1]
    BY <1>1, <1>3, SubmittedKeeps
  <1> QED BY <1>2, <1>3 DEF Dies

LEMMA HandoverKeeps == ASSUME IInv, Handover PROVE IInv'
  <1>1. /\ object' = [object EXCEPT !["fence"] = Absent] /\ UNCHANGED <<local, pc, submits, answers, starts, faults>>
        /\ handovers' \in Nat /\ \A r \in Runs : pc[r] = "stopped"
    BY DEF Handover, IInv, TypeOK
  <1>2. TypeOK'
    BY <1>1, Spelled DEF IInv, TypeOK
  <1>3. ClaimOK' /\ PathsOK' /\ FenceOK' /\ WritersOK' /\ OutcomeKept'
    BY <1>1, Spelled DEF IInv, TypeOK, ClaimOK, PathsOK, FenceOK, WritersOK, OutcomeKept, Holds, PastFence, Claimers
  <1> QED BY <1>2, <1>3 DEF IInv

\* Steps between which a run only looks.
LEMMA LooksKeep ==
    ASSUME IInv, NEW r \in Runs, Start(r) \/ ReadFence(r) \/ HasMarker(r) \/ RepeatOutcome(r) \/ End(r)
    PROVE  IInv'
  <1>1. (r \in Claimers) = (r \notin LegacyRuns)
    BY DEF Claimers
  <1>2. starts' \in [Runs -> Nat] /\ faults' \in Nat /\ handovers' \in Nat /\ UNCHANGED <<local, object, submits, answers>>
    BY DEF Start, ReadFence, HasMarker, RepeatOutcome, End, IInv, TypeOK
  <1>3. CASE Start(r)
    <2>1. CASE r \in LegacyRuns
      BY <1>1, <1>2, <1>3, <2>1, MoveKeeps DEF Start
    <2>2. CASE r \notin LegacyRuns
      BY <1>1, <1>2, <1>3, <2>2, MoveKeeps DEF Start
    <2> QED BY <2>1, <2>2
  <1>4. CASE ReadFence(r)
    <2>1. r \in Claimers
      BY <1>4 DEF ReadFence, IInv, PathsOK, Claimers
    <2>2. CASE OwnFence(r)
      BY <1>1, <1>2, <1>4, <2>1, <2>2, MoveKeeps DEF ReadFence
    <2>3. CASE ~OwnFence(r)
      BY <1>1, <1>2, <1>4, <2>1, <2>3, MoveKeeps DEF ReadFence
    <2> QED BY <2>2, <2>3
  <1>5. CASE HasMarker(r)
    <2>1. r \in LegacyRuns
      BY <1>5 DEF HasMarker, IInv, PathsOK, Claimers
    <2>2. CASE object["claim"] = Absent
      BY <1>1, <1>2, <1>5, <2>1, <2>2, MoveKeeps DEF HasMarker
    <2>3. CASE object["claim"] # Absent
      BY <1>1, <1>2, <1>5, <2>1, <2>3, MoveKeeps DEF HasMarker
    <2> QED BY <2>2, <2>3
  <1>6. CASE RepeatOutcome(r)
    BY <1>1, <1>2, <1>6, MoveKeeps DEF RepeatOutcome
  <1>7. CASE End(r)
    BY <1>1, <1>2, <1>7, MoveKeeps DEF End
  <1> QED BY <1>3, <1>4, <1>5, <1>6, <1>7

\* Every step keeps the invariant.
LEMMA NextKeeps == IInv /\ [Next]_vars => IInv'
  <1> SUFFICES ASSUME IInv, [Next]_vars PROVE IInv'
    OBVIOUS
  <1>1. CASE Next
    BY <1>1, LooksKeep, SubmitKeeps, RecordMarkerKeeps, RaisesKeeps, DiesKeeps, CreateKeeps, WriteKeeps, ExistsKeeps, HandoverKeeps DEF Next
  <1>2. CASE UNCHANGED vars
    BY <1>2 DEF vars, IInv, TypeOK, ClaimOK, PathsOK, FenceOK, WritersOK, OutcomeKept, Holds, PastFence
  <1> QED BY <1>1, <1>2

THEOREM MarkersInvariant == Spec => []IInv
  BY InitIInv, NextKeeps, PTL DEF Spec

\* Types, and a file is empty until its creator has written it.
THEOREM MarkersTypeCorrect == Spec => []TypeOK
  <1>1. IInv => TypeOK
    BY DEF IInv
  <1> QED BY <1>1, MarkersInvariant, PTL

\* claim_marker lets one caller through, whatever crashes, answers get lost,
\* runs are repeated and older callers write over the claim.
THEOREM OneExecutionPerSignal == Spec => []ClaimersSubmitOnce
  <1>1. IInv => ClaimersSubmitOnce
    BY DEF IInv, ClaimOK, Holds, ClaimersSubmitOnce
  <1> QED BY <1>1, MarkersInvariant, PTL

\* Runs of two owners are never past the account's fence together.
THEOREM OneOwnerPerAccount == Spec => []FenceExclusive
  <1>1. IInv => FenceExclusive
    BY DEF IInv, FenceOK, FenceExclusive
  <1> QED BY <1>1, MarkersInvariant, PTL

\* An acknowledged outcome is durable, although a failed recorder deletes.
THEOREM AcknowledgedOutcomeStays == Spec => []OutcomeKept
  <1>1. IInv => OutcomeKept
    BY DEF IInv
  <1> QED BY <1>1, MarkersInvariant, PTL
=============================================================================
