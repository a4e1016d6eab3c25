---------------------- MODULE StrategyRiskChainProofs ----------------------
(***************************************************************************)
(* A strategy risk state chain is one history, for any number of writers,  *)
(* transitions and lost answers.                                           *)
(***************************************************************************)
EXTENDS StrategyRiskChain, FiniteSetTheorems, TLAPS

S == EffectiveSession

\* Every stored object stands at its predecessor's place, and between a stored
\* transition and its successor there is no other.
StoreOK ==
    /\ \A p \in Places : object[p] # Absent => Previous[object[p]] = p
    /\ object[Root] = Absent => Stored = {}
    /\ object[Root] # Absent => \A u \in Stored : u = object[Root] \/ S[object[Root]] < S[u]
    /\ \A t \in Transitions : object[t] # Absent =>
           /\ t \in Stored /\ S[t] < S[object[t]]
           /\ \A u \in Stored : u = t \/ u = object[t] \/ S[u] < S[t] \/ S[object[t]] < S[u]
    /\ \A t \in Stored : object[t] = Absent => \A u \in Stored \ {t} : S[u] < S[t]

\* What w has read is the history up to some transition; what it is about to
\* create follows it.
Walked(w) ==
    LET chain == job[w].chain IN
    chain # <<>> =>
        /\ End(chain) \in Stored
        /\ \A u \in Stored : S[u] <= S[End(chain)] => InChain(u, chain)

WalkOK ==
    \A w \in Writers :
        /\ Walked(w)
        /\ pc[w] = "create" => Follows(job[w].target, job[w].chain)

IInv == TypeOK /\ StoreOK /\ WalkOK

-----------------------------------------------------------------------------
(***************************************************************************)
(* The store.                                                              *)
(***************************************************************************)

\* The end of a chain is a place.
LEMMA EndIsPlace ==
    ASSUME NEW chain \in Seq(Transitions)
    PROVE  /\ End(chain) \in Places
           /\ chain # <<>> => End(chain) \in Transitions /\ End(chain) = chain[Len(chain)]
           /\ chain = <<>> => End(chain) = Root
  BY DEF End, Places

\* A chain that is extended ends with what was appended, and keeps its members.
LEMMA Extended ==
    ASSUME NEW chain \in Seq(Transitions), NEW t \in Transitions
    PROVE  /\ Append(chain, t) \in Seq(Transitions) /\ Append(chain, t) # <<>>
           /\ End(Append(chain, t)) = t
           /\ InChain(t, Append(chain, t))
           /\ \A u \in Transitions : InChain(u, chain) => InChain(u, Append(chain, t))
  <1>1. /\ Append(chain, t) \in Seq(Transitions) /\ Len(Append(chain, t)) = Len(chain) + 1
        /\ Append(chain, t)[Len(chain) + 1] = t
        /\ \A i \in 1..Len(chain) : Append(chain, t)[i] = chain[i]
    OBVIOUS
  <1>2. Len(chain) \in Nat
    OBVIOUS
  <1>3. Append(chain, t) # <<>>
    BY <1>1, <1>2
  <1>4. End(Append(chain, t)) = t
    BY <1>1, <1>3 DEF End
  <1>5. Len(chain) + 1 \in 1..Len(Append(chain, t))
    BY <1>1, <1>2
  <1>6. InChain(t, Append(chain, t))
    BY <1>1, <1>5 DEF InChain
  <1>7. ASSUME NEW u \in Transitions, InChain(u, chain) PROVE InChain(u, Append(chain, t))
    <2>1. PICK i \in 1..Len(chain) : chain[i] = u
      BY <1>7 DEF InChain
    <2>2. i \in 1..Len(Append(chain, t)) /\ Append(chain, t)[i] = u
      BY <1>1, <1>2, <2>1
    <2> QED BY <2>2 DEF InChain
  <1> QED BY <1>1, <1>3, <1>4, <1>6, <1>7

\* Stored transitions are transitions, and their place is their predecessor.
LEMMA StoredIs ==
    ASSUME TypeOK, StoreOK, NEW t \in Stored
    PROVE  t \in Transitions /\ Previous[t] \in Places /\ object[Previous[t]] = t
  BY ChainAssumption DEF TypeOK, StoreOK, Stored, Places

\* An object created at the end of the history leaves a history.
LEMMA Grow ==
    ASSUME TypeOK, StoreOK, NEW t \in Transitions, object[Previous[t]] = Absent,
           Previous[t] = Root \/ (Previous[t] \in Stored /\ S[Previous[t]] < S[t]),
           object' = [object EXCEPT ![Previous[t]] = t]
    PROVE  /\ t \notin Stored /\ Stored' = Stored \cup {t}
           /\ \A u \in Stored : S[u] < S[t]
           /\ StoreOK'
           /\ History!Record(t)
  <1> DEFINE h == Previous[t]
  <1>1. h \in Places /\ object' = [object EXCEPT ![h] = t] /\ object[h] = Absent
    BY ChainAssumption DEF Places
  <1>2. t \notin Stored
    BY <1>1, StoredIs, ChainAssumption DEF Stored
  <1>3. Stored' = Stored \cup {t}
    BY <1>1, ChainAssumption DEF Stored, TypeOK, Places
  <1>4. \A u \in Transitions \cup Stored : S[u] \in Nat
    BY StoredIs, ChainAssumption DEF S
  <1>5. h = Root => Stored = {}
    BY <1>1 DEF StoreOK
  <1>6. h # Root => h \in Stored /\ h \in Transitions /\ S[h] < S[t] /\ \A u \in Stored \ {h} : S[u] < S[h]
    BY <1>1, StoredIs DEF StoreOK
  <1> HIDE DEF h
  <1>7. \A u \in Stored : S[u] < S[t]
    BY <1>4, <1>5, <1>6
  <1>8. object[Root] # Absent \/ h = Root
    BY <1>6 DEF StoreOK
  <1>9. t # Absent /\ Root \in Places /\ Root # t /\ Transitions \subseteq Places /\ object \in [Places -> Transitions \cup {Absent}]
    BY ChainAssumption DEF Places, TypeOK
  <1>10. \A p \in Places : object'[p] = IF p = h THEN t ELSE object[p]
    BY <1>1, <1>9
  <1>11. StoreOK'
    <2>1. \A p \in Places : object'[p] # Absent => Previous[object'[p]] = p
      BY <1>10 DEF StoreOK, h
    <2>2. object'[Root] # Absent
      BY <1>8, <1>9, <1>10
    <2>3. \A u \in Stored' : u = object'[Root] \/ S[object'[Root]] < S[u]
      <3>1. CASE h = Root
        BY <3>1, <1>3, <1>5, <1>9, <1>10
      <3>2. CASE h # Root
        <4>1. object'[Root] = object[Root] /\ object[Root] # Absent /\ object[Root] \in Stored
          BY <3>2, <1>8, <1>9, <1>10 DEF Stored
        <4> QED BY <4>1, <1>3, <1>7 DEF StoreOK
      <3> QED BY <3>1, <3>2
    <2>4. ASSUME NEW x \in Transitions, object'[x] # Absent
          PROVE  /\ x \in Stored' /\ S[x] < S[object'[x]]
                 /\ \A u \in Stored' : u = x \/ u = object'[x] \/ S[u] < S[x] \/ S[object'[x]] < S[u]
      <3>1. CASE x = h
        <4>1. object'[x] = t /\ h # Root
          BY <3>1, <1>9, <1>10, ChainAssumption
        <4> QED BY <3>1, <4>1, <1>3, <1>6
      <3>2. CASE x # h
        <4>1. object'[x] = object[x] /\ object[x] # Absent /\ object[x] \in Stored
          BY <2>4, <3>2, <1>9, <1>10 DEF Stored
        <4>2. /\ x \in Stored /\ S[x] < S[object[x]]
              /\ \A u \in Stored : u = x \/ u = object[x] \/ S[u] < S[x] \/ S[object[x]] < S[u]
          BY <4>1 DEF StoreOK
        <4> QED BY <4>1, <4>2, <1>3, <1>7
      <3> QED BY <3>1, <3>2
    <2>5. ASSUME NEW x \in Stored', object'[x] = Absent PROVE \A u \in Stored' \ {x} : S[u] < S[x]
      <3>1. CASE x = t
        BY <3>1, <1>3, <1>7
      <3>2. CASE x # t
        <4>1. x \in Stored /\ x \in Transitions
          BY <3>2, <1>3, StoredIs
        <4>2. x # h /\ object[x] = Absent
          BY <2>5, <4>1, <1>9, <1>10
        <4>3. h # Root
          BY <4>1, <1>5
        <4>4. S[x] < S[h] /\ S[h] < S[x]
          BY <4>1, <4>2, <4>3, <1>6 DEF StoreOK
        <4> QED BY <4>1, <4>3, <4>4, <1>4, <1>6
      <3> QED BY <3>1, <3>2
    <2> QED BY <2>1, <2>2, <2>3, <2>4, <2>5 DEF StoreOK
  <1>12. History!Record(t)
    BY <1>3, <1>5, <1>6 DEF History!Record, History!Latest, S, h
  <1> QED BY <1>2, <1>3, <1>7, <1>11, <1>12

-----------------------------------------------------------------------------
(***************************************************************************)
(* Writers.                                                                *)
(***************************************************************************)

\* What stands at the end of a chain that was read follows it.
LEMMA AheadFollows ==
    ASSUME TypeOK, StoreOK, NEW w \in Writers, Walked(w), Ahead(w) # Absent
    PROVE  Follows(Ahead(w), job[w].chain) /\ Ahead(w) \in Transitions /\ Ahead(w) \in Stored
  <1> DEFINE chain == job[w].chain
  <1>1. chain \in Seq(Transitions)
    BY DEF TypeOK, Job
  <1>2. End(chain) \in Places /\ (chain # <<>> => End(chain) \in Transitions)
    BY <1>1, EndIsPlace
  <1>3. object[End(chain)] \in Transitions /\ object[End(chain)] \in Stored
    BY <1>2 DEF Ahead, TypeOK, Stored
  <1>4. Previous[object[End(chain)]] = End(chain)
    BY <1>2 DEF StoreOK, Ahead
  <1>5. chain # <<>> => S[End(chain)] < S[object[End(chain)]]
    BY <1>2 DEF StoreOK, Ahead
  <1> QED BY <1>3, <1>4, <1>5 DEF Follows, Ahead, End, S

\* A step that creates the target of w at the end of its chain.
LEMMA PutKeeps ==
    ASSUME IInv, NEW w \in Writers, pc[w] = "create", Vacant(End(job[w].chain)), Put(w)
    PROVE  /\ object' \in [Places -> Transitions \cup {Absent}]
           /\ job[w].target \in Transitions
           /\ StoreOK' /\ History!Record(job[w].target)
           /\ Stored' = Stored \cup {job[w].target}
           /\ Stored \subseteq Stored'
           /\ \A u \in Stored' \ Stored : \A v \in Stored : S[v] < S[u]
  <1> DEFINE t == job[w].target
             chain == job[w].chain
  <1>1. t \in Transitions /\ chain \in Seq(Transitions) /\ Follows(t, chain) /\ Walked(w)
    BY DEF IInv, TypeOK, WalkOK, Job
  <1>2. /\ Previous[t] = End(chain) /\ object[End(chain)] = Absent
        /\ object' = [object EXCEPT ![End(chain)] = t]
    BY <1>1 DEF Follows, Vacant, Put
  <1>3. Previous[t] = Root \/ (Previous[t] \in Stored /\ S[Previous[t]] < S[t])
    BY <1>1, <1>2, EndIsPlace DEF Walked, Follows, S
  <1>4. TypeOK /\ StoreOK
    BY DEF IInv
  <1> HIDE DEF t, chain
  <1>5. /\ t \notin Stored /\ Stored' = Stored \cup {t} /\ \A u \in Stored : S[u] < S[t]
        /\ StoreOK' /\ History!Record(t)
    BY <1>1, <1>2, <1>3, <1>4, Grow
  <1>6. object' \in [Places -> Transitions \cup {Absent}]
    BY <1>1, <1>2, <1>4 DEF TypeOK
  <1> QED BY <1>1, <1>5, <1>6 DEF t

\* Growth of the history leaves what a writer has read a part of it.
LEMMA WalkedStays ==
    ASSUME NEW v \in Writers, Walked(v), job'[v] = job[v], Stored \subseteq Stored', TypeOK, StoreOK, StoreOK',
           Stored' \subseteq Transitions,
           \A u \in Stored' \ Stored : \A x \in Stored : S[x] < S[u]
    PROVE  Walked(v)'
  <1>1. \A u \in Stored' : S[u] \in Nat
    BY ChainAssumption DEF S
  <1>2. \A c, u : InChain(u, c)' = InChain(u, c)
    BY DEF InChain
  <1> QED BY <1>1, <1>2 DEF Walked, End, InChain

\* What is stored are transitions.
LEMMA StoredTyped ==
    ASSUME NEW o \in [Places -> Transitions \cup {Absent}]
    PROVE  {o[p] : p \in Places} \ {Absent} \subseteq Transitions
  OBVIOUS

\* A writer that does nothing, while the store grows or stays, is where it was.
LEMMA OthersKeep ==
    ASSUME IInv, StoreOK', object' \in [Places -> Transitions \cup {Absent}], Stored \subseteq Stored',
           \A u \in Stored' \ Stored : \A x \in Stored : S[x] < S[u],
           NEW v \in Writers, job'[v] = job[v], pc'[v] = pc[v]
    PROVE  Walked(v)' /\ (pc'[v] = "create" => Follows(job'[v].target, job'[v].chain))
  <1>1. Stored' \subseteq Transitions
    BY DEF Stored
  <1>2. Walked(v)'
    BY <1>1, WalkedStays DEF IInv, WalkOK
  <1> QED BY <1>2 DEF IInv, WalkOK

\* The store unchanged: the hypotheses of OthersKeep.
LEMMA SameStore ==
    ASSUME IInv, UNCHANGED object
    PROVE  /\ StoreOK' /\ Stored' = Stored /\ object' \in [Places -> Transitions \cup {Absent}]
           /\ \A u \in Stored' \ Stored : \A x \in Stored : S[x] < S[u]
  BY DEF IInv, StoreOK, Stored, TypeOK

\* A writer without a job.
LEMMA IdleWalked ==
    ASSUME NEW w \in Writers, job'[w] = NoJob, pc'[w] = "idle"
    PROVE  Walked(w)' /\ (pc'[w] = "create" => Follows(job'[w].target, job'[w].chain))
  BY DEF Walked, NoJob

\* A call that returns, whatever it says, keeps the invariant if the store does.
LEMMA ReturnKeeps ==
    ASSUME IInv, NEW w \in Writers, pc[w] # "idle", NEW status \in Statuses, NEW n \in Nat, Return(w, status, n),
           StoreOK', object' \in [Places -> Transitions \cup {Absent}], Stored \subseteq Stored',
           \A u \in Stored' \ Stored : \A x \in Stored : S[x] < S[u],
           UNCHANGED <<calls, faults>>
    PROVE  IInv'
  <1>1. TypeOK'
    <2>1. NoJob \in Job
      BY DEF NoJob, Job
    <2>2. job' \in [Writers -> Job] /\ pc' \in [Writers -> {"idle", "walk", "create"}]
      BY <2>1 DEF Return, IInv, TypeOK
    <2>3. receipts' \subseteq [of : Transitions, length : Nat, status : Statuses]
      BY DEF Return, IInv, TypeOK
    <2>4. \A v \in Writers : pc'[v] # "idle" => job'[v].target \in Transitions
      BY DEF Return, IInv, TypeOK
    <2> QED BY <2>2, <2>3, <2>4 DEF IInv, TypeOK
  <1>2. ASSUME NEW v \in Writers
        PROVE  Walked(v)' /\ (pc'[v] = "create" => Follows(job'[v].target, job'[v].chain))
    <2>1. CASE v = w
      <3>1. job'[w] = NoJob /\ pc'[w] = "idle"
        BY DEF Return, IInv, TypeOK
      <3> QED BY <2>1, <3>1, IdleWalked
    <2>2. CASE v # w
      <3>1. job'[v] = job[v] /\ pc'[v] = pc[v]
        BY <2>2 DEF Return, IInv, TypeOK
      <3> QED BY <3>1, OthersKeep
    <2> QED BY <2>1, <2>2
  <1> QED BY <1>1, <1>2 DEF IInv, WalkOK

\* The initial state.
LEMMA InitIInv == Init => IInv
  <1> SUFFICES ASSUME Init PROVE IInv
    OBVIOUS
  <1>1. Stored = {}
    BY ChainAssumption DEF Init, Stored, Places
  <1>2. TypeOK
    BY ChainAssumption DEF Init, TypeOK, NoJob, Job
  <1>3. StoreOK
    BY <1>1, ChainAssumption DEF Init, StoreOK, Places
  <1>4. WalkOK
    BY DEF Init, WalkOK, Walked, NoJob
  <1> QED BY <1>2, <1>3, <1>4 DEF IInv

LEMMA BeginKeeps ==
    ASSUME IInv, NEW w \in Writers, NEW t \in Transitions, Begin(w, t)
    PROVE  IInv'
  <1>1. /\ StoreOK' /\ Stored' = Stored /\ object' \in [Places -> Transitions \cup {Absent}]
        /\ \A u \in Stored' \ Stored : \A x \in Stored : S[x] < S[u]
    BY SameStore DEF Begin
  <1>2. TypeOK'
    <2>1. [target |-> t, chain |-> <<>>] \in Job
      BY DEF Job
    <2> QED BY <1>1, <2>1 DEF Begin, IInv, TypeOK
  <1>3. ASSUME NEW v \in Writers
        PROVE  Walked(v)' /\ (pc'[v] = "create" => Follows(job'[v].target, job'[v].chain))
    <2>1. CASE v = w
      BY <2>1 DEF Begin, Walked, IInv, TypeOK
    <2>2. CASE v # w
      <3>1. job'[v] = job[v] /\ pc'[v] = pc[v]
        BY <2>2 DEF Begin, IInv, TypeOK
      <3> QED BY <1>1, <3>1, OthersKeep
    <2> QED BY <2>1, <2>2
  <1> QED BY <1>1, <1>2, <1>3 DEF IInv, WalkOK

LEMMA ReadNextKeeps ==
    ASSUME IInv, NEW w \in Writers, ReadNext(w)
    PROVE  IInv'
  <1> DEFINE chain == job[w].chain
             x == Ahead(w)
  <1>1. /\ StoreOK' /\ Stored' = Stored /\ object' \in [Places -> Transitions \cup {Absent}]
        /\ \A u \in Stored' \ Stored : \A y \in Stored : S[y] < S[u]
    BY SameStore DEF ReadNext
  <1>2. /\ Walked(w) /\ x # Absent /\ x = object[End(chain)] /\ chain \in Seq(Transitions)
    BY DEF ReadNext, IInv, WalkOK, Ahead, TypeOK, Job
  <1>3. Follows(x, chain) /\ x \in Transitions /\ x \in Stored
    BY <1>2, AheadFollows DEF IInv
  <1>4. job'[w].chain = Append(chain, x) /\ job'[w].target = job[w].target
    BY DEF ReadNext, IInv, TypeOK, Job
  <1> HIDE DEF chain, x
  <1>5. /\ Append(chain, x) \in Seq(Transitions) /\ Append(chain, x) # <<>>
        /\ End(Append(chain, x)) = x /\ InChain(x, Append(chain, x))
        /\ \A u \in Transitions : InChain(u, chain) => InChain(u, Append(chain, x))
    BY <1>2, <1>3, Extended
  <1>6. \A u \in Stored : u \in Transitions /\ S[u] \in Nat
    BY StoredIs, ChainAssumption DEF IInv, S
  <1>7. ASSUME NEW u \in Stored, S[u] <= S[x] PROVE InChain(u, Append(chain, x))
    <2>1. CASE u = x
      BY <2>1, <1>5
    <2>2. CASE u # x /\ chain = <<>>
      <3>1. x = object[Root]
        BY <2>2, <1>2, EndIsPlace
      <3>2. S[x] < S[u]
        BY <2>2, <3>1, <1>2 DEF IInv, StoreOK
      <3> QED BY <3>2, <1>3, <1>6, <1>7
    <2>3. CASE u # x /\ chain # <<>>
      <3>1. /\ End(chain) \in Stored /\ End(chain) \in Transitions
            /\ S[u] <= S[End(chain)] => InChain(u, chain)
        BY <2>3, <1>2, EndIsPlace DEF Walked, chain
      <3>2. /\ S[End(chain)] < S[x]
            /\ u = End(chain) \/ S[u] < S[End(chain)] \/ S[x] < S[u]
        BY <2>3, <3>1, <1>2 DEF IInv, StoreOK
      <3>3. S[u] <= S[End(chain)]
        BY <3>1, <3>2, <1>3, <1>6, <1>7
      <3> QED BY <3>1, <3>3, <1>5, <1>6
    <2> QED BY <2>1, <2>2, <2>3
  <1>8. Walked(w)'
    <2>1. \A u \in Stored' : S[u] <= S[End(job'[w].chain)] => InChain(u, job'[w].chain)
      BY <1>1, <1>4, <1>5, <1>7
    <2>2. End(job'[w].chain) \in Stored'
      BY <1>1, <1>3, <1>4, <1>5
    <2> QED BY <2>1, <2>2 DEF Walked, End, InChain
  <1>9. TypeOK'
    <2>1. job' \in [Writers -> Job]
      <3>1. job' = [job EXCEPT ![w].chain = Append(chain, x)] /\ job \in [Writers -> Job]
        BY DEF ReadNext, IInv, TypeOK, x, chain
      <3> QED BY <1>5, <3>1 DEF Job
    <2>2. \A v \in Writers : pc'[v] # "idle" => job'[v].target \in Transitions
      BY DEF ReadNext, IInv, TypeOK, Job
    <2> QED BY <1>1, <2>1, <2>2 DEF ReadNext, IInv, TypeOK
  <1>10. ASSUME NEW v \in Writers
         PROVE  Walked(v)' /\ (pc'[v] = "create" => Follows(job'[v].target, job'[v].chain))
    <2>1. CASE v = w
      BY <2>1, <1>8 DEF ReadNext
    <2>2. CASE v # w
      <3>1. job'[v] = job[v] /\ pc'[v] = pc[v]
        BY <2>2 DEF ReadNext, IInv, TypeOK
      <3> QED BY <1>1, <3>1, OthersKeep
    <2> QED BY <2>1, <2>2
  <1> QED BY <1>1, <1>9, <1>10 DEF IInv, WalkOK

\* A typed chain has a length.
LEMMA ChainLength ==
    ASSUME IInv, NEW w \in Writers
    PROVE  Len(job[w].chain) \in Nat /\ Len(job[w].chain) + 1 \in Nat
  <1>1. job[w].chain \in Seq(Transitions)
    BY DEF IInv, TypeOK, Job
  <1> QED BY <1>1

LEMMA DecideKeeps ==
    ASSUME IInv, NEW w \in Writers, Decide(w)
    PROVE  IInv'
  <1>1. /\ StoreOK' /\ Stored' = Stored /\ object' \in [Places -> Transitions \cup {Absent}]
        /\ \A u \in Stored' \ Stored : \A x \in Stored : S[x] < S[u]
    BY SameStore DEF Decide
  <1>2. pc[w] # "idle" /\ UNCHANGED <<calls, faults>>
    BY DEF Decide
  <1>3. CASE Return(w, "already_appended", Len(job[w].chain))
    BY <1>1, <1>2, <1>3, ReturnKeeps, ChainLength DEF Statuses
  <1>4. CASE Return(w, "refused", 0)
    BY <1>1, <1>2, <1>4, ReturnKeeps DEF Statuses
  <1>5. CASE Follows(job[w].target, job[w].chain) /\ pc' = [pc EXCEPT ![w] = "create"] /\ UNCHANGED <<job, receipts>>
    <2>1. TypeOK'
      BY <1>1, <1>2, <1>5 DEF IInv, TypeOK
    <2>2. ASSUME NEW v \in Writers
          PROVE  Walked(v)' /\ (pc'[v] = "create" => Follows(job'[v].target, job'[v].chain))
      <3>1. Walked(v)'
        BY <1>1, <1>5 DEF Walked, End, InChain, IInv, WalkOK
      <3> QED BY <3>1, <1>5 DEF IInv, WalkOK, TypeOK
    <2> QED BY <1>1, <2>1, <2>2 DEF IInv, WalkOK
  <1> QED BY <1>3, <1>4, <1>5 DEF Decide

LEMMA CreateKeeps ==
    ASSUME IInv, NEW w \in Writers, Create(w)
    PROVE  IInv'
  BY PutKeeps, ReturnKeeps, ChainLength DEF Create, Statuses

LEMMA CreateFailsKeeps ==
    ASSUME IInv, NEW w \in Writers, CreateFails(w)
    PROVE  IInv'
  <1>1. /\ StoreOK' /\ Stored' = Stored /\ object' \in [Places -> Transitions \cup {Absent}]
        /\ \A u \in Stored' \ Stored : \A x \in Stored : S[x] < S[u]
    BY SameStore DEF CreateFails
  <1> QED BY <1>1, ReturnKeeps, ChainLength DEF CreateFails, Statuses

LEMMA StoreRaisesKeeps ==
    ASSUME IInv, NEW w \in Writers, StoreRaises(w)
    PROVE  IInv'
  <1>1. /\ StoreOK' /\ Stored \subseteq Stored' /\ object' \in [Places -> Transitions \cup {Absent}]
        /\ \A u \in Stored' \ Stored : \A x \in Stored : S[x] < S[u]
    <2>1. CASE UNCHANGED object
      BY <2>1, SameStore
    <2>2. CASE pc[w] = "create" /\ Vacant(End(job[w].chain)) /\ Put(w)
      BY <2>2, PutKeeps
    <2> QED BY <2>1, <2>2 DEF StoreRaises
  <1>2. TypeOK'
    <2>1. NoJob \in Job
      BY DEF NoJob, Job
    <2> QED BY <1>1, <2>1 DEF StoreRaises, IInv, TypeOK
  <1>3. ASSUME NEW v \in Writers
        PROVE  Walked(v)' /\ (pc'[v] = "create" => Follows(job'[v].target, job'[v].chain))
    <2>1. CASE v = w
      <3>1. job'[w] = NoJob /\ pc'[w] = "idle"
        BY DEF StoreRaises, IInv, TypeOK
      <3> QED BY <2>1, <3>1, IdleWalked
    <2>2. CASE v # w
      <3>1. job'[v] = job[v] /\ pc'[v] = pc[v]
        BY <2>2 DEF StoreRaises, IInv, TypeOK
      <3> QED BY <1>1, <3>1, OthersKeep
    <2> QED BY <2>1, <2>2
  <1> QED BY <1>1, <1>2, <1>3 DEF IInv, WalkOK

\* Every step keeps the invariant.
LEMMA NextKeeps == IInv /\ [Next]_vars => IInv'
  <1> SUFFICES ASSUME IInv, [Next]_vars PROVE IInv'
    OBVIOUS
  <1>1. CASE Next
    BY <1>1, BeginKeeps, ReadNextKeeps, DecideKeeps, CreateKeeps, CreateFailsKeeps, StoreRaisesKeeps DEF Next, Work
  <1>2. CASE UNCHANGED vars
    <2>1. UNCHANGED object /\ UNCHANGED <<job, pc, receipts, calls, faults>>
      BY <1>2 DEF vars
    <2>2. StoreOK' /\ Stored' = Stored
      BY <2>1, SameStore
    <2>3. TypeOK'
      BY <2>1 DEF IInv, TypeOK
    <2>4. WalkOK'
      BY <2>1, <2>2 DEF IInv, WalkOK, Walked, End, InChain, Follows
    <2> QED BY <2>2, <2>3, <2>4 DEF IInv
  <1> QED BY <1>1, <1>2

THEOREM ChainInvariant == Spec => []IInv
  BY InitIInv, NextKeeps, PTL DEF Spec

-----------------------------------------------------------------------------
(***************************************************************************)
(* What follows from the invariant.                                        *)
(***************************************************************************)

\* Types: what the store, the writers and the receipts can be.
THEOREM ChainTypeCorrect == Spec => []TypeOK
  <1>1. IInv => TypeOK
    BY DEF IInv
  <1> QED BY <1>1, ChainInvariant, PTL

\* load_chain never refuses what append stored.
THEOREM ChainStaysReadable == Spec => []ChainReadable
  <1>1. IInv => ChainReadable
    BY AheadFollows DEF IInv, WalkOK, ChainReadable
  <1> QED BY <1>1, ChainInvariant, PTL

\* A step of a writer extends the history or leaves it alone.
LEMMA StepRefines == IInv /\ [Next]_vars => [History!Next]_Stored
  <1> SUFFICES ASSUME IInv, [Next]_vars PROVE History!Next \/ Stored' = Stored
    OBVIOUS
  <1>1. CASE UNCHANGED object
    BY <1>1, SameStore
  <1>2. ASSUME NEW w \in Writers, pc[w] = "create", Vacant(End(job[w].chain)), Put(w)
        PROVE  History!Next
    BY <1>2, PutKeeps DEF History!Next
  <1> QED BY <1>1, <1>2 DEF Next, Work, Begin, ReadNext, Decide, Create, CreateFails, StoreRaises, vars

\* append extends one history, at its end, for ever.
THEOREM StoreIsOneHistory == Spec => ImplementsHistory
  <1>1. Init => History!Init
    BY ChainAssumption DEF Init, History!Init, Stored, Places
  <1> QED BY <1>1, StepRefines, ChainInvariant, PTL DEF Spec, ImplementsHistory, History!Spec

\* At the end of a walk a transition that was not met is not stored.
LEMMA NotMet ==
    ASSUME IInv, NEW w \in Writers, Ahead(w) = Absent, NEW t \in Stored
    PROVE  InChain(t, job[w].chain)
  <1> DEFINE chain == job[w].chain
  <1>1. Walked(w) /\ chain \in Seq(Transitions) /\ object[End(chain)] = Absent
    BY DEF IInv, WalkOK, TypeOK, Job, Ahead
  <1>2. chain # <<>>
    BY <1>1, EndIsPlace DEF IInv, StoreOK
  <1>3. End(chain) \in Stored /\ (S[t] <= S[End(chain)] => InChain(t, chain))
    BY <1>1, <1>2 DEF Walked
  <1>4. t = End(chain) \/ S[t] < S[End(chain)]
    BY <1>1, <1>3 DEF IInv, StoreOK
  <1>5. S[t] \in Nat /\ S[End(chain)] \in Nat
    BY <1>3, StoredIs, ChainAssumption DEF IInv, S
  <1> QED BY <1>3, <1>4, <1>5

\* A transition refused by append is not in the store: a writer that repeats an
\* append that took effect is told so.
THEOREM RefusedIsNotStored == Spec => RefusedIsAbsent
  <1>1. IInv /\ [Next]_vars =>
            [\A r \in receipts' \ receipts : r.status \in {"refused", "conflict"} => r.of \notin Stored]_vars
    <2> SUFFICES ASSUME IInv, Next, NEW r \in receipts' \ receipts, r.status \in {"refused", "conflict"}
                 PROVE  r.of \notin Stored
      BY DEF vars
    <2>1. ASSUME NEW w \in Writers, Decide(w) PROVE r.of \notin Stored
      <3>1. Return(w, "refused", 0) /\ ~InChain(job[w].target, job[w].chain) /\ Ahead(w) = Absent
        BY <2>1 DEF Decide, Return
      <3>2. r.of = job[w].target
        BY <3>1 DEF Return
      <3> QED BY <3>1, <3>2, NotMet
    <2>2. ASSUME NEW w \in Writers, CreateFails(w) PROVE r.of \notin Stored
      <3>1. Return(w, "conflict", 0) /\ Ahead(w) # job[w].target /\ pc[w] = "create"
        BY <2>2 DEF CreateFails, Return, Mine
      <3>2. r.of = job[w].target
        BY <3>1 DEF Return
      <3>3. Previous[job[w].target] = End(job[w].chain)
        BY <3>1 DEF IInv, WalkOK, Follows
      <3> QED BY <3>1, <3>2, <3>3, StoredIs DEF Ahead, IInv
    <2>3. ASSUME NEW w \in Writers, Create(w) PROVE FALSE
      BY <2>3 DEF Create, Return
    <2> QED BY <2>1, <2>2, <2>3 DEF Next, Work, Begin, ReadNext, StoreRaises
  <1> QED BY <1>1, ChainInvariant, PTL DEF Spec, RefusedIsAbsent
-----------------------------------------------------------------------------
(***************************************************************************)
(* What append answers.                                                    *)
(***************************************************************************)

\* A transition's position counts the sessions up to its own, so it never
\* changes: the history grows after it.  What a writer has read are exactly
\* the positions up to the end of its chain.
ChainCounted(chain) ==
    /\ \A u \in Transitions : InChain(u, chain) => u \in Stored /\ S[u] <= S[End(chain)]
    /\ chain # <<>> => End(chain) \in Stored /\ Position(End(chain)) = Len(chain)

\* Who met a conflict names a predecessor that another transition follows.
ReceiptOK(r) ==
    /\ r.status = "created" => r.of \in Stored /\ Position(r.of) = r.length
    /\ r.status = "already_appended" =>
           r.of \in Stored /\ Position(r.of) <= r.length /\ r.length <= Cardinality(Stored)
    /\ r.status = "conflict" => object[Previous[r.of]] # Absent /\ object[Previous[r.of]] # r.of

CountOK ==
    /\ IsFiniteSet(Stored)
    /\ \A w \in Writers : ChainCounted(job[w].chain)
    /\ \A r \in receipts : ReceiptOK(r)

CountedIInv == IInv /\ CountOK

\* A history that grows at its end, or not at all.
Grows ==
    /\ Stored \subseteq Stored' /\ IsFiniteSet(Stored')
    /\ \A u \in Stored' \ Stored : \A v \in Stored : S[v] < S[u]
    /\ \A p \in Places : object[p] # Absent => object'[p] = object[p]

\* Positions are numbers.
LEMMA PositionIsNat ==
    ASSUME IsFiniteSet(Stored), NEW t
    PROVE  Position(t) \in Nat /\ Position(t) <= Cardinality(Stored) /\ Cardinality(Stored) \in Nat
  <1> DEFINE upTo == {u \in Stored : S[u] <= S[t]}
  <1>1. upTo \in SUBSET Stored
    OBVIOUS
  <1>2. IsFiniteSet(upTo) /\ Cardinality(upTo) <= Cardinality(Stored)
    BY <1>1, FS_Subset
  <1> QED BY <1>2, FS_CardinalityType DEF Position, S

\* Positions stay where they are.
LEMMA PositionStays ==
    ASSUME IInv, IInv', Grows, NEW t \in Stored
    PROVE  t \in Stored' /\ Position(t)' = Position(t)
  <1>1. \A u \in Stored' : S[u] \in Nat
    BY StoredIs, ChainAssumption DEF IInv, StoreOK, Stored, TypeOK, S
  <1>2. t \in Stored' /\ \A u \in Stored' \ Stored : S[t] < S[u]
    BY DEF Grows
  <1>3. {u \in Stored' : S[u] <= S[t]} = {u \in Stored : S[u] <= S[t]}
    BY <1>1, <1>2 DEF Grows
  <1> QED BY <1>2, <1>3 DEF Position, S

\* The end of a chain is followed by the next position.
LEMMA NextPosition ==
    ASSUME TypeOK, StoreOK, IsFiniteSet(Stored), NEW chain \in Seq(Transitions), NEW x \in Stored,
           object[End(chain)] = x,
           chain # <<>> => End(chain) \in Stored /\ Position(End(chain)) = Len(chain)
    PROVE  Position(x) = Len(chain) + 1
  <1>1. \A u \in Stored : u \in Transitions /\ S[u] \in Nat
    BY StoredIs, ChainAssumption DEF S
  <1>2. x # Absent
    BY DEF Stored
  <1>3. CASE chain = <<>>
    <2>1. \A u \in Stored : u = x \/ S[x] < S[u]
      BY <1>2, <1>3, EndIsPlace DEF StoreOK
    <2>2. {u \in Stored : S[u] <= S[x]} = {x}
      BY <1>1, <2>1
    <2> QED BY <1>3, <2>2, FS_Singleton DEF Position, S
  <1>4. CASE chain # <<>>
    <2> DEFINE e == End(chain)
               before == {u \in Stored : S[u] <= S[e]}
    <2>1. e \in Stored /\ e \in Transitions
      BY <1>1, <1>4
    <2>2. S[e] < S[x] /\ \A u \in Stored : u = e \/ u = x \/ S[u] < S[e] \/ S[x] < S[u]
      BY <1>2, <2>1 DEF StoreOK
    <2>3. {u \in Stored : S[u] <= S[x]} = before \cup {x}
      BY <1>1, <2>1, <2>2
    <2>4. x \notin before
      BY <1>1, <2>1, <2>2
    <2>5. IsFiniteSet(before)
      BY FS_Subset
    <2>6. Cardinality(before) = Len(chain)
      BY <1>4 DEF Position, S
    <2> HIDE DEF before
    <2>7. Cardinality(before \cup {x}) = Cardinality(before) + 1
      BY <2>4, <2>5, FS_AddElement
    <2> QED BY <2>3, <2>6, <2>7 DEF Position, S
  <1> QED BY <1>3, <1>4

\* A chain that nothing follows is the whole history.
LEMMA WholeHistory ==
    ASSUME TypeOK, StoreOK, NEW chain \in Seq(Transitions), object[End(chain)] = Absent,
           chain # <<>> => End(chain) \in Stored /\ Position(End(chain)) = Len(chain)
    PROVE  Cardinality(Stored) = Len(chain)
  <1>1. CASE chain = <<>>
    BY <1>1, EndIsPlace, FS_EmptySet DEF StoreOK
  <1>2. CASE chain # <<>>
    <2>1. \A u \in Stored : S[u] \in Nat
      BY StoredIs, ChainAssumption DEF S
    <2>2. \A u \in Stored : u = End(chain) \/ S[u] < S[End(chain)]
      BY <1>2 DEF StoreOK
    <2>3. {u \in Stored : S[u] <= S[End(chain)]} = Stored
      BY <1>2, <2>1, <2>2
    <2> QED BY <1>2, <2>3 DEF Position, S
  <1> QED BY <1>1, <1>2

\* A step stores one transition after the others, or none.
LEMMA StepGrows ==
    ASSUME CountedIInv, [Next]_vars
    PROVE  Grows
  <1>1. CASE UNCHANGED object
    BY <1>1, SameStore DEF CountedIInv, CountOK, Grows
  <1>2. ASSUME NEW w \in Writers, pc[w] = "create", Vacant(End(job[w].chain)), Put(w)
        PROVE  Grows
    <2>1. /\ Stored' = Stored \cup {job[w].target}
          /\ \A u \in Stored' \ Stored : \A v \in Stored : S[v] < S[u]
      BY <1>2, PutKeeps DEF CountedIInv
    <2>2. IsFiniteSet(Stored')
      BY <2>1, FS_AddElement DEF CountedIInv, CountOK
    <2>3. \A p \in Places : object[p] # Absent => object'[p] = object[p]
      BY <1>2 DEF Vacant, Put, CountedIInv, IInv, TypeOK
    <2> QED BY <2>1, <2>2, <2>3 DEF Grows
  <1> QED BY <1>1, <1>2 DEF Next, Work, Begin, ReadNext, Decide, Create, CreateFails, StoreRaises, vars

\* A chain that was counted stays counted.
LEMMA CountedStays ==
    ASSUME IInv, IInv', Grows, NEW chain \in Seq(Transitions), ChainCounted(chain)
    PROVE  ChainCounted(chain)'
  <1>1. \A u \in Stored : u \in Stored' /\ Position(u)' = Position(u)
    BY PositionStays
  <1> QED BY <1>1 DEF ChainCounted, End, InChain

\* An answer that was true stays true.
LEMMA ReceiptStays ==
    ASSUME CountedIInv, IInv', Grows, NEW r \in receipts
    PROVE  ReceiptOK(r)'
  <1>1. ReceiptOK(r) /\ r.of \in Transitions /\ r.length \in Nat
    BY DEF CountedIInv, CountOK, IInv, TypeOK
  <1>2. r.of \in Stored => r.of \in Stored' /\ Position(r.of)' = Position(r.of)
    BY PositionStays DEF CountedIInv
  <1>3. Cardinality(Stored) <= Cardinality(Stored') /\ Cardinality(Stored) \in Nat /\ Cardinality(Stored') \in Nat
    BY FS_Subset, FS_CardinalityType DEF Grows, CountedIInv, CountOK
  <1>4. Previous[r.of] \in Places
    BY <1>1, ChainAssumption DEF Places
  <1>5. object[Previous[r.of]] # Absent => object'[Previous[r.of]] = object[Previous[r.of]]
    BY <1>4 DEF Grows
  <1> QED BY <1>1, <1>2, <1>3, <1>5 DEF ReceiptOK

\* What a call answers is true when it returns.
LEMMA AnswerTrue ==
    ASSUME CountedIInv, IInv', Grows, Next, NEW r \in receipts' \ receipts
    PROVE  ReceiptOK(r)'
  <1>1. PICK w \in Writers : Decide(w) \/ Create(w) \/ CreateFails(w)
    BY DEF Next, Work, Begin, ReadNext, StoreRaises
  <1>t. PICK t, chain : t = job[w].target /\ chain = job[w].chain
    OBVIOUS
  <1>2. /\ chain \in Seq(Transitions) /\ ChainCounted(chain) /\ Len(chain) \in Nat
        /\ Walked(w) /\ (pc[w] = "create" => Follows(t, chain)) /\ t \in Transitions
    BY <1>1, <1>t, ChainLength DEF CountedIInv, CountOK, IInv, WalkOK, TypeOK, Job, Decide, Create, CreateFails
  <1>3. TypeOK /\ StoreOK /\ IsFiniteSet(Stored) /\ TypeOK' /\ StoreOK' /\ IsFiniteSet(Stored')
    BY DEF CountedIInv, CountOK, IInv, Grows
  <1>4. ASSUME Decide(w) PROVE ReceiptOK(r)'
    <2>1. UNCHANGED object /\ Stored' = Stored
      BY <1>4, SameStore DEF Decide, CountedIInv
    <2>2. \/ InChain(t, chain) /\ r = [of |-> t, status |-> "already_appended", length |-> Len(chain)]
          \/ r = [of |-> t, status |-> "refused", length |-> 0]
      BY <1>4, <1>t DEF Decide, Return
    <2>3. CASE InChain(t, chain)
      <3>1. chain # <<>>
        BY <1>2, <2>3 DEF InChain
      <3>2. t \in Stored /\ S[t] <= S[End(chain)] /\ End(chain) \in Stored /\ Position(End(chain)) = Len(chain)
        BY <1>2, <2>3, <3>1 DEF ChainCounted
      <3>3. \A u \in Stored : S[u] \in Nat
        BY <1>3, StoredIs, ChainAssumption DEF S
      <3>4. {u \in Stored : S[u] <= S[t]} \in SUBSET {u \in Stored : S[u] <= S[End(chain)]}
        BY <3>2, <3>3
      <3>5. IsFiniteSet({u \in Stored : S[u] <= S[End(chain)]})
        BY <1>3, FS_Subset
      <3>6. Position(t) <= Position(End(chain))
        BY <3>4, <3>5, FS_Subset DEF Position, S
      <3>7. Position(t) <= Len(chain) /\ Len(chain) <= Cardinality(Stored)
        BY <1>3, <3>2, <3>6, PositionIsNat
      <3>8. Position(t)' = Position(t)
        BY <2>1, <3>2, PositionStays DEF CountedIInv
      <3> QED BY <2>1, <2>2, <3>2, <3>7, <3>8 DEF ReceiptOK
    <2> QED BY <2>2, <2>3 DEF ReceiptOK
  <1>5. ASSUME Create(w) PROVE ReceiptOK(r)'
    <2>1. r = [of |-> t, status |-> "created", length |-> Len(chain) + 1]
      BY <1>5, <1>t DEF Create, Return
    <2>2. Stored' = Stored \cup {t} /\ t \notin Stored /\ \A u \in Stored : S[u] < S[t]
      <3>1. pc[w] = "create" /\ Vacant(End(chain)) /\ Put(w)
        BY <1>5, <1>t DEF Create
      <3>2. Stored' = Stored \cup {t} /\ History!Record(t)
        BY <1>t, <3>1, PutKeeps DEF CountedIInv
      <3>3. t \notin Stored
        BY <1>2, <1>3, <1>t, <1>5, <3>1, StoredIs DEF Create, Follows, Vacant, Stored
      <3> QED BY <1>t, <3>1, <3>2, <3>3, PutKeeps DEF CountedIInv
    <2>3. Cardinality(Stored) = Len(chain)
      BY <1>2, <1>3, <1>5, <1>t, WholeHistory DEF Create, Vacant, ChainCounted
    <2>4. Cardinality(Stored') = Len(chain) + 1
      BY <1>3, <2>2, <2>3, FS_AddElement
    <2>5. \A u \in Stored' : S[u] \in Nat
      BY <1>2, <1>3, <2>2, StoredIs, ChainAssumption DEF S
    <2>6. {u \in Stored' : S[u] <= S[t]} = Stored'
      BY <2>2, <2>5
    <2>7. Position(t)' = Len(chain) + 1
      BY <2>4, <2>6 DEF Position, S
    <2> QED BY <2>1, <2>2, <2>7 DEF ReceiptOK
  <1>6. ASSUME CreateFails(w) PROVE ReceiptOK(r)'
    <2>1. UNCHANGED object /\ Stored' = Stored
      BY <1>6, SameStore DEF CreateFails, CountedIInv
    <2>2. \/ Mine(w) /\ r = [of |-> t, status |-> "already_appended", length |-> Len(chain) + 1]
          \/ ~Mine(w) /\ r = [of |-> t, status |-> "conflict", length |-> 0]
      BY <1>6, <1>t DEF CreateFails, Return
    <2>3. /\ object[End(chain)] # Absent /\ End(chain) \in Places
          /\ Previous[t] = End(chain)
      BY <1>2, <1>6, <1>t, EndIsPlace DEF CreateFails, Vacant, Follows
    <2>4. CASE Mine(w) /\ r = [of |-> t, status |-> "already_appended", length |-> Len(chain) + 1]
      <3>1. object[End(chain)] = t /\ t \in Stored
        BY <1>t, <2>3, <2>4 DEF Mine, Ahead, Stored
      <3>2. chain # <<>> => End(chain) \in Stored /\ Position(End(chain)) = Len(chain)
        BY <1>2 DEF ChainCounted
      <3>3. Position(t) = Len(chain) + 1
        BY <1>2, <1>3, <3>1, <3>2, NextPosition
      <3>4. Position(t) <= Cardinality(Stored) /\ Position(t) \in Nat
        BY <1>3, PositionIsNat
      <3>5. Position(t)' = Position(t)
        BY <3>1, PositionStays DEF CountedIInv
      <3> QED BY <2>1, <2>4, <3>1, <3>3, <3>4, <3>5 DEF ReceiptOK
    <2>5. CASE ~Mine(w) /\ r = [of |-> t, status |-> "conflict", length |-> 0]
      BY <1>t, <2>1, <2>3, <2>5 DEF ReceiptOK, Mine, Ahead
    <2> QED BY <2>2, <2>4, <2>5
  <1> QED BY <1>1, <1>4, <1>5, <1>6

\* What a writer reads next has the next position.
LEMMA ReadCounted ==
    ASSUME CountedIInv, IInv', Grows, NEW w \in Writers, ReadNext(w)
    PROVE  \A c : c = job'[w].chain => ChainCounted(c)'
  <1>c. PICK chain, x, longer : chain = job[w].chain /\ x = Ahead(w) /\ longer = Append(chain, x)
    OBVIOUS
  <1>1. chain \in Seq(Transitions) /\ ChainCounted(chain) /\ Walked(w) /\ Len(chain) \in Nat
    BY <1>c, ChainLength DEF CountedIInv, CountOK, IInv, WalkOK, TypeOK, Job
  <1>2. TypeOK /\ StoreOK /\ IsFiniteSet(Stored)
    BY DEF CountedIInv, CountOK, IInv
  <1>3. x # Absent /\ x = object[End(chain)]
    BY <1>c DEF ReadNext, Ahead
  <1>4. Follows(x, chain) /\ x \in Transitions /\ x \in Stored
    BY <1>1, <1>2, <1>3, <1>c, AheadFollows
  <1>5. job'[w].chain = longer /\ UNCHANGED object
    BY <1>c DEF ReadNext, IInv, TypeOK, Job, CountedIInv
  <1>6. /\ longer \in Seq(Transitions) /\ longer # <<>> /\ End(longer) = x
        /\ Len(longer) = Len(chain) + 1
    BY <1>1, <1>4, <1>c, Extended
  <1>7. Position(x) = Len(chain) + 1
    BY <1>1, <1>2, <1>3, <1>4, NextPosition DEF ChainCounted
  <1>8. ASSUME NEW u \in Transitions, InChain(u, longer)
        PROVE  u \in Stored /\ S[u] <= S[x]
    <2>1. S[u] \in Nat /\ S[x] \in Nat
      BY <1>4, ChainAssumption DEF S
    <2>2. PICK i \in 1..Len(longer) : longer[i] = u
      BY <1>8 DEF InChain
    <2>3. CASE u = x
      BY <1>4, <2>1, <2>3
    <2>4. CASE u # x
      <3>1. i \in 1..Len(chain) /\ chain[i] = u
        BY <1>1, <1>4, <1>6, <1>c, <2>2, <2>4
      <3>2. InChain(u, chain) /\ chain # <<>>
        BY <1>1, <3>1 DEF InChain
      <3>3. u \in Stored /\ S[u] <= S[End(chain)] /\ End(chain) \in Stored
        BY <1>1, <3>2 DEF ChainCounted
      <3>4. S[End(chain)] < S[x]
        BY <1>4, <3>2 DEF Follows, End, S
      <3>5. S[End(chain)] \in Nat
        BY <1>2, <3>3, StoredIs, ChainAssumption DEF S
      <3> QED BY <2>1, <3>3, <3>4, <3>5
    <2> QED BY <2>3, <2>4
  <1>9. ChainCounted(longer)
    BY <1>4, <1>6, <1>7, <1>8 DEF ChainCounted
  <1>10. ChainCounted(longer)'
    BY <1>6, <1>9, CountedStays DEF CountedIInv
  <1> QED BY <1>5, <1>10

\* Every step keeps the counts and the answers true.
LEMMA CountsKept == CountedIInv /\ [Next]_vars => CountedIInv'
  <1> SUFFICES ASSUME CountedIInv, [Next]_vars PROVE CountedIInv'
    OBVIOUS
  <1>1. IInv' /\ Grows
    BY NextKeeps, StepGrows DEF CountedIInv
  <1>2. ASSUME NEW w \in Writers, NEW c, c = job'[w].chain PROVE ChainCounted(c)'
    <2>1. job[w].chain \in Seq(Transitions) /\ ChainCounted(job[w].chain)
      BY DEF CountedIInv, CountOK, IInv, TypeOK, Job
    <2>2. CASE c = job[w].chain
      BY <1>1, <2>1, <2>2, CountedStays DEF CountedIInv
    <2>3. CASE c = <<>>
      BY <2>3 DEF ChainCounted, InChain
    <2>4. CASE ReadNext(w)
      BY <1>1, <1>2, <2>4, ReadCounted
    <2>5. job'[w].chain = job[w].chain \/ job'[w].chain = <<>> \/ ReadNext(w)
      <3>1. job \in [Writers -> Job]
        BY DEF CountedIInv, IInv, TypeOK
      <3>2. CASE UNCHANGED job \/ \E v \in Writers : ReadNext(v)
        BY <3>1, <3>2 DEF ReadNext, Job
      <3>3. CASE \E v \in Writers, t \in Transitions :
                    job' = [job EXCEPT ![v] = [target |-> t, chain |-> <<>>]]
        BY <3>1, <3>3
      <3>4. CASE \E v \in Writers : job' = [job EXCEPT ![v] = NoJob]
        BY <3>1, <3>4 DEF NoJob
      <3>5. ASSUME NEW v \in Writers, Decide(v) \/ Create(v) \/ CreateFails(v) \/ StoreRaises(v)
            PROVE  UNCHANGED job \/ job' = [job EXCEPT ![v] = NoJob]
        BY <3>5 DEF Decide, Create, CreateFails, StoreRaises, Return
      <3>6. ASSUME NEW v \in Writers, NEW t \in Transitions, Begin(v, t)
            PROVE  job' = [job EXCEPT ![v] = [target |-> t, chain |-> <<>>]]
        BY <3>6 DEF Begin
      <3> QED BY <3>2, <3>3, <3>4, <3>5, <3>6 DEF Next, Work, vars
    <2> QED BY <1>2, <2>2, <2>3, <2>4, <2>5
  <1>3. ASSUME NEW r \in receipts' PROVE ReceiptOK(r)'
    <2>1. CASE r \in receipts
      BY <1>1, <2>1, ReceiptStays
    <2>2. CASE r \notin receipts
      <3>1. Next
        BY <2>2 DEF vars
      <3> QED BY <1>1, <2>2, <3>1, AnswerTrue
    <2> QED BY <2>1, <2>2
  <1>4. \A w \in Writers : ChainCounted(job[w].chain)'
    BY <1>2
  <1> QED BY <1>1, <1>3, <1>4 DEF CountedIInv, CountOK, Grows

\* append's answers are true for ever: a transition keeps the length at which it
\* was created or found, and one that met a conflict can never be stored.
THEOREM ReceiptsStayTrue == Spec => []ReceiptsTrue
  <1>1. Init => CountedIInv
    <2> SUFFICES ASSUME Init PROVE CountedIInv
      OBVIOUS
    <2>1. Stored = {}
      BY ChainAssumption DEF Init, Stored, Places
    <2>2. \A w \in Writers : ChainCounted(job[w].chain)
      BY DEF Init, NoJob, ChainCounted, InChain
    <2> QED BY <2>1, <2>2, InitIInv, FS_EmptySet DEF CountedIInv, CountOK, Init
  <1>2. CountedIInv => ReceiptsTrue
    <2> SUFFICES ASSUME CountedIInv, NEW r \in receipts
                 PROVE  ReceiptOK(r) /\ (r.status = "conflict" => r.of \notin Stored)
      BY DEF ReceiptsTrue, ReceiptOK
    <2> QED BY StoredIs DEF CountedIInv, CountOK, ReceiptOK, IInv
  <1> QED BY <1>1, <1>2, CountsKept, PTL DEF Spec
=============================================================================
