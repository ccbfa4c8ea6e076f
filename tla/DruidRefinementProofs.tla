------------------------- MODULE DruidRefinementProofs -------------------------
(* DruidReconcile implements OrderedUpdate when reads are not stale.         *)
EXTENDS DruidOrderProofs

\* The goal of OrderedUpdate, and what it wants.
Goal == IF pc = "idle" THEN Nil ELSE snap

LEMMA WantFacts ==
  ASSUME TypeOK, pc # "idle"
  PROVE  /\ snap \in Specs /\ snap # Nil /\ Goal = snap
         /\ Wanted(snap) \subseteq Obj
<1>1. snap \in Specs
  BY DEF TypeOK
<1>2. snap # Nil
  BY <1>1, NilAssumption
<1>3. Wanted(snap) \subseteq Obj
  BY DEF Wanted, Obj, commonConfig, Kinds
<1> QED BY <1>1, <1>2, <1>3 DEF Goal

\* A write of one wanted object, after the wanted objects that precede it, is a
\* Put; the pass may end with it.
LEMMA PutStep ==
  ASSUME TypeOK, TypeOK', pc # "idle", NEW o \in Wanted(snap),
         \A p \in Wanted(snap) : Precedes(p, o) => store[p] = hash(snap, p),
         \A p \in Obj : p # o => store'[p] = store[p],
         store'[o] = hash(snap, o),
         pc' = "idle" \/ (pc' # "idle" /\ snap' = snap)
  PROVE  Abstract!Next
<1> DEFINE Want == [s \in Specs |-> [q \in Wanted(s) |-> hash(s, q)]]
<1>1. /\ snap \in Specs /\ snap # Nil /\ Goal = snap /\ Wanted(snap) \subseteq Obj
  BY WantFacts
<1>2. /\ DOMAIN Want[snap] = Wanted(snap)
      /\ \A q \in Wanted(snap) : Want[snap][q] = hash(snap, q)
  BY <1>1
<1>3. store' = [store EXCEPT ![o] = Want[snap][o]]
  BY <1>1, <1>2 DEF TypeOK
<1>4. Goal' \in {Goal, Nil}
  BY <1>1 DEF Goal
<1>5. \A p \in DOMAIN Want[snap] :
        <<p, o>> \in {po \in Obj \X Obj : Precedes(po[1], po[2])} =>
          store[p] = Want[snap][p]
  <2> SUFFICES ASSUME NEW p \in Wanted(snap),
                      <<p, o>> \in {po \in Obj \X Obj : Precedes(po[1], po[2])}
               PROVE  store[p] = hash(snap, p)
    BY <1>2
  <2>1. Precedes(<<p, o>>[1], <<p, o>>[2])
    OBVIOUS
  <2>2. Precedes(p, o)
    BY <2>1
  <2> QED BY <2>2
<1> HIDE DEF Want
<1>6. Abstract!Put(o)
  BY <1>1, <1>2, <1>3, <1>4, <1>5 DEF Abstract!Put, Abstract!InPlace, Goal, Want
<1> QED BY <1>1, <1>6 DEF Abstract!Next

\* A step that leaves the objects alone begins a pass, ends one or is a stutter.
LEMMA QuietStep ==
  ASSUME TypeOK, TypeOK', UNCHANGED store,
         \/ pc' = "idle"
         \/ pc # "idle" /\ snap' = snap
         \/ pc = "idle" /\ snap' \in Specs
  PROVE  [Abstract!Next]_<<Goal, store>>
<1>1. CASE pc' = "idle"
  <2>1. Abstract!GiveUp
    BY <1>1 DEF Abstract!GiveUp
  <2> QED BY <2>1 DEF Abstract!Next
<1>2. CASE pc # "idle" /\ pc' # "idle" /\ snap' = snap
  BY <1>2 DEF Goal
<1>3. CASE pc = "idle" /\ pc' # "idle" /\ snap' \in Specs
  <2>1. Abstract!Adopt
    BY <1>3 DEF Abstract!Adopt
  <2> QED BY <2>1 DEF Abstract!Next
<1> QED BY <1>1, <1>2, <1>3

\* The write of the common ConfigMap, which nothing precedes.
LEMMA CommonStep ==
  ASSUME TypeOK, TypeOK', PassInv, ~CacheLag, applyCommonConfig
  PROVE  [Abstract!Next]_<<Goal, store>>
<1>1. pc # "idle" /\ pc = "common"
  BY DEF applyCommonConfig
<1>2. /\ snap \in Specs /\ commonConfig \in Obj /\ commonConfig \in Wanted(snap)
      /\ \A p \in Obj : p # commonConfig => store'[p] = store[p]
  BY <1>1, CommonWrite, CommonFacts DEF Wanted
<1>3. \/ UNCHANGED store
      \/ store'[commonConfig] = hash(snap, commonConfig)
  BY DEF applyCommonConfig, sdkCreateOrUpdateAsNeeded, TypeOK, commonConfig, ownVars,
     Obj, Kinds
<1>4. pc' = "idle" \/ (pc' # "idle" /\ snap' = snap)
  BY DEF applyCommonConfig, EndPass
<1>5. CASE UNCHANGED store
  BY <1>1, <1>4, <1>5, QuietStep
<1>6. CASE store'[commonConfig] = hash(snap, commonConfig)
  <2>1. \A p \in Wanted(snap) : ~Precedes(p, commonConfig)
    BY DEF Precedes
  <2> QED BY <1>1, <1>2, <1>4, <1>6, <2>1, PutStep
<1> QED BY <1>3, <1>5, <1>6

\* A write in the node loop: what precedes it has been handled by the pass.
LEMMA NodeStep ==
  ASSUME TypeOK, TypeOK', PassInv, AppliedInv, ~CacheLag, applyObject \/ applyWorkload
  PROVE  [Abstract!Next]_<<Goal, store>>
<1>1. /\ snap \in Specs /\ node \in DOMAIN snap.nodes /\ node \in Nodes
      /\ pc = "loop" /\ pc # "idle"
  BY NodeWrite
<1>2. PICK k \in Needed(snap, node) \ did :
        /\ \A j \in Needed(snap, node) : KindRank(j) < KindRank(k) => j \in did
        /\ \A p \in Obj : p # <<k, node>> => store'[p] = store[p]
        /\ store'[<<k, node>>] \in {store[<<k, node>>], hash(snap, <<k, node>>)}
        /\ \/ EndPass
           \/ /\ UNCHANGED <<m, snap, done, node>>
              /\ pc' \in {"loop", "crash", "deployed", "crashAgain"}
  BY NodeWrite
<1> DEFINE o == <<k, node>>
<1>3. node # Nil /\ k \in Kinds /\ o \in Obj /\ o # commonConfig
  BY <1>1, <1>2, NeededFacts, NilAssumption
<1>4. o \in Wanted(snap)
  BY <1>1, <1>2, <1>3 DEF Wanted
<1>5. pc' = "idle" \/ (pc' # "idle" /\ snap' = snap)
  BY <1>2 DEF EndPass
<1>6. ASSUME NEW p \in Wanted(snap), Precedes(p, o)
      PROVE  store[p] = hash(snap, p)
  <2>1. CASE p = commonConfig
    BY <1>1, <2>1 DEF AppliedInv
  <2>2. CASE p # commonConfig
    <3>1. /\ p \in Kinds \X Nodes /\ p[2] \in DOMAIN snap.nodes
          /\ p[1] \in Needed(snap, p[2]) /\ p = <<p[1], p[2]>>
      BY <1>6, <2>2 DEF Wanted
    <3>2. \/ Rank(p[2]) < Rank(node)
          \/ p[2] = node /\ k \in Workloads /\ p[1] \in {"ConfigMap", "Service"}
      BY <1>6, <2>2 DEF Precedes
    <3>3. CASE Rank(p[2]) < Rank(node)
      <4>1. p[2] \in done
        BY <1>3, <3>1, <3>3 DEF PassInv
      <4>2. store[<<p[1], p[2]>>] = hash(snap, <<p[1], p[2]>>)
        BY <3>1, <4>1 DEF AppliedInv
      <4> QED BY <3>1, <4>2
    <3>4. CASE p[2] = node /\ k \in Workloads /\ p[1] \in {"ConfigMap", "Service"}
      <4>1. KindRank(p[1]) < KindRank(k)
        BY <3>4 DEF KindRank, Workloads
      <4>2. p[1] \in did
        BY <1>2, <3>1, <3>4, <4>1
      <4>3. store[<<p[1], node>>] = hash(snap, <<p[1], node>>)
        BY <1>3, <4>2 DEF AppliedInv
      <4> QED BY <3>1, <3>4, <4>3
    <3> QED BY <3>2, <3>3, <3>4
  <2> QED BY <2>1, <2>2
<1>7. CASE store'[o] = store[o]
  <2>1. UNCHANGED store
    BY <1>2, <1>7 DEF TypeOK
  <2> QED BY <1>1, <1>5, <2>1, QuietStep
<1>8. CASE store'[o] = hash(snap, o)
  <2> HIDE DEF o
  <2>1. \A p \in Obj : p # o => store'[p] = store[p]
    BY <1>2 DEF o
  <2> QED BY <1>1, <1>4, <1>5, <1>6, <1>8, <2>1, PutStep
<1> QED BY <1>2, <1>7, <1>8

\* The sweep comes when all that is wanted is in place, and deletes nothing of it.
LEMMA RemoveStep ==
  ASSUME TypeOK, TypeOK', PassInv, AppliedInv, ~CacheLag, deleteUnusedResources
  PROVE  [Abstract!Next]_<<Goal, store>>
<1> DEFINE Want == [s \in Specs |-> [q \in Wanted(s) |-> hash(s, q)]]
           out  == {o \in Obj : store[o] # Nil /\ store'[o] = Nil}
<1>1. pc = "sweep" /\ pc # "idle" /\ pc' = pc /\ snap' = snap
  BY DEF deleteUnusedResources
<1>2. /\ snap \in Specs /\ snap # Nil /\ Goal = snap /\ Wanted(snap) \subseteq Obj
  BY <1>1, WantFacts
<1>3. /\ DOMAIN Want[snap] = Wanted(snap)
      /\ \A q \in Wanted(snap) : Want[snap][q] = hash(snap, q)
  BY <1>2
<1>4. ASSUME NEW o \in Wanted(snap)
      PROVE  store[o] = hash(snap, o)
  <2>1. CASE o = commonConfig
    BY <1>1, <2>1 DEF AppliedInv
  <2>2. CASE o # commonConfig
    <3>1. /\ o \in Kinds \X Nodes /\ o[2] \in DOMAIN snap.nodes
          /\ o[1] \in Needed(snap, o[2]) /\ o = <<o[1], o[2]>>
      BY <1>4, <2>2 DEF Wanted
    <3>2. o[2] \in done
      BY <1>1, <3>1 DEF PassInv
    <3>3. store[<<o[1], o[2]>>] = hash(snap, <<o[1], o[2]>>)
      BY <3>1, <3>2 DEF AppliedInv
    <3> QED BY <3>1, <3>3
  <2> QED BY <2>1, <2>2
<1>5. \A o \in Obj : store'[o] \in {store[o], Nil}
  BY DEF deleteUnusedResources, ownVars
<1>6. \A o \in Wanted(snap) : store'[o] = store[o]
  BY <1>1, NamesComplete, SweepLeavesNames
<1>7. out \in SUBSET (Obj \ Wanted(snap))
  BY <1>6
<1>8. store' = [o \in Obj |-> IF o \in out THEN Nil ELSE store[o]]
  BY <1>5 DEF TypeOK
<1>9. Goal' = Goal
  BY <1>1 DEF Goal
<1> HIDE DEF Want, out
<1>10. Abstract!Remove
  BY <1>2, <1>3, <1>4, <1>7, <1>8, <1>9 DEF Abstract!Remove, Abstract!InPlace, Goal, Want
<1> QED BY <1>10 DEF Abstract!Next

\* Every step of DruidReconcile is a step of OrderedUpdate or a stutter.
LEMMA RefinementStep ==
  ASSUME ~CacheLag
  PROVE  TypeOK /\ TypeOK' /\ PassInv /\ AppliedInv /\ [Next]_vars =>
           [Abstract!Next]_<<Goal, store>>
<1> SUFFICES ASSUME TypeOK, TypeOK', PassInv, AppliedInv, [Next]_vars
             PROVE  [Abstract!Next]_<<Goal, store>>
  OBVIOUS
<1>1. CASE applyCommonConfig
  BY <1>1, CommonStep
<1>2. CASE applyObject \/ applyWorkload
  BY <1>2, NodeStep
<1>3. CASE deleteUnusedResources
  BY <1>3, RemoveStep
<1>4. CASE UNCHANGED store /\ ~applyCommonConfig /\ ~applyObject /\ ~applyWorkload
           /\ ~deleteUnusedResources
  <2>1. CASE Reconcile
    <3>1. \/ pc' = "idle"
          \/ pc = "idle" /\ snap' \in Specs
      BY <2>1 DEF Reconcile, TypeOK, CR
    <3> QED BY <1>4, <3>1, QuietStep
  <2>2. CASE ~Reconcile
    <3>1. \/ pc' = "idle"
          \/ UNCHANGED <<pc, snap>>
          \/ pc # "idle" /\ snap' = snap
      BY <1>4, <2>2 DEF Next, Pass, updateFinalizers, startNode, checkCrashStatus,
         checkRollout, finishNode, finishLoop, finishSweep, druidClusterStatusPatcher,
         Fail, EndPass, UserEdit, DeliverCR, SyncCache, WorkloadController, Observe,
         RolloutDone, CrashLoop, PodFails, WorkloadUnchanged, passVars, vars
    <3> QED BY <1>4, <3>1, QuietStep
  <2> QED BY <2>1, <2>2
<1> QED BY <1>1, <1>2, <1>3, <1>4, StoreChanges

\* When reads are not stale, deployDruidCluster is an ordered update: one spec at a
\* time, each write after the writes it depends on, deletions last.
THEOREM Refinement ==
  ASSUME ~CacheLag
  PROVE  Spec => ImplementsOrderedUpdate
<1>1. Init => Abstract!Init
  BY DEF Init, Abstract!Init
<1>2. TypeOK /\ TypeOK' /\ PassInv /\ AppliedInv /\ [Next]_vars =>
        [Abstract!Next]_<<IF pc = "idle" THEN Nil ELSE snap, store>>
  BY RefinementStep DEF Goal
<1> QED BY <1>1, <1>2, TypeCorrect, Applied, PTL
      DEF Spec, ImplementsOrderedUpdate, Abstract!Spec
===============================================================================
