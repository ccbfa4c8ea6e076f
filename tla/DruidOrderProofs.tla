--------------------------- MODULE DruidOrderProofs ---------------------------
(* The order of the writes of DruidReconcile.                               *)
EXTENDS DruidReconcileProofs

-----------------------------------------------------------------------------
(* The finalizer comes first, with any lag of the caches.                   *)

\* Nothing takes the finalizer off the CR while no spec disables it.
LEMMA FinalizerKept ==
  ASSUME \A s \in Specs : s.disableFinalizer = FALSE, TypeOK, [Next]_vars, cr.fin
  PROVE  cr'.fin
<1>0. cr \in CR
  BY DEF TypeOK
<1>1. CASE UNCHANGED cr
  BY <1>1
<1>2. CASE updateFinalizers
  <2>1. m \in CR
    BY <1>2 DEF updateFinalizers, TypeOK
  <2>2. finalizerWanted(m.spec) = TRUE
    BY <2>1 DEF CR, finalizerWanted
  <2>3. cr' = cr \/ cr' = [cr EXCEPT !.fin = TRUE]
    BY <1>2, <2>2 DEF updateFinalizers
  <2> QED BY <1>0, <2>3 DEF CR
<1>3. CASE UserEdit
  <2>1. PICK s \in Specs : cr' = [cr EXCEPT !.spec = s, !.gen = @ + 1]
    BY <1>3 DEF UserEdit
  <2> QED BY <1>0, <2>1 DEF CR
<1> QED BY <1>1, <1>2, <1>3 DEF Next, Pass, Reconcile, applyCommonConfig, startNode,
    applyObject, applyWorkload, checkCrashStatus, checkRollout, finishNode,
    finishLoop, deleteUnusedResources, finishSweep, druidClusterStatusPatcher, Fail,
    DeliverCR, SyncCache, WorkloadController, Observe, RolloutDone, CrashLoop,
    PodFails, WorkloadUnchanged, crVars, vars

\* A StatefulSet appears only in the node loop.
LEMMA StatefulSetCreated ==
  ASSUME TypeOK, PassInv, [Next]_vars, NEW n \in Nodes,
         store[<<"StatefulSet", n>>] = Nil, store'[<<"StatefulSet", n>>] # Nil
  PROVE  pc = "loop"
<1>1. <<"StatefulSet", n>> \in Obj /\ <<"StatefulSet", n>> # commonConfig
  BY DEF Obj, Kinds, Workloads, commonConfig
<1>2. ~applyCommonConfig
  <2> SUFFICES ASSUME applyCommonConfig PROVE FALSE
    OBVIOUS
  <2>1. snap \in Specs
    BY DEF applyCommonConfig, TypeOK
  <2>2. /\ commonConfig \in Obj /\ hash(snap, commonConfig) \in Hash
        /\ commonConfig[1] \notin Workloads
    BY <2>1, CommonFacts
  <2> QED BY <1>1, <2>2, TypeParts, CreateOrUpdateFacts DEF applyCommonConfig
<1>3. ~deleteUnusedResources
  BY <1>1 DEF deleteUnusedResources, ownVars
<1>4. applyObject \/ applyWorkload
  BY <1>2, <1>3, StoreChanges
<1> QED BY <1>4 DEF applyObject, applyWorkload

\* The finalizer is on the CR once the node loop has started.
LEMMA FinalizerStep ==
  ASSUME \A s \in Specs : s.disableFinalizer = FALSE
  PROVE  TypeOK /\ PassInv /\ FinalizerInv /\ [Next]_vars => FinalizerInv'
<1> SUFFICES ASSUME TypeOK, PassInv, FinalizerInv, [Next]_vars PROVE FinalizerInv'
  OBVIOUS
<1>1. crSeen'.fin => cr'.fin
  <2>1. crSeen' = crSeen \/ crSeen' = cr
    BY DEF Next, Pass, Reconcile, applyCommonConfig, updateFinalizers, startNode,
       applyObject, applyWorkload, checkCrashStatus, checkRollout, finishNode,
       finishLoop, deleteUnusedResources, finishSweep, druidClusterStatusPatcher,
       Fail, UserEdit, DeliverCR, SyncCache, WorkloadController, Observe,
       RolloutDone, CrashLoop, PodFails, WorkloadUnchanged, crVars, vars
  <2> QED BY <2>1, FinalizerKept DEF FinalizerInv
<1>2. pc' # "idle" /\ m'.fin => cr'.fin
  <2>1. \/ pc' = "idle" \/ m' = cr'
        \/ m' = m /\ pc # "idle"
        \/ m' = crSeen
    BY DEF Next, Pass, Reconcile, applyCommonConfig, updateFinalizers, startNode,
       applyObject, applyWorkload, checkCrashStatus, checkRollout, finishNode,
       finishLoop, deleteUnusedResources, finishSweep, druidClusterStatusPatcher,
       Fail, UserEdit, DeliverCR, SyncCache, WorkloadController, Observe,
       RolloutDone, CrashLoop, PodFails, WorkloadUnchanged, EndPass,
       passVars, vars
  <2> QED BY <2>1, FinalizerKept DEF FinalizerInv
<1>3. pc' \notin {"idle", "common", "finalizers"} => cr'.fin
  <2>1. CASE updateFinalizers
    <3>1. m \in CR /\ cr \in CR /\ pc = "finalizers"
      BY <2>1 DEF updateFinalizers, TypeOK
    <3>2. finalizerWanted(m.spec) = TRUE
      BY <3>1 DEF CR, finalizerWanted
    <3>3. CASE m.fin = TRUE
      BY <3>1, <3>3, FinalizerKept DEF FinalizerInv
    <3>4. CASE m.fin # TRUE
      <4>1. cr' = [cr EXCEPT !.fin = TRUE]
        BY <2>1, <3>2, <3>4 DEF updateFinalizers
      <4> QED BY <3>1, <4>1 DEF CR
    <3> QED BY <3>3, <3>4
  <2>2. CASE ~updateFinalizers
    <3>1. pc' \in {"idle", "common", "finalizers"}
          \/ pc \notin {"idle", "common", "finalizers"}
      BY <2>2 DEF Next, Pass, Reconcile, applyCommonConfig, startNode,
         applyObject, applyWorkload, checkCrashStatus, checkRollout, finishNode,
         finishLoop, deleteUnusedResources, finishSweep, druidClusterStatusPatcher,
         Fail, UserEdit, DeliverCR, SyncCache, WorkloadController, Observe,
         RolloutDone, CrashLoop, PodFails, WorkloadUnchanged, EndPass,
         passVars, vars
    <3> QED BY <3>1, FinalizerKept DEF FinalizerInv
  <2> QED BY <2>1, <2>2
<1>4. FinalizerBeforeStatefulSet'
  <2> SUFFICES ASSUME NEW n \in Nodes, store'[<<"StatefulSet", n>>] # Nil
               PROVE  cr'.fin
    BY DEF FinalizerBeforeStatefulSet
  <2>1. CASE store[<<"StatefulSet", n>>] = Nil
    BY <2>1, StatefulSetCreated, FinalizerKept DEF FinalizerInv
  <2>2. CASE store[<<"StatefulSet", n>>] # Nil
    BY <2>2, FinalizerKept DEF FinalizerInv, FinalizerBeforeStatefulSet
  <2> QED BY <2>1, <2>2
<1> QED BY <1>1, <1>2, <1>3, <1>4 DEF FinalizerInv

\* While no spec disables it, the finalizer that deletes the claims is on the CR
\* before any StatefulSet exists, whatever stale copies of the CR are used.
THEOREM FinalizerFirst ==
  ASSUME \A s \in Specs : s.disableFinalizer = FALSE
  PROVE  Spec => []FinalizerBeforeStatefulSet
<1>1. Init => FinalizerInv
  <2> SUFFICES ASSUME Init PROVE FinalizerInv
    OBVIOUS
  <2>1. \A n \in Nodes : <<"StatefulSet", n>> \in Obj
    BY DEF Obj, Kinds, Workloads
  <2> QED BY <2>1 DEF Init, FinalizerInv, FinalizerBeforeStatefulSet
<1>2. FinalizerInv => FinalizerBeforeStatefulSet
  BY DEF FinalizerInv
<1> QED BY <1>1, <1>2, FinalizerStep, TypeCorrect, PTL DEF Spec

-----------------------------------------------------------------------------
(* Objects in their order, when reads are not stale.                        *)

\* A call for the common ConfigMap touches nothing else; if it succeeds and reads
\* are not stale, the ConfigMap has the hash the spec gives it.
LEMMA CommonWrite ==
  ASSUME TypeOK, applyCommonConfig
  PROVE  /\ snap \in Specs
         /\ \A p \in Obj : p # commonConfig => store'[p] = store[p]
         /\ \/ EndPass
            \/ /\ ~CacheLag => store'[commonConfig] = hash(snap, commonConfig)
               /\ UNCHANGED <<m, snap, done, node, did>>
<1>1. snap \in Specs
  BY DEF applyCommonConfig, TypeOK
<1>2. hash(snap, commonConfig) \in Hash /\ commonConfig \in Obj
      /\ commonConfig[1] \notin Workloads
  BY <1>1, CommonFacts
<1>3. OwnType
  BY TypeParts
<1>4. sdkCreateOrUpdateAsNeeded(commonConfig, hash(snap, commonConfig))
  BY DEF applyCommonConfig
<1>5. /\ \A p \in Obj : p # commonConfig => store'[p] = store[p]
      /\ ~CacheLag /\ Result(commonConfig, hash(snap, commonConfig)) # "error" =>
           store'[commonConfig] = hash(snap, commonConfig)
  BY <1>2, <1>3, <1>4, CreateOrUpdateFacts
<1> QED BY <1>1, <1>5 DEF applyCommonConfig

\* A write in the node loop touches only the object of the current node it is
\* for; if it succeeds and reads are not stale, the object has the hash the spec
\* gives it.
LEMMA NodeWrite ==
  ASSUME TypeOK, PassInv, applyObject \/ applyWorkload
  PROVE  /\ snap \in Specs /\ node \in DOMAIN snap.nodes /\ node \in Nodes
         /\ pc = "loop"
         /\ \E k \in Needed(snap, node) \ did :
              /\ \A j \in Needed(snap, node) : KindRank(j) < KindRank(k) => j \in did
              /\ \A p \in Obj : p # <<k, node>> => store'[p] = store[p]
              /\ store'[<<k, node>>] \in {store[<<k, node>>], hash(snap, <<k, node>>)}
              /\ \/ EndPass
                 \/ /\ ~CacheLag => store'[<<k, node>>] = hash(snap, <<k, node>>)
                    /\ did' = did \cup {k}
                    /\ UNCHANGED <<m, snap, done, node>>
                    /\ pc' \in {"loop", "crash", "deployed", "crashAgain"}
<1>1. snap \in Specs /\ node \in DOMAIN snap.nodes /\ node \in Nodes /\ pc = "loop"
  BY ApplyFacts
<1>2. PICK k \in Needed(snap, node) \ did :
        /\ \A j \in Needed(snap, node) : KindRank(j) < KindRank(k) => j \in did
        /\ sdkCreateOrUpdateAsNeeded(<<k, node>>, hash(snap, <<k, node>>))
        /\ \/ EndPass
           \/ /\ Result(<<k, node>>, hash(snap, <<k, node>>)) # "error"
              /\ did' = did \cup {k}
              /\ UNCHANGED <<m, snap, done, node>>
              /\ pc' \in {"loop", "crash", "deployed", "crashAgain"}
  BY ApplyFacts
<1>3. /\ <<k, node>> \in Obj /\ hash(snap, <<k, node>>) \in Hash
      /\ <<k, node>>[1] \in Workloads => <<k, node>> \in Workloads \X Nodes
  BY <1>1, NeededFacts
<1>4. OwnType
  BY TypeParts
<1>5. /\ \A p \in Obj : p # <<k, node>> => store'[p] = store[p]
      /\ store'[<<k, node>>] \in {store[<<k, node>>], hash(snap, <<k, node>>)}
      /\ ~CacheLag /\ Result(<<k, node>>, hash(snap, <<k, node>>)) # "error" =>
           store'[<<k, node>>] = hash(snap, <<k, node>>)
  BY <1>2, <1>3, <1>4, CreateOrUpdateFacts
<1> QED BY <1>1, <1>2, <1>5

\* deleteUnusedResources leaves what the pass has named.
LEMMA SweepLeavesNames ==
  ASSUME TypeOK, deleteUnusedResources, NEW o \in names
  PROVE  store'[o] = store[o]
BY DEF deleteUnusedResources, TypeOK, ownVars

\* The objects that belong to what the pass has handled.
LEMMA HandledFacts ==
  ASSUME TypeOK, PassInv, pc # "idle"
  PROVE  /\ snap \in Specs
         /\ commonConfig \in Obj
         /\ \A n \in done : \A k \in Needed(snap, n) :
              <<k, n>> \in Obj /\ <<k, n>> # commonConfig /\ <<k, n>> \in names
         /\ node # Nil => \A k \in did :
              /\ <<k, node>> \in Obj /\ <<k, node>> # commonConfig
              /\ <<k, node>> \in names /\ k \in Needed(snap, node)
<1>1. snap \in Specs
  BY DEF TypeOK
<1>2. done \subseteq DOMAIN snap.nodes
  BY DEF PassInv
<1>3. \A n \in done : \A k \in Needed(snap, n) :
        <<k, n>> \in Obj /\ <<k, n>> # commonConfig /\ <<k, n>> \in names
  BY <1>1, <1>2, NeededFacts DEF PassInv
<1>4. node # Nil => \A k \in did :
        /\ <<k, node>> \in Obj /\ <<k, node>> # commonConfig
        /\ <<k, node>> \in names /\ k \in Needed(snap, node)
  BY <1>1, NeededFacts DEF PassInv
<1> QED BY <1>1, <1>3, <1>4, CommonFacts

\* When reads are not stale, whatever the pass has handled stays in the API
\* server as the spec asks for it.
LEMMA AppliedStep ==
  ASSUME ~CacheLag
  PROVE  TypeOK /\ PassInv /\ AppliedInv /\ [Next]_vars => AppliedInv'
<1> SUFFICES ASSUME TypeOK, PassInv, AppliedInv, [Next]_vars PROVE AppliedInv'
  OBVIOUS
<1>e. CASE EndPass
  BY <1>e DEF EndPass, AppliedInv
<1>n. CASE UNCHANGED <<pc, snap, done, node, did, store>>
  BY <1>n DEF AppliedInv
<1>1. CASE Reconcile
  <2>1. CASE pc' = "common"
    BY <1>1, <2>1 DEF Reconcile, PassInv, AppliedInv
  <2>2. CASE pc' # "common"
    BY <1>1, <2>2, <1>n DEF Reconcile, ownVars
  <2> QED BY <2>1, <2>2
<1>2. CASE applyCommonConfig
  <2>1. CASE ~EndPass
    <3>1. done = {} /\ node = Nil
      BY <1>2 DEF applyCommonConfig, PassInv
    <3>2. store'[commonConfig] = hash(snap, commonConfig)
          /\ UNCHANGED <<snap, done, node, did>>
      BY <1>2, <2>1, CommonWrite
    <3> QED BY <3>1, <3>2 DEF AppliedInv
  <2> QED BY <1>e, <2>1
<1>3. CASE updateFinalizers
  BY <1>3 DEF updateFinalizers, AppliedInv, ownVars
<1>4. CASE startNode
  BY <1>4 DEF startNode, PassInv, AppliedInv, ownVars
<1>5. CASE applyObject \/ applyWorkload
  <2>1. CASE ~EndPass
    <3>1. snap \in Specs /\ node \in DOMAIN snap.nodes /\ node \in Nodes
          /\ pc = "loop"
      BY <1>5, NodeWrite
    <3>2. PICK k \in Needed(snap, node) \ did :
            /\ \A p \in Obj : p # <<k, node>> => store'[p] = store[p]
            /\ store'[<<k, node>>] = hash(snap, <<k, node>>)
            /\ did' = did \cup {k}
            /\ UNCHANGED <<snap, done, node>>
      BY <1>5, <2>1, NodeWrite
    <3>3. <<k, node>> # commonConfig
      BY <3>1, NeededFacts
    <3>4. store'[commonConfig] = hash(snap', commonConfig)
      BY <3>1, <3>2, <3>3, HandledFacts DEF AppliedInv
    <3>5. \A n \in done' : \A j \in Needed(snap', n) :
            store'[<<j, n>>] = hash(snap', <<j, n>>)
      BY <3>1, <3>2, HandledFacts DEF AppliedInv
    <3>6. node' # Nil => \A j \in did' :
            store'[<<j, node'>>] = hash(snap', <<j, node'>>)
      BY <3>1, <3>2, HandledFacts, NilAssumption DEF AppliedInv
    <3> QED BY <3>4, <3>5, <3>6 DEF AppliedInv
  <2> QED BY <1>e, <2>1
<1>7. CASE checkCrashStatus
  BY <1>7 DEF checkCrashStatus, AppliedInv
<1>8. CASE checkRollout
  <2>1. CASE ~EndPass
    BY <1>8, <2>1 DEF checkRollout, AppliedInv, ownVars
  <2> QED BY <1>e, <2>1
<1>9. CASE finishNode
  <2>1. \A k \in Needed(snap, node) : store[<<k, node>>] = hash(snap, <<k, node>>)
    BY <1>9 DEF finishNode, AppliedInv
  <2> QED BY <1>9, <2>1 DEF finishNode, AppliedInv, ownVars
<1>10. CASE finishLoop
  BY <1>10 DEF finishLoop, AppliedInv, ownVars
<1>11. CASE finishSweep
  BY <1>11 DEF finishSweep, AppliedInv, ownVars
<1>12. CASE deleteUnusedResources
  <2>1. pc = "sweep" /\ UNCHANGED <<pc, snap, done, node, did>>
    BY <1>12 DEF deleteUnusedResources
  <2>2. \A o \in names : store'[o] = store[o]
    BY <1>12, SweepLeavesNames
  <2>3. store'[commonConfig] = store[commonConfig]
    BY <2>1, <2>2 DEF PassInv
  <2>4. node = Nil
    BY <2>1 DEF PassInv
  <2>5. \A n \in done : \A k \in Needed(snap, n) : store'[<<k, n>>] = store[<<k, n>>]
    BY <2>1, <2>2, HandledFacts
  <2> QED BY <2>1, <2>3, <2>4, <2>5 DEF AppliedInv
<1>13. CASE druidClusterStatusPatcher
  BY <1>13, <1>e DEF druidClusterStatusPatcher
<1>14. CASE Fail
  BY <1>14, <1>e DEF Fail
<1>15. CASE UserEdit
  BY <1>15, <1>n DEF UserEdit, passVars, ownVars
<1>16. CASE DeliverCR
  BY <1>16, <1>n DEF DeliverCR, passVars, ownVars
<1>17. CASE \E o \in Obj : SyncCache(o)
  BY <1>17, <1>n DEF SyncCache, passVars, ownVars
<1>18. CASE WorkloadController
  BY <1>18, <1>n DEF WorkloadController, Observe, RolloutDone, CrashLoop, PodFails, WorkloadUnchanged, passVars
<1>19. CASE UNCHANGED vars
  BY <1>19, <1>n DEF vars, passVars, ownVars
<1> QED BY <1>1, <1>2, <1>3, <1>4, <1>5, <1>7, <1>8, <1>9, <1>10, <1>11,
    <1>12, <1>13, <1>14, <1>15, <1>16, <1>17, <1>18, <1>19 DEF Next, Pass

\* Whatever a pass has handled so far, the common ConfigMap and the objects of
\* the nodes before the current one, is in the API server as the spec of the pass
\* asks for it, for any number of nodes, specs and faults, and wherever a user
\* edits the spec in between: when sdkCreateOrUpdateAsNeeded's reads are current.
THEOREM Applied ==
  ASSUME ~CacheLag
  PROVE  Spec => []AppliedInv
<1>1. Init => AppliedInv
  BY DEF Init, AppliedInv
<1> QED BY <1>1, AppliedStep, TypeCorrect, PTL DEF Spec

\* A workload is written only in the node loop, for the current node, after its
\* ConfigMap and its Service.
LEMMA WorkloadWrite ==
  ASSUME TypeOK, PassInv, [Next]_vars,
         NEW w \in Workloads \X Nodes, Written(w)
  PROVE  /\ snap \in Specs /\ node \in DOMAIN snap.nodes /\ node # Nil
         /\ pc = "loop"
         /\ w = <<snap.nodes[node].kind, node>>
         /\ store'[w] = hash(snap, w)
         /\ "ConfigMap" \in did
         /\ "Service" \in snap.nodes[node].opts => "Service" \in did
         /\ applyObject \/ applyWorkload
<1>0. w \in Obj /\ w # commonConfig
  BY NilAssumption DEF Obj, Kinds, Workloads, commonConfig
<1>1. ~applyCommonConfig
  BY <1>0, CommonWrite DEF Written
<1>2. ~deleteUnusedResources
  BY <1>0 DEF deleteUnusedResources, Written, ownVars
<1>3. applyObject \/ applyWorkload
  BY <1>1, <1>2, StoreChanges DEF Written
<1>4. snap \in Specs /\ node \in DOMAIN snap.nodes /\ node \in Nodes /\ pc = "loop"
  BY <1>3, NodeWrite
<1>5. PICK k \in Needed(snap, node) \ did :
        /\ \A j \in Needed(snap, node) : KindRank(j) < KindRank(k) => j \in did
        /\ \A p \in Obj : p # <<k, node>> => store'[p] = store[p]
        /\ store'[<<k, node>>] \in {store[<<k, node>>], hash(snap, <<k, node>>)}
  BY <1>3, NodeWrite
<1>6. w = <<k, node>> /\ store'[w] = hash(snap, w)
  BY <1>0, <1>5 DEF Written
<1>7. k \in Workloads
  BY <1>6
<1>8. k = snap.nodes[node].kind
  <2>1. snap.nodes[node] \in NodeSpec
    BY <1>4, SpecFacts
  <2> QED BY <1>5, <1>7, <2>1 DEF Needed, NodeSpec, Workloads, Optional
<1>9. KindRank(k) = 3 /\ KindRank("ConfigMap") = 1 /\ KindRank("Service") = 2
  BY <1>7 DEF KindRank, Workloads
<1>10. "ConfigMap" \in did /\ ("Service" \in snap.nodes[node].opts => "Service" \in did)
  BY <1>5, <1>9 DEF Needed
<1>11. node # Nil
  BY <1>4, NilAssumption
<1> QED BY <1>3, <1>4, <1>6, <1>8, <1>10, <1>11

\* When a workload is written, the ConfigMaps its pods mount already have the
\* contents its hash was computed from, and its Service exists.
THEOREM ConfigFirst ==
  ASSUME ~CacheLag
  PROVE  Spec => ConfigBeforeWorkload
<1>1. ASSUME TypeOK, PassInv, AppliedInv, [Next]_vars,
             NEW w \in Workloads \X Nodes, Written(w)
      PROVE  /\ store[commonConfig] = <<store'[w][1], Nil>>
             /\ store[<<"ConfigMap", w[2]>>] = <<Nil, store'[w][2]>>
             /\ "Service" \in snap.nodes[w[2]].opts => store[<<"Service", w[2]>>] # Nil
  <2>1. /\ snap \in Specs /\ node \in DOMAIN snap.nodes /\ node # Nil
        /\ pc = "loop"
        /\ w = <<snap.nodes[node].kind, node>>
        /\ store'[w] = hash(snap, w)
        /\ "ConfigMap" \in did
        /\ "Service" \in snap.nodes[node].opts => "Service" \in did
    BY <1>1, WorkloadWrite
  <2>2. /\ store[commonConfig] = hash(snap, commonConfig)
        /\ \A k \in did : store[<<k, node>>] = hash(snap, <<k, node>>)
    BY <1>1, <2>1 DEF AppliedInv
  <2>3. node \in Nodes /\ w[1] \in Workloads /\ w # commonConfig
    BY <2>1, SpecFacts DEF commonConfig, Workloads
  <2>4. hash(snap, w) = <<snap.common, snap.nodes[node].cfg>>
    BY <2>1, <2>3 DEF hash
  <2>5. hash(snap, commonConfig) = <<snap.common, Nil>>
    BY DEF hash, commonConfig, Workloads
  <2>6. hash(snap, <<"ConfigMap", node>>) = <<Nil, snap.nodes[node].cfg>>
    BY <2>3, NilAssumption DEF hash, commonConfig, Workloads
  <2>7. hash(snap, <<"Service", node>>) # Nil
    BY <2>3, NilAssumption DEF hash, commonConfig, Workloads
  <2> QED BY <2>1, <2>2, <2>4, <2>5, <2>6, <2>7
<1>2. TypeOK /\ PassInv /\ AppliedInv /\ [Next]_vars =>
        [\A w \in Workloads \X Nodes : Written(w) =>
           /\ store[commonConfig] = <<store'[w][1], Nil>>
           /\ store[<<"ConfigMap", w[2]>>] = <<Nil, store'[w][2]>>
           /\ "Service" \in snap.nodes[w[2]].opts =>
                store[<<"Service", w[2]>>] # Nil]_vars
  BY <1>1
<1> QED BY <1>2, TypeCorrect, Applied, PTL DEF Spec, ConfigBeforeWorkload

\* A workload is written only when everything that nodes of earlier types ask for
\* is in place.
THEOREM TypesInOrder ==
  ASSUME ~CacheLag
  PROVE  Spec => WrittenInOrder
<1>1. ASSUME TypeOK, PassInv, AppliedInv, [Next]_vars,
             NEW w \in Workloads \X Nodes, Written(w),
             NEW a \in DOMAIN snap.nodes, Rank(a) < Rank(w[2]),
             NEW k \in Needed(snap, a)
      PROVE  store[<<k, a>>] = hash(snap, <<k, a>>)
  <2>1. node # Nil /\ w[2] = node
    BY <1>1, WorkloadWrite
  <2>2. a \in done
    BY <1>1, <2>1 DEF PassInv
  <2> QED BY <1>1, <2>2 DEF AppliedInv
<1>2. TypeOK /\ PassInv /\ AppliedInv /\ [Next]_vars =>
        [\A w \in Workloads \X Nodes : Written(w) =>
           \A a \in DOMAIN snap.nodes : Rank(a) < Rank(w[2]) =>
             \A k \in Needed(snap, a) : store[<<k, a>>] = hash(snap, <<k, a>>)]_vars
  BY <1>1
<1> QED BY <1>2, TypeCorrect, Applied, PTL DEF Spec, WrittenInOrder

\* A node that changes its kind keeps its old workload until the new one exists.
THEOREM ReplaceFirst ==
  ASSUME ~CacheLag
  PROVE  Spec => ReplaceBeforeRemove
<1>1. ASSUME TypeOK, PassInv, AppliedInv, [Next]_vars,
             NEW w \in Workloads \X Nodes,
             store[w] # Nil, store'[w] = Nil, w[2] \in DOMAIN snap.nodes
      PROVE  store[<<snap.nodes[w[2]].kind, w[2]>>] # Nil
  <2>1. w \in Obj
    BY DEF Obj, Kinds, Workloads
  <2>2. pc = "sweep"
    BY <1>1, <2>1, DeleteFacts DEF deleteUnusedResources
  <2>3. w[2] \in done /\ snap \in Specs
    BY <1>1, <2>2 DEF PassInv, TypeOK
  <2>4. snap.nodes[w[2]].kind \in Needed(snap, w[2])
    BY DEF Needed
  <2> QED BY <1>1, <2>3, <2>4, NeededFacts, HashNotNil DEF AppliedInv
<1>2. TypeOK /\ PassInv /\ AppliedInv /\ [Next]_vars =>
        [\A w \in Workloads \X Nodes :
           store[w] # Nil /\ store'[w] = Nil /\ w[2] \in DOMAIN snap.nodes =>
             store[<<snap.nodes[w[2]].kind, w[2]>>] # Nil]_vars
  BY <1>1
<1> QED BY <1>2, TypeCorrect, Applied, PTL DEF Spec, ReplaceBeforeRemove
===============================================================================
