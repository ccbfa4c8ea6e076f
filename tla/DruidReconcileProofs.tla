------------------------- MODULE DruidReconcileProofs -------------------------
(* Proofs about DruidReconcile, for every set of nodes, specs and contents. *)
EXTENDS DruidReconcile, TLAPS

-----------------------------------------------------------------------------
(* What the operators of the model return.                                  *)

\* A spec the user may apply has nodes among Nodes, each with a workload kind,
\* a configuration and optional objects.
LEMMA SpecFacts ==
  ASSUME NEW s \in Specs
  PROVE  /\ s \in SpecType
         /\ s.common \in Content
         /\ s.valid \in BOOLEAN /\ s.rollingDeploy \in BOOLEAN
         /\ s.disableFinalizer \in BOOLEAN
         /\ DOMAIN s.nodes \subseteq Nodes
         /\ \A n \in DOMAIN s.nodes : s.nodes[n] \in NodeSpec
<1>1. s \in SpecType
  BY ConstantsAssumption
<1>2. PICK S \in SUBSET Nodes : s.nodes \in [S -> NodeSpec]
  BY <1>1 DEF SpecType
<1> QED BY <1>1, <1>2 DEF SpecType

\* makeCommonConfigMap yields an object of the cluster with a hash.
LEMMA CommonFacts ==
  ASSUME NEW s \in Specs
  PROVE  /\ commonConfig \in Obj
         /\ commonConfig[1] \notin Workloads
         /\ hash(s, commonConfig) \in Hash
<1>1. s.common \in Content
  BY SpecFacts
<1>2. hash(s, commonConfig) = <<s.common, Nil>>
  BY DEF hash, commonConfig, Workloads
<1>3. hash(s, commonConfig) \in Hash
  BY <1>1, <1>2 DEF Hash
<1>4. commonConfig \in Obj /\ commonConfig[1] \notin Workloads
  BY DEF commonConfig, Obj, Kinds, Workloads
<1> QED BY <1>3, <1>4

\* What a node of a spec asks for is an object with a hash, distinct from the
\* common ConfigMap; its workload is one of the workloads.
LEMMA NeededFacts ==
  ASSUME NEW s \in Specs, NEW n \in DOMAIN s.nodes, NEW k \in Needed(s, n)
  PROVE  /\ n \in Nodes
         /\ k \in Kinds
         /\ <<k, n>> \in Obj
         /\ <<k, n>> # commonConfig
         /\ hash(s, <<k, n>>) \in Hash
         /\ k \in Workloads => <<k, n>> \in Workloads \X Nodes
<1>1. n \in Nodes /\ s.nodes[n] \in NodeSpec /\ s.common \in Content
  BY SpecFacts
<1>2. s.nodes[n].kind \in Workloads /\ s.nodes[n].cfg \in Content
      /\ s.nodes[n].opts \subseteq Optional
  BY <1>1 DEF NodeSpec
<1>3. k \in Kinds
  BY <1>2 DEF Needed, Kinds
<1>4. <<k, n>> \in Obj /\ <<k, n>> # commonConfig
  BY <1>1, <1>3, NilAssumption DEF Obj, commonConfig
<1>5. hash(s, <<k, n>>) \in Hash
  BY <1>1, <1>2, <1>4 DEF hash, Hash
<1> QED BY <1>1, <1>3, <1>4, <1>5

\* A hash is never "no value".
LEMMA HashNotNil == Nil \notin Hash
BY NilAssumption DEF Hash

\* A workload controller that takes notice of a hash leaves a well-formed status.
LEMMA ObservedFacts ==
  ASSUME NEW r \in Rollout, NEW h \in Hash, NEW x \in Observed(r, h)
  PROVE  /\ x \in Rollout
         /\ x.upd = h
         /\ x.cur = IF r.cur = Nil THEN h ELSE r.cur
BY DEF Observed, Rollout

OwnType ==
  /\ store \in [Obj -> Hash \cup {Nil}]
  /\ rollout \in [Workloads \X Nodes -> Rollout]

\* sdkCreateOrUpdateAsNeeded writes at most the object it is called for, and
\* only its hash; if it returns no error and reads are not stale, the object has
\* that hash afterwards.
LEMMA CreateOrUpdateFacts ==
  ASSUME OwnType, NEW o \in Obj, NEW h \in Hash,
         o[1] \in Workloads => o \in Workloads \X Nodes,
         sdkCreateOrUpdateAsNeeded(o, h)
  PROVE  /\ OwnType'
         /\ \A p \in Obj : p # o => store'[p] = store[p]
         /\ store'[o] \in {store[o], h}
         /\ ~CacheLag /\ Result(o, h) # "error" => store'[o] = h
<1>1. CASE Result(o, h) \in {"created", "updated"}
  <2>1. store' = [store EXCEPT ![o] = h]
    BY <1>1 DEF sdkCreateOrUpdateAsNeeded
  <2>2. rollout' \in [Workloads \X Nodes -> Rollout]
    <3>1. CASE o[1] \in Workloads /\ ~StatusLag
      <4>1. PICK r \in Observed(rollout[o], h) :
              rollout' = [rollout EXCEPT ![o] = r]
        BY <1>1, <3>1 DEF sdkCreateOrUpdateAsNeeded
      <4>2. r \in Rollout
        BY <3>1, ObservedFacts DEF OwnType
      <4> QED BY <4>1, <4>2 DEF OwnType
    <3>2. CASE ~(o[1] \in Workloads /\ ~StatusLag)
      BY <1>1, <3>2 DEF sdkCreateOrUpdateAsNeeded, OwnType
    <3> QED BY <3>1, <3>2
  <2> QED BY <2>1, <2>2 DEF OwnType
<1>2. CASE Result(o, h) \notin {"created", "updated"}
  <2>1. UNCHANGED <<store, rollout>>
    BY <1>2 DEF sdkCreateOrUpdateAsNeeded, ownVars
  <2>2. ~CacheLag /\ Result(o, h) # "error" => store[o] = h
    BY <1>2 DEF Result, Prev
  <2> QED BY <2>1, <2>2 DEF OwnType
<1> QED BY <1>1, <1>2

-----------------------------------------------------------------------------
(* Type correctness, and what the local variables of a pass hold.           *)

PassType ==
  /\ pc \in {"idle", "common", "finalizers", "loop", "crash", "deployed",
             "crashAgain", "sweep", "status"}
  /\ m \in CR \cup {Nil}
  /\ snap \in Specs \cup {Nil}
  /\ pc # "idle" => m \in CR /\ snap \in Specs
  /\ done \subseteq Nodes
  /\ node \in Nodes \cup {Nil}
  /\ did \subseteq Kinds
  /\ names \subseteq Obj
  /\ swept \subseteq Swept
  /\ surv \subseteq Obj

CRType == cr \in CR /\ crSeen \in CR /\ status \in Status

CacheType == cache \in [Obj -> Hash \cup {Nil}]

FaultsType == faults \in 0..MaxFaults

\* The parts of the type invariant.
LEMMA TypeParts ==
  TypeOK <=> CRType /\ OwnType /\ CacheType /\ PassType /\ FaultsType
BY DEF TypeOK, CRType, OwnType, CacheType, PassType, FaultsType

\* The end of a pass leaves its local variables well-formed and empty.
LEMMA EndPassFacts ==
  EndPass => PassType' /\ PassInv'
<1> SUFFICES ASSUME EndPass PROVE PassType' /\ PassInv'
  OBVIOUS
<1>1. PassType'
  BY DEF EndPass, PassType
<1>2. PassInv'
  BY DEF EndPass, PassInv
<1> QED BY <1>1, <1>2

\* Every step preserves type correctness, given what is known of the pass.
LEMMA TypeStep ==
  TypeOK /\ PassInv /\ [Next]_vars => TypeOK'
<1> SUFFICES ASSUME TypeOK, PassInv, [Next]_vars PROVE TypeOK'
  OBVIOUS
<1>0. CRType /\ OwnType /\ CacheType /\ PassType /\ FaultsType
  BY TypeParts
<1>p. CRType' /\ OwnType' /\ CacheType' /\ PassType' /\ FaultsType' => TypeOK'
  BY DEF TypeOK, CRType, OwnType, CacheType, PassType, FaultsType
<1>u. faults < MaxFaults /\ faults' = faults + 1 => FaultsType'
  BY <1>0, ConstantsAssumption DEF FaultsType
<1>1. CASE Reconcile
  BY <1>0, <1>1, <1>p DEF Reconcile, CRType, OwnType, CacheType, PassType,
     FaultsType, crVars, ownVars, CR
<1>2. CASE applyCommonConfig
  <2>1. snap \in Specs
    BY <1>0, <1>2 DEF applyCommonConfig, PassType
  <2>2. OwnType'
    BY <1>0, <1>2, <2>1, CommonFacts, CreateOrUpdateFacts DEF applyCommonConfig
  <2>3. PassType'
    <3>1. CASE EndPass
      BY <3>1, EndPassFacts
    <3>2. CASE ~EndPass
      BY <1>0, <1>2, <2>1, <3>2, CommonFacts DEF applyCommonConfig, PassType
    <3> QED BY <3>1, <3>2
  <2> QED BY <1>0, <1>2, <2>2, <2>3, <1>p
      DEF applyCommonConfig, CRType, CacheType, FaultsType, crVars
<1>3. CASE updateFinalizers
  <2>1. cr' \in CR /\ m' \in CR
    <3>1. m \in CR /\ cr \in CR
      BY <1>0, <1>3 DEF updateFinalizers, PassType, CRType
    <3>2. finalizerWanted(m.spec) \in BOOLEAN
      BY DEF finalizerWanted
    <3> QED BY <1>3, <3>1, <3>2 DEF updateFinalizers, CR
  <2> QED BY <1>0, <1>3, <2>1, <1>p DEF updateFinalizers, CRType, OwnType,
      CacheType, PassType, FaultsType, ownVars
<1>4. CASE startNode
  <2>1. snap \in Specs
    BY <1>0, <1>4 DEF startNode, PassType
  <2>2. node' \in Nodes
    BY <1>4, <2>1, SpecFacts DEF startNode, getNodeSpecsByOrder
  <2> QED BY <1>0, <1>4, <2>2, <1>p DEF startNode, CRType, OwnType,
      CacheType, PassType, FaultsType, crVars, ownVars
<1>5. CASE applyObject
  <2>1. snap \in Specs /\ node \in DOMAIN snap.nodes
    BY <1>0, <1>5 DEF applyObject, PassType, PassInv
  <2>2. PICK k \in NextKind(Needed(snap, node) \ did) \ Workloads :
          LET o == <<k, node>>
              h == hash(snap, o) IN
          /\ sdkCreateOrUpdateAsNeeded(o, h)
          /\ IF Result(o, h) = "error"
             THEN EndPass
             ELSE /\ did' = did \cup {k}
                  /\ names' = names \cup {o}
                  /\ UNCHANGED <<pc, m, snap, done, node, swept, surv>>
    BY <1>5 DEF applyObject
  <2>3. k \in Needed(snap, node) /\ k \notin Workloads
    BY DEF NextKind
  <2>4. OwnType'
    BY <1>0, <2>1, <2>2, <2>3, NeededFacts, CreateOrUpdateFacts
  <2>5. PassType'
    <3>1. CASE EndPass
      BY <3>1, EndPassFacts
    <3>2. CASE ~EndPass
      BY <1>0, <2>1, <2>2, <2>3, <3>2, NeededFacts DEF PassType
    <3> QED BY <3>1, <3>2
  <2> QED BY <1>0, <1>5, <2>4, <2>5, <1>p
      DEF applyObject, CRType, CacheType, FaultsType, crVars
<1>6. CASE applyWorkload
  <2>1. snap \in Specs /\ node \in DOMAIN snap.nodes
    BY <1>0, <1>6 DEF applyWorkload, PassType, PassInv
  <2>2. PICK k \in NextKind(Needed(snap, node) \ did) \cap Workloads :
          LET o == <<k, node>>
              h == hash(snap, o)
              r == Result(o, h) IN
          /\ sdkCreateOrUpdateAsNeeded(o, h)
          /\ IF r = "error" \/ (m.spec.rollingDeploy /\ r = "updated")
             THEN EndPass
             ELSE /\ did' = did \cup {k}
                  /\ names' = names \cup {o}
                  /\ pc' \in {"crash", "deployed", "crashAgain", "loop"}
                  /\ UNCHANGED <<m, snap, done, node, swept, surv>>
    BY <1>6 DEF applyWorkload
  <2>3. k \in Needed(snap, node) /\ k \in Workloads
    BY DEF NextKind
  <2>4. OwnType'
    BY <1>0, <2>1, <2>2, <2>3, NeededFacts, CreateOrUpdateFacts
  <2>5. PassType'
    <3>1. CASE EndPass
      BY <3>1, EndPassFacts
    <3>2. CASE ~EndPass
      BY <1>0, <1>6, <2>1, <2>2, <2>3, <3>2, NeededFacts
         DEF applyWorkload, PassType
    <3> QED BY <3>1, <3>2
  <2> QED BY <1>0, <1>6, <2>4, <2>5, <1>p
      DEF applyWorkload, CRType, CacheType, FaultsType, crVars
<1>7. CASE checkCrashStatus
  <2>1. m \in CR /\ snap \in Specs /\ node \in Nodes
    BY <1>0, <1>7 DEF checkCrashStatus, PassType, PassInv
  <2>2. rollout' \in [Workloads \X Nodes -> Rollout]
    <3>1. CASE UNCHANGED rollout
      BY <1>0, <3>1 DEF OwnType
    <3>2. CASE rollout' = [rollout EXCEPT ![<<"StatefulSet", node>>].crash = FALSE]
      <4>1. <<"StatefulSet", node>> \in Workloads \X Nodes
        BY <2>1 DEF Workloads
      <4>2. rollout[<<"StatefulSet", node>>] \in Rollout
        BY <1>0, <4>1 DEF OwnType
      <4>3. [rollout[<<"StatefulSet", node>>] EXCEPT !.crash = FALSE] \in Rollout
        BY <4>2 DEF Rollout
      <4> QED BY <1>0, <3>2, <4>1, <4>3 DEF OwnType
    <3> QED BY <1>7, <3>1, <3>2 DEF checkCrashStatus
  <2>3. FaultsType'
    BY <1>0, <1>7, <1>u DEF checkCrashStatus, FaultsType
  <2> QED BY <1>0, <1>7, <2>1, <2>2, <2>3, <1>p
      DEF checkCrashStatus, CRType, OwnType, CacheType, PassType, crVars
<1>8. CASE checkRollout
  <2>1. PassType'
    <3>1. CASE EndPass
      BY <3>1, EndPassFacts
    <3>2. CASE ~EndPass
      BY <1>0, <1>8, <3>2 DEF checkRollout, PassType
    <3> QED BY <3>1, <3>2
  <2> QED BY <1>0, <1>8, <2>1, <1>p DEF checkRollout, CRType, OwnType,
      CacheType, FaultsType, crVars, ownVars
<1>9. CASE finishNode
  BY <1>0, <1>9, <1>p DEF finishNode, CRType, OwnType, CacheType, PassType,
     FaultsType, crVars, ownVars
<1>10. CASE finishLoop
  BY <1>0, <1>10, <1>p DEF finishLoop, CRType, OwnType, CacheType,
     PassType, FaultsType, crVars, ownVars
<1>11. CASE deleteUnusedResources
  <2>1. PICK k \in NextSweep(Unswept) :
          /\ \/ \E kept \in SUBSET ((Listed(k) \ names) \
                                   {o \in Listed(k) \ names : store[o] = Nil}) :
                  /\ kept # {} => faults < MaxFaults
                  /\ faults' = IF kept = {} THEN faults ELSE faults + 1
                  /\ store' = [o \in Obj |->
                                 IF o \in (Listed(k) \ names) \ kept
                                 THEN Nil ELSE store[o]]
                  /\ rollout' = [w \in Workloads \X Nodes |->
                                   IF w \in (Listed(k) \ names) \ kept
                                   THEN NoRollout ELSE rollout[w]]
                  /\ surv' = surv \cup (Listed(k) \cap names) \cup kept
                             \cup {o \in Listed(k) \ names : store[o] = Nil}
             \/ /\ faults < MaxFaults
                /\ faults' = faults + 1
                /\ UNCHANGED <<ownVars, surv>>
          /\ swept' = swept \cup {k}
    BY <1>11 DEF deleteUnusedResources
  <2>2. k \in Swept /\ Listed(k) \subseteq Obj
    BY DEF NextSweep, Unswept, Listed
  <2>3. NoRollout \in Rollout
    BY DEF NoRollout, Rollout
  <2>4. OwnType' /\ surv' \subseteq Obj
    BY <1>0, <2>1, <2>2, <2>3 DEF OwnType, PassType, ownVars
  <2>5. FaultsType'
    BY <1>0, <1>u, <2>1 DEF FaultsType
  <2> QED BY <1>0, <1>11, <2>1, <2>2, <2>4, <2>5, <1>p
      DEF deleteUnusedResources, CRType, CacheType, PassType, crVars
<1>12. CASE finishSweep
  BY <1>0, <1>12, <1>p DEF finishSweep, CRType, OwnType, CacheType,
     PassType, FaultsType, crVars, ownVars
<1>13. CASE druidClusterStatusPatcher
  <2>1. PassType'
    BY <1>13, EndPassFacts DEF druidClusterStatusPatcher
  <2>2. status' \in Status
    BY <1>0, <1>13 DEF druidClusterStatusPatcher, MergePatch, Status, CRType,
       PassType
  <2>3. FaultsType'
    BY <1>0, <1>13, <1>u DEF druidClusterStatusPatcher, FaultsType
  <2> QED BY <1>0, <1>13, <2>1, <2>2, <2>3, <1>p
      DEF druidClusterStatusPatcher, CRType, OwnType, CacheType, ownVars
<1>14. CASE Fail
  <2>1. PassType'
    BY <1>14, EndPassFacts DEF Fail
  <2> QED BY <1>0, <1>14, <1>u, <2>1, <1>p
      DEF Fail, CRType, OwnType, CacheType, crVars, ownVars
<1>15. CASE UserEdit
  <2>1. cr' \in CR
    <3>1. PICK s \in Specs : cr' = [cr EXCEPT !.spec = s, !.gen = @ + 1]
      BY <1>15 DEF UserEdit
    <3>2. cr \in CR /\ cr.gen < MaxGen
      BY <1>0, <1>15 DEF UserEdit, CRType
    <3>3. cr.gen + 1 \in 1..MaxGen
      BY <3>2, ConstantsAssumption DEF CR
    <3> QED BY <3>1, <3>2, <3>3 DEF CR
  <2> QED BY <1>0, <1>15, <2>1, <1>p DEF UserEdit, CRType, OwnType,
      CacheType, PassType, FaultsType, ownVars, passVars
<1>16. CASE DeliverCR
  BY <1>0, <1>16, <1>p DEF DeliverCR, CRType, OwnType, CacheType, PassType,
     FaultsType, ownVars, passVars
<1>17. CASE \E o \in Obj : SyncCache(o)
  BY <1>0, <1>17, <1>p DEF SyncCache, CRType, OwnType, CacheType, PassType,
     FaultsType, crVars, ownVars, passVars
<1>18. CASE WorkloadController
  <2>1. PICK w \in Workloads \X Nodes :
          Observe(w) \/ RolloutDone(w) \/ CrashLoop(w) \/ PodFails(w)
    BY <1>18 DEF WorkloadController
  <2>2. OwnType'
    <3>0. w \in Obj
      BY DEF Obj, Kinds, Workloads
    <3>1. CASE Observe(w)
      <4>1. store[w] \in Hash
        BY <1>0, <3>0, <3>1 DEF Observe, OwnType
      <4>2. PICK r \in Observed(rollout[w], store[w]) :
              rollout' = [rollout EXCEPT ![w] = r]
        BY <3>1 DEF Observe
      <4>3. rollout[w] \in Rollout
        BY <1>0 DEF OwnType
      <4>4. r \in Rollout
        BY <4>1, <4>3, ObservedFacts
      <4>5. UNCHANGED store
        BY <3>1 DEF Observe, WorkloadUnchanged
      <4> QED BY <1>0, <4>2, <4>4, <4>5 DEF OwnType
    <3>2. CASE RolloutDone(w)
      BY <1>0, <3>0, <3>2 DEF RolloutDone, WorkloadUnchanged, OwnType, Rollout
    <3>3. CASE CrashLoop(w)
      <4>1. PICK b \in BOOLEAN :
              rollout' = [rollout EXCEPT ![w] =
                            [rollout[w] EXCEPT !.ready = FALSE, !.crash = b]]
        BY <3>3 DEF CrashLoop
      <4>2. rollout[w] \in Rollout
        BY <1>0 DEF OwnType
      <4>3. [rollout[w] EXCEPT !.ready = FALSE, !.crash = b] \in Rollout
        BY <4>2 DEF Rollout
      <4> QED BY <1>0, <3>3, <4>1, <4>3 DEF CrashLoop, WorkloadUnchanged, OwnType
    <3>4. CASE PodFails(w)
      BY <1>0, <3>4 DEF PodFails, WorkloadUnchanged, OwnType, Rollout
    <3> QED BY <2>1, <3>1, <3>2, <3>3, <3>4
  <2>3. FaultsType'
    BY <1>0, <1>u, <2>1 DEF Observe, RolloutDone, CrashLoop, PodFails,
       FaultsType
  <2>4. UNCHANGED <<crVars, cache, passVars>>
    BY <2>1 DEF Observe, RolloutDone, CrashLoop, PodFails,
       WorkloadUnchanged
  <2> QED BY <1>0, <2>2, <2>3, <2>4, <1>p
      DEF CRType, CacheType, PassType, crVars, passVars
<1>19. CASE UNCHANGED vars
  BY <1>0, <1>19, <1>p DEF vars, CRType, OwnType, CacheType, PassType,
     FaultsType, crVars, ownVars, passVars
<1> QED BY <1>1, <1>2, <1>3, <1>4, <1>5, <1>6, <1>7, <1>8, <1>9, <1>10, <1>11,
    <1>12, <1>13, <1>14, <1>15, <1>16, <1>17, <1>18, <1>19 DEF Next, Pass

\* Every step keeps the local variables of the pass consistent.
LEMMA PassStep ==
  TypeOK /\ PassInv /\ [Next]_vars => PassInv'
<1> SUFFICES ASSUME TypeOK, PassInv, [Next]_vars PROVE PassInv'
  OBVIOUS
<1>0. PassType
  BY TypeParts
<1>e. CASE EndPass
  BY <1>e, EndPassFacts
<1>n. CASE UNCHANGED <<pc, snap, done, node, did, names>>
  BY <1>n DEF PassInv
<1>1. CASE Reconcile
  <2>1. CASE pc' = "common"
    BY <1>1, <2>1 DEF Reconcile, PassInv
  <2>2. CASE pc' # "common"
    BY <1>1, <2>2, <1>n DEF Reconcile
  <2> QED BY <2>1, <2>2
<1>2. CASE applyCommonConfig
  BY <1>0, <1>2, <1>e DEF applyCommonConfig, PassInv
<1>3. CASE updateFinalizers
  BY <1>0, <1>3 DEF updateFinalizers, PassInv
<1>4. CASE startNode
  <2>1. PICK n \in DOMAIN snap.nodes \ done :
          /\ node' = n
          /\ \A a \in DOMAIN snap.nodes : Rank(a) < Rank(n) => a \in done
    BY <1>4 DEF startNode, getNodeSpecsByOrder
  <2>2. n # Nil
    BY <1>0, <1>4, SpecFacts, NilAssumption DEF startNode, PassType
  <2> QED BY <1>4, <2>1, <2>2 DEF startNode, PassInv
<1>5. CASE applyObject
  <2>1. CASE ~EndPass
    <3>1. PICK k \in Needed(snap, node) :
            /\ did' = did \cup {k}
            /\ names' = names \cup {<<k, node>>}
            /\ UNCHANGED <<pc, snap, done, node>>
      BY <1>5, <2>1 DEF applyObject, NextKind
    <3> QED BY <1>5, <3>1 DEF applyObject, PassInv
  <2> QED BY <1>e, <2>1
<1>6. CASE applyWorkload
  <2>1. CASE ~EndPass
    <3>1. PICK k \in Needed(snap, node) :
            /\ did' = did \cup {k}
            /\ names' = names \cup {<<k, node>>}
            /\ pc' \in {"crash", "deployed", "crashAgain", "loop"}
            /\ UNCHANGED <<snap, done, node>>
      BY <1>6, <2>1 DEF applyWorkload, NextKind
    <3> QED BY <1>6, <3>1 DEF applyWorkload, PassInv
  <2> QED BY <1>e, <2>1
<1>7. CASE checkCrashStatus
  BY <1>0, <1>7 DEF checkCrashStatus, PassInv
<1>8. CASE checkRollout
  <2>1. CASE ~EndPass
    BY <1>8, <2>1 DEF checkRollout, PassInv
  <2> QED BY <1>e, <2>1
<1>9. CASE finishNode
  <2>1. \A k \in Needed(snap, node) : <<k, node>> \in names
    BY <1>9 DEF finishNode, PassInv
  <2> QED BY <1>9, <2>1 DEF finishNode, PassInv
<1>10. CASE finishLoop
  BY <1>10 DEF finishLoop, PassInv
<1>11. CASE finishSweep
  BY <1>11 DEF finishSweep, PassInv
<1>12. CASE deleteUnusedResources
  BY <1>12, <1>n DEF deleteUnusedResources
<1>13. CASE druidClusterStatusPatcher
  BY <1>13, <1>e DEF druidClusterStatusPatcher
<1>14. CASE Fail
  BY <1>14, <1>e DEF Fail
<1>15. CASE UserEdit
  BY <1>15, <1>n DEF UserEdit, passVars
<1>16. CASE DeliverCR
  BY <1>16, <1>n DEF DeliverCR, passVars
<1>17. CASE \E o \in Obj : SyncCache(o)
  BY <1>17, <1>n DEF SyncCache, passVars
<1>18. CASE WorkloadController
  BY <1>18, <1>n DEF WorkloadController, Observe, RolloutDone, CrashLoop, PodFails, WorkloadUnchanged, passVars
<1>19. CASE UNCHANGED vars
  BY <1>19, <1>n DEF vars, passVars
<1> QED BY <1>1, <1>2, <1>3, <1>4, <1>5, <1>6, <1>7, <1>8, <1>9, <1>10, <1>11,
    <1>12, <1>13, <1>14, <1>15, <1>16, <1>17, <1>18, <1>19 DEF Next, Pass

\* Initially nothing exists and no pass runs.
LEMMA InitFacts ==
  Init => TypeOK /\ PassInv
<1> SUFFICES ASSUME Init PROVE TypeOK /\ PassInv
  OBVIOUS
<1>1. cr \in CR
  BY ConstantsAssumption DEF Init, CR
<1>2. rollout \in [Workloads \X Nodes -> Rollout]
  BY DEF Init, NoRollout, Rollout
<1>3. status \in Status
  BY DEF Init, Status
<1>4. TypeOK
  BY <1>1, <1>2, <1>3, ConstantsAssumption DEF Init, TypeOK
<1>5. PassInv
  BY DEF Init, PassInv
<1> QED BY <1>4, <1>5

\* The state of the API server, of the workloads and of the pass is always
\* well-formed, and the ...Names maps of the pass hold everything that the node
\* loop has handled, for every set of nodes and specs.
THEOREM TypeCorrect ==
  Spec => [](TypeOK /\ PassInv)
<1>1. Init => TypeOK /\ PassInv
  BY InitFacts
<1>2. TypeOK /\ PassInv /\ [Next]_vars => (TypeOK /\ PassInv)'
  BY TypeStep, PassStep
<1> QED BY <1>1, <1>2, PTL DEF Spec

-----------------------------------------------------------------------------
(* What a step does to the objects.                                         *)

\* The steps of a pass that write objects.
LEMMA StoreChanges ==
  [Next]_vars => \/ UNCHANGED ownVars /\ UNCHANGED store
                 \/ applyCommonConfig \/ applyObject \/ applyWorkload
                 \/ deleteUnusedResources
                 \/ checkCrashStatus /\ UNCHANGED store
                 \/ WorkloadController /\ UNCHANGED store
BY DEF Next, Pass, Reconcile, updateFinalizers, startNode, checkCrashStatus,
   checkRollout, finishNode, finishLoop, finishSweep, druidClusterStatusPatcher,
   Fail, UserEdit, DeliverCR, SyncCache, WorkloadController, Observe, RolloutDone,
   CrashLoop, PodFails, WorkloadUnchanged, ownVars, vars

\* A write in the node loop is for a kind the current node asks for, and every
\* kind that comes before it has been handled.
LEMMA ApplyFacts ==
  ASSUME TypeOK, PassInv, applyObject \/ applyWorkload
  PROVE  /\ snap \in Specs /\ node \in DOMAIN snap.nodes /\ node \in Nodes
         /\ pc = "loop"
         /\ \E k \in Needed(snap, node) \ did :
              /\ \A j \in Needed(snap, node) : KindRank(j) < KindRank(k) => j \in did
              /\ sdkCreateOrUpdateAsNeeded(<<k, node>>, hash(snap, <<k, node>>))
              /\ \/ EndPass
                 \/ /\ Result(<<k, node>>, hash(snap, <<k, node>>)) # "error"
                    /\ did' = did \cup {k}
                    /\ UNCHANGED <<m, snap, done, node>>
                    /\ pc' \in {"loop", "crash", "deployed", "crashAgain"}
<1>1. snap \in Specs /\ node \in DOMAIN snap.nodes /\ node \in Nodes /\ pc = "loop"
  BY SpecFacts DEF applyObject, applyWorkload, TypeOK, PassInv
<1>2. PICK k \in NextKind(Needed(snap, node) \ did) :
        /\ sdkCreateOrUpdateAsNeeded(<<k, node>>, hash(snap, <<k, node>>))
        /\ \/ EndPass
           \/ /\ Result(<<k, node>>, hash(snap, <<k, node>>)) # "error"
              /\ did' = did \cup {k}
              /\ UNCHANGED <<m, snap, done, node>>
              /\ pc' \in {"loop", "crash", "deployed", "crashAgain"}
  BY DEF applyObject, applyWorkload
<1>3. k \in Needed(snap, node) \ did
      /\ \A j \in Needed(snap, node) \ did : KindRank(k) <= KindRank(j)
  BY DEF NextKind
<1>4. \A j \in Needed(snap, node) : KindRank(j) < KindRank(k) => j \in did
  <2>1. \A j \in Kinds : KindRank(j) \in Int
    BY DEF KindRank, Kinds, Workloads, Optional
  <2>2. \A j \in Needed(snap, node) : j \in Kinds
    BY <1>1, NeededFacts
  <2> QED BY <1>3, <2>1, <2>2
<1> QED BY <1>1, <1>2, <1>3, <1>4

\* Once the node loop has finished, the names hold everything the spec asks for.
LEMMA NamesComplete ==
  ASSUME PassInv, pc = "sweep"
  PROVE  Wanted(snap) \subseteq names
BY DEF PassInv, Wanted

\* Only deleteUnusedResources deletes, and only what the pass has not named.
LEMMA DeleteFacts ==
  ASSUME TypeOK, PassInv, [Next]_vars,
         NEW o \in Obj, store[o] # Nil, store'[o] = Nil
  PROVE  deleteUnusedResources /\ o \notin names
<1>0. OwnType
  BY TypeParts
<1>1. ~(applyCommonConfig)
  <2> SUFFICES ASSUME applyCommonConfig PROVE FALSE
    OBVIOUS
  <2>1. snap \in Specs
    BY DEF applyCommonConfig, TypeOK
  <2>2. hash(snap, commonConfig) \in Hash /\ commonConfig \in Obj
        /\ commonConfig[1] \notin Workloads
    BY <2>1, CommonFacts
  <2>3. sdkCreateOrUpdateAsNeeded(commonConfig, hash(snap, commonConfig))
    BY DEF applyCommonConfig
  <2> QED BY <1>0, <2>2, <2>3, CreateOrUpdateFacts, HashNotNil
<1>2. ~(applyObject \/ applyWorkload)
  <2> SUFFICES ASSUME applyObject \/ applyWorkload PROVE FALSE
    OBVIOUS
  <2>1. snap \in Specs /\ node \in DOMAIN snap.nodes
    BY ApplyFacts
  <2>2. PICK k \in Needed(snap, node) :
          sdkCreateOrUpdateAsNeeded(<<k, node>>, hash(snap, <<k, node>>))
    BY ApplyFacts
  <2>3. /\ <<k, node>> \in Obj /\ hash(snap, <<k, node>>) \in Hash
        /\ <<k, node>>[1] \in Workloads => <<k, node>> \in Workloads \X Nodes
    BY <2>1, NeededFacts
  <2> QED BY <1>0, <2>2, <2>3, CreateOrUpdateFacts, HashNotNil
<1>3. deleteUnusedResources
  BY <1>1, <1>2, StoreChanges
<1>4. o \notin names
  BY <1>3 DEF deleteUnusedResources, Listed, ownVars
<1> QED BY <1>3, <1>4

\* deleteUnusedResources never deletes an object that the spec it works for asks
\* for, with any cache lag, faults and interleaving.
THEOREM SweepSafe ==
  Spec => SweepKeepsWanted
<1>1. TypeOK /\ PassInv /\ [Next]_vars =>
        [\A o \in Obj : store[o] # Nil /\ store'[o] = Nil => o \notin Wanted(snap)]_vars
  <2> SUFFICES ASSUME TypeOK, PassInv, [Next]_vars,
                      NEW o \in Obj, store[o] # Nil, store'[o] = Nil
               PROVE  o \notin Wanted(snap)
    OBVIOUS
  <2>1. pc = "sweep" /\ o \notin names
    BY DeleteFacts DEF deleteUnusedResources
  <2> QED BY <2>1, NamesComplete
<1> QED BY <1>1, TypeCorrect, PTL DEF Spec, SweepKeepsWanted
===============================================================================
