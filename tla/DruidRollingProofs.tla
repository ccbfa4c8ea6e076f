-------------------------- MODULE DruidRollingProofs --------------------------
(* The gate of a rolling deploy, with any lag of statuses and caches.       *)
EXTENDS DruidOrderProofs, DruidRollout

\* What sdkCreateOrUpdateAsNeeded does to the status of workloads.
LEMMA RolloutFacts ==
  ASSUME OwnType, NEW o \in Obj, NEW h \in Hash,
         o[1] \in Workloads => o \in Workloads \X Nodes,
         sdkCreateOrUpdateAsNeeded(o, h)
  PROVE  \A w \in Workloads \X Nodes : w # o => rollout'[w] = rollout[w]
<1>1. CASE /\ Result(o, h) \in {"created", "updated"}
           /\ o[1] \in Workloads /\ ~StatusLag
  <2>1. PICK r \in Observed(rollout[o], h) : rollout' = [rollout EXCEPT ![o] = r]
    BY <1>1 DEF sdkCreateOrUpdateAsNeeded
  <2> QED BY <2>1 DEF OwnType
<1>2. CASE ~(/\ Result(o, h) \in {"created", "updated"}
             /\ o[1] \in Workloads /\ ~StatusLag)
  BY <1>2 DEF sdkCreateOrUpdateAsNeeded, ownVars
<1> QED BY <1>1, <1>2

\* A workload that is rolled out stays so, whatever the workload controllers and
\* checkCrashStatus do: its status is about the last write already, and neither a
\* failing pod nor the removal of one changes the revisions.
LEMMA ControllerFacts ==
  ASSUME TypeOK, PassInv, WorkloadController \/ checkCrashStatus,
         NEW v \in Workloads \X Nodes, store[v] # Nil, RolledOut(v)
  PROVE  store' = store /\ RolledOut(v)'
<1>0. rollout[v] \in Rollout /\ DOMAIN rollout = Workloads \X Nodes
  BY DEF TypeOK
<1>1. CASE checkCrashStatus
  <2>1. node \in Nodes /\ <<"StatefulSet", node>> \in Workloads \X Nodes
    BY <1>1 DEF checkCrashStatus, TypeOK, PassInv, Workloads
  <2>2. CASE UNCHANGED rollout
    BY <1>1, <2>2 DEF checkCrashStatus, RolledOut
  <2>3. CASE rollout' = [rollout EXCEPT ![<<"StatefulSet", node>>].crash = FALSE]
    <3>1. CASE v # <<"StatefulSet", node>>
      BY <1>0, <1>1, <2>1, <2>3, <3>1 DEF checkCrashStatus, RolledOut
    <3>2. CASE v = <<"StatefulSet", node>>
      <4>1. rollout'[v] = [rollout[v] EXCEPT !.crash = FALSE]
        BY <1>0, <2>3, <3>2
      <4>2. rollout'[v].upd = rollout[v].upd /\ rollout'[v].cur = rollout[v].cur
        BY <1>0, <4>1 DEF Rollout
      <4> QED BY <1>1, <4>2 DEF checkCrashStatus, RolledOut
    <3> QED BY <3>1, <3>2
  <2> QED BY <1>1, <2>2, <2>3 DEF checkCrashStatus
<1>2. CASE WorkloadController
  <2>1. PICK w \in Workloads \X Nodes :
          Observe(w) \/ RolloutDone(w) \/ CrashLoop(w) \/ PodFails(w)
    BY <1>2 DEF WorkloadController
  <2>2. store' = store
    BY <2>1 DEF Observe, RolloutDone, CrashLoop, PodFails, WorkloadUnchanged
  <2>3. CASE w # v
    <3>1. rollout'[v] = rollout[v]
      BY <1>0, <2>1, <2>3 DEF Observe, RolloutDone, CrashLoop, PodFails
    <3> QED BY <2>2, <3>1 DEF RolledOut
  <2>4. CASE w = v
    <3>1. ~Observe(w)
      BY <2>4 DEF Observe, RolledOut
    <3>2. CASE RolloutDone(w)
      BY <1>0, <2>2, <2>4, <3>2 DEF RolloutDone, RolledOut
    <3>3. CASE CrashLoop(w)
      <4>1. PICK b : rollout' = [rollout EXCEPT ![w] =
                                   [rollout[w] EXCEPT !.ready = FALSE, !.crash = b]]
        BY <3>3 DEF CrashLoop
      <4>2. rollout'[v].upd = rollout[v].upd /\ rollout'[v].cur = rollout[v].cur
        BY <1>0, <2>4, <4>1 DEF Rollout
      <4> QED BY <2>2, <4>2 DEF RolledOut
    <3>4. CASE PodFails(w)
      <4>1. rollout'[v] = [rollout[v] EXCEPT !.ready = FALSE]
        BY <1>0, <2>4, <3>4 DEF PodFails
      <4>2. rollout'[v].upd = rollout[v].upd /\ rollout'[v].cur = rollout[v].cur
        BY <1>0, <4>1 DEF Rollout
      <4> QED BY <2>2, <4>2 DEF RolledOut
    <3> QED BY <2>1, <3>1, <3>2, <3>3, <3>4
  <2> QED BY <2>3, <2>4
<1> QED BY <1>1, <1>2

\* A write in the node loop leaves the workloads of other nodes alone, and one
\* that is not for a workload leaves all of them alone.
LEMMA NodeWriteRollout ==
  ASSUME TypeOK, PassInv, applyObject \/ applyWorkload,
         NEW w \in Workloads \X Nodes,
         applyWorkload => w[2] # node
  PROVE  store'[w] = store[w] /\ rollout'[w] = rollout[w]
<1>1. snap \in Specs /\ node \in DOMAIN snap.nodes
  BY ApplyFacts
<1>2. PICK k \in Needed(snap, node) :
        /\ sdkCreateOrUpdateAsNeeded(<<k, node>>, hash(snap, <<k, node>>))
        /\ ~applyWorkload => k \notin Workloads
  <2>1. CASE applyWorkload
    BY <2>1, ApplyFacts
  <2>2. CASE ~applyWorkload
    BY <2>2 DEF applyObject, NextKind
  <2> QED BY <2>1, <2>2
<1>3. /\ <<k, node>> \in Obj /\ hash(snap, <<k, node>>) \in Hash
      /\ <<k, node>>[1] \in Workloads => <<k, node>> \in Workloads \X Nodes
  BY <1>1, NeededFacts
<1>4. OwnType /\ w \in Obj
  BY TypeParts DEF Obj, Kinds, Workloads
<1>5. w # <<k, node>>
  BY <1>2
<1> QED BY <1>2, <1>3, <1>4, <1>5, CreateOrUpdateFacts, RolloutFacts

\* A workload that is rolled out stays so until it is written or deleted.
LEMMA RolledOutKept ==
  ASSUME TypeOK, PassInv, [Next]_vars,
         NEW w \in Workloads \X Nodes, RolledOut(w), store[w] # Nil, w \in names,
         applyWorkload => w[2] # node
  PROVE  store'[w] # Nil /\ RolledOut(w)'
<1>0. w \in Obj /\ OwnType
  BY TypeParts DEF Obj, Kinds, Workloads
<1>1. CASE UNCHANGED ownVars
  BY <1>1 DEF ownVars, RolledOut
<1>2. CASE applyCommonConfig
  <2>1. snap \in Specs
    BY <1>2 DEF applyCommonConfig, TypeOK
  <2>2. /\ commonConfig \in Obj /\ hash(snap, commonConfig) \in Hash
        /\ commonConfig[1] \notin Workloads
    BY <2>1, CommonFacts
  <2>3. w # commonConfig
    BY <2>2
  <2>4. store'[w] = store[w]
    BY <1>0, <1>2, <2>3, CommonWrite
  <2>5. rollout'[w] = rollout[w]
    BY <1>0, <1>2, <2>2, <2>3, RolloutFacts DEF applyCommonConfig
  <2> QED BY <2>4, <2>5 DEF RolledOut
<1>3. CASE applyObject \/ applyWorkload
  BY <1>3, NodeWriteRollout DEF RolledOut
<1>4. CASE deleteUnusedResources
  <2>1. store'[w] = store[w] /\ rollout'[w] = rollout[w]
    BY <1>0, <1>4 DEF deleteUnusedResources, ownVars
  <2> QED BY <2>1 DEF RolledOut
<1>5. CASE checkCrashStatus \/ WorkloadController
  BY <1>5, ControllerFacts
<1> QED BY <1>1, <1>2, <1>3, <1>4, <1>5, StoreChanges

\* A rolling deploy goes past a StatefulSet only when it is rolled out, or when
\* its status is not about the last write.
LEMMA GateStep ==
  TypeOK /\ PassInv /\ GateInv /\ [Next /\ Remember]_rolloutVars => GateInv'
<1> SUFFICES ASSUME TypeOK, PassInv, GateInv, [Next /\ Remember]_rolloutVars,
                    (pc # "idle" /\ Rolling)'
             PROVE  /\ \A n \in done' :
                         (snap.nodes[n].kind = "StatefulSet")' => Through(n)'
                    /\ (node # Nil /\ pc \in {"loop", "crashAgain"}
                        /\ "StatefulSet" \in did)' => Through(node)'
  BY DEF GateInv
<1>v. [Next]_vars
  BY DEF rolloutVars
<1>b. \A n \in behind : n \in behind'
  BY DEF Remember, rolloutVars
<1>e. ~EndPass
  BY DEF EndPass
<1>k. ASSUME NEW n, Through(n), snap \in Specs, n \in DOMAIN snap.nodes,
             <<"StatefulSet", n>> \in names, applyWorkload => n # node
      PROVE  Through(n)'
  <2>1. CASE n \in behind
    BY <1>b, <2>1 DEF Through
  <2>2. CASE store[<<"StatefulSet", n>>] # Nil /\ RolledOut(<<"StatefulSet", n>>)
    <3>1. n \in Nodes
      BY <1>k, SpecFacts
    <3>2. <<"StatefulSet", n>> \in Workloads \X Nodes
      BY <3>1 DEF Workloads
    <3>3. <<"StatefulSet", n>>[2] = n
      OBVIOUS
    <3>4. ASSUME NEW w, w = <<"StatefulSet", n>>
          PROVE  store'[w] # Nil /\ RolledOut(w)'
      BY <1>k, <1>v, <2>2, <3>2, <3>3, <3>4, RolledOutKept
    <3> QED BY <3>4 DEF Through
  <2> QED BY <1>k, <2>1, <2>2 DEF Through
<1>d. ASSUME pc # "idle", Rolling, snap' = snap,
             NEW n \in done, snap.nodes[n].kind = "StatefulSet"
      PROVE  Through(n)'
  <2>1. snap \in Specs /\ n \in DOMAIN snap.nodes
    BY <1>d DEF TypeOK, PassInv
  <2>2. <<"StatefulSet", n>> \in names
    BY <1>d DEF PassInv, Needed
  <2>3. Through(n)
    BY <1>d DEF GateInv
  <2>4. applyWorkload => n # node
    BY DEF applyWorkload, PassInv
  <2> QED BY <1>k, <2>1, <2>2, <2>3, <2>4
<1>c. ASSUME pc # "idle", node # Nil, "StatefulSet" \in did, ~applyWorkload,
             Through(node), node' = node
      PROVE  Through(node)'
  <2>1. /\ snap \in Specs /\ node \in DOMAIN snap.nodes
        /\ <<"StatefulSet", node>> \in names
    BY <1>c DEF TypeOK, PassInv
  <2>2. ASSUME NEW n, n = node PROVE Through(n)'
    BY <1>c, <1>k, <2>1, <2>2
  <2> QED BY <1>c, <2>2 DEF Through, RolledOut
<1>n. CASE UNCHANGED <<pc, m, snap, done, node, did>> /\ ~applyWorkload
  BY <1>n, <1>c, <1>d DEF GateInv, Rolling
<1>1. CASE Reconcile
  <2>1. done' = {} /\ node' = Nil
    BY <1>1 DEF Reconcile, PassInv
  <2> QED BY <2>1
<1>2. CASE applyCommonConfig
  BY <1>2, <1>e DEF applyCommonConfig, PassInv
<1>3. CASE updateFinalizers
  BY <1>3 DEF updateFinalizers, PassInv
<1>4. CASE startNode
  <2>1. did' = {}
    BY <1>4 DEF startNode, PassInv
  <2> QED BY <1>4, <1>d, <2>1 DEF startNode, Rolling
<1>5. CASE applyObject
  <2>1. PICK k \in Kinds \ Workloads : did' = did \cup {k}
    <3>1. snap \in Specs /\ node \in DOMAIN snap.nodes
      BY <1>5, ApplyFacts
    <3> QED BY <1>5, <1>e, <3>1, NeededFacts DEF applyObject, NextKind
  <2>2. pc = "loop" /\ node # Nil /\ UNCHANGED <<pc, m, snap, done, node>>
    BY <1>5, <1>e DEF applyObject
  <2>3. "StatefulSet" \in did' => "StatefulSet" \in did
    BY <2>1 DEF Workloads
  <2>4. ~applyWorkload
    BY <1>e, <2>1 DEF applyWorkload, NextKind
  <2> QED BY <1>c, <1>d, <2>2, <2>3, <2>4 DEF GateInv, Rolling
<1>6. CASE applyWorkload
  <2>1. UNCHANGED <<m, snap, done, node>> /\ pc = "loop"
    BY <1>6, <1>e DEF applyWorkload
  <2>2. pc' \in {"crash", "deployed"}
    BY <1>6, <1>e, <2>1 DEF applyWorkload, Rolling
  <2> QED BY <1>d, <2>1, <2>2 DEF Rolling
<1>7. CASE checkCrashStatus
  <2>1. UNCHANGED <<m, snap, done, node, did>> /\ pc # "idle"
    BY <1>7 DEF checkCrashStatus
  <2>2. pc' \in {"loop", "crashAgain"} => pc = "crashAgain"
    BY <1>7 DEF checkCrashStatus
  <2>3. ~applyWorkload
    BY <1>7 DEF checkCrashStatus, applyWorkload
  <2> QED BY <1>c, <1>d, <2>1, <2>2, <2>3 DEF GateInv, Rolling
<1>8. CASE checkRollout
  <2>1. UNCHANGED <<m, snap, done, node, did, rollout, store>> /\ pc = "deployed"
    BY <1>8, <1>e DEF checkRollout, ownVars
  <2>2. node \in DOMAIN snap.nodes /\ snap \in Specs
    BY <2>1 DEF PassInv, TypeOK
  <2>3. "StatefulSet" \in did => Through(node)'
    <3> SUFFICES ASSUME "StatefulSet" \in did PROVE Through(node)'
      OBVIOUS
    <3>1. "StatefulSet" \in Needed(snap, node)
      BY <2>1 DEF PassInv
    <3>2. snap.nodes[node].kind = "StatefulSet"
      <4>1. snap.nodes[node] \in NodeSpec
        BY <2>2, SpecFacts
      <4> QED BY <3>1, <4>1 DEF Needed, NodeSpec, Optional
    <3>3. /\ store[<<"StatefulSet", node>>] # Nil
          /\ isObjFullyDeployed(<<"StatefulSet", node>>)
      BY <1>8, <1>e, <2>1, <3>2 DEF checkRollout, Rolling
    <3>4. pc' \in {"loop", "crashAgain"}
      BY <1>8, <1>e DEF checkRollout
    <3>5. CASE Lagging(node)
      <4>1. PassesGate
        BY <2>1, <3>4 DEF PassesGate
      <4>2. Remember
        BY <2>1, <3>4 DEF rolloutVars, vars, passVars
      <4>3. node \in behind'
        BY <3>4, <3>5, <4>1, <4>2 DEF Remember
      <4> QED BY <2>1, <4>3 DEF Through
    <3>6. CASE ~Lagging(node)
      <4>1. RolledOut(<<"StatefulSet", node>>)
        BY <3>2, <3>3, <3>6 DEF Lagging, RolledOut, isObjFullyDeployed
      <4> QED BY <2>1, <3>3, <4>1 DEF Through, RolledOut
    <3> QED BY <3>5, <3>6
  <2> QED BY <1>d, <2>1, <2>3 DEF Rolling
<1>9. CASE finishNode
  <2>1. UNCHANGED <<m, snap>> /\ pc = "loop" /\ done' = done \cup {node} /\ node' = Nil
    BY <1>9 DEF finishNode
  <2>2. ASSUME snap.nodes[node].kind = "StatefulSet", NEW n, n = node
        PROVE  Through(n)'
    <3>1. "StatefulSet" \in did
      BY <1>9, <2>2 DEF finishNode, Needed
    <3>2. Through(n) /\ snap \in Specs /\ n \in DOMAIN snap.nodes
      BY <1>9, <2>1, <2>2, <3>1 DEF finishNode, GateInv, Rolling, PassInv, TypeOK
    <3>3. <<"StatefulSet", n>> \in names
      BY <1>9, <2>2, <3>1 DEF finishNode, PassInv
    <3>4. ~applyWorkload
      BY <2>1 DEF applyWorkload, EndPass
    <3> QED BY <1>k, <3>2, <3>3, <3>4
  <2> QED BY <1>d, <2>1, <2>2 DEF Rolling
<1>10. CASE finishLoop
  BY <1>10, <1>d DEF finishLoop, Rolling
<1>11. CASE finishSweep
  BY <1>11, <1>d DEF finishSweep, Rolling
<1>12. CASE deleteUnusedResources
  BY <1>12, <1>d DEF deleteUnusedResources, Rolling
<1>13. CASE druidClusterStatusPatcher
  BY <1>13, <1>e DEF druidClusterStatusPatcher
<1>14. CASE Fail
  BY <1>14, <1>e DEF Fail
<1>15. CASE UNCHANGED passVars
  <2>1. ~applyWorkload
    BY <1>15, <1>e DEF applyWorkload, NextKind, passVars
  <2> QED BY <1>15, <1>n, <2>1 DEF passVars
<1>16. CASE UserEdit
  BY <1>15, <1>16 DEF UserEdit
<1>17. CASE DeliverCR
  BY <1>15, <1>17 DEF DeliverCR
<1>18. CASE \E o \in Obj : SyncCache(o)
  BY <1>15, <1>18 DEF SyncCache
<1>19. CASE WorkloadController
  BY <1>15, <1>19 DEF WorkloadController, Observe, RolloutDone, CrashLoop, PodFails, WorkloadUnchanged
<1>20. CASE UNCHANGED vars
  BY <1>15, <1>20 DEF vars
<1> QED BY <1>1, <1>2, <1>3, <1>4, <1>5, <1>6, <1>7, <1>8, <1>9, <1>10, <1>11,
    <1>12, <1>13, <1>14, <1>16, <1>17, <1>18, <1>19, <1>20, <1>v DEF Next, Pass

\* Whatever the lag of statuses and caches and wherever passes fail, a rolling
\* deploy updates a workload only when the StatefulSets of all earlier types have
\* been rolled out, but for those it went past on a status that was not about
\* their last update.
THEOREM RollingDeploy ==
  RolloutSpec => RollingUnlessBehind
<1>1. RolloutInit => GateInv
  BY DEF RolloutInit, Init, GateInv
<1>2. RolloutSpec => Spec
  <2>1. RolloutInit => Init
    BY DEF RolloutInit
  <2>2. [Next /\ Remember]_rolloutVars => [Next]_vars
    BY DEF rolloutVars
  <2> QED BY <2>1, <2>2, PTL DEF RolloutSpec, Spec
<1>3. RolloutSpec => [](TypeOK /\ PassInv /\ GateInv)
  BY <1>1, <1>2, TypeCorrect, GateStep, PTL DEF RolloutSpec
<1>4. ASSUME TypeOK, PassInv, GateInv, [Next /\ Remember]_rolloutVars,
             NEW w \in Workloads \X Nodes, Updated(w), Rolling,
             NEW a \in DOMAIN snap.nodes, Rank(a) < Rank(w[2]),
             snap.nodes[a].kind = "StatefulSet"
      PROVE  RolledOut(<<"StatefulSet", a>>) \/ a \in behind
  <2>1. [Next]_vars
    BY <1>4 DEF rolloutVars
  <2>2. node # Nil /\ w[2] = node /\ pc = "loop"
    BY <1>4, <2>1, WorkloadWrite DEF Updated
  <2>3. a \in done
    BY <1>4, <2>2 DEF PassInv
  <2> QED BY <1>4, <2>2, <2>3 DEF GateInv, Through
<1>5. TypeOK /\ PassInv /\ GateInv /\ [Next /\ Remember]_rolloutVars =>
        [\A w \in Workloads \X Nodes : Updated(w) /\ Rolling =>
           \A a \in DOMAIN snap.nodes :
             Rank(a) < Rank(w[2]) /\ snap.nodes[a].kind = "StatefulSet" =>
               RolledOut(<<"StatefulSet", a>>) \/ a \in behind]_rolloutVars
  BY <1>4
<1> QED BY <1>3, <1>5, PTL DEF RolloutSpec, RollingUnlessBehind
===============================================================================
