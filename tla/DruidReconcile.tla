---------------------------- MODULE DruidReconcile ----------------------------
(***************************************************************************)
(* One reconcile pass of a Druid CR (controllers/druid/handler.go,         *)
(* deployDruidCluster), repeated for ever by the controller, beside a user *)
(* who edits the CR and the Kubernetes controllers that roll out the       *)
(* workloads.  The API server keeps the CR and the objects it owns; an     *)
(* object is abstracted to the value of its hash annotation.               *)
(*                                                                         *)
(* Every step of a pass is one API call of the code together with the      *)
(* control flow up to the next call.  A failed call, a panic and a restart *)
(* of the operator all end the pass where it stands (Fail): the next pass  *)
(* starts from the API server's state.  The branch for a CR that is being  *)
(* deleted is not in this module.                                          *)
(***************************************************************************)
EXTENDS Integers

CONSTANTS
  Nodes,         \* the keys a user may put in spec.nodes
  NodeType,      \* the nodeType of each key
  Content,       \* what a configuration may say
  Bad,           \* the contents with which pods never become ready
  Specs,         \* the specs the user may apply
  OrderedReady,  \* the nodes whose podManagementPolicy is OrderedReady
  StatusLag,     \* workload controllers observe a new spec some time later
  CacheLag,      \* the operator's reads come from a cache that may lag
  MaxGen,        \* bound on the CR's metadata.generation
  MaxFaults,     \* bound on failed calls, restarts and pod failures
  Common,        \* stands for a node key in the cluster-wide objects
  Nil            \* "no value"

druidServicesOrder ==
  <<"historical", "overlord", "middleManager", "indexer", "broker",
    "coordinator", "router">>

Workloads == {"StatefulSet", "Deployment"}

\* The kinds a node may ask for besides its ConfigMap and its workload.
Optional == {"Service", "Ingress", "PodDisruptionBudget",
             "HorizontalPodAutoscaler", "PersistentVolumeClaim"}

Kinds == {"ConfigMap"} \cup Workloads \cup Optional

\* deleteUnusedResources is called for every kind but the claims.
Swept == Kinds \ {"PersistentVolumeClaim"}

NodeSpec == [kind : Workloads, cfg : Content, opts : SUBSET Optional]

SpecType ==
  [valid : BOOLEAN, rollingDeploy : BOOLEAN, forceDelete : BOOLEAN,
   disableFinalizer : BOOLEAN, common : Content,
   nodes : UNION {[S -> NodeSpec] : S \in SUBSET Nodes}]

ASSUME ConstantsAssumption ==
  /\ Specs \subseteq SpecType
  /\ NodeType \in [Nodes -> {druidServicesOrder[i] : i \in 1..7}]
  /\ OrderedReady \subseteq Nodes
  /\ Bad \subseteq Content
  /\ StatusLag \in BOOLEAN
  /\ CacheLag \in BOOLEAN
  /\ MaxGen \in Nat \ {0}
  /\ MaxFaults \in Nat

ASSUME NilAssumption ==
  /\ Common \notin Nodes
  /\ Nil \notin Nodes \cup Content /\ Nil \notin Specs
  /\ Nil \notin (Content \cup {Nil}) \X (Content \cup {Nil})

Obj == Kinds \X (Nodes \cup {Common})

Hash == (Content \cup {Nil}) \X (Content \cup {Nil})

commonConfig == <<"ConfigMap", Common>>

\* What a workload's status says: the revision being rolled out, the revision
\* the rollout started from, whether all replicas are ready, and whether an
\* OrderedReady pod sits in a crash loop.
Rollout == [upd : Hash \cup {Nil}, cur : Hash \cup {Nil},
            ready : BOOLEAN, crash : BOOLEAN]

NoRollout == [upd |-> Nil, cur |-> Nil, ready |-> TRUE, crash |-> FALSE]

Status == [listed : SUBSET Obj, cond : {"none", "Ready", "Error"}]

CR == [spec : Specs, gen : 1..MaxGen, fin : BOOLEAN]

VARIABLES
  cr,       \* the Druid CR in the API server, without its status
  crSeen,   \* the CR as the operator's informer last saw it
  status,   \* the CR's status subresource
  store,    \* store[o]: the hash annotation of object o, Nil if o is absent
  cache,    \* the operator's view of store, used when CacheLag
  rollout,  \* rollout[o]: status of workload o
  pc,       \* where the pass is
  m,        \* the CR the pass works on
  snap,     \* the spec allNodeSpecs and commonConfigSHA were computed from
  done,     \* nodes the loop has finished with
  node,     \* the node the loop is at
  did,      \* kinds already handled for that node
  names,    \* the objects recorded in the ...Names maps
  swept,    \* kinds deleteUnusedResources has handled
  surv,     \* the survivors it returned
  faults    \* faults so far

crVars    == <<cr, crSeen, status>>
ownVars   == <<store, rollout>>
passVars  == <<pc, m, snap, done, node, did, names, swept, surv>>
vars      == <<crVars, ownVars, cache, passVars, faults>>

-----------------------------------------------------------------------------
(* The objects a spec asks for, and the order they are handled in.          *)

Rank(n) == CHOOSE i \in 1..7 : druidServicesOrder[i] = NodeType[n]

\* Mutant: the workload is written before its ConfigMap.
KindRankWorkloadFirst(k) ==
  CASE k \in Workloads   -> 1
    [] k = "ConfigMap"   -> 2
    [] k = "Service"     -> 3
    [] OTHER             -> 4

KindRank(k) ==
  CASE k = "ConfigMap"               -> 1
    [] k = "Service"                 -> 2
    [] k \in Workloads               -> 3
    [] k = "Ingress"                 -> 4
    [] k = "PodDisruptionBudget"     -> 5
    [] k = "HorizontalPodAutoscaler" -> 6
    [] OTHER                         -> 7

SweepRank(k) ==
  CASE k = "StatefulSet"             -> 1
    [] k = "Deployment"              -> 2
    [] k = "HorizontalPodAutoscaler" -> 3
    [] k = "Ingress"                 -> 4
    [] k = "PodDisruptionBudget"     -> 5
    [] k = "Service"                 -> 6
    [] OTHER                         -> 7

\* Mutant: only StatefulSets are handled.
NeededStatefulSet(spec, n) ==
  ({"ConfigMap", spec.nodes[n].kind} \cup spec.nodes[n].opts) \ {"Deployment"}

Needed(spec, n) ==
  {"ConfigMap", spec.nodes[n].kind} \cup spec.nodes[n].opts

Wanted(spec) ==
  {commonConfig} \cup
  {o \in Kinds \X Nodes : /\ o[2] \in DOMAIN spec.nodes
                          /\ o[1] \in Needed(spec, o[2])}

\* The pod template carries commonConfigSHA and nodeConfigSHA, so the hash of
\* a workload changes with either configuration.
hash(spec, o) ==
  <<IF o = commonConfig \/ o[1] \in Workloads THEN spec.common ELSE Nil,
    IF o # commonConfig /\ o[1] \in Workloads \cup {"ConfigMap"}
      THEN spec.nodes[o[2]].cfg ELSE Nil>>

\* Mutant: the map order is used as it is.
getNodeSpecsUnordered(left) == left

\* Go iterates over spec.nodes in a random order; the groups of one type are
\* then laid out in druidServicesOrder.
getNodeSpecsByOrder(left) ==
  {n \in left : \A x \in left : ~(Rank(x) < Rank(n))}

NextKind(left) == {k \in left : \A j \in left : KindRank(k) <= KindRank(j)}

NextSweep(left) == {k \in left : \A j \in left : SweepRank(k) <= SweepRank(j)}

-----------------------------------------------------------------------------
TypeOK ==
  /\ cr \in CR
  /\ crSeen \in CR
  /\ status \in Status
  /\ store \in [Obj -> Hash \cup {Nil}]
  /\ cache \in [Obj -> Hash \cup {Nil}]
  /\ rollout \in [Workloads \X Nodes -> Rollout]
  /\ pc \in {"idle", "common", "finalizers", "loop", "crash", "deployed",
             "crashAgain", "sweep", "status"}
  /\ m \in CR \cup {Nil}
  /\ snap \in Specs \cup {Nil}
  /\ pc # "idle" => m \in CR /\ snap \in Specs
  /\ done \subseteq Nodes
  /\ node \in Nodes \cup {Nil}
  /\ did \subseteq Kinds
  /\ names \subseteq Obj
  /\ swept \subseteq Swept
  /\ surv \subseteq Obj
  /\ faults \in 0..MaxFaults

Init ==
  /\ \E s \in Specs : cr = [spec |-> s, gen |-> 1, fin |-> FALSE]
  /\ crSeen = cr
  /\ status = [listed |-> {}, cond |-> "none"]
  /\ store = [o \in Obj |-> Nil]
  /\ cache = store
  /\ rollout = [w \in Workloads \X Nodes |-> NoRollout]
  /\ pc = "idle" /\ m = Nil /\ snap = Nil
  /\ done = {} /\ node = Nil /\ did = {} /\ names = {}
  /\ swept = {} /\ surv = {}
  /\ faults = 0

-----------------------------------------------------------------------------
(* The pass.                                                                *)

EndPass ==
  /\ pc' = "idle" /\ m' = Nil /\ snap' = Nil
  /\ done' = {} /\ node' = Nil /\ did' = {} /\ names' = {}
  /\ swept' = {} /\ surv' = {}

\* What verifyDruidSpec says of images, keys, containers and claim templates.
verifyDruidSpec(spec) == spec.valid

\* Reconcile reads the CR; an invalid spec ends deployDruidCluster at once.
Reconcile ==
  /\ pc = "idle"
  /\ IF verifyDruidSpec(crSeen.spec)
     THEN pc' = "common" /\ m' = crSeen /\ snap' = crSeen.spec
     ELSE UNCHANGED <<pc, m, snap>>
  /\ UNCHANGED <<crVars, ownVars, cache, done, node, did, names, swept, surv,
                 faults>>

Prev(o) == IF CacheLag THEN cache[o] ELSE store[o]

\* Mutant: an object that exists is never updated.
ResultCreateOnly(o, h) ==
  IF Prev(o) = Nil THEN "created" ELSE "none"

\* sdkCreateOrUpdateAsNeeded: what the call returns.  A create of an object
\* that exists, and an update with a resourceVersion that is not the current
\* one, are refused.  (A hash stands for the resourceVersion: an object that has
\* changed and changed back counts as unchanged.)
Result(o, h) ==
  IF Prev(o) = h THEN "none"
  ELSE IF Prev(o) # store[o] THEN "error"
  ELSE IF Prev(o) = Nil THEN "created" ELSE "updated"

\* A workload controller that does not lag starts the rollout of hash h.
Observed(r, h) ==
  {[upd |-> h, cur |-> IF r.cur = Nil THEN h ELSE r.cur,
    ready |-> b, crash |-> r.crash] : b \in BOOLEAN}

sdkCreateOrUpdateAsNeeded(o, h) ==
  IF Result(o, h) \in {"created", "updated"}
  THEN /\ store' = [store EXCEPT ![o] = h]
       /\ IF o[1] \in Workloads /\ ~StatusLag
          THEN \E r \in Observed(rollout[o], h) :
                  rollout' = [rollout EXCEPT ![o] = r]
          ELSE UNCHANGED rollout
  ELSE UNCHANGED ownVars

applyCommonConfig ==
  /\ pc = "common"
  /\ LET h == hash(snap, commonConfig) IN
     /\ sdkCreateOrUpdateAsNeeded(commonConfig, h)
     /\ IF Result(commonConfig, h) = "error"
        THEN EndPass
        ELSE /\ pc' = "finalizers"
             /\ names' = names \cup {commonConfig}
             /\ UNCHANGED <<m, snap, done, node, did, swept, surv>>
  /\ UNCHANGED <<crVars, cache, faults>>

\* Mutant: the flag is read the other way round.
finalizerWantedInverted(spec) == spec.disableFinalizer

finalizerWanted(spec) == ~spec.disableFinalizer

\* The patch returns the CR as it is in the API server now, and m becomes it;
\* allNodeSpecs and commonConfigSHA stay what they were.
updateFinalizers ==
  /\ pc = "finalizers"
  /\ pc' = "loop"
  /\ IF m.fin = finalizerWanted(m.spec)
     THEN UNCHANGED <<cr, m>>
     ELSE /\ cr' = [cr EXCEPT !.fin = finalizerWanted(m.spec)]
          /\ m' = cr'
  /\ UNCHANGED <<crSeen, status, ownVars, cache, snap, done, node, did, names,
                 swept, surv, faults>>

startNode ==
  /\ pc = "loop" /\ node = Nil
  /\ \E n \in getNodeSpecsByOrder(DOMAIN snap.nodes \ done) : node' = n
  /\ UNCHANGED <<crVars, ownVars, cache, pc, m, snap, done, did, names, swept,
                 surv, faults>>

\* ConfigMap, Service, Ingress, PodDisruptionBudget, autoscaler and claim.
applyObject ==
  /\ pc = "loop" /\ node # Nil
  /\ \E k \in NextKind(Needed(snap, node) \ did) \ Workloads :
       LET o == <<k, node>>
           h == hash(snap, o) IN
       /\ sdkCreateOrUpdateAsNeeded(o, h)
       /\ IF Result(o, h) = "error"
          THEN EndPass
          ELSE /\ did' = did \cup {k}
               /\ names' = names \cup {o}
               /\ UNCHANGED <<pc, m, snap, done, node, swept, surv>>
  /\ UNCHANGED <<crVars, cache, faults>>

\* Mutant: the flag is read the other way round.
ChecksCrashInverted == ~m.spec.forceDelete /\ node \in OrderedReady

ChecksCrash == m.spec.forceDelete /\ node \in OrderedReady

\* The StatefulSet or Deployment of the node.  A rolling deploy stops after an
\* update, to give the workload controller time.
applyWorkload ==
  /\ pc = "loop" /\ node # Nil
  /\ \E k \in NextKind(Needed(snap, node) \ did) \cap Workloads :
       LET o == <<k, node>>
           h == hash(snap, o)
           r == Result(o, h) IN
       /\ sdkCreateOrUpdateAsNeeded(o, h)
       /\ IF r = "error" \/ (m.spec.rollingDeploy /\ r = "updated")
          THEN EndPass
          ELSE /\ did' = did \cup {k}
               /\ names' = names \cup {o}
               /\ pc' = IF m.spec.rollingDeploy
                        THEN IF k = "StatefulSet" /\ ChecksCrash
                             THEN "crash" ELSE "deployed"
                        ELSE IF k = "StatefulSet" /\ ChecksCrash
                             THEN "crashAgain" ELSE "loop"
               /\ UNCHANGED <<m, snap, done, node, swept, surv>>
  /\ UNCHANGED <<crVars, cache, faults>>

\* checkCrashStatus deletes the pods of the StatefulSet that keep crashing.
\* Its error is dropped: a failed delete leaves the pod and the pass goes on.
checkCrashStatus ==
  /\ pc \in {"crash", "crashAgain"}
  /\ pc' = IF pc = "crash" THEN "deployed" ELSE "loop"
  /\ \/ /\ rollout' = [rollout EXCEPT ![<<"StatefulSet", node>>].crash = FALSE]
        /\ UNCHANGED faults
     \/ /\ faults < MaxFaults
        /\ faults' = faults + 1
        /\ UNCHANGED rollout
  /\ UNCHANGED <<crVars, store, cache, m, snap, done, node, did, names,
                 swept, surv>>

\* Mutant: the revisions are not compared.
isObjReady(o) == rollout[o].ready

\* For a StatefulSet the revisions and the replica counts of the status are
\* compared; for a Deployment, once it has a condition, only the counts.  The
\* generation the status was computed for is not looked at.
isObjFullyDeployed(o) ==
  LET r == rollout[o] IN
  IF o[1] = "StatefulSet" THEN r.cur = r.upd /\ r.ready
                          ELSE r.upd # Nil /\ r.ready

\* After cluster creation a rolling deploy stops at a workload that is not
\* fully deployed.
checkRollout ==
  /\ pc = "deployed"
  /\ LET o == <<snap.nodes[node].kind, node>> IN
     IF m.gen > 1 /\ ~(store[o] # Nil /\ isObjFullyDeployed(o))
     THEN EndPass
     ELSE /\ pc' = IF o[1] = "StatefulSet" /\ ChecksCrash
                   THEN "crashAgain" ELSE "loop"
          /\ UNCHANGED <<m, snap, done, node, did, names, swept, surv>>
  /\ UNCHANGED <<crVars, ownVars, cache, faults>>

finishNode ==
  /\ pc = "loop" /\ node # Nil
  /\ Needed(snap, node) \subseteq did
  /\ done' = done \cup {node} /\ node' = Nil /\ did' = {}
  /\ UNCHANGED <<crVars, ownVars, cache, pc, m, snap, names, swept, surv,
                 faults>>

\* Mutant: the loop may be left before its end.
finishLoopEarly ==
  /\ pc = "loop" /\ node = Nil
  /\ pc' = "sweep"
  /\ UNCHANGED <<crVars, ownVars, cache, m, snap, done, node, did, names,
                 swept, surv, faults>>

finishLoop ==
  /\ pc = "loop" /\ node = Nil
  /\ done = DOMAIN snap.nodes
  /\ pc' = "sweep"
  /\ UNCHANGED <<crVars, ownVars, cache, m, snap, done, node, did, names,
                 swept, surv, faults>>

\* Mutant: Deployments are listed with the type of another kind.
ListedNoDeployments(k) ==
  {o \in Obj : o[1] = k /\ k # "Deployment" /\ Prev(o) # Nil}

Listed(k) == {o \in Obj : o[1] = k /\ Prev(o) # Nil}

Unswept == {k \in Swept \ swept : Listed(k) # {}}

\* Deletes what the pass has not named.  An object whose delete fails is a
\* survivor; a failed list leaves no survivors at all; neither stops the pass.
deleteUnusedResources ==
  /\ pc = "sweep"
  /\ \E k \in NextSweep(Unswept) :
       LET unused == Listed(k) \ names
           gone   == {o \in unused : store[o] = Nil} IN
       /\ \/ \E kept \in SUBSET (unused \ gone) :
               /\ kept # {} => faults < MaxFaults
               /\ faults' = IF kept = {} THEN faults ELSE faults + 1
               /\ store' = [o \in Obj |-> IF o \in unused \ kept
                                          THEN Nil ELSE store[o]]
               /\ rollout' = [w \in Workloads \X Nodes |->
                                IF w \in unused \ kept
                                THEN NoRollout ELSE rollout[w]]
               /\ surv' = surv \cup (Listed(k) \cap names) \cup kept \cup gone
          \/ /\ faults < MaxFaults
             /\ faults' = faults + 1
             /\ UNCHANGED <<ownVars, surv>>
       /\ swept' = swept \cup {k}
  /\ UNCHANGED <<crVars, cache, pc, m, snap, done, node, did, names>>

\* The kinds that are left have nothing to list.
finishSweep ==
  /\ pc = "sweep"
  /\ Unswept = {}
  /\ pc' = "status"
  /\ UNCHANGED <<crVars, ownVars, cache, m, snap, done, node, did, names,
                 swept, surv, faults>>

Live == {w \in Workloads \X Nodes : store[w] # Nil}

\* Mutant: the patch leaves out the condition.
MergePatchLists(old, new) == [listed |-> new.listed]

\* The lists of DruidClusterStatus are marked omitempty, so a merge patch
\* leaves the old list of a kind that has no survivors.
MergePatch(old, new) ==
  [listed |-> new.listed \cup
              {o \in old.listed : ~ \E p \in new.listed : p[1] = o[1]},
   cond   |-> new.cond]

\* A failed pod list counts as no pods; a failed patch is ignored.  The code
\* leaves out a patch that repeats the status.
druidClusterStatusPatcher ==
  /\ pc = "status"
  /\ LET allReady == \A w \in Live : rollout[w].ready
         updated  == [listed |-> surv,
                      cond   |-> IF allReady THEN "Ready" ELSE "Error"]
     IN \/ /\ status' = MergePatch(status, updated)
           /\ UNCHANGED faults
        \/ /\ faults < MaxFaults
           /\ faults' = faults + 1
           /\ \/ UNCHANGED status
              \/ status' = MergePatch(status, [updated EXCEPT !.cond = "Ready"])
  /\ EndPass
  /\ UNCHANGED <<cr, crSeen, ownVars, cache>>

Pass ==
  \/ Reconcile \/ applyCommonConfig \/ updateFinalizers \/ startNode
  \/ applyObject \/ applyWorkload \/ checkCrashStatus \/ checkRollout
  \/ finishNode \/ finishLoop \/ deleteUnusedResources \/ finishSweep
  \/ druidClusterStatusPatcher

\* A call fails, or the operator restarts.
Fail ==
  /\ pc # "idle"
  /\ faults < MaxFaults
  /\ faults' = faults + 1
  /\ EndPass
  /\ UNCHANGED <<crVars, ownVars, cache>>

-----------------------------------------------------------------------------
(* The environment.                                                         *)

UserEdit ==
  /\ cr.gen < MaxGen
  /\ \E s \in Specs \ {cr.spec} :
       cr' = [cr EXCEPT !.spec = s, !.gen = @ + 1]
  /\ UNCHANGED <<crSeen, status, ownVars, cache, passVars, faults>>

DeliverCR ==
  /\ crSeen # cr
  /\ crSeen' = cr
  /\ UNCHANGED <<cr, status, ownVars, cache, passVars, faults>>

SyncCache(o) ==
  /\ CacheLag
  /\ cache[o] # store[o]
  /\ cache' = [cache EXCEPT ![o] = store[o]]
  /\ UNCHANGED <<crVars, ownVars, passVars, faults>>

IsBad(h) == h # Nil /\ (h[1] \in Bad \/ h[2] \in Bad)

WorkloadUnchanged == UNCHANGED <<crVars, store, cache, passVars>>

\* The workload controller takes notice of a new spec.
Observe(w) ==
  /\ store[w] # Nil
  /\ rollout[w].upd # store[w]
  /\ \E r \in Observed(rollout[w], store[w]) :
       rollout' = [rollout EXCEPT ![w] = r]
  /\ WorkloadUnchanged /\ UNCHANGED faults

\* All pods run the new revision and are ready.
RolloutDone(w) ==
  /\ store[w] # Nil
  /\ rollout[w].upd = store[w]
  /\ ~(rollout[w].cur = store[w] /\ rollout[w].ready)
  /\ ~IsBad(store[w]) /\ ~rollout[w].crash
  /\ rollout' = [rollout EXCEPT ![w] =
                   [upd |-> store[w], cur |-> store[w],
                    ready |-> TRUE, crash |-> FALSE]]
  /\ WorkloadUnchanged /\ UNCHANGED faults

\* Pods started with a bad configuration crash.  The StatefulSet controller
\* does not replace an OrderedReady pod that crashes.
CrashLoop(w) ==
  /\ store[w] # Nil
  /\ IsBad(rollout[w].upd)
  /\ LET stuck == w[1] = "StatefulSet" /\ w[2] \in OrderedReady IN
     /\ rollout[w].ready \/ (stuck /\ ~rollout[w].crash)
     /\ rollout' = [rollout EXCEPT ![w] = [@ EXCEPT !.ready = FALSE, !.crash = stuck]]
  /\ WorkloadUnchanged /\ UNCHANGED faults

PodFails(w) ==
  /\ store[w] # Nil
  /\ rollout[w].ready
  /\ faults < MaxFaults
  /\ faults' = faults + 1
  /\ rollout' = [rollout EXCEPT ![w].ready = FALSE]
  /\ WorkloadUnchanged

WorkloadController ==
  \E w \in Workloads \X Nodes :
    Observe(w) \/ RolloutDone(w) \/ CrashLoop(w) \/ PodFails(w)

Next ==
  \/ Pass \/ Fail
  \/ UserEdit \/ DeliverCR \/ (\E o \in Obj : SyncCache(o))
  \/ WorkloadController

Spec == Init /\ [][Next]_vars

\* The controller requeues every pass that ends, informers deliver what they
\* watch, and a workload controller keeps reconciling its workload.
Fairness ==
  /\ WF_vars(Pass)
  /\ WF_vars(DeliverCR)
  /\ WF_vars(\E o \in Obj : SyncCache(o))
  /\ \A w \in Workloads \X Nodes : /\ WF_vars(Observe(w))
                                   /\ WF_vars(RolloutDone(w))
                                   /\ WF_vars(CrashLoop(w))

FairSpec == Spec /\ Fairness
-----------------------------------------------------------------------------
(* Properties.                                                              *)

Written(o) == store'[o] # store[o] /\ store'[o] # Nil

Updated(w) == Written(w) /\ store[w] # Nil

\* Every pod runs the revision the operator last asked for.
RolledOut(w) == rollout[w].upd = store[w] /\ rollout[w].cur = store[w]

Rolling == m.spec.rollingDeploy /\ m.gen > 1

\* deleteUnusedResources never deletes an object that the spec it works for
\* asks for: no early return of the node loop reaches it with incomplete
\* ...Names maps.
SweepKeepsWanted ==
  [][\A o \in Obj : store[o] # Nil /\ store'[o] = Nil => o \notin Wanted(snap)]_vars

\* When a workload is created or updated, the ConfigMaps its pods mount already
\* have the contents its hash was computed from, and its Service exists
\* ("create configmap first", "create services before creating statefulset").
ConfigBeforeWorkload ==
  [][\A w \in Workloads \X Nodes : Written(w) =>
        /\ store[commonConfig] = <<store'[w][1], Nil>>
        /\ store[<<"ConfigMap", w[2]>>] = <<Nil, store'[w][2]>>
        /\ "Service" \in snap.nodes[w[2]].opts =>
             store[<<"Service", w[2]>>] # Nil]_vars

\* A workload is written only when everything that nodes of earlier types ask
\* for is in place: the update goes through the types in druidServicesOrder.
WrittenInOrder ==
  [][\A w \in Workloads \X Nodes : Written(w) =>
        \A a \in DOMAIN snap.nodes : Rank(a) < Rank(w[2]) =>
          \A k \in Needed(snap, a) : store[<<k, a>>] = hash(snap, <<k, a>>)]_vars

\* A rolling deploy updates a workload only when the StatefulSets of all
\* earlier types have been rolled out (the !done returns of the node loop).
RollingByType ==
  [][\A w \in Workloads \X Nodes : Updated(w) /\ Rolling =>
        \A a \in DOMAIN snap.nodes :
          Rank(a) < Rank(w[2]) /\ snap.nodes[a].kind = "StatefulSet" =>
            RolledOut(<<"StatefulSet", a>>)]_vars

\* A node that changes its kind keeps its old workload until the new one
\* exists.
ReplaceBeforeRemove ==
  [][\A w \in Workloads \X Nodes :
        store[w] # Nil /\ store'[w] = Nil /\ w[2] \in DOMAIN snap.nodes =>
          store[<<snap.nodes[w[2]].kind, w[2]>>] # Nil]_vars

\* While no spec disables it, the finalizer that deletes the claims is on the CR
\* before any StatefulSet, whose controller creates claims, exists.
FinalizerBeforeStatefulSet ==
  (\E n \in Nodes : store[<<"StatefulSet", n>>] # Nil) => cr.fin

\* The live objects are what the CR asks for (claims are never deleted).
InSync ==
  \A o \in Obj :
    IF o \in Wanted(cr.spec) THEN store[o] = hash(cr.spec, o)
    ELSE o[1] \in Swept => store[o] = Nil

\* The pods of every workload the CR asks for run what it asks for.
InService ==
  \A w \in Wanted(cr.spec) :
    w[1] \in Workloads => RolledOut(w) /\ rollout[w].ready

Settled(spec) ==
  /\ spec.valid
  /\ spec.forceDelete
  /\ spec.common \notin Bad
  /\ \A n \in DOMAIN spec.nodes : spec.nodes[n].cfg \notin Bad

\* Once the user stops at a valid spec whose configuration works, and which lets
\* the operator delete crashing pods, the objects become what the CR asks for and
\* their pods run it, whatever faults, half-finished passes and crash-looping
\* OrderedReady pods came before.
Converges == <>[]Settled(cr.spec) => <>[](InSync /\ InService)

\* A node whose pods can never become ready is eventually reported in the CR's
\* status ("in case any druid node goes into a bad state, it shall be handled
\* in above rollingDeploy block").
BadStateReported ==
  <>[](\E w \in Live : IsBad(store[w])) => <>[](status.cond # "Ready")
-----------------------------------------------------------------------------
(* The abstract specification: OrderedUpdate, with the spec a pass works    *)
(* for as its goal.                                                         *)

\* The common ConfigMap comes first, then type by type; the ConfigMap and the
\* Service of a node come before its workload.
Precedes(p, o) ==
  /\ o # commonConfig
  /\ \/ p = commonConfig
     \/ /\ p \in Kinds \X Nodes /\ o \in Kinds \X Nodes
        /\ \/ Rank(p[2]) < Rank(o[2])
           \/ /\ p[2] = o[2] /\ o[1] \in Workloads
              /\ p[1] \in {"ConfigMap", "Service"}

Abstract == INSTANCE OrderedUpdate WITH
  Things <- Obj,
  Want   <- [s \in Specs |-> [o \in Wanted(s) |-> hash(s, o)]],
  Before <- {po \in Obj \X Obj : Precedes(po[1], po[2])},
  Absent <- Nil,
  goal   <- IF pc = "idle" THEN Nil ELSE snap,
  have   <- store

\* When reads are not stale, passes are attempts of OrderedUpdate: every write is
\* made for one spec and after the writes it depends on, and nothing is deleted
\* before everything that spec asks for is in place.
ImplementsOrderedUpdate == Abstract!Spec
-----------------------------------------------------------------------------
(* The strengthenings that make the properties inductive.                   *)

\* The local variables of the pass: they are reset when it ends, and a name is
\* recorded for everything handled so far, type by type.
PassInv ==
  /\ pc \in {"idle", "common", "finalizers"} => done = {} /\ node = Nil
  /\ pc \in {"idle", "common"} => names = {}
  /\ pc \in {"crash", "deployed", "crashAgain"} => node # Nil
  /\ pc \in {"sweep", "status"} => node = Nil /\ done = DOMAIN snap.nodes
  /\ pc \notin {"idle", "common"} => commonConfig \in names
  /\ pc # "idle" => done \subseteq DOMAIN snap.nodes
  /\ \A n \in done : \A k \in Needed(snap, n) : <<k, n>> \in names
  /\ node = Nil => did = {}
  /\ node # Nil =>
       /\ pc # "idle"
       /\ node \in DOMAIN snap.nodes \ done
       /\ \A a \in DOMAIN snap.nodes : Rank(a) < Rank(node) => a \in done
       /\ \A k \in did : k \in Needed(snap, node) /\ <<k, node>> \in names

\* Whatever the pass has handled is in the API server as the spec asks for it.
AppliedInv ==
  /\ pc \notin {"idle", "common"} =>
       store[commonConfig] = hash(snap, commonConfig)
  /\ \A n \in done : \A k \in Needed(snap, n) :
       store[<<k, n>>] = hash(snap, <<k, n>>)
  /\ node # Nil => \A k \in did : store[<<k, node>>] = hash(snap, <<k, node>>)

\* The finalizer is on the CR once the node loop has started.
FinalizerInv ==
  /\ crSeen.fin => cr.fin
  /\ pc # "idle" /\ m.fin => cr.fin
  /\ pc \notin {"idle", "common", "finalizers"} => cr.fin
  /\ FinalizerBeforeStatefulSet
===============================================================================
