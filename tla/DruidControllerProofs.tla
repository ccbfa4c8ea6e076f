------------------------- MODULE DruidControllerProofs -------------------------
(***************************************************************************)
(* Proofs about DruidController: its types; that a StatefulSet is deleted  *)
(* only to grow; and that the comparison of dynamic configurations is      *)
(* right on every pair that a pass compares.                               *)
(***************************************************************************)
EXTENDS DruidController, JsonIncludesProofs

USE DEF expansion, storage, VE!expansion

CInv == TypeOK /\ PassInv

\* What a CR says.
LEMMA CRParts ==
  ASSUME NEW x \in Druid
  PROVE  /\ x # Nil /\ x.gen \in 1..MaxGen /\ x.sizes \in SizesOfAll
         /\ Len(x.sizes) = Templates
         /\ x.dynamic \in [DC!Types -> Objects \cup {Nil}]
<1>1. /\ x.gen \in 1..MaxGen /\ x.sizes \in SizesOfAll
      /\ \E s \in Specs : x.dynamic = s.dynamic
  BY DEF Druid
<1>2. Len(x.sizes) = Templates
  BY <1>1, ControllerAssumption DEF SizesOfAll
<1>3. x.dynamic \in [DC!Types -> Objects \cup {Nil}]
  BY <1>1, ControllerAssumption
<1> QED BY <1>1, <1>2, <1>3, ControllerAssumption

LEMMA CRWithType ==
  ASSUME NEW s \in Specs, NEW g \in 1..MaxGen
  PROVE  CRWith(g, s) \in Druid
BY ControllerAssumption DEF CRWith, Druid

\* The node types, by position.
LEMMA NodeTypes ==
  /\ Len(DC!nodeTypes) = 2 /\ DOMAIN DC!nodeTypes = 1..2
  /\ \A n \in 1..2 : DC!nodeTypes[n] \in DC!Types
BY DEF DC!nodeTypes, DC!Types

LEMMA InitInv == Init => CInv
<1> SUFFICES ASSUME Init PROVE CInv
  OBVIOUS
<1>1. cr \in Druid
  <2>1. 1 \in 1..MaxGen
    BY ControllerAssumption
  <2> QED BY <2>1, CRWithType DEF Init
<1>2. claims \in [Claims -> Sizes \cup {Nil}]
  BY DEF Init
<1>3. server \in [DC!Types -> Objects] /\ \A t \in DC!Types : DOMAIN server[t] \subseteq Known[t]
  <2>1. \A t \in DC!Types : server[t] = <<>>
    BY DEF Init
  <2>2. DOMAIN <<>> = {}
    OBVIOUS
  <2> QED BY <2>1, <2>2, ControllerAssumption DEF Init
<1>4. i \in 0..Templates /\ ~(i > 0) /\ faults \in 0..MaxFaults
  BY ControllerAssumption DEF Init
<1> QED BY <1>1, <1>2, <1>3, <1>4 DEF Init, CInv, TypeOK, PassInv

\* The local variables of scalePVCForSts when no call is under way.
LEMMA Forgotten ==
  ASSUME VE!Forget
  PROVE  /\ i' \in 0..Templates /\ ~(i' > 0)
         /\ cur' \in SizesOfAll \cup {<<>>} /\ pvcSize' = Nil /\ todo' \subseteq Claims
BY ControllerAssumption DEF VE!Forget

\* A pass ends, with the end of the calls or with an error.
LEMMA EndStep ==
  ASSUME CInv, VE!Error, at' = Nil, UNCHANGED <<cr, allow, ready, claims, server>>,
         sts' = sts, faults' \in 0..MaxFaults
  PROVE  CInv'
BY Forgotten DEF CInv, TypeOK, PassInv, VE!Error

\* scalePVCForSts returns without an error.
LEMMA ProceedStep ==
  ASSUME CInv, pc \notin {"idle", "dynamic"}, VE!Proceed,
         UNCHANGED <<cr, allow, sts, ready, claims, m, server, at>>,
         faults' \in 0..MaxFaults
  PROVE  CInv'
BY Forgotten DEF CInv, TypeOK, PassInv, VE!Proceed

LEMMA ExpansionStart ==
  ASSUME CInv, UNCHANGED <<server, at, faults>>,
         \/ VE!expandStatefulSetVolumes \/ VE!checkReady
         \/ VE!getStatefulSet \/ VE!listClaims
  PROVE  CInv'
<1>0. faults' \in 0..MaxFaults
  BY DEF CInv, TypeOK
<1>1. CASE VE!expandStatefulSetVolumes
  <2>1. CASE VE!Proceed
    BY <1>0, <1>1, <2>1, ProceedStep DEF VE!expandStatefulSetVolumes
  <2>2. CASE pc' = "check" /\ UNCHANGED expansion
    BY <1>1, <2>2 DEF VE!expandStatefulSetVolumes, CInv, TypeOK, PassInv
  <2> QED BY <1>1, <2>1, <2>2 DEF VE!expandStatefulSetVolumes
<1>2. CASE VE!checkReady
  <2>1. CASE VE!Proceed
    BY <1>0, <1>2, <2>1, ProceedStep DEF VE!checkReady
  <2>2. CASE pc' = "getSts" /\ UNCHANGED expansion
    BY <1>2, <2>2 DEF VE!checkReady, CInv, TypeOK, PassInv
  <2> QED BY <1>2, <2>1, <2>2 DEF VE!checkReady
<1>3. CASE VE!getStatefulSet
  <2>1. CASE sts = Nil
    BY <1>0, <1>3, <2>1, ProceedStep DEF VE!getStatefulSet, VE!stsMissing
  <2>2. CASE sts # Nil
    <3>1. sts.sizes \in SizesOfAll
      BY <2>2 DEF CInv, TypeOK
    <3> QED BY <1>3, <2>2, <3>1 DEF VE!getStatefulSet, CInv, TypeOK, PassInv
  <2> QED BY <2>1, <2>2
<1>4. CASE VE!listClaims
  <2>1. CASE VE!Proceed
    BY <1>0, <1>4, <2>1, ProceedStep DEF VE!listClaims
  <2>2. CASE pc' = "template" /\ i' = 1 /\ pvcSize' = claims /\ UNCHANGED <<cur, todo>>
    <3>1. i' \in 0..Templates /\ i' > 0
      BY <2>2, ControllerAssumption
    <3> QED BY <1>4, <2>2, <3>1 DEF VE!listClaims, CInv, TypeOK, PassInv
  <2> QED BY <1>4, <2>1, <2>2 DEF VE!listClaims
<1> QED BY <1>1, <1>2, <1>3, <1>4

LEMMA ExpansionLoop ==
  ASSUME CInv, UNCHANGED <<server, at, faults>>,
         \/ VE!compareTemplate \/ VE!nextTemplate
         \/ \E c \in DOMAIN claims : VE!patchClaim(c)
  PROVE  CInv'
<1>0. faults' \in 0..MaxFaults
  BY DEF CInv, TypeOK
<1>1. /\ pc \in {"template", "patch"} /\ pc # "dynamic" /\ pc # "idle"
      /\ UNCHANGED <<cr, allow, ready>>
  BY DEF VE!compareTemplate, VE!nextTemplate, VE!patchClaim
<1>2. /\ m \in Druid /\ cur \in SizesOfAll /\ (sts # Nil => sts.sizes = cur)
      /\ pvcSize \in [Claims -> Sizes \cup {Nil}] /\ at = Nil
      /\ i \in 1..Templates
  <2>1. i \in 0..Templates /\ i > 0
    BY <1>1 DEF CInv, TypeOK
  <2> QED BY <1>1, <2>1 DEF CInv, TypeOK, PassInv
<1>3. m.sizes \in SizesOfAll /\ Len(m.sizes) = Templates /\ m.sizes[i] \in Sizes
  BY <1>2, CRParts DEF SizesOfAll
<1>4. CASE VE!compareTemplate
  <2>1. CASE VE!Error /\ UNCHANGED sts
    BY <1>0, <1>1, <1>2, <1>4, <2>1, EndStep DEF VE!compareTemplate
  <2>2. CASE /\ \/ UNCHANGED sts
                \/ sts # Nil /\ sts' = [sts EXCEPT !.term = TRUE]
             /\ pc' = "patch" /\ todo' = VE!ToPatch
             /\ UNCHANGED <<i, m, cur, pvcSize>>
    <3>1. todo' \subseteq Claims
      BY <1>2, <2>2 DEF VE!ToPatch, VE!Existing
    <3>2. /\ sts' = Nil \/ sts' \in [sizes : SizesOfAll, term : BOOLEAN]
          /\ sts' # Nil => sts'.sizes = cur
      BY <1>2, <2>2 DEF CInv, TypeOK
    <3>3. UNCHANGED claims
      BY <1>4 DEF VE!compareTemplate
    <3> QED BY <1>1, <1>2, <2>2, <3>1, <3>2, <3>3 DEF CInv, TypeOK, PassInv
  <2> QED BY <1>4, <2>1, <2>2 DEF VE!compareTemplate
<1>5. CASE VE!nextTemplate
  <2>1. CASE VE!Proceed
    BY <1>0, <1>1, <1>5, <2>1, ProceedStep DEF VE!nextTemplate
  <2>2. CASE VE!MoreTemplates /\ pc' = "template" /\ i' = i + 1
             /\ UNCHANGED <<cur, pvcSize, todo>>
    <3>1. i' \in 0..Templates /\ i' > 0
      BY <1>2, <1>3, <2>2, ControllerAssumption DEF VE!MoreTemplates
    <3> QED BY <1>1, <1>2, <1>5, <2>2, <3>1 DEF VE!nextTemplate, CInv, TypeOK, PassInv
  <2> QED BY <1>5, <2>1, <2>2 DEF VE!nextTemplate
<1>6. CASE \E c \in DOMAIN claims : VE!patchClaim(c)
  <2>1. PICK c \in DOMAIN claims : VE!patchClaim(c)
    BY <1>6
  <2>2. CASE VE!Error /\ UNCHANGED claims
    BY <1>0, <1>1, <1>2, <2>1, <2>2, EndStep DEF VE!patchClaim
  <2>3. CASE /\ claims' = [claims EXCEPT ![c] = m.sizes[i]]
             /\ todo' = todo \ {c} /\ UNCHANGED <<pc, m, i, cur, pvcSize>>
    <3>1. claims' \in [Claims -> Sizes \cup {Nil}] /\ todo' \subseteq Claims
      BY <1>3, <2>3 DEF CInv, TypeOK
    <3>2. UNCHANGED sts
      BY <2>1 DEF VE!patchClaim
    <3> QED BY <1>1, <1>2, <2>3, <3>1, <3>2 DEF CInv, TypeOK, PassInv
  <2> QED BY <2>1, <2>2, <2>3 DEF VE!patchClaim
<1> QED BY <1>4, <1>5, <1>6

LEMMA ApplyStep ==
  ASSUME CInv, VE!applyStatefulSet, UNCHANGED <<server, at, faults>>
  PROVE  CInv'
<1>1. pc = "apply" /\ at = Nil /\ m \in Druid /\ UNCHANGED <<cr, allow, claims>>
  BY DEF VE!applyStatefulSet, CInv, TypeOK, PassInv
<1>2. ~(i > 0) /\ i \in 0..Templates /\ faults' \in 0..MaxFaults
  BY <1>1 DEF CInv, TypeOK
<1>3. CASE VE!Error /\ UNCHANGED <<sts, ready>>
  BY <1>1, <1>2, <1>3, EndStep
<1>4. CASE /\ sts' = sts \/ sts' = [sizes |-> m.sizes, term |-> FALSE]
           /\ pc' = "dynamic" /\ ready' \in BOOLEAN
           /\ UNCHANGED <<m, expansion>>
  <2>1. m.sizes \in SizesOfAll
    BY <1>1, CRParts
  <2>2. sts' = Nil \/ sts' \in [sizes : SizesOfAll, term : BOOLEAN]
    <3>1. [sizes |-> m.sizes, term |-> FALSE] \in [sizes : SizesOfAll, term : BOOLEAN]
      BY <2>1
    <3>2. sts = Nil \/ sts \in [sizes : SizesOfAll, term : BOOLEAN]
      BY DEF CInv, TypeOK
    <3> QED BY <1>4, <3>1, <3>2
  <2> QED BY <1>1, <1>2, <1>4, <2>2 DEF CInv, TypeOK, PassInv
<1>5. ready \in BOOLEAN
  BY DEF CInv, TypeOK
<1> QED BY <1>3, <1>4, <1>5 DEF VE!applyStatefulSet

\* The dynamic configurations: the loop goes on or the pass ends.
LEMMA DynamicRest ==
  ASSUME CInv, pc = "dynamic", UNCHANGED <<cr, storage, expansion, faults>>,
         server' \in [DC!Types -> Objects],
         \A t \in DC!Types : DOMAIN server'[t] \subseteq Known[t],
         \/ DC!Done
         \/ /\ UNCHANGED <<pc, m>>
            /\ at' \in [n : 1..2, call : {"get", "post"}]
            /\ at'.call = "post" => m.dynamic[DC!nodeTypes[at'.n]] # Nil
  PROVE  CInv'
<1>1. ~(i > 0) /\ i \in 0..Templates
  BY DEF CInv, TypeOK
<1>2. CASE DC!Done
  BY <1>1, <1>2 DEF DC!Done, CInv, TypeOK, PassInv
<1>3. CASE /\ UNCHANGED <<pc, m>>
           /\ at' \in [n : 1..2, call : {"get", "post"}]
           /\ at'.call = "post" => m.dynamic[DC!nodeTypes[at'.n]] # Nil
  BY <1>1, <1>3, NodeTypes DEF CInv, TypeOK, PassInv
<1> QED BY <1>2, <1>3

LEMMA AdvanceStep ==
  ASSUME NEW n \in 0..2, DC!Advance(n)
  PROVE  \/ DC!Done
         \/ /\ UNCHANGED <<pc, m>> /\ at' \in [n : 1..2, call : {"get", "post"}]
            /\ at'.call # "post"
<1>1. CASE n < Len(DC!nodeTypes)
  <2>1. n + 1 \in 1..2
    BY <1>1, NodeTypes
  <2> QED BY <1>1, <2>1 DEF DC!Advance
<1>2. CASE ~(n < Len(DC!nodeTypes))
  BY <1>2 DEF DC!Advance
<1> QED BY <1>1, <1>2

\* What Druid has after a post.
LEMMA PostedType ==
  ASSUME CInv, NEW t \in DC!Types, NEW config \in Objects,
         server' = [server EXCEPT ![t] = DC!Posted(t, config)]
  PROVE  /\ server' \in [DC!Types -> Objects]
         /\ \A u \in DC!Types : DOMAIN server'[u] \subseteq Known[u]
<1>1. /\ server \in [DC!Types -> Objects]
      /\ \A u \in DC!Types : DOMAIN server[u] \subseteq Known[u]
  BY DEF CInv, TypeOK
<1>2. DC!Posted(t, config) = DC!Merged(t, server[t], config)
  BY DEF DC!Posted
<1>3. DC!Merged(t, server[t], config) \in Objects
  BY <1>1, ControllerAssumption
<1>4. DOMAIN DC!Merged(t, server[t], config) \subseteq Known[t]
  BY <1>1 DEF DC!Merged
<1> QED BY <1>1, <1>2, <1>3, <1>4

LEMMA DynamicConfigStep ==
  ASSUME CInv, DC!DynamicStep, UNCHANGED <<storage, expansion, faults>>
  PROVE  CInv'
<1>1. /\ server \in [DC!Types -> Objects]
      /\ \A t \in DC!Types : DOMAIN server[t] \subseteq Known[t]
  BY DEF CInv, TypeOK
<1>2. pc = "dynamic" /\ m \in Druid /\ UNCHANGED cr
  BY DEF DC!DynamicStep, DC!updateDruidDynamicConfigs, DC!getConfig, DC!postConfig,
         CInv, TypeOK, PassInv
<1>3. at # Nil => /\ at \in [n : 1..2, call : {"get", "post"}]
                  /\ at.n \in 1..2 /\ at.n \in 0..2 /\ DC!nodeTypes[at.n] \in DC!Types
                  /\ at.call = "post" => m.dynamic[DC!nodeTypes[at.n]] # Nil
  BY NodeTypes DEF CInv, PassInv
<1>4. CASE DC!updateDruidDynamicConfigs
  <2>1. DC!Advance(0) /\ 0 \in 0..2 /\ UNCHANGED server
    BY <1>4 DEF DC!updateDruidDynamicConfigs
  <2> QED BY <1>1, <1>2, <2>1, AdvanceStep, DynamicRest
<1>5. CASE DC!getConfig
  <2>1. at # Nil /\ UNCHANGED server
    BY <1>5 DEF DC!getConfig
  <2>2. CASE DC!Advance(at.n)
    BY <1>1, <1>2, <1>3, <2>1, <2>2, AdvanceStep, DynamicRest
  <2>3. CASE /\ DC!Configured(DC!nodeTypes[at.n])
             /\ at' = [at EXCEPT !.call = "post"] /\ UNCHANGED <<pc, m>>
    <3>1. /\ at' \in [n : 1..2, call : {"get", "post"}] /\ at'.n = at.n
          /\ m.dynamic[DC!nodeTypes[at.n]] # Nil
      BY <1>3, <2>1, <2>3 DEF DC!Configured
    <3> QED BY <1>1, <1>2, <2>1, <2>3, <3>1, DynamicRest
  <2> QED BY <1>5, <2>2, <2>3 DEF DC!getConfig
<1>6. CASE DC!postConfig
  <2> DEFINE t == DC!nodeTypes[at.n]
  <2>1. at # Nil /\ at.call = "post" /\ t \in DC!Types
    BY <1>3, <1>6 DEF DC!postConfig
  <2>2. m.dynamic[t] \in Objects
    BY <1>2, <1>3, <2>1, CRParts
  <2>3. CASE DC!Done /\ UNCHANGED server
    BY <1>1, <1>2, <2>3, DynamicRest
  <2>4. CASE /\ server' = [server EXCEPT ![t] = DC!Posted(t, m.dynamic[t])]
             /\ DC!Advance(at.n)
    <3>1. /\ server' \in [DC!Types -> Objects]
          /\ \A u \in DC!Types : DOMAIN server'[u] \subseteq Known[u]
      BY <2>1, <2>2, <2>4, PostedType
    <3> QED BY <1>2, <1>3, <2>1, <2>4, <3>1, AdvanceStep, DynamicRest
  <2> QED BY <1>6, <2>3, <2>4 DEF DC!postConfig
<1> QED BY <1>4, <1>5, <1>6 DEF DC!DynamicStep

\* The user, Kubernetes, failing calls and foreign posts.
LEMMA EnvironmentStep ==
  ASSUME CInv, Fail \/ UserEdit \/ Kubernetes \/ Disturbance
  PROVE  CInv'
<1>0. Fault => faults' \in 0..MaxFaults
  BY ControllerAssumption DEF Fault, CInv, TypeOK
<1>1. CASE Fail
  <2>1. CASE VE!Error /\ at' = Nil /\ UNCHANGED <<cr, storage, server>>
    BY <1>0, <1>1, <2>1, EndStep DEF Fail
  <2>2. CASE VE!readFails /\ UNCHANGED <<server, at>>
    BY <1>0, <1>1, <2>2, ProceedStep DEF Fail, VE!readFails
  <2> QED BY <1>1, <2>1, <2>2 DEF Fail
<1>2. CASE UserEdit
  <2>1. cr.gen \in 1..MaxGen
    BY CRParts DEF CInv, TypeOK
  <2>2. cr.gen + 1 \in 1..MaxGen
    BY <1>2, <2>1, ControllerAssumption DEF UserEdit
  <2>3. cr' \in Druid
    BY <1>2, <2>2, CRWithType DEF UserEdit
  <2> QED BY <1>2, <2>3 DEF UserEdit, CInv, TypeOK, PassInv
<1>3. CASE Kubernetes
  <2>1. /\ UNCHANGED <<cr, allow, pc, m, i, cur, pvcSize, todo, server, at, faults>>
        /\ ready' \in BOOLEAN
    BY <1>3 DEF Kubernetes, VE!Kubernetes, VE!OrphansReleased, VE!PodsReady,
                VE!CreateClaim, CInv, TypeOK
  <2>2. CASE VE!OrphansReleased
    BY <2>1, <2>2 DEF VE!OrphansReleased, CInv, TypeOK, PassInv
  <2>3. CASE VE!PodsReady
    BY <2>1, <2>3 DEF VE!PodsReady, CInv, TypeOK, PassInv
  <2>4. CASE \E c \in DOMAIN claims : VE!CreateClaim(c)
    <3>1. PICK c \in DOMAIN claims : VE!CreateClaim(c)
      BY <2>4
    <3>2. c \in Claims /\ sts.sizes \in SizesOfAll
      BY <3>1 DEF VE!CreateClaim, CInv, TypeOK
    <3>3. sts.sizes[c[1]] \in Sizes
      BY <3>2 DEF Claims, SizesOfAll
    <3>4. claims' \in [Claims -> Sizes \cup {Nil}] /\ UNCHANGED sts
      BY <3>1, <3>3 DEF VE!CreateClaim, CInv, TypeOK
    <3> QED BY <2>1, <3>4 DEF CInv, TypeOK, PassInv
  <2> QED BY <1>3, <2>2, <2>3, <2>4 DEF Kubernetes, VE!Kubernetes
<1>4. CASE Disturbance
  <2>1. CASE Fault /\ VE!PodsNotReady /\ UNCHANGED <<server, at>>
    <3>1. /\ UNCHANGED <<cr, allow, sts, claims, pc, m, i, cur, pvcSize, todo,
                        server, at>>
          /\ ready' \in BOOLEAN /\ faults' \in 0..MaxFaults
      BY <1>0, <2>1 DEF VE!PodsNotReady, VE!expansion
    <3>2. TypeOK'
      BY <3>1 DEF CInv, TypeOK
    <3>3. PassInv'
      BY <3>1 DEF CInv, PassInv
    <3> QED BY <3>2, <3>3 DEF CInv
  <2>2. CASE Fault /\ DC!AdminPost /\ UNCHANGED <<storage, expansion>>
    <3>1. PICK t \in DC!Types, config \in AdminPosts :
            server' = [server EXCEPT ![t] = DC!Posted(t, config)]
      BY <2>2 DEF DC!AdminPost
    <3>2. /\ server' \in [DC!Types -> Objects]
          /\ \A u \in DC!Types : DOMAIN server'[u] \subseteq Known[u]
      BY <3>1, PostedType, ControllerAssumption
    <3> QED BY <1>0, <2>2, <3>2 DEF DC!AdminPost, CInv, TypeOK, PassInv
  <2> QED BY <1>4, <2>1, <2>2 DEF Disturbance
<1> QED BY <1>1, <1>2, <1>3, <1>4

LEMMA NextInv ==
  ASSUME CInv, [Next]_vars
  PROVE  CInv'
<1>1. CASE Reconcile
  <2>1. cr \in Druid /\ cr # Nil
    BY CRParts DEF CInv, TypeOK
  <2>2. at = Nil /\ ~(i > 0)
    BY <1>1 DEF Reconcile, CInv, TypeOK
  <2> QED BY <1>1, <2>1, <2>2 DEF Reconcile, CInv, TypeOK, PassInv
<1>2. CASE deployDruidCluster
  BY <1>2, ExpansionStart, ExpansionLoop, ApplyStep
     DEF deployDruidCluster, VE!ExpansionStep
<1>3. CASE updateDruidDynamicConfigs
  BY <1>3, DynamicConfigStep DEF updateDruidDynamicConfigs
<1>4. CASE Fail \/ UserEdit \/ Kubernetes \/ Disturbance
  BY <1>4, EnvironmentStep
<1>5. CASE UNCHANGED vars
  <2>1. UNCHANGED <<cr, allow, sts, ready, claims, pc, m, i, cur, pvcSize, todo,
                    server, at, faults>>
    BY <1>5 DEF vars, storage, expansion
  <2>2. TypeOK'
    BY <2>1 DEF CInv, TypeOK
  <2>3. PassInv'
    BY <2>1 DEF CInv, PassInv
  <2> QED BY <2>2, <2>3 DEF CInv
<1> QED BY <1>1, <1>2, <1>3, <1>4, <1>5 DEF Next, PassStep

\* Types, for any number of templates, pods, sizes, specs, generations and
\* faults and any JSON: where a pass is, which of its local variables have a
\* value then, that the loop over the templates stays within them, and that
\* Druid has only configurations with keys it knows.
THEOREM ControllerCorrect == Spec => [](TypeOK /\ PassInv)
<1>1. Spec => []CInv
  BY InitInv, NextInv, PTL DEF Spec
<1>2. CInv => TypeOK /\ PassInv
  BY DEF CInv
<1> QED BY <1>1, <1>2, PTL

\* On every pair of configurations that updateDruidDynamicConfigs compares,
\* includes is right: for objects of any depth, whatever was posted before.
THEOREM ComparisonCorrect == Spec => []IncludesIsCovers
<1>1. CInv => IncludesIsCovers
  <2> SUFFICES ASSUME CInv, NEW t \in DC!Types, pc = "dynamic", m.dynamic[t] # Nil
               PROVE  includes(server[t], m.dynamic[t]) <=>
                        Covers(server[t], m.dynamic[t])
    BY DEF IncludesIsCovers
  <2>1. m \in Druid
    BY DEF CInv, TypeOK, PassInv
  <2>2. m.dynamic[t] \in Objects
    BY <2>1, CRParts
  <2>3. server[t] \in Objects
    BY DEF CInv, TypeOK
  <2> QED BY <2>2, <2>3, IncludesCorrect
<1>2. CInv <=> TypeOK /\ PassInv
  BY DEF CInv
<1> QED BY <1>1, <1>2, ControllerCorrect, PTL

\* Only compareTemplate marks a StatefulSet, and only if the template grows.
LEMMA DeleteStep ==
  ASSUME CInv, Next, sts # Nil, ~sts.term, sts' # Nil, sts'.term
  PROVE  \E t \in 1..Templates : m.sizes[t] > sts.sizes[t]
<1>1. sts' # sts
  OBVIOUS
<1>2. CASE VE!compareTemplate
  <2>1. VE!Grows
    BY <1>1, <1>2 DEF VE!compareTemplate
  <2>2. i \in 0..Templates /\ i > 0
    BY <1>2 DEF VE!compareTemplate, CInv, TypeOK
  <2>3. i \in 1..Templates
    BY <2>2, ControllerAssumption
  <2>4. sts.sizes = cur
    BY <1>2 DEF VE!compareTemplate, CInv, PassInv
  <2> QED BY <2>1, <2>3, <2>4 DEF VE!Grows
<1>3. CASE VE!applyStatefulSet
  <2>1. sts' = sts
    BY <1>3 DEF VE!applyStatefulSet
  <2> QED BY <1>1, <2>1
<1>4. CASE /\ ~VE!compareTemplate /\ ~VE!applyStatefulSet
  <2>1. sts' = sts \/ sts' = Nil
    <3>1. CASE deployDruidCluster
      BY <1>4, <3>1
         DEF deployDruidCluster, VE!ExpansionStep, VE!expandStatefulSetVolumes,
             VE!checkReady, VE!getStatefulSet, VE!listClaims, VE!patchClaim,
             VE!nextTemplate
    <3>2. CASE Reconcile \/ updateDruidDynamicConfigs \/ UserEdit
      BY <3>2 DEF Reconcile, updateDruidDynamicConfigs, UserEdit
    <3>3. CASE Fail
      BY <3>3 DEF Fail, VE!readFails
    <3>4. CASE Kubernetes \/ Disturbance
      BY <3>4 DEF Kubernetes, Disturbance, VE!Kubernetes, VE!OrphansReleased,
                  VE!PodsReady, VE!CreateClaim, VE!PodsNotReady
    <3> QED BY <3>1, <3>2, <3>3, <3>4 DEF Next, PassStep
  <2> QED BY <1>1, <2>1
<1> QED BY <1>2, <1>3, <1>4

\* scalePVCForSts deletes a StatefulSet only if the CR of its pass asks for more
\* than that StatefulSet has, wherever other calls failed, the CR was edited or
\* the StatefulSet went away since it was read.
THEOREM DeletesToGrow == Spec => DeletedToGrow
<1>1. CInv /\ [Next]_vars =>
        [sts # Nil /\ ~sts.term /\ sts' # Nil /\ sts'.term =>
           \E t \in 1..Templates : m.sizes[t] > sts.sizes[t]]_vars
  BY DeleteStep
<1>2. CInv <=> TypeOK /\ PassInv
  BY DEF CInv
<1> QED BY <1>1, <1>2, ControllerCorrect, PTL DEF Spec, DeletedToGrow
=============================================================================
