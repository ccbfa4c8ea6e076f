----------------------------- MODULE ClaimsProofs -----------------------------
(* Proofs about Claims, for every number of replicas, grace period, set of    *)
(* specs and number of faults.                                                *)
EXTENDS Claims, TLAPS

-----------------------------------------------------------------------------
(* Type correctness, split as the steps are.                                *)

CRType ==
  /\ cr \in CR
  /\ cr.exists /\ cr.deleting => cr.fin

ClusterType ==
  /\ sts \in 0..Replicas \cup {Nil}
  /\ pods \in [Ordinals -> {"none", "starting", "ready"}]
  /\ claims \in [Ordinals -> Claim \cup {Nil}]

PassType ==
  /\ pc \in {"idle", "finalizers", "apply", "listPods", "listOrphans", "orphans",
             "listClaims", "deleteSts", "deleteClaims"}
  /\ IF pc = "idle" THEN m = Nil ELSE m \in CR
  /\ current \in BOOLEAN
  /\ replicas \in 0..Replicas
  /\ podList \in [Ordinals -> {"none", "starting", "ready", Nil}]
  /\ pvcList \in [Ordinals -> Claim \cup {Nil}]
  /\ todo \subseteq Existing(pvcList)

RestType ==
  /\ up \subseteq Ordinals
  /\ used \subseteq Ordinals
  /\ faults \in 0..MaxFaults

LEMMA TypeParts ==
  TypeOK <=> CRType /\ ClusterType /\ PassType /\ RestType
BY DEF TypeOK, CRType, ClusterType, PassType, RestType

LEMMA TypePartsNext ==
  TypeOK' <=> CRType' /\ ClusterType' /\ PassType' /\ RestType'
BY DEF TypeOK, CRType, ClusterType, PassType, RestType

\* The end of a pass leaves its local variables well-formed and empty.
LEMMA EndPassFacts ==
  EndPass => PassType' /\ todo' = {} /\ pc' = "idle"
<1> SUFFICES ASSUME EndPass PROVE PassType' /\ todo' = {} /\ pc' = "idle"
  OBVIOUS
<1>1. Nothing \in [Ordinals -> {"none", "starting", "ready", Nil}]
  BY DEF Nothing
<1>2. Nothing \in [Ordinals -> Claim \cup {Nil}]
  BY DEF Nothing
<1>3. 0 \in 0..Replicas
  BY ClaimsAssumption
<1> QED BY <1>1, <1>2, <1>3 DEF EndPass, PassType

\* Time leaves a claim a claim: its mark ages, nothing else changes.
LEMMA AgedFacts ==
  ASSUME NEW list \in [Ordinals -> Claim \cup {Nil}]
  PROVE  /\ Aged(list) \in [Ordinals -> Claim \cup {Nil}]
         /\ \A i \in Ordinals : Aged(list)[i] = Nil <=> list[i] = Nil
         /\ \A i \in Ordinals : list[i] # Nil => Aged(list)[i].term = list[i].term
<1>1. \A age \in 0..Grace \cup {Nil} : Older(age) \in 0..Grace \cup {Nil}
  BY ClaimsAssumption DEF Older
<1>2. ASSUME NEW i \in Ordinals, list[i] # Nil
      PROVE  /\ [list[i] EXCEPT !.mark = Older(@)] \in Claim
             /\ [list[i] EXCEPT !.mark = Older(@)].term = list[i].term
  <2>1. list[i] \in Claim
    BY <1>2
  <2> QED BY <1>1, <2>1 DEF Claim
<1> QED BY <1>2, NilAssumption DEF Aged

\* A Delete ends the pass or takes one claim off the list of those to be looked at;
\* the claim goes, or waits for its pod.
LEMMA DeleteFacts ==
  ASSUME ClusterType, PassType, pc # "idle", NEW i \in Ordinals, Delete(i)
  PROVE  /\ claims' \in [Ordinals -> Claim \cup {Nil}]
         /\ PassType'
         /\ \A j \in Ordinals : j # i => claims'[j] = claims[j]
         /\ \/ pc' = "idle"
            \/ /\ UNCHANGED <<pc, podList, pvcList>>
               /\ todo' = todo \ {i}
               /\ claims'[i] = Nil \/ claims'[i].term
<1>1. CASE claims[i] = Nil
  BY <1>1, EndPassFacts DEF Delete, ClusterType
<1>2. CASE claims[i] # Nil
  <2>1. claims[i] \in Claim
    BY <1>2 DEF ClusterType
  <2>2. /\ [claims[i] EXCEPT !.term = TRUE] \in Claim
        /\ [claims[i] EXCEPT !.term = TRUE].term
    BY <2>1 DEF Claim
  <2>3. claims' = [claims EXCEPT ![i] =
                     IF pods[i] = "none" THEN Nil ELSE [claims[i] EXCEPT !.term = TRUE]]
    BY <1>2 DEF Delete
  <2>4. /\ claims' \in [Ordinals -> Claim \cup {Nil}]
        /\ \A j \in Ordinals : j # i => claims'[j] = claims[j]
        /\ claims'[i] = Nil \/ claims'[i].term
    BY <2>2, <2>3 DEF ClusterType
  <2>5. todo' = todo \ {i} /\ UNCHANGED <<pc, m, current, replicas, podList, pvcList>>
    BY <1>2 DEF Delete
  <2>6. PassType'
    BY <2>5 DEF PassType, Existing
  <2> QED BY <2>4, <2>5, <2>6
<1> QED BY <1>1, <1>2

\* An update of the labels ends the pass or changes only the mark of one claim.
LEMMA LabelFacts ==
  ASSUME ClusterType, PassType, NEW i \in todo, NEW a \in 0..Grace \cup {Nil},
         setPVCLabels(i, a), used \subseteq Ordinals
  PROVE  /\ claims' \in [Ordinals -> Claim \cup {Nil}]
         /\ PassType' /\ used' \subseteq Ordinals
         /\ \A j \in Ordinals : claims'[j] = Nil <=> claims[j] = Nil
         /\ \A j \in Ordinals : claims[j] # Nil => claims'[j].term = claims[j].term
         /\ pc' = "idle" \/ UNCHANGED <<pc, podList, pvcList>>
<1>0. i \in Ordinals /\ pvcList[i] # Nil
  BY DEF PassType, Existing
<1>1. CASE claims[i] # pvcList[i]
  BY <1>1, EndPassFacts DEF setPVCLabels, ClusterType
<1>2. CASE claims[i] = pvcList[i]
  <2>1. claims[i] \in Claim
    BY <1>0, <1>2 DEF ClusterType
  <2>2. /\ [claims[i] EXCEPT !.mark = a] \in Claim
        /\ [claims[i] EXCEPT !.mark = a].term = claims[i].term
    BY <2>1 DEF Claim
  <2>3. claims' = [claims EXCEPT ![i] = [claims[i] EXCEPT !.mark = a]]
    BY <1>2 DEF setPVCLabels
  <2>4. /\ claims' \in [Ordinals -> Claim \cup {Nil}]
        /\ \A j \in Ordinals : claims'[j] = Nil <=> claims[j] = Nil
        /\ \A j \in Ordinals : claims[j] # Nil => claims'[j].term = claims[j].term
    BY <2>1, <2>2, <2>3, NilAssumption DEF ClusterType
  <2>5. /\ todo' = todo \ {i} /\ used' = used \ {i}
        /\ UNCHANGED <<pc, m, current, replicas, podList, pvcList>>
    BY <1>2 DEF setPVCLabels
  <2>6. PassType'
    BY <2>5 DEF PassType, Existing
  <2> QED BY <2>4, <2>5, <2>6
<1> QED BY <1>1, <1>2

\* One claim of the loop of deleteOrphanPVC: only a claim without a listed pod is
\* deleted.
LEMMA OrphanFacts ==
  ASSUME TypeOK, NEW i \in Ordinals, orphan(i)
  PROVE  /\ TypeOK'
         /\ UNCHANGED <<cr, sts, pods, up>>
         /\ pc' = "idle" \/ UNCHANGED <<pc, podList>>
         /\ \A j \in Ordinals :
              claims[j] # Nil /\ ~claims[j].term /\ (claims'[j] = Nil \/ claims'[j].term) =>
                ~mountedPVC(j)
<1>0. CRType /\ ClusterType /\ PassType /\ RestType
  BY TypeParts
<1>1. pc = "orphans" /\ i \in todo /\ UNCHANGED <<cr, sts, pods, up, faults>>
  BY DEF orphan
<1>2. CASE \E a \in 0..Grace \cup {Nil} : setPVCLabels(i, a)
  <2>1. /\ claims' \in [Ordinals -> Claim \cup {Nil}]
        /\ PassType' /\ used' \subseteq Ordinals
        /\ \A j \in Ordinals : claims'[j] = Nil <=> claims[j] = Nil
        /\ \A j \in Ordinals : claims[j] # Nil => claims'[j].term = claims[j].term
        /\ pc' = "idle" \/ UNCHANGED <<pc, podList>>
    BY <1>0, <1>1, <1>2, LabelFacts DEF RestType
  <2>2. CRType' /\ ClusterType' /\ RestType'
    BY <1>0, <1>1, <2>1 DEF CRType, ClusterType, RestType
  <2> QED BY <1>1, <2>1, <2>2, TypePartsNext
<1>3. CASE ~mountedPVC(i) /\ Delete(i) /\ UNCHANGED used
  <2>1. /\ claims' \in [Ordinals -> Claim \cup {Nil}]
        /\ PassType'
        /\ \A j \in Ordinals : j # i => claims'[j] = claims[j]
        /\ pc' = "idle" \/ UNCHANGED <<pc, podList>>
    BY <1>0, <1>1, <1>3, DeleteFacts
  <2>2. CRType' /\ ClusterType' /\ RestType'
    BY <1>0, <1>1, <1>3, <2>1 DEF CRType, ClusterType, RestType
  <2> QED BY <1>1, <1>3, <2>1, <2>2, TypePartsNext
<1>4. CASE /\ todo' = todo \ {i}
           /\ UNCHANGED <<claims, pc, m, current, replicas, podList, pvcList, used>>
  <2>1. CRType' /\ ClusterType' /\ PassType' /\ RestType'
    BY <1>0, <1>1, <1>4 DEF CRType, ClusterType, PassType, RestType, Existing
  <2> QED BY <1>1, <1>4, <2>1, TypePartsNext
<1>5. 0 \in 0..Grace
  BY ClaimsAssumption
<1> QED BY <1>2, <1>3, <1>4, <1>5 DEF orphan

-----------------------------------------------------------------------------
(* The inductive invariant.                                                 *)

\* The steps of a pass other than the two loops over claims.
LEMMA PassStepInv ==
  ASSUME TypeOK, ClaimsInv,
         \/ Reconcile \/ updateFinalizers \/ applyStatefulSet \/ listPods
         \/ listOrphans \/ finishOrphans \/ listClaims \/ deleteSts \/ release \/ Fail
  PROVE  TypeOK' /\ ClaimsInv'
<1>0. CRType /\ ClusterType /\ PassType /\ RestType
  BY TypeParts
<1>1. CASE Reconcile
  <2>1. cr.spec \in SpecType
    BY <1>0, ClaimsAssumption DEF CRType, CR
  <2>2. CRType' /\ ClusterType' /\ RestType'
    BY <1>0, <1>1 DEF Reconcile, CRType, ClusterType, RestType, cluster
  <2>3. PassType'
    BY <1>0, <1>1, <2>1 DEF Reconcile, CRType, PassType, Existing, SpecType
  <2>4. ClaimsInv'
    BY <1>0, <1>1 DEF Reconcile, ClaimsInv, ClusterType, cluster
  <2> QED BY <2>2, <2>3, <2>4, TypePartsNext
<1>2. CASE updateFinalizers
  <2>0. m \in CR /\ cr \in CR
    BY <1>0, <1>2 DEF updateFinalizers, PassType, CRType
  <2>1. CRType'
    <3> DEFINE want == ~m.spec.disablePVCDeletionFinalizer
    <3>1. cr' = cr \/ cr' = [cr EXCEPT !.fin = want, !.exists = want \/ ~cr.deleting]
      BY <1>2 DEF updateFinalizers
    <3>2. want \in BOOLEAN /\ (want \/ ~cr.deleting) \in BOOLEAN
      OBVIOUS
    <3> HIDE DEF want
    <3> QED BY <1>0, <2>0, <3>1, <3>2 DEF CRType, CR
  <2>2. ClusterType' /\ RestType'
    BY <1>0, <1>2 DEF updateFinalizers, ClusterType, RestType, cluster, history
  <2>3. PassType' /\ pc' \in {"apply", "idle"}
    BY <1>0, <1>2, <2>1, EndPassFacts DEF updateFinalizers, PassType, CRType, Existing
  <2>4. ClaimsInv'
    BY <1>2, <2>3 DEF updateFinalizers, ClaimsInv, EndPass, cluster, history
  <2> QED BY <2>1, <2>2, <2>3, <2>4, TypePartsNext
<1>3. CASE applyStatefulSet
  <2>1. CRType' /\ ClusterType' /\ RestType'
    BY <1>0, <1>3 DEF applyStatefulSet, CRType, ClusterType, PassType, RestType, history
  <2>2. PassType' /\ pc' \in {"listPods", "idle"}
    BY <1>0, <1>3, EndPassFacts DEF applyStatefulSet, PassType, Existing
  <2>3. ClaimsInv'
    BY <1>3, <2>2 DEF applyStatefulSet, ClaimsInv, EndPass, history
  <2> QED BY <2>1, <2>2, <2>3, TypePartsNext
<1>4. CASE listPods
  <2>1. CRType' /\ ClusterType' /\ RestType' /\ PassType'
    BY <1>0, <1>4 DEF listPods, CRType, ClusterType, PassType, RestType, Existing,
       cluster, history
  <2>2. ClaimsInv'
    BY <1>4 DEF listPods, ClaimsInv, cluster, history
  <2> QED BY <2>1, <2>2, TypePartsNext
<1>5. CASE listOrphans
  <2>1. CRType' /\ ClusterType' /\ RestType'
    BY <1>0, <1>5 DEF listOrphans, CRType, ClusterType, RestType, cluster, history
  <2>2. PassType'
    BY <1>0, <1>5, EndPassFacts DEF listOrphans, PassType, ClusterType, Existing
  <2>3. ClaimsInv'
    BY <1>5, EndPassFacts DEF listOrphans, ClaimsInv, cluster, history
  <2> QED BY <2>1, <2>2, <2>3, TypePartsNext
<1>6. CASE listClaims
  <2>1. CRType' /\ ClusterType' /\ RestType'
    BY <1>0, <1>6 DEF listClaims, CRType, ClusterType, RestType, cluster, history
  <2>2. PassType'
    <3>1. todo = {}
      BY <1>6 DEF listClaims, ClaimsInv
    <3> QED BY <1>0, <1>6, <3>1 DEF listClaims, PassType, ClusterType
  <2>3. ClaimsInv'
    BY <1>6 DEF listClaims, ClaimsInv, cluster, history
  <2> QED BY <2>1, <2>2, <2>3, TypePartsNext
<1>7. CASE deleteSts
  <2>1. CRType' /\ ClusterType' /\ RestType' /\ PassType'
    BY <1>0, <1>7 DEF deleteSts, CRType, ClusterType, PassType, RestType, Existing,
       history
  <2>2. ClaimsInv'
    BY <1>7 DEF deleteSts, ClaimsInv, Existing, history
  <2> QED BY <2>1, <2>2, TypePartsNext
<1>8. CASE finishOrphans \/ release \/ Fail
  <2>1. EndPass /\ UNCHANGED <<sts, pods, claims, up, used>>
    BY <1>8 DEF finishOrphans, release, Fail, cluster, history
  <2>2. cr' = cr \/ cr' = [cr EXCEPT !.fin = FALSE, !.exists = FALSE]
    BY <1>8 DEF finishOrphans, release, Fail
  <2>3. CRType'
    BY <1>0, <2>2 DEF CRType, CR
  <2>4. faults' \in 0..MaxFaults
    BY <1>0, <1>8, ClaimsAssumption DEF finishOrphans, release, Fail, Fault, RestType
  <2>5. ClusterType' /\ RestType'
    BY <1>0, <2>1, <2>4 DEF ClusterType, RestType
  <2>6. ClaimsInv'
    BY <2>1, EndPassFacts DEF ClaimsInv
  <2> QED BY <2>1, <2>3, <2>5, <2>6, EndPassFacts, TypePartsNext
<1> QED BY <1>1, <1>2, <1>3, <1>4, <1>5, <1>6, <1>7, <1>8

\* The two loops over claims.
LEMMA LoopInv ==
  ASSUME TypeOK, ClaimsInv, NEW i \in Ordinals, orphan(i) \/ deletePVC(i)
  PROVE  TypeOK' /\ ClaimsInv'
<1>1. CASE orphan(i)
  <2>1. /\ TypeOK' /\ UNCHANGED <<cr, sts, pods, up>> /\ pc = "orphans"
        /\ (pc' = "idle" /\ todo' = {}) \/ UNCHANGED <<pc, podList>>
    BY <1>1, OrphanFacts DEF orphan, setPVCLabels, Delete, EndPass
  <2> QED BY <2>1 DEF ClaimsInv
<1>2. CASE deletePVC(i)
  <2>0. CRType /\ ClusterType /\ PassType /\ RestType
    BY TypeParts
  <2>1. /\ pc = "deleteClaims" /\ i \in todo /\ Delete(i)
        /\ UNCHANGED <<cr, sts, pods, up, used, faults>>
    BY <1>2 DEF deletePVC, history
  <2>2. /\ claims' \in [Ordinals -> Claim \cup {Nil}]
        /\ PassType'
        /\ \A j \in Ordinals : j # i => claims'[j] = claims[j]
        /\ \/ pc' = "idle" /\ todo' = {}
           \/ /\ UNCHANGED <<pc, podList, pvcList>>
              /\ todo' = todo \ {i}
              /\ claims'[i] = Nil \/ claims'[i].term
    BY <2>0, <2>1, DeleteFacts DEF Delete, EndPass
  <2>3. TypeOK'
    BY <2>0, <2>1, <2>2, TypePartsNext DEF CRType, ClusterType, RestType
  <2>4. ClaimsInv'
    BY <2>1, <2>2 DEF ClaimsInv, Existing
  <2> QED BY <2>3, <2>4
<1> QED BY <1>1, <1>2

\* The steps of the user, of Kubernetes and of time.
LEMMA EnvironmentInv ==
  ASSUME TypeOK, ClaimsInv,
         \/ UserEdit \/ UserDelete \/ CollectGarbage \/ Tick
         \/ \E i \in Ordinals : Kubernetes(i) \/ PodFails(i)
  PROVE  TypeOK' /\ ClaimsInv'
<1>0. CRType /\ ClusterType /\ PassType /\ RestType
  BY TypeParts
<1>1. CASE UserEdit \/ UserDelete
  <2>1. /\ UNCHANGED <<sts, pods, claims, pc, m, replicas, podList, pvcList, todo, up,
                       used, faults>>
        /\ current' = FALSE
    BY <1>1 DEF UserEdit, UserDelete, cluster, history
  <2>2. CRType' /\ (cr.deleting => cr'.deleting)
    <3>1. CASE UserEdit
      <4>1. PICK s \in Specs : cr' = [cr EXCEPT !.spec = s, !.gen = @ + 1]
        BY <3>1 DEF UserEdit
      <4>2. cr.gen \in 1..MaxGen
        BY <1>0 DEF CRType, CR
      <4>3. cr.gen < MaxGen
        BY <3>1 DEF UserEdit
      <4>4. cr.gen + 1 \in 1..MaxGen
        BY <4>2, <4>3, ClaimsAssumption
      <4> QED BY <1>0, <4>1, <4>4 DEF CRType, CR
    <3>2. CASE UserDelete
      BY <1>0, <3>2 DEF UserDelete, CRType, CR
    <3> QED BY <1>1, <3>1, <3>2
  <2>3. ClusterType' /\ PassType' /\ RestType'
    BY <1>0, <2>1 DEF ClusterType, PassType, RestType, Existing
  <2>4. ClaimsInv'
    BY <2>1, <2>2 DEF ClaimsInv, Existing
  <2> QED BY <2>2, <2>3, <2>4, TypePartsNext
<1>2. CASE CollectGarbage
  <2>1. CRType' /\ ClusterType' /\ PassType' /\ RestType'
    BY <1>0, <1>2 DEF CollectGarbage, CRType, ClusterType, PassType, RestType, Existing,
       pass, history
  <2>2. ClaimsInv'
    BY <1>2 DEF CollectGarbage, ClaimsInv, Existing, pass, history
  <2> QED BY <2>1, <2>2, TypePartsNext
<1>3. CASE Tick
  <2>1. /\ claims' = Aged(claims) /\ pvcList' = Aged(pvcList)
        /\ UNCHANGED <<cr, sts, pods, pc, m, current, replicas, podList, todo, up, used,
                       faults>>
    BY <1>3 DEF Tick, history
  <2>2. /\ claims' \in [Ordinals -> Claim \cup {Nil}]
        /\ pvcList' \in [Ordinals -> Claim \cup {Nil}]
        /\ Existing(pvcList') = Existing(pvcList)
        /\ \A j \in Ordinals : claims'[j] = Nil <=> claims[j] = Nil
        /\ \A j \in Ordinals : claims[j] # Nil => claims'[j].term = claims[j].term
    BY <1>0, <2>1, AgedFacts DEF ClusterType, PassType, Existing
  <2>3. CRType' /\ ClusterType' /\ PassType' /\ RestType'
    BY <1>0, <2>1, <2>2 DEF CRType, ClusterType, PassType, RestType
  <2>4. \A j \in Existing(pvcList) : j \in Ordinals
    BY DEF Existing
  <2>5. ClaimsInv'
    BY <2>1, <2>2, <2>4 DEF ClaimsInv
  <2> QED BY <2>3, <2>5, TypePartsNext
<1>4. ASSUME NEW i \in Ordinals, CreateClaim(i) \/ ReleaseClaim(i)
      PROVE  TypeOK' /\ ClaimsInv'
  <2>1. /\ UNCHANGED <<cr, sts, pods, pc, m, current, replicas, podList, pvcList, todo,
                       up, used, faults>>
        /\ \/ claims' = [claims EXCEPT ![i] = [mark |-> Nil, term |-> FALSE]] /\ sts # Nil
           \/ claims' = [claims EXCEPT ![i] = Nil]
    BY <1>4 DEF CreateClaim, ReleaseClaim, Wants, pass, history
  <2>2. [mark |-> Nil, term |-> FALSE] \in Claim
    BY DEF Claim
  <2>3. CRType' /\ ClusterType' /\ PassType' /\ RestType'
    BY <1>0, <2>1, <2>2 DEF CRType, ClusterType, PassType, RestType, Existing
  <2>4. ClaimsInv'
    BY <1>0, <2>1 DEF ClaimsInv, ClusterType, Existing
  <2> QED BY <2>3, <2>4, TypePartsNext
<1>5. ASSUME NEW i \in Ordinals, CreatePod(i) \/ StartPod(i) \/ StopPod(i) \/ PodFails(i)
      PROVE  TypeOK' /\ ClaimsInv'
  <2>1. PICK phase \in {"none", "starting", "ready"} : SetPod(i, phase)
    BY <1>5 DEF CreatePod, StartPod, StopPod, PodFails
  <2>2. /\ used' \in {used, used \cup {i}}
        /\ faults' \in 0..MaxFaults
    BY <1>0, <1>5, ClaimsAssumption DEF CreatePod, StartPod, StopPod, PodFails, Fault,
       RestType
  <2>3. /\ pods' = [pods EXCEPT ![i] = phase] /\ up' = up \ {i}
        /\ UNCHANGED <<cr, sts, claims, pc, m, current, replicas, podList, pvcList, todo>>
    BY <2>1 DEF SetPod, pass
  <2>4. CRType' /\ ClusterType' /\ PassType' /\ RestType'
    BY <1>0, <2>2, <2>3 DEF CRType, ClusterType, PassType, RestType, Existing
  <2>5. ClaimsInv'
    BY <1>0, <2>3 DEF ClaimsInv, ClusterType, RestType, Existing
  <2> QED BY <2>4, <2>5, TypePartsNext
<1> QED BY <1>1, <1>2, <1>3, <1>4, <1>5 DEF Kubernetes

\* Type correctness, and what the history and the lists of a pass have in common
\* with the cluster.
THEOREM ClaimsCorrect ==
  Spec => [](TypeOK /\ ClaimsInv)
<1>1. Init => TypeOK /\ ClaimsInv
  <2> SUFFICES ASSUME Init PROVE TypeOK /\ ClaimsInv
    OBVIOUS
  <2>1. CRType
    BY ClaimsAssumption DEF Init, CRType, CR
  <2>2. ClusterType /\ RestType
    BY ClaimsAssumption DEF Init, ClusterType, RestType, Nothing
  <2>3. PassType
    <3>1. Nothing \in [Ordinals -> {"none", "starting", "ready", Nil}]
      BY DEF Nothing
    <3>2. Nothing \in [Ordinals -> Claim \cup {Nil}]
      BY DEF Nothing
    <3>3. 0 \in 0..Replicas
      BY ClaimsAssumption
    <3> QED BY <3>1, <3>2, <3>3 DEF Init, PassType
  <2> QED BY <2>1, <2>2, <2>3, TypeParts DEF Init, ClaimsInv
<1>2. TypeOK /\ ClaimsInv /\ [Next]_vars => TypeOK' /\ ClaimsInv'
  <2> SUFFICES ASSUME TypeOK, ClaimsInv, [Next]_vars PROVE TypeOK' /\ ClaimsInv'
    OBVIOUS
  <2>1. CASE UNCHANGED vars
    BY <2>1 DEF TypeOK, ClaimsInv, Existing, vars, cluster, pass, history
  <2>2. CASE Next
    BY <2>2, PassStepInv, LoopInv, EnvironmentInv DEF Next, PassStep
  <2> QED BY <2>1, <2>2
<1> QED BY <1>1, <1>2, PTL DEF Spec

-----------------------------------------------------------------------------
(* What the operator deletes, and when.                                     *)

\* A claim goes only in the step of its own loop.
LEMMA DeletedFacts ==
  ASSUME TypeOK, [Next]_vars, NEW i \in Ordinals, Deleted(i)
  PROVE  \/ pc = "deleteClaims"
         \/ pc = "orphans" /\ ~mountedPVC(i)
<1>0. ClusterType /\ claims' # claims
  BY TypeParts DEF Deleted
<1>1. CASE \E j \in Ordinals : orphan(j)
  BY <1>1, OrphanFacts DEF Deleted, orphan
<1>2. CASE Tick
  <2>1. claims' = Aged(claims)
    BY <1>2 DEF Tick
  <2> QED BY <1>0, <2>1, AgedFacts DEF Deleted, ClusterType
<1>3. CASE \E j \in Ordinals : CreateClaim(j) \/ ReleaseClaim(j)
  BY <1>0, <1>3 DEF CreateClaim, ReleaseClaim, Deleted, ClusterType
<1>4. CASE \E j \in Ordinals : deletePVC(j)
  BY <1>4 DEF deletePVC
<1> QED BY <1>0, <1>1, <1>2, <1>3, <1>4 DEF Next, PassStep, Reconcile,
      updateFinalizers, applyStatefulSet, listPods, listOrphans, finishOrphans,
      listClaims, deleteSts, release, Fail, UserEdit, UserDelete, CollectGarbage,
      Kubernetes, CreatePod, StartPod, StopPod, PodFails, SetPod, cluster, vars

\* A claim that a pod has had mounted since the pass began is deleted only with
\* the StatefulSet gone.
THEOREM MountedSafe ==
  Spec => MountedKept
<1>1. ASSUME TypeOK, ClaimsInv, [Next]_vars, NEW i \in Ordinals, Deleted(i)
      PROVE  i \notin up \/ sts = Nil
  BY <1>1, DeletedFacts DEF ClaimsInv, mountedPVC
<1>2. TypeOK /\ ClaimsInv /\ [Next]_vars =>
        [\A i \in Ordinals : Deleted(i) => i \notin up \/ sts = Nil]_vars
  BY <1>1
<1> QED BY <1>2, ClaimsCorrect, PTL DEF Spec, MountedKept

\* The finalizer is removed only when every claim the pass found is deleted.
THEOREM ClaimsFirst ==
  Spec => ClaimsGoFirst
<1>1. ASSUME TypeOK, ClaimsInv, [Next]_vars,
             cr.exists, ~cr'.exists, pc = "deleteClaims",
             NEW i \in Existing(pvcList)
      PROVE  claims[i] = Nil \/ claims[i].term
  <2>1. cr \in CR /\ cr.deleting
    BY <1>1 DEF TypeOK, ClaimsInv
  <2>2. ~UserEdit
    BY <1>1, <2>1 DEF UserEdit, CR
  <2>3. cr' # cr
    BY <1>1
  <2>4. release
    BY <1>1, <2>1, <2>2, <2>3 DEF Next, PassStep, Reconcile, updateFinalizers,
       applyStatefulSet, listPods, listOrphans, orphan, finishOrphans, listClaims,
       deleteSts, deletePVC, Fail, UserDelete, CollectGarbage, Tick, Kubernetes,
       CreateClaim, CreatePod, StartPod, StopPod, ReleaseClaim, PodFails, SetPod, vars
  <2> QED BY <1>1, <2>4 DEF release, ClaimsInv
<1>2. TypeOK /\ ClaimsInv /\ [Next]_vars =>
        [cr.exists /\ ~cr'.exists /\ pc = "deleteClaims" =>
           \A i \in Existing(pvcList) : claims[i] = Nil \/ claims[i].term]_vars
  BY <1>1
<1> QED BY <1>2, ClaimsCorrect, PTL DEF Spec, ClaimsGoFirst
===============================================================================
