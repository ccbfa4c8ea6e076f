-------------------------------- MODULE Claims --------------------------------
(***************************************************************************)
(* The persistent volume claims of a Druid cluster: the finalizer that     *)
(* deletes them with the CR (controllers/druid/finalizers.go) and the      *)
(* removal of orphans (deleteOrphanPVC in handler.go), beside a user, the  *)
(* StatefulSet controller, the kubelet, the garbage collector and the      *)
(* protection of claims that are in use.  One StatefulSet, one claim       *)
(* template: pod i mounts claim i.                                         *)
(*                                                                         *)
(* Of the reconcile pass this module keeps the steps that touch the CR,    *)
(* the StatefulSet and the claims; DruidReconcile has the others.  A step  *)
(* is one API call and the control flow up to the next.  The age of the    *)
(* deletionTS label stands for the timestamp: Tick makes all ages grow.    *)
(***************************************************************************)
EXTENDS Naturals

CONSTANTS
  Replicas,   \* the ordinals are 0..Replicas-1
  Grace,      \* sixty seconds, in units of time
  Specs,      \* the specs the user may apply
  Prompt,     \* passes, and the replacement of a pod, are short for a clock tick
  MaxGen,     \* bound on the CR's metadata.generation
  MaxFaults,  \* bound on failed calls, restarts, failing and evicted pods
  Nil         \* "no value"

Ordinals == 0..(Replicas - 1)

SpecType == [valid : BOOLEAN, replicas : 0..Replicas, rollingDeploy : BOOLEAN,
             disablePVCDeletionFinalizer : BOOLEAN, deleteOrphanPvc : BOOLEAN]

ASSUME ClaimsAssumption ==
  /\ Replicas \in Nat
  /\ Grace \in Nat \ {0}
  /\ Specs \subseteq SpecType
  /\ Prompt \in BOOLEAN
  /\ MaxGen \in Nat \ {0}
  /\ MaxFaults \in Nat
  /\ Nil \notin Nat

CR == [exists : BOOLEAN, deleting : BOOLEAN, fin : BOOLEAN,
       gen : 1..MaxGen, spec : Specs]

\* mark: the age of the labels toBeDeleted and deletionTS; term: deleted, but
\* kept while a pod uses it.
Claim == [mark : 0..Grace \cup {Nil}, term : BOOLEAN]

ASSUME NilAssumption == Nil \notin Claim

VARIABLES
  cr,       \* the Druid CR in the API server
  sts,      \* replicas of the StatefulSet, Nil if there is none
  pods,     \* pods[i]: "none", "starting" (not running and ready) or "ready"
  claims,   \* claims[i]: the claim, Nil if there is none
  pc,       \* where the pass is
  m,        \* the CR the pass works on
  current,  \* m has the resourceVersion of cr
  replicas, \* the replicas in allNodeSpecs
  podList,  \* the pods as deleteOrphanPVC listed them
  pvcList,  \* the claims as the pass listed them
  todo,     \* listed claims still to be looked at
  up,       \* history: pods that have been ready since the pass began
  used,     \* history: marked claims whose pod has become ready since
  faults    \* faults so far

cluster == <<sts, pods, claims>>
pass    == <<pc, m, current, replicas, podList, pvcList, todo>>
history == <<up, used>>
vars    == <<cr, cluster, pass, history, faults>>

Nothing == [i \in Ordinals |-> Nil]

Existing(list) == {i \in Ordinals : list[i] # Nil}

EndPass ==
  /\ pc' = "idle" /\ m' = Nil /\ current' = FALSE /\ replicas' = 0
  /\ podList' = Nothing /\ pvcList' = Nothing /\ todo' = {}

Fault == faults < MaxFaults /\ faults' = faults + 1

\* Every pod that exists is running and ready.
AllReady(list) == \A i \in Ordinals : list[i] # "starting"
-----------------------------------------------------------------------------
(* The pass.                                                                *)

\* Mutant: the flag is not looked at, and a CR without it is left alone.
executesFinalizersDisabled(c) == c.spec.disablePVCDeletionFinalizer /\ c.fin

executesFinalizers(c) == ~c.spec.disablePVCDeletionFinalizer /\ c.fin

\* A pass over an invalid spec, or over a deleted CR whose finalizer it does not
\* execute, returns at once and changes nothing.
Reconcile ==
  /\ pc = "idle"
  /\ cr.exists /\ cr.spec.valid
  /\ cr.deleting => executesFinalizers(cr)
  /\ pc' = IF cr.deleting THEN "listClaims" ELSE "finalizers"
  /\ m' = cr /\ current' = TRUE /\ replicas' = cr.spec.replicas
  /\ up' = {i \in Ordinals : pods[i] = "ready"}
  /\ UNCHANGED <<cr, cluster, podList, pvcList, todo, used, faults>>

\* The patch replaces the finalizers and returns the CR as it is now.  Without
\* a finalizer the API server drops a CR that is being deleted.
updateFinalizers ==
  /\ pc = "finalizers"
  /\ LET want == ~m.spec.disablePVCDeletionFinalizer IN
     \/ /\ m.fin = want
        /\ pc' = "apply"
        /\ UNCHANGED <<cr, m, current, replicas, podList, pvcList, todo>>
     \/ /\ m.fin # want /\ cr.exists
        /\ cr' = [cr EXCEPT !.fin = want, !.exists = want \/ ~cr.deleting]
        /\ m' = cr' /\ current' = TRUE
        /\ pc' = "apply"
        /\ UNCHANGED <<replicas, podList, pvcList, todo>>
     \/ /\ m.fin # want /\ ~cr.exists
        /\ EndPass
        /\ UNCHANGED cr
  /\ UNCHANGED <<cluster, history, faults>>

\* The StatefulSet is created or updated.  A rolling deploy returns after an
\* update and, once the CR has been edited, while a pod is not ready.
applyStatefulSet ==
  /\ pc = "apply"
  /\ sts' = replicas
  /\ IF \/ /\ m.spec.rollingDeploy
           /\ \/ sts \notin {Nil, replicas}
              \/ m.gen > 1 /\ ~AllReady(pods)
        \/ ~(m.gen > 1 /\ m.spec.deleteOrphanPvc)
     THEN EndPass
     ELSE /\ pc' = "listPods"
          /\ UNCHANGED <<m, current, replicas, podList, pvcList, todo>>
  /\ UNCHANGED <<cr, pods, claims, history, faults>>

\* A Delete of a claim that is gone fails; one that a pod uses stays until the
\* pod is gone.  The request names the claim, not its version.
Delete(i) ==
  IF claims[i] = Nil
  THEN EndPass /\ UNCHANGED claims
  ELSE /\ claims' = [claims EXCEPT ![i] =
                       IF pods[i] = "none" THEN Nil ELSE [@ EXCEPT !.term = TRUE]]
       /\ todo' = todo \ {i}
       /\ UNCHANGED <<pc, m, current, replicas, podList, pvcList>>

-----------------------------------------------------------------------------
(* deleteOrphanPVC.                                                         *)

listPods ==
  /\ pc = "listPods"
  /\ podList' = pods
  /\ pc' = "listOrphans"
  /\ UNCHANGED <<cr, cluster, m, current, replicas, pvcList, todo, history,
                 faults>>

\* Returns when a listed pod is not running and ready.
listOrphans ==
  /\ pc = "listOrphans"
  /\ IF AllReady(podList)
     THEN /\ pvcList' = claims
          /\ todo' = Existing(claims)
          /\ pc' = "orphans"
          /\ UNCHANGED <<m, current, replicas, podList>>
     ELSE EndPass
  /\ UNCHANGED <<cr, cluster, history, faults>>

\* Mutant: only claims of pods that are missing from the list count as mounted.
mountedPVCInverted(i) == podList[i] # "ready"

mountedPVC(i) == podList[i] = "ready"

\* setPVCLabels: the update is refused if the claim has changed since the list.
\* (Claims have no resourceVersion here: one that was deleted and created again
\* with equal contents counts as unchanged.)
setPVCLabels(i, mark) ==
  IF claims[i] # pvcList[i]
  THEN EndPass /\ UNCHANGED <<claims, used>>
  ELSE /\ claims' = [claims EXCEPT ![i].mark = mark]
       /\ used' = used \ {i}
       /\ todo' = todo \ {i}
       /\ UNCHANGED <<pc, m, current, replicas, podList, pvcList>>

\* Mutant: a claim that is already marked is marked anew.
markOrphanAnew(i) == ~mountedPVC(i)

markOrphan(i) == ~mountedPVC(i) /\ pvcList[i].mark = Nil

\* One claim of the loop.  checkPVCLabelsAndDelete deletes a claim whose mark is
\* old enough.
orphan(i) ==
  /\ pc = "orphans" /\ i \in todo
  /\ \/ markOrphan(i) /\ setPVCLabels(i, 0)
     \/ /\ mountedPVC(i) /\ pvcList[i].mark # Nil
        /\ setPVCLabels(i, Nil)
     \/ /\ ~mountedPVC(i) /\ ~markOrphan(i) /\ pvcList[i].mark = Grace
        /\ Delete(i) /\ UNCHANGED used
     \/ /\ \/ mountedPVC(i) /\ pvcList[i].mark = Nil
           \/ ~mountedPVC(i) /\ ~markOrphan(i) /\ pvcList[i].mark # Grace
        /\ todo' = todo \ {i}
        /\ UNCHANGED <<claims, pc, m, current, replicas, podList, pvcList, used>>
  /\ UNCHANGED <<cr, sts, pods, up, faults>>

finishOrphans ==
  /\ pc = "orphans" /\ todo = {}
  /\ EndPass
  /\ UNCHANGED <<cr, cluster, history, faults>>

-----------------------------------------------------------------------------
(* executePVCFinalizer.                                                     *)

listClaims ==
  /\ pc = "listClaims"
  /\ pvcList' = claims
  /\ pc' = "deleteSts"
  /\ UNCHANGED <<cr, cluster, m, current, replicas, podList, todo, history,
                 faults>>

\* Mutant: the StatefulSets are left to the garbage collector.
deleteStsNot ==
  /\ pc = "deleteSts"
  /\ todo' = Existing(pvcList)
  /\ pc' = "deleteClaims"
  /\ UNCHANGED <<cr, cluster, m, current, replicas, podList, pvcList, history,
                 faults>>

\* Mutant: the claims of all ordinals are deleted, listed or not.
deleteStsAll ==
  /\ pc = "deleteSts"
  /\ sts' = Nil
  /\ todo' = Ordinals
  /\ pc' = "deleteClaims"
  /\ UNCHANGED <<cr, pods, claims, m, current, replicas, podList, pvcList,
                 history, faults>>

\* The StatefulSets are listed and deleted; nobody else does in between.
deleteSts ==
  /\ pc = "deleteSts"
  /\ sts' = Nil
  /\ todo' = Existing(pvcList)
  /\ pc' = "deleteClaims"
  /\ UNCHANGED <<cr, pods, claims, m, current, replicas, podList, pvcList,
                 history, faults>>

deletePVC(i) ==
  /\ pc = "deleteClaims" /\ i \in todo
  /\ Delete(i)
  /\ UNCHANGED <<cr, sts, pods, history, faults>>

\* The finalizer is removed, unless the CR has changed since it was read.
release ==
  /\ pc = "deleteClaims" /\ todo = {}
  /\ IF current /\ cr.exists
     THEN cr' = [cr EXCEPT !.fin = FALSE, !.exists = FALSE]
     ELSE UNCHANGED cr
  /\ EndPass
  /\ UNCHANGED <<cluster, history, faults>>

\* A call fails, or the operator restarts.
Fail ==
  /\ pc # "idle"
  /\ Fault
  /\ EndPass
  /\ UNCHANGED <<cr, cluster, history>>
-----------------------------------------------------------------------------
(* The user and Kubernetes.                                                 *)

UserEdit ==
  /\ cr.exists /\ cr.gen < MaxGen
  /\ \E s \in Specs \ {cr.spec} : cr' = [cr EXCEPT !.spec = s, !.gen = @ + 1]
  /\ current' = FALSE
  /\ UNCHANGED <<cluster, pc, m, replicas, podList, pvcList, todo, history,
                 faults>>

UserDelete ==
  /\ cr.exists /\ ~cr.deleting
  /\ cr' = IF cr.fin THEN [cr EXCEPT !.deleting = TRUE]
           ELSE [cr EXCEPT !.exists = FALSE]
  /\ current' = FALSE
  /\ UNCHANGED <<cluster, pc, m, replicas, podList, pvcList, todo, history,
                 faults>>

\* The CR owns the StatefulSet, and nobody owns the claims.
CollectGarbage ==
  /\ ~cr.exists /\ sts # Nil
  /\ sts' = Nil
  /\ UNCHANGED <<cr, pods, claims, pass, history, faults>>

Wants(i) == sts # Nil /\ i < sts

CreateClaim(i) ==
  /\ Wants(i) /\ claims[i] = Nil
  /\ claims' = [claims EXCEPT ![i] = [mark |-> Nil, term |-> FALSE]]
  /\ UNCHANGED <<cr, sts, pods, pass, history, faults>>

SetPod(i, phase) ==
  /\ pods' = [pods EXCEPT ![i] = phase]
  /\ up' = up \ {i}
  /\ UNCHANGED <<cr, sts, claims, pass>>

\* No pod is created while its claim is being deleted.
CreatePod(i) ==
  /\ Wants(i) /\ pods[i] = "none"
  /\ claims[i] # Nil /\ ~claims[i].term
  /\ SetPod(i, "starting") /\ UNCHANGED <<used, faults>>

StartPod(i) ==
  /\ pods[i] = "starting" /\ claims[i] # Nil
  /\ SetPod(i, "ready")
  /\ used' = IF claims[i].mark = Nil THEN used ELSE used \cup {i}
  /\ UNCHANGED faults

StopPod(i) ==
  /\ pods[i] # "none" /\ ~Wants(i)
  /\ SetPod(i, "none") /\ UNCHANGED <<used, faults>>

\* A pod fails its checks, or is evicted and later replaced.
PodFails(i) ==
  /\ pods[i] = "ready"
  /\ Fault
  /\ \E phase \in {"starting", "none"} : SetPod(i, phase)
  /\ UNCHANGED used

\* The protection of a claim that is in use ends with its pod.
ReleaseClaim(i) ==
  /\ claims[i] # Nil /\ claims[i].term /\ pods[i] = "none"
  /\ claims' = [claims EXCEPT ![i] = Nil]
  /\ UNCHANGED <<cr, sts, pods, pass, history, faults>>

Older(age) == IF age \in {Nil, Grace} THEN age ELSE age + 1

Aged(list) ==
  [i \in Ordinals |-> IF list[i] = Nil THEN Nil
                      ELSE [list[i] EXCEPT !.mark = Older(@)]]

Tick ==
  /\ Prompt => pc = "idle" /\ \A i \in Ordinals : Wants(i) => pods[i] # "none"
  /\ claims' = Aged(claims)
  /\ pvcList' = Aged(pvcList)
  /\ UNCHANGED <<cr, sts, pods, pc, m, current, replicas, podList, todo, history,
                 faults>>

Init ==
  /\ \E s \in Specs : cr = [exists |-> TRUE, deleting |-> FALSE, fin |-> FALSE,
                            gen |-> 1, spec |-> s]
  /\ sts = Nil
  /\ pods = [i \in Ordinals |-> "none"]
  /\ claims = Nothing
  /\ pc = "idle" /\ m = Nil /\ current = FALSE /\ replicas = 0
  /\ podList = Nothing /\ pvcList = Nothing /\ todo = {}
  /\ up = {} /\ used = {}
  /\ faults = 0

PassStep ==
  \/ Reconcile \/ updateFinalizers \/ applyStatefulSet
  \/ listPods \/ listOrphans \/ (\E i \in Ordinals : orphan(i)) \/ finishOrphans
  \/ listClaims \/ deleteSts \/ (\E i \in Ordinals : deletePVC(i)) \/ release

Kubernetes(i) ==
  CreateClaim(i) \/ CreatePod(i) \/ StartPod(i) \/ StopPod(i) \/ ReleaseClaim(i)

Next ==
  \/ PassStep \/ Fail
  \/ UserEdit \/ UserDelete
  \/ CollectGarbage \/ Tick
  \/ \E i \in Ordinals : Kubernetes(i) \/ PodFails(i)

Spec == Init /\ [][Next]_vars

\* Every pass that ends is followed by another, time passes, and the
\* controllers of Kubernetes keep working.
FairSpec ==
  /\ Spec
  /\ WF_vars(PassStep) /\ WF_vars(Tick) /\ WF_vars(CollectGarbage)
  /\ \A i \in Ordinals : WF_vars(Kubernetes(i))
-----------------------------------------------------------------------------
(* Properties.                                                              *)

TypeOK ==
  /\ cr \in CR
  /\ cr.exists /\ cr.deleting => cr.fin
  /\ sts \in 0..Replicas \cup {Nil}
  /\ pods \in [Ordinals -> {"none", "starting", "ready"}]
  /\ claims \in [Ordinals -> Claim \cup {Nil}]
  /\ pc \in {"idle", "finalizers", "apply", "listPods", "listOrphans", "orphans",
             "listClaims", "deleteSts", "deleteClaims"}
  /\ IF pc = "idle" THEN m = Nil ELSE m \in CR
  /\ current \in BOOLEAN
  /\ replicas \in 0..Replicas
  /\ podList \in [Ordinals -> {"none", "starting", "ready", Nil}]
  /\ pvcList \in [Ordinals -> Claim \cup {Nil}]
  /\ todo \subseteq Existing(pvcList)
  /\ up \subseteq Ordinals
  /\ used \subseteq Ordinals
  /\ faults \in 0..MaxFaults

\* The operator deletes claim i: it is gone, or only kept for the pod using it.
Deleted(i) ==
  /\ pc \in {"orphans", "deleteClaims"}
  /\ claims[i] # Nil /\ ~claims[i].term
  /\ claims'[i] = Nil \/ claims'[i].term

\* A claim that a pod has had mounted since the pass began is deleted only if
\* the StatefulSet, which would start the pod again, has been deleted: neither
\* the order of executePVCFinalizer ("delete sts first and then delete pvc")
\* nor the lists of deleteOrphanPVC, made at different times, take it away.
MountedKept ==
  [][\A i \in Ordinals : Deleted(i) => i \notin up \/ sts = Nil]_vars

\* When the finalizer is removed, every claim the pass has found is deleted or
\* waits for its pod to end, also if earlier passes failed half way, if claims
\* went and came back under the same name, or if the CR was edited.
ClaimsGoFirst ==
  [][cr.exists /\ ~cr'.exists /\ pc = "deleteClaims" =>
       \A i \in Existing(pvcList) : claims[i] = Nil \/ claims[i].term]_vars

\* A deleted CR whose spec is valid and does not disable the finalizer is
\* released in the end.
Released ==
  ~ <>[](/\ cr.exists /\ cr.deleting /\ cr.spec.valid
         /\ ~cr.spec.disablePVCDeletionFinalizer)

\* A claim of an ordinal that is no longer asked for is in the end deleted, if
\* deleteOrphanPvc stays set: the grace period is not started again for ever.
\* The fairness makes every pod ready in the end; one that never is would keep
\* every orphan, since deleteOrphanPVC returns while any pod is not ready.
OrphanRemoved ==
  \A i \in Ordinals :
    <>[](/\ cr.exists /\ ~cr.deleting /\ cr.gen > 1 /\ cr.spec.valid
         /\ cr.spec.deleteOrphanPvc /\ i >= cr.spec.replicas)
      => <>[](claims[i] = Nil)

\* deleteOrphanPVC deletes "Orphaned (unmounted PVCs)": never the claim of an
\* ordinal the StatefulSet asks for whose pod has run since the claim was
\* marked, and is only being replaced.
NeededKept ==
  [][\A i \in Ordinals :
       pc = "orphans" /\ Deleted(i) => ~(Wants(i) /\ i \in used)]_vars
-----------------------------------------------------------------------------
(* What makes MountedKept and ClaimsGoFirst inductive.                      *)

ClaimsInv ==
  /\ pc \notin {"orphans", "deleteClaims"} => todo = {}
  /\ \A i \in up : pods[i] = "ready"
  /\ pc \in {"listOrphans", "orphans"} => \A i \in up : podList[i] = "ready"
  /\ pc \in {"listClaims", "deleteSts", "deleteClaims"} => cr.deleting
  /\ pc = "deleteClaims" =>
       /\ sts = Nil
       /\ \A i \in Existing(pvcList) \ todo : claims[i] = Nil \/ claims[i].term
=============================================================================
