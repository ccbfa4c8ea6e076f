---------------------------- MODULE VolumeExpansion ----------------------------
(***************************************************************************)
(* volume_expansion.go: the claims of a StatefulSet grow to the sizes the  *)
(* CR asks for.  The templates of a StatefulSet are immutable, so the      *)
(* operator deletes the StatefulSet, orphaning its pods, patches the       *)
(* claims and creates the StatefulSet anew.                                *)
(*                                                                         *)
(* The steps here are those of one node in deployDruidCluster, one API     *)
(* call each; DruidController puts them into a pass.  The cluster has one  *)
(* StatefulSet, and claims are the pairs of a template and an ordinal.     *)
(***************************************************************************)
EXTENDS Naturals, Sequences, FiniteSets

CONSTANTS
  Ordinals,   \* the pods of the StatefulSet
  Nil         \* "no value"

VARIABLES
  cr,       \* the Druid CR: gen, scalePvcSts, sizes, ...
  allow,    \* the storage class has allowVolumeExpansion
  sts,      \* the StatefulSet [sizes, term], Nil if there is none
  ready,    \* its status.replicas and status.readyReplicas are equal
  claims,   \* size of every claim, Nil if there is none
  pc,       \* where the pass is
  m,        \* the CR the pass works on
  i,        \* the template the loop is at
  cur,      \* template sizes of the StatefulSet as it was read
  pvcSize,  \* sizes of the claims as they were listed
  todo      \* listed claims still to be patched for template i

expansion == <<i, cur, pvcSize, todo>>

\* No call is under way: the local variables of scalePVCForSts are dead.
Forget == i' = 0 /\ cur' = <<>> /\ pvcSize' = Nil /\ todo' = {}

\* scalePVCForSts returns nil, and the StatefulSet is created or updated.
Proceed == pc' = "apply" /\ Forget

\* An error ends the pass.
Error == pc' = "idle" /\ m' = Nil /\ Forget

Existing(list) == {c \in DOMAIN list : list[c] # Nil}

\* Reading the storage class is left out: isVolumeExpansionEnabled compares two
\* pointers, so that every class it finds counts as expandable.
expandStatefulSetVolumes ==
  /\ pc = "expand"
  /\ IF m.gen > 1 /\ m.scalePvcSts
     THEN pc' = "check" /\ UNCHANGED expansion
     ELSE Proceed
  /\ UNCHANGED <<cr, allow, sts, ready, claims, m>>

\* The list of StatefulSets: all have to be ready.
checkReady ==
  /\ pc = "check"
  /\ IF sts # Nil /\ ~ready
     THEN Proceed
     ELSE pc' = "getSts" /\ UNCHANGED expansion
  /\ UNCHANGED <<cr, allow, sts, ready, claims, m>>

\* Mutant: the error is returned.
stsMissingError == Error

\* Not an error: "we would like the operator to create sts".
stsMissing == Proceed /\ UNCHANGED m

getStatefulSet ==
  /\ pc = "getSts"
  /\ IF sts = Nil
     THEN stsMissing
     ELSE /\ pc' = "listClaims" /\ cur' = sts.sizes
          /\ UNCHANGED <<m, i, pvcSize, todo>>
  /\ UNCHANGED <<cr, allow, sts, ready, claims>>

listClaims ==
  /\ pc = "listClaims"
  /\ IF Cardinality(Existing(claims)) < Len(m.sizes)
     THEN Proceed
     ELSE pc' = "template" /\ i' = 1 /\ pvcSize' = claims /\ UNCHANGED <<cur, todo>>
  /\ UNCHANGED <<cr, allow, sts, ready, claims, m>>

\* A list or a read that fails is not an error either.
readFails ==
  /\ pc \in {"check", "getSts", "listClaims"}
  /\ Proceed
  /\ UNCHANGED <<cr, allow, sts, ready, claims, m>>

\* Mutant: the size is compared with those of the claims.
GrowsClaims == \E c \in Existing(pvcSize) : m.sizes[i] > pvcSize[c]

Grows == m.sizes[i] > cur[i]

\* Mutant: claims are patched only when the StatefulSet is being replaced.
ToPatchReplaced == {c \in Existing(pvcSize) : pvcSize[c] # m.sizes[i] /\ Grows}

\* Every claim of the node is compared, whatever template it is from.
ToPatch == {c \in Existing(pvcSize) : pvcSize[c] # m.sizes[i]}

\* One template: shrinking is an error, growing deletes the StatefulSet, which
\* the API server keeps until its pods are orphaned.
compareTemplate ==
  /\ pc = "template"
  /\ \/ m.sizes[i] < cur[i] /\ Error /\ UNCHANGED sts
     \/ Grows /\ sts = Nil /\ Error /\ UNCHANGED sts
     \/ /\ IF Grows THEN sts # Nil /\ sts' = [sts EXCEPT !.term = TRUE]
           ELSE m.sizes[i] >= cur[i] /\ UNCHANGED sts
        /\ pc' = "patch" /\ todo' = ToPatch
        /\ UNCHANGED <<i, m, cur, pvcSize>>
  /\ UNCHANGED <<cr, allow, ready, claims>>

\* The API server lets claims grow, if the storage class does, and never shrink.
PatchAllowed(c) == m.sizes[i] = claims[c] \/ (allow /\ m.sizes[i] > claims[c])

patchClaim(c) ==
  /\ pc = "patch" /\ c \in todo
  /\ IF PatchAllowed(c)
     THEN /\ claims' = [claims EXCEPT ![c] = m.sizes[i]]
          /\ todo' = todo \ {c}
          /\ UNCHANGED <<pc, m, i, cur, pvcSize>>
     ELSE Error /\ UNCHANGED claims
  /\ UNCHANGED <<cr, allow, sts, ready>>

\* Mutant: off by one.
MoreTemplatesOne == i <= Len(m.sizes)

MoreTemplates == i < Len(m.sizes)

nextTemplate ==
  /\ pc = "patch" /\ todo = {}
  /\ IF MoreTemplates
     THEN pc' = "template" /\ i' = i + 1 /\ UNCHANGED <<cur, pvcSize, todo>>
     ELSE Proceed
  /\ UNCHANGED <<cr, allow, sts, ready, claims, m>>

\* A StatefulSet with other templates cannot be updated.  The status of a new
\* one says whatever its pods are up to.
applyStatefulSet ==
  /\ pc = "apply"
  /\ \/ /\ sts = Nil
        /\ sts' = [sizes |-> m.sizes, term |-> FALSE]
        /\ pc' = "dynamic" /\ ready' \in BOOLEAN
        /\ UNCHANGED <<m, expansion>>
     \/ /\ sts # Nil /\ sts.sizes = m.sizes
        /\ pc' = "dynamic"
        /\ UNCHANGED <<m, expansion, sts, ready>>
     \/ /\ sts # Nil /\ sts.sizes # m.sizes
        /\ Error /\ UNCHANGED <<sts, ready>>
  /\ UNCHANGED <<cr, allow, claims>>

ExpansionStep ==
  \/ expandStatefulSetVolumes \/ checkReady \/ getStatefulSet \/ listClaims
  \/ compareTemplate \/ (\E c \in DOMAIN claims : patchClaim(c)) \/ nextTemplate
  \/ applyStatefulSet
-----------------------------------------------------------------------------
(* Kubernetes.                                                              *)

OrphansReleased ==
  /\ sts # Nil /\ sts.term
  /\ sts' = Nil
  /\ UNCHANGED <<cr, allow, ready, claims, pc, m, expansion>>

CreateClaim(c) ==
  /\ sts # Nil /\ ~sts.term
  /\ claims[c] = Nil
  /\ claims' = [claims EXCEPT ![c] = sts.sizes[c[1]]]
  /\ UNCHANGED <<cr, allow, sts, ready, pc, m, expansion>>

PodsReady ==
  /\ ~ready
  /\ ready' = TRUE
  /\ UNCHANGED <<cr, allow, sts, claims, pc, m, expansion>>

PodsNotReady ==
  /\ ready
  /\ ready' = FALSE
  /\ UNCHANGED <<cr, allow, sts, claims, pc, m, expansion>>

Kubernetes ==
  OrphansReleased \/ PodsReady \/ \E c \in DOMAIN claims : CreateClaim(c)
=============================================================================
