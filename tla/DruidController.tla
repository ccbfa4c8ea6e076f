--------------------------- MODULE DruidController ---------------------------
(***************************************************************************)
(* Reconcile of druid_controller.go, reduced to a StatefulSet with claims: *)
(* deployDruidCluster, here the expansion of volumes, and, if it returns   *)
(* no error, the dynamic configurations.  Errors and the end of a pass     *)
(* both lead to another pass.                                              *)
(***************************************************************************)
EXTENDS JsonIncludes, Sequences

CONSTANTS
  Templates,  \* number of volume claim templates
  Ordinals,   \* the pods of the StatefulSet
  Sizes,      \* sizes of claims
  Specs,      \* the specs the user may apply
  Known, Refused, AdminPosts,   \* see DynamicConfig
  MaxGen,     \* bound on the CR's metadata.generation
  MaxFaults,  \* bound on failed calls, restarts, failing pods, foreign posts
  Nil         \* "no value"

VARIABLES
  cr, allow, sts, ready, claims, pc, m, i, cur, pvcSize, todo, server, at,
  faults

VE == INSTANCE VolumeExpansion
DC == INSTANCE DynamicConfig

SizesOfAll == [1..Templates -> Sizes]

Druid == [gen : 1..MaxGen, scalePvcSts : BOOLEAN, sizes : SizesOfAll,
          dynamic : {s.dynamic : s \in Specs}]

ASSUME ControllerAssumption ==
  /\ Templates \in Nat \ {0}
  /\ Sizes \subseteq Nat
  /\ \A s \in Specs : /\ s.scalePvcSts \in BOOLEAN
                      /\ s.sizes \in SizesOfAll
                      /\ s.dynamic \in [DC!Types -> Objects \cup {Nil}]
  /\ AdminPosts \subseteq Objects
  /\ <<>> \in Objects /\ Nil \notin Objects
  /\ \A t \in DC!Types, current, config \in Objects :
       DC!Merged(t, current, config) \in Objects
  /\ MaxGen \in Nat \ {0}
  /\ MaxFaults \in Nat
  /\ Nil \notin Nat /\ Nil \notin Druid

Claims == (1..Templates) \X Ordinals

expansion == <<i, cur, pvcSize, todo>>
storage == <<allow, sts, ready, claims>>
vars == <<cr, storage, pc, m, expansion, server, at, faults>>

Fault == faults < MaxFaults /\ faults' = faults + 1

CRWith(gen, s) ==
  [gen |-> gen, scalePvcSts |-> s.scalePvcSts, sizes |-> s.sizes,
   dynamic |-> s.dynamic]

Init ==
  /\ \E s \in Specs : cr = CRWith(1, s)
  /\ allow \in BOOLEAN
  /\ sts = Nil /\ ready = TRUE
  /\ claims = [c \in Claims |-> Nil]
  /\ pc = "idle" /\ m = Nil
  /\ i = 0 /\ cur = <<>> /\ pvcSize = Nil /\ todo = {}
  /\ server = [t \in DC!Types |-> <<>>]
  /\ at = Nil
  /\ faults = 0

Reconcile ==
  /\ pc = "idle"
  /\ pc' = "expand" /\ m' = cr
  /\ UNCHANGED <<cr, storage, expansion, server, at, faults>>

deployDruidCluster == VE!ExpansionStep /\ UNCHANGED <<server, at, faults>>

updateDruidDynamicConfigs ==
  DC!DynamicStep /\ UNCHANGED <<storage, expansion, faults>>

PassStep == Reconcile \/ deployDruidCluster \/ updateDruidDynamicConfigs

\* A call fails, or the operator restarts.
Fail ==
  /\ pc # "idle"
  /\ Fault
  /\ \/ VE!Error /\ at' = Nil /\ UNCHANGED <<cr, storage, server>>
     \/ VE!readFails /\ UNCHANGED <<server, at>>

UserEdit ==
  /\ cr.gen < MaxGen
  /\ \E s \in Specs : cr' = CRWith(cr.gen + 1, s) /\ cr' # [cr EXCEPT !.gen = @ + 1]
  /\ UNCHANGED <<storage, pc, m, expansion, server, at, faults>>

Kubernetes == VE!Kubernetes /\ UNCHANGED <<server, at, faults>>

Disturbance ==
  \/ Fault /\ VE!PodsNotReady /\ UNCHANGED <<server, at>>
  \/ Fault /\ DC!AdminPost /\ UNCHANGED <<storage, expansion>>

Next == PassStep \/ Fail \/ UserEdit \/ Kubernetes \/ Disturbance

Spec == Init /\ [][Next]_vars

\* Passes follow each other and calls return; the controllers of Kubernetes
\* keep working.
FairSpec == Spec /\ WF_vars(PassStep) /\ WF_vars(Kubernetes)
-----------------------------------------------------------------------------
(* Properties.                                                              *)

TypeOK ==
  /\ cr \in Druid
  /\ allow \in BOOLEAN /\ ready \in BOOLEAN
  /\ sts = Nil \/ sts \in [sizes : SizesOfAll, term : BOOLEAN]
  /\ claims \in [Claims -> Sizes \cup {Nil}]
  /\ pc \in {"idle", "expand", "check", "getSts", "listClaims", "template",
             "patch", "apply", "dynamic"}
  /\ (m = Nil) = (pc = "idle")
  /\ i \in 0..Templates /\ (i > 0) = (pc \in {"template", "patch"})
  /\ cur \in SizesOfAll \cup {<<>>}
  /\ pvcSize = Nil \/ pvcSize \in [Claims -> Sizes \cup {Nil}]
  /\ todo \subseteq Claims
  /\ at # Nil => pc = "dynamic"
  /\ server \in [DC!Types -> Objects]
  /\ \A t \in DC!Types : DOMAIN server[t] \subseteq Known[t]
  /\ faults \in 0..MaxFaults

\* A StatefulSet is deleted only in a pass whose CR asks for more than this very
\* StatefulSet has: its sizes were read several calls before, and it may have
\* gone or been deleted meanwhile, but it is never another one that is deleted.
DeletedToGrow ==
  [][sts # Nil /\ ~sts.term /\ sts' # Nil /\ sts'.term =>
       \E t \in 1..Templates : m.sizes[t] > sts.sizes[t]]_vars

\* The spec can be reached: it asks for no less than what is there, and, to
\* grow, the operator and the storage class are allowed to.
Reachable ==
  IF cr.gen > 1 /\ cr.scalePvcSts
  THEN /\ allow
       /\ \A c \in Claims : claims[c] = Nil \/ claims[c] <= cr.sizes[c[1]]
       /\ sts = Nil \/ \A t \in 1..Templates : sts.sizes[t] <= cr.sizes[t]
  ELSE sts = Nil \/ sts.sizes = cr.sizes

\* "scalePVCForSts shall expand the StatefulSet's VolumeClaimTemplates size as
\* well as N no of pvc supported by the sts": in the end both have the sizes of
\* the CR, wherever passes failed between the deletion of the StatefulSet, the
\* patches and its creation.
Expanded ==
  <>[](Reachable /\ cr.gen > 1 /\ cr.scalePvcSts)
    => <>[](/\ sts # Nil /\ sts.sizes = cr.sizes
            /\ \A c \in Claims : claims[c] = cr.sizes[c[1]])

\* A StatefulSet the operator has deleted comes back, also if the sizes are
\* edited again meanwhile or the storage class does not allow the patches.
StatefulSetBack == (sts = Nil) ~> (sts # Nil)

\* The configurations of the CR that reach Druid: those it knows the keys of
\* and accepts, behind no refused one.
Supported(t) ==
  /\ cr.dynamic[t] # Nil
  /\ DOMAIN cr.dynamic[t] \subseteq Known[t]
  /\ \A u \in DC!Types : cr.dynamic[u] \notin Refused

\* Both node types get their dynamic configuration in the end, if
\* deployDruidCluster can succeed: an error for one of them, or somebody else's
\* post, only delays the other.
DynamicApplied ==
  \A t \in DC!Types :
    <>[](Reachable /\ Supported(t))
      => <>[](cr.dynamic[t] # Nil /\ Covers(server[t], cr.dynamic[t]))

\* Posting comes to an end: the comparison finds what has been posted.
PostsEnd ==
  <>[](\A t \in DC!Types : cr.dynamic[t] # Nil => Supported(t))
    => <>[][~DC!postConfig]_vars

\* includes of pkg/util/util.go, on every pair it is called with, says whether
\* laying the desired configuration over the current one would change nothing.
IncludesIsCovers ==
  \A t \in DC!Types :
    pc = "dynamic" /\ m.dynamic[t] # Nil =>
      (includes(server[t], m.dynamic[t]) <=> Covers(server[t], m.dynamic[t]))
-----------------------------------------------------------------------------
(* What makes TypeOK and DeletedToGrow inductive.                           *)

PassInv ==
  /\ m # Nil => m \in Druid
  /\ pc \in {"listClaims", "template", "patch"} =>
       cur \in SizesOfAll /\ (sts # Nil => sts.sizes = cur)
  /\ pc \in {"template", "patch"} => pvcSize \in [Claims -> Sizes \cup {Nil}]
  /\ at # Nil =>
       /\ at \in [n : DOMAIN DC!nodeTypes, call : {"get", "post"}]
       /\ at.call = "post" => m.dynamic[DC!nodeTypes[at.n]] # Nil
=============================================================================
