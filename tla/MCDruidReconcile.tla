--------------------------- MODULE MCDruidReconcile ---------------------------
(* Small instances of DruidReconcile.                                       *)
EXTENDS DruidReconcile

CONSTANTS hist, brok     \* node keys

MCNodeType ==
  [n \in Nodes |-> IF n = hist THEN "historical" ELSE "broker"]

Node(kind, cfg, opts) == [kind |-> kind, cfg |-> cfg, opts |-> opts]

CRSpec(rolling, common, nodes) ==
  [valid |-> TRUE, rollingDeploy |-> rolling, forceDelete |-> TRUE,
   disableFinalizer |-> FALSE, common |-> common, nodes |-> nodes]

Sts(v) == Node("StatefulSet", v, {})
StsSvc(v) == Node("StatefulSet", v, {"Service"})
Dep(v) == Node("Deployment", v, {})

\* A historical and a broker tier: both configurations change, and back.
RollingSpecs ==
  {CRSpec(TRUE, v, [n \in {hist, brok} |-> IF n = brok THEN StsSvc(v) ELSE Sts(v)]) :
      v \in {1, 2}}

\* One node that changes its kind and its optional objects, goes away and comes
\* back; an invalid spec; the finalizer switched off.
KindSpecs ==
  LET one(r, ns) == CRSpec(r, 1, [n \in {brok} |-> ns]) IN
  {one(TRUE, Node("StatefulSet", 1, {"Service", "HorizontalPodAutoscaler",
                                     "PersistentVolumeClaim"})),
   [one(FALSE, Node("Deployment", 1, {"Ingress", "PodDisruptionBudget"}))
      EXCEPT !.disableFinalizer = TRUE],
   CRSpec(TRUE, 1, [n \in {} |-> Dep(1)]),
   [one(TRUE, Sts(1)) EXCEPT !.valid = FALSE]}

\* Two tiers; the configuration 2 makes the pods of the first crash.
StuckSpecs ==
  {CRSpec(TRUE, 1, [n \in {hist, brok} |-> Sts(IF n = brok THEN 1 ELSE v)]) :
      v \in {1, 2}}

\* A node whose configuration 2 makes its pods crash, and which may become a
\* Deployment.
CrashSpecs ==
  {CRSpec(TRUE, 1, [n \in {brok} |-> Sts(v)]) : v \in {1, 2}} \cup
  {CRSpec(FALSE, 1, [n \in {brok} |-> Dep(1)])}
===============================================================================
