------------------------------- MODULE MCClaims -------------------------------
(* Small instances of Claims.                                               *)
EXTENDS Claims

CRSpec(r, disable) ==
  [valid |-> TRUE, replicas |-> r, rollingDeploy |-> TRUE,
   disablePVCDeletionFinalizer |-> disable, deleteOrphanPvc |-> TRUE]

\* Scaling down and up, with and without the rolling deploy, while the
\* finalizer is switched off and on.
ScaleSpecs ==
  {CRSpec(2, FALSE), [CRSpec(1, TRUE) EXCEPT !.rollingDeploy = FALSE]}

\* The replicas do not change; the first spec is edited.
SameSpecs == {[CRSpec(2, FALSE) EXCEPT !.rollingDeploy = b] : b \in BOOLEAN}
=============================================================================
