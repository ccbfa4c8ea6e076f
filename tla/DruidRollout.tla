----------------------------- MODULE DruidRollout -----------------------------
(***************************************************************************)
(* DruidReconcile with a history variable for the gate of a rolling        *)
(* deploy.  The status that isObjFullyDeployed reads may have been         *)
(* computed for an earlier spec than the one the operator has written, and *)
(* the code does not look whether it was.  By the time a later workload is *)
(* updated the status may have been refreshed, so what the gate saw has to *)
(* be remembered.                                                          *)
(***************************************************************************)
EXTENDS DruidReconcile

VARIABLE behind  \* the nodes whose status was not about the last write when
                 \* the gate of this pass let them through

rolloutVars == <<vars, behind>>

\* The gate lets the pass go on.
PassesGate == pc = "deployed" /\ pc' \in {"loop", "crashAgain"}

\* The status of the node's workload is about an earlier write.
Lagging(n) ==
  LET w == <<snap.nodes[n].kind, n>> IN rollout[w].upd # store[w]

Remember ==
  behind' = IF pc' = "idle" THEN {}
            ELSE behind \cup {n \in {node} : PassesGate /\ Lagging(n)}

RolloutInit == Init /\ behind = {}

RolloutSpec == RolloutInit /\ [][Next /\ Remember]_rolloutVars

\* A rolling deploy updates a workload only when the StatefulSets of all earlier
\* types have been rolled out (the !done returns of the node loop), but for one
\* that this pass went past on a status from before its last update.  This is
\* the only way past the gate, however late statuses and caches are.
RollingUnlessBehind ==
  [][\A w \in Workloads \X Nodes : Updated(w) /\ Rolling =>
        \A a \in DOMAIN snap.nodes :
          Rank(a) < Rank(w[2]) /\ snap.nodes[a].kind = "StatefulSet" =>
            RolledOut(<<"StatefulSet", a>>) \/ a \in behind]_rolloutVars
-----------------------------------------------------------------------------
(* What makes it inductive.                                                 *)

\* A StatefulSet the gate has let through.
Through(n) ==
  \/ n \in behind
  \/ store[<<"StatefulSet", n>>] # Nil /\ RolledOut(<<"StatefulSet", n>>)

\* A rolling deploy has passed only StatefulSets that the gate has let through.
GateInv ==
  pc # "idle" /\ Rolling =>
    /\ \A n \in done : snap.nodes[n].kind = "StatefulSet" => Through(n)
    /\ node # Nil /\ pc \in {"loop", "crashAgain"} /\ "StatefulSet" \in did =>
         Through(node)
===============================================================================
