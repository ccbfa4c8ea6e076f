----------------------------- MODULE DynamicConfig -----------------------------
(***************************************************************************)
(* dynamic_config.go: the dynamic configurations of the overlord (key      *)
(* middlemanagers) and the coordinator are read from Druid and posted if   *)
(* what the CR asks for is not part of them.  Any error ends the pass.     *)
(* Druid is external: it refuses some bodies and drops the keys it does    *)
(* not know; an administrator may post as well.                            *)
(***************************************************************************)
EXTENDS JsonIncludes, Sequences

CONSTANTS
  Known,      \* keys Druid knows, by node type
  Refused,    \* configurations Druid answers with an error
  AdminPosts, \* configurations an administrator may post
  Nil

VARIABLES
  cr,      \* the Druid CR; cr.dynamic[t] is a configuration or Nil
  server,  \* the configurations Druid has, by node type
  pc, m,   \* the pass, as in DruidController
  at       \* the node type the pass is at, and whether to "get" or "post"

nodeTypes == <<"middlemanagers", "coordinators">>

Types == {nodeTypes[n] : n \in DOMAIN nodeTypes}

\* Mutant: the call ends with the first node type.
ConfiguredFirst(t) == m.dynamic[t] # Nil /\ t = nodeTypes[1]

Configured(t) == m.dynamic[t] # Nil

Done == pc' = "idle" /\ m' = Nil /\ at' = Nil

\* The next node type with a configuration, or the end of the pass.
Advance(n) ==
  IF n < Len(nodeTypes)
  THEN at' = [n |-> n + 1, call |-> "get"] /\ UNCHANGED <<pc, m>>
  ELSE Done

updateDruidDynamicConfigs ==
  /\ pc = "dynamic" /\ at = Nil
  /\ Advance(0)
  /\ UNCHANGED <<cr, server>>

\* Mutant: the configurations have to be equal.
UpToDateEqual(t) == server[t] = m.dynamic[t]

UpToDate(t) == includes(server[t], m.dynamic[t])

getConfig ==
  /\ at # Nil /\ at.call = "get"
  /\ LET t == nodeTypes[at.n] IN
     IF Configured(t) /\ ~UpToDate(t)
     THEN at' = [at EXCEPT !.call = "post"] /\ UNCHANGED <<pc, m>>
     ELSE Advance(at.n)
  /\ UNCHANGED <<cr, server>>

\* The overlord's configuration is replaced, the coordinator's is merged.
Merged(t, current, config) ==
  LET kept == {key \in DOMAIN config : key \in Known[t]}
      old  == IF t = "coordinators" THEN DOMAIN current \ kept ELSE {}
  IN [key \in kept \cup old |-> IF key \in kept THEN config[key] ELSE current[key]]

Posted(t, config) == Merged(t, server[t], config)

postConfig ==
  /\ at # Nil /\ at.call = "post"
  /\ LET t == nodeTypes[at.n] IN
     IF m.dynamic[t] \in Refused
     THEN Done /\ UNCHANGED server
     ELSE /\ server' = [server EXCEPT ![t] = Posted(t, m.dynamic[t])]
          /\ Advance(at.n)
  /\ UNCHANGED cr

DynamicStep == updateDruidDynamicConfigs \/ getConfig \/ postConfig

AdminPost ==
  /\ \E t \in Types, config \in AdminPosts :
       server' = [server EXCEPT ![t] = Posted(t, config)]
  /\ UNCHANGED <<cr, pc, m, at>>
=============================================================================
