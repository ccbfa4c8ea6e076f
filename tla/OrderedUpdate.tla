---------------------------- MODULE OrderedUpdate ----------------------------
(***************************************************************************)
(* What an operator that replaces a set of things promises: it works for   *)
(* one goal at a time, puts a thing in place only when the wanted things   *)
(* before it are, and removes things only when everything wanted is in     *)
(* place, never a wanted one.  It may give up at any time and begin again  *)
(* with another goal.                                                      *)
(***************************************************************************)
CONSTANTS
  Things,   \* what may exist
  Want,     \* Want[g]: the wanted things of goal g, and what they should be
  Before,   \* pairs of things: the first is put in place before the second
  Absent    \* no thing, no goal

VARIABLES
  goal,     \* the goal worked for, Absent between two attempts
  have      \* have[o]: what thing o is, Absent if it does not exist

InPlace(o) == have[o] = Want[goal][o]

Init == goal = Absent /\ have = [o \in Things |-> Absent]

Adopt ==
  /\ goal = Absent
  /\ goal' \in DOMAIN Want
  /\ UNCHANGED have

Put(o) ==
  /\ goal # Absent
  /\ o \in DOMAIN Want[goal]
  /\ \A p \in DOMAIN Want[goal] : <<p, o>> \in Before => InPlace(p)
  /\ have' = [have EXCEPT ![o] = Want[goal][o]]
  /\ goal' \in {goal, Absent}

Remove ==
  /\ goal # Absent
  /\ \A o \in DOMAIN Want[goal] : InPlace(o)
  /\ \E out \in SUBSET (Things \ DOMAIN Want[goal]) :
       have' = [o \in Things |-> IF o \in out THEN Absent ELSE have[o]]
  /\ UNCHANGED goal

GiveUp == goal' = Absent /\ UNCHANGED have

Next == Adopt \/ (\E o \in Things : Put(o)) \/ Remove \/ GiveUp

Spec == Init /\ [][Next]_<<goal, have>>
=============================================================================
