----------------------------- MODULE JsonIncludes -----------------------------
(***************************************************************************)
(* IncludesJson of pkg/util/util.go.  A JSON value is a leaf, an object    *)
(* (a function from keys to values) or a list, of which only the set of    *)
(* its items matters to the comparison.                                    *)
(***************************************************************************)
EXTENDS Naturals

CONSTANTS
  Objects,  \* the objects that may occur, nested ones included
  Depth     \* how deep the nesting in an object is

Leaf(v) == [kind |-> "leaf", leaf |-> v]
Object(f) == [kind |-> "object", object |-> f]
List(items) == [kind |-> "list", list |-> items]

\* The values in an object; what json.Unmarshal returns is of finite depth.
IsValue(v, depth) ==
  \/ v.kind = "leaf" /\ v = Leaf(v.leaf)
  \/ /\ v.kind = "object" /\ v = Object(v.object)
     /\ v.object \in Objects /\ Depth[v.object] < depth
  \/ v.kind = "list" /\ v = List(v.list)

ASSUME JsonAssumption ==
  /\ Depth \in [Objects -> Nat]
  /\ \A o \in Objects : /\ o = [key \in DOMAIN o |-> o[key]]
                        /\ \A key \in DOMAIN o : IsValue(o[key], Depth[o])

sliceIncludes(current, desired) == desired \subseteq current

\* The body of includes; nested has its results for nested objects.
includesBody(nested, current, desired) ==
  \A key \in DOMAIN desired :
    /\ key \in DOMAIN current
    /\ LET c == current[key]
           d == desired[key]
       IN \/ c = d
          \/ /\ d.kind = "object" /\ c.kind = "object"
             /\ nested[<<c.object, d.object>>]
          \/ /\ d.kind = "list" /\ c.kind = "list"
             /\ sliceIncludes(c.list, d.list)

\* The recursion, on pairs of objects.
included[p \in Objects \X Objects] == includesBody(included, p[1], p[2])

\* Mutant: nested objects have to be equal.
includesFlat(current, desired) ==
  \A key \in DOMAIN desired :
    key \in DOMAIN current /\ current[key] = desired[key]

includes(current, desired) == included[<<current, desired>>]

-----------------------------------------------------------------------------
(* A reference definition: nothing changes when desired is laid over        *)
(* current, where objects are merged and lists united.                      *)

overlayBody(nested, current, desired) ==
  [key \in DOMAIN current \cup DOMAIN desired |->
    IF key \notin DOMAIN desired THEN current[key]
    ELSE IF key \notin DOMAIN current THEN desired[key]
    ELSE LET c == current[key]
             d == desired[key]
         IN CASE d.kind = "object" /\ c.kind = "object" ->
                   Object(nested[<<c.object, d.object>>])
              [] d.kind = "list" /\ c.kind = "list" -> List(c.list \cup d.list)
              [] OTHER -> d]

overlay[p \in Objects \X Objects] == overlayBody(overlay, p[1], p[2])

Covers(current, desired) == overlay[<<current, desired>>] = current
=============================================================================
