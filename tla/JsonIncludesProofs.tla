-------------------------- MODULE JsonIncludesProofs --------------------------
(***************************************************************************)
(* Proofs about JsonIncludes: the recursion of includes ends, and its      *)
(* result is that of the reference definition, for objects of any depth.   *)
(***************************************************************************)
EXTENDS JsonIncludes, WellFoundedInduction, TLAPS

Pairs == Objects \X Objects

Below(n) == {p \in Pairs : Depth[p[1]] < n}

\* Induction over Nat, for sets.
LEMMA Least ==
  ASSUME NEW T, T \subseteq Nat, T # {}
  PROVE  \E n \in T : \A k \in T : ~(k < n)
<1>1. \E n \in T : \A k \in T : <<k, n>> \notin OpToRel(<, Nat)
  BY WFMin, NatLessThanWellFounded, Zenon
<1>2. \A k, n \in T : k < n => <<k, n>> \in OpToRel(<, Nat)
  BY DEF OpToRel
<1> QED BY <1>1, <1>2

\* Pairs of nested objects are below those they are nested in.
LEMMA BelowFacts ==
  /\ \A n : Below(n) \subseteq Pairs
  /\ Below(0) = {}
  /\ \A p \in Pairs : Depth[p[1]] \in Nat /\ p = <<p[1], p[2]>>
                      /\ p[1] \in Objects /\ p[2] \in Objects
  /\ \A a, b \in Objects : <<a, b>> \in Pairs /\ Depth[a] \in Nat
  /\ \A n \in Nat : \A p \in Pairs : (p \in Below(n)) = (Depth[p[1]] < n)
  /\ \A n \in Nat : \A a, b \in Objects : (<<a, b>> \in Below(n)) = (Depth[a] < n)
BY JsonAssumption DEF Pairs, Below

\* What is nested in an object is an object of less depth.
LEMMA Nested ==
  ASSUME NEW o \in Objects, NEW key \in DOMAIN o, o[key].kind = "object"
  PROVE  /\ o[key].object \in Objects /\ Depth[o[key].object] < Depth[o]
         /\ o[key] = Object(o[key].object)
<1>1. IsValue(o[key], Depth[o])
  BY JsonAssumption
<1> QED BY <1>1 DEF IsValue

-----------------------------------------------------------------------------
(* The recursion of includes.                                               *)

\* A call asks only for pairs with less depth.
LEMMA IncludesLocal ==
  ASSUME NEW p \in Pairs, NEW f, NEW g,
         \A a, b \in Objects : Depth[a] < Depth[p[1]] => f[<<a, b>>] = g[<<a, b>>]
  PROVE  includesBody(f, p[1], p[2]) = includesBody(g, p[1], p[2])
<1> DEFINE c == p[1]
           d == p[2]
<1>1. c \in Objects /\ d \in Objects
  BY BelowFacts
<1> HIDE DEF c, d
<1>2. ASSUME NEW key \in DOMAIN d, key \in DOMAIN c,
             d[key].kind = "object", c[key].kind = "object"
      PROVE  f[<<c[key].object, d[key].object>>] = g[<<c[key].object, d[key].object>>]
  BY <1>1, <1>2, Nested DEF c
<1>3. includesBody(f, c, d) = includesBody(g, c, d)
  BY <1>2 DEF includesBody
<1> QED BY <1>3 DEF c, d

\* f has the results for the pairs below depth n.
IncludesTo(f, n) == f = [p \in Below(n) |-> includesBody(f, p[1], p[2])]

\* Two such functions have the same results.
LEMMA IncludesSame ==
  ASSUME NEW n \in Nat, NEW k \in Nat, NEW f, NEW g,
         IncludesTo(f, n), IncludesTo(g, k)
  PROVE  \A p \in Below(n) \cap Below(k) : f[p] = g[p]
<1> DEFINE T == {j \in Nat : \E p \in Below(n) \cap Below(k) :
                               Depth[p[1]] = j /\ f[p] # g[p]}
<1>1. SUFFICES ASSUME T # {} PROVE FALSE
  <2>1. \A p \in Below(n) \cap Below(k) : Depth[p[1]] \in Nat
    BY BelowFacts
  <2> QED BY <1>1, <2>1
<1>2. PICK j \in T : \A q \in T : ~(q < j)
  <2>1. T \subseteq Nat
    OBVIOUS
  <2> HIDE DEF T
  <2> QED BY <1>1, <2>1, Least
<1>3. PICK p \in Below(n) \cap Below(k) : Depth[p[1]] = j /\ f[p] # g[p]
  BY <1>2
<1>4. p \in Pairs /\ Depth[p[1]] < n /\ Depth[p[1]] < k /\ Depth[p[1]] \in Nat
  BY BelowFacts
<1>5. ASSUME NEW a \in Objects, NEW b \in Objects, Depth[a] < Depth[p[1]]
      PROVE  f[<<a, b>>] = g[<<a, b>>]
  <2>1. Depth[a] \in Nat /\ Depth[a] < n /\ Depth[a] < k
    <3>1. Depth[a] \in Nat
      BY JsonAssumption
    <3> QED BY <1>4, <1>5, <3>1
  <2>2. <<a, b>> \in Below(n) \cap Below(k) /\ <<a, b>>[1] = a
    BY <2>1, BelowFacts
  <2>3. Depth[a] \notin T
    BY <1>2, <1>3, <1>5
  <2> QED BY <2>1, <2>2, <2>3
<1>6. f[p] = includesBody(f, p[1], p[2]) /\ g[p] = includesBody(g, p[1], p[2])
  BY DEF IncludesTo
<1>7. includesBody(f, p[1], p[2]) = includesBody(g, p[1], p[2])
  BY <1>4, <1>5, IncludesLocal
<1> QED BY <1>3, <1>6, <1>7

\* There is one for every depth: the recursion ends.
LEMMA IncludesEnds ==
  \A n \in Nat : \E f : IncludesTo(f, n)
<1> DEFINE T == {n \in Nat : ~\E f : IncludesTo(f, n)}
<1>1. SUFFICES ASSUME T # {} PROVE FALSE
  OBVIOUS
<1>2. PICK n \in T : \A k \in T : ~(k < n)
  <2>1. T \subseteq Nat
    OBVIOUS
  <2> HIDE DEF T
  <2> QED BY <1>1, <2>1, Least
<1>3. n \in Nat /\ ~\E f : IncludesTo(f, n)
  BY <1>2
<1>4. n # 0
  <2> DEFINE f == [p \in {} |-> TRUE]
  <2>1. f = [p \in {} |-> includesBody(f, p[1], p[2])]
    OBVIOUS
  <2>2. IncludesTo(f, 0)
    BY <2>1, BelowFacts DEF IncludesTo
  <2> QED BY <1>3, <2>2
<1>5. n - 1 \in Nat /\ n - 1 < n
  BY <1>3, <1>4
<1>6. PICK f : IncludesTo(f, n - 1)
  BY <1>2, <1>5
<1> DEFINE g == [p \in Below(n) |-> includesBody(f, p[1], p[2])]
<1>7. ASSUME NEW p \in Below(n)
      PROVE  includesBody(f, p[1], p[2]) = includesBody(g, p[1], p[2])
  <2>1. p \in Pairs /\ Depth[p[1]] < n /\ Depth[p[1]] \in Nat
    BY <1>3, BelowFacts
  <2>2. ASSUME NEW a \in Objects, NEW b \in Objects, Depth[a] < Depth[p[1]]
        PROVE  f[<<a, b>>] = g[<<a, b>>]
    <3>1. Depth[a] \in Nat /\ Depth[a] < n /\ Depth[a] < n - 1
      <4>1. Depth[a] \in Nat
        BY JsonAssumption
      <4> QED BY <1>3, <2>1, <2>2, <4>1
    <3>2. <<a, b>> \in Below(n) /\ <<a, b>> \in Below(n - 1)
      BY <1>3, <1>5, <3>1, BelowFacts
    <3>3. f[<<a, b>>] = includesBody(f, <<a, b>>[1], <<a, b>>[2])
      BY <1>6, <3>2 DEF IncludesTo
    <3> QED BY <3>2, <3>3
  <2> HIDE DEF g
  <2> QED BY <2>1, <2>2, IncludesLocal
<1>8. IncludesTo(g, n)
  BY <1>7 DEF IncludesTo
<1> QED BY <1>3, <1>8

\* includes is what its recursive definition says.
LEMMA IncludesDef ==
  included = [p \in Pairs |-> includesBody(included, p[1], p[2])]
<1> DEFINE to(n) == CHOOSE f : IncludesTo(f, n)
           g == [p \in Pairs |-> to(Depth[p[1]] + 1)[p]]
<1>1. \A n \in Nat : IncludesTo(to(n), n)
  BY IncludesEnds
<1> HIDE DEF to
<1>2. ASSUME NEW p \in Pairs
      PROVE  g[p] = includesBody(g, p[1], p[2])
  <2> DEFINE n == Depth[p[1]] + 1
  <2>1. n \in Nat /\ Depth[p[1]] \in Nat /\ Depth[p[1]] < n
    BY BelowFacts
  <2>2. p \in Below(n)
    BY <2>1, BelowFacts
  <2>3. g[p] = includesBody(to(n), p[1], p[2])
    BY <1>1, <2>1, <2>2 DEF IncludesTo
  <2>4. ASSUME NEW a \in Objects, NEW b \in Objects, Depth[a] < Depth[p[1]]
        PROVE  to(n)[<<a, b>>] = g[<<a, b>>]
    <3> DEFINE k == Depth[a] + 1
    <3>1. k \in Nat /\ Depth[a] \in Nat /\ Depth[a] < k /\ Depth[a] < n
      <4>1. Depth[a] \in Nat
        BY JsonAssumption
      <4> QED BY <2>1, <2>4, <4>1
    <3>2. <<a, b>> \in Below(n) \cap Below(k) /\ <<a, b>> \in Pairs
      BY <2>1, <3>1, BelowFacts
    <3>3. g[<<a, b>>] = to(k)[<<a, b>>]
      BY <3>2
    <3> HIDE DEF k, n, g
    <3>4. to(n)[<<a, b>>] = to(k)[<<a, b>>]
      BY <1>1, <2>1, <3>1, <3>2, IncludesSame
    <3> QED BY <3>3, <3>4
  <2> HIDE DEF g, n
  <2>5. includesBody(to(n), p[1], p[2]) = includesBody(g, p[1], p[2])
    BY <2>4, IncludesLocal
  <2> QED BY <2>3, <2>5
<1>3. g = [p \in Pairs |-> includesBody(g, p[1], p[2])]
  <2>1. g = [p \in Pairs |-> g[p]]
    OBVIOUS
  <2> HIDE DEF g
  <2> QED BY <1>2, <2>1
<1> HIDE DEF g
<1> QED BY <1>3 DEF included, Pairs
-----------------------------------------------------------------------------
(* The recursion of the reference definition.                               *)

\* A call asks only for pairs with less depth.
LEMMA OverlayLocal ==
  ASSUME NEW p \in Pairs, NEW f, NEW g,
         \A a, b \in Objects : Depth[a] < Depth[p[1]] => f[<<a, b>>] = g[<<a, b>>]
  PROVE  overlayBody(f, p[1], p[2]) = overlayBody(g, p[1], p[2])
<1> DEFINE c == p[1]
           d == p[2]
<1>1. c \in Objects /\ d \in Objects
  BY BelowFacts
<1> HIDE DEF c, d
<1>2. ASSUME NEW key \in DOMAIN d, key \in DOMAIN c,
             d[key].kind = "object", c[key].kind = "object"
      PROVE  f[<<c[key].object, d[key].object>>] = g[<<c[key].object, d[key].object>>]
  BY <1>1, <1>2, Nested DEF c
<1>3. overlayBody(f, c, d) = overlayBody(g, c, d)
  BY <1>2 DEF overlayBody
<1> QED BY <1>3 DEF c, d

\* f has the results for the pairs below depth n.
OverlayTo(f, n) == f = [p \in Below(n) |-> overlayBody(f, p[1], p[2])]

\* Two such functions have the same results.
LEMMA OverlaySame ==
  ASSUME NEW n \in Nat, NEW k \in Nat, NEW f, NEW g,
         OverlayTo(f, n), OverlayTo(g, k)
  PROVE  \A p \in Below(n) \cap Below(k) : f[p] = g[p]
<1> DEFINE T == {j \in Nat : \E p \in Below(n) \cap Below(k) :
                               Depth[p[1]] = j /\ f[p] # g[p]}
<1>1. SUFFICES ASSUME T # {} PROVE FALSE
  <2>1. \A p \in Below(n) \cap Below(k) : Depth[p[1]] \in Nat
    BY BelowFacts
  <2> QED BY <1>1, <2>1
<1>2. PICK j \in T : \A q \in T : ~(q < j)
  <2>1. T \subseteq Nat
    OBVIOUS
  <2> HIDE DEF T
  <2> QED BY <1>1, <2>1, Least
<1>3. PICK p \in Below(n) \cap Below(k) : Depth[p[1]] = j /\ f[p] # g[p]
  BY <1>2
<1>4. p \in Pairs /\ Depth[p[1]] < n /\ Depth[p[1]] < k /\ Depth[p[1]] \in Nat
  BY BelowFacts
<1>5. ASSUME NEW a \in Objects, NEW b \in Objects, Depth[a] < Depth[p[1]]
      PROVE  f[<<a, b>>] = g[<<a, b>>]
  <2>1. Depth[a] \in Nat /\ Depth[a] < n /\ Depth[a] < k
    <3>1. Depth[a] \in Nat
      BY JsonAssumption
    <3> QED BY <1>4, <1>5, <3>1
  <2>2. <<a, b>> \in Below(n) \cap Below(k) /\ <<a, b>>[1] = a
    BY <2>1, BelowFacts
  <2>3. Depth[a] \notin T
    BY <1>2, <1>3, <1>5
  <2> QED BY <2>1, <2>2, <2>3
<1>6. f[p] = overlayBody(f, p[1], p[2]) /\ g[p] = overlayBody(g, p[1], p[2])
  BY DEF OverlayTo
<1>7. overlayBody(f, p[1], p[2]) = overlayBody(g, p[1], p[2])
  BY <1>4, <1>5, OverlayLocal
<1> QED BY <1>3, <1>6, <1>7

\* There is one for every depth: the recursion ends.
LEMMA OverlayEnds ==
  \A n \in Nat : \E f : OverlayTo(f, n)
<1> DEFINE T == {n \in Nat : ~\E f : OverlayTo(f, n)}
<1>1. SUFFICES ASSUME T # {} PROVE FALSE
  OBVIOUS
<1>2. PICK n \in T : \A k \in T : ~(k < n)
  <2>1. T \subseteq Nat
    OBVIOUS
  <2> HIDE DEF T
  <2> QED BY <1>1, <2>1, Least
<1>3. n \in Nat /\ ~\E f : OverlayTo(f, n)
  BY <1>2
<1>4. n # 0
  <2> DEFINE f == [p \in {} |-> TRUE]
  <2>1. f = [p \in {} |-> overlayBody(f, p[1], p[2])]
    OBVIOUS
  <2>2. OverlayTo(f, 0)
    BY <2>1, BelowFacts DEF OverlayTo
  <2> QED BY <1>3, <2>2
<1>5. n - 1 \in Nat /\ n - 1 < n
  BY <1>3, <1>4
<1>6. PICK f : OverlayTo(f, n - 1)
  BY <1>2, <1>5
<1> DEFINE g == [p \in Below(n) |-> overlayBody(f, p[1], p[2])]
<1>7. ASSUME NEW p \in Below(n)
      PROVE  overlayBody(f, p[1], p[2]) = overlayBody(g, p[1], p[2])
  <2>1. p \in Pairs /\ Depth[p[1]] < n /\ Depth[p[1]] \in Nat
    BY <1>3, BelowFacts
  <2>2. ASSUME NEW a \in Objects, NEW b \in Objects, Depth[a] < Depth[p[1]]
        PROVE  f[<<a, b>>] = g[<<a, b>>]
    <3>1. Depth[a] \in Nat /\ Depth[a] < n /\ Depth[a] < n - 1
      <4>1. Depth[a] \in Nat
        BY JsonAssumption
      <4> QED BY <1>3, <2>1, <2>2, <4>1
    <3>2. <<a, b>> \in Below(n) /\ <<a, b>> \in Below(n - 1)
      BY <1>3, <1>5, <3>1, BelowFacts
    <3>3. f[<<a, b>>] = overlayBody(f, <<a, b>>[1], <<a, b>>[2])
      BY <1>6, <3>2 DEF OverlayTo
    <3> QED BY <3>2, <3>3
  <2> HIDE DEF g
  <2> QED BY <2>1, <2>2, OverlayLocal
<1>8. OverlayTo(g, n)
  BY <1>7 DEF OverlayTo
<1> QED BY <1>3, <1>8

\* The reference definition is what its recursive definition says.
LEMMA OverlayDef ==
  overlay = [p \in Pairs |-> overlayBody(overlay, p[1], p[2])]
<1> DEFINE to(n) == CHOOSE f : OverlayTo(f, n)
           g == [p \in Pairs |-> to(Depth[p[1]] + 1)[p]]
<1>1. \A n \in Nat : OverlayTo(to(n), n)
  BY OverlayEnds
<1> HIDE DEF to
<1>2. ASSUME NEW p \in Pairs
      PROVE  g[p] = overlayBody(g, p[1], p[2])
  <2> DEFINE n == Depth[p[1]] + 1
  <2>1. n \in Nat /\ Depth[p[1]] \in Nat /\ Depth[p[1]] < n
    BY BelowFacts
  <2>2. p \in Below(n)
    BY <2>1, BelowFacts
  <2>3. g[p] = overlayBody(to(n), p[1], p[2])
    BY <1>1, <2>1, <2>2 DEF OverlayTo
  <2>4. ASSUME NEW a \in Objects, NEW b \in Objects, Depth[a] < Depth[p[1]]
        PROVE  to(n)[<<a, b>>] = g[<<a, b>>]
    <3> DEFINE k == Depth[a] + 1
    <3>1. k \in Nat /\ Depth[a] \in Nat /\ Depth[a] < k /\ Depth[a] < n
      <4>1. Depth[a] \in Nat
        BY JsonAssumption
      <4> QED BY <2>1, <2>4, <4>1
    <3>2. <<a, b>> \in Below(n) \cap Below(k) /\ <<a, b>> \in Pairs
      BY <2>1, <3>1, BelowFacts
    <3>3. g[<<a, b>>] = to(k)[<<a, b>>]
      BY <3>2
    <3> HIDE DEF k, n, g
    <3>4. to(n)[<<a, b>>] = to(k)[<<a, b>>]
      BY <1>1, <2>1, <3>1, <3>2, OverlaySame
    <3> QED BY <3>3, <3>4
  <2> HIDE DEF g, n
  <2>5. overlayBody(to(n), p[1], p[2]) = overlayBody(g, p[1], p[2])
    BY <2>4, OverlayLocal
  <2> QED BY <2>3, <2>5
<1>3. g = [p \in Pairs |-> overlayBody(g, p[1], p[2])]
  <2>1. g = [p \in Pairs |-> g[p]]
    OBVIOUS
  <2> HIDE DEF g
  <2> QED BY <1>2, <2>1
<1> HIDE DEF g
<1> QED BY <1>3 DEF overlay, Pairs
-----------------------------------------------------------------------------
(* includes and the reference definition agree.                             *)

\* One call, when they agree on the nested objects.
LEMMA SameBody ==
  ASSUME NEW c \in Objects, NEW d \in Objects,
         \A a, b \in Objects :
           Depth[a] < Depth[c] => (includes(a, b) <=> Covers(a, b)),
         \A a \in Objects : includes(a, a)
  PROVE  includesBody(included, c, d) <=> overlayBody(overlay, c, d) = c
<1> DEFINE laid == overlayBody(overlay, c, d)
           ok(key) == \/ c[key] = d[key]
                      \/ /\ d[key].kind = "object" /\ c[key].kind = "object"
                         /\ included[<<c[key].object, d[key].object>>]
                      \/ /\ d[key].kind = "list" /\ c[key].kind = "list"
                         /\ d[key].list \subseteq c[key].list
<1>1. c = [key \in DOMAIN c |-> c[key]]
  BY JsonAssumption
<1>2. laid = [key \in DOMAIN c \cup DOMAIN d |-> laid[key]]
  BY DEF overlayBody
<1>3. ASSUME NEW key \in DOMAIN c, key \notin DOMAIN d
      PROVE  laid[key] = c[key]
  BY <1>3 DEF overlayBody
<1>4. ASSUME NEW key \in DOMAIN d, key \in DOMAIN c
      PROVE  ok(key) <=> laid[key] = c[key]
  <2> DEFINE cv == c[key]
             dv == d[key]
  <2>1. IsValue(cv, Depth[c]) /\ IsValue(dv, Depth[d])
    BY <1>4, JsonAssumption
  <2>2. laid[key] = CASE dv.kind = "object" /\ cv.kind = "object" ->
                           Object(overlay[<<cv.object, dv.object>>])
                      [] dv.kind = "list" /\ cv.kind = "list" ->
                           List(cv.list \cup dv.list)
                      [] OTHER -> dv
    BY <1>4 DEF overlayBody
  <2> HIDE DEF laid
  <2>3. CASE dv.kind = "object" /\ cv.kind = "object"
    <3>1. /\ cv = Object(cv.object) /\ dv = Object(dv.object)
          /\ cv.object \in Objects /\ dv.object \in Objects
          /\ Depth[cv.object] < Depth[c]
      BY <1>4, <2>3, Nested
    <3>2. laid[key] = Object(overlay[<<cv.object, dv.object>>])
      BY <2>2, <2>3
    <3>3. laid[key] = cv <=> overlay[<<cv.object, dv.object>>] = cv.object
      BY <3>1, <3>2 DEF Object
    <3>4. included[<<cv.object, dv.object>>] <=> laid[key] = cv
      BY <3>1, <3>3 DEF includes, Covers
    <3>5. cv = dv => included[<<cv.object, dv.object>>]
      BY <3>1 DEF includes
    <3>6. ok(key) <=> cv = dv \/ included[<<cv.object, dv.object>>]
      BY <2>3
    <3> QED BY <3>4, <3>5, <3>6
  <2>4. CASE dv.kind = "list" /\ cv.kind = "list"
    <3>1. cv = List(cv.list) /\ dv = List(dv.list)
      BY <2>1, <2>4 DEF IsValue
    <3>2. laid[key] = List(cv.list \cup dv.list)
      BY <2>2, <2>4
    <3>3. laid[key] = cv <=> cv.list \cup dv.list = cv.list
      BY <3>1, <3>2 DEF List
    <3>4. ok(key) <=> cv = dv \/ dv.list \subseteq cv.list
      BY <2>4
    <3> QED BY <3>3, <3>4
  <2>5. CASE /\ ~(dv.kind = "object" /\ cv.kind = "object")
             /\ ~(dv.kind = "list" /\ cv.kind = "list")
    BY <2>2, <2>5
  <2> QED BY <2>3, <2>4, <2>5
<1>5. includesBody(included, c, d) <=>
        \A key \in DOMAIN d : key \in DOMAIN c /\ ok(key)
  BY DEF includesBody, sliceIncludes
<1>6. laid = c <=> \A key \in DOMAIN d : key \in DOMAIN c /\ laid[key] = c[key]
  <2> HIDE DEF laid
  <2>1. DOMAIN laid = DOMAIN c \cup DOMAIN d
    BY <1>2
  <2>2. ASSUME \A key \in DOMAIN d : key \in DOMAIN c /\ laid[key] = c[key]
        PROVE  laid = c
    <3>1. DOMAIN c \cup DOMAIN d = DOMAIN c
      BY <2>2
    <3>2. \A key \in DOMAIN c : laid[key] = c[key]
      BY <1>3, <2>2
    <3> QED BY <1>1, <1>2, <3>1, <3>2
  <2> QED BY <2>1, <2>2
<1> HIDE DEF laid, ok
<1>7. includesBody(included, c, d) <=> laid = c
  BY <1>4, <1>5, <1>6
<1> QED BY <1>7 DEF laid

\* includes of pkg/util/util.go says, for any two JSON objects, whether laying
\* the second over the first would change nothing.
THEOREM IncludesCorrect ==
  \A c, d \in Objects : includes(c, d) <=> Covers(c, d)
<1>1. \A a, b \in Objects : /\ includes(a, b) = includesBody(included, a, b)
                            /\ Covers(a, b) = (overlayBody(overlay, a, b) = a)
  <2> SUFFICES ASSUME NEW a \in Objects, NEW b \in Objects
               PROVE  /\ included[<<a, b>>] = includesBody(included, a, b)
                      /\ overlay[<<a, b>>] = overlayBody(overlay, a, b)
    BY DEF includes, Covers
  <2>1. <<a, b>> \in Pairs /\ <<a, b>>[1] = a /\ <<a, b>>[2] = b
    BY BelowFacts
  <2>2. included[<<a, b>>] = includesBody(included, a, b)
    BY <2>1, IncludesDef
  <2>3. overlay[<<a, b>>] = overlayBody(overlay, a, b)
    BY <2>1, OverlayDef
  <2> QED BY <2>2, <2>3
<1>2. \A a \in Objects : includes(a, a)
  BY <1>1 DEF includesBody
<1> DEFINE T == {n \in Nat : \E c, d \in Objects :
                               Depth[c] = n /\ ~(includes(c, d) <=> Covers(c, d))}
<1>3. SUFFICES ASSUME T # {} PROVE FALSE
  <2>1. \A c \in Objects : Depth[c] \in Nat
    BY JsonAssumption
  <2> QED BY <1>3, <2>1
<1>4. PICK n \in T : \A k \in T : ~(k < n)
  <2>1. T \subseteq Nat
    OBVIOUS
  <2> HIDE DEF T
  <2> QED BY <1>3, <2>1, Least
<1>5. PICK c \in Objects, d \in Objects :
        Depth[c] = n /\ ~(includes(c, d) <=> Covers(c, d))
  BY <1>4
<1>6. ASSUME NEW a \in Objects, NEW b \in Objects, Depth[a] < Depth[c]
      PROVE  includes(a, b) <=> Covers(a, b)
  <2>1. Depth[a] \in Nat /\ Depth[a] \notin T
    BY <1>4, <1>5, <1>6, JsonAssumption
  <2> QED BY <2>1
<1>7. includesBody(included, c, d) <=> overlayBody(overlay, c, d) = c
  BY <1>2, <1>6, SameBody
<1> QED
  <2>1. includes(c, d) <=> includesBody(included, c, d)
    BY <1>1
  <2>2. Covers(c, d) <=> overlayBody(overlay, c, d) = c
    BY <1>1
  <2> QED BY <1>5, <1>7, <2>1, <2>2
=============================================================================
