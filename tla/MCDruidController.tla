-------------------------- MODULE MCDruidController --------------------------
(* Small instances of DruidController.                                      *)
EXTENDS DruidController, TLC

Strategy(v) == [type |-> Leaf("fill"), strong |-> Leaf(v)]

\* A nested object, of which the CR gives all or a part, and a list.
Worker(v)  == ("strategy" :> Object(Strategy(v)))
WorkerPart == ("strategy" :> Object([strong |-> Leaf("no")]))
Bad == ("strategy" :> Leaf("unknown"))
Coord(items) == ("nodes" :> List(items))

KnownKeys ==
  ("middlemanagers" :> {"strategy"} @@ "coordinators" :> {"strategy", "nodes"})

Posts == {Worker("no"), Coord({"a", "b"})}

None == [middlemanagers |-> Nil, coordinators |-> Nil]

CRSpec(scale, s1, s2, dynamic) ==
  [scalePvcSts |-> scale, sizes |-> <<s1, s2>>, dynamic |-> dynamic]

GrowingSpecs ==
  {CRSpec(TRUE, 1, 1, [middlemanagers |-> WorkerPart, coordinators |-> Coord({"a"})]),
   CRSpec(TRUE, 2, 2, [middlemanagers |-> Worker("yes"), coordinators |-> Coord({"b"})]),
   CRSpec(FALSE, 2, 2, [middlemanagers |-> Bad, coordinators |-> Nil])}

\* Two templates of different size.
TemplateSpecs == {CRSpec(TRUE, 1, 2, None), CRSpec(TRUE, 1, 3, None)}

RefusedConfigs == {Bad}

\* No entry, or one with one of the values.
Entry(key, values) == {<<>>} \cup {key :> v : v \in values}

\* The objects that can be put together from the keys and values above.
JsonObjects ==
  {a @@ b @@ c @@ d :
     a \in Entry("type", {Leaf("fill")}),
     b \in Entry("strong", {Leaf("yes"), Leaf("no")}),
     c \in Entry("strategy", {Bad.strategy, WorkerPart.strategy,
                             Worker("yes").strategy, Worker("no").strategy}),
     d \in Entry("nodes", {List({"a"}), List({"b"}), List({"a", "b"})})}

JsonDepth ==
  [o \in JsonObjects |->
     IF \E key \in DOMAIN o : o[key].kind = "object" THEN 1 ELSE 0]
=============================================================================
