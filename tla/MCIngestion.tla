----------------------------- MODULE MCIngestion -----------------------------
(* Small instances of Ingestion.                                            *)
EXTENDS Ingestion

\* The contents 3 and 4 are about another data source than 1 and 2.
Source == [s \in Content |-> IF s \in {3, 4} THEN "clicks" ELSE "wiki"]

\* Compaction settings: a priority, with and without an offset.
Priority == [taskPriority |-> Leaf(25)]
Offset == [taskPriority |-> Leaf(25), skipOffset |-> Leaf(1)]

CompactionSettings == {Priority, Offset}

Flat == [o \in CompactionSettings |-> 0]

Kafka(s, c, r) == [type |-> "kafka", s |-> s, c |-> c, r |-> r]

\* Two contents of either type with neither compaction settings nor rules, and
\* supervisors of another data source: one with compaction settings, and one that
\* Druid refuses, with fewer of them and with rules.
MixedSpecs ==
  [type : {"kafka", "native-batch"}, s : {1, 2}, c : {Nil}, r : {Nil}] \cup
  {Kafka(4, Offset, Nil), Kafka(3, Priority, 1)}

RulesSpecs == [type : {"kafka"}, s : Content, c : {Nil}, r : RuleLists]

\* Two contents, each with and without compaction settings and rules.
BatchSpecs ==
  [type : {"native-batch"}, s : Content, c : {Priority, Nil}, r : {1, Nil}]

=============================================================================
