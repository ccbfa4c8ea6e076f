---------------------------- MODULE IngestionProofs ----------------------------
(***************************************************************************)
(* Proofs about Ingestion: its types; that the finalizer of a              *)
(* DruidIngestion goes only after the shutdown of its task; that contents  *)
(* are recorded in the order in which they were applied, and so that the   *)
(* task or the supervisor of a recorded content runs that content.         *)
(***************************************************************************)
EXTENDS Ingestion, TLAPS

USE DEF server, druid, pass, env

\* What one of the copies says.
LEMMA CopyParts ==
  ASSUME NEW x \in DruidIngestion
  PROVE  /\ x.exists \in BOOLEAN /\ x.deleting \in BOOLEAN /\ x.fin \in BOOLEAN
         /\ x.spec \in Specs /\ x.status \in Status
         /\ x.spec.type \in {"kafka", "native-batch"} /\ x.spec.s \in Content
         /\ x.spec.c \in Objects \cup {Nil} /\ x.spec.r \in RuleLists \cup {Nil}
BY IngestionAssumption DEF DruidIngestion, SpecType

LEMMA StatusParts ==
  ASSUME NEW st \in Status
  PROVE  /\ st = [taskId |-> st.taskId, cur |-> st.cur, rules |-> st.rules,
                  type |-> st.type]
         /\ st.taskId \in TaskIds \cup {Nil} /\ st.cur \in Content \cup {Nil}
         /\ st.rules \in RuleLists \cup {Nil} /\ st.type \in Types
         /\ (st.taskId = Nil) = (st.cur = Nil)
         /\ DOMAIN st = {"taskId", "cur", "rules", "type"}
BY DEF Status

\* The merge patch, field by field.
LEMMA PatchFields ==
  ASSUME NEW old \in Status, NEW base \in Status,
         NEW t, NEW s, NEW r, NEW type
  PROVE  MergePatch(old, base, [taskId |-> t, cur |-> s, rules |-> r, type |-> type])
         = [taskId |-> IF t = base.taskId THEN old.taskId ELSE t,
            cur    |-> IF s = base.cur THEN old.cur ELSE s,
            rules  |-> IF r = base.rules THEN old.rules ELSE r,
            type   |-> IF type = base.type THEN old.type ELSE type]
BY StatusParts DEF MergePatch

\* A read from the cache.
LEMMA SeenType ==
  ASSUME TypeOK
  PROVE  /\ Len(cache) \in Nat /\ Len(cache) >= 1
         /\ seen \in DruidIngestion /\ seen # Nil
         /\ \A k \in 1..Len(cache) : cache[k] \in DruidIngestion
BY NilAssumption DEF TypeOK, seen

\* The versions the cache is to show after a write: the old ones, unless there
\* is no lag, and the new one.
LEMMA WriteCache ==
  ASSUME TypeOK, NEW new \in DruidIngestion, Write(new)
  PROVE  /\ cache' \in Seq(DruidIngestion) /\ cache' # <<>>
         /\ Len(cache') \in Nat /\ Len(cache') >= 1
         /\ cache'[Len(cache')] = new
         /\ \A k \in 1..Len(cache') :
              k # Len(cache') => k \in 1..Len(cache) /\ cache'[k] = cache[k]
         /\ cache'[1] \in {cache[1], new}
<1>1. cache \in Seq(DruidIngestion) /\ Len(cache) \in Nat /\ Len(cache) >= 1
  BY SeenType DEF TypeOK
<1>2. CASE cache' = Append(cache, new)
  BY <1>1, <1>2
<1>3. CASE cache' = <<new>>
  BY <1>3
<1> QED BY <1>2, <1>3 DEF Write

\* The cache moves on to the next version.
LEMMA DeliverCache ==
  ASSUME TypeOK, Deliver
  PROVE  /\ cache' \in Seq(DruidIngestion) /\ cache' # <<>>
         /\ Len(cache) \in Nat /\ Len(cache') = Len(cache) - 1 /\ Len(cache') >= 1
         /\ \A k \in 1..Len(cache') :
              k + 1 \in 1..Len(cache) /\ cache'[k] = cache[k + 1]
<1>1. cache \in Seq(DruidIngestion) /\ Len(cache) > 1 /\ cache' = Tail(cache)
  BY DEF TypeOK, Deliver
<1>2. /\ cache' \in Seq(DruidIngestion) /\ Len(cache) \in Nat
      /\ Len(cache') = Len(cache) - 1
  BY <1>1
<1>3. \A k \in 1..Len(cache') :
        k + 1 \in 1..Len(cache) /\ cache'[k] = cache[k + 1]
  BY <1>1, <1>2
<1>4. cache' # <<>> /\ Len(cache') >= 1
  <2>1. Len(<<>>) = 0
    OBVIOUS
  <2>2. Len(cache') >= 1
    BY <1>1, <1>2
  <2> QED BY <2>1, <2>2
<1> QED BY <1>2, <1>3, <1>4

\* A write by the user.
LEMMA UserWrite ==
  ASSUME TypeOK, UserEdit \/ UserDelete
  PROVE  /\ UNCHANGED <<druid, pc, di, id, compactionOk, faults>>
         /\ \E new \in DruidIngestion :
              /\ Write(new) /\ new.status = obj.status
              /\ new.spec.type = obj.spec.type
              /\ \/ applied' = Append(applied, new.spec)
                 \/ UNCHANGED applied /\ new.spec = obj.spec
<1>1. obj \in DruidIngestion
  BY DEF TypeOK
<1>2. CASE UserEdit
  <2>1. PICK new \in Specs : /\ new.type = obj.spec.type
                             /\ Write([obj EXCEPT !.spec = new])
                             /\ applied' = Append(applied, new)
    BY <1>2 DEF UserEdit
  <2>2. /\ [obj EXCEPT !.spec = new] \in DruidIngestion
        /\ [obj EXCEPT !.spec = new].status = obj.status
        /\ [obj EXCEPT !.spec = new].spec = new
    BY <1>1 DEF DruidIngestion
  <2> QED BY <1>2, <2>1, <2>2 DEF UserEdit
<1>3. CASE UserDelete
  <2> DEFINE new == IF obj.fin THEN [obj EXCEPT !.deleting = TRUE]
                    ELSE [obj EXCEPT !.exists = FALSE]
  <2>1. Write(new) /\ UNCHANGED <<druid, pc, di, id, compactionOk, env>>
    BY <1>3 DEF UserDelete
  <2>2. new \in DruidIngestion /\ new.status = obj.status /\ new.spec = obj.spec
    BY <1>1 DEF DruidIngestion
  <2> QED BY <2>1, <2>2
<1> QED BY <1>2, <1>3

\* A status patch with a task id leaves a status that has one, if the copy it is
\* computed from is not ahead of obj.
LEMMA PatchedStatus ==
  ASSUME TypeOK, CopiesInv, pc # "idle",
         NEW t \in TaskIds, NEW type \in Types
  PROVE  LET new == MergePatch(obj.status, seen.status, NewStatus(seen, t, type))
         IN  /\ new \in Status
             /\ new.taskId # Nil
             /\ new.taskId = (IF t = seen.status.taskId THEN obj.status.taskId
                              ELSE t)
             /\ new.cur = (IF di.spec.s = seen.status.cur THEN obj.status.cur
                           ELSE di.spec.s)
             /\ new.rules = (IF seen.spec.r = seen.status.rules
                             THEN obj.status.rules ELSE seen.spec.r)
<1> DEFINE old  == obj.status
           base == seen.status
           st   == NewStatus(seen, t, type)
           new  == MergePatch(old, base, st)
<1>1. /\ old \in Status /\ base \in Status
      /\ seen \in DruidIngestion /\ di \in DruidIngestion
  BY CopyParts, SeenType DEF TypeOK
<1>2. di.spec.s \in Content /\ seen.spec.r \in RuleLists \cup {Nil}
  BY <1>1, CopyParts
<1>3. st = [taskId |-> t, cur |-> di.spec.s, rules |-> seen.spec.r, type |-> type]
  BY DEF NewStatus
<1>4. base.taskId # Nil => old.taskId # Nil
  <2>1. 1 \in 1..Len(cache) /\ Len(cache) \in 1..Len(cache) /\ 1 <= Len(cache)
    BY SeenType
  <2> QED BY <2>1 DEF CopiesInv, seen
<1>5. new = [taskId |-> IF t = base.taskId THEN old.taskId ELSE t,
             cur    |-> IF di.spec.s = base.cur THEN old.cur ELSE di.spec.s,
             rules  |-> IF seen.spec.r = base.rules THEN old.rules ELSE seen.spec.r,
             type   |-> IF type = base.type THEN old.type ELSE type]
  <2> HIDE DEF old, base
  <2> QED BY <1>1, <1>3, PatchFields
<1> HIDE DEF old, base, st, new
<1>6. /\ old.taskId \in TaskIds \cup {Nil} /\ old.cur \in Content \cup {Nil}
      /\ old.rules \in RuleLists \cup {Nil} /\ old.type \in Types
      /\ (old.taskId = Nil) = (old.cur = Nil)
      /\ (base.taskId = Nil) = (base.cur = Nil)
  BY <1>1, StatusParts
<1>7. t # Nil /\ di.spec.s # Nil
  BY <1>2, IngestionAssumption
<1>8. /\ new.taskId = (IF t = base.taskId THEN old.taskId ELSE t)
      /\ new.cur = (IF di.spec.s = base.cur THEN old.cur ELSE di.spec.s)
      /\ new.rules = (IF seen.spec.r = base.rules THEN old.rules ELSE seen.spec.r)
  BY <1>5
<1>9. new.taskId # Nil /\ new.cur # Nil
  BY <1>4, <1>6, <1>7, <1>8
<1>10. new \in [taskId : TaskIds \cup {Nil}, cur : Content \cup {Nil},
                rules : RuleLists \cup {Nil}, type : Types]
  BY <1>2, <1>5, <1>6
<1> QED BY <1>8, <1>9, <1>10 DEF old, base, st, new, Status
-----------------------------------------------------------------------------
(* Types, and how copies lag.                                               *)

Labels == {"create", "createCompaction", "createRules", "createRecord", "update",
           "updateRecord", "compaction", "compactionRecord", "rules",
           "rulesRecord", "finalize", "release", "releaseAnyway"}

\* A step of a pass that writes nothing to the API server.
LEMMA QuietStep ==
  ASSUME TypeOK, CopiesInv, pc # "idle", UNCHANGED <<obj, cache, fresh, di>>,
         pc' \in Labels,
         pc' \in Updating => pc \in Updating,
         pc' = "updateRecord" => id' # Nil
  PROVE  CopiesInv'
<1>1. pc' # "idle"
  BY DEF Labels
<1> QED BY <1>1 DEF CopiesInv, seen

\* The end of a pass.
LEMMA LastStep ==
  ASSUME TypeOK, CopiesInv, EndPass, UNCHANGED server
  PROVE  /\ CopiesInv'
         /\ UNCHANGED <<druid, env>> => TypeOK'
<1>1. /\ pc' = "idle" /\ di' = Nil /\ id' = Nil /\ compactionOk' = FALSE
      /\ fresh' = FALSE /\ UNCHANGED <<obj, cache>>
  BY DEF EndPass
<1>2. CopiesInv'
  BY <1>1 DEF CopiesInv, Updating
<1>3. ASSUME UNCHANGED <<druid, env>> PROVE TypeOK'
  BY <1>1, <1>3 DEF TypeOK
<1> QED BY <1>2, <1>3

\* What every write keeps of CopiesInv: it adds a version that has a task id if
\* the one before has.
LEMMA WriteCopies ==
  ASSUME TypeOK, CopiesInv, NEW new \in DruidIngestion, Write(new),
         obj.status.taskId # Nil => new.status.taskId # Nil,
         new.spec.type = obj.spec.type
  PROVE  /\ obj' = new /\ fresh' = FALSE /\ cache'[Len(cache')] = obj'
         /\ \A j, k \in 1..Len(cache') :
              j <= k /\ cache'[j].status.taskId # Nil =>
                cache'[k].status.taskId # Nil
         /\ \A k \in 1..Len(cache') : cache'[k].spec.type = obj'.spec.type
         /\ seen.status.taskId # Nil => seen'.status.taskId # Nil
<1>1. obj' = new /\ fresh' = FALSE /\ cache'[Len(cache')] = obj'
  BY WriteCache DEF Write
<1>2. Len(cache) \in 1..Len(cache) /\ Len(cache) \in Nat
  BY SeenType
<1>3. \A j \in 1..Len(cache) :
        cache[j].status.taskId # Nil => new.status.taskId # Nil
  <2>1. \A j \in 1..Len(cache) : j <= Len(cache)
    BY <1>2
  <2> QED BY <1>2, <2>1 DEF CopiesInv
<1>4. ASSUME NEW j \in 1..Len(cache'), NEW k \in 1..Len(cache'), j <= k,
             cache'[j].status.taskId # Nil
      PROVE  cache'[k].status.taskId # Nil
  <2>1. CASE k = Len(cache')
    <3>1. CASE j = Len(cache')
      BY <1>4, <2>1, <3>1
    <3>2. CASE j # Len(cache')
      BY <1>1, <1>3, <1>4, <2>1, <3>2, WriteCache
    <3> QED BY <3>1, <3>2
  <2>2. CASE k # Len(cache')
    <3>1. j # Len(cache')
      BY <1>4, <2>2, WriteCache
    <3> QED BY <1>4, <2>2, <3>1, WriteCache DEF CopiesInv
  <2> QED BY <2>1, <2>2
<1>5. ASSUME NEW k \in 1..Len(cache') PROVE cache'[k].spec.type = obj'.spec.type
  <2>1. CASE k = Len(cache')
    BY <1>1, <2>1
  <2>2. CASE k # Len(cache')
    BY <1>1, <2>2, WriteCache DEF CopiesInv
  <2> QED BY <2>1, <2>2
<1>6. seen.status.taskId # Nil => seen'.status.taskId # Nil
  <2>1. 1 \in 1..Len(cache)
    BY SeenType
  <2> QED BY <1>3, <2>1, WriteCache DEF seen
<1> QED BY <1>1, <1>4, <1>5, <1>6

\* A write to the API server by somebody else, or at the end of a pass.
LEMMA WriteStep ==
  ASSUME TypeOK, CopiesInv, NEW new \in DruidIngestion, Write(new),
         new.status = obj.status, new.spec.type = obj.spec.type,
         \/ UNCHANGED <<pc, di, id>>
         \/ EndPass
  PROVE  CopiesInv'
<1>1. CASE UNCHANGED <<pc, di, id>>
  BY <1>1, WriteCopies DEF CopiesInv
<1>2. CASE EndPass
  BY <1>2, WriteCopies DEF CopiesInv, EndPass, Updating
<1> QED BY <1>1, <1>2

\* A status patch.
LEMMA PatchStep ==
  ASSUME TypeOK, CopiesInv, pc # "idle",
         NEW t \in TaskIds, NEW type \in Types,
         NEW label \in Labels \ {"updateRecord"},
         label \in Updating => pc \in Updating,
         makePatchDruidIngestionStatus(t, type, label)
  PROVE  TypeOK' /\ CopiesInv'
<1> DEFINE st  == MergePatch(obj.status, seen.status, NewStatus(seen, t, type))
           new == [obj EXCEPT !.status = st]
<1>1. CASE seen.exists /\ obj.exists
  <2>1. /\ Write(new) /\ di' = seen /\ pc' = label
        /\ id' = Nil /\ compactionOk' = FALSE /\ UNCHANGED <<druid, env>>
    BY <1>1 DEF makePatchDruidIngestionStatus
  <2>2. st \in Status /\ st.taskId # Nil
    BY PatchedStatus
  <2> HIDE DEF st
  <2>3. /\ new \in DruidIngestion /\ new.status = st /\ new.spec = obj.spec
        /\ obj \in DruidIngestion
    BY <2>2 DEF DruidIngestion, TypeOK
  <2> HIDE DEF new
  <2>4. pc' # "idle" /\ obj' = new /\ fresh' = FALSE
    BY <2>1 DEF Labels, Write
  <2>5. TypeOK'
    BY <2>1, <2>3, <2>4, SeenType, WriteCache DEF TypeOK, Labels
  <2>6. CopiesInv'
    <3>1. pc \in Updating => seen.status.taskId # Nil
      BY DEF CopiesInv
    <3>2. seen.spec.type = obj.spec.type
      BY SeenType DEF CopiesInv, seen
    <3>3. seen.status.taskId # Nil => seen'.status.taskId # Nil
      BY <2>1, <2>2, <2>3, WriteCopies
    <3> QED BY <2>1, <2>2, <2>3, <2>4, <3>1, <3>2, <3>3, WriteCopies DEF CopiesInv
  <2> QED BY <2>5, <2>6
<1>2. CASE ~(seen.exists /\ obj.exists)
  <2>1. EndPass /\ UNCHANGED <<server, druid, env>>
    BY <1>2 DEF makePatchDruidIngestionStatus
  <2> QED BY <2>1, LastStep
<1> QED BY <1>1, <1>2

\* POST of a spec.
LEMMA PostType ==
  ASSUME TypeOK, pc # "idle", PostTask
  PROVE  /\ tasks' \in [TaskIds -> Task \cup {Nil}]
         /\ id' \in TaskIds \cup {Nil}
         /\ faults' \in 0..MaxFaults
         /\ UNCHANGED <<obj, cache, fresh, compaction, rules, di, compactionOk, applied>>
<1>1. di \in DruidIngestion
  BY DEF TypeOK
<1>2. di.spec.s \in Content /\ DataSource[di.spec.s] \in TaskIds
  BY <1>1, CopyParts, IngestionAssumption
<1>3. FreeIds \subseteq TaskIds
  BY <1>2 DEF FreeIds
<1>4. FreeIds # {} => NewId \in TaskIds
  BY <1>3 DEF NewId
<1>5. faults' \in 0..MaxFaults
  BY IngestionAssumption DEF PostTask, Fault, TypeOK
<1>6. [spec |-> di.spec.s, up |-> TRUE] \in Task
  BY <1>2 DEF Task
<1>7. tasks' \in [TaskIds -> Task \cup {Nil}] /\ id' \in TaskIds \cup {Nil}
  BY <1>4, <1>6 DEF PostTask, TypeOK
<1> QED BY <1>5, <1>7 DEF PostTask

\* A comparison, and perhaps a POST, of compaction settings.
LEMMA CompactionType ==
  ASSUME TypeOK, pc # "idle", NEW ok \in BOOLEAN, UpdateCompaction(ok)
  PROVE  compaction' \in [DataSources -> Objects \cup {Nil}]
<1>1. di.spec.c \in Objects \cup {Nil}
  BY CopyParts DEF TypeOK
<1> QED BY <1>1 DEF UpdateCompaction, TypeOK

LEMMA RulesType ==
  ASSUME TypeOK, pc # "idle", UpdateRules
  PROVE  rules' \in [DataSources -> RuleLists \cup {Nil}]
<1>1. di.spec.r \in RuleLists \cup {Nil}
  BY CopyParts DEF TypeOK
<1> QED BY <1>1 DEF UpdateRules, TypeOK

LEMMA InitCorrect == Init => TypeOK /\ CopiesInv
<1> SUFFICES ASSUME Init PROVE TypeOK /\ CopiesInv
  OBVIOUS
<1>1. NoStatus \in Status
  BY DEF NoStatus, Status, Types
<1>2. obj \in DruidIngestion /\ obj.status.taskId = Nil
  BY <1>1 DEF Init, DruidIngestion, NoStatus
<1>3. 1 \in 1..MaxEdits /\ 0 \in 0..MaxFaults
  BY IngestionAssumption
<1>4. /\ cache = <<obj>> /\ cache \in Seq(DruidIngestion) /\ Len(cache) = 1
      /\ cache # <<>>
  BY <1>2 DEF Init
<1>5. applied \in Seq(Specs) /\ Len(applied) = 1
  BY <1>2, CopyParts DEF Init
<1>6. TypeOK
  BY <1>2, <1>3, <1>4, <1>5 DEF Init, TypeOK
<1>7. CopiesInv
  <2>1. cache[Len(cache)] = obj /\ \A k \in 1..Len(cache) : cache[k] = obj
    BY <1>4
  <2> QED BY <1>2, <2>1 DEF Init, CopiesInv, Updating
<1> QED BY <1>6, <1>7

LEMMA ReconcileStep ==
  ASSUME TypeOK, CopiesInv, Reconcile
  PROVE  TypeOK' /\ CopiesInv'
<1>1. /\ di' = seen /\ UNCHANGED <<obj, cache, druid, id, compactionOk, env>>
      /\ fresh' = (Len(cache) = 1)
  BY DEF Reconcile
<1>2. seen \in DruidIngestion /\ seen # Nil /\ seen' = seen
  BY <1>1, SeenType DEF seen
<1>3. /\ pc' \in {"create", "update", "compaction"}
      /\ pc' \in Updating => ~NoTask(seen)
  BY DEF Reconcile, Updating
<1>4. ~NoTask(seen) => seen.status.taskId # Nil
  <2>1. (seen.status.taskId = Nil) = (seen.status.cur = Nil)
    BY <1>2, CopyParts, StatusParts
  <2> QED BY <2>1 DEF NoTask
<1>5. TypeOK'
  BY <1>1, <1>2, <1>3 DEF TypeOK
<1>6. fresh' => di' = obj
  BY <1>1 DEF CopiesInv, seen
<1>7. di'.spec.type = obj.spec.type
  BY <1>1, SeenType DEF CopiesInv, seen
<1>8. CopiesInv'
  BY <1>1, <1>2, <1>3, <1>4, <1>6, <1>7 DEF CopiesInv
<1> QED BY <1>5, <1>8

LEMMA UpdateFinalizerStep ==
  ASSUME TypeOK, CopiesInv, Finalize \/ Release
  PROVE  TypeOK' /\ CopiesInv'
<1>1. obj \in DruidIngestion /\ pc # "idle"
  BY DEF TypeOK, Finalize, Release
<1>2. ASSUME NEW new \in DruidIngestion, Write(new), EndPass, UNCHANGED <<druid, env>>
      PROVE  TypeOK'
  BY <1>2, WriteCache DEF TypeOK, Write, EndPass
<1>3. ASSUME NEW b \in BOOLEAN, NEW c \in BOOLEAN
      PROVE  LET new == [obj EXCEPT !.fin = b, !.exists = c]
             IN  /\ new \in DruidIngestion
                 /\ new.status = obj.status /\ new.spec = obj.spec
  BY <1>1 DEF DruidIngestion
<1>4. LET new == [obj EXCEPT !.fin = TRUE]
      IN  new \in DruidIngestion /\ new.status = obj.status /\ new.spec = obj.spec
  BY <1>1 DEF DruidIngestion
<1>5. CASE EndPass /\ UNCHANGED <<server, druid, env>>
  BY <1>5, LastStep
<1>6. CASE Write([obj EXCEPT !.fin = TRUE]) /\ EndPass /\ UNCHANGED <<druid, env>>
  BY <1>2, <1>4, <1>6, WriteStep
<1>7. CASE /\ Write([obj EXCEPT !.fin = FALSE, !.exists = FALSE])
           /\ EndPass /\ UNCHANGED <<druid, env>>
  BY <1>2, <1>3, <1>7, WriteStep
<1>8. CASE /\ Goto("release") \/ Goto("releaseAnyway")
           /\ \/ /\ tasks' = [i \in TaskIds |->
                                IF i = di.status.taskId /\ tasks[i] # Nil
                                  THEN [tasks[i] EXCEPT !.up = FALSE]
                                  ELSE tasks[i]]
                 /\ UNCHANGED faults
              \/ Fault /\ UNCHANGED tasks
           /\ UNCHANGED <<server, compaction, rules, applied>>
  <2>1. tasks' \in [TaskIds -> Task \cup {Nil}]
    <3>1. \A i \in TaskIds : tasks[i] # Nil => [tasks[i] EXCEPT !.up = FALSE] \in Task
      BY DEF TypeOK, Task
    <3> QED BY <1>8, <3>1 DEF TypeOK
  <2>2. faults' \in 0..MaxFaults
    BY <1>8, IngestionAssumption DEF Fault, TypeOK
  <2>3. TypeOK'
    BY <1>1, <1>8, <2>1, <2>2 DEF TypeOK, Goto
  <2>4. CopiesInv'
    BY <1>1, <1>8, QuietStep DEF Goto, Labels, Updating
  <2> QED BY <2>3, <2>4
<1> QED BY <1>5, <1>6, <1>7, <1>8 DEF Finalize, Release

LEMMA EnvironmentStep ==
  ASSUME TypeOK, CopiesInv, Fail \/ UserEdit \/ UserDelete \/ Deliver
  PROVE  TypeOK' /\ CopiesInv'
<1>1. obj \in DruidIngestion
  BY DEF TypeOK
<1>2. CASE Fail
  <2>1. EndPass /\ UNCHANGED <<server, druid, applied>>
    BY <1>2 DEF Fail
  <2>2. faults' \in 0..MaxFaults
    BY <1>2, IngestionAssumption DEF Fail, Fault, TypeOK
  <2>3. TypeOK'
    BY <2>1, <2>2 DEF TypeOK, EndPass
  <2> QED BY <2>1, <2>3, LastStep
<1>3. CASE UserEdit \/ UserDelete
  <2>1. PICK new \in DruidIngestion :
          /\ Write(new) /\ new.status = obj.status
          /\ new.spec.type = obj.spec.type
          /\ \/ applied' = Append(applied, new.spec)
             \/ UNCHANGED applied
    BY <1>3, UserWrite
  <2>2. UNCHANGED <<druid, pc, di, id, compactionOk, faults>>
    BY <1>3, UserWrite
  <2>3. applied' \in Seq(Specs) /\ Len(applied') \in 1..MaxEdits
    <3>1. new.spec \in Specs
      BY CopyParts
    <3>2. CASE UserEdit
      BY <2>1, <3>1, <3>2, IngestionAssumption DEF UserEdit, TypeOK
    <3>3. CASE UserDelete
      BY <3>3 DEF UserDelete, TypeOK
    <3> QED BY <1>3, <3>2, <3>3
  <2>4. TypeOK'
    BY <2>1, <2>2, <2>3, WriteCache DEF TypeOK, Write
  <2>5. CopiesInv'
    BY <2>1, <2>2, WriteStep
  <2> QED BY <2>4, <2>5
<1>4. CASE Deliver
  <2>1. UNCHANGED <<obj, druid, pass, env>>
    BY <1>4 DEF Deliver
  <2>2. TypeOK'
    BY <1>4, <2>1, DeliverCache DEF TypeOK
  <2>3. \A k \in 1..Len(cache') : k + 1 \in 1..Len(cache) /\ cache'[k] = cache[k + 1]
    BY <1>4, DeliverCache
  <2>4. cache'[Len(cache')] = obj
    <3>1. Len(cache') \in 1..Len(cache') /\ Len(cache') + 1 = Len(cache)
      BY <1>4, DeliverCache
    <3> QED BY <2>3, <3>1 DEF CopiesInv
  <2>5. seen.status.taskId # Nil => seen'.status.taskId # Nil
    <3>1. /\ 1 \in 1..Len(cache') /\ 1 \in 1..Len(cache) /\ 2 \in 1..Len(cache)
          /\ 1 <= 2 /\ 1 + 1 = 2
      BY <1>4, DeliverCache
    <3>2. cache'[1] = cache[2]
      BY <2>3, <3>1
    <3> QED BY <3>1, <3>2 DEF CopiesInv, seen
  <2>6. ASSUME NEW j \in 1..Len(cache'), NEW k \in 1..Len(cache'), j <= k,
               cache'[j].status.taskId # Nil
        PROVE  cache'[k].status.taskId # Nil
    <3>1. /\ j + 1 \in 1..Len(cache) /\ k + 1 \in 1..Len(cache) /\ j + 1 <= k + 1
      BY <2>3, <2>6
    <3>2. cache'[j] = cache[j + 1] /\ cache'[k] = cache[k + 1]
      BY <2>3
    <3> QED BY <2>6, <3>1, <3>2 DEF CopiesInv
  <2>7. ASSUME NEW k \in 1..Len(cache') PROVE cache'[k].spec.type = obj.spec.type
    BY <2>3 DEF CopiesInv
  <2>8. CopiesInv'
    BY <2>1, <2>4, <2>5, <2>6, <2>7 DEF CopiesInv
  <2> QED BY <2>2, <2>8
<1> QED BY <1>2, <1>3, <1>4

\* The steps of CreateOrUpdate that talk to Druid.
LEMMA DruidStep ==
  ASSUME TypeOK, CopiesInv,
         \/ CreateTask \/ CreateCompaction \/ CreateRules
         \/ UpdateTask \/ Compaction \/ Rules
  PROVE  TypeOK' /\ CopiesInv'
<1>1. CASE CreateTask \/ UpdateTask
  <2>1. pc # "idle" /\ PostTask
    BY <1>1 DEF CreateTask, UpdateTask
  <2>2. /\ pc' \in Labels /\ (pc' \in Updating => pc \in Updating)
        /\ (pc' = "updateRecord" => id' # Nil)
    BY <1>1 DEF CreateTask, UpdateTask, Labels, Updating
  <2>3. CopiesInv'
    BY <2>1, <2>2, PostType, QuietStep
  <2>4. TypeOK'
    BY <2>1, <2>2, PostType DEF TypeOK, Labels
  <2> QED BY <2>3, <2>4
<1>2. CASE CreateCompaction \/ Compaction
  <2>1. /\ pc # "idle" /\ pc' \in Labels /\ (pc' \in Updating => pc \in Updating)
        /\ pc' # "updateRecord" /\ compactionOk' \in BOOLEAN
        /\ UNCHANGED <<obj, cache, fresh, tasks, rules, di, id, applied, faults>>
    BY <1>2 DEF CreateCompaction, Compaction, Labels, Updating, TypeOK
  <2>2. \E ok \in BOOLEAN : UpdateCompaction(ok)
    BY <1>2 DEF CreateCompaction, Compaction
  <2>3. CopiesInv'
    BY <2>1, QuietStep
  <2>4. TypeOK'
    BY <2>1, <2>2, CompactionType DEF TypeOK, Labels
  <2> QED BY <2>3, <2>4
<1>3. CASE CreateRules \/ Rules
  <2>1. /\ pc # "idle" /\ pc' \in Labels /\ (pc' \in Updating => pc \in Updating)
        /\ pc' # "updateRecord"
        /\ UNCHANGED <<obj, cache, fresh, tasks, compaction, di, id, compactionOk,
                       applied, faults>>
    BY <1>3 DEF CreateRules, Rules, Goto, Labels, Updating
  <2>2. rules' \in [DataSources -> RuleLists \cup {Nil}]
    BY <1>3, <2>1, RulesType DEF CreateRules, Rules, TypeOK
  <2>3. CopiesInv'
    BY <2>1, QuietStep
  <2>4. TypeOK'
    BY <2>1, <2>2 DEF TypeOK, Labels
  <2> QED BY <2>3, <2>4
<1> QED BY <1>1, <1>2, <1>3

\* What the four status patches have in common.
LEMMA RecordParts ==
  ASSUME TypeOK, CopiesInv,
         CreateRecord \/ UpdateRecord \/ CompactionRecord \/ RulesRecord
  PROVE  \/ EndPass /\ UNCHANGED <<server, druid, env>>
         \/ /\ pc \notin {"idle", "finalize", "release", "releaseAnyway"}
            /\ \E t \in TaskIds \cap {id, di.status.taskId}, type \in Types,
                  label \in {"finalize", "compaction", "rules"} :
                 /\ label \in Updating => pc \in Updating
                 /\ makePatchDruidIngestionStatus(t, type, label)
<1>1. pc # "idle" => di.status.taskId \in TaskIds \cup {Nil}
  BY CopyParts, StatusParts DEF TypeOK
<1>2. id \in TaskIds \cup {Nil}
  BY DEF TypeOK
<1>3. {"CreateSuccess", "CreateFail", "UpdateSuccess"} \subseteq Types
  BY DEF Types
<1>4. CASE CreateRecord
  BY <1>2, <1>3, <1>4 DEF CreateRecord, Updating
<1>5. CASE UpdateRecord
  BY <1>2, <1>3, <1>5 DEF UpdateRecord, Updating, CopiesInv
<1>6. CASE CompactionRecord
  BY <1>1, <1>3, <1>6 DEF CompactionRecord, Updating, CopiesInv
<1>7. CASE RulesRecord
  BY <1>1, <1>3, <1>7 DEF RulesRecord, Updating, CopiesInv
<1> QED BY <1>4, <1>5, <1>6, <1>7

LEMMA RecordStep ==
  ASSUME TypeOK, CopiesInv,
         CreateRecord \/ UpdateRecord \/ CompactionRecord \/ RulesRecord
  PROVE  TypeOK' /\ CopiesInv'
<1>1. {"finalize", "compaction", "rules"} \subseteq Labels \ {"updateRecord"}
  BY DEF Labels
<1> QED BY <1>1, RecordParts, LastStep, PatchStep

LEMMA NextCorrect ==
  ASSUME TypeOK, CopiesInv, [Next]_vars
  PROVE  TypeOK' /\ CopiesInv'
<1>1. CASE UNCHANGED vars
  BY <1>1 DEF vars, TypeOK, CopiesInv, seen
<1>2. CASE Next
  BY <1>2, ReconcileStep, DruidStep, RecordStep, UpdateFinalizerStep,
     EnvironmentStep DEF Next, PassStep
<1> QED BY <1>1, <1>2

\* The types hold, and a status names a task if and only if it names a spec,
\* whatever contents, lags, edits and faults there are.
THEOREM IngestionCorrect == Spec => [](TypeOK /\ CopiesInv)
<1>1. Init => TypeOK /\ CopiesInv
  BY InitCorrect
<1>2. TypeOK /\ CopiesInv /\ [Next]_vars => (TypeOK /\ CopiesInv)'
  BY NextCorrect
<1> QED BY <1>1, <1>2, PTL DEF Spec
-----------------------------------------------------------------------------
(* Shutdown before release.                                                 *)

\* An edit adds its data source.
LEMMA SourcesGrow ==
  ASSUME TypeOK, NEW new \in Specs, applied' = Append(applied, new)
  PROVE  Sources \subseteq Sources' /\ DataSource[new.s] \in Sources'
<1>1. /\ Len(applied') = Len(applied) + 1 /\ Len(applied) \in Nat
      /\ applied'[Len(applied')] = new
      /\ \A k \in 1..Len(applied) : applied'[k] = applied[k]
  BY DEF TypeOK
<1>2. /\ Len(applied') \in 1..Len(applied')
      /\ \A k \in 1..Len(applied) : k \in 1..Len(applied')
  BY <1>1
<1> QED BY <1>1, <1>2 DEF Sources

LEMMA SourcesStay ==
  ASSUME UNCHANGED applied
  PROVE  Sources' = Sources
BY DEF Sources

LEMMA ShutdownPost ==
  ASSUME TypeOK, CopiesInv, ShutdownInv, CreateTask \/ UpdateTask
  PROVE  ShutdownInv'
<1>1. /\ pc # "idle" /\ PostTask /\ UNCHANGED <<obj, cache, fresh, di, applied>>
      /\ pc' \in {"createCompaction", "compaction", "updateRecord"}
  BY DEF CreateTask, UpdateTask, PostTask
<1>2. /\ di.spec.s \in Content /\ di.spec.type = obj.spec.type
      /\ Sources' = Sources
  BY <1>1, CopyParts, SourcesStay DEF TypeOK, CopiesInv
<1>3. \/ id' = Nil /\ tasks' = tasks
      \/ /\ id' = NewId /\ NewId \in FreeIds
         /\ tasks' = [tasks EXCEPT ![NewId] = [spec |-> di.spec.s, up |-> TRUE]]
  BY <1>1 DEF PostTask, NewId
<1>4. \A d \in DataSources : d \in TaskIds
  BY IngestionAssumption
<1>5. CASE obj.spec.type = "kafka"
  <2>1. FreeIds \subseteq Sources
    BY <1>1, <1>2, <1>5 DEF FreeIds, ShutdownInv, NamesApplied
  <2>2. id' \in Sources \cup {Nil}
    BY <1>3, <2>1
  <2>3. \A d \in DataSources : tasks'[d] # Nil => d \in Sources
    BY <1>3, <1>4, <2>1 DEF TypeOK, ShutdownInv
  <2> QED BY <1>1, <1>2, <1>5, <2>2, <2>3 DEF ShutdownInv, NamesApplied
<1>6. CASE obj.spec.type # "kafka"
  <2>1. FreeIds \cap DataSources = {}
    BY <1>2, <1>6 DEF FreeIds
  <2>2. \A d \in DataSources : tasks'[d] = Nil
    BY <1>3, <1>4, <1>6, <2>1 DEF TypeOK, ShutdownInv
  <2> QED BY <1>1, <1>6, <2>2 DEF ShutdownInv
<1> QED BY <1>5, <1>6

LEMMA ShutdownQuiet ==
  ASSUME TypeOK, CopiesInv, ShutdownInv,
         CreateCompaction \/ CreateRules \/ Compaction \/ Rules
  PROVE  ShutdownInv'
<1>1. /\ pc # "idle" /\ UNCHANGED <<obj, cache, fresh, tasks, di, id, applied>>
      /\ pc' \notin {"release", "releaseAnyway"} /\ (pc' = "finalize" => pc = "rules")
  BY DEF CreateCompaction, CreateRules, Compaction, Rules, Goto
<1>2. pc = "rules" => di.status.taskId # Nil
  BY DEF CopiesInv, Updating
<1> QED BY <1>1, <1>2, SourcesStay DEF ShutdownInv, NamesApplied

\* What a write keeps of the clause about the cached copies.
LEMMA ShutdownWrite ==
  ASSUME TypeOK, ShutdownInv, NEW new \in DruidIngestion, Write(new),
         obj.spec.type = "kafka", Sources \subseteq Sources',
         DataSource[new.spec.s] \in Sources',
         new.status.taskId \in Sources' \cup {Nil}
  PROVE  \A k \in 1..Len(cache') : /\ DataSource[cache'[k].spec.s] \in Sources'
                                   /\ cache'[k].status.taskId \in Sources' \cup {Nil}
<1> SUFFICES ASSUME NEW k \in 1..Len(cache')
             PROVE  /\ DataSource[cache'[k].spec.s] \in Sources'
                    /\ cache'[k].status.taskId \in Sources' \cup {Nil}
  OBVIOUS
<1>1. CASE k = Len(cache')
  BY <1>1, WriteCache
<1>2. CASE k # Len(cache')
  BY <1>2, WriteCache DEF ShutdownInv, NamesApplied
<1> QED BY <1>1, <1>2

\* The version in the API server is the last that the cache is to show.
LEMMA ShutdownCurrent ==
  ASSUME TypeOK, CopiesInv, ShutdownInv, obj.spec.type = "kafka"
  PROVE  NamesApplied(obj) /\ NamesApplied(seen)
BY SeenType DEF ShutdownInv, CopiesInv, seen

LEMMA ShutdownEnd ==
  ASSUME TypeOK, CopiesInv, ShutdownInv, EndPass, UNCHANGED <<tasks, applied>>,
         \/ UNCHANGED server
         \/ \E new \in DruidIngestion :
              Write(new) /\ new.status = obj.status /\ new.spec = obj.spec
  PROVE  ShutdownInv'
<1>1. Sources' = Sources
  BY SourcesStay
<1>2. CASE UNCHANGED server
  BY <1>1, <1>2 DEF EndPass, ShutdownInv, NamesApplied
<1>3. ASSUME NEW new \in DruidIngestion, Write(new),
             new.status = obj.status, new.spec = obj.spec
      PROVE  ShutdownInv'
  <2>1. obj' = new
    BY <1>3 DEF Write
  <2>2. obj.spec.type = "kafka" =>
          \A k \in 1..Len(cache') : /\ DataSource[cache'[k].spec.s] \in Sources'
                                    /\ cache'[k].status.taskId \in Sources' \cup {Nil}
    BY <1>1, <1>3, ShutdownCurrent, ShutdownWrite DEF NamesApplied
  <2> QED BY <1>1, <1>3, <2>1, <2>2 DEF EndPass, ShutdownInv, NamesApplied
<1> QED BY <1>2, <1>3

LEMMA ShutdownRecord ==
  ASSUME TypeOK, CopiesInv, ShutdownInv,
         CreateRecord \/ UpdateRecord \/ CompactionRecord \/ RulesRecord
  PROVE  ShutdownInv'
<1>1. CASE EndPass /\ UNCHANGED <<server, druid, env>>
  BY <1>1, ShutdownEnd
<1>2. ASSUME pc # "idle",
             NEW t \in TaskIds \cap {id, di.status.taskId}, NEW type \in Types,
             NEW label \in {"finalize", "compaction", "rules"},
             makePatchDruidIngestionStatus(t, type, label)
      PROVE  ShutdownInv'
  <2> DEFINE st  == MergePatch(obj.status, seen.status, NewStatus(seen, t, type))
             new == [obj EXCEPT !.status = st]
  <2>1. CASE seen.exists /\ obj.exists
    <3>1. /\ Write(new) /\ di' = seen /\ pc' = label /\ id' = Nil
          /\ tasks' = tasks /\ Sources' = Sources
      BY <1>2, <2>1, SourcesStay DEF makePatchDruidIngestionStatus
    <3>2. st \in Status /\ st.taskId \in {obj.status.taskId, t}
      BY <1>2, PatchedStatus
    <3> HIDE DEF st
    <3>3. new \in DruidIngestion /\ new.spec = obj.spec /\ new.status = st
      BY <3>2 DEF TypeOK, DruidIngestion
    <3> HIDE DEF new
    <3>4. obj' = new /\ fresh' = FALSE
      BY <3>1 DEF Write
    <3>5. ASSUME obj.spec.type = "kafka"
          PROVE  /\ st.taskId \in Sources \cup {Nil}
                 /\ NamesApplied(obj) /\ NamesApplied(seen)
      BY <1>2, <3>2, <3>5, ShutdownCurrent DEF ShutdownInv, NamesApplied
    <3>6. ASSUME obj.spec.type = "kafka"
          PROVE  \A k \in 1..Len(cache') :
                   /\ DataSource[cache'[k].spec.s] \in Sources'
                   /\ cache'[k].status.taskId \in Sources' \cup {Nil}
      BY <3>1, <3>3, <3>5, <3>6, ShutdownWrite DEF NamesApplied
    <3> QED BY <3>1, <3>3, <3>4, <3>5, <3>6 DEF ShutdownInv, NamesApplied
  <2>2. CASE ~(seen.exists /\ obj.exists)
    <3>1. EndPass /\ UNCHANGED <<server, druid, env>>
      BY <1>2, <2>2 DEF makePatchDruidIngestionStatus
    <3> QED BY <3>1, ShutdownEnd
  <2> QED BY <2>1, <2>2
<1> QED BY <1>1, <1>2, RecordParts

LEMMA ShutdownFinalize ==
  ASSUME TypeOK, CopiesInv, ShutdownInv, Finalize \/ Release
  PROVE  ShutdownInv'
<1>1. obj \in DruidIngestion
  BY DEF TypeOK
<1>2. CASE EndPass /\ UNCHANGED <<server, druid, env>>
  BY <1>2, ShutdownEnd
<1>3. CASE /\ \/ Write([obj EXCEPT !.fin = TRUE])
              \/ Write([obj EXCEPT !.fin = FALSE, !.exists = FALSE])
           /\ EndPass /\ UNCHANGED <<druid, env>>
  <2>1. /\ [obj EXCEPT !.fin = TRUE] \in DruidIngestion
        /\ [obj EXCEPT !.fin = TRUE].status = obj.status
        /\ [obj EXCEPT !.fin = TRUE].spec = obj.spec
    BY <1>1 DEF DruidIngestion
  <2>2. /\ [obj EXCEPT !.fin = FALSE, !.exists = FALSE] \in DruidIngestion
        /\ [obj EXCEPT !.fin = FALSE, !.exists = FALSE].status = obj.status
        /\ [obj EXCEPT !.fin = FALSE, !.exists = FALSE].spec = obj.spec
    BY <1>1 DEF DruidIngestion
  <2> QED BY <1>3, <2>1, <2>2, ShutdownEnd
<1>4. CASE /\ pc = "finalize"
           /\ \/ /\ Goto("release")
                 /\ tasks' = [i \in TaskIds |->
                                IF i = di.status.taskId /\ tasks[i] # Nil
                                  THEN [tasks[i] EXCEPT !.up = FALSE]
                                  ELSE tasks[i]]
              \/ Goto("releaseAnyway") /\ UNCHANGED tasks
           /\ UNCHANGED <<server, compaction, rules, applied>>
  <2>1. /\ pc' \in {"release", "releaseAnyway"}
        /\ UNCHANGED <<obj, cache, fresh, di, id>> /\ Sources' = Sources
    BY <1>4, SourcesStay DEF Goto
  <2>2. di.status.taskId \in TaskIds \cup {Nil}
    BY <1>4, CopyParts, StatusParts DEF TypeOK
  <2>3. \A d \in DataSources : tasks[d] = Nil => tasks'[d] = Nil
    BY <1>4, IngestionAssumption
  <2>4. ASSUME pc' = "release", di.status.taskId # Nil
        PROVE  ~Running(di.status.taskId)'
    <3>1. tasks'[di.status.taskId] =
            IF tasks[di.status.taskId] # Nil
            THEN [tasks[di.status.taskId] EXCEPT !.up = FALSE]
            ELSE tasks[di.status.taskId]
      BY <1>4, <2>2, <2>4 DEF Goto
    <3>2. tasks[di.status.taskId] # Nil =>
            [tasks[di.status.taskId] EXCEPT !.up = FALSE].up = FALSE
      BY <2>2, <2>4 DEF TypeOK, Task
    <3> QED BY <2>1, <3>1, <3>2 DEF Running
  <2> QED BY <1>4, <2>1, <2>3, <2>4 DEF ShutdownInv, NamesApplied
<1> QED BY <1>2, <1>3, <1>4 DEF Finalize, Release

LEMMA ShutdownEnvironment ==
  ASSUME TypeOK, CopiesInv, ShutdownInv,
         Reconcile \/ Fail \/ UserEdit \/ UserDelete \/ Deliver
  PROVE  ShutdownInv'
<1>1. CASE Reconcile
  <2>1. /\ pc' \in {"create", "update", "compaction"} /\ di' = seen
        /\ UNCHANGED <<obj, cache, tasks, id>> /\ Sources' = Sources
    BY <1>1, SourcesStay DEF Reconcile
  <2> QED BY <2>1, ShutdownCurrent DEF ShutdownInv, NamesApplied
<1>2. CASE Fail
  BY <1>2, ShutdownEnd DEF Fail
<1>3. CASE UserEdit \/ UserDelete
  <2>1. PICK new \in DruidIngestion :
          /\ Write(new) /\ new.status = obj.status
          /\ new.spec.type = obj.spec.type
          /\ \/ applied' = Append(applied, new.spec)
             \/ UNCHANGED applied /\ new.spec = obj.spec
    BY <1>3, UserWrite
  <2>2. UNCHANGED <<tasks, pc, di, id>> /\ obj' = new /\ fresh' = FALSE
    BY <1>3, <2>1, UserWrite DEF Write
  <2>3. /\ Sources \subseteq Sources'
        /\ obj.spec.type = "kafka" => DataSource[new.spec.s] \in Sources'
    <3>1. CASE applied' = Append(applied, new.spec)
      BY <3>1, CopyParts, SourcesGrow
    <3>2. CASE UNCHANGED applied /\ new.spec = obj.spec
      BY <3>2, SourcesStay, ShutdownCurrent DEF NamesApplied
    <3> QED BY <2>1, <3>1, <3>2
  <2>4. obj.spec.type = "kafka" =>
          \A k \in 1..Len(cache') : /\ DataSource[cache'[k].spec.s] \in Sources'
                                    /\ cache'[k].status.taskId \in Sources' \cup {Nil}
    BY <2>1, <2>3, ShutdownCurrent, ShutdownWrite DEF NamesApplied
  <2> QED BY <2>1, <2>2, <2>3, <2>4 DEF ShutdownInv, NamesApplied, Running
<1>4. CASE Deliver
  <2>1. UNCHANGED <<obj, fresh, tasks, pc, di, id>> /\ Sources' = Sources
    BY <1>4, SourcesStay DEF Deliver
  <2>2. \A k \in 1..Len(cache') : \E j \in 1..Len(cache) : cache'[k] = cache[j]
    BY <1>4, DeliverCache
  <2> QED BY <2>1, <2>2 DEF ShutdownInv, NamesApplied, Running
<1> QED BY <1>1, <1>2, <1>3, <1>4

LEMMA ShutdownStep ==
  ASSUME TypeOK, CopiesInv, ShutdownInv, [Next]_vars
  PROVE  ShutdownInv'
<1>1. CASE UNCHANGED vars
  BY <1>1, SourcesStay DEF vars, ShutdownInv, NamesApplied, Running
<1>2. CASE Next
  BY <1>2, ShutdownPost, ShutdownQuiet, ShutdownRecord, ShutdownFinalize,
     ShutdownEnvironment DEF Next, PassStep
<1> QED BY <1>1, <1>2

\* The resource is dropped only by Release, from a copy that is current and
\* names the task the pass has shut down.
LEMMA ReleaseStep ==
  ASSUME TypeOK, CopiesInv, ShutdownInv, [Next]_vars,
         obj.exists, obj.fin, ~obj'.exists, pc # "releaseAnyway"
  PROVE  /\ obj.status.taskId # Nil /\ ~Running(obj.status.taskId)
         /\ SameSource => \A d \in DataSources : ~Running(d)
<1>1. obj \in DruidIngestion
  BY DEF TypeOK
<1>2. CASE Release
  <2>1. pc = "release" /\ fresh
    BY <1>2 DEF Release, UpdateConflict
  <2>2. di = obj /\ obj.status.taskId # Nil /\ ~Running(obj.status.taskId)
    BY <2>1 DEF CopiesInv, ShutdownInv
  <2>3. ASSUME SameSource, NEW d \in DataSources PROVE ~Running(d)
    <3>1. SUFFICES ASSUME Running(d) PROVE FALSE
      OBVIOUS
    <3>2. obj.spec.type = "kafka" /\ d \in Sources
      BY <3>1 DEF ShutdownInv, Running
    <3>3. obj.status.taskId \in Sources
      BY <2>2, <3>2, ShutdownCurrent DEF NamesApplied
    <3>4. d = obj.status.taskId
      BY <2>3, <3>2, <3>3 DEF SameSource, Sources
    <3> QED BY <2>2, <3>1, <3>4
  <2> QED BY <2>2, <2>3
<1>3. CASE CreateRecord \/ UpdateRecord \/ CompactionRecord \/ RulesRecord
  BY <1>1, <1>3, RecordParts
     DEF makePatchDruidIngestionStatus, Write, DruidIngestion
<1>4. CASE Finalize \/ UserEdit \/ UserDelete
  BY <1>1, <1>4 DEF Finalize, UserEdit, UserDelete, Write, DruidIngestion
<1>5. CASE \/ UNCHANGED vars \/ Reconcile \/ Fail \/ Deliver
           \/ CreateTask \/ CreateCompaction \/ CreateRules
           \/ UpdateTask \/ Compaction \/ Rules
  <2>1. obj' = obj
    BY <1>5 DEF vars, Reconcile, Fail, Deliver, CreateTask, CreateCompaction,
                CreateRules, UpdateTask, Compaction, Rules, PostTask
  <2> QED BY <2>1
<1> QED BY <1>2, <1>3, <1>4, <1>5 DEF Next, PassStep

\* When the finalizer of a DruidIngestion is removed, the task its status names
\* does not run, and no supervisor runs if the specs kept to one data source:
\* for any number of edits, before and during the deletion, any lag of the cache,
\* any mix of compaction and rules and any faults but one, the refusal of the
\* shutdown in the pass that removes the finalizer.
THEOREM ReleaseSafe == Spec => StoppedBeforeReleased
<1>1. Init => ShutdownInv
  <2> SUFFICES ASSUME Init PROVE ShutdownInv
    OBVIOUS
  <2>1. /\ obj.status.taskId = Nil /\ cache = <<obj>>
        /\ applied = <<obj.spec>>
    BY DEF Init, NoStatus
  <2>2. \A d \in DataSources : tasks[d] = Nil
    BY IngestionAssumption DEF Init
  <2>3. DataSource[obj.spec.s] \in Sources
    BY <2>1 DEF Sources
  <2> QED BY <2>1, <2>2, <2>3 DEF Init, ShutdownInv, NamesApplied
<1>2. TypeOK /\ CopiesInv /\ ShutdownInv /\ [Next]_vars => ShutdownInv'
  BY ShutdownStep
<1>3. TypeOK /\ CopiesInv /\ ShutdownInv /\ [Next]_vars =>
        [obj.exists /\ obj.fin /\ ~obj'.exists /\ pc # "releaseAnyway" =>
           /\ obj.status.taskId # Nil /\ ~Running(obj.status.taskId)
           /\ SameSource => \A d \in DataSources : ~Running(d)]_vars
  BY ReleaseStep
<1> QED BY <1>1, <1>2, <1>3, IngestionCorrect, PTL DEF Spec, StoppedBeforeReleased
-----------------------------------------------------------------------------
(* The order in which contents are applied and recorded.                    *)

LEMMA OlderTrans ==
  ASSUME NEW h \in Seq(Specs), NEW a, NEW b, NEW c,
         Occurs(h, b), Older(h, a, b), Older(h, b, c)
  PROVE  Older(h, a, c)
<1>1. PICK m \in 1..Len(h) : h[m].s = b
  BY DEF Occurs
<1>2. CASE a = b \/ b = c
  BY <1>2
<1>3. CASE a # b /\ b # c
  <2>1. \A j, k \in 1..Len(h) : h[j].s = a /\ h[k].s = c => j < m /\ m < k
    BY <1>1, <1>3 DEF Older
  <2>2. \A j, k \in 1..Len(h) : j < m /\ m < k => j < k
    BY <1>1
  <2> QED BY <2>1, <2>2 DEF Older
<1> QED BY <1>2, <1>3

LEMMA OlderAntisymmetric ==
  ASSUME NEW h \in Seq(Specs), NEW a, NEW b,
         Occurs(h, a), Occurs(h, b), Older(h, a, b), Older(h, b, a)
  PROVE  a = b
BY DEF Older, Occurs

\* "no value" is never applied.
LEMMA NilOlder ==
  ASSUME NEW h \in Seq(Specs), NEW b
  PROVE  Older(h, Nil, b) /\ Older(h, b, Nil) /\ ~Occurs(h, Nil)
<1>1. \A k \in 1..Len(h) : h[k].s # Nil
  <2>1. \A k \in 1..Len(h) : h[k] \in SpecType
    BY IngestionAssumption
  <2> QED BY <2>1, IngestionAssumption DEF SpecType
<1> QED BY <1>1 DEF Older, Occurs

\* One more content, in a history that does not come back to an earlier one.
LEMMA AppendHistory ==
  ASSUME NEW h \in Seq(Specs), NEW x \in Specs, NeverBack(Append(h, x))
  PROVE  LET g == Append(h, x)
         IN  /\ g \in Seq(Specs)
             /\ NeverBack(h)
             /\ Occurs(g, x.s)
             /\ \A a : Occurs(h, a) => Occurs(g, a) /\ Older(g, a, x.s)
             /\ \A a, b : Occurs(h, a) /\ Occurs(h, b) /\ Older(h, a, b) =>
                          Older(g, a, b)
<1> DEFINE g == Append(h, x)
           n == Len(h)
<1>1. /\ g \in Seq(Specs) /\ n \in Nat /\ Len(g) = n + 1 /\ g[n + 1] = x
      /\ \A k \in 1..n : k \in 1..Len(g) /\ g[k] = h[k] /\ k < n + 1
      /\ \A k \in 1..Len(g) : k # n + 1 => k \in 1..n
      /\ n + 1 \in 1..Len(g)
  OBVIOUS
<1> HIDE DEF g, n
<1>2. NeverBack(g)
  BY DEF g
<1>3. NeverBack(h)
  <2> SUFFICES ASSUME NEW i \in 1..n, NEW j \in 1..n, NEW k \in 1..n,
                      i < j, j < k, h[i].s = h[k].s
               PROVE  h[j].s = h[i].s
    BY DEF NeverBack, n
  <2> QED BY <1>1, <1>2 DEF NeverBack
<1>4. Occurs(g, x.s)
  BY <1>1 DEF Occurs
<1>5. ASSUME NEW a, Occurs(h, a)
      PROVE  Occurs(g, a) /\ Older(g, a, x.s)
  <2>1. PICK m \in 1..n : h[m].s = a
    BY <1>5 DEF Occurs, n
  <2>2. Occurs(g, a)
    BY <1>1, <2>1 DEF Occurs
  <2>3. ASSUME a # x.s, NEW j \in 1..Len(g), NEW k \in 1..Len(g),
               g[j].s = a, g[k].s = x.s
        PROVE  j < k
    <3>1. j \in 1..n /\ j < n + 1 /\ j # k
      BY <1>1, <2>3
    <3>2. ~(k < j)
      BY <1>1, <1>2, <2>3, <3>1 DEF NeverBack
    <3> QED BY <1>1, <3>1, <3>2
  <2> QED BY <2>2, <2>3 DEF Older
<1>6. ASSUME NEW a, NEW b, Occurs(h, a), Occurs(h, b), Older(h, a, b)
      PROVE  Older(g, a, b)
  <2>1. CASE a = b \/ b = x.s
    BY <1>5, <1>6, <2>1 DEF Older
  <2>2. CASE a # b /\ b # x.s
    <3>1. a # x.s
      <4> SUFFICES ASSUME a = x.s PROVE FALSE
        OBVIOUS
      <4>1. PICK i \in 1..n : h[i].s = a
        BY <1>6 DEF Occurs, n
      <4>2. PICK j \in 1..n : h[j].s = b
        BY <1>6 DEF Occurs, n
      <4>3. i < j
        BY <1>6, <2>2, <4>1, <4>2 DEF Older, n
      <4>4. g[j].s = g[i].s
        BY <1>1, <1>2, <4>1, <4>2, <4>3 DEF NeverBack
      <4> QED BY <1>1, <2>2, <4>1, <4>2, <4>4
    <3> QED BY <1>1, <1>6, <2>2, <3>1 DEF Older, n
  <2> QED BY <2>1, <2>2
<1> QED BY <1>1, <1>3, <1>4, <1>5, <1>6 DEF g

\* Where the current version is, and that without a recorded content no copy
\* has one.
LEMMA LastVersion ==
  ASSUME TypeOK, CopiesInv
  PROVE  /\ 1 \in 1..Len(cache) /\ Len(cache) \in 1..Len(cache)
         /\ \A k \in 1..Len(cache) : k <= Len(cache)
         /\ cache[Len(cache)] = obj
         /\ applied \in Seq(Specs)
         /\ obj.status.cur = Nil => \A k \in 1..Len(cache) : cache[k].status.cur = Nil
<1>1. /\ 1 \in 1..Len(cache) /\ Len(cache) \in 1..Len(cache)
      /\ \A k \in 1..Len(cache) : k <= Len(cache)
  BY SeenType
<1>2. cache[Len(cache)] = obj /\ applied \in Seq(Specs)
  BY DEF CopiesInv, TypeOK
<1>3. \A k \in 1..Len(cache) : (cache[k].status.taskId = Nil) = (cache[k].status.cur = Nil)
  BY SeenType, CopyParts, StatusParts
<1> QED BY <1>1, <1>2, <1>3 DEF CopiesInv

\* A write that leaves the spec and records the content of the pass, if any.
LEMMA OrderWrite ==
  ASSUME TypeOK, CopiesInv, OrderInv, NEW new \in DruidIngestion, Write(new),
         new.spec = obj.spec, UNCHANGED applied,
         \/ new.status.cur = obj.status.cur
         \/ pc # "idle" /\ new.status.cur = di.spec.s,
         \/ UNCHANGED <<pc, di>> /\ new.status.cur = obj.status.cur
         \/ di' = seen
         \/ pc' = "idle"
  PROVE  OrderInv'
<1> DEFINE old == obj.status.cur
           cur == new.status.cur
<1>1. obj' = new /\ applied \in Seq(Specs)
  BY LastVersion DEF Write
<1>2. Older(applied, old, cur) /\ (cur # Nil => Occurs(applied, cur))
  BY LastVersion DEF OrderInv, Older
<1>3. ASSUME NEW k \in 1..Len(cache)
      PROVE  /\ Older(applied, cache[k].status.cur, cur)
             /\ Older(applied, cur, cache[k].spec.s)
             /\ Older(applied, cache[k].spec.s, new.spec.s)
  <2>1. Older(applied, cur, cache[k].spec.s) /\ Older(applied, cache[k].spec.s, new.spec.s)
    BY LastVersion DEF OrderInv
  <2>2. CASE old = Nil
    BY <2>1, <2>2, LastVersion, NilOlder
  <2>3. CASE old # Nil
    <3>1. Occurs(applied, old) /\ Older(applied, cache[k].status.cur, old)
      BY <2>3, LastVersion DEF OrderInv
    <3> QED BY <1>1, <1>2, <2>1, <3>1, OlderTrans
  <2> QED BY <2>1, <2>2, <2>3
<1>4. /\ Older(applied, cur, new.spec.s) /\ Occurs(applied, new.spec.s)
      /\ Older(applied, cur, cur) /\ Older(applied, new.spec.s, new.spec.s)
  <2>1. Len(cache) \in 1..Len(cache) /\ cache[Len(cache)] = obj
    BY LastVersion
  <2>2. Older(applied, cur, new.spec.s) /\ Occurs(applied, new.spec.s)
    BY <1>3, <2>1 DEF OrderInv
  <2>3. Older(applied, cur, cur) /\ Older(applied, new.spec.s, new.spec.s)
    BY DEF Older
  <2> QED BY <2>2, <2>3
<1> HIDE DEF old, cur
<1>5. ASSUME NEW k \in 1..Len(cache')
      PROVE  /\ Occurs(applied, cache'[k].spec.s)
             /\ cache'[k].status.cur # Nil => Occurs(applied, cache'[k].status.cur)
             /\ Older(applied, cache'[k].status.cur, cur)
             /\ Older(applied, cur, cache'[k].spec.s)
             /\ Older(applied, cache'[k].spec.s, new.spec.s)
  <2>1. CASE k = Len(cache')
    BY <1>2, <1>4, <2>1, WriteCache DEF cur
  <2>2. CASE k # Len(cache')
    BY <1>3, <2>2, WriteCache DEF OrderInv
  <2> QED BY <2>1, <2>2
<1>6. ASSUME NEW j \in 1..Len(cache'), NEW k \in 1..Len(cache'), j <= k
      PROVE  Older(applied, cache'[j].spec.s, cache'[k].spec.s)
  <2>1. CASE k = Len(cache')
    BY <1>5, <2>1, WriteCache
  <2>2. CASE k # Len(cache')
    <3>1. /\ Len(cache') \in Nat
          /\ \A n \in 1..Len(cache') :
               n # Len(cache') => n \in 1..Len(cache) /\ cache'[n] = cache[n]
      BY WriteCache
    <3>2. j # Len(cache')
      BY <1>6, <2>2, <3>1
    <3>3. /\ j \in 1..Len(cache) /\ cache'[j] = cache[j]
          /\ k \in 1..Len(cache) /\ cache'[k] = cache[k]
      BY <2>2, <3>1, <3>2
    <3> QED BY <1>6, <3>3 DEF OrderInv
  <2> QED BY <2>1, <2>2
<1>7. ASSUME pc' # "idle"
      PROVE  /\ Occurs(applied, di'.spec.s) /\ Older(applied, cur, di'.spec.s)
             /\ \A k \in 1..Len(cache') : Older(applied, di'.spec.s, cache'[k].spec.s)
  <2>1. CASE UNCHANGED <<pc, di>> /\ new.status.cur = obj.status.cur
    <3>1. /\ Occurs(applied, di.spec.s) /\ Older(applied, cur, di.spec.s)
          /\ \A k \in 1..Len(cache) : Older(applied, di.spec.s, cache[k].spec.s)
          /\ Older(applied, di.spec.s, new.spec.s)
      BY <1>7, <2>1, LastVersion DEF OrderInv, cur
    <3>2. ASSUME NEW k \in 1..Len(cache')
          PROVE  Older(applied, di.spec.s, cache'[k].spec.s)
      BY <3>1, WriteCache
    <3> QED BY <2>1, <3>1, <3>2
  <2>2. CASE di' = seen
    <3>1. seen = cache[1] /\ Occurs(applied, seen.spec.s) /\ Older(applied, cur, seen.spec.s)
      BY <1>3, LastVersion DEF OrderInv, seen
    <3>2. ASSUME NEW k \in 1..Len(cache)
          PROVE  Older(applied, seen.spec.s, cache[k].spec.s)
      <4>1. Len(cache) \in Nat /\ 1 \in 1..Len(cache)
        BY SeenType
      <4>2. 1 <= k
        BY <4>1
      <4> QED BY <3>1, <4>1, <4>2 DEF OrderInv
    <3>3. Older(applied, seen.spec.s, new.spec.s)
      <4>1. Len(cache) \in 1..Len(cache) /\ cache[Len(cache)].spec = new.spec
        BY LastVersion
      <4> QED BY <3>2, <4>1
    <3>4. ASSUME NEW k \in 1..Len(cache')
          PROVE  Older(applied, seen.spec.s, cache'[k].spec.s)
      BY <3>2, <3>3, WriteCache
    <3> QED BY <2>2, <3>1, <3>4
  <2> QED BY <1>7, <2>1, <2>2
<1> QED BY <1>1, <1>5, <1>6, <1>7 DEF OrderInv, cur

\* A new content is applied.
LEMMA OrderEdit ==
  ASSUME TypeOK, CopiesInv, OrderInv, NEW new \in DruidIngestion, Write(new),
         new.status = obj.status, applied' = Append(applied, new.spec),
         NeverBack(applied'), UNCHANGED <<pc, di>>
  PROVE  OrderInv'
<1> DEFINE cur == obj.status.cur
           x   == new.spec.s
<1>1. obj' = new /\ obj'.status.cur = cur
  BY DEF Write
<1>2. applied \in Seq(Specs) /\ new.spec \in Specs /\ applied' \in Seq(Specs)
  <2>1. applied \in Seq(Specs) /\ new.spec \in Specs
    BY CopyParts, LastVersion
  <2> QED BY <2>1
<1>3. /\ Occurs(applied', x) /\ Older(applied', x, x)
      /\ \A a : Occurs(applied, a) => Occurs(applied', a) /\ Older(applied', a, x)
      /\ \A a, b : Occurs(applied, a) /\ Occurs(applied, b) /\ Older(applied, a, b) =>
                   Older(applied', a, b)
  <2>1. NeverBack(Append(applied, new.spec))
    OBVIOUS
  <2>2. Older(applied', x, x)
    BY DEF Older
  <2> QED BY <1>2, <2>1, <2>2, AppendHistory, Zenon
<1>4. \A a : Older(applied', Nil, a) /\ Older(applied', a, Nil)
  BY <1>2, NilOlder, Zenon
<1>5. ASSUME NEW k \in 1..Len(cache)
      PROVE  /\ Occurs(applied', cache[k].spec.s)
             /\ cache[k].status.cur # Nil => Occurs(applied', cache[k].status.cur)
             /\ Older(applied', cache[k].status.cur, cur)
             /\ Older(applied', cur, cache[k].spec.s)
             /\ Older(applied', cache[k].spec.s, x)
  <2>1. cur # Nil => Occurs(applied, cur)
    BY LastVersion DEF OrderInv
  <2> QED BY <1>3, <1>4, <2>1 DEF OrderInv
<1>6. /\ cur # Nil => Occurs(applied', cur)
      /\ Older(applied', cur, cur) /\ Older(applied', cur, x)
  <2>1. cur # Nil => Occurs(applied, cur)
    BY LastVersion DEF OrderInv
  <2>2. Older(applied', cur, cur)
    BY DEF Older
  <2> HIDE DEF cur, x
  <2> QED BY <1>3, <1>4, <2>1, <2>2
<1> HIDE DEF cur, x
<1>7. ASSUME NEW k \in 1..Len(cache')
      PROVE  /\ Occurs(applied', cache'[k].spec.s)
             /\ cache'[k].status.cur # Nil => Occurs(applied', cache'[k].status.cur)
             /\ Older(applied', cache'[k].status.cur, cur)
             /\ Older(applied', cur, cache'[k].spec.s)
             /\ Older(applied', cache'[k].spec.s, x)
  <2>1. CASE k = Len(cache')
    <3>1. cache'[k].spec.s = x /\ cache'[k].status.cur = cur
      BY <2>1, WriteCache DEF cur, x
    <3> QED BY <1>3, <1>6, <3>1
  <2>2. CASE k # Len(cache')
    BY <1>5, <2>2, WriteCache
  <2> QED BY <2>1, <2>2
<1>8. ASSUME NEW j \in 1..Len(cache'), NEW k \in 1..Len(cache'), j <= k
      PROVE  Older(applied', cache'[j].spec.s, cache'[k].spec.s)
  <2>1. CASE k = Len(cache')
    BY <1>7, <2>1, WriteCache DEF x
  <2>2. CASE k # Len(cache')
    <3>1. j # Len(cache')
      BY <1>8, <2>2, WriteCache
    <3> QED BY <1>3, <1>8, <2>2, <3>1, WriteCache DEF OrderInv
  <2> QED BY <2>1, <2>2
<1>9. ASSUME pc # "idle"
      PROVE  /\ Occurs(applied', di.spec.s) /\ Older(applied', cur, di.spec.s)
             /\ \A k \in 1..Len(cache') : Older(applied', di.spec.s, cache'[k].spec.s)
  <2>1. Occurs(applied, di.spec.s)
    BY <1>9 DEF OrderInv
  <2>2. Older(applied', cur, di.spec.s)
    BY <1>3, <1>4, <1>9, <2>1, LastVersion DEF OrderInv, cur
  <2>3. ASSUME NEW k \in 1..Len(cache')
        PROVE  Older(applied', di.spec.s, cache'[k].spec.s)
    <3>1. CASE k = Len(cache')
      BY <1>3, <2>1, <3>1, WriteCache DEF x
    <3>2. CASE k # Len(cache')
      BY <1>3, <1>9, <2>1, <3>2, WriteCache DEF OrderInv
    <3> QED BY <3>1, <3>2
  <2> QED BY <1>3, <2>1, <2>2, <2>3
<1> QED BY <1>1, <1>7, <1>8, <1>9 DEF OrderInv

LEMMA OrderDeliver ==
  ASSUME TypeOK, OrderInv, Deliver
  PROVE  OrderInv'
<1>1. UNCHANGED <<obj, applied, pc, di>>
  BY DEF Deliver
<1>2. ASSUME NEW k \in 1..Len(cache')
      PROVE  k + 1 \in 1..Len(cache) /\ cache'[k] = cache[k + 1]
  BY DeliverCache
<1>3. ASSUME NEW j \in 1..Len(cache'), NEW k \in 1..Len(cache'), j <= k
      PROVE  Older(applied, cache'[j].spec.s, cache'[k].spec.s)
  <2>1. j + 1 <= k + 1
    BY <1>3
  <2> QED BY <1>2, <2>1 DEF OrderInv
<1> QED BY <1>1, <1>2, <1>3 DEF OrderInv

\* A pass begins, or goes on or ends without a write.
LEMMA OrderQuiet ==
  ASSUME TypeOK, CopiesInv, OrderInv, UNCHANGED <<obj, cache, applied>>,
         pc' = "idle" \/ di' = seen \/ (pc # "idle" /\ di' = di)
  PROVE  OrderInv'
<1>1. CASE pc' = "idle" \/ (pc # "idle" /\ di' = di)
  BY <1>1 DEF OrderInv
<1>2. CASE di' = seen
  <2>1. seen = cache[1] /\ \A k \in 1..Len(cache) : 1 <= k
    BY SeenType DEF seen
  <2>2. /\ Occurs(applied, seen.spec.s) /\ Older(applied, obj.status.cur, seen.spec.s)
        /\ \A k \in 1..Len(cache) : Older(applied, seen.spec.s, cache[k].spec.s)
    BY <2>1, LastVersion DEF OrderInv
  <2> QED BY <1>2, <2>2 DEF OrderInv
<1> QED BY <1>1, <1>2

\* What is written while a pass, or the deletion, goes on: a status or a mark.
LEMMA WrittenParts ==
  ASSUME TypeOK
  PROVE  /\ \A st \in Status :
              LET new == [obj EXCEPT !.status = st]
              IN  /\ new \in DruidIngestion /\ new.status = st
                  /\ new.spec = obj.spec /\ new.deleting = obj.deleting
         /\ LET new == [obj EXCEPT !.fin = TRUE]
            IN  /\ new \in DruidIngestion
                /\ new.status = obj.status /\ new.spec = obj.spec
                /\ new.deleting = obj.deleting
         /\ LET new == [obj EXCEPT !.fin = FALSE, !.exists = FALSE]
            IN  /\ new \in DruidIngestion
                /\ new.status = obj.status /\ new.spec = obj.spec
                /\ new.deleting = obj.deleting
BY DEF TypeOK, DruidIngestion

LEMMA OrderStep ==
  ASSUME TypeOK, CopiesInv, NoReturn => OrderInv, [Next]_vars
  PROVE  (NoReturn => OrderInv)'
<1> SUFFICES ASSUME NoReturn' PROVE OrderInv'
  OBVIOUS
<1>1. ASSUME UNCHANGED applied PROVE OrderInv
  BY <1>1 DEF NoReturn
<1>2. CASE UNCHANGED vars
  BY <1>1, <1>2 DEF vars, OrderInv
<1>3. CASE Reconcile
  BY <1>1, <1>3, OrderQuiet DEF Reconcile
<1>4. CASE \/ CreateTask \/ CreateCompaction \/ CreateRules
           \/ UpdateTask \/ Compaction \/ Rules
  <2>1. pc # "idle" /\ UNCHANGED <<obj, cache, applied, di>>
    BY <1>4 DEF CreateTask, CreateCompaction, CreateRules, UpdateTask, Compaction,
                Rules, PostTask, Goto
  <2> QED BY <1>1, <2>1, OrderQuiet
<1>5. CASE CreateRecord \/ UpdateRecord \/ CompactionRecord \/ RulesRecord
  <2>1. CASE EndPass /\ UNCHANGED <<server, druid, env>>
    BY <1>1, <2>1, OrderQuiet DEF EndPass
  <2>2. ASSUME pc # "idle", NEW t \in TaskIds, NEW type \in Types, NEW label,
               makePatchDruidIngestionStatus(t, type, label)
        PROVE  OrderInv'
    <3> DEFINE st  == MergePatch(obj.status, seen.status, NewStatus(seen, t, type))
               new == [obj EXCEPT !.status = st]
    <3>1. CASE seen.exists /\ obj.exists
      <4>1. Write(new) /\ di' = seen /\ UNCHANGED applied
        BY <2>2, <3>1 DEF makePatchDruidIngestionStatus
      <4>2. st \in Status /\ st.cur \in {obj.status.cur, di.spec.s}
        BY <2>2, PatchedStatus
      <4> HIDE DEF st
      <4>3. new \in DruidIngestion /\ new.status = st /\ new.spec = obj.spec
        BY <4>2, WrittenParts
      <4> HIDE DEF new
      <4> QED BY <1>1, <2>2, <4>1, <4>2, <4>3, OrderWrite
    <3>2. CASE ~(seen.exists /\ obj.exists)
      BY <1>1, <2>2, <3>2, OrderQuiet DEF makePatchDruidIngestionStatus, EndPass
    <3> QED BY <3>1, <3>2
  <2> QED BY <1>5, <2>1, <2>2, RecordParts
<1>6. CASE Finalize \/ Release
  <2>1. UNCHANGED applied
    BY <1>6 DEF Finalize, Release
  <2>2. CASE UNCHANGED server
    BY <1>1, <1>6, <2>1, <2>2, OrderQuiet DEF Finalize, Release, EndPass, Goto
  <2>3. ASSUME NEW new \in DruidIngestion, Write(new), EndPass,
               new.status = obj.status, new.spec = obj.spec
        PROVE  OrderInv'
    BY <1>1, <2>1, <2>3, OrderWrite DEF EndPass
  <2> QED BY <1>6, <2>2, <2>3, WrittenParts DEF Finalize, Release
<1>7. CASE Fail
  BY <1>1, <1>7, OrderQuiet DEF Fail, EndPass
<1>8. CASE UserEdit \/ UserDelete
  <2>1. PICK new \in DruidIngestion :
          /\ Write(new) /\ new.status = obj.status
          /\ \/ applied' = Append(applied, new.spec)
             \/ UNCHANGED applied /\ new.spec = obj.spec
    BY <1>8, UserWrite
  <2>2. UNCHANGED <<pc, di>>
    BY <1>8, UserWrite
  <2>3. CASE applied' = Append(applied, new.spec)
    <3>1. applied \in Seq(Specs) /\ new.spec \in Specs
      BY CopyParts, LastVersion
    <3>2. OrderInv
      BY <2>3, <3>1, AppendHistory DEF NoReturn
    <3> QED BY <2>1, <2>2, <2>3, <3>2, OrderEdit DEF NoReturn
  <2>4. CASE UNCHANGED applied /\ new.spec = obj.spec
    BY <1>1, <2>1, <2>2, <2>4, OrderWrite
  <2> QED BY <2>1, <2>3, <2>4
<1>9. CASE Deliver
  BY <1>1, <1>9, OrderDeliver DEF Deliver
<1> QED BY <1>2, <1>3, <1>4, <1>5, <1>6, <1>7, <1>8, <1>9 DEF Next, PassStep
-----------------------------------------------------------------------------
(* The task that a status names.                                            *)

\* Batch ingestions never have compaction settings or rules.
PlainBatch == \A n \in Specs : n.type = "native-batch" => n.c = Nil /\ n.r = Nil

Batch == obj.spec.type = "native-batch"

\* The copies of a batch ingestion ask for neither compaction nor rules.
LEMMA BatchCopies ==
  ASSUME PlainBatch, TypeOK, CopiesInv, Batch
  PROVE  /\ \A k \in 1..Len(cache) :
              /\ cache[k].spec.r = Nil
              /\ cache[k].status.taskId \in TaskIds \cup {Nil}
         /\ seen.spec.r = Nil
         /\ pc # "idle" =>
              di.spec.c = Nil /\ di.spec.r = Nil /\ di.spec.type = "native-batch"
<1>1. \A k \in 1..Len(cache) : cache[k].spec.r = Nil /\ cache[k].status.taskId \in TaskIds \cup {Nil}
  BY SeenType, CopyParts, StatusParts DEF PlainBatch, CopiesInv, Batch
<1>2. seen.spec.r = Nil
  BY <1>1, SeenType DEF seen
<1>3. pc # "idle" => di \in DruidIngestion /\ di.spec.type = "native-batch"
  BY DEF TypeOK, CopiesInv, Batch
<1> QED BY <1>1, <1>2, <1>3, CopyParts DEF PlainBatch

\* What keeps the clauses about statuses: the copies are old ones, or are like
\* obj, and Druid forgets no task.
LEMMA RecordKept ==
  ASSUME TypeOK, CopiesInv, RecordInv,
         NoReturn' => NoReturn,
         obj'.status = obj.status,
         \A k \in 1..Len(cache') :
           \/ cache'[k].status = obj.status
           \/ \E j \in 1..Len(cache) : cache'[k] = cache[j],
         \A i \in TaskIds : tasks[i] # Nil =>
           tasks'[i] # Nil /\ tasks'[i].spec = tasks[i].spec,
         pc' \notin {"compactionRecord", "rulesRecord"},
         pc' # "idle" => di' = seen \/ (pc # "idle" /\ di' = di),
         \/ id' = Nil
         \/ /\ id' = id /\ di' = di
            /\ pc' \in {"createCompaction", "createRules", "createRecord",
                        "updateRecord"}
         \/ /\ id' \in TaskIds /\ tasks[id'] = Nil
            /\ tasks'[id'] # Nil /\ tasks'[id'].spec = di'.spec.s
            /\ pc' \in {"createCompaction", "createRules", "createRecord",
                        "updateRecord"}
  PROVE  RecordInv'
<1>1. 1 \in 1..Len(cache) /\ Len(cache) \in 1..Len(cache) /\ cache[Len(cache)] = obj
  BY LastVersion
<1>2. \A k \in 1..Len(cache') : \E j \in 1..Len(cache) :
        cache'[k].status = cache[j].status
  BY <1>1
<1>3. \A j \in 1..Len(cache) : cache[j].status.taskId \in TaskIds \cup {Nil}
  BY SeenType, CopyParts, StatusParts
<1>4. pc' # "idle" => di'.status.rules = Nil
  BY <1>1 DEF RecordInv, seen
<1>5. ASSUME NEW k \in 1..Len(cache')
      PROVE  /\ cache'[k].status.rules = Nil
             /\ cache'[k].status.taskId # Nil =>
                  tasks'[cache'[k].status.taskId] # Nil
  <2>1. PICK j \in 1..Len(cache) : cache'[k].status = cache[j].status
    BY <1>2
  <2>2. /\ cache[j].status.rules = Nil
        /\ cache[j].status.taskId # Nil => tasks[cache[j].status.taskId] # Nil
    BY DEF RecordInv
  <2>3. cache[j].status.taskId \in TaskIds \cup {Nil}
    BY <1>3
  <2> QED BY <2>1, <2>2, <2>3
<1>6. ASSUME id' # Nil
      PROVE  /\ pc' \in {"createCompaction", "createRules", "createRecord",
                         "updateRecord"}
             /\ tasks'[id'] # Nil /\ tasks'[id'].spec = di'.spec.s
             /\ \A k \in 1..Len(cache') : cache'[k].status.taskId # id'
  <2>1. CASE id' = id /\ di' = di
    <3>1. id \in TaskIds
      BY <1>6, <2>1 DEF TypeOK
    <3> QED BY <1>2, <1>6, <2>1, <3>1 DEF RecordInv
  <2>2. CASE id' \in TaskIds /\ tasks[id'] = Nil
    BY <1>2, <1>6, <2>2 DEF RecordInv
  <2> QED BY <1>6, <2>1, <2>2
<1>7. ASSUME NoReturn', obj'.status.taskId # Nil
      PROVE  tasks'[obj'.status.taskId].spec = obj'.status.cur
  BY <1>1, <1>3, <1>7 DEF RecordInv
<1> QED BY <1>4, <1>5, <1>6, <1>7 DEF RecordInv

\* The patch that records a batch task.  Its id is one no status names, so it is
\* sent.  The content is sent or is the one recorded last: a copy that names it
\* is not newer than the status, and the status is not newer than the pass.
LEMMA RecordPatch ==
  ASSUME PlainBatch, TypeOK, CopiesInv, NoReturn => OrderInv, Batch, RecordInv,
         pc # "idle", id # Nil, NEW type \in Types,
         NEW label \in {"finalize", "compaction"},
         makePatchDruidIngestionStatus(id, type, label)
  PROVE  RecordInv'
<1> DEFINE st  == MergePatch(obj.status, seen.status, NewStatus(seen, id, type))
           new == [obj EXCEPT !.status = st]
<1>1. CASE seen.exists /\ obj.exists
  <2>1. /\ Write(new) /\ di' = seen /\ pc' = label /\ id' = Nil
        /\ UNCHANGED <<tasks, applied>>
    BY <1>1 DEF makePatchDruidIngestionStatus
  <2>2. id \in TaskIds
    BY DEF TypeOK
  <2>3. 1 \in 1..Len(cache) /\ Len(cache) \in 1..Len(cache) /\ seen = cache[1]
        /\ cache[Len(cache)] = obj
    BY LastVersion DEF seen
  <2>4. st \in Status /\ st.taskId = id /\ st.rules = Nil
    <3>1. /\ st \in Status
          /\ st.taskId = (IF id = seen.status.taskId THEN obj.status.taskId ELSE id)
          /\ st.rules = (IF seen.spec.r = seen.status.rules
                         THEN obj.status.rules ELSE seen.spec.r)
      BY <2>2, PatchedStatus
    <3>2. seen.status.taskId # id /\ seen.status.rules = Nil /\ obj.status.rules = Nil
      BY <2>3 DEF RecordInv
    <3> HIDE DEF st
    <3> QED BY <3>1, <3>2, BatchCopies
  <2>5. ASSUME NoReturn PROVE st.cur = di.spec.s
    <3>1. st.cur = (IF di.spec.s = seen.status.cur THEN obj.status.cur ELSE di.spec.s)
      BY <2>2, PatchedStatus
    <3> HIDE DEF st
    <3>2. CASE di.spec.s = seen.status.cur
      <4>1. /\ Older(applied, di.spec.s, obj.status.cur)
            /\ Older(applied, obj.status.cur, di.spec.s)
            /\ Occurs(applied, di.spec.s)
        BY <2>3, <2>5, <3>2 DEF OrderInv
      <4>2. di.spec.s # Nil
        BY <4>1, LastVersion, NilOlder
      <4>3. obj.status.cur # Nil
        BY <2>3, <3>2, <4>2, LastVersion
      <4>4. Occurs(applied, obj.status.cur)
        BY <2>3, <2>5, <4>3 DEF OrderInv
      <4> QED BY <3>1, <4>1, <4>4, LastVersion, OlderAntisymmetric
    <3>3. CASE di.spec.s # seen.status.cur
      BY <3>1, <3>3
    <3> QED BY <3>2, <3>3
  <2> HIDE DEF st
  <2>6. new \in DruidIngestion /\ new.status = st
    BY <2>4, WrittenParts
  <2> HIDE DEF new
  <2>7. obj' = new
    BY <2>1 DEF Write
  <2>8. tasks[id] # Nil /\ tasks[id].spec = di.spec.s
    BY DEF RecordInv
  <2>9. ASSUME NEW k \in 1..Len(cache')
        PROVE  /\ cache'[k].status.rules = Nil
               /\ cache'[k].status.taskId # Nil => tasks[cache'[k].status.taskId] # Nil
    <3>1. CASE k = Len(cache')
      BY <2>1, <2>4, <2>6, <2>8, <3>1, WriteCache
    <3>2. CASE k # Len(cache')
      BY <2>1, <2>6, <3>2, WriteCache DEF RecordInv
    <3> QED BY <3>1, <3>2
  <2>10. NoReturn' => NoReturn
    BY <2>1 DEF NoReturn
  <2>11. seen.status.rules = Nil
    BY <2>3 DEF RecordInv
  <2> QED BY <2>1, <2>4, <2>5, <2>6, <2>7, <2>8, <2>9, <2>10, <2>11 DEF RecordInv
<1>2. CASE ~(seen.exists /\ obj.exists)
  <2>1. EndPass /\ UNCHANGED <<server, druid, env>>
    BY <1>2 DEF makePatchDruidIngestionStatus
  <2> QED BY <2>1, RecordKept DEF EndPass, NoReturn
<1> QED BY <1>1, <1>2

\* The type of an ingestion never changes.
LEMMA TypeStays ==
  ASSUME TypeOK, CopiesInv, [Next]_vars
  PROVE  obj'.spec.type = obj.spec.type
<1>1. CASE UserEdit \/ UserDelete
  BY <1>1, UserWrite DEF Write
<1>2. CASE CreateRecord \/ UpdateRecord \/ CompactionRecord \/ RulesRecord
  BY <1>2, RecordParts
     DEF makePatchDruidIngestionStatus, Write, TypeOK, DruidIngestion
<1>3. CASE Finalize \/ Release
  BY <1>3, WrittenParts DEF Finalize, Release, Write
<1>4. CASE \/ UNCHANGED vars \/ Reconcile \/ Fail \/ Deliver
           \/ CreateTask \/ CreateCompaction \/ CreateRules
           \/ UpdateTask \/ Compaction \/ Rules
  <2>1. obj' = obj
    BY <1>4 DEF vars, Reconcile, Fail, Deliver, CreateTask, CreateCompaction,
                CreateRules, UpdateTask, Compaction, Rules, PostTask
  <2> QED BY <2>1
<1> QED BY <1>1, <1>2, <1>3, <1>4 DEF Next, PassStep

\* The POST of a batch spec: it is refused, or Druid has a new task.
LEMMA RecordPost ==
  ASSUME PlainBatch, TypeOK, CopiesInv, Batch, RecordInv, CreateTask \/ UpdateTask
  PROVE  RecordInv'
<1>1. /\ pc # "idle" /\ PostTask /\ UNCHANGED <<obj, cache, applied, di>>
      /\ pc' \in {"createCompaction", "compaction", "updateRecord"}
      /\ id' # Nil => pc' # "compaction"
  BY DEF CreateTask, UpdateTask, PostTask
<1>2. FreeIds = {i \in TaskIds \ DataSources : tasks[i] = Nil}
  BY <1>1, BatchCopies DEF FreeIds
<1>3. \/ id' = Nil /\ tasks' = tasks
      \/ /\ id' = NewId /\ NewId \in FreeIds
         /\ tasks' = [tasks EXCEPT ![NewId] = [spec |-> di.spec.s, up |-> TRUE]]
  BY <1>1 DEF PostTask, NewId
<1>4. CASE id' = Nil /\ tasks' = tasks
  BY <1>1, <1>4, RecordKept DEF NoReturn
<1>5. CASE /\ id' = NewId /\ NewId \in FreeIds
           /\ tasks' = [tasks EXCEPT ![NewId] = [spec |-> di.spec.s, up |-> TRUE]]
  <2>1. id' \in TaskIds /\ tasks[id'] = Nil /\ id' # Nil
    BY <1>2, <1>5, IngestionAssumption
  <2>2. tasks'[id'] = [spec |-> di.spec.s, up |-> TRUE]
    BY <1>5, <2>1 DEF TypeOK
  <2>3. tasks'[id'] # Nil
    <3>1. di.spec.s \in Content
      BY <1>1, CopyParts DEF TypeOK
    <3>2. [spec |-> di.spec.s, up |-> TRUE] \in Task
      BY <3>1 DEF Task
    <3> QED BY <2>2, <3>2, NilAssumption
  <2>4. \A i \in TaskIds : tasks[i] # Nil => tasks'[i] = tasks[i]
    BY <1>5, <2>1 DEF TypeOK
  <2>5. /\ tasks'[id'].spec = di'.spec.s
        /\ pc' \in {"createCompaction", "createRules", "createRecord",
                    "updateRecord"}
    <3>1. tasks'[id'].spec = di.spec.s
      BY <2>2
    <3> QED BY <1>1, <2>1, <3>1
  <2>6. /\ \A i \in TaskIds : tasks[i] # Nil =>
             tasks'[i] # Nil /\ tasks'[i].spec = tasks[i].spec
        /\ pc' # "idle" => pc # "idle" /\ di' = di
        /\ pc' \notin {"compactionRecord", "rulesRecord"}
    BY <1>1, <2>4
  <2>7. /\ obj'.status = obj.status
        /\ \A k \in 1..Len(cache') : \E j \in 1..Len(cache) : cache'[k] = cache[j]
        /\ NoReturn' => NoReturn
    BY <1>1 DEF NoReturn
  <2> QED BY <2>1, <2>3, <2>5, <2>6, <2>7, RecordKept
<1> QED BY <1>3, <1>4, <1>5

\* The shutdown of a task.
LEMMA RecordShutdown ==
  ASSUME TypeOK, Finalize \/ Release
  PROVE  \A i \in TaskIds : tasks[i] # Nil =>
           tasks'[i] # Nil /\ tasks'[i].spec = tasks[i].spec
<1>1. CASE tasks' = tasks
  BY <1>1
<1>2. CASE tasks' = [i \in TaskIds |->
                       IF i = di.status.taskId /\ tasks[i] # Nil
                         THEN [tasks[i] EXCEPT !.up = FALSE]
                         ELSE tasks[i]]
  <2>1. \A i \in TaskIds : tasks[i] # Nil =>
          /\ [tasks[i] EXCEPT !.up = FALSE] \in Task
          /\ [tasks[i] EXCEPT !.up = FALSE].spec = tasks[i].spec
    BY DEF TypeOK, Task
  <2> QED BY <1>2, <2>1, NilAssumption
<1> QED BY <1>1, <1>2 DEF Finalize, Release

LEMMA RecordInvStep ==
  ASSUME PlainBatch, TypeOK, CopiesInv, NoReturn => OrderInv, Batch, RecordInv,
         [Next]_vars
  PROVE  RecordInv'
<1>1. CASE UNCHANGED vars
  BY <1>1 DEF vars, RecordInv, NoReturn
<1>2. CASE Reconcile
  <2>1. /\ pc' \in {"create", "update", "compaction"} /\ di' = seen /\ pc = "idle"
        /\ UNCHANGED <<obj, cache, tasks, id, applied>>
    BY <1>2 DEF Reconcile
  <2>2. id' = Nil
    BY <2>1 DEF RecordInv
  <2> QED BY <2>1, <2>2, RecordKept DEF NoReturn
<1>3. CASE CreateTask \/ UpdateTask
  BY <1>3, RecordPost
<1>4. CASE CreateCompaction \/ CreateRules \/ Compaction \/ Rules
  <2>1. pc # "idle" /\ UNCHANGED <<obj, cache, tasks, di, id, applied>>
    BY <1>4 DEF CreateCompaction, CreateRules, Compaction, Rules, Goto
  <2>2. \A ok \in BOOLEAN : UpdateCompaction(ok) => ok = FALSE
    BY <2>1, BatchCopies DEF UpdateCompaction
  <2>3. di.status.rules = di.spec.r
    BY <2>1, BatchCopies DEF RecordInv
  <2>4. pc' \in {"createRules", "createRecord", "rules", "finalize"}
    BY <1>4, <2>2, <2>3 DEF CreateCompaction, CreateRules, Compaction, Rules, Goto
  <2>5. id # Nil => pc' \in {"createRules", "createRecord"}
    BY <1>4 DEF CreateCompaction, CreateRules, Compaction, Rules, Goto, RecordInv
  <2> QED BY <2>1, <2>4, <2>5, RecordKept DEF NoReturn
<1>5. CASE CreateRecord \/ UpdateRecord \/ CompactionRecord \/ RulesRecord
  <2>1. pc \in {"createRecord", "updateRecord"}
    BY <1>5 DEF CreateRecord, UpdateRecord, CompactionRecord, RulesRecord, RecordInv
  <2>2. CASE EndPass /\ UNCHANGED <<server, druid, env>>
    BY <2>2, RecordKept DEF EndPass, NoReturn
  <2>3. ASSUME id # Nil, NEW type \in Types, NEW label \in {"finalize", "compaction"},
               makePatchDruidIngestionStatus(id, type, label)
        PROVE  RecordInv'
    BY <2>1, <2>3, RecordPatch
  <2>4. pc = "updateRecord" => id # Nil
    BY DEF CopiesInv
  <2>5. {"CreateSuccess", "CreateFail", "UpdateSuccess"} \subseteq Types
    BY DEF Types
  <2> QED BY <1>5, <2>1, <2>2, <2>3, <2>4, <2>5
          DEF CreateRecord, UpdateRecord, CompactionRecord, RulesRecord
<1>6. CASE Finalize \/ Release
  <2>1. /\ UNCHANGED applied /\ pc # "idle" /\ id = Nil /\ id' = Nil
        /\ \/ pc' = "idle"
           \/ pc' \in {"release", "releaseAnyway"} /\ di' = di
    BY <1>6 DEF Finalize, Release, EndPass, Goto, RecordInv
  <2>2. CASE UNCHANGED server
    BY <1>6, <2>1, <2>2, RecordShutdown, RecordKept DEF NoReturn
  <2>3. ASSUME NEW new \in DruidIngestion, Write(new), new.status = obj.status
        PROVE  RecordInv'
    <3>1. obj' = new
      BY <2>3 DEF Write
    <3> QED BY <1>6, <2>1, <2>3, <3>1, WriteCache, RecordShutdown, RecordKept
            DEF NoReturn
  <2> QED BY <1>6, <2>2, <2>3, WrittenParts DEF Finalize, Release
<1>7. CASE Fail
  BY <1>7, RecordKept DEF Fail, EndPass, NoReturn
<1>8. CASE UserEdit \/ UserDelete
  <2>1. PICK new \in DruidIngestion :
          /\ Write(new) /\ new.status = obj.status
          /\ \/ applied' = Append(applied, new.spec)
             \/ UNCHANGED applied
    BY <1>8, UserWrite
  <2>2. obj' = new /\ UNCHANGED <<pc, di, id, tasks>>
    BY <1>8, <2>1, UserWrite DEF Write
  <2>3. NoReturn' => NoReturn
    <3>1. applied \in Seq(Specs) /\ new.spec \in Specs
      BY CopyParts, LastVersion
    <3>2. CASE applied' = Append(applied, new.spec)
      BY <3>1, <3>2, AppendHistory DEF NoReturn
    <3>3. CASE UNCHANGED applied
      BY <3>3 DEF NoReturn
    <3> QED BY <2>1, <3>2, <3>3
  <2>4. \A k \in 1..Len(cache') :
          \/ cache'[k].status = obj.status
          \/ \E j \in 1..Len(cache) : cache'[k] = cache[j]
    BY <2>1, WriteCache
  <2>5. id # Nil => pc \in {"createCompaction", "createRules", "createRecord",
                            "updateRecord"}
    BY DEF RecordInv
  <2>6. pc \notin {"compactionRecord", "rulesRecord"}
    BY DEF RecordInv
  <2> QED BY <2>1, <2>2, <2>3, <2>4, <2>5, <2>6, RecordKept
<1>9. CASE Deliver
  <2>1. UNCHANGED <<obj, tasks, pc, di, id, applied>>
    BY <1>9 DEF Deliver
  <2>2. \A k \in 1..Len(cache') : \E j \in 1..Len(cache) : cache'[k] = cache[j]
    BY <1>9, DeliverCache
  <2>3. /\ pc \notin {"compactionRecord", "rulesRecord"}
        /\ id # Nil => pc \in {"createCompaction", "createRules", "createRecord",
                               "updateRecord"}
    BY DEF RecordInv
  <2> QED BY <2>1, <2>2, <2>3, RecordKept DEF NoReturn
<1> QED BY <1>1, <1>2, <1>3, <1>4, <1>5, <1>6, <1>7, <1>8, <1>9 DEF Next, PassStep

\* Initially there is one version, without a status.
LEMMA FirstVersion ==
  ASSUME Init
  PROVE  /\ \A k \in 1..Len(cache) : cache[k] = obj
         /\ obj.status.taskId = Nil /\ obj.status.cur = Nil /\ obj.status.rules = Nil
         /\ applied = <<obj.spec>>
         /\ pc = "idle" /\ id = Nil
         /\ \A d \in DataSources : tasks[d] = Nil
<1>1. cache = <<obj>> /\ applied = <<obj.spec>> /\ pc = "idle" /\ id = Nil
  BY DEF Init
<1>2. PICK new \in Specs :
        obj = [exists |-> TRUE, deleting |-> FALSE, fin |-> FALSE,
               spec |-> new, status |-> NoStatus]
  BY Zenon DEF Init
<1>3. obj.status = NoStatus
  BY <1>2
<1>4. obj.status.taskId = Nil /\ obj.status.cur = Nil /\ obj.status.rules = Nil
  BY <1>3 DEF NoStatus
<1>5. \A k \in 1..Len(cache) : cache[k] = obj
  BY <1>1
<1>6. tasks = [i \in TaskIds |-> Nil]
  BY DEF Init
<1>7. \A d \in DataSources : tasks[d] = Nil
  BY <1>6, IngestionAssumption
<1> QED BY <1>1, <1>4, <1>5, <1>7

LEMMA InitOrder ==
  ASSUME Init
  PROVE  OrderInv
<1> DEFINE s == obj.spec.s
<1>1. applied \in Seq(Specs)
  BY InitCorrect, LastVersion
<1>2. applied = <<obj.spec>> /\ pc = "idle"
  BY FirstVersion
<1>3. Occurs(applied, s) /\ Older(applied, s, s)
  BY <1>2 DEF Occurs, Older
<1>4. Older(applied, Nil, Nil) /\ Older(applied, Nil, s)
  BY <1>1, NilOlder
<1>5. \A k \in 1..Len(cache) : cache[k].spec.s = s /\ cache[k].status.cur = Nil
  BY FirstVersion
<1>6. obj.status.cur = Nil
  BY FirstVersion
<1> HIDE DEF s
<1> QED BY <1>2, <1>3, <1>4, <1>5, <1>6 DEF OrderInv

\* The task a status names was started from the content the status names: for
\* any number of edits and faults and any lag of the cache, for a user who does
\* not go back to an earlier content, and for batch ingestions without
\* compaction settings and rules, whose patches put an old task id back.
THEOREM TaskMatches ==
  ASSUME PlainBatch
  PROVE  Spec => []TaskMatchesSpec
<1>1. Init => MatchInv
  <2> SUFFICES ASSUME Init PROVE MatchInv
    OBVIOUS
  <2>1. RecordInv
    BY FirstVersion DEF RecordInv
  <2> QED BY <2>1, InitOrder DEF MatchInv
<1>2. TypeOK /\ CopiesInv /\ MatchInv /\ [Next]_vars => MatchInv'
  BY TypeStays, OrderStep, RecordInvStep DEF MatchInv, Batch
<1>3. TypeOK /\ CopiesInv /\ MatchInv => TaskMatchesSpec
  BY LastVersion DEF MatchInv, RecordInv, TaskMatchesSpec
<1> QED BY <1>1, <1>2, <1>3, IngestionCorrect, PTL DEF Spec
-----------------------------------------------------------------------------
(* What the supervisors run.                                                *)

Recording == {"createCompaction", "createRules", "createRecord", "updateRecord"}

\* The contents that copies name, and their supervisors.
LEMMA CopyContents ==
  ASSUME TypeOK
  PROVE  /\ \A k \in 1..Len(cache) :
              /\ cache[k].spec.s \in Content
              /\ cache[k].status.cur # Nil =>
                   DataSource[cache[k].status.cur] \in DataSources
         /\ pc # "idle" =>
              di.spec.s \in Content /\ DataSource[di.spec.s] \in DataSources
         /\ DataSources \subseteq TaskIds
<1>1. \A c \in Content : DataSource[c] \in DataSources
  BY IngestionAssumption
<1>2. \A k \in 1..Len(cache) :
        cache[k].spec.s \in Content /\ cache[k].status.cur \in Content \cup {Nil}
  BY SeenType, CopyParts, StatusParts
<1>3. pc # "idle" => di.spec.s \in Content
  BY CopyParts DEF TypeOK
<1> QED BY <1>1, <1>2, <1>3, IngestionAssumption

\* A step that posts no spec and applies none: it may write the status or a
\* mark, and it may shut supervisors of a deleted resource down.
LEMMA SupervisorKept ==
  ASSUME TypeOK, CopiesInv, SupervisorInv, UNCHANGED applied,
         \A k \in 1..Len(cache') :
           cache'[k] = obj' \/ \E j \in 1..Len(cache) : cache'[k] = cache[j],
         obj'.spec = obj.spec, obj'.status.rules = Nil,
         obj.deleting => obj'.deleting,
         \/ obj'.status.cur = obj.status.cur
         \/ id # Nil /\ obj'.status.cur = di.spec.s,
         \A d \in DataSources :
           /\ (tasks'[d] # Nil) = (tasks[d] # Nil)
           /\ tasks[d] # Nil =>
                /\ tasks'[d].spec = tasks[d].spec
                /\ obj.deleting \/ tasks'[d].up = tasks[d].up,
         pc' \notin {"compactionRecord", "rulesRecord"},
         pc' # "idle" => di' = seen \/ (pc # "idle" /\ di' = di),
         id' = Nil \/ (id' = id /\ di' = di /\ pc' \in Recording)
  PROVE  SupervisorInv'
<1>1. 1 \in 1..Len(cache) /\ Len(cache) \in 1..Len(cache) /\ cache[Len(cache)] = obj
  BY LastVersion
<1>2. ASSUME pc' # "idle"
      PROVE  /\ di'.spec.c = Nil /\ di'.spec.r = Nil /\ di'.status.rules = Nil
             /\ di'.deleting => obj'.deleting
             /\ \A d \in DataSources :
                  tasks'[d] # Nil => Older(applied, tasks'[d].spec, di'.spec.s)
  <2>1. CASE di' = seen
    BY <1>1, <2>1 DEF SupervisorInv, seen
  <2>2. CASE pc # "idle" /\ di' = di
    BY <2>2 DEF SupervisorInv
  <2> QED BY <1>2, <2>1, <2>2
<1>3. ASSUME id' # Nil
      PROVE  /\ pc' \in Recording
             /\ tasks'[DataSource[di'.spec.s]] # Nil
             /\ tasks'[DataSource[di'.spec.s]].spec = di'.spec.s
  <2>1. pc # "idle" /\ id # Nil /\ di' = di /\ pc' \in Recording
    BY <1>3 DEF SupervisorInv
  <2> QED BY <2>1, CopyContents DEF SupervisorInv
<1>4. ASSUME NEW d \in DataSources, tasks'[d] # Nil
      PROVE  (~obj'.deleting => tasks'[d].up) /\ Occurs(applied, tasks'[d].spec)
  BY <1>4 DEF SupervisorInv
<1>5. ASSUME NEW j \in 1..Len(cache)
      PROVE  /\ cache[j].spec.c = Nil /\ cache[j].spec.r = Nil
             /\ cache[j].status.rules = Nil
             /\ cache[j].deleting => obj'.deleting
             /\ \A d \in DataSources :
                  tasks'[d] # Nil => Older(applied, tasks'[d].spec, cache[j].spec.s)
             /\ cache[j].status.cur # Nil =>
                  /\ tasks'[DataSource[cache[j].status.cur]] # Nil
                  /\ Older(applied, cache[j].status.cur,
                           tasks'[DataSource[cache[j].status.cur]].spec)
  BY CopyContents DEF SupervisorInv
<1>6. /\ obj'.spec.c = Nil /\ obj'.spec.r = Nil
      /\ \A d \in DataSources :
           tasks'[d] # Nil => Older(applied, tasks'[d].spec, obj'.spec.s)
  BY <1>1, <1>5
<1>7. ASSUME obj'.status.cur # Nil
      PROVE  /\ tasks'[DataSource[obj'.status.cur]] # Nil
             /\ Older(applied, obj'.status.cur, tasks'[DataSource[obj'.status.cur]].spec)
  <2>1. CASE obj'.status.cur = obj.status.cur
    BY <1>1, <1>5, <1>7, <2>1
  <2>2. CASE id # Nil /\ obj'.status.cur = di.spec.s
    <3>1. /\ DataSource[di.spec.s] \in DataSources
          /\ tasks[DataSource[di.spec.s]] # Nil
          /\ tasks[DataSource[di.spec.s]].spec = di.spec.s
      BY <2>2, CopyContents DEF SupervisorInv
    <3> QED BY <2>2, <3>1 DEF Older
  <2> QED BY <2>1, <2>2
<1> DEFINE Shown(c) ==
             /\ c.spec.c = Nil /\ c.spec.r = Nil /\ c.status.rules = Nil
             /\ c.deleting => obj'.deleting
             /\ \A d \in DataSources :
                  tasks'[d] # Nil => Older(applied, tasks'[d].spec, c.spec.s)
             /\ c.status.cur # Nil =>
                  /\ tasks'[DataSource[c.status.cur]] # Nil
                  /\ Older(applied, c.status.cur,
                           tasks'[DataSource[c.status.cur]].spec)
<1>8. \A k \in 1..Len(cache') : Shown(cache'[k])
  <2>1. Shown(obj')
    BY <1>6, <1>7
  <2>2. \A j \in 1..Len(cache) : Shown(cache[j])
    BY <1>5
  <2> HIDE DEF Shown
  <2> QED BY <2>1, <2>2
<1> QED BY <1>2, <1>3, <1>4, <1>8 DEF SupervisorInv, Recording

\* The POST of a supervisor spec.  The contents recorded so far are not newer
\* than that of the pass, and neither is what the supervisor ran before.
LEMMA SupervisorPost ==
  ASSUME TypeOK, CopiesInv, OrderInv, SupervisorInv, obj.spec.type = "kafka",
         CreateTask \/ UpdateTask
  PROVE  SupervisorInv'
<1>1. /\ pc # "idle" /\ PostTask /\ UNCHANGED <<obj, cache, applied, di>>
      /\ pc' \in {"createCompaction", "compaction", "updateRecord"}
      /\ id' # Nil => pc' \in Recording
  BY DEF CreateTask, UpdateTask, PostTask, Recording
<1> DEFINE s == di.spec.s
           e == DataSource[s]
<1>2. s \in Content /\ e \in DataSources /\ e \in TaskIds
  BY <1>1, CopyContents
<1>3. FreeIds = {e} /\ NewId = e
  BY <1>1 DEF FreeIds, NewId, CopiesInv
<1>4. \/ id' = Nil /\ tasks' = tasks
      \/ id' # Nil /\ tasks' = [tasks EXCEPT ![e] = [spec |-> s, up |-> TRUE]]
  BY <1>1, <1>2, <1>3, IngestionAssumption DEF PostTask
<1>5. CASE id' = Nil /\ tasks' = tasks
  <2>1. obj.status.rules = Nil
    BY LastVersion DEF SupervisorInv
  <2> QED BY <1>1, <1>5, <2>1, SupervisorKept
<1>6. CASE id' # Nil /\ tasks' = [tasks EXCEPT ![e] = [spec |-> s, up |-> TRUE]]
  <2>1. [spec |-> s, up |-> TRUE] \in Task
    BY <1>2 DEF Task
  <2>2. tasks'[e] # Nil /\ tasks'[e].spec = s /\ tasks'[e].up
    BY <1>2, <1>6, <2>1, NilAssumption DEF TypeOK
  <2>3. \A d \in DataSources : d # e => tasks'[d] = tasks[d]
    BY <1>6, CopyContents DEF TypeOK
  <2> HIDE DEF s, e
  <2>4. /\ Occurs(applied, s) /\ Older(applied, s, s)
        /\ \A k \in 1..Len(cache) : Older(applied, s, cache[k].spec.s)
    BY <1>1 DEF OrderInv, Older, s
  <2>5. ASSUME NEW k \in 1..Len(cache), cache[k].status.cur # Nil
        PROVE  Older(applied, cache[k].status.cur, s)
    <3>1. obj.status.cur # Nil /\ applied \in Seq(Specs)
      BY <2>5, LastVersion
    <3>2. /\ Occurs(applied, obj.status.cur)
          /\ Older(applied, cache[k].status.cur, obj.status.cur)
          /\ Older(applied, obj.status.cur, s)
      BY <1>1, <3>1, LastVersion DEF OrderInv, s
    <3> QED BY <3>1, <3>2, OlderTrans
  <2>6. ASSUME NEW d \in DataSources, tasks'[d] # Nil
        PROVE  /\ ~obj.deleting => tasks'[d].up
               /\ Occurs(applied, tasks'[d].spec)
               /\ Older(applied, tasks'[d].spec, s)
               /\ \A k \in 1..Len(cache) : Older(applied, tasks'[d].spec, cache[k].spec.s)
    <3>1. CASE d = e
      BY <2>2, <2>4, <3>1
    <3>2. CASE d # e
      BY <1>1, <2>3, <2>6, <3>2 DEF SupervisorInv, s
    <3> QED BY <3>1, <3>2
  <2>7. ASSUME NEW k \in 1..Len(cache), cache[k].status.cur # Nil
        PROVE  /\ tasks'[DataSource[cache[k].status.cur]] # Nil
               /\ Older(applied, cache[k].status.cur,
                        tasks'[DataSource[cache[k].status.cur]].spec)
    <3>1. CASE DataSource[cache[k].status.cur] = e
      BY <2>2, <2>5, <2>7, <3>1
    <3>2. CASE DataSource[cache[k].status.cur] # e
      BY <2>3, <2>7, <3>2, CopyContents DEF SupervisorInv
    <3> QED BY <3>1, <3>2
  <2>8. tasks'[DataSource[di.spec.s]] # Nil /\ tasks'[DataSource[di.spec.s]].spec = di.spec.s
    BY <2>2 DEF e, s
  <2> QED BY <1>1, <1>6, <2>6, <2>7, <2>8 DEF SupervisorInv, Recording, s
<1> QED BY <1>4, <1>5, <1>6

\* An edit: the new content comes after all others.
LEMMA SupervisorEdit ==
  ASSUME TypeOK, CopiesInv, OrderInv, SupervisorInv,
         NEW new \in DruidIngestion, Write(new), new.status = obj.status,
         new.deleting = obj.deleting, new.spec.c = Nil, new.spec.r = Nil,
         applied' = Append(applied, new.spec), NeverBack(applied'),
         UNCHANGED <<tasks, pc, di, id>>
  PROVE  SupervisorInv'
<1> DEFINE x == new.spec.s
<1>1. obj' = new /\ applied \in Seq(Specs) /\ new.spec \in Specs
  BY CopyParts, LastVersion DEF Write
<1>2. /\ Len(cache) \in 1..Len(cache) /\ cache[Len(cache)] = obj
      /\ \A k \in 1..Len(cache') :
           cache'[k] = new \/ \E j \in 1..Len(cache) : cache'[k] = cache[j]
  BY WriteCache, LastVersion
<1>3. /\ \A a : Occurs(applied, a) => Occurs(applied', a) /\ Older(applied', a, x)
      /\ \A a, b : Occurs(applied, a) /\ Occurs(applied, b) /\ Older(applied, a, b) =>
                   Older(applied', a, b)
  BY <1>1, AppendHistory
<1>4. ASSUME NEW d \in DataSources, tasks[d] # Nil
      PROVE  /\ ~obj.deleting => tasks[d].up
             /\ Occurs(applied', tasks[d].spec)
             /\ Older(applied', tasks[d].spec, x)
             /\ pc # "idle" => Older(applied', tasks[d].spec, di.spec.s)
             /\ \A k \in 1..Len(cache) : Older(applied', tasks[d].spec, cache[k].spec.s)
  <2>1. Occurs(applied, tasks[d].spec)
    BY <1>4 DEF SupervisorInv
  <2>2. pc # "idle" =>
          Occurs(applied, di.spec.s) /\ Older(applied, tasks[d].spec, di.spec.s)
    BY <1>4 DEF SupervisorInv, OrderInv
  <2>3. \A k \in 1..Len(cache) : /\ Occurs(applied, cache[k].spec.s)
                                 /\ Older(applied, tasks[d].spec, cache[k].spec.s)
    BY <1>4 DEF SupervisorInv, OrderInv
  <2>4. ~obj.deleting => tasks[d].up
    BY <1>4 DEF SupervisorInv
  <2> HIDE DEF x
  <2> QED BY <1>3, <2>1, <2>2, <2>3, <2>4
<1>5. ASSUME NEW k \in 1..Len(cache), cache[k].status.cur # Nil
      PROVE  /\ tasks[DataSource[cache[k].status.cur]] # Nil
             /\ Older(applied', cache[k].status.cur,
                      tasks[DataSource[cache[k].status.cur]].spec)
  <2>1. /\ Occurs(applied, cache[k].status.cur)
        /\ DataSource[cache[k].status.cur] \in DataSources
        /\ tasks[DataSource[cache[k].status.cur]] # Nil
        /\ Older(applied, cache[k].status.cur,
                 tasks[DataSource[cache[k].status.cur]].spec)
    BY <1>5, CopyContents DEF OrderInv, SupervisorInv
  <2>2. Occurs(applied, tasks[DataSource[cache[k].status.cur]].spec)
    BY <2>1 DEF SupervisorInv
  <2> QED BY <1>3, <2>1, <2>2
<1> DEFINE Shown(c) ==
             /\ c.spec.c = Nil /\ c.spec.r = Nil /\ c.status.rules = Nil
             /\ c.deleting => obj'.deleting
             /\ \A d \in DataSources :
                  tasks[d] # Nil => Older(applied', tasks[d].spec, c.spec.s)
             /\ c.status.cur # Nil =>
                  /\ tasks[DataSource[c.status.cur]] # Nil
                  /\ Older(applied', c.status.cur, tasks[DataSource[c.status.cur]].spec)
<1>6. \A k \in 1..Len(cache') : Shown(cache'[k])
  <2>1. Shown(new)
    <3>1. obj.status.rules = Nil
      BY <1>2 DEF SupervisorInv
    <3>2. \A d \in DataSources :
            tasks[d] # Nil => Older(applied', tasks[d].spec, x)
      BY <1>4
    <3>3. obj.status.cur # Nil =>
            /\ tasks[DataSource[obj.status.cur]] # Nil
            /\ Older(applied', obj.status.cur,
                     tasks[DataSource[obj.status.cur]].spec)
      BY <1>2, <1>5
    <3>4. /\ new.status.rules = Nil /\ (new.deleting => obj'.deleting)
          /\ new.status.cur = obj.status.cur
      BY <1>1, <3>1
    <3> HIDE DEF x
    <3> QED BY <3>2, <3>3, <3>4 DEF x
  <2>2. \A j \in 1..Len(cache) : Shown(cache[j])
    BY <1>1, <1>4, <1>5 DEF SupervisorInv
  <2> HIDE DEF Shown
  <2> QED BY <1>2, <2>1, <2>2
<1>7. /\ pc \notin {"compactionRecord", "rulesRecord"}
      /\ pc # "idle" =>
           /\ di.spec.c = Nil /\ di.spec.r = Nil /\ di.status.rules = Nil
           /\ di.deleting => obj.deleting
      /\ id # Nil =>
           /\ pc \in Recording
           /\ tasks[DataSource[di.spec.s]] # Nil
           /\ tasks[DataSource[di.spec.s]].spec = di.spec.s
  BY DEF SupervisorInv, Recording
<1> QED BY <1>1, <1>4, <1>6, <1>7 DEF SupervisorInv, Recording

\* Plain edits only: none before was otherwise.
LEMMA PlainBefore ==
  ASSUME TypeOK, CopiesInv, NEW new \in DruidIngestion,
         applied' = Append(applied, new.spec), NoReturn', Plain'
  PROVE  NoReturn /\ Plain /\ new.spec.c = Nil /\ new.spec.r = Nil
<1>1. applied \in Seq(Specs) /\ new.spec \in Specs
  BY CopyParts, LastVersion
<1>2. NoReturn
  BY <1>1, AppendHistory DEF NoReturn
<1>3. /\ \A k \in 1..Len(applied) : k \in 1..Len(applied') /\ applied'[k] = applied[k]
      /\ Len(applied') \in 1..Len(applied') /\ applied'[Len(applied')] = new.spec
  BY <1>1
<1> QED BY <1>2, <1>3 DEF Plain

\* The status patch of a pass that has posted its content.
LEMMA SupervisorPatch ==
  ASSUME TypeOK, CopiesInv, SupervisorInv, pc # "idle", id # Nil,
         NEW type \in Types, NEW label \in {"finalize", "compaction"},
         makePatchDruidIngestionStatus(id, type, label)
  PROVE  SupervisorInv'
<1> DEFINE st  == MergePatch(obj.status, seen.status, NewStatus(seen, id, type))
           new == [obj EXCEPT !.status = st]
<1>1. /\ 1 \in 1..Len(cache) /\ seen = cache[1] /\ Len(cache) \in 1..Len(cache)
      /\ cache[Len(cache)] = obj /\ id \in TaskIds
  BY LastVersion DEF seen, TypeOK
<1>2. obj.status.rules = Nil /\ seen.status.rules = Nil /\ seen.spec.r = Nil
  BY <1>1 DEF SupervisorInv
<1>3. CASE seen.exists /\ obj.exists
  <2>1. /\ Write(new) /\ di' = seen /\ pc' = label /\ id' = Nil
        /\ UNCHANGED <<tasks, applied>>
    BY <1>3 DEF makePatchDruidIngestionStatus
  <2>2. st \in Status /\ st.rules = Nil /\ st.cur \in {obj.status.cur, di.spec.s}
    <3>1. /\ st \in Status
          /\ st.cur = (IF di.spec.s = seen.status.cur THEN obj.status.cur
                       ELSE di.spec.s)
          /\ st.rules = (IF seen.spec.r = seen.status.rules
                         THEN obj.status.rules ELSE seen.spec.r)
      BY <1>1, PatchedStatus
    <3> HIDE DEF st
    <3> QED BY <1>2, <3>1
  <2> HIDE DEF st
  <2>3. /\ new \in DruidIngestion /\ new.status = st /\ new.spec = obj.spec
        /\ new.deleting = obj.deleting
    BY <2>2, WrittenParts
  <2> HIDE DEF new
  <2>4. /\ obj' = new
        /\ \A k \in 1..Len(cache') :
             cache'[k] = obj' \/ \E j \in 1..Len(cache) : cache'[k] = cache[j]
    BY <2>1, <2>3, WriteCache DEF Write
  <2> QED BY <2>1, <2>2, <2>3, <2>4, SupervisorKept
<1>4. CASE ~(seen.exists /\ obj.exists)
  <2>1. EndPass /\ UNCHANGED <<server, druid, env>>
    BY <1>4 DEF makePatchDruidIngestionStatus
  <2> QED BY <1>2, <2>1, SupervisorKept DEF EndPass
<1> QED BY <1>3, <1>4

\* The shutdown: only of a resource that is being deleted.
LEMMA SupervisorShutdown ==
  ASSUME TypeOK, SupervisorInv, Finalize \/ Release
  PROVE  \A d \in DataSources :
           /\ (tasks'[d] # Nil) = (tasks[d] # Nil)
           /\ tasks[d] # Nil =>
                /\ tasks'[d].spec = tasks[d].spec
                /\ obj.deleting \/ tasks'[d].up = tasks[d].up
<1>1. CASE tasks' = tasks
  BY <1>1
<1>2. CASE /\ ShutsDown /\ pc # "idle"
           /\ tasks' = [i \in TaskIds |->
                          IF i = di.status.taskId /\ tasks[i] # Nil
                            THEN [tasks[i] EXCEPT !.up = FALSE]
                            ELSE tasks[i]]
  <2>1. obj.deleting
    BY <1>2 DEF SupervisorInv, ShutsDown
  <2>2. \A i \in TaskIds : tasks[i] # Nil =>
          /\ [tasks[i] EXCEPT !.up = FALSE] \in Task
          /\ [tasks[i] EXCEPT !.up = FALSE].spec = tasks[i].spec
    BY DEF TypeOK, Task
  <2> QED BY <1>2, <2>1, <2>2, NilAssumption, CopyContents
<1> QED BY <1>1, <1>2 DEF Finalize, Release

LEMMA SuperviseStep ==
  ASSUME TypeOK, CopiesInv, NoReturn => OrderInv, SuperviseInv, [Next]_vars
  PROVE  SuperviseInv'
<1> SUFFICES ASSUME obj'.spec.type = "kafka", NoReturn', Plain'
             PROVE  SupervisorInv'
  BY DEF SuperviseInv
<1>1. obj.spec.type = "kafka"
  BY TypeStays
<1>2. ASSUME NoReturn, Plain
      PROVE  SupervisorInv /\ OrderInv /\ obj.status.rules = Nil
  BY <1>1, <1>2, LastVersion DEF SuperviseInv, SupervisorInv
<1>3. CASE UserEdit
  <2>1. PICK spec \in Specs : /\ Write([obj EXCEPT !.spec = spec])
                              /\ applied' = Append(applied, spec)
    BY <1>3 DEF UserEdit
  <2> DEFINE new == [obj EXCEPT !.spec = spec]
  <2>2. /\ new \in DruidIngestion /\ new.status = obj.status /\ new.spec = spec
        /\ new.deleting = obj.deleting
    BY DEF TypeOK, DruidIngestion
  <2>3. UNCHANGED <<tasks, pc, di, id>>
    BY <1>3, UserWrite
  <2> HIDE DEF new
  <2>4. Write(new) /\ applied' = Append(applied, new.spec)
    BY <2>1, <2>2 DEF new
  <2> QED BY <1>2, <2>2, <2>3, <2>4, PlainBefore, SupervisorEdit DEF NoReturn
<1>4. ASSUME UNCHANGED applied
      PROVE  SupervisorInv /\ OrderInv /\ obj.status.rules = Nil
  BY <1>2, <1>4 DEF NoReturn, Plain
<1>5. CASE UNCHANGED vars
  BY <1>4, <1>5 DEF vars, SupervisorInv
<1>6. CASE Reconcile
  <2>1. /\ pc' \in {"create", "update", "compaction"} /\ di' = seen /\ pc = "idle"
        /\ UNCHANGED <<obj, cache, tasks, id, applied>>
    BY <1>6 DEF Reconcile
  <2>2. id' = Nil
    BY <1>4, <2>1 DEF SupervisorInv
  <2> QED BY <1>4, <2>1, <2>2, SupervisorKept
<1>7. CASE CreateTask \/ UpdateTask
  <2>1. UNCHANGED applied
    BY <1>7 DEF CreateTask, UpdateTask, PostTask
  <2> QED BY <1>1, <1>4, <1>7, <2>1, SupervisorPost
<1>8. CASE CreateCompaction \/ CreateRules \/ Compaction \/ Rules
  <2>1. pc # "idle" /\ UNCHANGED <<obj, cache, tasks, di, id, applied>>
    BY <1>8 DEF CreateCompaction, CreateRules, Compaction, Rules, Goto
  <2>2. di.spec.c = Nil /\ di.spec.r = Nil /\ di.status.rules = Nil
    BY <1>4, <2>1 DEF SupervisorInv
  <2>3. \A ok \in BOOLEAN : UpdateCompaction(ok) => ok = FALSE
    BY <2>2 DEF UpdateCompaction
  <2>4. pc' \in {"createRules", "createRecord", "rules", "finalize"}
    BY <1>8, <2>2, <2>3 DEF CreateCompaction, CreateRules, Compaction, Rules, Goto
  <2>5. id # Nil => pc' \in Recording
    BY <1>4, <1>8, <2>1
       DEF CreateCompaction, CreateRules, Compaction, Rules, Goto, SupervisorInv,
           Recording
  <2> QED BY <1>4, <2>1, <2>4, <2>5, SupervisorKept
<1>9. CASE CreateRecord \/ UpdateRecord \/ CompactionRecord \/ RulesRecord
  <2>1. pc \in {"createRecord", "updateRecord"} /\ UNCHANGED applied
    BY <1>4, <1>9
       DEF CreateRecord, UpdateRecord, CompactionRecord, RulesRecord, SupervisorInv,
           makePatchDruidIngestionStatus, env
  <2>2. CASE EndPass /\ UNCHANGED <<server, druid, env>>
    BY <1>4, <2>1, <2>2, SupervisorKept DEF EndPass
  <2>3. ASSUME id # Nil, NEW type \in Types, NEW label \in {"finalize", "compaction"},
               makePatchDruidIngestionStatus(id, type, label)
        PROVE  SupervisorInv'
    BY <1>4, <2>1, <2>3, SupervisorPatch
  <2>4. pc = "updateRecord" => id # Nil
    BY DEF CopiesInv
  <2>5. {"CreateSuccess", "CreateFail", "UpdateSuccess"} \subseteq Types
    BY DEF Types
  <2> QED BY <1>9, <2>1, <2>2, <2>3, <2>4, <2>5
          DEF CreateRecord, UpdateRecord, CompactionRecord, RulesRecord
<1>10. CASE Finalize \/ Release
  <2>1. UNCHANGED applied /\ pc \in {"finalize", "release", "releaseAnyway"}
    BY <1>10 DEF Finalize, Release
  <2>2. SupervisorInv /\ obj.status.rules = Nil
    BY <1>4, <2>1
  <2>3. /\ id' = Nil
        /\ \/ pc' = "idle"
           \/ pc' \in {"release", "releaseAnyway"} /\ di' = di
    BY <1>10, <2>1, <2>2 DEF Finalize, Release, EndPass, Goto, SupervisorInv
  <2>4. CASE UNCHANGED server
    BY <1>10, <2>1, <2>2, <2>3, <2>4, SupervisorShutdown, SupervisorKept
  <2>5. ASSUME NEW new \in DruidIngestion, Write(new), new.status = obj.status,
               new.spec = obj.spec, new.deleting = obj.deleting
        PROVE  SupervisorInv'
    <3>1. /\ obj' = new
          /\ \A k \in 1..Len(cache') :
               cache'[k] = obj' \/ \E j \in 1..Len(cache) : cache'[k] = cache[j]
      BY <2>5, WriteCache DEF Write
    <3> QED BY <1>10, <2>1, <2>2, <2>3, <2>5, <3>1, SupervisorShutdown, SupervisorKept
  <2> QED BY <1>10, <2>4, <2>5, WrittenParts DEF Finalize, Release
<1>11. CASE Fail
  BY <1>4, <1>11, SupervisorKept DEF Fail, EndPass
<1>12. CASE UserDelete \/ Deliver
  <2>1. UNCHANGED <<tasks, pc, di, id, applied>>
    BY <1>12 DEF UserDelete, Deliver
  <2>2. SupervisorInv /\ obj.status.rules = Nil
    BY <1>4, <2>1
  <2>3. /\ pc \notin {"compactionRecord", "rulesRecord"}
        /\ id # Nil => pc \in Recording
    BY <2>2 DEF SupervisorInv, Recording
  <2>4. CASE UserDelete
    <3>1. PICK new \in DruidIngestion :
            Write(new) /\ new.status = obj.status /\ new.spec = obj.spec
      <4> DEFINE new == IF obj.fin THEN [obj EXCEPT !.deleting = TRUE]
                        ELSE [obj EXCEPT !.exists = FALSE]
      <4>1. new \in DruidIngestion /\ new.status = obj.status /\ new.spec = obj.spec
        BY DEF TypeOK, DruidIngestion
      <4> QED BY <2>4, <4>1 DEF UserDelete
    <3>2. /\ obj' = new /\ ~obj.deleting
          /\ \A k \in 1..Len(cache') :
               cache'[k] = obj' \/ \E j \in 1..Len(cache) : cache'[k] = cache[j]
      BY <2>4, <3>1, WriteCache DEF Write, UserDelete
    <3> QED BY <2>1, <2>2, <2>3, <3>1, <3>2, SupervisorKept
  <2>5. CASE Deliver
    <3>1. /\ UNCHANGED obj
          /\ \A k \in 1..Len(cache') : \E j \in 1..Len(cache) : cache'[k] = cache[j]
      BY <2>5, DeliverCache DEF Deliver
    <3> QED BY <2>1, <2>2, <2>3, <3>1, SupervisorKept
  <2> QED BY <1>12, <2>4, <2>5
<1> QED BY <1>3, <1>5, <1>6, <1>7, <1>8, <1>9, <1>10, <1>11, <1>12 DEF Next, PassStep

\* When the status names the content of the spec, the supervisor runs it: for
\* any number of data sources, edits and faults and any lag of the cache, for a
\* user who gives no compaction settings and no rules and does not go back to an
\* earlier content.
THEOREM SupervisorMatches == Spec => []SupervisorMatchesSpec
<1>1. Init => (NoReturn => OrderInv) /\ SuperviseInv
  <2> SUFFICES ASSUME Init PROVE OrderInv /\ SuperviseInv
    OBVIOUS
  <2>1. ASSUME Plain PROVE SupervisorInv
    <3>1. applied = <<obj.spec>>
      BY FirstVersion
    <3>2. 1 \in 1..Len(applied) /\ applied[1] = obj.spec
      BY <3>1
    <3>3. obj.spec.c = Nil /\ obj.spec.r = Nil
      BY <2>1, <3>2 DEF Plain
    <3> QED BY <3>3, FirstVersion DEF SupervisorInv
  <2> QED BY <2>1, InitOrder DEF SuperviseInv
<1>2. /\ TypeOK /\ CopiesInv /\ (NoReturn => OrderInv) /\ SuperviseInv /\ [Next]_vars
      => (NoReturn => OrderInv)' /\ SuperviseInv'
  BY OrderStep, SuperviseStep
<1>3. TypeOK /\ CopiesInv /\ (NoReturn => OrderInv) /\ SuperviseInv
      => SupervisorMatchesSpec
  <2> SUFFICES ASSUME TypeOK, CopiesInv, OrderInv, SupervisorInv, ~obj.deleting,
                      obj.status.cur = obj.spec.s
               PROVE  Supervises(obj.spec.s)
    BY DEF SuperviseInv, SupervisorMatchesSpec
  <2> DEFINE s == obj.spec.s
             t == tasks[DataSource[s]]
  <2>1. /\ Len(cache) \in 1..Len(cache) /\ cache[Len(cache)] = obj
        /\ applied \in Seq(Specs)
    BY LastVersion
  <2>2. s \in Content /\ s # Nil /\ DataSource[s] \in DataSources
    BY <2>1, CopyContents, IngestionAssumption
  <2>3. t # Nil /\ Older(applied, s, t.spec)
    BY <2>1, <2>2 DEF SupervisorInv
  <2>4. t.up /\ Occurs(applied, t.spec) /\ Older(applied, t.spec, s)
    <3>1. t.up /\ Occurs(applied, t.spec)
      BY <2>2, <2>3 DEF SupervisorInv
    <3>2. Older(applied, t.spec, s)
      BY <2>1, <2>2, <2>3 DEF SupervisorInv
    <3> QED BY <3>1, <3>2
  <2>5. Occurs(applied, s)
    BY <2>1 DEF OrderInv
  <2>6. t.spec = s
    <3> HIDE DEF s, t
    <3> QED BY <2>1, <2>3, <2>4, <2>5, OlderAntisymmetric
  <2> QED BY <2>3, <2>4, <2>6 DEF Supervises, Running
<1> QED BY <1>1, <1>2, <1>3, IngestionCorrect, PTL DEF Spec
=============================================================================
