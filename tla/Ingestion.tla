------------------------------ MODULE Ingestion ------------------------------
(***************************************************************************)
(* The DruidIngestion controller (controllers/ingestion): passes over one  *)
(* DruidIngestion resource, beside a user who edits and deletes it, an API *)
(* server read through a cache, and a Druid cluster that is told about     *)
(* tasks, compaction and rules over HTTP.                                  *)
(*                                                                         *)
(* A step of a pass is one HTTP call, or one status patch or update, and   *)
(* the control flow up to the next.  A call that gets no answer, a patch   *)
(* that is refused and a restart of the operator end the pass (Fail),      *)
(* before or after the call took effect.                                   *)
(***************************************************************************)
EXTENDS JsonIncludes, Sequences

CONSTANTS
  Content,      \* what spec.ingestion.spec (or nativeSpec) may say
  Invalid,      \* the contents Druid refuses
  DataSources,  \* data sources
  DataSource,   \* the data source named in each content
  RuleLists,    \* values of spec.ingestion.rules
  Specs,        \* the specs the user may apply
  TaskIds,      \* ids of supervisors (their data sources) and of batch tasks
  CacheLag,     \* the operator's reads come from a cache that may lag
  MaxEdits,     \* bound on the specs the user applies
  MaxLag,       \* bound on the versions the cache is behind before a pass or edit
  MaxFaults,    \* bound on failed calls and restarts
  Nil           \* "no value"

\* The type, what the specification says, the compaction settings, the rules.
SpecType == [type : {"kafka", "native-batch"}, s : Content,
             c : Objects \cup {Nil}, r : RuleLists \cup {Nil}]

ASSUME IngestionAssumption ==
  /\ Invalid \subseteq Content
  /\ DataSource \in [Content -> DataSources]
  /\ Specs \subseteq SpecType
  /\ DataSources \subseteq TaskIds
  /\ CacheLag \in BOOLEAN
  /\ MaxEdits \in Nat \ {0}
  /\ MaxLag \in Nat
  /\ MaxFaults \in Nat
  /\ Nil \notin TaskIds
  /\ Nil \notin Content
  /\ Nil \notin Objects
  /\ Nil \notin RuleLists

Types == {Nil, "CreateSuccess", "CreateFail", "UpdateSuccess"}

\* status.taskId, .currentIngestionSpec, .rules and .type.
Status == {st \in [taskId : TaskIds \cup {Nil}, cur : Content \cup {Nil},
                   rules : RuleLists \cup {Nil}, type : Types] :
              (st.taskId = Nil) = (st.cur = Nil)}

NoStatus == [taskId |-> Nil, cur |-> Nil, rules |-> Nil, type |-> Nil]

DruidIngestion == [exists : BOOLEAN, deleting : BOOLEAN, fin : BOOLEAN,
                   spec : Specs, status : Status]

\* A task or supervisor Druid knows: its spec, and whether it still runs.
Task == [spec : Content, up : BOOLEAN]

ASSUME NilAssumption == Nil \notin DruidIngestion /\ Nil \notin Task

VARIABLES
  obj,         \* the DruidIngestion in the API server
  cache,       \* the operator's cached copy, and the versions on their way to it
  fresh,       \* whether di has the resourceVersion of obj
  tasks,       \* tasks[i]: the task with id i, Nil if there is none
  compaction,  \* compaction[d]: Druid's compaction settings of data source d
  rules,       \* rules[d]: Druid's rules of data source d
  pc,          \* where the pass is
  di,          \* the copy the pass works on, Nil between passes
  id,          \* the task id in Druid's last answer, Nil if it refused
  compactionOk,
  applied,     \* the specs the user has applied so far
  faults       \* faults so far

server == <<obj, cache>>
druid  == <<tasks, compaction, rules>>
pass   == <<pc, di, fresh, id, compactionOk>>
env    == <<applied, faults>>
vars   == <<server, druid, pass, env>>

-----------------------------------------------------------------------------
(* The API server and its cache.                                            *)

\* What a read by the operator returns.
seen == cache[1]

\* A write gives obj a new resourceVersion, which the cache gets in its turn.
Write(new) ==
  /\ obj' = new
  /\ cache' = IF CacheLag THEN Append(cache, new) ELSE <<new>>
  /\ fresh' = FALSE

\* A bound on the versions on their way when a pass begins or the user edits.
LagBounded == Len(cache) <= MaxLag + 1

\* A pass ends, by a return or an error; either way the key is queued again.
EndPass ==
  /\ pc' = "idle"
  /\ di' = Nil /\ fresh' = FALSE
  /\ id' = Nil /\ compactionOk' = FALSE

Goto(label) == pc' = label /\ UNCHANGED <<di, fresh, id, compactionOk>>

Fault == faults < MaxFaults /\ faults' = faults + 1

\* Mutant: the update is sent without the resourceVersion of the copy.
UpdateConflictNever == FALSE

\* r.Update is refused when the copy is not of the current resourceVersion.
UpdateConflict == ~fresh

-----------------------------------------------------------------------------
(* Druid's side.                                                            *)

\* A supervisor is known by its data source, a batch task gets a new id.
FreeIds == IF di.spec.type = "kafka" THEN {DataSource[di.spec.s]}
           ELSE {i \in TaskIds \ DataSources : tasks[i] = Nil}

NewId == CHOOSE i \in FreeIds : TRUE

getDataSource == DataSource[di.spec.s]

\* POST of the spec to indexer/task or indexer/supervisor.
PostTask ==
  /\ \/ /\ di.spec.s \notin Invalid
        /\ FreeIds # {}
        /\ id' = NewId
        /\ tasks' = [tasks EXCEPT ![NewId] = [spec |-> di.spec.s, up |-> TRUE]]
        /\ UNCHANGED faults
     \/ /\ di.spec.s \in Invalid
        /\ id' = Nil
        /\ UNCHANGED <<tasks, faults>>
     \/ /\ di.spec.s \notin Invalid      \* refused for a passing reason
        /\ Fault
        /\ id' = Nil
        /\ UNCHANGED tasks
  /\ UNCHANGED <<server, compaction, rules, di, fresh, compactionOk, applied>>

\* Mutant: any settings Druid has count as the desired ones.
CompactionUpToDateAny == compaction[getDataSource] # Nil

\* IncludesJson(current, desired).  Both have the key dataSource, but for the
\* "{}" that stands for settings Druid does not have.
CompactionUpToDate ==
  /\ compaction[getDataSource] # Nil
  /\ includes(compaction[getDataSource], di.spec.c)

\* UpdateCompaction when it returns no error: ok is its result.
UpdateCompaction(ok) ==
  \/ /\ di.spec.c # Nil => CompactionUpToDate
     /\ ok = FALSE
     /\ UNCHANGED compaction
  \/ /\ di.spec.c # Nil /\ ~CompactionUpToDate
     /\ ok = TRUE
     /\ compaction' = [compaction EXCEPT ![getDataSource] = di.spec.c]

\* UpdateRules when it returns true; when it does not, it returns an error.
UpdateRules ==
  rules' = IF di.spec.r = Nil THEN rules
           ELSE [rules EXCEPT ![getDataSource] = di.spec.r]

-----------------------------------------------------------------------------
(* The status patch.                                                        *)

\* A merge patch carries the fields in which new differs from base.
MergePatch(old, base, new) ==
  [f \in DOMAIN old |-> IF new[f] = base[f] THEN old[f] ELSE new[f]]

\* The spec is the one di had before the refresh, the rules those it has after.
NewStatus(base, taskId, type) ==
  [taskId |-> taskId, cur |-> di.spec.s, rules |-> base.spec.r, type |-> type]

\* makePatchDruidIngestionStatus: di is refreshed from the cache, and the patch
\* is the difference to that copy; di keeps the copy, without the patch.
makePatchDruidIngestionStatus(taskId, type, label) ==
  /\ UNCHANGED <<druid, env>>
  /\ \/ /\ seen.exists /\ obj.exists
        /\ Write([obj EXCEPT !.status =
                    MergePatch(@, seen.status,
                               NewStatus(seen, taskId, type))])
        /\ di' = seen
        /\ pc' = label
        /\ id' = Nil /\ compactionOk' = FALSE
     \/ /\ ~(seen.exists /\ obj.exists)
        /\ EndPass
        /\ UNCHANGED server

-----------------------------------------------------------------------------
(* A pass.                                                                  *)

NoTask(in) == in.status.taskId = Nil /\ in.status.cur = Nil

\* Mutant: a resource whose creation is said to have failed is not updated.
SpecChangedIfCreated(in) ==
  in.status.cur # in.spec.s /\ in.status.type # "CreateFail"

\* IsEqualJson of the recorded spec and the spec.
SpecChanged(in) == in.status.cur # in.spec.s

\* Reconcile, do up to CreateOrUpdate, and CreateOrUpdate up to its first call.
Reconcile ==
  /\ pc = "idle"
  /\ LagBounded
  /\ seen.exists
  /\ di' = seen
  /\ fresh' = (Len(cache) = 1)
  /\ pc' = CASE NoTask(seen) -> "create"
             [] ~NoTask(seen) /\ SpecChanged(seen) -> "update"
             [] OTHER -> "compaction"
  /\ UNCHANGED <<server, druid, id, compactionOk, env>>

CreateTask == pc = "create" /\ PostTask /\ pc' = "createCompaction"

CreateCompaction ==
  /\ pc = "createCompaction"
  /\ \E ok \in BOOLEAN : UpdateCompaction(ok) /\ compactionOk' = ok
  /\ pc' = "createRules"
  /\ UNCHANGED <<server, tasks, rules, di, fresh, id, env>>

CreateRules ==
  /\ pc = "createRules"
  /\ UpdateRules
  /\ Goto("createRecord")
  /\ UNCHANGED <<server, tasks, compaction, env>>

\* Mutant: the missing task id of a refused task is not an error.
CreateRecordNoId ==
  /\ pc = "createRecord"
  /\ makePatchDruidIngestionStatus(
       id, IF id # Nil /\ compactionOk THEN "CreateSuccess" ELSE "CreateFail",
       "finalize")

\* Without compaction settings UpdateCompaction is false, and so the status
\* says CreateFail.  A refused task has no id: the pass ends with an error.
CreateRecord ==
  /\ pc = "createRecord"
  /\ \/ /\ id # Nil
        /\ makePatchDruidIngestionStatus(
             id, IF compactionOk THEN "CreateSuccess" ELSE "CreateFail",
             "finalize")
     \/ /\ id = Nil
        /\ EndPass
        /\ UNCHANGED <<server, druid, env>>

\* An update Druid refuses is passed over.
UpdateTask ==
  /\ pc = "update"
  /\ PostTask
  /\ pc' = IF id' = Nil THEN "compaction" ELSE "updateRecord"

\* Mutant: the task id already in the status is kept.
UpdateRecordOldId ==
  /\ pc = "updateRecord"
  /\ makePatchDruidIngestionStatus(di.status.taskId, "UpdateSuccess",
                                   "compaction")

UpdateRecord ==
  /\ pc = "updateRecord"
  /\ makePatchDruidIngestionStatus(id, "UpdateSuccess", "compaction")

Compaction ==
  /\ pc = "compaction"
  /\ \E ok \in BOOLEAN :
       /\ UpdateCompaction(ok)
       /\ pc' = IF ok THEN "compactionRecord" ELSE "rules"
  /\ UNCHANGED <<server, tasks, rules, di, fresh, id, compactionOk, env>>

CompactionRecord ==
  /\ pc = "compactionRecord"
  /\ makePatchDruidIngestionStatus(di.status.taskId, "UpdateSuccess", "rules")

Rules ==
  /\ pc = "rules"
  /\ \/ /\ di.status.rules = di.spec.r
        /\ Goto("finalize")
        /\ UNCHANGED rules
     \/ /\ di.status.rules # di.spec.r
        /\ UpdateRules
        /\ Goto("rulesRecord")
  /\ UNCHANGED <<server, tasks, compaction, env>>

RulesRecord ==
  /\ pc = "rulesRecord"
  /\ makePatchDruidIngestionStatus(di.status.taskId, "UpdateSuccess",
                                   "finalize")

\* Mutant: the deletion timestamp is not looked at.
ShutsDownAlways == di.fin

ShutsDown == di.deleting /\ di.fin

\* The rest of do: the finalizer is added, or the task is shut down.  A refused
\* Update is not an error, and a refused shutdown is only reported.
Finalize ==
  /\ pc = "finalize"
  /\ \/ /\ ~di.deleting /\ ~di.fin /\ ~UpdateConflict /\ obj.exists
        /\ Write([obj EXCEPT !.fin = TRUE])
        /\ EndPass
        /\ UNCHANGED <<druid, env>>
     \/ /\ di.deleting \/ di.fin \/ UpdateConflict \/ ~obj.exists
        /\ ~ShutsDown
        /\ EndPass
        /\ UNCHANGED <<server, druid, env>>
     \/ /\ ShutsDown
        /\ \/ /\ Goto("release")
              /\ tasks' = [i \in TaskIds |->
                             IF i = di.status.taskId /\ tasks[i] # Nil
                               THEN [tasks[i] EXCEPT !.up = FALSE]
                               ELSE tasks[i]]
              /\ UNCHANGED faults
           \/ Goto("releaseAnyway") /\ Fault /\ UNCHANGED tasks
        /\ UNCHANGED <<server, compaction, rules, applied>>

\* The finalizer is removed; the API server then drops the object.
Release ==
  /\ pc \in {"release", "releaseAnyway"}
  /\ \/ /\ ~UpdateConflict /\ obj.exists
        /\ Write([obj EXCEPT !.fin = FALSE, !.exists = FALSE])
     \/ /\ UpdateConflict \/ ~obj.exists
        /\ UNCHANGED server
  /\ EndPass
  /\ UNCHANGED <<druid, env>>

Fail ==
  /\ pc # "idle"
  /\ Fault
  /\ EndPass
  /\ UNCHANGED <<server, druid, applied>>

-----------------------------------------------------------------------------
(* The user and the informer.                                               *)

\* The type of the ingestion stays.  A resource that is being deleted can still
\* be edited.
UserEdit ==
  /\ obj.exists
  /\ Len(applied) < MaxEdits
  /\ LagBounded
  /\ \E new \in Specs \ {obj.spec} :
       /\ new.type = obj.spec.type
       /\ Write([obj EXCEPT !.spec = new])
       /\ applied' = Append(applied, new)
  /\ UNCHANGED <<druid, pc, di, id, compactionOk, faults>>

\* An object without finalizer goes at once, another when it is released.
UserDelete ==
  /\ obj.exists /\ ~obj.deleting
  /\ Write(IF obj.fin THEN [obj EXCEPT !.deleting = TRUE]
           ELSE [obj EXCEPT !.exists = FALSE])
  /\ UNCHANGED <<druid, pc, di, id, compactionOk, env>>

Deliver ==
  /\ Len(cache) > 1
  /\ cache' = Tail(cache)
  /\ UNCHANGED <<obj, druid, pass, env>>

Init ==
  /\ \E new \in Specs :
       obj = [exists |-> TRUE, deleting |-> FALSE, fin |-> FALSE,
              spec |-> new, status |-> NoStatus]
  /\ cache = <<obj>>
  /\ fresh = FALSE
  /\ tasks = [i \in TaskIds |-> Nil]
  /\ compaction = [d \in DataSources |-> Nil]
  /\ rules = [d \in DataSources |-> Nil]
  /\ pc = "idle" /\ di = Nil /\ id = Nil /\ compactionOk = FALSE
  /\ applied = <<obj.spec>>
  /\ faults = 0

PassStep ==
  \/ Reconcile
  \/ CreateTask \/ CreateCompaction \/ CreateRules \/ CreateRecord
  \/ UpdateTask \/ UpdateRecord
  \/ Compaction \/ CompactionRecord \/ Rules \/ RulesRecord
  \/ Finalize \/ Release

Next == PassStep \/ Fail \/ UserEdit \/ UserDelete \/ Deliver

Spec == Init /\ [][Next]_vars

\* The key is queued again after every pass, calls return or time out, and the
\* informer's watch delivers what was written.
FairSpec == Spec /\ WF_vars(PassStep) /\ WF_vars(Deliver)

-----------------------------------------------------------------------------
(* Properties.                                                              *)

\* Types.  Also: a status names a task if and only if it names a spec, which
\* the test for a resource without a task (CreateOrUpdate) takes for granted.
TypeOK ==
  /\ obj \in DruidIngestion
  /\ cache \in Seq(DruidIngestion) /\ cache # <<>>
  /\ fresh \in BOOLEAN
  /\ tasks \in [TaskIds -> Task \cup {Nil}]
  /\ compaction \in [DataSources -> Objects \cup {Nil}]
  /\ rules \in [DataSources -> RuleLists \cup {Nil}]
  /\ pc \in {"idle", "create", "createCompaction", "createRules",
             "createRecord", "update", "updateRecord", "compaction",
             "compactionRecord", "rules", "rulesRecord", "finalize", "release",
             "releaseAnyway"}
  /\ di \in DruidIngestion \cup {Nil}
  /\ (di = Nil) = (pc = "idle")
  /\ id \in TaskIds \cup {Nil}
  /\ compactionOk \in BOOLEAN
  /\ applied \in Seq(Specs) /\ Len(applied) \in 1..MaxEdits
  /\ faults \in 0..MaxFaults

Running(i) == tasks[i] # Nil /\ tasks[i].up

\* The user never goes back to an earlier content.  Without this the diff of a
\* status patch may leave out currentIngestionSpec: the cached copy, older than
\* the status, may name the content that is being recorded a second time.
NeverBack(history) ==
  \A i, j, k \in 1..Len(history) :
    i < j /\ j < k /\ history[i].s = history[k].s => history[j].s = history[i].s

NoReturn == NeverBack(applied)

\* No compaction settings and no rules have been given.
Plain == \A k \in 1..Len(applied) : applied[k].c = Nil /\ applied[k].r = Nil

\* The task named in the status was started from the spec named in the status,
\* however far the cache lagged when the pass began and when the status was
\* patched, and wherever passes failed.  For native-batch, where every POST
\* starts a new task.
TaskMatchesSpec ==
  NoReturn /\ obj.spec.type = "native-batch" /\ obj.status.taskId # Nil =>
    /\ tasks[obj.status.taskId] # Nil
    /\ tasks[obj.status.taskId].spec = obj.status.cur

\* Every spec so far has named the same data source.
SameSource ==
  \A j, k \in 1..Len(applied) : DataSource[applied[j].s] = DataSource[applied[k].s]

\* Unless Druid refused the shutdown of that very pass, the finalizer is removed
\* only when the task the status names does not run, although a pass over a
\* resource that is being deleted may post a task first, and whatever failed in
\* earlier passes.  If the user has kept to one data source, no supervisor runs
\* then; one of an earlier data source is left running, and so is a batch task
\* that the status does not name any more or never did.
StoppedBeforeReleased ==
  [][obj.exists /\ obj.fin /\ ~obj'.exists /\ pc # "releaseAnyway" =>
       /\ obj.status.taskId # Nil /\ ~Running(obj.status.taskId)
       /\ SameSource => \A d \in DataSources : ~Running(d)]_vars

Supervises(s) == Running(DataSource[s]) /\ tasks[DataSource[s]].spec = s

\* The counterpart for supervisors: when the status names the content of the
\* spec, so that no pass posts it again, its supervisor runs that content,
\* whatever was posted and not recorded before, and in whatever order the cache
\* showed edits and patches.
SupervisorMatchesSpec ==
  /\ NoReturn /\ Plain
  /\ obj.spec.type = "kafka" /\ obj.exists /\ ~obj.deleting
  /\ obj.status.cur = obj.spec.s
  => Supervises(obj.spec.s)

Settled(new) == obj.exists /\ ~obj.deleting /\ obj.spec = new

Valid == {n \in Specs : n.type = "kafka" /\ n.s \notin Invalid
                       /\ n.c = Nil /\ n.r = Nil}

\* A valid spec that the user leaves in place is in the end the one its
\* supervisor runs, if no content comes back and no compaction settings or rules
\* are ever given: no edit is lost because a call failed, because it came
\* between the POST of an earlier one and the status patch, or because of an
\* old cache.
SpecConverges ==
  \A new \in Valid :
    /\ [](NoReturn /\ Plain)
    /\ <>[]Settled(new)
    => <>[]Supervises(new.s)

\* Compaction settings the user leaves in place are in the end among those Druid
\* has, whatever was posted before and from however old a copy.  Not more: a key
\* that the user takes away stays in Druid, because the settings without it are
\* included in those with it.
CompactionConverges ==
  \A new \in {n \in Specs : n.c # Nil} :
    LET d == DataSource[new.s] IN
    <>[]Settled(new) =>
      <>[](compaction[d] # Nil /\ Covers(compaction[d], new.c))

\* Rules the user leaves in place are in the end those Druid has.
RulesConverge ==
  \A new \in {n \in Specs : n.r # Nil} :
    <>[]Settled(new) => <>[](rules[DataSource[new.s]] = new.r)
-----------------------------------------------------------------------------
(* What makes TypeOK and StoppedBeforeReleased inductive.                   *)

Updating == {"update", "updateRecord", "compaction", "compactionRecord", "rules",
             "rulesRecord"}

\* The cache shows the versions of obj in their order, and a copy is one of
\* them: a task id in one is not missing from a later one.
CopiesInv ==
  /\ cache[Len(cache)] = obj
  /\ \A j, k \in 1..Len(cache) :
       j <= k /\ cache[j].status.taskId # Nil => cache[k].status.taskId # Nil
  /\ \A k \in 1..Len(cache) : cache[k].spec.type = obj.spec.type
  /\ pc # "idle" =>
       /\ di.status.taskId # Nil => seen.status.taskId # Nil
       /\ di.spec.type = obj.spec.type
  /\ pc \in Updating => di.status.taskId # Nil
  /\ pc = "updateRecord" => id # Nil
  /\ fresh => pc # "idle" /\ di = obj

Sources == {DataSource[applied[k].s] : k \in 1..Len(applied)}

NamesApplied(in) == /\ DataSource[in.spec.s] \in Sources
                    /\ in.status.taskId \in Sources \cup {Nil}

\* A current copy names a task; supervisors run only for data sources that were
\* applied, and a status names one of those; what was shut down does not run.
ShutdownInv ==
  /\ fresh /\ pc \in {"finalize", "release", "releaseAnyway"} =>
       di.status.taskId # Nil
  /\ obj.spec.type = "kafka" =>
       /\ id \in Sources \cup {Nil}
       /\ \A k \in 1..Len(cache) : NamesApplied(cache[k])
       /\ pc # "idle" => NamesApplied(di)
  /\ \A d \in DataSources :
       tasks[d] # Nil => obj.spec.type = "kafka" /\ d \in Sources
  /\ pc = "release" /\ di.status.taskId # Nil => ~Running(di.status.taskId)

-----------------------------------------------------------------------------
(* What makes TaskMatchesSpec inductive.                                    *)

\* In a history of specs, a is b or comes only before b.
Older(history, a, b) ==
  \/ a = b
  \/ \A j, k \in 1..Len(history) : history[j].s = a /\ history[k].s = b => j < k

Occurs(history, a) == \E k \in 1..Len(history) : history[k].s = a

\* A content is recorded only after the contents before it, however old the
\* copies are: what the status names is not newer than what any copy, the
\* cached one or that of the pass, asks for.
OrderInv ==
  /\ \A k \in 1..Len(cache) :
       /\ Occurs(applied, cache[k].spec.s)
       /\ cache[k].status.cur # Nil => Occurs(applied, cache[k].status.cur)
       /\ Older(applied, cache[k].status.cur, obj.status.cur)
       /\ Older(applied, obj.status.cur, cache[k].spec.s)
  /\ \A j, k \in 1..Len(cache) :
       j <= k => Older(applied, cache[j].spec.s, cache[k].spec.s)
  /\ pc # "idle" =>
       /\ Occurs(applied, di.spec.s)
       /\ Older(applied, obj.status.cur, di.spec.s)
       /\ \A k \in 1..Len(cache) : Older(applied, di.spec.s, cache[k].spec.s)

\* A posted batch task has an id that no status names yet.
RecordInv ==
  /\ pc \notin {"compactionRecord", "rulesRecord"}
  /\ pc # "idle" => di.status.rules = Nil
  /\ \A k \in 1..Len(cache) :
       /\ cache[k].status.rules = Nil
       /\ cache[k].status.taskId # Nil => tasks[cache[k].status.taskId] # Nil
  /\ id # Nil =>
       /\ pc \in {"createCompaction", "createRules", "createRecord", "updateRecord"}
       /\ tasks[id] # Nil /\ tasks[id].spec = di.spec.s
       /\ \A k \in 1..Len(cache) : cache[k].status.taskId # id
  /\ NoReturn /\ obj.status.taskId # Nil =>
       tasks[obj.status.taskId].spec = obj.status.cur

MatchInv ==
  /\ NoReturn => OrderInv
  /\ obj.spec.type = "native-batch" => RecordInv

\* Supervisors are given contents in the order in which they were applied: none
\* is ahead of a copy, and none is behind what a copy says is recorded.
SupervisorInv ==
  /\ pc \notin {"compactionRecord", "rulesRecord"}
  /\ pc # "idle" =>
       /\ di.spec.c = Nil /\ di.spec.r = Nil /\ di.status.rules = Nil
       /\ di.deleting => obj.deleting
  /\ id # Nil =>
       /\ pc \in {"createCompaction", "createRules", "createRecord", "updateRecord"}
       /\ tasks[DataSource[di.spec.s]] # Nil
       /\ tasks[DataSource[di.spec.s]].spec = di.spec.s
  /\ \A d \in DataSources : tasks[d] # Nil =>
       /\ ~obj.deleting => tasks[d].up
       /\ Occurs(applied, tasks[d].spec)
       /\ pc # "idle" => Older(applied, tasks[d].spec, di.spec.s)
  /\ \A k \in 1..Len(cache) :
       /\ cache[k].spec.c = Nil /\ cache[k].spec.r = Nil
       /\ cache[k].status.rules = Nil
       /\ cache[k].deleting => obj.deleting
       /\ \A d \in DataSources :
            tasks[d] # Nil => Older(applied, tasks[d].spec, cache[k].spec.s)
       /\ LET c == cache[k].status.cur
          IN  c # Nil => /\ tasks[DataSource[c]] # Nil
                         /\ Older(applied, c, tasks[DataSource[c]].spec)

SuperviseInv ==
  obj.spec.type = "kafka" /\ NoReturn /\ Plain => SupervisorInv
=============================================================================
