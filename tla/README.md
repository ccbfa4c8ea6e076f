# A TLA+ model of the Druid operator

The Druid operator keeps Apache Druid clusters running on Kubernetes. A user
writes a `Druid` custom resource (CR); the operator turns it into ConfigMaps,
Services, StatefulSets, Deployments and so on, and repeats the same pass every
ten seconds for as long as the CR exists. A second controller submits ingestion
tasks to a running cluster from `DruidIngestion` resources.

What is hard about this code is not any single function but the order in which
a pass writes objects, the many places where it may stop, and the fact that
everything it reads (the CR, its own objects, the statuses other controllers
write) may be older than what it has just written. The modules here model that.

## Inventory

| Part | Code | State | Operations | Hard behaviour | Properties |
|---|---|---|---|---|---|
| Reconcile pass | `controllers/druid/handler.go` `deployDruidCluster`, `druid_controller.go` | CR, owned objects, local maps of names | one API call after the other, early returns | restart or failed call anywhere; CR edited during a pass; stale caches | `ImplementsOrderedUpdate`, `ConfigBeforeWorkload`, `Converges` |
| Node ordering | `ordering.go` | none | `getNodeSpecsByOrder` | random order within a type, new in each pass | `WrittenInOrder` |
| Object writer | `handler.go` `sdkCreateOrUpdateAsNeeded`, `interface.go` | hash annotation, resourceVersion | get, create, update | decision on a stale copy | `AppliedInv`, `Converges` |
| Rollout gate | `handler.go` `isObjFullyDeployed` | workload status | read | status not yet refreshed | `RollingUnlessBehind`, `RollingByType` |
| Crash recovery | `handler.go` `checkCrashStatus` | pods | delete | error dropped; pod crashes again | `Converges` |
| Removal of unused objects | `handler.go` `deleteUnusedResources` | lists per kind | list, delete | failed list or delete does not stop it | `SweepKeepsWanted`, `ReplaceBeforeRemove` |
| Cluster status | `status.go` | status subresource | merge patch | empty lists, ignored errors, passes that never get there | `BadStateReported` |
| Finalizer bookkeeping | `finalizers.go` `updateFinalizers` | finalizer on the CR | JSON patch | refreshes the CR in mid-pass | `FinalizerBeforeStatefulSet` |
| Claim deletion | `finalizers.go` `executePVCFinalizer` | claims, StatefulSets | list, delete, update | claims created between list and delete; flag changed before deletion | `ClaimsGoFirst`, `Released` |
| Orphan claims | `handler.go` `deleteOrphanPVC` | labels with a timestamp | mark, unmark, delete | sixty seconds against pods that come and go | `MountedKept`, `OrphanRemoved`, `NeededKept` |
| Volume expansion | `volume_expansion.go` | claim sizes, StatefulSet | orphaning delete, patch | crash in between; several templates | `Expanded`, `StatefulSetBack`, `DeletedToGrow` |
| Dynamic configuration | `dynamic_config.go` | configuration in Druid | GET, POST | one failure hides the next | `DynamicApplied`, `PostsEnd` |
| Ingestion controller | `controllers/ingestion/reconciler.go` | status: task id, current spec, rules | POST, status patches, finalizer | retries after a POST; status copies | `TaskMatchesSpec`, `SupervisorMatchesSpec`, `StoppedBeforeReleased`, `SpecConverges`, `CompactionConverges`, `RulesConverge` |
| JSON inclusion | `pkg/util/util.go`, `util.go` | none | `IncludesJson`, `IsEqualJson` | lists, nesting | `IncludesIsCovers` |
| Work queue and predicates | `predicates.go`, `druid_controller.go` | queue | filter, requeue | annotation set while queued | fairness only |
| Object construction | `handler.go`, `configuration.go`, `additional_containers.go` | maps shared with the spec | builders | aliasing | abstracted to hashes |
| HTTP clients | `pkg/http`, `pkg/druidapi` | none | requests | outcomes only | an answer or an error, in `DruidController` and `Ingestion` |
| Dependency managers | `*_dep_mgmt.go`, `ext/` | none | lookup | none | not modelled |
| Types, generated code, events, `main.go` | `apis/`, `interface.go`, `main.go` | none of their own | | | fields the pass branches on only |

The hazards, each at its line, are listed in `PROJECT.json`.

The parts meet in the API server. The pass writes workloads, whose controllers
write statuses, which the gate of the next pass reads; the finalizer, the
claims and the StatefulSets are shared by the pass, the deletion branch, the
removal of orphan claims and volume expansion; the ingestion controller needs
the router Service the pass writes.

## Modules

| Module | What it is |
|---|---|
| `DruidReconcile` | the pass, the user and the Kubernetes controllers |
| `MCDruidReconcile` | the specs of the small instances TLC checks |
| `DruidRollout` | `DruidReconcile` with a history variable for the gate of a rolling deploy |
| `MCDruidRollout` | its small instance |
| `DruidReconcileProofs` | types, the invariant of a pass, safety of the removal of unused objects |
| `DruidOrderProofs` | the finalizer and the order of writes |
| `DruidRollingProofs` | the rolling deploy |
| `OrderedUpdate` | what the pass promises, in four actions |
| `DruidRefinementProofs` | `DruidReconcile` implements `OrderedUpdate` |
| `Claims` | the claims of a StatefulSet: finalizer, deletion of the CR, orphans |
| `MCClaims` | the specs of its small instances |
| `ClaimsProofs` | mounted claims are kept, the finalizer goes last |
| `VolumeExpansion` | the expansion of claims, as steps of a pass |
| `JsonIncludes` | the comparison of JSON objects, and a reference definition of it; used by `DynamicConfig` and `Ingestion` |
| `JsonIncludesProofs` | the two agree, for objects of any depth |
| `DynamicConfig` | the dynamic configurations, as steps of a pass |
| `DruidController` | `Reconcile`: volume expansion followed by the dynamic configurations |
| `MCDruidController` | the specs and configurations of its small instances |
| `DruidControllerProofs` | its types, the comparisons of a pass, why a StatefulSet is deleted |
| `Ingestion` | the ingestion controller, its user and Druid's task, compaction and rules API |
| `MCIngestion` | the specs of its small instances |
| `IngestionProofs` | its types; a task is shut down before the resource is released; the status names what runs |

### DruidReconcile

State. `cr` is the CR in the API server (spec, generation, finalizer) and
`crSeen` what the informer has delivered. `store[o]` is the hash annotation of
object `o` (a kind and a node key; `Common` for cluster-wide objects), `Nil` if
there is no such object; `cache` is the operator's view of it. `rollout[w]` is
what the status of workload `w` says: the revision being rolled out, the one it
started from, whether all replicas are ready, whether a pod is in a crash loop.
`status` is the status of the CR. The remaining variables are the locals of
`deployDruidCluster`: `m` the CR it works on, `snap` the spec `allNodeSpecs` and
`commonConfigSHA` were computed from, `done`, `node` and `did` the place in the
node loop, `names` the `...Names` maps, `swept` and `surv` the removal of unused
objects.

A spec says which nodes there are, their kind, their configuration, which
optional objects they have, the common configuration, and the four flags the
pass branches on: `rollingDeploy`, `forceDeleteStsPodOnError` (`forceDelete`),
`disablePVCDeletionFinalizer` (`disableFinalizer`), and the verdict of
`verifyDruidSpec` (`valid`). The hash of a ConfigMap is its content; that of a
workload is the pair of configurations in its pod template.

| Action | Code |
|---|---|
| `Reconcile` | `Reconcile` and the start of `deployDruidCluster` |
| `applyCommonConfig` | the common ConfigMap |
| `updateFinalizers` | `updateFinalizers`; `m` becomes the CR the patch returns, `snap` stays |
| `startNode`, `finishNode`, `finishLoop` | the node loop |
| `applyObject` | ConfigMap, Services, Ingress, PodDisruptionBudget, autoscaler, claims of a node, in this order around the workload |
| `applyWorkload` | StatefulSet or Deployment, with the return after an update |
| `checkCrashStatus` | `execCheckCrashStatus`, called before and after the gate |
| `checkRollout` | `isObjFullyDeployed` and the return on `!done` |
| `deleteUnusedResources`, `finishSweep` | the seven calls, in the order of the code |
| `druidClusterStatusPatcher` | pod list, condition, merge patch |
| `Fail` | any call that fails, a panic, a restart: the pass ends where it is |
| `UserEdit`, `DeliverCR`, `SyncCache` | the user; informers |
| `Observe`, `RolloutDone`, `CrashLoop`, `PodFails` | external controllers |

Reductions and abstractions:

- A read and the write it decides are one step. An interleaved write by somebody
  else would be refused (resourceVersion) and is covered by `Fail`; stale reads
  are covered by `cache`. List and delete of one kind are one step as well.
- The sweep and the writer read through `cache`. `rollout` is the workload status
  as `isObjFullyDeployed` and the crash check read it: `StatusLag` covers both
  the delay of the controller that writes it and that of the informer.
- An update is refused when the hash in the cache is not the stored one. The code
  compares resourceVersions: an object that changed and changed back while the
  cache lagged would be refused there and is updated here.
- The status patch is always sent; the code leaves it out when it equals the
  status it read. With the same contents the patch changes nothing.
- The CR has one finalizer, the operator's. `updateFinalizers` writes the whole
  list; finalizers of others are not modelled.
- A Service, Ingress, PodDisruptionBudget, autoscaler or claim is there or not;
  its contents do not change. A node has at most one of each.
- Fields of the spec that go into pod templates besides the configuration are
  not distinguished. In particular the pod templates of a pass are built from
  the refreshed `m`, which may be newer than `snap`; the model has the effect
  of this on the flags and the generation only.
- Conditions ReplicaFailure and Progressing of a Deployment make the gate end
  the pass, as `Fail` may at that place.
- Replica counts are left out.
- Not in this module: the deletion branch and `deleteOrphanPVC` (`Claims`),
  `expandStatefulSetVolumes` and dynamic configuration (`DruidController`), a
  common ConfigMap built from extra ConfigMaps.

### DruidRollout

A status may be from before the last write of its workload when the gate reads
it, and be refreshed before the next workload is written. What the gate saw is
gone by then, so `DruidRollout` remembers it: `behind` holds the nodes that the
gate of this pass let through on a status about an earlier write. It adds no
behaviour. `RollingUnlessBehind` says that such a status is the only way past the
gate; `RollingByType`, without the exception, is what the documentation promises
and `stale_status` refutes.

### OrderedUpdate and the refinement

`OrderedUpdate` is what a reader may rely on without knowing the pass: it works
for one goal at a time, puts a thing in place only when the wanted things before
it are, removes unwanted things only when everything wanted is in place, and may
give up at any time. `DruidReconcile!Abstract` instantiates it: things are the
objects, goals the specs, `have` is `store`, `goal` is `snap` during a pass, and
`Precedes` is the order the code keeps: the common ConfigMap before everything,
node types in the order of `druidServicesOrder`, and the ConfigMap and Service of
a node before its workload. That the order holds is not obvious from the code, because a pass may stop after
every call and `updateFinalizers` changes `m` under it.

### Claims

State. `cr` with its finalizer and deletion mark; `sts` the replicas of the one
StatefulSet; `pods[i]` and `claims[i]`; and the locals of the pass: the CR `m`,
whether it is still current (`r.Update` is refused otherwise), the replicas, the
two lists and the claims still to be looked at. `up` and `used` are history
variables for the properties. The `deletionTS` label is the age of the mark, and
`Tick` makes all ages grow, those in a list read before included.

| Action | Code |
|---|---|
| `Reconcile`, `updateFinalizers`, `applyStatefulSet` | the pass as far as claims are concerned, with the returns of a rolling deploy |
| `listPods`, `listOrphans`, `orphan(i)`, `finishOrphans` | `deleteOrphanPVC`, `checkPVCLabelsAndDelete`, `setPVCLabels` |
| `listClaims`, `deleteSts`, `deletePVC(i)`, `release` | `executePVCFinalizer`, `deleteSTSAndPVC`, the update that removes the finalizer |
| `Fail` | a failed call or a restart |
| `UserEdit`, `UserDelete` | the user |
| `CollectGarbage`, `CreateClaim`, `CreatePod`, `StartPod`, `StopPod`, `ReleaseClaim`, `PodFails`, `Tick` | external |

Deletions name a claim and not its version, so that they hit a claim that was
deleted and created again; a claim in use stays, marked as deleted, until its
pod is gone. Reductions: the reads are current, but the lists are made by
separate steps; StatefulSets are listed and deleted in one step; one StatefulSet
with one template; a label that is no number is left out; the update of a label
is refused when the claim differs from the listed one, so that a claim deleted
and created again with equal contents is not a conflict. `Prompt` says that a
pass, and the replacement of a pod, take less than a unit of time. It is set in
`orphan_needed` only, where it shows that the violation needs no slow pass.

### VolumeExpansion, DynamicConfig, DruidController

`VolumeExpansion` has the steps of `expandStatefulSetVolumes` and
`scalePVCForSts` for one StatefulSet: the readiness check, the reads, and for
each template the comparison, the orphaning delete and the patches of the
claims; then the StatefulSet is created or updated. `DynamicConfig` has GET,
comparison and POST for the overlord and the coordinator. `DruidController`
composes them as `Reconcile` does: any error of the first ends the pass before
the second. A list or a read of `scalePVCForSts` that fails returns nil, and the
pass goes on (`readFails`).

External: the API server refuses to change the templates of a StatefulSet, to
shrink a claim, and to grow one whose class does not allow it (`allow`, chosen
initially); a StatefulSet deleted with its pods orphaned is there until the
controller has released them; Druid replaces the overlord's configuration,
merges the coordinator's, and drops keys it does not know (`Merged`).

`JsonIncludes` is the comparison. A JSON value is a leaf, an object or a list; of
a list only the set of items matters to `sliceIncludes`. `Objects` is the set of
objects that may occur, nested ones included, and `Depth` how deep each is
nested; both are constants, and what `json.Unmarshal` returns is an instance. The
recursion of the code is a recursive function on pairs of objects (`included`),
whose body is `includesBody`; `includes` applies it. The reference definition,
`Covers`, says that laying the desired value over the current one changes
nothing. TLC checks it on the 120 objects that can be put together from the keys
and values of the specs (`JsonObjects`), which Druid's merging does not leave.

Reductions: the templates are those of the node (templates of the cluster spec
come before them in the StatefulSet and shift the index by which sizes are
compared); the storage class is not read, since `isVolumeExpansionEnabled`
compares two pointers, which always differ; reads are current; the lookup of the
router Service and of the credentials is part of the GET.

### Ingestion

State. `obj` is the DruidIngestion in the API server: spec, finalizer, deletion
mark and the four fields of the status the code reads or a user looks at
(`taskId`, `currentIngestionSpec.json` as `cur`, `rules`, `type`). `cache` is
the sequence of its versions the informer has still to go through: the first,
`seen`, is what a read returns, the last is `obj`, and `Deliver` drops the first.
`di` is the copy of the pass. Resource versions are reduced to `fresh`, whether
`di` is of the current one, which is all that decides whether `r.Update` is
refused. `applied` is the history of the specs the user has applied, read by the
bound on edits and by the properties only. `tasks`, `compaction` and `rules` are what
Druid has. A supervisor's id is its data source, so that a second POST replaces
it; a batch task gets a new id with every POST. A task that has been shut down
keeps its spec and is no longer `up`.

| Action | Code |
|---|---|
| `Reconcile` | `Reconcile`, and `do` and `CreateOrUpdate` up to the first call |
| `CreateTask`, `CreateCompaction`, `CreateRules`, `CreateRecord` | `CreateOrUpdate` for a resource without a task |
| `UpdateTask`, `UpdateRecord`, `Compaction`, `CompactionRecord`, `Rules`, `RulesRecord` | `CreateOrUpdate` for a resource with one |
| `Finalize`, `Release` | the rest of `do`: adding the finalizer; shutdown, then removing it, also after a refused shutdown (`pc` is then "releaseAnyway") |
| `Fail` | a call without an answer, a refused patch, an error status from compaction or rules, a restart |
| `UserEdit`, `UserDelete`, `Deliver` | environment |

`makePatchDruidIngestionStatus` is one step: `patchStatus` overwrites `di` with
the cached copy, and the patch carries only the fields that differ from it, so
that a field equal to an old copy is not sent (`MergePatch`). The spec recorded
is the one `di` had before, the rules are those it has after.

Compaction settings are JSON objects and compared with `includes` of
`JsonIncludes`, as the code does: settings are posted unless Druid has all of them
already. A key that is taken away is therefore never taken away in Druid.
Contents may name different data sources. A resource can be edited while it is
being deleted, as the API server allows.

Reductions: the GET of the compaction settings and their POST are one step, since
nobody else writes them; contents and rules are opaque values; Druid refuses some contents and
never settings or rules (a refusal of those ends the pass, as `Fail` does); the
type of a resource does not change, and the types `getPath` has no path for are
left out; a batch task does not end by itself; a deleted resource is not created
again; the `suspend` field is read nowhere.

Each operator marked "Mutant" in the modules is a deliberately wrong
version of the definition after it. No definition uses them; replacing the
definition by its mutant makes TLC report the property named in `PROJECT.json`,
which shows that the property depends on the code it is about.

## Runs

Bounds: `MaxGen` edits of the CR (2 or 3 generations: creation at generation 1
is not gated, and 3 allows a change and the way back or a second change during
the first), `MaxFaults` faults (1: a failed call, a restart or a failing pod at
any place), one or two nodes (two tiers are needed for order; all properties
about one node do not need a second), two configurations. `CacheLag` and
`StatusLag` say whether reads and statuses may lag. No state constraint is
used, and no symmetry: the node keys differ by type.

| Run | Configuration | Checks | Result |
|---|---|---|---|
| `rolling` | a historical and a broker StatefulSet, the broker with a Service, node and common configuration change, statuses lag | `TypeOK`, `FinalizerBeforeStatefulSet`, `AppliedInv`, `ConfigBeforeWorkload`, `WrittenInOrder`, `RollingUnlessBehind` | holds (558,656 states) |
| `kinds` | one node changes kind and optional objects, goes and returns; an invalid spec; statuses lag | `SweepKeepsWanted`, `ReplaceBeforeRemove`, `ImplementsOrderedUpdate` | holds (475,481) |
| `converges` | a node of either kind, faulty configuration, OrderedReady pods crash, cache lag, one fault | `Converges`, `SweepKeepsWanted` | holds (261,179) |
| `stale_status` | as `rolling` | `RollingByType` | violated |
| `bad_state` | faulty configuration in a rolling deploy | `BadStateReported` | violated |
| `ingest` | Kafka and native-batch, two data sources, specs with and without compaction and rules, a refused one, edits and deletion in any order, cache lag, one fault | `TypeOK`, `TaskMatchesSpec`, `SupervisorMatchesSpec`, `StoppedBeforeReleased`, `SpecConverges`, `CompactionConverges` | holds (419,197) |
| `ingest_rules` | Kafka, rules | `RulesConverge` | violated |
| `ingest_task_id` | native-batch, specs with and without compaction and rules | `TaskMatchesSpec` | violated |
| `claims` | two replicas, scaled down and up, finalizer switched off and on, the CR deleted, one fault | `TypeOK`, `MountedKept`, `ClaimsGoFirst`, `Released`, `OrphanRemoved` | holds (643,509) |
| `orphan_needed` | two replicas, not scaled, three pod failures | `NeededKept` | violated |
| `controller` | two templates of equal size that grow, dynamic configurations edited, refused and changed by an administrator, two faults | `TypeOK`, `IncludesIsCovers`, `DeletedToGrow`, `Expanded`, `StatefulSetBack`, `DynamicApplied`, `PostsEnd` | holds (125,990) |
| `templates` | two templates of different size, one grows | `Expanded` | violated |

Deadlock is checked in every run of `DruidReconcile`: `Reconcile` is always
possible at the end of a pass. It is not checked in those of `Ingestion`, where
nothing is left to do once the resource has been deleted and released. `Claims`
goes on for ever because time does, `DruidController` because passes do.

Bounds of the other runs. `claims`: two replicas, so that one ordinal is kept and
one is not; three generations, so that a scaled-down StatefulSet can be scaled up
again; one fault at any place; a grace period of one unit, with ticks at any
point of a pass. `orphan_needed`: a grace period of two units and three failing
pods. `controller`: two templates (one more than the off-by-one mistakes need),
one ordinal, two sizes, three generations, two faults (a failed pass and a
disturbance from outside). No symmetry: ordinals and templates are ordered.

Bounds of the ingestion runs: `MaxEdits` specs applied (2 or 3; 3 allow an edit
during the pass that handles an edit, and a return to an earlier spec), at most
one fault, two data sources in `ingest` (one in the violated runs, which do not
need more). The supervisors with compaction settings are those of the second data
source, one of them accepted and one refused with fewer settings and with rules,
so that settings lose a key and plain edits of the first data source happen
beside them. `MaxLag` (1) bounds the versions the cache is behind
when a pass begins or the user edits; the writes of a pass go beyond it. One is
enough for a pass to begin before the patch of the last pass, or an edit, has
arrived; what is proved holds for any lag. `TaskIds` bounds the batch tasks Druid can start:
there are more ids than edits, so that a repeated POST shows, and a POST beyond
them does not happen (`SpecConverges` speaks of supervisors, which need no new
id).

`SupervisorMatchesSpec` and `SpecConverges` ask that no content comes back
(`NoReturn`) and that no compaction settings or rules are given (`Plain`); they
need no assumption on faults. Both conditions are needed:

- A content comes back. B is posted, the status patch fails, the user goes back
  to A: the status says that A is current, nothing is posted, and Druid runs B.
  Without any fault: the user applies A, B and A again, and the patch that
  records the second A is the difference to a cached copy that names A already,
  from before B was recorded. It leaves `currentIngestionSpec` out and the status
  goes on naming B, with the id of the task of A.
- Settings are given. The patch after a POST refreshes `di`; if the user has
  edited the spec meanwhile, the patch for compaction or rules of the same pass
  records the new content, which nobody has posted.

`TaskMatchesSpec` asks for `NoReturn` as well, and is checked on batch tasks
without compaction and rules because of `ingest_task_id`; in the same run,
supervisors have them.
`StoppedBeforeReleased` excepts one case, a shutdown that Druid refuses in the
very pass that removes the finalizer, since the code passes over the refusal.
Failed calls and restarts before that are not excepted. It speaks of the task the
status names; and of all supervisors while the specs keep to one data source
(`SameSource`). After a change of data source only the supervisor of the last one
is shut down, and a batch task that was replaced, or posted and not recorded, is
never shut down.
`CompactionConverges` promises that Druid's settings include the user's, in the
sense of `Covers`, and not that they are equal.

`Converges` asks for `forceDeleteStsPodOnError`: without it nobody replaces an
OrderedReady pod in a crash loop. It promises both the objects and that their
pods run them.

`Released` speaks of CRs whose spec is valid and does not disable the finalizer:
of the others the code does not remove it, since `verifyDruidSpec` and
`executeFinalizers` return first. `MountedKept` speaks of pods that are ready
when the pass begins, and `ClaimsGoFirst` of claims the pass has listed: a pod
that starts, or a claim that is created, after the lists is not seen.
`OrphanRemoved` asks that the CR has been edited, as the code does (`gen > 1`),
and rests on the fairness of the kubelet, which makes every pod ready in the end:
a pod that never is would block the removal.
`Expanded` and `DynamicApplied` ask that the spec can be reached at all: growing,
with permission of operator and storage class (a size that goes back while it is
being expanded leaves claims larger than their template and blocks the passes);
`DynamicApplied` also that no configuration is refused (a refused one for the
overlord hides the coordinator's), and, with `PostsEnd`, that Druid knows the
keys (others are posted again in every pass). `Covers` unites lists, as
`sliceIncludes` compares them: an item taken out of a list in the CR is not
posted.

### What the violated runs show

- `stale_status`. The historical StatefulSet is updated and the pass returns.
  The next pass finds its hash up to date, and a status in which the current and
  the update revision are both the old one, because the StatefulSet controller
  has not looked yet. `isObjFullyDeployed` says done, and the broker is updated.
  Comparing `status.observedGeneration` with `metadata.generation` would close
  the gap.
- `bad_state`. A pass that waits at the gate returns before the status patch.
  The condition `DruidClusterReady` of the last complete pass stays for as long
  as the rolling deploy is stuck.
- `ingest_rules`. Rules 1 are posted; the user changes them to 2 before the
  status patch, which records the refreshed rules. The next pass finds rules 2
  recorded as current and does not post them.
- `ingest_task_id`. After the patch with the new task id, `di` is the copy from
  before it. The patch for compaction or rules sends the id in that copy. The
  cache need not lag: it only has to have seen the first patch.
- `orphan_needed`. A claim is marked by a pass that runs before its pod exists,
  or while the pod is being replaced. The pod then runs. As long as any other pod
  is not ready, `deleteOrphanPVC` returns before it would remove the mark. When
  that other pod is ready and the claim's own pod is being replaced, the mark is
  old enough and the claim is deleted at once. Each wait is ordinary; it is the
  mark that outlives its reason.
- `templates`. The loop over templates patches every claim of the node to the
  size of the template at hand. The claims of the larger template are patched to
  the smaller size, which is refused, and the pass ends in an error before the
  growing template is reached, this time and every time.
  Checking that a claim belongs to the template would close the gap.

Seen in the code while modelling it, and not the subject of a run: a Deployment
counts as rolled out when `readyReplicas` equals `replicas` at its first
condition, old pods included; keys of one node type come in a new random order
in every pass, so that a rolling deploy may update two tiers of a type at a time;
an update of a workload for any reason sends the replicas of the CR, also those
an autoscaler has changed; an empty list is omitted from the merge patch of
the cluster status, so the old one stays; a DruidIngestion without compaction
settings is reported as CreateFail although its task was accepted, because
`UpdateCompaction` returns false when there is nothing to do; the supervisor of
an earlier data source, and batch tasks the status does not name, run on after
the resource is deleted; a key taken out of the compaction settings stays in
Druid; a claim created between the list of claims and the deletion of its
StatefulSet survives the CR (docs/features.md:54 says that any is deleted);
expansion is tried, and the StatefulSet deleted for it, also for storage classes
that do not allow it (docs/features.md:111 says that the operator checks).

### Fairness

`FairSpec` assumes weak fairness of the pass, of the informers and of the
workload controllers. The pass: `Reconcile` returns `RequeueAfter`, or an error,
which the work queue retries with a growing but bounded delay; each step of a
pass is a finite call. Informers deliver and workload controllers reconcile
without end; of the caches only that some stale entry is refreshed while there
are any, not that each is in turn. Nothing is assumed of the user, of faults (bounded by
`MaxFaults`), or of `PodFails`. No fairness is assumed of the order of node
keys: any order that respects types makes a pass complete. `FairSpec` of
`Ingestion` has weak fairness of the steps of a pass and of the informer, for the
same reasons; those of `Claims` and `DruidController` of the pass, of the
StatefulSet controller, the garbage collector and the kubelet, and of time. That
a step of a pass ends is an assumption on Druid where HTTP is concerned: the
clients of `dynamic_config.go` and of the ingestion controller have no timeout.

## Proofs

TLAPS proves for every set of nodes, specs, contents and configurations, every
bound, any number of faults, and with the lags as stated:

| Theorem | Statement | Needs |
|---|---|---|
| `TypeCorrect` | `TypeOK` and `PassInv` of `DruidReconcile` | nothing |
| `SweepSafe` | `SweepKeepsWanted` | nothing: any lag |
| `FinalizerFirst` | `FinalizerBeforeStatefulSet` | no spec disables the finalizer |
| `Applied` | `AppliedInv` | no stale reads |
| `ConfigFirst` | `ConfigBeforeWorkload` | no stale reads |
| `TypesInOrder` | `WrittenInOrder` | no stale reads |
| `ReplaceFirst` | `ReplaceBeforeRemove` | no stale reads |
| `RollingDeploy` | `RollingUnlessBehind` | nothing: any lag of reads and statuses |
| `Refinement` | `ImplementsOrderedUpdate` | no stale reads |
| `ClaimsCorrect` | `TypeOK` and `ClaimsInv` of `Claims` | lists are current when they are read |
| `MountedSafe` | `MountedKept` | lists are current when they are read |
| `ClaimsFirst` | `ClaimsGoFirst` | lists are current when they are read |
| `IncludesCorrect` | `includes` agrees with `Covers` on all objects | objects of finite depth |
| `ControllerCorrect` | `TypeOK` and `PassInv` of `DruidController` | nothing |
| `ComparisonCorrect` | `IncludesIsCovers` | nothing |
| `DeletesToGrow` | `DeletedToGrow` | nothing |
| `IngestionCorrect` | `TypeOK` and `CopiesInv` of `Ingestion` | nothing |
| `ReleaseSafe` | `StoppedBeforeReleased` | nothing: any lag, any data sources |
| `TaskMatches` | `TaskMatchesSpec` | batch specs have no compaction settings and no rules |
| `SupervisorMatches` | `SupervisorMatchesSpec` | nothing: any lag, any data sources |

The assumptions on the constants are those named in `DruidReconcile`, `Claims`,
`JsonIncludes`, `DruidController` and `Ingestion`. They say which set a constant
belongs to, and that `Nil` and `Common` are not values of something else; of
`Objects`, that nested objects are in it and less deep than the one they are in,
and that it is closed under the way Druid merges what is posted.

The argument. `PassInv` says where the locals of a pass stand: nothing is done
before the loop, everything is done after it, all nodes of an earlier type than
the current one are done, and a name has been recorded for everything handled.
With it, what `deleteUnusedResources` deletes was never named, and everything
the spec asks for was (`NamesComplete`): `SweepSafe` needs no more, which is why
it does not matter how old the reads are. The order of writes needs `AppliedInv`
(what the pass has handled is in the API server as the spec asks for it), which
depends on reads being current: with a stale read the writer may take an object
to be up to date that has been replaced or removed. `AppliedInv` is inductive
with `PassInv`, because only the pass itself writes objects. `FinalizerFirst`
needs `FinalizerInv`: once any copy of the CR shows the finalizer the CR has it,
and the loop is not entered before. `RollingDeploy` needs `GateInv`: a rolling
deploy has passed only StatefulSets that are rolled out or `behind` (`Through`).
At the gate, a status that says both revisions are the same is either about the
last write, and then the StatefulSet is rolled out, or it is not, and then the
node is remembered. `GateInv` survives `PodFails` and `CrashLoop` because they
change readiness and not the revisions, and survives `updateFinalizers`, which
may turn on `rollingDeploy` in mid-pass, because it comes before the loop. It does
not depend on the lag of reads, because a pass writes a workload only before the
gate of that workload.

`Refinement` maps every step. Steps of the environment and of the status leave
`store` and the goal alone, and the end of a pass is `GiveUp`. A write is a `Put`:
what precedes it in a node is in place by `AppliedInv`, and nodes of earlier
types are by `PassInv` and `AppliedInv`. The sweep is a `Remove`: by
`NamesComplete` it takes only unwanted objects, and by `AppliedInv` everything
wanted is in place. With stale reads the theorem does not hold, for the reason
`AppliedInv` does not.

`MountedSafe` and `ClaimsFirst` rest on `ClaimsInv`: a pod that has been ready
since the pass began is ready, and therefore in the list of pods, whenever that
list was made; a pass in the deletion branch works on a CR that is being deleted
(nothing undoes a deletion); and once it deletes claims the StatefulSet is gone
and those it has looked at are deleted or wait for their pod. The last part
needs that no controller creates a claim again, which is why `deleteSts` comes
first in the code.

`ReleaseSafe` has to show that the copy from which the finalizer is removed names
the task that runs. `CopiesInv` says how copies lag: a task id that is in one of
them is in every newer one, a copy counted as `fresh` is the object, and a pass
that goes through the update branch began with a task id. `ShutdownInv` adds that
a fresh copy at the end of a pass has an id: a pass that created a task has
patched the status, and with that its copy is no longer fresh and its Update is
refused. The refusal the code passes over is thus what makes it safe. For the
supervisors `ShutdownInv` says that each is of a data source that was applied
(`Sources`), and that every copy, and the last answer of Druid, names only such
data sources: with one of them, the supervisor that runs and the one in the
status are the same.
`CopiesInv` is also what makes `TypeOK` inductive: a merge patch against an old
copy could otherwise leave a status with a spec and no task.

`TaskMatches` has to show that a status patch, which is the difference to an old
copy, still sends the task id and the content together. The id is new with every
POST, so it is always sent (`RecordInv`: no version on its way names it). The
content is left out only if the cached copy names it already, and then it must be
what the status names: `OrderInv` says that contents are recorded in the order in
which they were applied, that no copy names a later one than the status, and that
the status names none later than a copy asks for. A content that does not come
back has one place in this order, so the two bounds meet. `OrderInv` is about the
versions on their way one by one, which is why `cache` is a sequence. This holds
across failed passes: a task that was posted and not recorded is forgotten, and
its id is never used again.

`SupervisorMatches` cannot argue from ids, since a supervisor keeps its id and a
failed pass leaves it running something no status names. `SupervisorInv` orders
the supervisors instead: what one runs is not ahead of what any copy asks for,
and not behind what any version says is recorded. When the status names the
content of the spec, both bounds are this content.

`IncludesCorrect` is by induction over the depth, written as an argument about a
least counterexample (`Least`), because the library's induction theorems take an
operator as a parameter. It is used twice: first to show that the recursions
define functions at all, that is, that `included` and `overlay` are what their
bodies say, which for the code is that the recursion ends; then, that the two
agree. A desired object that is laid over a current one leaves an entry alone if
and only if it is equal, or both are objects and the same holds inside, or both
are lists and one has the items of the other. These are the cases of `includes`
because an object or a list never equals a value of another kind.
`ComparisonCorrect` follows with `TypeOK`, which says that whatever was posted,
by whom and over what, is an object.

`DeletesToGrow` needs that the StatefulSet that is deleted is the one whose sizes
were compared, although the reads, the list of claims and the patches of earlier
templates lie in between. The `PassInv` of `DruidController` says that while the
pass loops over the templates a StatefulSet that is there has the sizes that were
read: it may be deleted and go, but only the pass creates or updates one, and
not before the loop is over.

Only model-checked: the liveness properties (`Converges`, `Released`,
`OrphanRemoved`, `Expanded`, `StatefulSetBack`, `DynamicApplied`, `PostsEnd`,
`SpecConverges`, `CompactionConverges`), because fairness is out of the prover's
reach. The violated properties are refuted on small instances, which is all a
refutation needs.

## Not modelled

- The work queue, its predicates (`predicates.go`) and the deny list. They decide
  which CRs are reconciled; of a CR that is, the modules have the fairness.
- How objects are built (pod templates, ConfigMap contents, annotations,
  labels): a function of the CR, which the model has as a hash. This leaves out
  the maps builders share and write to, and the second read of extra ConfigMaps.
- Replica counts and autoscalers' writes to them.
- One state machine for all of the pass: `DruidReconcile`, `Claims` and
  `DruidController` each keep the steps of the pass that touch their state. They
  share no variable but the CR and the StatefulSet, and a pass of one is a pass
  of the others with steps left out; the product is out of TLC's reach.
- Several StatefulSets, or templates of the cluster spec, in `Claims` and
  `DruidController`; a change of type in `Ingestion`.
- Building of HTTP requests, credentials, events, logging, metrics, process
  start, the dependency managers (lookups without state) and generated code.
