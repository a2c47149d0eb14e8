# A TLA+ verification of the Mattermost operator

This directory holds TLA+ models of the Mattermost operator, the TLC
configurations that check them on small instances, and TLAPS proofs of the
results that matter most for every instance. `PROJECT.json` maps every
definition to the lines it models.

## The system

The operator is one process (`main.go`) with three controllers. Each has a work
queue of resource names, one or more workers, and a client whose reads come
from an informer cache and whose writes go to the Kubernetes API server. The
API server accepts an update only if it carries the newest resource version.
Everything a controller knows between two passes is in Kubernetes, with two
exceptions, and both are where the hard questions are: the rate limiter's
counter of the Mattermost controller and the `state` field of the restore
controller.

| Component | State | Operations | Talks to |
|---|---|---|---|
| Mattermost controller, reconcile loop (`controllers/mattermost/mattermost/controller.go`, `utils.go`) | `Status.State` (empty, reconciling, ready, stable) and `ObservedGeneration` of each resource; a counter under a mutex | `Reconcile`: limit, mark reconciling, defaults, checks, health, final status | API server, its own limiter |
| Image upgrades (`mattermost.go`, `pkg/resources/update_job.go`) | the deployment's image, the job `mattermost-update-check` | compare, launch, restart, wait, apply, clean up | API server, the Job controller |
| Owned objects (`mattermost.go`, `pkg/resources/create_resources.go`) | services, ingresses, deployments, accounts and roles in the namespace | get, create if absent, compare, update, delete, delete and create again | API server, through the cache |
| Health check (`health_check.go`, `pkg/mattermost/healthcheck`) | none | counts updated replicas, finds the endpoint | API server, uncached |
| Database and file store (`database.go`, `file_store.go`) | secrets, PVC, MySQL and MinIO resources | get or create, compare, update | API server |
| ClusterInstallation controller (`controllers/mattermost/clusterinstallation`) | `Status` with blue and green names, spec defaults | the older loop, blue/green, canary, migration | API server |
| MattermostRestoreDB controller (`controllers/mattermost/mattermostrestoredb`) | `Status.State`, `Status.OriginalDBReplicas`, the reconciler's `state` field | scale the database to zero, delete claims, scale up | the ClusterInstallation's spec, and through it the MySQL operator |
| Resource helpers (`pkg/resources`) | none | create if absent, update if different, delete | API server |
| Defaults and sizes (`apis/mattermost/v1alpha1`, `apis/mattermost/v1beta1`) | the spec itself, which a pass stores back | fill in what is not set, apply a size and erase it | the controllers |
| Generators and patches (`pkg/mattermost`, `pkg/components`, `apis/mattermost/v1beta1/patch_apply.go`) | none | pure functions from a spec to objects | - |
| Conversion (`clusterinstallation/conversion.go`) | none | a ClusterInstallation as a Mattermost | the migration |

What makes each correct:

* *Reconcile loop*: never more than `MaxReconciling` installations unsettled;
  the counter is exact on every way out; stable means the newest spec was
  seen; every installation settles when it can.
* *Upgrades*: a running installation gets an image only after a job of its own
  ran it cleanly; an upgrade never hangs on a job that nobody will finish.
* *Restore*: finished means restored; claims go only while the database is down;
  the database comes back.
* *Migration*: pods keep serving; the migration completes.
* *Conversion*: the converted installation runs what the old one ran.
* *ClusterInstallation*: no object is left behind by a change of names.
* *Owned objects*: whatever the cache showed while they were written, they come
  to be what the newest spec asks for.
* *Health check*: the pods it counts are pods of the template that the pass
  asked for, and it finds the service or ingress it takes the address from.
* *Defaults*: the spec settles, and what the user writes is not taken back.
* *Generators*: a deployment selects its own pods and no others; each host leads
  to the pods of the app; the environment names each variable once and in
  order; credentials that were made up are never replaced.

The behaviours that are hard to test are listed in `PROJECT.json` under
"hazards", each at its line.

## Modules

### ReconcileLimit and Admission

`ReconcileLimit` models `MattermostReconciler.Reconcile`. `versions[m]` is the
sequence of versions of resource `m` that the cache has not moved past: its head
is what a read returns, its last element is what the API server holds; it has at
most `CacheLag + 1` elements. A version is the `Generation` of the spec,
`Status.State` and `Status.ObservedGeneration`. An edit of the spec, by a user or
by `updateSpec`, moves the generation on and keeps the status; a status write
replaces the status of whatever the API server holds and keeps the generation.
`worker[w]` is a pass: where it is, its local copy of the resource (generation and
status), whether that copy's resource version is still the newest, the
`ObservedGeneration` it means to write (`reported`), and whether it holds a slot.
`reported` is the generation first read (controller.go:120) until the health check
builds a new status from the generation the copy has by then
(health_check.go:22). `processing` is `nonReconcilingBeingProcessed`,
`listed` what the holder of the mutex read.

| Action | Code (`controller.go` unless noted) |
|---|---|
| `Pick`, `PickAbsent` | Get, 87-97 |
| `LockAndList`, `ListFails` | `startNonReconcilingMMProcessing`, 220-229 |
| `Admit`, `Reject` | 235-241 and 103-106 |
| `MarkReconciling` | 117-128 |
| `SpecUpToDate`, `UpdateSpec`, `UpdateSpecFails`, `UpdateSpecLost` | 130-156 |
| `Report` | every `updateStatusReconcilingAndLogError` and the not-ready exit, 135-189, 203 |
| `NotHealthy`, `Healthy`, `HealthyWriteFails` | 191-205, `health_check.go` |
| `Finish` | the deferred `decrementProcessing`, 107-114 and 252-256 |
| `CreateCR`, `EditCR`, `DeleteCR`, `Deliver`, `OwnedEvent`, `Restart` | the user, the informer, `SetupWithManager`, `main` |

A write is `stored`, `rejected` (conflict, deleted, any error), `lost` (stored,
but the call returns an error) or `skipped` (`DeepEqual`). Only a copy with the newest resource version is stored. The mutex is
held from `LockAndList` to `Admit` or `Reject`.

`Admission` is what the limiter promises, without workers, caches or a counter:
clients enter one at a time while fewer than `Limit` are inside. The mapping is
`admitted <- Reconciling \cup Held`: the installations that are reconciling or
ready in the API server, or whose pass holds a slot.

### UpdateJob

One namespace with its Mattermost resources, their deployments and the one job
`UpdateJobName`. Every API call is a step, so a pass can be interleaved with
another installation's, with the Job controller, with an edit, or cut short.
`deployment[m]` and `job` are version sequences as above. `pass[m].current`
says that the deployment read is the newest one, which `ResourceHelper.Update`
needs. `verified` is a history variable: the (installation, image) pairs some job
ran to the end without a failed pod. A pass starts from the live spec; a stale
one would only delay it. `Verdict` is `checkUpdateJob` as a table.

Kubernetes' Job controller is external: pods may fail, a job may complete with
or without failed pods, or give up after its backoff limit. It sets
`CompletionTime` only when a job completes.

### RestoreDB

The restores of one ClusterInstallation, which name a backup. `state` is the
reconciler's field, `pass` the single worker, `ci` the versions of the
installation's `Spec.Database.Replicas`, `statefulset` and `pods` what the
ClusterInstallation controller and the MySQL operator make of it, `seen` the pods
that the informer cache shows. A pass reads `ReadyReplicas` of the StatefulSet and
then the pods. Of those in the cache any may be ready or not, so that the first
check may pass while pods remain; a `ReadyReplicas` that is older than the pods in
the cache ends the pass early, as `CallFails` does. `predating`
(history) holds, per restore, the claims of the pods it found and has not
deleted; `scaledBy` (history) is the restore that last wrote zero. The update
of the MySQL secret is part of `CallFails`: what it writes is not tracked.

### Migration

One ClusterInstallation with `spec.migrate` set, and what it becomes.
`deployment` and `mattermost` are version sequences as above; `pass` is where
`HandleMigration` is; `oldPods` and `newPods` are the pods of the two label
sets, and `service` is the set the service selects.

| Action | Code (`clusterinstallation/migration.go` unless noted) |
|---|---|
| `Begin` | 27-65: no resource yet, one that is not stable, one that is |
| `Compare` | `isDeploymentMigrated`, 185-199, and the Get of `recreateDeployment` |
| `DeleteDeployment`, `Gone`, `CreateDeployment` | `recreateDeployment` and `waitForDeploymentDeletion`, 121-183 |
| `CheckReady` | `isDeploymentReady`, 201-232 |
| `CreateMattermost` | 112-118 |
| `CleanupReplicaSets`, `RemoveInstallation` | 234-254 and 73-78 |
| `CallFails`, `Refused` | every error return, the timeout of the wait among them |
| `SwitchService`, `ReplaceDeployment`, `Settle`, `Unsettle` | passes of the Mattermost controller |
| `Collect`, `StartPods`, `DeliverDeployment`, `DeliverMattermost`, `Restart` | Kubernetes, the informers, `main` |

New pods that are ready stay ready: losing a pod for its own reasons is not what
the migration has to answer for. Reverting a migration by hand and
installations that cannot be converted are left out.

### OwnedObjects

The API calls of a pass of the Mattermost controller on the objects it owns, one
step per call, for the three kinds that differ in how they are handled: the
service (deleted and created again when its type changes), the ingress (deleted
when it is not wanted) and the deployment (updated). `mattermost` and
`objects[kind]` are version sequences as above: the helpers read the head, the
API server holds the last. `pods[t]` is the number of available pods of the
replica set of template `t`, `seen` the templates whose replica set its
controller has observed, `address` whether the load balancer of the service has
an address, `pass` where the pass is and what it has read.

| Action | Code (`controllers/mattermost/mattermost` unless noted) |
|---|---|
| `Begin` | Get of `Reconcile`, `controller.go` |
| `Ensure`, `Remove` | `Create*IfNotExists` and `Delete*`, `pkg/resources/create_resources.go` |
| `GetMisses`, `Unchanged`, `Update` | the Get after it in `checkMattermost*`, `mattermost.go`, and `ResourceHelper.Update` |
| `DeleteService`, `Recreate` | `checkMattermostService` for a change of type |
| `Rollout`, `Count` | `CheckReplicaSetRollout`, `pkg/mattermost/healthcheck`: its two reads |
| `Conclude` | `checkMattermostHealth` and the end of `Reconcile` |
| `Deliver`, `DeliverMattermost` | the informers |
| `ObserveDeployment`, `ObserveReplicaSet`, `StartPod`, `StopOldPod`, `AssignAddress` | Kubernetes (external): rollout of a deployment, load balancer |
| `EditSpec`, `DeleteObject`, `PodFails`, `CallFails`, `Restart` | users, nodes, the API server, `main` |

The second Get that the helper `DeleteService` makes is taken to find what the
first one did. Of the writes to the Mattermost only the status at the end of a
pass is here; the others, and the limiter, are in `ReconcileLimit`. The image
does not change; that is `UpdateJob`.

### Manifests and the modules under it

`Manifests` asks what the passes of both controllers make of a spec. A pass is
one step, so that the state is the data: `mm` and `ci`, the Mattermost and the
ClusterInstallation (a set of at most one each), `objects`, the objects in the
namespace by kind and name, `recorded`, the blue and green names in the status,
`patches`, the status of `spec.resourcePatch`, `drawn`, a number that tells apart
the secrets made up, `pass`, how the last pass ended. `last`, `edits`, `origin`
and `handover` record the last edit and the migration for the properties.

| Action | Code |
|---|---|
| `ReconcileMattermost`, `RejectMattermost` | `Reconcile` of the Mattermost controller: defaults and sizes stored, database, file store, licence, owned objects; the error of `SetDefaults` |
| `ReconcileClusterInstallation`, `RejectClusterInstallation` | the same for the older controller: database, MinIO, app, blue/green, canary |
| `Migrate`, `RemoveInstallation` | `tryToMigrate`; the deletion of the ClusterInstallation and the garbage collector |
| `EditMattermost`, `EditInstallation` | a user changes one field to one of the values of the instance |
| `MinioOperator` | the headless service of a MinIO instance (external) |

A pass ends at its first error and keeps what it had done: each check returns a
`Stage`, the objects it ensures and its result, `{}` for an error.

| Module | Models |
|---|---|
| `ApiTypes` | the vocabulary: a Go pointer is a set of at most one element, the empty string is `Unset`, a map is a function; quantities, labels, annotations |
| `Sizes` | the table of sizes, `clusterinstallation_sizes.go` |
| `MattermostSpec`, `ClusterInstallationSpec` | the two specs: `SetDefaults`, `SetReplicasAndResourcesFromSize`, names, labels, hosts |
| `PodParts` | environment variables and their merging, probes, licence, ports |
| `Generators`, `GeneratorsV1Alpha` | the objects of the two kinds of installation |
| `Patches` | JSON patches, forbidden paths and their status |
| `Conversion` | `ConvertToMM` field by field |

Values that are only copied into a pod (affinity, tolerations, DNS, security
contexts) are one opaque value per group. One aliasing matters and is kept: the
label functions write into the map of `spec.resourceLabels` itself
(`SharedLabels` in `Generators`).

## Runs

| Run | Instance | Shows |
|---|---|---|
| `reconcile_limit` | 3 installations, 2 workers, limit 2, no lag, 2 generations | limit, exact counter, `StableSeesSpec`, refinement of `Admission` |
| `stale_cache` (violation) | the same, lag 1 | the limit is exceeded through a stale list |
| `settles` | 2 installations, 1 worker, limit 1, lag 1, 2 generations | everything settles, and `StableSeesSpec` with stale reads |
| `update_job` | 1 installation, 3 images, lag 1 | verified upgrades, and they complete |
| `shared_job` (violation) | 2 installations, 2 images | one is upgraded on the other's job |
| `failed_job` (violation) | 1 installation, 2 images | a job that gave up is waited for for ever |
| `restore_db` | 1 restore, 1 replica, lag 1 | claims go only from a database that is down, and it comes back |
| `not_restored` (violation) | 1 restore, up to 2 replicas | a finished restore that deleted nothing |
| `migration` | 1 installation, lag 3 | no downtime, and the migration completes |
| `owned_objects` | 3 specs over 2 templates, 1 replica, lag 1, 2 disturbances | the health check counts the right pods, and the objects converge |
| `manifests` | one installation of either kind, 2 edits out of 36 values of 16 fields (Mattermost) and 25 of 11 (ClusterInstallation) | defaults, labels, hosts, environment, credentials, blue/green, patches, conversion |
| `lost_secret` (violation) | the same, no edits | the database's secret goes with the ClusterInstallation |

Why the bounds are enough for the cases that matter: three installations and two
workers with room for two are the least with which two passes compete for the
last place while a third installation is inside; two generations of a spec
(`MaxGeneration`; a resource that is created again starts from the first) are the
least that tell the one a pass saw from the one the API server holds; three images allow an edit
during an upgrade to an image that is neither the old nor the new one; a lag of
one write is the least that separates what was written from what is read, and
one replica separates zero from more. For the migration a lag of three is the
least at which the cache shows the old deployment while the new one is live
(deleted, collected and created are three writes): a second pass then deletes
the new deployment by its name. There, counters need no bound: passes, versions
and slots are finite by themselves.

For the owned objects two disturbances are the least that combine a change with
what makes it hard (an edit while the cache is behind a deletion, a second edit
during the rollout of the first, a restart between deleting and creating the
service), and the three specs differ in every kind of object: with and without
an ingress, either type of service, two templates. For the manifests two edits
reach every pair of values of two fields (a file store and a load balancer, a
size after replicas, blue/green turned on and off again), each before or after a
pass; the values were chosen one for each branch of the generators and defaults.

Deadlock is checked in the models that never stop. `owned_objects`, `manifests`
and `lost_secret` bound the edits and disturbances and come to rest when the work
is done, so there it is not: in `owned_objects` the liveness property `Converges`
says that they rest in the right state only.

What the properties except, and why:

* `DownWhileRestoring` excepts a pass whose installation was written since it was
  read: then its own write is refused, and what somebody asked for in the
  meantime stays. That a pod may come up on a claim that such a pass deletes is
  not excluded.
* `EditSticks` is about edits after a pass that got through, and about what the
  edit set: `HasEdit` and `HasCIEdit` say field by field which gaps a pass may
  fill in (`FilledIn`), and every other field must be as written.
* `RolloutCounted` excepts a pass that read the deployment from a cache that was
  behind: it may have compared with a template that is no longer there, and
  asked for nothing. `Converges` says that this does not last.
* `HealthCheckFindsEndpoint` excepts installations with labels in
  `spec.podTemplate`: the health check looks services and ingresses up by the
  labels of the pods, which only the pods have.
* `PodsSelected` covers labels of a Mattermost under the operator's own keys. The
  labels of a ClusterInstallation are written over the operator's own keys, and the
  instance gives it none of those.
* `BlueGreenLeavesNothing` is a property of the steps: what a pass that gets
  through without blue and green leaves under the names that were recorded when it
  began. Names that only failed passes used, or that were given up while the
  feature stayed on, are recorded nowhere, and their objects stay.
* `EnvWellFormed` looks for the user's variables in the deployments that the spec
  asks for (`Running`): a canary that is turned off is never deleted
  (`canary.go:9-32`) and keeps the environment it had.
* `PodsKept` (the pods), `SettingsKept` (their environment, volumes and init
  containers), `StoresKept` (the database and MinIO) and `AddressKept` (service and
  ingress) compare what a migrated Mattermost gets with what the
  ClusterInstallation had. `SettingsKept` and `StoresKept` except what the
  conversion drops: a secret of the user's for a database or MinIO that the
  operator runs (`SecretDropped`). `StoresKept` also excepts replicas that are not
  positive, such as the 0 of a database that waits for its restore, which the
  conversion leaves to the defaults. `SettingsKept` compares the environment without
  the variables that the two kinds set differently by design (`Rewritten`), and
  `AddressKept` the annotations without those that the new controller refuses
  (`sanitizeIngressAnnotations`).

The mutants of `PROJECT.json` are plausible faults (operators marked "Fault" in
the modules); each is caught by the property it is paired with.

### The violations

* `stale_cache`. A pass writes `reconciling`, the checks fail, and the pass gives
  its slot back. The informer has not delivered the status yet, so the next
  pass counts neither. The comment at `controller.go:111-112` rules this out.
* `shared_job`. `m1` launches the job for an image, it completes; `m2`, which
  wants the same image, fetches the job by its constant name and updates its own
  deployment.
* `failed_job`. The job's pods fail until the backoff limit; `CompletionTime`
  stays nil; every later pass says "update image job still running".
* `not_restored`. The first restore of a process: `restoreMM.Status.State` and
  `r.state` are both empty, so nothing is recorded, the loop over the claims
  is empty, the database is scaled to one replica and the restore finished.
* `lost_secret`. A pass of the ClusterInstallation makes up the passwords of its
  MySQL and owns the secret. After the migration the Mattermost controller finds
  the secret by its name and leaves the owner as it is. When the
  ClusterInstallation is deleted the secret is collected with it, and the next
  pass makes up passwords that the running database does not know.

### Fairness

* Workers keep running (WF of a worker's steps), informers keep delivering
  (WF). The work queue is first in first out, so a queued key is not passed
  over for ever (SF of `Pick`). `sync.Mutex` is starvation free (SF of
  `LockAndList` and `Finish`).
* A job's pod ends, the MySQL operator follows the spec, the garbage collector
  collects, pods start, the Mattermost controller passes (WF).
* In `OwnedObjects` the operator takes its steps, the caches catch up, the
  Deployment controller and the load balancer do their work (WF of each).
  Disturbances are bounded by `MaxDisturbances`, and `Converges` is
  `<>[]Converged`.
* Elsewhere liveness is stated as `<>[][Ordinary]_vars => ...`: disturbances (failing
  calls, edits, restarts, unhealthy installations) may happen any number of
  times, but stop. Nothing is assumed about what state they leave behind, with
  one exception: `MigrationCompletes` allows `Stranded`. A failure or restart
  between deleting the deployment and creating it again leaves nothing to copy
  the spec from, and every later pass fails; the old pods go on serving
  (`NoDowntime` holds there too), but somebody has to create a deployment.

## Proofs

`ReconcileLimitProofs` proves, for any finite sets of installations and
workers, any limit and any cache lag unless stated:

| Theorem | States | Assumes |
|---|---|---|
| `TypeCorrect` | `Spec => []TypeOK` | - |
| `SlotsAccounted` | `Spec => []SlotAccounting` | - |
| `LimitHolds` | `Spec => []LimitRespected` | `CacheLag = 0` |
| `LimiterRefines` | `Spec => ImplementsAdmission` | `CacheLag = 0` |
| `StableMeansObserved` | `Spec => StableSeesSpec`, for any number of generations | - |

`SlotAccounting` is not inductive: a decrement keeps `processing` equal to the
number of held keys only if no two passes work on the same key (`KeysDistinct`),
busy passes have a key (`BusyKeyed`) and only passes beyond the limiter hold a
slot (`SlotShape`, `OneListing`). Together they are `SlotInv`. `LimitRespected`
needs more (`LimitInv`): while the mutex is held, what was listed and the slots
held cover every unsettled installation (`ListingCovers`: in the meantime nobody
can become unsettled without a slot, nor give one back, because that takes the
mutex), and a pass that skipped the limiter works on an installation that is
still unsettled, or its next write is bound to be refused
(`SlotlessUnsettled`). `CacheLag = 0` is used where the resource is read and
where the list is taken, and nowhere else; run `stale_cache` shows that it cannot
be dropped.

`StableSeesSpec` compares the generation in a stable status with the one the API
server holds at that moment, and so rests on what a pass knows of it
(`CopiesTrue`, with `SlotInv` in `GenerationInv`): a copy whose resource version
is still the newest has the live generation. That holds when the pass begins only
if the cache is not behind, survives the pass's own `updateSpec` because the
answer brings the new generation along, and survives the other workers because no
two passes share a key. `checkMattermostHealth` then takes the generation from the
copy, not from the status copied before `updateSpec`.

`MigrationProofs` proves, for any cache lag, `MigrationTyped`
(`Spec => []TypeOK`) and `MigrationServes` (`Spec => []NoDowntime`).
`NoDowntime` is not inductive: that the service can be switched safely rests on
the new pods having been ready before the Mattermost resource was announced
(`ReadyFirst`), and that the old pods can go rests on the service having been
switched before the resource was stable in any version the cache may still
show (`SwitchedFirst`). With `TypeOK` they are `ServingInv`.

`OwnedObjectsProofs` proves, for any templates, specs, replicas, cache lag and
number of disturbances, `OwnedTyped` (`Spec => []TypeOK`) and
`HealthCheckCounts` (`Spec => RolloutCounted`). Neither is inductive, and the two
rest on one invariant, `OwnedInv`:

* `MattermostInv`: no older version of the resource has a higher generation than
  the live one or equals it, and neither has what a pass read. A status write is
  accepted only when the pass read the live version, and then the cache holds
  nothing older, which is what bounds the versions in `TypeOK`.
* `VersionsInv`, `RecreateInv`: how far each kind of object can be ahead of the
  cache at each point of a pass. Between deleting the service and creating it
  again nobody else creates one.
* `DeploymentInv`: the revision that an observed deployment shows is its
  template.
* `AskedInv`: while a pass is at its health check, and did not read the deployment
  from a cache that was behind, the live deployment (if it was not deleted
  meanwhile) has the template the pass asked for: no other pass writes it. With
  `DeploymentInv` the revision read, and so the replica set counted, is that of
  the spec the pass read.
* `ClusterInv`: no replica set has more pods than asked for.

`UpdateJobProofs` proves, for any images and cache lag and, unless stated, any
number of installations that share the one job:

| Theorem | States | Assumes |
|---|---|---|
| `UpgradeTyped` | `Spec => []TypeOK` | - |
| `UpgradesTried` | `Spec => TriedUpgrade`: a running deployment gets an image only after a job of the namespace ran it without a failed pod | - |
| `UpgradesVerified` | `Spec => VerifiedUpgrade`: ... a job of that installation | no two installations in the namespace |

Run `shared_job` shows that the assumption cannot be dropped; `UpgradesTried` is
what remains true without it. Both follow from `UpgradeInv`: every version of the
job that a pass can still read, the outdated ones in the cache included, is
entered in `verified` if it ran to the end cleanly (`JobsHonest`), so that a pass
about to apply an image found one that is (`ApplyTried`: nothing is ever removed
from `verified`, so a job that is deleted meanwhile does no harm), and only a pass
whose job is disabled goes past it (`RollDisabled`). The types need `Imaged`: a
pass beyond its first step has an image.

`RestoreDBProofs` proves, for any restores, number of replicas and cache lag,
`RestoreTyped` (`Spec => []TypeOK`) and `RestoresDown`
(`Spec => []DownWhileRestoring`). The invariant, `DownInv`, is that a pass holds the
replicas that are live unless somebody wrote the installation since
(`HoldsLive`), and that from the wait for the pods to the scaling up it holds zero
(`HoldsZero`), whether it wrote that itself or found it.

`DefaultsProofs` and `ManifestsProofs` prove, for any base specs, any values that
users write and any number of edits:

| Theorem | States |
|---|---|
| `DefaultsSettle` | `Spec => []SpecSettles` |
| `EditsStick` | `Spec => []EditSticks` |

`DefaultsProofs` is about one application of the functions. It works with the
*shape* of a spec (which fields its records have, `Shaped` and `CIShaped`) rather
than its type: the defaults rely on nothing else, and the type contains every
value that may be written, strings among them, about which the provers know
nothing. A spec is *settled* when it has no gap that a default or a size would
fill in (`Settled`, `CISettled`). Then three facts: what a pass stores is settled
(`NormalisedSettled`, `CINormalisedSettled`), it is accepted by the next pass
(`NormalisedAccepted`), and a settled spec is left as it is (`SettledFixed`,
`CISettledFixed`). `ManifestsProofs` takes them through the steps: `SpecInv` says
that only one of the two resources is there, with its shape, and settled after a
pass that got through. `SpecSettles` alone is not inductive, as an edit or a
migration may write anything of the right shape. `EditInv` follows the last edit: a
size that is still pending is the one the edit wrote, because the pass before it
erased any other, and when none is pending the edit has its effect. The one
assumption is `SpecsTyped`: users write what the schemas of the two resources
admit, since the API server refuses anything else.

`ObjectsProofs` proves nine results about the objects that both controllers leave,
for any specs, edits, migrations and passes, failed ones included:

| Theorem | States |
|---|---|
| `SecretsKept` | `Spec => CredentialsKept` |
| `PodsFound` | `Spec => []PodsSelected` |
| `BlueGreenCleared` | `Spec => BlueGreenLeavesNothing` |
| `EndpointFound` | `Spec => []HealthCheckFindsEndpoint` |
| `HostsServed` | `Spec => []HostsReachPods` |
| `PatchesReported` | `Spec => []PatchReported` |
| `AddressStays` | `Spec => []AddressKept` |
| `StoresStay` | `Spec => []StoresKept` |
| `PodsStay` | `Spec => []PodsKept` |

The first two rest on `ObjectsInv`: every object is stored under its own kind and
name (`Keyed`); of a deployment, the selector matches its own pods and looks at the
labels from which its name can be told (`SelectsOwn`), so that two deployments
that select the same pods are one; the secret of MinIO has both its keys; and
the labels in the spec leave the operator's own alone. A pass is followed stage
by stage: each object a stage ensures is `Safe` (neither secret nor deployment; or
a secret with the data of the one there; or a deployment that selects its own
pods), and `Left`, which puts the new objects in place of the old, keeps the
invariant if all of them are (`LeftKeeps`).

The next four are about the state after a pass that got through, and none of
them is inductive: a failed pass, an edit or a migration comes between. They
rest on `ClusterInv`, which adds to `ObjectsInv` and `SpecInv`:

* `BlueGreenInv`: after a pass that got through the status names blue and green
  when they are on, and then there is no deployment of the installation's own
  name, and it names nothing when they are off. What the next pass removes is
  what an earlier one made.
* `MarkedInv`: the label that names an installation, on a service or ingress, is
  the name of the object itself, and a deployment whose pods are labelled as the
  app's runs the app. What is left over from an earlier spec, a canary that was
  turned off or the ClusterInstallation before its migration, is covered too:
  this is why no other object can pass for the one that is looked for.
* `NamesInv`: the names of blue, green and canary, in the spec and in the status,
  are never that of the installation.
* `ReconciledInv`: what a pass that got through asked for is in place, until the
  next edit: for a Mattermost its deployment, service and ingress as generated from
  the spec there now (`Installed`), for a ClusterInstallation those of the
  app, blue, green and canary (`CIInstalled`), untouched by what the later stages
  of the same pass wrote and removed.

`EndpointFound` takes existence from `ReconciledInv` and uniqueness from
`MarkedInv`. `HostsServed` follows a host through ingress, service and selector
to the deployment (`Reaches`), with `SelectsOwn` telling the app from the job
server. `PatchesReported` needs `PatchInv` beside them: the patches in the spec
are of the modelled forms, and nothing else in it sets the annotation that one of
them sets.

The last three follow a migration, and take three more invariants:

* `HandoverInv`: the ClusterInstallation that a Mattermost was made from had no
  gaps left for the defaults when it was migrated, and until the next edit the
  Mattermost has its name, hosts, annotations and TLS settings (`SameAddress`),
  because `SetDefaults` fills in none of them. With `ReconciledInv`, which says
  that the generated service and ingress are in place, it is enough to compare
  what the generators of the two kinds make of equal specs.
* `StoresInv`: beside a ClusterInstallation no Mattermost owns a database or a
  MinIO; after the migration the spec still holds what the conversion wrote of
  both (`SameStores`: nothing of it is a gap to `SetDefaults`, because the
  ClusterInstallation was settled), and each database or MinIO that the Mattermost
  owns is the one that the ClusterInstallation asked for (`TakenOver`).
  `StoresKept` is not inductive without either part: the next pass asks for them
  again, from the spec that the pass before it stored, and it also holds in
  between passes, after failed ones too.
* `PodsInv`: until the next edit the spec has the image, replicas, resources,
  probes, placement and licence that the ClusterInstallation had (`SamePods`). A
  ClusterInstallation without gaps has other replicas than 0, which is the one
  number that `convertReplicas` leaves to the defaults.

The run has two edits. Before the proofs the properties were also checked on
12000 simulated histories with eight edits: this is how it came out that
`BlueGreenLeavesNothing` had to speak of the names recorded when the pass begins,
and `EnvWellFormed` not of a canary that is turned off.

Besides `SpecsTyped` the module assumes:

* `UserObjectsNamed`: objects have a kind and a name, the users' own deployments
  are no concern of the operator's, their services and ingresses do not carry
  the label by which the operator finds its own, and no database or MinIO of theirs
  claims to be owned by a Mattermost;
* `CertificatesNamed`: the name of a certificate, which is made from that of a host,
  is not empty;
* `SecretNamesApart`: the secret of MySQL does not have the name of that of MinIO.
  One ends in "-mysql-root-password" and the other in "-minio", which is beyond
  provers that know nothing of the characters of a string;
* `JobServerNamesApart`: a name with "-jobserver" after it is another name, for the
  same reason;
* `InstallationNamesApart`: users do not give blue, green or the canary the name of
  the installation, nor the canary that of blue or green. The code
  does not check this, and without it one stage of a pass overwrites or
  removes what another has made;
* `MinioSecretsComplete`: a user who makes the secret of MinIO puts both keys into
  it. The code overrides one that has not, and then `CredentialsKept` is false of
  that secret;
* `LabelsLeftAlone`: the labels that users give leave alone the keys with which the
  other kind of installation selects pods and, in a ClusterInstallation, whose
  labels are written over the operator's, those of its own kind;
* `PatchesModelled`: the patches that users write are the two that the model gives
  an effect (replicas of the deployment, an annotation of the service) or are
  refused, and the annotation is not set elsewhere in the spec.

TLC evaluates each of them for the instance of the runs.

Left to TLC:

* The liveness properties (`EventuallySettled`, `UpgradeCompletes`,
  `DatabaseComesBack`, `MigrationCompletes`, `Converges`), which depend on fairness.
* `EnvWellFormed`: the environment is built by folds (`mergeEnvVars`), and what a
  fold computes takes induction over its data.
* `SettingsKept`: it compares the environment of two deployments, and with it the
  results of such folds.
* `TypeOK` of `Manifests`: the labels are merged by a fold, and that a text put
  together with `\o` is a string is beyond the provers. What the proofs need of the
  types is in `Shaped` and `CIShaped`.

## Not modelled

* Of an upgrade: the labels and annotations of `spec.updateJob`, and that a change
  of the environment during an upgrade does not restart the job (the job's
  template is its image).
* Of the health check: the pods of the job server, and `CheckPodsRollOut`, with
  which the ClusterInstallation controller counts pods. Of that controller also
  the limit on reconciling installations, which has the race of `stale_cache`,
  and its own update job.
* Patches of more than one operation.
* Pod fields that are copied unchanged, apart from being copied; texts of errors
  and logs; metrics; flags; leader election (one operator process is assumed).
* Fields of the status other than state, observed generation, blue and green
  names and patches; in `ReconcileLimit` a status update forced by another field
  is the `stored` outcome of a write.
* Generated code: the clients, informers and listers, which the controllers do
  not use, deep copies, which are the value itself, and OpenAPI documents; the
  vendored types of the MySQL and MinIO operators, which have no behaviour.

## Plan

What is left, in this order:

1. *RestoreDB*: which pod uses which claim, and a second installation in the
   namespace, whose pods the wait for the end of the database counts too.
2. *ClusterInstallation*: its limit and its health check, against the pods
   instead of the replica sets.
3. *UpdateJob*: a template of the job with more than the image.
