# A TLA+ model of Aivenator

Aivenator is a Kubernetes controller. It gives applications credentials for
Kafka, OpenSearch and Valkey at Aiven: service users in Aiven, and Secrets in
Kubernetes that hold what the users need. This directory models its control
logic, checks it with TLC on small instances and proves parts of it with TLAPS
for instances of any size. Paths below are relative to the repository's `src/`.

## The system

| Part | State | Operations | Talks to |
|---|---|---|---|
| **Reconciler** `controllers/aiven_application/reconciler.go` | none of its own; the run's copy of the application | `Reconcile`: read, delete when expired, hand over to the janitor, decide by hash and by missing Secrets, build all Secrets, save them one by one, write the status (deferred) | informer cache, API server, manager, channel `appChanges` |
| **Finalizer** `controllers/secrets/finalizer.go` | the run's copy of the Secret | `Reconcile`: read, clean up in Aiven, take the finalizer off | informer cache, API server, manager |
| **Janitor, cleaner** `controllers/secrets/janitor.go`, `pkg/credentials/cleaner.go` | the lists of a scan | `Start`: a scan of everything on a 15 minute ticker, of one application on every hand-over | seven informer caches, API server |
| **Manager, handlers** `pkg/credentials/manager.go`, `pkg/services/*` | none | `Apply` builds a Secret and makes sure of a service user; `Cleanup` deletes it | Aiven through the managers of `pkg/aiven` |
| **Service users** `pkg/aiven/serviceuser` | cache of users, with expiry | `Get`, `Create`, `Update`, `Delete`, count | Aiven |
| **OpenSearch ACL** `pkg/aiven/opensearch` | none; the list is in Aiven | read, change, write back | Aiven |
| **Service addresses** `pkg/aiven/service` | unlocked map with expiry | `GetServiceAddressesFromCache` | Aiven |
| **Errors** `pkg/utils/error_handling.go` | conditions in the status | tell errors that pass from those that do not | |
| **CA, keystores, metrics, main** | | project CA, PKCS#12 conversion, counters, wiring, signals | |

Everything shared is outside the process: the AivenApplication, the Secrets and
the service users. Ten reconciler and fifteen finalizer workers run at the same
time, a key at most once per controller and process; the one janitor goroutine
runs beside them. The process keeps nothing over a restart but what informers
list again. There is one replica, without leader election and with the default
rolling update, so during a deployment two processes run.

### What is hard, and what makes each part correct

* **Reconciler.** Runs work on a copy of the application and on cached Secrets;
  the status is written at the end, at the version read. Correct means: a status
  or hash never claims more than the Secrets hold, an operator's request for a
  new sync is not lost, older credentials do not replace newer ones, every
  generation is synchronized in the end, expired applications go.
* **Finalizer.** A Secret can be updated, removed and created anew while a run
  cleans up for it. Correct means: a Secret goes away only after a cleanup for
  exactly the credentials it held, and always in the end; a live Secret keeps its
  finalizer.
* **Reconciler and finalizer together.** They share service users, whose names
  are made from the generation. Correct means: a Secret reported complete names
  a user that exists.
* **Janitor.** A scan is a series of lists, each stale in its own way, followed by
  deletions. Correct means: nothing in use or protected is deleted, what is
  unused is, and reconciles that wait for the janitor go on.
* **Handlers, users, ACL, addresses, errors.** `Apply` and `Cleanup` are series of
  calls to Aiven, each of which may fail, also after it had its effect, and whose
  answers go into a cache that all workers share. Correct means: a retry finds
  what was done before and does not collide with it, a Secret goes after its
  user, the user a Secret names exists, is let in by the ACL and has the access
  asked for, errors that pass are tried again and the others are not.

`PROJECT.json` lists the hazards behind these, each at its line.

## The modules

| Module | What it models |
|---|---|
| `Cluster` | the API server's objects and the rules of its writes (versions, finalizers), the service users, the informer caches, the two work queues with their event filters, the resync, and what users, operators, naiserator and the clock do |
| `Reconciler` | the runs of the reconciler: `Start`, `CheckSync`, `CreateSecret`, `SaveSecret`, `UpdateStatus` |
| `Finalizer` | the runs of the finalizer: `FinStart`, `Cleanup`, `RemoveFinalizer` |
| `Aivenator` | their composition with restarts, fairness, and the properties |
| `Credentials` | the abstract promise: what may happen to the credentials in a Secret, without runs, caches, queues or faults; `Aivenator` implements it |
| `Aivenator_proofs` | theorems about `Aivenator`: types, removals |
| `Sync_proofs` | theorems about `Aivenator`: what the status and the hash claim |
| `Promise_proofs` | `Aivenator` implements `Credentials` |
| `ServiceUsers` | an Aiven service with its users and ACL, the caches of users and addresses, the classes of errors |
| `Handlers` | `Apply` and `Cleanup` of the three handlers call by call, run at the same time by the workers of both controllers in every process, with the properties |
| `Handlers_proofs` | theorems about `Handlers`: types, why runs are given up, Valkey's access |
| `Revocation_proofs` | theorem about `Handlers`: users go before their Secrets |
| `Janitor` | the janitor's loop and scans among objects that hand a Secret on |
| `Janitor_proofs` | theorems about `Janitor` |
| `MCAivenator`, `MCHandlers`, `MCJanitor` | values of the constants for TLC |

`Reconciler` and `Finalizer` have a whole `Apply` or `Cleanup` in one step and follow
the controllers closely; `Handlers` has every call of them and makes the controllers
as small as that allows. What is between two calls of a handler is decided in
`Handlers`, what is between two calls of a controller in `Aivenator`.

### How they correspond to the code

One step of a run is what the code does between two points at which the rest of
the system can move: a call to Kubernetes or Aiven and the code up to the next.

* `Start` is `reconciler.go:120-147` with `HandleProtectedAndTimeLimited`. Between
  it and `CheckSync` lies `r.appChanges <- application`: in `Reconciler` that step
  may take any time, in `Janitor` it is `SendApp`.
* `CreateSecret` builds one Secret of the list: a handler's `Apply`, with
  `provideServiceUser`. All Secrets are built before the first is saved
  (`Advance`), as `Manager.CreateSecret` returns the whole list. A failed call to
  Aiven may have had its effect. `"credstore"` is the branch of
  `kafka.go:135-142`, which deletes the user whether it was new or not.
* `SaveSecret` reads the cached Secret and creates or replaces it at its version
  in one step: nothing else of interest can come between the two but a write,
  which makes the second fail, and that is the branch `~ accepted`.
* `UpdateStatus` is the deferred function with `success` and `fail`. `Failed` and
  `Requeued` are what `fail` does; 10 and 100 seconds are the same to the model.
* `Cleanup` is one handler's `Cleanup`, for the Secret's service; `Swallowed` is
  Valkey's way with errors.
* The event filters are `AppEventPasses` (a counter `nudges` stands for changed
  annotations and labels and an emptied hash) and `SecretEventPasses`.
* A Secret is its resource version, its phase (absent, live, under deletion), the
  generation its credentials were made for, and whether it has the finalizer. A
  service user is a Secret's name with a generation.
* In `Janitor`, a reference is an object of a kind that names a Secret, with its
  `app` label and the way it mounts the Secret. `ListSecrets`, `ListObjects` (once
  per kind, in the code's order) and `ListPods` are the `List` calls, each from the
  informer cache `view`. `CleanSecret` decides on the listed annotations and
  deletes, one Secret after the other (`Left`). A failing `List` ends the process
  (`ListFails`), a failing deletion is only logged. `WriteSecret` is the `SaveSecret` of
  a reconcile, which goes on while the scan it has called for is on. `held` and
  `rewritten` are history variables for the properties: the users that the informers
  have shown since the scan listed the Secrets, with those that came from them, and
  the Secrets written since then. `Counts` is what the janitor would take for a use.
* In `Handlers`, a key is an application in a process, and a task is a worker's
  goroutine between two calls to Aiven: a reconciler's (`Apply(k)`) or a finalizer's
  (`Cleanup(k)`) for a key, or whoever else lists users in that process (`Counter(p)`:
  Kafka's ticker of `ObserveServiceUsersCount`, and the lists of applications that the
  instance leaves out). Each process has its own queues and caches. `pc` is the call
  a task is about to make.
* `List` and `Fill` are `serviceuser.Manager.Get`: the answer is given in one step and
  put into the cache in the next, as other tasks run between the two. `Count` and
  `CountFill` are the same for `ObserveServiceUsersCount` after a creation or
  deletion, whose errors are only logged. A deletion and the removal from the cache
  are one step: a task that reads the cache between the two acts as it would have
  before both.
* `LookUp` is all that comes before the user: a running instance among the cluster's
  resources (OpenSearch, Valkey), the addresses, the CA. Kafka takes addresses from
  their cache. Addresses that are empty are an error that passes.
* `AfterUser` is where the handlers part: `KeyStores` (Kafka, with the cleanup that
  undoes the user), `ReadACL` and `WriteACL` (OpenSearch, from both `updateACL` and
  `Cleanup`), `Update` (Valkey, when the access is another than asked for).
* `ResolveName` is `ResolveKafkaServiceName`, which Kafka's cleanup calls before it
  deletes; an error of it goes to the caller. (`CleanupBegins` is where each cleanup
  begins.)
* `UnwrapAivenError` classifies a status; `Fails` is `AivenFail` with the requeue rule
  of `fail`, `FailsLocally` is `LocalFail`, `CleanupFails` is the finalizer's. Of the
  statuses, 404 and 409 come from the state of the service, 503 stands for what
  passes and may have had its effect, 429 for what is refused.
* `SaveSecret` writes the Secret, and `UpdateStatus` is the deferred status update, two
  steps with everything else between them. The status is refused when the
  application has a newer version than was read (`fresh`); a refused or a failed
  update is only logged, and whether the run is tried again depends on what it had
  come to before (`result`). `StartApply` finds nothing to do when the hash is recorded
  and the Secret is there; it writes the status all the same.

Operators that end in `_SameVersion`, `_Ignored`, `_All` and the like are slips: what
a plausible bug would make of the definition after them. They are no part of the
specification; each property is known to fail with one of them in place.

## The runs

Bounds: `Len(History)` is the number of generations; `MaxChanges` bounds the
outside changes of `Changes`, `MaxFaults` the faults of `Faults`; in `Janitor`,
`MaxFaults` bounds failing calls. In `Handlers`, `MaxGen` is the number of
generations. Everything else is finite by itself.

| Run | Instance | What it shows |
|---|---|---|
| `core` | 1 process, 1 Secret, 2 specs, expiry, 2 changes and 1 fault of every kind; 1 429 261 states | `CleanedBeforeRemoved`, `SynchronizedMeansSaved`, `SyncedSecretsMatchSpec`, `RedeployIsNotLost`; and `CredentialsAreKept`, that all of it implements `Credentials` |
| `core_live` | 1 process, a Kafka and a Valkey Secret, 2 specs, 1 change, 1 fault; 340 961 states | the two claims of the status, `SynchronizedMeansSaved` and `SyncedSecretsMatchSpec`, over several Secrets; `DeletedSecretsGo`, `GenerationsAreSynchronized` |
| `janitor` | 1 Secret, four kinds, every protection, lagging informers, rewrites, 1 fault; 2 049 024 states | `HeldSecretsStay`, `ProtectedSecretsStay` |
| `janitor_live` | 2 applications, applications and pods, lagging informers, rewrites, 1 fault; 171 840 states | `UnusedSecretsGo`, `ReconcilesGoOn` |
| `handlers` | 1 process, 1 application, 2 generations, each handler, 2 changes and 1 fault of every kind; 424 981 states | `GivenUpForGoodReason`, `ValkeyUsersAreUpdated`, `GoneSecretsLeaveNoUser`, `DeploymentsEnd`, `DeletedSecretsGo` |
| `handlers_two` | 2 processes, 1 application of one generation, Kafka, 1 fault (a call, a status update, a crash); 148 720 states | `DeploymentsEnd` |

Two generations are enough for an old and a new one to be mixed up, a run that has
read the old one to meet the new, and a status to be written for either; a third,
equal to the first, is what `spec_reverted` adds. One Secret is enough for what
happens to a Secret, as the reconciler and the finalizer never relate two; what
relates them is the list of one run, which needs two (`core_live`). Two changes let a
Secret be deleted and the hash be emptied, or a Secret be deleted, created anew and
deleted again. One fault lets any one call fail or the process die at any point, and a
run that is tried again remembers nothing of the one before. With two faults, which
let the retry fail as well, the liveness properties of `core_live` were checked once
for one Secret (152 918 states). A janitor's scan treats Secrets independently, so
that one is enough there; two applications are needed for a reconcile to wait behind
another. Of the five kinds in the code, `janitor` has the four with the longest chain
of hand-overs, application to CronJob to Job to pod; ReplicaSets stand where CronJobs
do, between applications and pods. With all five, TLC found no violation either (12
177 408 states, more than a run should take). In `handlers` users belong to one
application each, and what applications share is the lists that fill the cache, which
the counter stands for, and the ACL, for which `acl_lost` has two. Two generations and
two changes let an older and a newer run, a cleanup and the end of the service meet.
With two faults, as for a call that fails and then the status update, the safety
properties were checked once with two changes (1 388 060 states) and the liveness
properties with one (75 761 states).

The refinement mapping of `CredentialsAreKept` takes the phase, the generation and
the claim of `Credentials` from the Secrets and the status. A Secret counts as
cleaned up for (`CleanedUp`) when its finalizer is off or a finalizer's run that has
read it at its present version is about to take it off. So every step of
reconciler, finalizer, environment and restart is a step of `Credentials` or none:
older credentials never replace newer ones, none go without a cleanup, and what is
claimed has been stored.

Six more runs each end in a counterexample that TLC finds in the code's
behaviour, against what the README, a flag's help or a log line says. The
findings in `PROJECT.json` quote them.

| Run | The code does | The documents say |
|---|---|---|
| `live_secret_finalized` | a late finalizer run finalizes a Secret that is not being deleted (`finalizer.go:50-73`) | "When a secret managed by Aivenator is deleted ..." |
| `user_deleted_under_sync` | the finalizer deletes the user the reconciler is about to save | "Credentials synchronized and secrets stored" |
| `spec_reverted` | a spec changed and changed back is not synchronized again | "Credentials already synchronized" |
| `no_resync` | the resync reconciles no application, and expiry is not noticed | "How often to re-synchronize all AivenApplication resources" |
| `acl_lost` | of two reconciles that change an OpenSearch ACL, the later write drops the entry of the earlier one | "Credentials synchronized and secrets stored" |
| `dead_user` | a list answered before a deletion brings a deleted user back into the cache, from where the retry takes it | "Created service user ..." |

### Properties that hold under a condition

* `SynchronizedMeansSaved`, `SyncedSecretsMatchSpec` and `CredentialsAreKept` hold for
  one process (`OneProcess`). With two, as in a rolling update, TLC finds each of them
  violated on the instance of `core` (`Processes = {"p1", "p2"}`): the old process
  replaces newer credentials by older ones, since the version of a Secret is taken
  from the cache when it is saved, not when the run is decided on.
* `SyncedSecretsMatchSpec` also needs that no spec comes back (`NoSpecComesBack`,
  `core`); with one it does not hold (`spec_reverted`).
* `ProtectedSecretsStay` says nothing of a Secret that was written during the scan:
  `CleanSecret` deletes by name, without the version it decided on. When the property is
  stated without that exception, TLC finds a Secret that was written with a protection
  during the scan and is deleted by what the scan had listed.
* `HeldSecretsStay` speaks of what the janitor can know: of users, or chains of users
  each made by the one before, that the informers have shown all along the scan, and
  that count for the janitor (`Counts`). It needs no assumption about how far the
  informers lag, how a Secret is mounted or who rewrites it. What a Secret's users
  themselves may expect is more, and does not hold: a workload that its informer has
  not shown yet protects nothing while the informer of its application is up to date,
  and use through the environment counts only while a pod runs. TLC finds a used
  Secret deleted in either case. An application that asks for the Secret anew while
  the scan is on comes too late, too, when the applications have been listed.
* `GenerationsAreSynchronized` needs status updates that succeed and informers that
  have caught up when a retry starts. A failed status update is logged and
  nothing is tried again, so `core_live` leaves out the faults `"status"`, `"lag"` and
  `"unrecoverable"` (for which the code gives up on purpose).
* `GivenUpForGoodReason` holds for one process. With two, as in a rolling update, both
  list the users before either creates one; the second is answered 409 and gives the
  application up, although the user is there to be used, as TLC finds with `Processes
  = {"p1", "p2"}` and neither change nor fault. It excepts Valkey's 404: a cached user
  that has been deleted is updated, not found, and given up on.
* `GoneSecretsLeaveNoUser` holds for one process, too. A restart queues every
  application in the process that restarts, so that a run which has made a user anew
  is made up for; with a second process, whose run makes the user anew and which then
  dies, TLC finds a user that stays. The property excepts Valkey, whose cleanup logs
  errors and lets the Secret go: TLC finds the user that stays. It also allows that a
  run of the same application made the user anew meanwhile and has yet to save it, is
  to try again, or was given up.
* `DeploymentsEnd` is about the credentials in the Secret and not about the recorded
  hash: a status update that fails is logged and not tried again, so that the hash may
  never be recorded. It excepts a service that is not running and the statuses 404 and
  429, after which the code does not try again, and says nothing of a generation that
  a newer one replaces. A 409 is no exception: with one process it does not happen, and
  with two (`handlers_two`) the credentials are saved by the one that made the user.
* `DeletedSecretsGo` of `Handlers` excepts OpenSearch once its service is gone: the ACL
  cannot be read any more, so the cleanup fails for ever.

### Fairness

`Fairness` in `Aivenator` is weak fairness of what the process and the Go runtime do
by themselves: informers deliver, delays run out, workers take a ready key and finish
its run (every call has a timeout or an error), the resync comes round, the clock
passes an expiry. Faults are bounded, changes by users are bounded and promised by
nobody. `Handlers` assumes as much of its workers, of either controller and for each
application and process, and of the resync; nothing of the counter, of caches that
expire, or of the service. In `Janitor` the ticker and the channel are chosen by
`select`, which picks with equal probability among the ready cases: strong fairness of
both. Nothing is assumed of sends, references and rewrites.

## The proofs

`Aivenator_proofs` holds for any sets of processes and Secrets, any history of
specs and any bounds, from the assumptions on the constants in `Cluster`.

* `TypesHold`: `Spec => []TypeOK`. `TypeOK` is not inductive: `CreateSecret` and
  `SaveSecret` index the list of Secrets, so the invariant `TypeInv` adds `InRange`,
  that a run in these states is at a place of its list. One lemma per group of
  actions.
* `RemovalsAreClean`: `Spec => CleanedBeforeRemoved`. Only `RemoveFinalizer` takes a
  Secret under deletion away (`RemovalStep`); it is accepted at the version read,
  so the run had read what is removed. That is the invariant `VersionInv`: a copy of a
  Secret that has its version equals it, and none is ahead of it. Its step is split in
  two: what an action can do to a Secret, a cached copy and a finalizer's copy
  (`Moves`, one lemma per group of actions), and that these moves keep copies true
  (`NextVersions`).

`Sync_proofs` goes on from there, with what a step can do to the application, its
copies, the Secrets and the runs stated once for all actions (`SyncMoves`).

* `RedeploysAreKept`: `Spec => RedeployIsNotLost`, for any number of processes: the run
  whose status brings a hash back has synchronized and had read the application just
  as it is, with the emptied hash. The invariant `CopyInv` adds to `VersionInv` that an
  application's copies are true and never ahead (`AppCopies`) and that a hash is stored
  together with the generation it is of. A status is accepted at the version of the
  application that the run has read, and by `AppCopies` what it has read is then what
  there is: a run that read the application before, synchronized or not, is refused.
* `SynchronizedIsTrue`: `OneProcess => (Spec => []SynchronizedMeansSaved)`. By itself
  the property says nothing of runs under way. `SyncInv` adds that what a run has
  saved so far is saved (`DoneIsSaved`), and that nothing stored is newer than what
  any run or cache works from (`NothingNewer`): without it a run could store older
  credentials over those already claimed, which is what a second process does.
* `SyncedIsTrue`: `OneProcess /\ NoSpecComesBack => (Spec => []SyncedSecretsMatchSpec)`.
  It follows from `SyncInv`: by `SynchronizedMeansSaved` a Secret is not older than the
  generation recorded, by `NothingNewer` not newer.

`Promise_proofs` is the refinement, `PromiseIsKept`: `OneProcess => (Spec =>
CredentialsAreKept)`. Each step of `Aivenator` is shown to be the step of
`Credentials` that it stands for, or none: a saved Secret is `Store` because of
`NothingNewer`, a removal needs `RemovalStep`, a claim needs `DoneIsSaved`. The
invariant is `SyncInv` with `WrittenOnce` (a Secret that exists has been written),
since `Credentials` remembers what has been stored.

`Handlers_proofs` holds for any sets of processes, applications and handlers, any
number of generations and any bounds, from the assumptions in `ServiceUsers` and
`Handlers`.

* `TypesHold`: `Spec => []TypeOK`. A task's user must be one there is, so the invariant
  adds `TasksFit` (a task with something to do has it for a generation, and is at the
  steps of `Apply` only to provide a user) and `SecretsFit`.
* `ReasonsAreGood`: `OneProcess => (Spec => []GivenUpForGoodReason)`. A run gives up
  with 409 only if it creates a user that is there. `AnswerHolds` says that with one
  process it never does: a run that is about to create, or holds a list that did not
  show its user, is right about it, since no other task makes that user, whether or
  not the service lives on. With a second process TLC refutes it. For 404,
  `GoneLeavesNothing` is needed, and one process is not.
* `UsersAreUpdated`: `Spec => []ValkeyUsersAreUpdated`. A user never gets an old access
  back, so that whatever cache or answer shows the right one has it right or the
  user is gone (`NoneOlder`); a run past the providing of its user has seen that
  (`Provided`).

One inductive invariant, `IInv`, carries all three. The steps of a task are split into
what the call does to the service and the cache (`Serves`) and what the task does with
the answer (`Proceeds`); `OwnSteps` shows once that both together keep `IInv`, and
`QuietSteps` the same of steps that leave the service alone.

`Revocation_proofs` adds `UsersGoFirst`: `OneProcess => (Spec =>
GoneSecretsLeaveNoUser)`. The property speaks of the moment a Secret goes, long after
its user was deleted, so the invariant `RevocationInv` follows the cleanup from there:
once a cleanup whose reading is still right (`FreshIsTrue`) is past the deletion, or
the finalizer is off a live Secret, the user is gone, or the run of the application
has made it anew and is still on, or it has left work undone (`Undone`) for an
application that is not reported synchronized (`Unsettled`) and so will begin anew
(`LeavesNoUser`, `RunsForReason`). Between the saving of a Secret and its status update
the finalizer and the outside may move; that a status is accepted only if nothing was
queued meanwhile is what keeps a synchronized application from being such an excuse.

`Janitor_proofs` holds for any applications, Secrets, number of kinds and faults.

* `JanitorTypes`: `Spec => []TypeOK`, with the invariant that a scan leaves the
  Secrets to clean to its last state (`TodoLast`).
* `ProtectionIsRespected`: `Spec => ProtectedSecretsStay`. A Secret that was not written
  since is as the scan listed it, but for a time limit that has run out (`Snapshot`); so
  what is decided on the list is right of the Secret.
* `UsedSecretsStay`: `Spec => HeldSecretsStay`, without a condition on informers,
  labels, mounts or rewrites. The invariant `HeldInv` says that held users are shown
  and count (`HeldCount`) and, as long as the scan has not found their Secret in use,
  are of kinds still to be listed (`NotMissed`): a new user comes from one that is
  held, and so is of a later kind, as kinds are listed makers first
  (`JanitorAssumption`, as in the code); and the pods, of whatever label, end the
  list. So no hand-over slips through between two lists.

Every safety property of a passing run has a theorem. Model-checked only are the
liveness properties (`DeletedSecretsGo` of both specifications,
`GenerationsAreSynchronized`, `UnusedSecretsGo`, `ReconcilesGoOn`, `DeploymentsEnd`):
TLAPS proves none under fairness.

## Not modelled

* An application that is deleted and created anew under its name (its generation
  starts over) and two generations or applications whose suffixes collide.
* Delivery collapses: a cache jumps to the server's state, in-between versions
  raise no event of their own.
* A call to Aiven that times out and has its effect only later; it has it at once or
  never.
* Several Valkey instances, and two services with one Secret name.
* Kafka's empty addresses while a service is built, and the data race on the map of
  addresses other than as a crash.
* Validation of names and pools, which are errors of the spec that no retry or
  interleaving changes.
* The wording of events, conditions, logs and metrics; the content of Secrets, of the
  CA and of keystores.

## Plan

Done: all modules above with their runs, the promise of `Credentials`, and a theorem
for every safety property of a passing run. Next:

1. The janitor composed with the reconciler through `appChanges`, so that a Secret the
   janitor deletes is one the finalizer cleans up for.
2. Several Valkey instances and equal Secret names in the list of one run.
3. What holds of two processes over a whole rolling update, when the old one stops:
   that credentials, users and hashes come right again at its end.
4. An annotation that a newer generation replaces, which no property covers yet.
