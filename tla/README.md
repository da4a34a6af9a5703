# Verification of the Cloud Resource Operator

TLA+ models of the operator's controllers and of its AWS, GCP and OpenShift
providers, the TLC configurations that check them, and proofs that TLAPS checks.
`PROJECT.json` lists components, runs, findings, hazards and theorems, and maps every
definition to the lines that it models; paths below are relative to `src/`.

## The system

The operator turns custom resources (CRs: `Postgres`, `Redis`, `BlobStorage`,
`PostgresSnapshot`, `RedisSnapshot`) into cloud resources and result secrets.

| Part | State | Operations | Module |
|---|---|---|---|
| Controllers (`controllers/*`) | CR: finalizers, annotation, `status.{phase,strategy,secretRef}` | `Reconcile`: pick the strategy, call the provider's create or delete, write secret and status | `ResourceController`, `Reconciler`, `SnapshotReconciler` |
| RDS (`pkg/providers/aws/provider_postgres.go`) | DB instance, credential secret, annotation | `ReconcilePostgres`, `DeletePostgres` | `PostgresRDS` |
| ElastiCache (`aws/provider_redis.go`) | replication group, annotation | `CreateRedis`, `DeleteRedis` | `ElastiCache` |
| S3 (`aws/provider_blobstorage.go`, `aws/credentials.go`) | bucket, its settings, CredentialsRequest, minted key | `CreateStorage`, `DeleteStorage` | `S3Bucket` |
| Cloud SQL, Memorystore (`gcp/provider_postgres.go`, `gcp/provider_redis.go`) | instance, root password, annotation | create, update, upgrade, delete | `CloudSQL`, `Memorystore` |
| OpenShift (`openshift/provider_*.go`) | volume, config map, secret, deployment, service | create each if missing, delete each | `OpenShiftWorkload` |
| Snapshots (`*/provider_*snapshot.go`) | snapshot or exported object, bucket, `status.snapshotID` | create, delete, schedule, protect the latest | `AWSSnapshot`, `GCPSnapshot` |
| Standalone network on AWS (`aws/cluster_network_provider.go`) | VPC, subnets, subnet groups, security group, peering, routes | create what is missing; take all down with the last CR | `StandaloneNetwork` |
| Network on GCP (`gcp/cluster_network_provider.go`) | address range, service connection, peering | the same | `GCPNetwork` |
| Bundled network (`aws/cluster_vpc.go`) | private subnets, subnet groups, security group | a subnet per zone, a group of them | `ClusterVpc` |
| Address arithmetic (all three files) | none | find a free block, split it, validate it | `Addresses` |
| Strategy clients and updates (`pkg/client`, `build*UpdateStrategy`) | config map, maintenance windows | write and merge; compare with the instance | `StrategyMaps` |
| Cloud metrics (`controllers/cloudmetrics`) | Prometheus gauges | scrape | none |

Every controller has one worker, and the controllers run concurrently in one
process (leader election keeps it the only one). Controllers interact through the
API server, which refuses a write made from an outdated copy, and through the cloud,
which does not. A nil dereference ends the process, because controller-runtime
does not recover panics by default, and so counts as a crash.

What makes the parts correct: nothing outlives the CR it was made for; nothing is
made before the CR is held by the finalizer; a database that was in service is not
replaced by an empty one; what is published works; a deletion ends; a shared network
exists while somebody needs it, and only then; the blocks chosen for it are free; the
last backup is kept; nobody's settings are lost.

## Modules

* `ManagedResource` is the promise, common to all providers: things exist only under
  a CR that is held, and the CR is let go only when they are gone. `PostgresRDS`,
  `Providers` and `ResourceController` are each shown to implement it, by the mapping
  `Claim` (and `Made`).
* `PostgresRDS` is the Postgres controller with the RDS provider for one CR. The
  worker's program counter `pc` names the next call that reads or changes shared
  state, and there is one action per call (`CreateFinalizer`,
  `CreateCredentialSecret`, `GetRDSInstances`, `CreateDBInstance`, ...). `fresh` says
  whether the worker's copy has the stored resourceVersion, and `loc` holds what it
  read earlier. `Store` is a write of the CR: a stale copy conflicts, and the answer
  of one that landed may be lost. RDS, the garbage collector and the user act between
  any two calls.
* `Reconciler` is the same skeleton for the other providers: CR, worker, result
  secret, user, crashes, and an instance `inst`, a credential secret `sec` and
  Kubernetes objects `objs`, which the provider modules use as they need.
  `ElastiCache`, `CloudSQL`, `Memorystore`, `OpenShiftWorkload` (Postgres and Redis)
  and `S3Bucket` (with and without forced deletion, and with STS) extend it with
  their calls, and `Providers` puts them together: a behaviour is the life of the CRs
  of one name under one provider, which the initial state chooses.
* `SnapshotReconciler`, with `AWSSnapshot` and `GCPSnapshot`, and `Snapshots` on top,
  are the snapshot CRs of one parent. A snapshot is named by its place in the order of
  creation, `w` is the worker of the snapshot controller, and `sch` the Postgres worker
  that creates and expires scheduled snapshots. `history` notes the events that some
  properties exclude.
* `StandaloneNetwork` is the network that all CRs share, with one process per CR's
  controller (`w[r]` holds its program counter and locals), and the contents of each
  VPC in `net`. Looking up and creating the security group is one step, instances
  occupy all subnets of their VPC, and all VPCs have the same CIDR block (the code
  derives it from one configuration).
* `GCPNetwork` is its counterpart on GCP. `raced` notes that a CR was created, or
  deleted, while another was being deleted.
* `Addresses` has the arithmetic of CIDR blocks as operators over addresses of
  `AddrBits` bits: the overlap test, the search for a free default, the validation of a
  configured block, the split into two subnets, and the candidates for private
  subnets. The limits of the code (`/16`, `/26`, `/27`, ranges `10/8` and `172.16/12`)
  are constants.
* `ClusterVpc` uses it: `PlanNetwork` chooses and validates a block, and two
  controllers build subnet groups and the security group in a bundled VPC, in which
  zones come and go.
* `StrategyMaps` follows the times that an installer asks for: into windows, into the
  config map that all tiers share and administrators edit, and into the instance. Of
  the other settings two are kept, the class of the instance and the retention of its
  backups.
* `ResourceController` is the part that the controllers share: the choice of the
  strategy, when it is stored, and which provider makes and deletes. `PersistFirst`
  is TRUE of the PostgresSnapshot controller. It is FALSE of the Postgres, Redis and
  BlobStorage controllers, which assign `status.strategy` before they test whether
  it has changed. `NeedsParent` is TRUE of a snapshot controller.
* `XProofs` holds the theorems about module `X` and their proofs, for `PostgresRDS`,
  `Providers`, `Snapshots`, `StandaloneNetwork`, `GCPNetwork`, `ClusterVpc`,
  `StrategyMaps` and `ResourceController`; `MC*` give the constants of a run.

Definitions named `X_Something` that are marked as seeded faults are variants of `X`
with a plausible bug. They are in no specification; they serve to show that a
property would notice.

## Runs

| Run | Result | What it shows |
|---|---|---|
| `postgres_rds_safety` | holds | no instance and no credential secret outlives its CR, the published password is right, a served database is never re-created, and `ManagedResource` is implemented |
| `postgres_rds_live` | holds | when faults stop, deletions end and live CRs are served |
| `providers` | holds | the other six providers implement `ManagedResource`, publish secrets that work and buckets that are protected, close no maintenance window before its work is done, and end deletions and creations |
| `snapshots_safety` | holds | no snapshot outlives its CR, a complete one can be used, and the schedule keeps the last backup |
| `snapshots_live` | holds | when faults stop, snapshots are taken and deletions end |
| `snapshots_stuck` | violated | a Cloud SQL snapshot CR whose object is gone cannot be deleted |
| `network_serial` | holds | without overlapping reconciles: one VPC, gone with the last CR, no live instance cut off, with two faults anywhere; without faults instances become reachable and deletions end |
| `network_races` | holds | overlapping controllers never take the network down together |
| `gcp_network` | holds | the shared range, connection and peering on GCP stay while an instance is up, go with the last CR, and every deletion ends |
| `cluster_vpc` | holds | the block chosen is free and can be split, candidates for subnets are complete, and both subnet groups come to span all zones |
| `strategy_maps` | holds | windows are right at the ends of day and week, no tier's or administrator's settings are lost, and instances follow |
| `controller_pinned` | holds | with the strategy stored first, one provider serves a CR, `ManagedResource` is implemented, and deletions end while the parent is there |

That the state keeps its type is a conjunct of one invariant of each run (a property
of its own in `postgres_rds_safety`, proved in `controller_pinned`'s module).
`NoOrphanInstance` and `NoOrphanCredentials` follow from `ManagedResource` and are
stated for the proofs.

A violated property states what a comment, a log message or the README of the
repository says; the finding in `PROJECT.json` quotes it.

### Bounds

* `PostgresRDS`, `Providers`: one CR, which can be deleted and created anew any number
  of times; two passwords where passwords are compared (an old and a new one is all
  that can be confused). Crashes, lost answers, conflicts and edits are not bounded.
* `Snapshots`: one snapshot CR on AWS, where snapshots do not interact, and two on GCP,
  where they share a bucket, a schedule and the protection of the latest (one in the
  liveness runs). Faults are not bounded.
* `StandaloneNetwork`: one Postgres and one Redis CR (one worker per controller, so
  two is all that overlaps); two VPCs, which is enough for a second one to appear,
  except in `network_races`, where one VPC keeps the state space small. `MaxFaults`
  bounds failed calls, lost answers and crashes: two in `network_serial`, which covers a
  fault in the recovery from a fault; none where overlap alone is the question.
* `GCPNetwork`: one Postgres and one Redis CR; faults are not bounded.
* `ClusterVpc`: addresses of 6 bits, so that a VPC holds up to eight subnets; every
  place and size of VPC, pod and service network; three layouts of a bundled VPC (at
  the top of the address space, complete, almost full); two zones, and two failed
  calls or zone outages (`MaxTrouble`).
* `StrategyMaps`: two tiers, two classes, four requests (an ordinary one, one over the
  end of the week, one whose windows meet, and one whose windows meet after midnight),
  and two changes (`MaxChanges`): new times, edits, lost keys and failures.
* `ResourceController`: two strategies, so that the config map can name another one.

### Fairness

Reconciles are requeued (`RequeueAfter`, or backoff after an error), so a worker that
can step eventually does (weak fairness). Where other CRs can keep a reconcile from
starting (`StandaloneNetwork` in the serial run, and `Snapshots`, whose CRs share a
worker), starting one is strongly fair, because the work queue serves every key. The
clouds finish the creations, deletions, modifications, exports and peerings that they
have begun, the credential minter answers requests, and maintenance windows come.
Faults and edits end: by `CalmDown`, or by a bound. Without this a CR could be edited
before every write, for ever. That RDS instances do not fail is an assumption of
`postgres_rds_live`.

### What the clouds are assumed to do

Only what the code relies on. AWS refuses to create what exists, to modify or delete
what is not available, subnets that conflict, and windows that meet. GCP lists a service
connection once it is made, refuses to delete one that instances use, or a range on
which a connection is being made, and does not finish the deletion of a connection
whose peering is still there. Kubernetes refuses writes from outdated copies and keeps
an object that has a finalizer.

### More disagreements

These show when a constant of a passing run is changed, or a condition of a property
is dropped:

* `postgres_rds_live` with `MayFail = TRUE`: a CR whose instance is in state `failed`
  cannot be deleted, since `deleteRDSInstance` waits for `available`
  (`provider_postgres.go:574`).
* `postgres_rds_safety` with `ListMayMiss = TRUE` (`DescribeDBInstances` returns its
  first page only, which is all that `getRDSInstances` reads): an instance beyond the
  page counts as deleted, against `ImplementsManagedResource`.
* `network_serial` with `Races = TRUE`: two controllers create a VPC each
  (`cluster_network_provider.go:152`); a CR that `IsLastResource` has counted can be
  gone when its answer is used, so the network stays; and a route left over from a
  deleted peering has the destination of the new one, so that every reconcile ends with
  `RouteAlreadyExists`. On GCP the same count lets two last CRs both leave the network
  (`raced`), and a CR that is created during a teardown may wait for ever.
* `network_serial` without `faults > 0` in `TeardownCompletes`: one failed call between
  VPC and peering, or after the peering's deletion, blocks the last deletion for good
  (`cluster_network_provider.go:513`). And the peering goes before subnets and VPC
  (`provider_postgres.go:625`), where the header of the file wants it to go last.
* `controller_pinned` with `PersistFirst = FALSE`: a crash before the first phase update
  and a changed config map give a CR resources of two providers
  (`postgres_controller.go:172`). Without the condition on the parent in
  `DeletionCompletes`: a snapshot cannot be deleted after its parent
  (`postgressnapshot_controller.go:113`, `redissnapshot_controller.go:111`).
* `providers`: an object put between `getBucketSize` and `emptyBucket` is deleted though
  deletion is not forced (`doc/blobstorage.md:29`); the OpenShift Postgres provider
  deletes its credential secret under another name than it was made under
  (`openshift/provider_postgres.go:214`), so `Made` leaves it out; a Memorystore CR
  without the annotation cannot be deleted (`gcp/provider_redis.go:434`); a Cloud SQL or
  Memorystore instance that was lost is made anew without notice, where AWS reports it.
* `snapshots_safety`: an export that is begun again while the first ends can write its
  object after the CR is gone; a CR that is being deleted still counts as the latest
  complete one, so the schedule may expire the last backup; a snapshot of a replication
  group that is gone ends the operator (`provider_redissnapshot.go:127`); an RDS snapshot
  that is lost is taken again, though `doc/providers_aws.md:8` calls it one-time.
* `cluster_vpc`: of several pod or service networks only the last is compared; a zone
  that is not available counts as one without a private subnet and gets another one on
  every pass (`cluster_vpc.go:212`); a subnet whose tagging failed is not recognised, and
  another is made.
* `strategy_maps`: windows that meet over midnight are not noticed, and AWS refuses them
  for ever; another start of the backup on GCP replaces the whole backup configuration,
  its retention included, and is not compared with the instance, so it never gets there.

## Proofs

Every invariant and every action property that a passing run checks is also a theorem
about all values of the constants, and so is every refinement. Where the run fixes a
switch, the theorem assumes the same setting.

Hardly any of the properties is inductive. Most of the invariants have one shape: what
holds of CR, cloud and secrets at any time, and `Allowed` (or `Knows`, `WorkerInv`),
which says for each label of a worker what it relies on when it makes that call. One
lemma per action shows that the invariant is kept (`XKeeps` for action `X`), mostly by
way of a few lemmas on steps that change the same part of the state, and `Invariance`
puts them together.

| Module | Properties proved | For every | Assuming |
|---|---|---|---|
| `PostgresRDSProofs` | `TypeOK`, `NoOrphanInstance`, `NoOrphanCredentials`, `PublishedSecretOpensDatabase`, `NeverRecreatedAfterService`, `ImplementsManagedResource` | set of passwords | `~ListMayMiss`, but for `TypeOK` |
| `ProvidersProofs` | `PublishedSecretWorks`, `SettingsBeforePublish`, `WindowNotLost`, `ImplementsManagedResource` | choice of providers, set of passwords | |
| `SnapshotsProofs` | `NoOrphan`, `CompleteIsUsable`, `BackupKept` | number of snapshot CRs | |
| `StandaloneNetworkProofs` | `TeardownIsExclusive`; `AtMostOneVpc`, `NetworkGoesWithLastCR`, `NeverCutOff` | set of CRs, VPC ids, number of faults | nothing; `~Races` for the last three |
| `GCPNetworkProofs` | `NetworkGoesWithLastCR`, `InstanceKeepsNetwork` | set of CRs | |
| `ClusterVpcProofs` | `PlanClear`, `GroupSpansZones`, `NoNeedlessSubnet`, `SubnetsExact` | width of addresses, limits, ranges, zones, clusters | |
| `StrategyMapsProofs` | `WindowsAccepted`, `NoLostTimes`, `EditsKept`, `OneRequest` | set of tiers, times and classes, number of changes | |
| `ResourceControllerProofs` | `OneProvider`, `ImplementsManagedResource` | set of strategies | `PersistFirst` |

The assumptions of the last column are the ones that the code does not always meet;
"More disagreements" says what happens without them. Besides, the constants have the
types that the modules' `ASSUME`s give them, which TLC evaluates on the runs. That
`StrategyMaps` has a class at all, and that the mark `None` is neither a class nor a
window, are among them. So are the rule by which powers of two are computed
(`PowerAssumption`), which the provers do not know, and that neither the cluster's VPC
nor a planned one is the whole address space (`ClustersAssumption`, `MasksAssumption`):
an AWS VPC is a /16 to a /28, and the loop of `generateAvailableSubnets` would not end in
a /0.

* `PostgresRDSProofs`: `HoldInv`, by which a worker that is past the finalizer still
  has it, and one about to remove it has seen the instance and the secret gone;
  `AnnoInv`, by which a CR that was served bears the annotation, so that a missing
  instance is an error and not created; and `PassInv`, by which the worker's copy of the
  password is the secret's and the instance's.
* `ProvidersProofs`: `HoldInv`, as above; `ObjectsInv`, which things belong to which
  provider; `PasswordInv`, by which an instance has the password that is still in the
  secret; and `ResultInv`, by which what was published is that one. That a
  window is owed something only while the group differs (`owed => inst.drift`) carries
  `WindowNotLost`. For the refinement every step is sorted by what it does to the CR and
  to what was made: it makes or removes one thing and leaves life and finalizer alone
  (`ThingStep`), writes something else into the CR (`NoteStep`), or is one of the five
  steps named there.
* `SnapshotsProofs`: `CRInv` and `ImageInv` relate the life of a snapshot CR to its
  snapshot, and `ScheduleInv` says of a CR that is listed for expiry or being deleted
  that a newer one is complete and has its object, though the list may be old.
* `StandaloneNetworkProofs`: that one worker at most has been told that it is the last
  holds for any overlap, because a CR counts until its finalizer is gone. The rest
  (`SerialInv`) needs that all other workers are idle: a VPC that the worker has not
  found is not there, and parts of a network exist in the one VPC that does.
* `GCPNetworkProofs`: as long as nothing raced, one CR at a time is being deleted, the
  one that takes the network down is alone, and no other worker has got past the steps
  that use what was taken apart (`Tearing`).
* `ClusterVpcProofs`: the overlap test of the code (either block contains the other's
  first address) is exact (`OverlapsExact`), which rests on blocks being aligned to their
  size; the search for a default returns a block clear of VPC, pods and services
  (`DefaultClear`); `PlanClear` follows. For the subnets, a worker knows of private
  subnets only, which are never removed, and of one for every zone that it is done with
  (`Knows`); a group is made of these. Of the subnets that were added in a zone each is
  the work of a controller that wants no other there (`SpareInv`), and there are two.
  `SubnetsExact` rests on what `generateAvailableSubnets` computes (`SubnetsGenerated`):
  by induction over the rounds of its loop, the list after n rounds holds the blocks that
  the first n addresses lie in (`NetworksExact`), and the loop ends after as many rounds
  as the VPC has addresses, even at the end of the address space, where the count wraps
  (`RoundsExact`). The induction is `NatInduct`, about a set of numbers where the
  library's is about an operator. Along the steps, a worker's candidates are a prefix of
  that list, and the blocks after it are taken and stay so, since no subnet is ever
  removed (`ExactInv`).
* `StrategyMapsProofs`: a pair of windows, wherever it was copied to, comes from one
  request that was not refused (`Sourced`); a caller's copy is the config map as long as
  the API server would take a write of it (`CallerInv`); a key that is missing was not
  edited (`MapInv`).
* `ResourceControllerProofs`: whatever is made was made with the strategy in the status
  (`HeldInv`), and the strategy that the worker uses is that one: for good once the
  finalizer is set, and as long as its copy is fresh before that (`WorkerInv`).

Only model-checked: the liveness properties, which are out of the prover's reach.

## Not modelled

* The cloud metrics controller and the metrics of the providers: they read the clouds
  and set gauges that no other part reads.
* Tags, labels, names, logging and messages: formatting without state. That tagging
  calls fail, and that a subnet without its tag is not recognised, is modelled.
* Settings of a strategy other than windows, class and retention, which are compared in
  the same way; RDS service updates; the grant of database roles on OpenShift, whose
  failure is a failed call; the operator's own credentials, likewise.
* `DeleteBundledCloudResources`, and the choice between standalone and bundled
  networking (`IsEnabled`), which the subnets in the cluster's VPC decide once.
* The life cycle rule of the snapshot bucket; parents of Cloud SQL snapshots that are
  just starting or being deleted.
* The OpenShift and GCP blob storage providers, which make nothing.
* Generated code, mocks, tooling and start-up, which have no behaviour of their own.
* The composition of an instance's life with the network in one state space: the network
  modules reduce an instance to its existence, and the provider modules the network to a
  call that succeeds or fails.
