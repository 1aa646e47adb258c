# A formal model of csi-driver-ipfs

TLA+ modules, TLC configurations and TLAPS proofs for the Kubernetes CSI driver
that keeps volumes in IPFS. Line numbers refer to the repository's own files.

## The system

| part | code | state it keeps | operations |
|---|---|---|---|
| volume locks | `pkg/driver/lock` | a set of keys behind a mutex | `TryAcquire`, `Release` |
| controller service | `pkg/driver/controller.go`, `utils.go` | none of its own: handlers are goroutines with local state; locks are per process | `CreateVolume`, `DeleteVolume`, `CreateSnapshot`, `DeleteSnapshot`; listings, capacity, expansion |
| node service | `pkg/driver/node.go` | the staging directory and the bind mounts of a node | stage, publish, unpublish, unstage; stats, expansion |
| IPFS client | `pkg/ipfs` | none; the Kubo node keeps pins and the MFS tree | stat, pin, unpin, mkdir, rm, cp, export, import |
| stores | `pkg/driver/store` | none; they read informer caches | `GetVolumeAttributes`, `ListVolumes`, `ListSnapshots` |
| informers | `pkg/kubernetes` | the two caches | start and first list, watch events |
| process | `cmd/csi-driver-ipfs`, `driver.go`, `identity.go` | whether a snapshot store exists (fixed at start); the socket file, which outlives it | start, serve, probe, graceful stop |

How they interact. The external-provisioner and external-snapshotter sidecars call
the controller over gRPC and record its answers in PersistentVolumes and
VolumeSnapshotContents; the informers bring those objects back to the driver with
a delay; the controller's reference counting reads them there, never from the API.
The kubelet calls the node service, which copies a volume out of MFS when it stages
and writes it back when it unstages. Controller and nodes share nothing but the Kubo
node and the API objects.

What is hard:

- a handler's steps interleave with those of other handlers; locks are per volume ID,
  per snapshot name and per snapshot CID, and so never cover two owners of one CID;
- a caller's timeout does not stop the handler, so a retry can run beside it;
- a call on the IPFS node can fail, or be carried out although it is seen to fail;
- caches lag, in both directions;
- a restart of the controller loses handlers and locks, not pins, trees or objects;
- the node service has no lock, and its staging directory is the only copy of
  a pod's writes until an import has succeeded;
- MFS paths nest, `files/rm` is recursive, and an `mfspath` may be the MFS root itself or
  lie inside another volume's path: nothing in the code keeps two volumes apart;
- controller and nodes work on one MFS tree without a lock between them: a snapshot or
  a deletion can meet an import half-way;
- the pages of a listing are cut from a cache that moves between them, by positions;
- a signal, a kill or a failing probe can hit the process anywhere between its flags
  and its last answer.

What correctness means, per component: locks are held exactly by the handlers that
work under them; creating, restoring and deleting volumes never touches the tree or
the pin of another; pins and trees are neither lost nor leaked; the pin policy is
kept; nothing is created outside the MFS root; deletions and provisioning end; a pod
sees what was last written, and MFS keeps it once no node has the volume; snapshots
are whole and deleted volumes leave nothing; a listing shows what was there all the
time once and ends; numbers do not wrap; the process answers from synced caches and
comes back to serve.

## The modules

| module | models | notes |
|---|---|---|
| `CsiTypes` | CIDs, MFS paths, volume attributes, `normalizeMFSPath` | a CID *is* its content (a set of files); a path has raw spellings and one clean form; `Below` says which paths are inside which, `Apart` that neither of two is in the other |
| `VolumeLocks` | `pkg/driver/lock` | each method is one step, as the mutex makes it |
| `IpfsClient` | `pkg/ipfs` and the Kubo node behind it | every call ends `ok`, `err` (no effect) or `late` (effect, but the caller sees an error); rm takes what is below the path along, mkdir makes what leads to it |
| `Stores` | stores and informers | API objects, one queue of watch events per kind, caches |
| `Controller` | the four controller RPCs that change state, their callers | composes the four modules above |
| `KeyMutex` | what the locks promise: a mutex per key | abstract; `Controller` implements it (`ImplementsMutex`) |
| `NodeService` | stage, publish, unpublish, unstage of one volume on several nodes | composes `IpfsClient` with the kubelet and the pods |
| `SharedVolume` | what the node service promises: a register one node at a time has open | abstract; `NodeService` implements it (`ImplementsRegister`) |
| `Cluster` | controller and nodes on one Kubo node | instances of `Controller` and `NodeService` that share `mfs`, `pinned` and the budgets |
| `Paging` | `ListVolumes`, as the pages of a listing | a volume ID is its place in the string order |
| `Queries` | the RPCs that only compute: stats, capacity, expansion, capabilities, `ListSnapshots`, mount options | 64-bit integers scaled down by the parameter `MaxInt64` |
| `Service` | the process: flags, informers, listening, `GracefulStop`, `Probe`, restarts | API content abstracted to a version per kind |
| `MCController`, `MCNode`, `MCCluster`, `MCQueries`, `MCService` | instances for TLC | |
| `ControllerProofs`, `VolumeProofs`, `PinProofs`, `NodeProofs`, `ClusterProofs`, `ServiceProofs`, `PagingProofs`, `QueriesProofs` | theorems | `VolumeProofs` builds on `ControllerProofs`, `PinProofs` on `VolumeProofs`; `ClusterProofs` takes `PinProofs` and `NodeProofs` by `INSTANCE` |

**Controller.** `h[c]` is handler goroutine `c`: the call it makes next (`pc`), its
operation and object, its lock key and the local variables that later steps use. A
handler is split at every call that leaves the process and at every read of a cache.
A step that returns includes the deferred `Release`; the reply reaches the sidecar in
a later step (`Reply`), which writes or deletes the API object and its watch event.
`Abandon` is the caller's deadline: the context is done, the call under way may or
may not be carried out, later calls are not sent, the handler runs to its end and the
sidecar may call again. `Crash` is a new process. `phase` is what Kubernetes thinks
of an object; `held` remembers which objects' own create call pinned their CID.
`NodeImport` stands for a node's unstage and is one step here; its inside is
`NodeService`. Finalizers are modelled: a snapshot or a source volume is not released
while a call that uses it is waited for.

**NodeService.** `dir` is the staging directory of each node (`None`: not there),
`mounted` the pods bound to it. `staged` and `published` are what the kubelet knows:
an unanswered call leaves `"uncertain"`, after which it asks again. The constant
`Allow` lists the freedoms of the environment an instance has (failing calls, failing
rm, failing mounts, timeouts of each RPC, plugin and kubelet restarts, a pod coming
back before the unstage has ended, handover to another node, a PV missing from the
cache). The passing runs allow what the properties survive; each violating run allows
one freedom more.

**Cluster.** The controller's handlers and the nodes' handlers interleave step by step
on one MFS path. `haste` says what users do not wait for: deleting a claim as soon as
no pod wants it although a node still unstages (pvc-protection looks at pods only, and
`attachRequired` is false), taking snapshots while the volume is in use, and calls that
overlap. `saved` remembers the contents the application left when a pod ended.
`NodeImport` of `Controller` is not used here: the real import takes its place.

**Paging.** `Begin` starts a listing, `ListVolumes` is one call, `ViewChanges` any change
of the informer cache. `always`, `rising` and `falling` are history: which volumes were
in every view, and whose position only rose or only fell. Two PVs with one volume
handle are outside the model.

**Queries.** One request is in the variable `request` together with all its handler
reads; the answer is an operator on it, and a property relates the two. For stats, one
value stands for counts that no number of the answer depends on together.

**Service.** `pc` walks through `main`; `Reflect` is a reflector's list or watch event,
which a signal ends; one call may be in flight. What is left behind by a life is `path`,
the thing at the socket path. A listener whose `Serve` was overtaken by `GracefulStop`
may or may not remove its socket, hence the choice in `Serve`. Three things may go wrong
without a stop: the discovery request, removing the socket or listening, and a running
`Serve` (`ServeFails`), which ends in `Fatal` and drops the call in flight. That
`GracefulStop` waits for the calls in flight is what grpc promises, and its guard.
`Probe` stands for the identity RPC together with the liveness sidecar and the kubelet that act on it.

Left out on purpose: log output, error texts, modes and symlinks of files, nested
directories of a volume (a tree is its set of files; what lies at another path of `Paths`
inside it is not among them, so the CID of a volume around another one lacks the other's
files), the driver-name filter of the PV store (the
API objects are those of this driver).

## Runs

`v1 v2 v3` are claims, `s1 s2` snapshots of `v1`, `f1 f2` files, `c1 c2` handlers,
`a b` nodes. Handlers (and nodes) are interchangeable, hence `SYMMETRY` in the
invariant runs; the liveness runs use none. `CHECK_DEADLOCK FALSE` for the controller,
node and cluster runs: once every object is gone and every budget spent, the system has
nothing left to do. `service` and `queries` check deadlock.

| run | result | what it shows |
|---|---|---|
| `controller_concurrent` | holds | `TypeOK`, `LockDiscipline`, `NoClobber`, `RestoreExact`, `UnderRootOnly`, `StrictPolicyPins`: two handlers at once, two faults, a restore, refused and accepted parameters, the MFS root as a volume |
| `controller_owners` | holds | `PinSafety` for five owners of one CID, calls one at a time, two faults, best-effort policy; `DriftBounded`: pins and trees differ from what objects own by at most one per fault |
| `controller_liveness` | holds | `DeletionsComplete`, `ProvisioningCompletes`; `ImplementsMutex`, the refinement of `KeyMutex` |
| `node_data` | holds | `TypeOK`, `PodSeesData`, `DataKept` on two nodes, for a read-write volume and one by CID; `ImplementsRegister`, the refinement of `SharedVolume` |
| `node_liveness` | holds | `UnstageCompletes`, `PodStarts` |
| `cluster` | holds | `ControllerSparesData` whatever users do; `SnapshotWhole`, `NothingLeft` for users who wait |
| `service` | holds | `ServiceTypeOK`, `AnswersKnowThePast`, `ServesInTheEnd` over right and wrong flags, stops and mishaps |
| `queries` | holds | `TypeOK`, `ListedOnce`, `ListingEnds`, `UsageExact`, `CapacityExact`, `ExpansionAgrees`, `ConfirmedIsSupported`, `SnapshotsListed`, `OptionsMerged` |
| `race_pins` | violated | `PinSafety` once calls overlap: a create between check and unpin |
| `snapshot_retry` | violated | `SnapshotIdempotent`: the volume changed before the retry |
| `node_kubelet_restart` | violated | `PodSeesData`: staged again under a running pod |
| `late_import` | violated | `TreeRemoved`: an import arrives after `DeleteVolume` |

Each violated property states what a comment, a test or a page of the docs says;
`PROJECT.json` quotes the line.

Other freedoms break the node properties too. Each of these, given to `node_data` (or
`node_liveness`) as the only freedom of the read-write volume, yields a counterexample:

| change | property | what happens |
|---|---|---|
| `{"rm_error"}` | `DataKept` | the rm of an import fails and is ignored (client.go:484); deleted files stay |
| `{"handover"}` | `DataKept`, `PodSeesData` | the imports of two nodes arrive in the wrong order |
| `{"ipfs_error", "pod_back"}` | `PodSeesData` | after a failed import, staging again empties the only good copy |
| `{"stale_pv"}` | `DataKept` | the import is skipped (node.go:93-98) |
| `{"stage_timeout"}` | `DataKept`, `ImplementsRegister` | unstage imports a half-filled directory (node.go:102) |
| `{"unstage_timeout"}` | `DataKept` | an abandoned import and its retry run at once |
| `{"unstage_timeout"}` | `UnstageCompletes` | the empty directory is already removed, the retry cannot open it (client.go:493) |
| `{"rw_mount"}` for the volume by CID | `PodSeesData` | the mount follows the request, not the volume (node.go:205); the writes are gone with the pod |
| `Staging = FALSE`, `{"kubelet_restart"}` | `PodSeesData` | a repeated publish refills the mounted directory (node.go:157) |

Likewise for the other runs:

| run, change | property | what happens |
|---|---|---|
| `controller_owners`, `Overlap = TRUE`, `MaxFaults = 0` | `DriftBounded` | a volume deleted before the informer has its PV is not cleaned up (controller.go:255); two owners deleted together each count the other, and neither unpins (utils.go:138) |
| `controller_owners`, a claim restored from a snapshot, `Remote = {}`, `MaxWrites = 2` | `DriftBounded` | a snapshot whose pin failed loses its content when its source is overwritten; the restore creates the directory, then answers NotFound (controller.go:202) and leaves the empty tree at no further fault |
| `controller_owners`, `SnapshotStore = FALSE` | `PinSafety` | a deleted volume takes the pin of a snapshot (utils.go:160-165); one failed discovery request at start is enough to get there (snapshot_api.go:30) |
| `controller_concurrent`, two claims with one `mfspath` | `NoClobber` | deleting one volume removes the tree of the other |
| `controller_concurrent`, `v1` with the MFS root as `mfspath`, `v2` at its default path | `NoClobber` | `normalizeMFSPath` accepts the root (utils.go:204); deleting `v1` removes `v2` with it (client.go:365-387) |
| `controller_concurrent`, `v2` restored from a snapshot of `v1` to the MFS root | `NoClobber` | the import begins with an rm of the root (client.go:484) and removes its own source |
| `queries`, `capacity >= 0` in `CapacityExact` | `CapacityExact` | `int64(available)` of a free space above `MaxInt64` is negative (controller.go:432), though the comment at controller.go:404-407 promises the free space in bytes |
| `queries`, "`rw` is no later than `ro`" for a read-only publish | `OptionsMerged` | a flag `rw` of the StorageClass comes after the request's `ro` (node.go:213-224), and mount(8) lets the last one win |
| `cluster`, `HasteSet = {{"snapshot"}}` | `WholeSnapshots` | a snapshot taken during an import has a part of the files (controller.go:499) |
| `cluster`, `HasteSet = {{"overlap"}}` | `TreeRemoved` | the delete comes before the PV is in the cache |

**Bounds.** Two handlers are enough for every pairwise overlap (a call and its retry,
two owners), which is where all counterexamples come from. Two faults allow a
give-up followed by a failure or restart; in `node_data` three faults allow a failed
import with a failed retry and a failed stage after it. Two files let a tree be
partly copied, one file where only the identity of a CID matters. One import
(`MaxWrites`) makes a volume's content equal to the shared CID. Three owners by
volume and two by snapshot give every combination of "other volumes" and "other
snapshots" at a deletion, with `pinning` off for one of them. Three pods let a node be
left and come back to. `cluster` has two controller handlers (a call and its abandoned
predecessor), one node with two pods in turn and one fault. `queries` takes all inputs
of 5-bit integers (`MaxInt64 = 15`), where every overflow and boundary of the formulas
occurs, four volumes in pages of one, two or all, and lists of up to three flags or
capabilities. `service` allows three stops, so that a life can end in a signal, a kill
and an outage, two mishaps (discovery, listening, `Serve`) and two versions of each kind
of object. The paths of the controller's instances are the MFS root, the default paths and
one more below it, and one outside.

**Fairness.** `controller_liveness` assumes weak fairness of each handler's steps and
of its reply (gRPC runs a handler to its end and IPFS calls have a context), weak
fairness of the informers (watches deliver), and strong fairness of the calls for an
object: the sidecars' work queues retry with backoff while an object is unfinished,
and a worker is free again and again but not continuously. `node_liveness` assumes
weak fairness of handlers, replies and the kubelet's reconciler. Faults come from a
budget, so "eventually" means "once failures stop". `service` assumes weak fairness of
`main`, of the reflectors (client-go retries with backoff), of a running handler (IPFS
calls end with their context) and of kubelet's restarts and probes, and that IPFS comes
back; nothing need be called, changed or stopped. `queries` assumes only that a caller
with a token asks for the next page.

**What the passing runs do not say.** `controller_owners` holds for calls made one at
a time with current caches (`Overlap = FALSE`); `race_pins` and the table above show
that this is needed. `DriftBounded` is about claims without a snapshot source, as the table
shows. `controller_concurrent` gives every claim a path of its own, apart from the others:
with equal or nested paths `NoClobber` is false, as the table shows.
`node_data` holds without the freedoms listed above; each of the counterexamples
shows why. `CapacityExact` demands the free space wherever an `int64` can hold it, and
never more than there is; above that the code answers a negative number, which the table
has. `OptionsMerged` says in which order options come, not that a read-only request stays
read-only. `ListedOnce` is as strong as index
tokens allow: a volume may be missed or repeated when others vanish or appear.

## Proofs

**Controller** (`ControllerProofs`), for all constants that satisfy the named
assumptions (finite sets of names and snapshots, `None` distinct from data, clean paths
fixed by `Clean`, a nesting of the paths that is transitive and irreflexive; a default path
need not be accepted, as under the MFS root `/`, where utils.go:204 accepts `/` alone):

- `TypeCorrect`: `Spec => []TypeOK`;
- `LocksExclusive`: `Spec => []LockDiscipline`.

Neither is inductive. A step reads fields an earlier step has set (`cid` at an unpin,
`path` at an import), so `HandlerOK` says which are set where and which operation each
step belongs to; a call for a bound or released object reads its PV or snapshot
handle, so `ObjectsOK` says that the API still has it. `IndInv` is the conjunction of
the four. It holds on the instances of `controller_concurrent` and `controller_owners`
as well (their cfg with `IndInv` as the invariant).

The argument: each handler step is shown to be a `HandlerMove` (one handler changes,
keeps its key, and either goes on with the locks unchanged or returns and releases
its key) with `CallEffects` (well-typed effects on the IPFS node and nothing else);
each arriving call is a `HandlerStart` (refused without a lock, or with a key that was
free). `MoveKeepsIndInv` and `StartKeepsIndInv` then cover all of them at once.
Replies, give-ups, restarts and the environment have a lemma each.

**Volumes and snapshots** (`VolumeProofs`), from the same assumptions:

- `NothingOutsideRoot`: `[]UnderRootOnly`, and `StrictPolicyHolds`: `[]StrictPolicyPins`;
- `BoundVolumesUntouched`: `[]NoClobber`, and `RestoresAreExact`: `[]RestoreExact`, for
  instances with `DistinctVolumes` (different claims have different volume IDs, and the
  path of none is the path of another or inside it). The rows with two claims on one
  `mfspath` and with the MFS root in the table above show that this is needed
  (`MCController` assumes it, so those rows are reproduced without its
  `DistinctAssumption`); TLC evaluates it in every controller run.

`NoClobber` is about a removal by one handler and the volume of another, so the invariant
`VolumeInv` says who is working on what: a volume operation holds the key of its volume
(`KeysOK`); an object is in the phase its calls are made in, and a CreateVolume that holds
its lock, given up on or not, is for a volume not yet bound (`PhasesOK`); the sidecar waits
for one call per object, and none succeeds while an older one still creates (`OneCall`);
the API and the cache hold what CreateVolume answered or nothing (`ContextsOK`); and each
handler is in the branch its claim selects, at the path of its claim, and what there is
in MFS is a claim's tree or leads to one (`BranchInv`). Paths that are apart stay so
under an rm and a mkdir of either: what a step changes is not apart from its own path
(`StepWrites`), so it is not the tree of another volume (`OwnTree`).
`RestoreExact` needs in addition (`RestoreInv`) that a DeleteVolume is about to remove its
own volume's tree only (`DeletionOK`), that all attempts for a volume copy one snapshot
(`SourceOK`), how far a copy has come (`TreeOK`), and that what earlier attempts left is
part of that snapshot (`LeftoversOK`): then a copy that refused no file is exact.

**Pins** (`PinProofs`): `PinsAreKept`, `[]PinSafety`, for any number of volumes and
snapshots that share a CID, when calls come one at a time (`~Overlap`), the process has a
snapshot store and distinct names have distinct IDs (`DistinctIDs`). The first two are
what `controller_owners` assumes, and the tables above have a counterexample for each;
references are counted by ID (utils.go:143), so two volumes with one ID would not see each
other. `PinInv` says that there is one handler at a time and that it finds the caches
current (`Serial`), that a cache differs from the API by one event at most (`CachesOK`),
which objects can have pinned (`HeldOK`), that a pin a handler reports is there when it
returns (`PinnedOK`), and what a count of 0 means for the steps after it (`CountedOK`):
no dependent volume after the first list, no dependent at all at the unpin. The snapshot
being deleted is in the cache itself, which is why one is taken off the count; that this
is right needs two lemmas on cardinalities (`NoSnapshotRefs`, `OnlyOwnSnapshot`).

**Drift** (`PinProofs`): `DriftIsBounded`, `[]DriftBounded`, under the hypotheses of
`PinsAreKept` with `DistinctVolumes` for `DistinctIDs` (trees matter too), and for claims
without a snapshot source (`NothingRestored`). They hold in the instance of
`controller_owners`, where TLC also checks the inductive invariant `DriftInv`; the table
has counterexamples with overlapping calls and with a restored claim. What can be out of step are pins and trees, collected in one set
`Drift`; directories that only lead to a volume's path (`Leads`) are no drift and not
among the `Trees` it counts; a call works on at most one of them (`Thing`). The bound alone is not inductive,
since a call in the middle has pinned what nothing owns yet. `Accounted` says where the
call stands: it has met a fault that pays for its thing, or it has not yet touched it and
the drift is bounded as it is, or it is past its last doubtful step and the drift its reply
will leave (`After`) is bounded. The deletions need in addition that the counts are exact,
not only safe (`KnownOK`): with current caches `cidReferenceUsage` finds exactly the other
owners (`VolumesFound`, `SnapshotsFound`), so a pin that is left has one. Every handler step
is a `DriftMoves`, and `CountedApart` turns the bound on `Drift` into the one on the two
cardinalities by an injection.

**Locks** (`ControllerProofs`): `LocksImplementMutex`, `Spec => ImplementsMutex`. The
refinement mapping `Owns` reads the pairs of key and handler off the handlers. A
`HandlerStart` is an `Acquire` of a key that `LockDiscipline` says nobody has, a
`HandlerMove` is a stutter or a `GiveBack`, a restart is `NewProcess`, all else stutters.

**Node service** (`NodeProofs`), for any nodes, files, contents and budgets:

- `NodeTyped`: `[]TypeOK`, without further hypotheses;
- `PodsSeeData`: `[]PodSeesData`, and `DataIsKept`: `[]DataKept`, under `KeepsData`:
  staging is on and the environment has at most the freedoms named below;
- `IsARegister`: `Spec => ImplementsRegister`, under `KeepsData` and `OneNodeAtATime`.

What `KeepsData` allows for a read-write volume are failing calls, failing mounts and
abandoned publishes; for a volume by CID everything but abandoned stages, kubelet restarts
and writable mounts. TLC evaluates both hypotheses for `node_data`; the table above shows
what goes wrong without them. The type invariant needs which local variables are set at
each step (`HandlerOK`). The data invariant `DataInv` says that at most one call that is
still waited for is under way on each node, and what the kubelet knows then (`OneCall`,
`CallOK`); what the staging directory holds at each step of a fetch (`StageOK`) and when
nothing runs (`NodeOK`); that without handover at most one node has the volume
(`Exclusive`); and that what the application wrote is in the staging directory until the
import is complete, and in MFS when no node has the volume (`WrittenOK`). Every handler
step is first brought to one form (`Stepped`: which handler moves, what it may change),
and the lemmas about the invariant's parts are about that form. The refinement reads the
register's content off the staging directory of the node that has the volume, or off MFS
when none has.

**Cluster** (`ClusterProofs`), for any instance of both components whose shared constants
agree (`ComponentAssumption`) and whose volume has an accepted default path
(`ClusterAssumption`), with `DistinctVolumes` and `KeepsData`, which hold in the
instance of `cluster`:

- `ClusterSparesData`: the controller leaves the data of a volume that nodes use alone;
- `ClusterSnapshotsWhole`: a snapshot of the volume, taken by users who wait until
  no node has it, holds what a pod left and never part of an import (`OnlyOfVol`: all
  snapshots are of the shared volume); this is so with overlapping calls too;
- `ClusterLeavesNothing`: with such users, calls one at a time and no failed call, a
  deleted volume leaves no tree.

The invariants `ClusterInv`, `SnapshotInv` and `RemovalInv` join what was proved of the
parts (`VolumeInv` and `RestoreInv` of the controller, `DataInv` of the nodes) with what
ties them together: a node has the volume only while its claim is bound. Each component
sees a step of the other as a change of the volume's tree and of the directories that
lead to it (`WritesAt`), at a time its own invariant allows one; `SameController` and `SameNodes` relate the actions of the composition to those
of the proof modules. A snapshot is whole because no node has the volume while a snapshot is
awaited, so that the tree it resolves is the data; the removal rests on `Serial` and
`CachesOK` of the pin proof and on no node having the volume once it is released.

**Process** (`ServiceProofs`), for any number of stops, outages, mishaps and versions:
`ServiceTyped`: `[]ServiceTypeOK`; `PastIsKnown`: `[]AnswersKnowThePast`;
`WrongFlagsNeverServe`: a process with flags that `main` refuses is never past its
checks. `ServiceInv` relates two places that share no variable: an informer that has listed knows everything older than its process,
and a process past `WaitForCacheSync` has informers that have all listed.

**Listings** (`PagingProofs`): `ListingIsRight`, `PagingSpec => []ListedOnce`, for any
finite set of volume IDs and any page sizes. The inductive part, `BetweenPages`, speaks
of positions: of the volumes that were there all the time, those that never fell and
stand before the token have been listed, and those that never rose have been listed at
most once and only before the token. It rests on what `Index` does when the view changes.

**Queries** (`QueriesProofs`): `StatsAreExact`, `CapacityIsExact`, `ExpansionsAgree`,
for every `MaxInt64 > 0` and every default size; `ListingsAreWhole`, `[]SnapshotsListed`,
for caches of any size. A request is always one of those asked (`QueriesTyped`, a lemma).
The lemma behind the first is that the
division test of `multiplyUint64ToInt64` is exact (`DivisionTest`), so that the product
does not wrap where it is used.

Only model-checked:

- all liveness: fairness and `ENABLED` are beyond the prover;
- `ConfirmedIsSupported` and `OptionsMerged`: what a fold over a sequence computes needs
  induction over sequences;
- `TypeOK` of `MCQueries`, which joins the state of two independent modules.

## Not modelled

- RPCs that decide nothing: capabilities, `NodeGetInfo`, `GetPluginInfo`,
  `ControllerGetVolume`, `ControllerModifyVolume`, controller publish and unpublish.
- A Kubo request that takes effect after its handler has returned; a claim cancelled
  between its pin and its PV.
- Two names that sanitize to one volume ID: the assumption allows it, the instances
  use the provisioner's distinct names.
- `AddPath` and `ReadCID` of the IPFS client, which no handler calls; a CID that is a
  single file (`writeNodeToDir` calls it `data`); the Kubernetes client construction.
- Logging, middleware, mocks, charts and the end-to-end framework.

## Plan

1. *Done:* locks, IPFS client, stores, controller, node service, their composition;
   listings, queries and the process; refinements of a mutex and of a shared register;
   type correctness, lock discipline, the mutex, listings and arithmetic proved.
2. *Done:* proofs of the controller's invariants, of `PinSafety` for calls one at a time,
   of the process and of the node service with its refinement of `SharedVolume`.
3. *Done:* the invariants of `Cluster` from those of its two components, and
   `DriftBounded`. No safety invariant of the controller, the nodes, their composition,
   the process or the listings is left to model checking alone.
