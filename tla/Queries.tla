------------------------------ MODULE Queries ------------------------------
(***************************************************************************)
(* The RPCs that compute an answer and change nothing (controller.go,      *)
(* node.go, utils.go, store), as operators on what they read: the request, *)
(* statfs, repo/stat and the informer caches.  Integers keep their width,  *)
(* scaled down: MaxInt64 is a parameter and a uint64 ends at 2*MaxInt64+1. *)
(* The one variable is the request that is being answered, with all that   *)
(* its handler reads.                                                      *)
(***************************************************************************)
EXTENDS Integers, SequencesExt

CONSTANTS
  MaxInt64,      \* math.MaxInt64
  DefaultBytes,  \* defaultCapacityBytes
  MaxLength,     \* of the capabilities and of the mount flags of a request
  Handles,       \* snapshot handles
  Sources,       \* handles of the volumes snapshots are taken of
  CacheSize      \* how many VolumeSnapshotContents there are

ASSUME QueriesAssumption ==
  /\ MaxInt64 \in Nat \ {0}
  /\ DefaultBytes \in 1..MaxInt64
  /\ MaxLength \in Nat
  /\ CacheSize \in Nat

VARIABLE request

MaxUint64 == 2 * MaxInt64 + 1
Uint64 == 0..MaxUint64
Int64 == (-MaxInt64 - 1)..MaxInt64

\* Go's conversion int64(v) and its uint64 product.
ToInt64(v) == IF v <= MaxInt64 THEN v ELSE v - (MaxUint64 + 1)
MulUint64(a, b) == (a * b) % (MaxUint64 + 1)

-----------------------------------------------------------------------------
(* NodeGetVolumeStats.                                                     *)

subtractUint64Saturating(a, b) == IF b >= a THEN 0 ELSE a - b

uint64ToInt64Saturating(v) == IF v > MaxInt64 THEN MaxInt64 ELSE ToInt64(v)

\* Mutant: a test of the product after it wrapped.
multiplyUint64ToInt64_late(a, b) ==
  IF MulUint64(a, b) > MaxInt64 THEN MaxInt64 ELSE ToInt64(MulUint64(a, b))

multiplyUint64ToInt64(a, b) ==
  CASE a = 0 \/ b = 0 -> 0
    [] a # 0 /\ b # 0 /\ a > MaxInt64 \div b -> MaxInt64
    [] OTHER -> ToInt64(MulUint64(a, b))

\* The byte half of getVolumeStats, from statfs's block counts.
byteStats(blocks, bfree, bavail, bsize) ==
  [available |-> multiplyUint64ToInt64(bavail, bsize),
   total     |-> multiplyUint64ToInt64(blocks, bsize),
   used      |-> multiplyUint64ToInt64(subtractUint64Saturating(blocks, bfree), bsize)]

\* ... and the inode half.
inodeStats(files, ffree) ==
  [available |-> uint64ToInt64Saturating(ffree),
   total     |-> uint64ToInt64Saturating(files),
   used      |-> uint64ToInt64Saturating(subtractUint64Saturating(files, ffree))]

\* The answer.  No number of it depends on both blocks and files, or on two
\* of bfree, bavail and ffree, so one value stands for each of these groups.
NodeGetVolumeStats(s) ==
  [bytes  |-> byteStats(s.blocks, s.bfree, s.bfree, s.bsize),
   inodes |-> inodeStats(s.blocks, s.bfree)]

\* What the number should be: the exact value, cut at both ends.
Clamp(x) == IF x < 0 THEN 0 ELSE IF x > MaxInt64 THEN MaxInt64 ELSE x

Statfs == [op : {"NodeGetVolumeStats"}, blocks : Uint64, bfree : Uint64,
           bsize : Uint64]

(***************************************************************************)
(* Every number of NodeGetVolumeStats is the exact one, cut to 0 ..        *)
(* MaxInt64, for whatever statfs returns; none wraps around                *)
(* (utils.go:223-266).                                                     *)
(***************************************************************************)
UsageExact ==
  request.op = "NodeGetVolumeStats" =>
    LET bytes  == NodeGetVolumeStats(request).bytes
        inodes == NodeGetVolumeStats(request).inodes
    IN  /\ bytes.total = Clamp(request.blocks * request.bsize)
        /\ bytes.used = Clamp((request.blocks - request.bfree) * request.bsize)
        /\ bytes.available = Clamp(request.bfree * request.bsize)
        /\ inodes.total = Clamp(request.blocks)
        /\ inodes.used = Clamp(request.blocks - request.bfree)
        /\ inodes.available = Clamp(request.bfree)

-----------------------------------------------------------------------------
(* Capacities.                                                             *)

\* Mutant: without the test for a repository above its maximum.
GetCapacity_unclamped(storageMax, repoSize) ==
  ToInt64((storageMax - repoSize) % (MaxUint64 + 1))

GetCapacity(storageMax, repoSize) ==
  ToInt64(IF storageMax <= repoSize THEN 0 ELSE storageMax - repoSize)

RepoStat == [op : {"GetCapacity"}, storageMax : Uint64, repoSize : Uint64]

(***************************************************************************)
(* GetCapacity "returns free space" (controller.go:404): exactly, 0 for a  *)
(* repository that outgrew its maximum, for every free space an int64 can  *)
(* hold; and never does it promise more than there is, whatever repo/stat  *)
(* answers (controller.go:419-435).                                        *)
(***************************************************************************)
CapacityExact ==
  request.op = "GetCapacity" =>
    LET free     == request.storageMax - request.repoSize
        capacity == GetCapacity(request.storageMax, request.repoSize)
    IN  /\ free <= MaxInt64 => capacity = Clamp(free)
        /\ capacity <= Clamp(free)

\* A capacity range: absent, or required_bytes and limit_bytes.
Ranges == [op : {"ExpandVolume"}, given : BOOLEAN, required : Int64,
           limit : Int64]

\* Mutant: the limit is looked at first.
parseCapacityFromRequest_limitFirst(r, default) ==
  LET size == IF r.limit = 0 THEN r.required ELSE r.limit
  IN  IF ~r.given \/ size <= 0 THEN default ELSE size

parseCapacityFromRequest(r, default) ==
  LET size == IF r.required = 0 THEN r.limit ELSE r.required
  IN  IF ~r.given \/ size <= 0 THEN default ELSE size

\* The size expanded to, or 0 for InvalidArgument.
ControllerExpandVolume(r) ==
  LET size == parseCapacityFromRequest(r, 0)
  IN  IF size <= 0 THEN 0 ELSE size

NodeExpandVolume(r) == parseCapacityFromRequest(r, DefaultBytes)

(***************************************************************************)
(* The two halves of an expansion agree: for any range the controller      *)
(* accepts, controller and node report the same size, which is the least   *)
(* one the range asks for; and the controller accepts every well-formed    *)
(* range (controller.go:613-631, node.go:331-348).                         *)
(***************************************************************************)
ExpansionAgrees ==
  request.op = "ExpandVolume" =>
    LET r    == request
        size == ControllerExpandVolume(r)
        wellFormed == /\ r.given /\ r.required >= 0 /\ r.limit >= 0
                      /\ r.required > 0 \/ r.limit > 0
                      /\ r.limit > 0 => r.required <= r.limit
    IN  /\ size > 0 => NodeExpandVolume(r) = size
        /\ wellFormed => /\ size > 0 /\ size >= r.required
                         /\ r.limit > 0 => size <= r.limit
                         /\ r.required > 0 => size = r.required

-----------------------------------------------------------------------------
(* ValidateVolumeCapabilities, the loop over the requested capabilities.   *)

Supported == {"MULTI_NODE_READER_ONLY", "SINGLE_NODE_WRITER",
              "SINGLE_NODE_READER_ONLY"}
AccessModes == Supported \cup {"MULTI_NODE_MULTI_WRITER", "nil"}

\* Mutant: an unsupported mode ends the test of that capability alone.
checkMode_goesOn(mode, answer) ==
  CASE mode = "nil" -> answer
    [] mode \in Supported -> "confirmed"
    [] OTHER -> IF answer = "confirmed" THEN answer ELSE "message"

\* One turn of the loop; a message returns at once.
checkMode(mode, answer) ==
  CASE answer = "message" -> answer
    [] answer # "message" /\ mode = "nil" -> answer
    [] answer # "message" /\ mode \in Supported -> "confirmed"
    [] OTHER -> "message"

ValidateVolumeCapabilities(found, modes) ==
  CASE modes = <<>> -> "InvalidArgument"
    [] modes # <<>> /\ ~found -> "NotFound"
    [] OTHER -> FoldLeft(LAMBDA answer, mode : checkMode(mode, answer), "nothing", modes)

Capabilities ==
  UNION {[op : {"ValidateVolumeCapabilities"}, modes : [1..n -> AccessModes]]
         : n \in 1..MaxLength}

(***************************************************************************)
(* A list of capabilities is confirmed only if the driver supports every   *)
(* access mode in it, wherever the unsupported one stands                  *)
(* (controller.go:301-320).                                                *)
(***************************************************************************)
ConfirmedIsSupported ==
  request.op = "ValidateVolumeCapabilities" =>
    LET named == ToSet(request.modes) \ {"nil"}
    IN  ValidateVolumeCapabilities(TRUE, request.modes) =
          CASE named = {} -> "nothing"
            [] named # {} /\ named \subseteq Supported -> "confirmed"
            [] OTHER -> "message"

-----------------------------------------------------------------------------
(* ListSnapshots and the snapshot store.                                   *)

\* A VolumeSnapshotContent: its driver is this one; the handle in its
\* status, once taken, and in its spec, if it was made by hand.
Contents == [own : BOOLEAN, status : Handles \cup {""},
             spec : Handles \cup {""}, source : Sources \cup {""}]

\* Mutant: only the status is looked at.
snapshotHandle_statusOnly(c) == c.status

snapshotHandle(c) == IF c.status = "" THEN c.spec ELSE c.status

\* vscStore.ListSnapshots: the objects that pass, as indices into the cache.
vscToSnapshotEntries(cache, handle, source) ==
  {i \in DOMAIN cache :
     /\ cache[i].own
     /\ handle # "" => snapshotHandle(cache[i]) = handle
     /\ source # "" => cache[i].source = source}

\* The answers possible, with a snapshot store: the lister's order is not
\* fixed, the rest is cut.
ListSnapshots(cache, handle, source, max) ==
  LET all == vscToSnapshotEntries(cache, handle, source)
  IN  {S \in SUBSET all : \/ max = 0 /\ S = all
                          \/ max > 0 /\ Cardinality(all) <= max /\ S = all
                          \/ max > 0 /\ Cardinality(all) > max /\ Cardinality(S) = max}

Listings ==
  [op : {"ListSnapshots"}, cache : [1..CacheSize -> Contents],
   handle : Handles \cup {""}, source : Sources \cup {""}, max : 0..CacheSize]

(***************************************************************************)
(* The snapshots of a CID are all counted, those taken by the driver and   *)
(* those imported by hand, and no other driver's; a limited listing lacks  *)
(* entries only if it is as long as its limit, which is the only sign its  *)
(* caller gets, as no token is returned (controller.go:584-605,            *)
(* volume_snapshot_content.go:64-136).                                     *)
(***************************************************************************)
SnapshotsListed ==
  request.op = "ListSnapshots" =>
    LET q   == request
        due == {i \in DOMAIN q.cache :
                  /\ q.cache[i].own
                  /\ q.source \in {"", q.cache[i].source}
                  /\ \/ q.handle \in {"", q.cache[i].status}
                     \/ q.cache[i].status = "" /\ q.cache[i].spec = q.handle}
    IN  \A S \in ListSnapshots(q.cache, q.handle, q.source, q.max) :
          S \subseteq due /\ (S # due => Cardinality(S) = q.max)

-----------------------------------------------------------------------------
(* buildMountOptions.                                                      *)

\* What the request itself asks for comes first.
firstOptions(readonly) == IF readonly THEN <<"bind", "ro">> ELSE <<"bind">>

addFlag(options, flag) ==
  IF flag = "" \/ Contains(options, flag) THEN options
                                         ELSE Append(options, flag)

\* Mutant: only the flags are compared with each other.
buildMountOptions_flagsOnly(readonly, flags) ==
  firstOptions(readonly) \o FoldLeft(addFlag, <<>>, flags)

buildMountOptions(readonly, flags) ==
  FoldLeft(addFlag, firstOptions(readonly), flags)

MountFlags == {"", "ro", "rw", "bind", "noexec"}

Publishes ==
  UNION {[op : {"NodePublishVolume"}, readonly : BOOLEAN,
          flags : [1..n -> MountFlags]] : n \in 0..MaxLength}

(***************************************************************************)
(* The options of a mount are all that the request and the StorageClass    *)
(* ask for, each once, in the order in which they first come; so a flag of *)
(* the StorageClass that contradicts the request comes after it and has    *)
(* the last word with mount(8) (node.go:199-227, node_test.go:135-190).    *)
(***************************************************************************)
OptionsMerged ==
  request.op = "NodePublishVolume" =>
    LET asked   == firstOptions(request.readonly) \o request.flags
        options == buildMountOptions(request.readonly, request.flags)
        first(x) == CHOOSE i \in DOMAIN asked :
                      asked[i] = x /\ \A j \in 1..(i - 1) : asked[j] # x
    IN  /\ ToSet(options) = ToSet(asked) \ {""}
        /\ \A i, j \in DOMAIN options :
             i < j => first(options[i]) < first(options[j])

-----------------------------------------------------------------------------
NoRequest == [op |-> "none"]

Requests == Statfs \cup RepoStat \cup Ranges \cup Capabilities
            \cup Listings \cup Publishes

QueriesTypeOK == request \in Requests \cup {NoRequest}

QueriesInit == request = NoRequest

Ask == request = NoRequest /\ request' \in Requests

Reply == request # NoRequest /\ request' = NoRequest

QueriesNext == Ask \/ Reply

QueriesSpec == QueriesInit /\ [][QueriesNext]_request

=============================================================================
