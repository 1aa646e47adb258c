--------------------------- MODULE QueriesProofs ---------------------------
(***************************************************************************)
(* The numbers of NodeGetVolumeStats, GetCapacity and the expand calls are *)
(* right for integers of every width: MaxInt64 is any positive number.     *)
(***************************************************************************)
EXTENDS Queries, TLAPS

\* The overflow test by division is exact: a > M / b iff a * b > M.
LEMMA DivisionTest ==
  ASSUME NEW a \in Nat, NEW b \in Nat \ {0}, NEW M \in Nat
  PROVE  (a > M \div b) <=> (a * b > M)
<1> DEFINE q == M \div b
           r == M % b
<1>1. q \in Nat /\ r \in 0..(b - 1) /\ M = b * q + r
  BY SMT
<1> HIDE DEF q, r
<1>2. CASE a > q
  <2>1. a >= q + 1
    BY <1>1, <1>2
  <2>2. a * b >= (q + 1) * b
    BY <1>1, <2>1, SMT
  <2>3. (q + 1) * b = b * q + b
    BY <1>1, SMT
  <2> QED  BY <1>1, <1>2, <2>2, <2>3 DEF q
<1>3. CASE a <= q
  <2>1. a * b <= b * q
    BY <1>1, <1>3, SMT
  <2> QED  BY <1>1, <1>3, <2>1 DEF q
<1> QED  BY <1>1, <1>2, <1>3

\* A product that fits is not changed by the width, nor by the conversion.
LEMMA FittingProduct ==
  ASSUME NEW p \in Nat, p <= MaxInt64
  PROVE  p % (MaxUint64 + 1) = p /\ ToInt64(p) = p
<1>1. MaxInt64 \in Nat
  BY QueriesAssumption
<1>2. p < 2 * MaxInt64 + 2
  BY <1>1
<1> QED  BY <1>1, <1>2, SMT DEF MaxUint64, ToInt64

\* multiplyUint64ToInt64 is the product, cut at MaxInt64.
LEMMA ProductExact ==
  ASSUME NEW a \in Nat, NEW b \in Nat
  PROVE  multiplyUint64ToInt64(a, b) = Clamp(a * b)
<1>1. MaxInt64 \in Nat \ {0}
  BY QueriesAssumption
<1>2. CASE a = 0 \/ b = 0
  <2>1. a * b = 0
    BY <1>2, SMT
  <2> QED  BY <1>1, <1>2, <2>1 DEF multiplyUint64ToInt64, Clamp
<1>3. CASE a # 0 /\ b # 0
  <2>1. a * b \in Nat
    BY SMT
  <2>2. (a > MaxInt64 \div b) <=> (a * b > MaxInt64)
    BY <1>1, <1>3, DivisionTest
  <2>3. CASE a * b > MaxInt64
    BY <1>1, <1>3, <2>1, <2>2, <2>3 DEF multiplyUint64ToInt64, Clamp
  <2>4. CASE a * b <= MaxInt64
    <3>1. MulUint64(a, b) = a * b /\ ToInt64(a * b) = a * b
      BY <2>1, <2>4, FittingProduct DEF MulUint64
    <3> QED  BY <1>1, <1>3, <2>1, <2>2, <2>4, <3>1 DEF multiplyUint64ToInt64, Clamp
  <2> QED  BY <1>1, <2>1, <2>3, <2>4
<1> QED  BY <1>2, <1>3

\* The difference, cut at 0.
LEMMA DifferenceExact ==
  ASSUME NEW a \in Nat, NEW b \in Nat
  PROVE  subtractUint64Saturating(a, b) = IF a - b < 0 THEN 0 ELSE a - b
BY DEF subtractUint64Saturating

\* uint64ToInt64Saturating is the number, cut at MaxInt64.
LEMMA ConversionExact ==
  ASSUME NEW v \in Nat
  PROVE  uint64ToInt64Saturating(v) = Clamp(v)
BY QueriesAssumption DEF uint64ToInt64Saturating, Clamp, ToInt64

-----------------------------------------------------------------------------
\* A request is told by its op.
LEMMA RequestKinds ==
  ASSUME QueriesTypeOK
  PROVE  /\ request.op = "NodeGetVolumeStats" => request \in Statfs
         /\ request.op = "GetCapacity" => request \in RepoStat
         /\ request.op = "ExpandVolume" => request \in Ranges
         /\ request.op = "ListSnapshots" => request \in Listings
<1>1. request \in Statfs => request.op = "NodeGetVolumeStats"
  BY DEF Statfs
<1>2. request \in RepoStat => request.op = "GetCapacity"
  BY DEF RepoStat
<1>3. request \in Ranges => request.op = "ExpandVolume"
  BY DEF Ranges
<1>4. request \in Capabilities => request.op = "ValidateVolumeCapabilities"
  BY DEF Capabilities
<1>5. request \in Listings => request.op = "ListSnapshots"
  BY DEF Listings
<1>6. request \in Publishes => request.op = "NodePublishVolume"
  BY DEF Publishes
<1>7. request = NoRequest => request.op = "none"
  BY DEF NoRequest
<1> QED  BY <1>1, <1>2, <1>3, <1>4, <1>5, <1>6, <1>7 DEF QueriesTypeOK, Requests

\* A call with whatever it reads stays within its type.
LEMMA QueriesTyped == QueriesSpec => []QueriesTypeOK
<1>1. QueriesInit => QueriesTypeOK
  BY DEF QueriesInit, QueriesTypeOK
<1>2. QueriesTypeOK /\ [QueriesNext]_request => QueriesTypeOK'
  BY DEF QueriesTypeOK, QueriesNext, Ask, Reply
<1> QED  BY <1>1, <1>2, PTL DEF QueriesSpec

LEMMA UsageStep == QueriesTypeOK => UsageExact
<1> SUFFICES ASSUME QueriesTypeOK, request.op = "NodeGetVolumeStats"
             PROVE  UsageExact
  BY DEF UsageExact
<1> DEFINE B == request.blocks
           F == request.bfree
           S == request.bsize
<1>1. B \in Nat /\ F \in Nat /\ S \in Nat
  BY RequestKinds, QueriesAssumption DEF Statfs, Uint64, MaxUint64
<1>2. MaxInt64 \in Nat
  BY QueriesAssumption
<1> HIDE DEF B, F, S
<1>3. subtractUint64Saturating(B, F) = IF B - F < 0 THEN 0 ELSE B - F
  BY <1>1, DifferenceExact
<1>4. /\ multiplyUint64ToInt64(B, S) = Clamp(B * S)
      /\ multiplyUint64ToInt64(F, S) = Clamp(F * S)
  BY <1>1, ProductExact
<1>5. multiplyUint64ToInt64(subtractUint64Saturating(B, F), S) = Clamp((B - F) * S)
  <2>1. CASE B - F >= 0
    <3>1. subtractUint64Saturating(B, F) = B - F /\ B - F \in Nat
      BY <1>1, <1>3, <2>1
    <3> QED  BY <1>1, <3>1, ProductExact
  <2>2. CASE B - F < 0
    <3>1. subtractUint64Saturating(B, F) = 0
      BY <1>1, <1>3, <2>2
    <3>2. (B - F) * S <= 0
      BY <1>1, <2>2, SMT
    <3>3. (B - F) * S \in Int
      BY <1>1, SMT
    <3> QED  BY <1>1, <1>2, <3>1, <3>2, <3>3 DEF multiplyUint64ToInt64, Clamp
  <2> QED  BY <1>1, <2>1, <2>2
<1>6. /\ uint64ToInt64Saturating(B) = Clamp(B)
      /\ uint64ToInt64Saturating(F) = Clamp(F)
  BY <1>1, ConversionExact
<1>7. uint64ToInt64Saturating(subtractUint64Saturating(B, F)) = Clamp(B - F)
  BY <1>1, <1>2, <1>3 DEF uint64ToInt64Saturating, Clamp, ToInt64
<1> QED  BY <1>4, <1>5, <1>6, <1>7 DEF UsageExact, NodeGetVolumeStats, byteStats, inodeStats, B, F, S

LEMMA CapacityStep == QueriesTypeOK => CapacityExact
<1> SUFFICES ASSUME QueriesTypeOK, request.op = "GetCapacity"
             PROVE  CapacityExact
  BY DEF CapacityExact
<1> DEFINE X == request.storageMax
           R == request.repoSize
<1>1. MaxInt64 \in Nat \ {0}
  BY QueriesAssumption
<1>2. X \in Nat /\ R \in Nat /\ X <= 2 * MaxInt64 + 1
  BY <1>1, RequestKinds DEF RepoStat, Uint64, MaxUint64
<1> HIDE DEF X, R
<1>3. /\ X - R <= MaxInt64 => GetCapacity(X, R) = Clamp(X - R)
      /\ GetCapacity(X, R) <= Clamp(X - R)
  BY <1>1, <1>2 DEF GetCapacity, ToInt64, Clamp, MaxUint64
<1> QED  BY <1>3 DEF CapacityExact, X, R

LEMMA ExpansionStep == QueriesTypeOK => ExpansionAgrees
<1> SUFFICES ASSUME QueriesTypeOK, request.op = "ExpandVolume"
             PROVE  ExpansionAgrees
  BY DEF ExpansionAgrees
<1>1. /\ request.given \in BOOLEAN
      /\ request.required \in Int /\ request.limit \in Int
      /\ DefaultBytes \in Nat /\ DefaultBytes > 0
  BY RequestKinds, QueriesAssumption DEF Ranges, Int64
<1> QED  BY <1>1 DEF ExpansionAgrees, ControllerExpandVolume, NodeExpandVolume,
                     parseCapacityFromRequest

LEMMA ListingStep == QueriesTypeOK => SnapshotsListed
<1> SUFFICES ASSUME QueriesTypeOK, request.op = "ListSnapshots"
             PROVE  SnapshotsListed
  BY DEF SnapshotsListed
<1> DEFINE cache == request.cache
           handle == request.handle
           source == request.source
           max == request.max
           all == vscToSnapshotEntries(cache, handle, source)
           due == {i \in DOMAIN cache :
                     /\ cache[i].own
                     /\ source \in {"", cache[i].source}
                     /\ \/ handle \in {"", cache[i].status}
                        \/ cache[i].status = "" /\ cache[i].spec = handle}
<1>1. cache \in [1..CacheSize -> Contents]
  BY RequestKinds DEF Listings
<1> HIDE DEF cache, handle, source, max
\* A handle is the status's or, while there is none, the spec's.
<1>2. all = due
  <2>1. ASSUME NEW i \in DOMAIN cache
        PROVE  (i \in all) <=> (i \in due)
    BY <1>1 DEF vscToSnapshotEntries, snapshotHandle, Contents
  <2> QED  BY <2>1 DEF vscToSnapshotEntries
<1> HIDE DEF all, due
<1>3. ASSUME NEW S \in ListSnapshots(cache, handle, source, max)
      PROVE  S \subseteq all /\ (S # all => Cardinality(S) = max)
  BY <1>3 DEF ListSnapshots, all
<1> QED  BY <1>2, <1>3 DEF SnapshotsListed, due, cache, handle, source, max

(***************************************************************************)
(* NodeGetVolumeStats (utils.go:223-266) reports exact numbers, cut to     *)
(* 0 .. MaxInt64, for every statfs result and every integer width.         *)
(***************************************************************************)
THEOREM StatsAreExact == QueriesSpec => []UsageExact
BY QueriesTyped, UsageStep, PTL

(***************************************************************************)
(* GetCapacity (controller.go:419-435) is the free space wherever an int64 *)
(* can hold it, and never more than the free space, for every width.       *)
(***************************************************************************)
THEOREM CapacityIsExact == QueriesSpec => []CapacityExact
BY QueriesTyped, CapacityStep, PTL

(***************************************************************************)
(* ControllerExpandVolume and NodeExpandVolume (controller.go:616-633,     *)
(* node.go:330-348) agree on the size for every capacity range.            *)
(***************************************************************************)
THEOREM ExpansionsAgree == QueriesSpec => []ExpansionAgrees
BY QueriesTyped, ExpansionStep, PTL

(***************************************************************************)
(* ListSnapshots (controller.go:584-605, volume_snapshot_content.go:       *)
(* 64-136) misses no snapshot of this driver and adds none, unless it is   *)
(* as long as its limit.                                                   *)
(***************************************************************************)
THEOREM ListingsAreWhole == QueriesSpec => []SnapshotsListed
BY QueriesTyped, ListingStep, PTL

=============================================================================
