--------------------------- MODULE ServiceProofs ----------------------------
(***************************************************************************)
(* What is proved of the driver's process for all flags, socket paths and  *)
(* numbers of stops, failures and API changes.                             *)
(***************************************************************************)
EXTENDS Service, TLAPS

(***************************************************************************)
(* The inductive invariant.  An informer that has listed knows all there   *)
(* was when the process started, because it lists after Start; past        *)
(* WaitForCacheSync every informer has listed.  Before Detect there is     *)
(* none yet, so that the answer it gets cannot drop one that has listed.   *)
(***************************************************************************)
Waited == {"NewDriver", "Listen", "Serve", "serving"}

ServiceInv ==
  /\ ServiceTypeOK
  /\ pc = "detect" => synced = {}
  /\ \A k \in Kinds : since[k] <= api[k]
  /\ \A k \in synced : cache[k] >= since[k]
  /\ pc \in Waited => Informers \subseteq synced

-----------------------------------------------------------------------------
\* A process that is down has no informers to speak of, no call, no waiting.
LEMMA ServiceInitInv == ServiceInit => ServiceInv
<1> SUFFICES ASSUME ServiceInit
             PROVE  ServiceInv
  OBVIOUS
<1>1. /\ signalled \in BOOLEAN /\ snapshots \in BOOLEAN
      /\ crd \in BOOLEAN /\ ipfs \in BOOLEAN
  BY Zenon DEF ServiceInit
<1>2. /\ config \in Config
      /\ path \in {"none", "socket", "file"}
  BY ServiceAssumption, Zenon DEF ServiceInit
<1>3. /\ cache \in [Kinds -> 0..MaxVersion]
      /\ since \in [Kinds -> 0..MaxVersion]
      /\ api \in [Kinds -> 1..MaxVersion]
      /\ \A k \in Kinds : since[k] <= api[k]
  BY ServiceAssumption DEF ServiceInit
<1>4. QED
  BY ServiceAssumption, <1>1, <1>2, <1>3
     DEF ServiceInit, ServiceInv, ServiceTypeOK, PCs, Waited

\* Start, and every way main ends by itself, with no call in flight.
LEMMA StartStop ==
  ASSUME ServiceInv, Start \/ GracefulStop
  PROVE  ServiceInv'
<1> USE ServiceAssumption DEF ServiceInv, ServiceTypeOK, Waited, PCs, world, counters
<1>1. CASE Start
  <2>1. signalled' \in BOOLEAN /\ snapshots' \in BOOLEAN
    BY <1>1, Zenon DEF Start
  <2>2. /\ cache' \in [Kinds -> 0..MaxVersion]
        /\ since' \in [Kinds -> 0..MaxVersion]
        /\ api' = api /\ since' = api
    BY <1>1 DEF Start
  <2>3. QED
    BY <1>1, <2>1, <2>2 DEF Start
<1>2. CASE GracefulStop
  BY <1>2 DEF GracefulStop, Exit, Closed, Informers
<1>3. QED
  BY <1>1, <1>2

\* Detect decides which informers there are, while none has listed.
LEMMA DetectKeepsInv == ServiceInv /\ Detect => ServiceInv'
<1> SUFFICES ASSUME ServiceInv, Detect
             PROVE  ServiceInv'
  OBVIOUS
<1> USE ServiceAssumption DEF ServiceInv, ServiceTypeOK, Waited, PCs, world
<1>1. CASE NewClient /\ pc' = "sync"
  <2>1. /\ synced = {} /\ synced' = {} /\ call # "running"
        /\ UNCHANGED <<config, signalled, cache, since, call, path, api, crd,
                       ipfs, stops>>
    BY <1>1 DEF Detect, Exit
  <2>2. PICK failed \in BOOLEAN :
          /\ failed => mishaps < MaxMishaps
          /\ mishaps' = IF failed THEN mishaps + 1 ELSE mishaps
          /\ snapshots' = IsVolumeSnapshotAPIAvailable(failed)
    BY <1>1, Zenon DEF Detect
  <2>3. snapshots' \in BOOLEAN
    BY <2>2, Zenon DEF IsVolumeSnapshotAPIAvailable
  <2>4. mishaps' \in 0..MaxMishaps
    BY <2>2
  <2>5. QED
    BY <1>1, <2>1, <2>3, <2>4
<1>2. CASE ~NewClient
  BY <1>2 DEF Detect, Exit, Informers
<1>3. QED
  BY <1>1, <1>2 DEF Detect, Exit

\* A first list is the API server's content, and what follows is newer.
LEMMA ReflectKeepsInv ==
  ASSUME NEW k \in Kinds, ServiceInv, Reflect(k)
  PROVE  ServiceInv'
<1> USE ServiceAssumption DEF ServiceInv, ServiceTypeOK, Waited, world, counters
<1>1. PICK v \in (cache[k] + 1)..api[k] :
        (k \notin synced => v = api[k]) /\ cache' = [cache EXCEPT ![k] = v]
  BY DEF Reflect
<1>2. v \in 1..MaxVersion /\ v > cache[k] /\ v <= api[k]
  BY <1>1
<1>3. UNCHANGED <<config, pc, signalled, snapshots, since, call, path, api, crd,
                 ipfs, stops, mishaps>>
  BY DEF Reflect
<1>4. Informers' = Informers /\ k \in Informers /\ synced' = synced \cup {k}
  BY <1>3 DEF Reflect, Informers
<1>5. cache' \in [Kinds -> 0..MaxVersion]
  BY <1>1, <1>2
<1>6. \A j \in synced' : cache'[j] >= since'[j]
  <2> SUFFICES ASSUME NEW j \in synced'
               PROVE  cache'[j] >= since[j]
    BY <1>3
  <2>1. j \in Kinds /\ k \in Kinds
    BY <1>4 DEF Informers, Kinds
  <2>2. CASE j = k
    BY <1>1, <1>2, <2>1, <2>2
  <2>3. CASE j # k
    BY <1>1, <1>4, <2>1, <2>3
  <2>4. QED
    BY <2>2, <2>3
<1>7. synced' \subseteq Informers'
  BY <1>4
<1>8. pc' # "detect" /\ (pc' \in Waited => Informers' \subseteq synced')
  BY <1>3, <1>4 DEF Reflect
<1>9. QED
  BY <1>3, <1>5, <1>6, <1>7, <1>8

\* The steps of main between Detect and service.
LEMMA MainKeepsInv ==
  ASSUME ServiceInv, WaitForCacheSync \/ NewDriver \/ Listen \/ Serve
  PROVE  ServiceInv'
<1> USE ServiceAssumption
    DEF ServiceInv, ServiceTypeOK, Waited, PCs, Informers, world, counters, Exit
<1>1. CASE WaitForCacheSync
  BY <1>1 DEF WaitForCacheSync, cacheSyncs
<1>2. CASE NewDriver
  BY <1>2 DEF NewDriver
<1>3. CASE Listen
  BY <1>3 DEF Listen, Unlinked
<1>4. CASE Serve
  BY <1>4 DEF Serve, Unlinked
<1>5. QED
  BY <1>1, <1>2, <1>3, <1>4

\* Calls, a failing server, signals and kills.
LEMMA CallsKeepInv ==
  ASSUME ServiceInv, Accept \/ Answer \/ ServeFails \/ Signal \/ Kill \/ Probe
  PROVE  ServiceInv'
<1> USE ServiceAssumption
    DEF ServiceInv, ServiceTypeOK, Waited, PCs, Informers, process, world, counters
<1>1. CASE Accept \/ Answer
  BY <1>1 DEF Accept, Answer, accepting
<1>2. CASE Signal
  BY <1>2 DEF Signal
<1>3. CASE Kill
  BY <1>3 DEF Kill, Exit
<1>4. CASE Probe
  BY <1>4 DEF Probe
<1>5. CASE ServeFails
  BY <1>5 DEF ServeFails, Exit, Closed
<1>6. QED
  BY <1>1, <1>2, <1>3, <1>4, <1>5

\* The world outside moves on: API versions only grow.
LEMMA WorldKeepsInv ==
  ASSUME ServiceInv,
         IpfsDown \/ IpfsUp \/ InstallCRD \/ \E k \in Kinds : Change(k)
  PROVE  ServiceInv'
<1> USE ServiceAssumption
    DEF ServiceInv, ServiceTypeOK, Waited, Informers, process, counters
<1>1. CASE IpfsDown \/ IpfsUp \/ InstallCRD
  <2>1. ipfs' \in BOOLEAN /\ crd' \in BOOLEAN
    BY <1>1, Zenon DEF IpfsDown, IpfsUp, InstallCRD
  <2>2. UNCHANGED <<config, pc, signalled, snapshots, synced, cache, since, call,
                   path, api, mishaps>>
    BY <1>1 DEF IpfsDown, IpfsUp, InstallCRD
  <2>3. stops' \in 0..MaxStops /\ stops <= stops'
    BY <1>1 DEF IpfsDown, IpfsUp, InstallCRD
  <2>4. QED
    BY <2>1, <2>2, <2>3
<1>2. ASSUME NEW k \in Kinds, Change(k)
      PROVE  ServiceInv'
  <2>1. /\ api' = [api EXCEPT ![k] = @ + 1]
        /\ api' \in [Kinds -> 1..MaxVersion]
    BY <1>2 DEF Change
  <2>2. \A j \in Kinds : api[j] <= api'[j]
    BY <2>1
  <2>3. UNCHANGED <<config, pc, signalled, snapshots, synced, cache, since, call,
                   path, crd, ipfs, stops, mishaps>>
    BY <1>2 DEF Change
  <2>4. \A j \in Kinds : since'[j] <= api'[j]
    BY <2>1, <2>2, <2>3
  <2>5. QED
    BY <2>1, <2>3, <2>4
<1>3. QED
  BY <1>1, <1>2

LEMMA ServiceNextInv == ServiceInv /\ [ServiceNext]_serviceVars => ServiceInv'
<1> SUFFICES ASSUME ServiceInv, [ServiceNext]_serviceVars
             PROVE  ServiceInv'
  OBVIOUS
<1>1. CASE ServiceNext
  BY <1>1, StartStop, DetectKeepsInv, ReflectKeepsInv, MainKeepsInv, CallsKeepInv,
     WorldKeepsInv DEF ServiceNext, DriverStep
<1>2. CASE UNCHANGED serviceVars
  BY <1>2 DEF serviceVars, process, world, counters, ServiceInv, ServiceTypeOK,
     Informers, Waited
<1>3. QED
  BY <1>1, <1>2

(***************************************************************************)
(* ServiceCorrect: ServiceInv holds in every reachable state.              *)
(***************************************************************************)
LEMMA ServiceCorrect == ServiceSpec => []ServiceInv
  BY ServiceInitInv, ServiceNextInv, PTL DEF ServiceSpec

(***************************************************************************)
(* ServiceTyped: the state of the driver process keeps its types in every  *)
(* life; in particular no call outlives the process that serves it         *)
(* (main.go:157-266).                                                      *)
(***************************************************************************)
THEOREM ServiceTyped == ServiceSpec => []ServiceTypeOK
<1>1. ServiceInv => ServiceTypeOK
  BY DEF ServiceInv
<1>2. QED
  BY <1>1, ServiceCorrect, PTL

(***************************************************************************)
(* PastIsKnown: whatever the discovery answered, whenever signals and      *)
(* kills came and however the watches lag, a call in flight reads caches   *)
(* that hold all there was at the start of the process (main.go:169-175,   *)
(* informers.go:142-166).                                                  *)
(***************************************************************************)
THEOREM PastIsKnown == ServiceSpec => []AnswersKnowThePast
<1>1. ServiceInv => AnswersKnowThePast
  BY DEF ServiceInv, ServiceTypeOK, AnswersKnowThePast, Waited
<1>2. QED
  BY <1>1, ServiceCorrect, PTL

-----------------------------------------------------------------------------
(***************************************************************************)
(* Where a driver that cannot serve can be, and what it has passed there.  *)
(***************************************************************************)
Refused ==
  /\ ~Servable
  /\ pc \in {"down", "detect", "sync", "NewDriver", "Listen"}
  /\ pc \notin {"down", "detect"} => NewClient
  /\ pc = "Listen" => ValidConfig

LEMMA RefusedStays ==
  ServiceTypeOK /\ Refused /\ [ServiceNext]_serviceVars => Refused'
<1> SUFFICES ASSUME ServiceTypeOK, Refused, [ServiceNext]_serviceVars
             PROVE  Refused'
  OBVIOUS
<1> USE DEF Refused, Servable, NewClient, ValidConfig, process, world, counters
<1>1. CASE Start \/ Detect \/ WaitForCacheSync \/ NewDriver
  BY <1>1 DEF Start, Detect, WaitForCacheSync, NewDriver, Exit
<1>2. CASE Listen
  BY <1>2 DEF Listen, parseListenAddress, Unlinked, Exit, ServiceTypeOK, Config
<1>3. CASE Serve \/ GracefulStop \/ ServeFails \/ Accept \/ Probe
  BY <1>3 DEF Serve, GracefulStop, ServeFails, Accept, accepting, Probe
<1>4. CASE Answer \/ Signal \/ Kill \/ IpfsDown \/ IpfsUp \/ InstallCRD
  BY <1>4 DEF Answer, Signal, Kill, Exit, IpfsDown, IpfsUp, InstallCRD
<1>5. CASE \E k \in Kinds : Reflect(k) \/ Change(k)
  BY <1>5 DEF Reflect, Change
<1>6. CASE UNCHANGED serviceVars
  BY <1>6 DEF serviceVars
<1>7. QED
  BY <1>1, <1>2, <1>3, <1>4, <1>5, <1>6 DEF ServiceNext, DriverStep

(***************************************************************************)
(* WrongFlagsNeverServe: the safety half of ServesInTheEnd.  With flags    *)
(* NewClient, NewDriver or parseListenAddress refuse, or a plain file at   *)
(* the socket path, no life of the process ever serves (main.go:157-225,   *)
(* driver.go).                                                             *)
(***************************************************************************)
THEOREM WrongFlagsNeverServe == ServiceSpec => (~Servable => [](pc # "serving"))
<1>1. ServiceInit /\ ~Servable => Refused
  BY DEF ServiceInit, Refused
<1>2. ServiceTypeOK /\ Refused /\ [ServiceNext]_serviceVars => Refused'
  BY RefusedStays
<1>3. Refused => pc # "serving"
  BY DEF Refused
<1>4. QED
  BY <1>1, <1>2, <1>3, ServiceTyped, PTL DEF ServiceSpec

=============================================================================
