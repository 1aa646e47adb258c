------------------------------ MODULE Service ------------------------------
(***************************************************************************)
(* cmd/csi-driver-ipfs/main.go: the life of a driver process, from its     *)
(* flags to GracefulStop, and the restarts kubelet gives it.  The state    *)
(* it keeps between two lives is the socket file; the rest is rebuilt.     *)
(*                                                                         *)
(* The API server's content is abstracted to a version per kind of object, *)
(* and an informer cache to the version it has reached, 0 before the list. *)
(***************************************************************************)
EXTENDS Integers

CONSTANTS
  Configs,      \* flag values tried
  Files,        \* what may lie at the socket path at first
  MaxStops,     \* signals, kills and IPFS outages
  MaxMishaps,   \* requests to the API server or the system that fail
  MaxVersion    \* changes of API objects, per kind

Kinds == {"PersistentVolume", "VolumeSnapshotContent"}

Config == [ipfsAPI    : {"multiaddr", "other"},
           drivername : {"", "set"},
           pinFailure : {"", "strict", "best-effort", "other"},
           endpoint   : {"unix", "tcp", "other"}]

ASSUME ServiceAssumption ==
  /\ Configs \subseteq Config
  /\ Files \subseteq {"none", "socket", "file"}
  /\ MaxStops \in Nat /\ MaxMishaps \in Nat /\ MaxVersion \in Nat \ {0}

VARIABLES
  config,     \* the flags; the same in every life
  pc,         \* where main is
  signalled,  \* ctx is done: SIGTERM, SIGINT or SIGQUIT came
  snapshots,  \* snapshotClient # nil
  synced,     \* kinds whose informer has listed
  cache,      \* [Kinds -> 0..MaxVersion]
  since,      \* the API versions when the process started
  call,       \* "none" or "running": one RPC in flight
  path,       \* what lies at the socket path
  api,        \* [Kinds -> 1..MaxVersion]
  crd,        \* snapshot.storage.k8s.io/v1 is registered
  ipfs,       \* the IPFS API answers
  stops, mishaps

process == <<pc, signalled, snapshots, synced, cache, since>>
world == <<api, crd, ipfs>>
counters == <<stops, mishaps>>
serviceVars == <<config, process, call, path, world, counters>>

PCs == {"down", "detect", "sync", "NewDriver", "Listen", "Serve", "serving"}

\* AddPVListener and AddVSCListener: the informers there are.
Informers ==
  IF snapshots THEN Kinds ELSE {"PersistentVolume"}

ServiceTypeOK ==
  /\ config \in Config
  /\ pc \in PCs
  /\ signalled \in BOOLEAN /\ snapshots \in BOOLEAN
  /\ synced \subseteq Informers
  /\ cache \in [Kinds -> 0..MaxVersion]
  /\ since \in [Kinds -> 0..MaxVersion]
  /\ call \in {"none", "running"} /\ (call = "running" => pc = "serving")
  /\ path \in {"none", "socket", "file"}
  /\ api \in [Kinds -> 1..MaxVersion]
  /\ crd \in BOOLEAN /\ ipfs \in BOOLEAN
  /\ stops \in 0..MaxStops /\ mishaps \in 0..MaxMishaps

ServiceInit ==
  /\ config \in Configs
  /\ path \in Files
  /\ pc = "down" /\ signalled = FALSE /\ snapshots = FALSE
  /\ synced = {} /\ cache = [k \in Kinds |-> 0] /\ since = cache
  /\ call = "none"
  /\ api = [k \in Kinds |-> 1] /\ crd \in BOOLEAN /\ ipfs = TRUE
  /\ stops = 0 /\ mishaps = 0

-----------------------------------------------------------------------------
\* Kubelet starts the container again after every exit.
Start ==
  /\ pc = "down"
  /\ pc' = "detect"
  /\ signalled' = FALSE /\ snapshots' = FALSE /\ synced' = {}
  /\ cache' = [k \in Kinds |-> 0]
  /\ since' = api
  /\ UNCHANGED <<config, call, path, world, counters>>

Exit ==
  /\ pc' = "down"
  /\ UNCHANGED <<signalled, snapshots, synced, cache, since>>

\* ipfs.NewClient parses the address of the IPFS API and does not dial it.
NewClient == config.ipfsAPI = "multiaddr"

\* FALSE also when the discovery request fails.
IsVolumeSnapshotAPIAvailable(failed) == crd /\ ~failed

\* The clients; whether there are snapshots holds for the life of the process.
Detect ==
  /\ pc = "detect"
  /\ \/ /\ NewClient
        /\ pc' = "sync"
        /\ \E failed \in BOOLEAN :
             /\ failed => mishaps < MaxMishaps
             /\ mishaps' = IF failed THEN mishaps + 1 ELSE mishaps
             /\ snapshots' = IsVolumeSnapshotAPIAvailable(failed)
        /\ UNCHANGED <<signalled, synced, cache, since>>
     \/ ~NewClient /\ Exit /\ UNCHANGED mishaps
  /\ UNCHANGED <<config, call, path, world, stops>>

(***************************************************************************)
(* A reflector lists once and then follows the watch, until ctx is done.   *)
(***************************************************************************)
Reflect(k) ==
  /\ pc \notin {"down", "detect"} /\ ~signalled
  /\ k \in Informers
  /\ cache[k] < api[k]
  /\ \E v \in (cache[k] + 1)..api[k] :
       /\ k \notin synced => v = api[k]
       /\ cache' = [cache EXCEPT ![k] = v]
  /\ synced' = synced \cup {k}
  /\ UNCHANGED <<config, pc, signalled, snapshots, since, call, path, world,
                 counters>>

\* Mutant: only the first informer's HasSynced is waited for.
cacheSyncs_pvOnly == {"PersistentVolume"}

\* The HasSynced functions that Start collects.
cacheSyncs == Informers

\* WaitForCacheSync: every cache is filled, or ctx is done and main gives up.
WaitForCacheSync ==
  /\ pc = "sync"
  /\ \/ /\ cacheSyncs \subseteq synced
        /\ pc' = "NewDriver"
        /\ UNCHANGED <<signalled, snapshots, synced, cache, since>>
     \/ signalled /\ Exit
  /\ UNCHANGED <<config, call, path, world, counters>>

\* The configurations NewDriver accepts; "" stands for strict.  Its test of
\* the node ID cannot fail: main puts the host's name for an empty one.
ValidConfig ==
  /\ config.drivername # ""
  /\ config.pinFailure \in {"", "strict", "best-effort"}

NewDriver ==
  /\ pc = "NewDriver"
  /\ IF ValidConfig
     THEN /\ pc' = "Listen"
          /\ UNCHANGED <<signalled, snapshots, synced, cache, since>>
     ELSE Exit
  /\ UNCHANGED <<config, call, path, world, counters>>

\* Mutant: the socket of an earlier life is left where it is.
parseListenAddress_keepsSocket ==
  CASE config.endpoint = "unix" -> path = "none"
    [] config.endpoint = "tcp" -> TRUE
    [] OTHER -> FALSE

\* What parseListenAddress can clear the way for, so that Listen succeeds.
parseListenAddress ==
  CASE config.endpoint = "unix" -> path # "file"
    [] config.endpoint = "tcp" -> TRUE
    [] OTHER -> FALSE

\* The socket file is removed, or not.
Unlinked == IF config.endpoint = "unix" THEN {path, "none"} ELSE {path}

\* net.Listen may fail, and the os.Remove before it.
Listen ==
  /\ pc = "Listen"
  /\ \/ /\ parseListenAddress
        /\ pc' = "Serve"
        /\ path' = IF config.endpoint = "unix" THEN "socket" ELSE path
        /\ UNCHANGED <<signalled, snapshots, synced, cache, since, mishaps>>
     \/ /\ parseListenAddress
        /\ mishaps < MaxMishaps /\ mishaps' = mishaps + 1
        /\ Exit
        /\ path' \in Unlinked
     \/ ~parseListenAddress /\ Exit /\ UNCHANGED <<path, mishaps>>
  /\ UNCHANGED <<config, call, world, stops>>

(***************************************************************************)
(* The goroutine's Serve.  When ctx is done already, GracefulStop may come *)
(* first.  Serve then closes the listener and fails, or main returns       *)
(* before it runs, and the socket file stays.                              *)
(***************************************************************************)
Serve ==
  /\ pc = "Serve"
  /\ \/ /\ pc' = "serving"
        /\ UNCHANGED <<signalled, snapshots, synced, cache, since, path>>
     \/ /\ signalled
        /\ Exit
        /\ path' \in Unlinked
  /\ UNCHANGED <<config, call, world, counters>>

\* Mutant: a connection in the listener's backlog is taken for served.
accepting_backlog == pc \in {"Serve", "serving"} /\ ~signalled

\* Serve takes connections until GracefulStop closes the listener.
accepting == pc = "serving" /\ ~signalled

\* An RPC is accepted ...
Accept ==
  /\ accepting
  /\ call = "none"
  /\ call' = "running"
  /\ UNCHANGED <<config, process, path, world, counters>>

\* ... and answered from the caches as they are by then.
Answer ==
  /\ call = "running"
  /\ call' = "none"
  /\ UNCHANGED <<config, process, path, world, counters>>

\* Closing the listener removes the socket.
Closed == IF config.endpoint = "unix" THEN "none" ELSE path

\* main's deferred GracefulStop, which returns when no RPC is pending.
GracefulStop ==
  /\ pc = "serving" /\ signalled
  /\ call = "none"
  /\ Exit
  /\ path' = Closed
  /\ UNCHANGED <<config, call, world, counters>>

\* Serve gives up on its listener: Fatal, and the RPC in flight is dropped.
ServeFails ==
  /\ pc = "serving"
  /\ mishaps < MaxMishaps /\ mishaps' = mishaps + 1
  /\ Exit
  /\ path' = Closed
  /\ call' = "none"
  /\ UNCHANGED <<config, world, stops>>

-----------------------------------------------------------------------------
(* The environment.                                                        *)

\* Kubelet stops the pod.
Signal ==
  /\ pc # "down" /\ ~signalled
  /\ stops < MaxStops /\ stops' = stops + 1
  /\ signalled' = TRUE
  /\ UNCHANGED <<config, pc, snapshots, synced, cache, since, call, path, world,
                 mishaps>>

\* The grace period ends, or the process dies: the socket file stays.
Kill ==
  /\ pc # "down"
  /\ stops < MaxStops /\ stops' = stops + 1
  /\ Exit
  /\ call' = "none"
  /\ UNCHANGED <<config, path, world, mishaps>>

Ping == ipfs

\* Probe answers Ready = FALSE while IPFS is down; the liveness probe's
\* sidecar reports that and kubelet restarts the container.
Probe ==
  /\ pc = "serving" /\ ~signalled
  /\ ~Ping
  /\ signalled' = TRUE
  /\ UNCHANGED <<config, pc, snapshots, synced, cache, since, call, path, world,
                 counters>>

IpfsDown ==
  /\ ipfs
  /\ stops < MaxStops /\ stops' = stops + 1
  /\ ipfs' = FALSE
  /\ UNCHANGED <<config, process, call, path, api, crd, mishaps>>

IpfsUp ==
  /\ ~ipfs
  /\ ipfs' = TRUE
  /\ UNCHANGED <<config, process, call, path, api, crd, counters>>

\* Objects are saved and deleted by the sidecars and by users.
Change(k) ==
  /\ k = "VolumeSnapshotContent" => crd
  /\ api[k] < MaxVersion
  /\ api' = [api EXCEPT ![k] = @ + 1]
  /\ UNCHANGED <<config, process, call, path, crd, ipfs, counters>>

InstallCRD ==
  /\ ~crd
  /\ crd' = TRUE
  /\ UNCHANGED <<config, process, call, path, api, ipfs, counters>>

DriverStep ==
  \/ Start \/ Detect \/ WaitForCacheSync \/ NewDriver \/ Listen \/ Serve
  \/ GracefulStop

ServiceNext ==
  \/ DriverStep
  \/ \E k \in Kinds : Reflect(k)
  \/ Accept \/ Answer
  \/ ServeFails \/ Signal \/ Kill \/ Probe \/ IpfsDown \/ IpfsUp
  \/ \E k \in Kinds : Change(k)
  \/ InstallCRD

(***************************************************************************)
(* The process runs, the reflectors reach the API server again after any   *)
(* failure (client-go backs off and retries), handlers end (each IPFS call *)
(* is bounded by the caller's deadline), kubelet restarts and probes the   *)
(* container, and IPFS comes back.  Nothing need be called, changed,       *)
(* installed or stopped.                                                   *)
(***************************************************************************)
ServiceFairness ==
  /\ WF_serviceVars(DriverStep)
  /\ \A k \in Kinds : WF_serviceVars(Reflect(k))
  /\ WF_serviceVars(Answer)
  /\ WF_serviceVars(Probe)
  /\ WF_serviceVars(IpfsUp)

ServiceSpec == ServiceInit /\ [][ServiceNext]_serviceVars /\ ServiceFairness

-----------------------------------------------------------------------------
(* Properties.                                                             *)

(***************************************************************************)
(* A call is answered from caches that hold at least what the API server   *)
(* held when the process started: no PersistentVolume, and with snapshots  *)
(* no VolumeSnapshotContent, older than the process is missing.  The       *)
(* reference counts of DeleteVolume depend on it (main.go:169-175,         *)
(* informers.go:142-166).                                                  *)
(***************************************************************************)
AnswersKnowThePast ==
  call = "running" => \A k \in Informers : cache[k] >= since[k]

\* The flags and the file system allow the driver to serve.
Servable ==
  /\ NewClient /\ ValidConfig
  /\ \/ config.endpoint = "tcp"
     \/ config.endpoint = "unix" /\ path # "file"

CaughtUp == \A k \in Informers : cache[k] = api[k]

(***************************************************************************)
(* After the last stop, and whatever the earlier lives left behind, a      *)
(* driver with valid flags serves for good with caches that are up to      *)
(* date; with other flags it never serves (main.go:157-266, driver.go).    *)
(***************************************************************************)
ServesInTheEnd ==
  /\ Servable => <>[](pc = "serving" /\ CaughtUp)
  /\ ~Servable => [](pc # "serving")

=============================================================================
