----------------------------- MODULE IpfsClient -----------------------------
(***************************************************************************)
(* pkg/ipfs: the calls the driver makes on the Kubo node, and the state of *)
(* that node they act on.  The node itself is external.                    *)
(*                                                                         *)
(* A call ends in one of three ways: "ok"; "err", refused or never         *)
(* received; or "late", carried out although the caller sees an error (a   *)
(* timeout, a broken connection).                                          *)
(***************************************************************************)
EXTENDS CsiTypes

CONSTANT Remote   \* CIDs that other peers of the IPFS network provide

VARIABLES
  pinned,         \* CIDs with a pin in the local repo
  mfs             \* [Paths -> CIDs \cup {None}], the files at each MFS path,
                  \* without those at other paths inside it

ipfsVars == <<pinned, mfs>>

Outcomes == {"ok", "err", "late"}

IpfsTypeOK ==
  /\ pinned \subseteq CIDs
  /\ mfs \in [Paths -> CIDs \cup {None}]

IpfsInit ==
  /\ pinned = {}
  /\ mfs = [p \in Paths |-> None]

(***************************************************************************)
(* Content the node is bound to keep or can fetch again.  Kubo's garbage   *)
(* collector may drop anything else at any time.                           *)
(***************************************************************************)
Available(c) ==
  c \in pinned \cup Remote \cup {mfs[p] : p \in Paths}

\* StatCID's boolean: blocks not yet collected may still be found.
StatCID(c, exists) ==
  /\ exists \in BOOLEAN
  /\ Available(c) => exists

PinCID(c, o) ==
  pinned' = IF o = "err" THEN pinned ELSE pinned \cup {c}

UnpinCID(c, o) ==
  pinned' = IF o = "err" THEN pinned ELSE pinned \ {c}

\* files/mkdir with parents=true: what exists already is left alone.
Made(p) ==
  [q \in Paths |-> IF mfs[q] = None /\ (q = p \/ p \in Below[q])
                   THEN EmptyDir ELSE mfs[q]]

MkdirMFS(p, o) == mfs' = IF o = "err" THEN mfs ELSE Made(p)

\* files/rm with recursive=true: with a path goes all that is inside it.
Removed(p) ==
  [q \in Paths |-> IF q = p \/ q \in Below[p] THEN None ELSE mfs[q]]

RmMFS(p, o) == mfs' = IF o = "err" THEN mfs ELSE Removed(p)

\* files/stat of a path that exists answers with the CID of its tree.
ResolveMFSCID(p) == mfs[p]

(***************************************************************************)
(* One file of ImportToMFS's walk: Unixfs().Add and cpMFS.  files/cp       *)
(* refuses a name the directory already has, and a missing directory.      *)
(***************************************************************************)
cpRefused(f, p) == mfs[p] = None \/ f \in mfs[p]

cpMFS(f, p, o) ==
  mfs' = IF o = "err" THEN mfs ELSE [mfs EXCEPT ![p] = @ \cup {f}]

=============================================================================
