---------------------------- MODULE VolumeLocks -----------------------------
(***************************************************************************)
(* pkg/driver/lock: the set of keys an operation of this process is        *)
(* working on.  Each method holds the mutex for its whole body, so each is *)
(* one step.                                                               *)
(***************************************************************************)
VARIABLE locks      \* VolumeLocks.locks, the keys of the map

NewVolumeLocks == {}

\* Mutants: a held key is taken again; a return that forgets the key.
TryAcquire_unguarded(key) == locks' = locks \cup {key}

Release_forgotten(key) == UNCHANGED locks

\* TryAcquire(key) returning true ...
TryAcquire(key) ==
  /\ key \notin locks
  /\ locks' = locks \cup {key}

\* ... and returning false, which changes nothing.
AcquireRefused(key) ==
  /\ key \in locks
  /\ UNCHANGED locks

\* Release deletes the key whether it was held or not.
Release(key) == locks' = locks \ {key}

=============================================================================
