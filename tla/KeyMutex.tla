------------------------------ MODULE KeyMutex ------------------------------
(***************************************************************************)
(* What pkg/driver/lock promises its callers: of the operations that go on *)
(* in a process, at most one has a key, from when it was given the key     *)
(* until it gives it back; a new process starts with all keys free.        *)
(***************************************************************************)
CONSTANTS Keys, Owners

VARIABLE owns   \* pairs of a key and the operation that has it

Init == owns = {}

Acquire(k, o) ==
  /\ \A p \in Owners : <<k, p>> \notin owns
  /\ \A j \in Keys : <<j, o>> \notin owns
  /\ owns' = owns \cup {<<k, o>>}

GiveBack(k, o) == owns' = owns \ {<<k, o>>}

NewProcess == owns' = {}

Next ==
  \/ \E k \in Keys, o \in Owners : Acquire(k, o) \/ GiveBack(k, o)
  \/ NewProcess

Spec == Init /\ [][Next]_owns

=============================================================================
