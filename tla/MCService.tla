----------------------------- MODULE MCService -----------------------------
(***************************************************************************)
(* The driver process with its default flags, and with each way its flags  *)
(* can be wrong.                                                           *)
(***************************************************************************)
EXTENDS Service

Flags(name, policy, endpoint) ==
  [ipfsAPI |-> "multiaddr", drivername |-> name, pinFailure |-> policy,
   endpoint |-> endpoint]

TriedFlags ==
  {Flags("set", "strict", "unix"), Flags("set", "", "tcp"),
   [Flags("set", "strict", "unix") EXCEPT !.ipfsAPI = "other"],
   Flags("", "strict", "unix"), Flags("set", "other", "unix"),
   Flags("set", "best-effort", "other")}

=============================================================================
