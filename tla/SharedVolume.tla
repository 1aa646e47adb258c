---------------------------- MODULE SharedVolume ----------------------------
(***************************************************************************)
(* What the node service promises for one volume, without staging          *)
(* directories, MFS or calls: a register that one node at a time has open. *)
(* Opening and closing never change what it holds, on whichever node it is *)
(* opened next; only the application on the node that has it open does.    *)
(***************************************************************************)
EXTENDS Naturals

CONSTANTS Nodes, Contents

VARIABLES
  content,   \* what the volume holds
  open,      \* the nodes that have it
  writes     \* how often the application has written

Init ==
  /\ content \in Contents
  /\ open = {}
  /\ writes = 0

Open(nd) ==
  /\ open = {}
  /\ open' = {nd}
  /\ UNCHANGED <<content, writes>>

Write(nd) ==
  /\ nd \in open
  /\ content' \in Contents
  /\ writes' = writes + 1
  /\ UNCHANGED open

Close(nd) ==
  /\ open' = open \ {nd}
  /\ UNCHANGED <<content, writes>>

Next == \E nd \in Nodes : Open(nd) \/ Write(nd) \/ Close(nd)

Spec == Init /\ [][Next]_<<content, open, writes>>

=============================================================================
