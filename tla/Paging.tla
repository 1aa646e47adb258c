------------------------------- MODULE Paging -------------------------------
(***************************************************************************)
(* ListVolumes of pkg/driver/controller.go as a caller meets it: one       *)
(* listing is a series of calls, each of which sorts what the PV lister    *)
(* holds at that moment and cuts a page out of it.  The token between two  *)
(* calls is a position, not a volume, so what it stands for moves when     *)
(* volumes appear or vanish in between.                                    *)
(*                                                                         *)
(* A volume ID is its place in the string order, a natural number.         *)
(***************************************************************************)
EXTENDS Integers, FiniteSets

CONSTANTS
  IDs,        \* volume IDs that PVs of this driver may carry
  PageSizes   \* max_entries values tried by callers; 0 is "no limit"

ASSUME PagingAssumption ==
  /\ IDs \subseteq Nat /\ IsFiniteSet(IDs)
  /\ PageSizes \subseteq Nat

VARIABLES
  view,     \* the volume IDs in the PV lister
  listing,  \* "idle", "paging", "done" or "failed" (InvalidArgument)
  token,    \* next_token of the last page, 0 before the first one
  seen,     \* [IDs -> Nat], how often each ID was in a page
  last,     \* the view the last page was cut from
  always,   \* IDs in the view at every page so far
  rising,   \* IDs whose position never fell between two pages
  falling   \* IDs whose position never rose

callerVars == <<listing, token, seen, last, always, rising, falling>>
pagingVars == <<view, callerVars>>

\* sort.Slice: the position of an ID among the entries.
Index(id, v) == Cardinality({x \in v : x < id})

PagingTypeOK ==
  /\ view \subseteq IDs
  /\ listing \in {"idle", "paging", "done", "failed"}
  /\ token \in 0..Cardinality(IDs)
  /\ seen \in [IDs -> Nat]
  /\ last \subseteq IDs
  /\ always \subseteq IDs /\ rising \subseteq IDs /\ falling \subseteq IDs

PagingInit ==
  /\ view \in SUBSET IDs
  /\ listing = "idle" /\ token = 0
  /\ seen = [id \in IDs |-> 0]
  /\ last = {} /\ always = {} /\ rising = {} /\ falling = {}

\* The caller starts over, with an empty starting_token.
Begin ==
  /\ listing # "paging"
  /\ listing' = "paging" /\ token' = 0
  /\ seen' = [id \in IDs |-> 0]
  /\ last' = {} /\ always' = IDs /\ rising' = IDs /\ falling' = IDs
  /\ UNCHANGED view

\* Mutant: end is not cut to the number of entries.
pageEnd_uncut(n, max) == IF max = 0 THEN n ELSE token + max

\* entries[start:end] of n sorted entries; max_entries 0 asks for the rest.
pageEnd(n, max) ==
  IF max = 0 \/ token + max > n THEN n ELSE token + max

\* Mutant: the page after the last one is announced too.
moreAfter_atEnd(end, n) == end <= n

\* Mutant: the last entry is taken for the end.
moreAfter_oneShort(end, n) == end + 1 < n

\* nextToken is set: entries remain after this page.
moreAfter(end, n) == end < n

\* One call: refused when the token lies beyond the entries.
ListVolumes(max) ==
  LET n    == Cardinality(view)
      end  == pageEnd(n, max)
      page == {id \in view : token <= Index(id, view) /\ Index(id, view) < end}
  IN
  /\ listing = "paging"
  /\ \/ /\ token > n
        /\ listing' = "failed"
        /\ UNCHANGED <<token, seen>>
     \/ /\ token <= n
        /\ listing' = IF moreAfter(end, n) THEN "paging" ELSE "done"
        /\ token' = end
        /\ seen' = [id \in IDs |-> IF id \in page THEN seen[id] + 1 ELSE seen[id]]
  /\ last' = view
  /\ always' = always \cap view
  /\ rising' = {id \in rising : token = 0 \/ Index(id, last) <= Index(id, view)}
  /\ falling' = {id \in falling : token = 0 \/ Index(id, view) <= Index(id, last)}
  /\ UNCHANGED view

\* Watch events and restarts change what the lister holds.
ViewChanges ==
  /\ view' \in SUBSET IDs
  /\ UNCHANGED callerVars

PagingNext == Begin \/ (\E max \in PageSizes : ListVolumes(max)) \/ ViewChanges

PagingSpec == PagingInit /\ [][PagingNext]_pagingVars

(***************************************************************************)
(* Over a whole listing, a volume that was in every view is missed only    *)
(* if its position fell between two pages, because a volume before it      *)
(* vanished, and is listed twice only if its position rose, because one    *)
(* before it appeared (controller.go:365-392, index tokens).  So a         *)
(* listing during which nothing changed has every volume exactly once.     *)
(***************************************************************************)
ListedOnce ==
  listing = "done" =>
    /\ \A id \in always \cap rising : seen[id] >= 1
    /\ \A id \in always \cap falling : seen[id] <= 1

=============================================================================
