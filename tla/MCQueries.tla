----------------------------- MODULE MCQueries -----------------------------
(***************************************************************************)
(* The queries over all inputs of a small width, and the pages of          *)
(* ListVolumes for a caller that goes on asking.  No query changes         *)
(* anything, so they are interleaved with the listings at one point only.  *)
(***************************************************************************)
EXTENDS Paging, Queries

Init == PagingInit /\ QueriesInit

Next ==
  \/ request = NoRequest /\ PagingNext /\ UNCHANGED request
  \/ listing = "idle" /\ view = {} /\ QueriesNext /\ UNCHANGED pagingVars

vars == <<pagingVars, request>>

\* The caller asks for the next page while there is one.
NextPage == \E max \in PageSizes : ListVolumes(max) /\ UNCHANGED request

Spec == Init /\ [][Next]_vars /\ WF_vars(NextPage)

\* The states of both parts.
TypeOK == PagingTypeOK /\ QueriesTypeOK

(***************************************************************************)
(* A listing ends: no page announces a next one forever, even when the     *)
(* volumes change between the pages (controller.go:383-386).               *)
(***************************************************************************)
ListingEnds == listing = "paging" ~> listing # "paging"

=============================================================================
