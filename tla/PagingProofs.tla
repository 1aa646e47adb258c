---------------------------- MODULE PagingProofs ----------------------------
(***************************************************************************)
(* For every set of volume IDs, every page size and every change of the    *)
(* volumes between two pages, a finished listing has each volume it could  *)
(* have exactly once (ListedOnce).                                         *)
(*                                                                         *)
(* ListedOnce speaks of the end of a listing and is not inductive.  What a *)
(* page leaves behind is: of the volumes that were there all the time,     *)
(* those before the token that never fell have been listed, and those that *)
(* never rose have been listed once, and only before the token.            *)
(***************************************************************************)
EXTENDS Paging, FiniteSetTheorems, TLAPS

\* What is known between two pages.
BetweenPages ==
  listing = "paging" =>
    /\ token = 0 => \A id \in IDs : seen[id] = 0
    /\ token > 0 =>
         \A id \in always :
           /\ id \in rising => (Index(id, last) < token => seen[id] >= 1)
           /\ id \in falling => /\ seen[id] <= 1
                                /\ seen[id] = 1 => Index(id, last) < token

PagingInv == PagingTypeOK /\ BetweenPages /\ ListedOnce

-----------------------------------------------------------------------------
(* Positions.                                                              *)

\* A position is a natural number.
LEMMA IndexType ==
  ASSUME NEW v \in SUBSET IDs, NEW id \in IDs
  PROVE  Index(id, v) \in Nat
<1>1. IsFiniteSet(v)
  BY FS_Subset, PagingAssumption
<1>2. IsFiniteSet({x \in v : x < id})
  BY <1>1, FS_Subset
<1> QED  BY <1>2, FS_CardinalityType DEF Index

\* The position of an entry is below the number of entries.
LEMMA IndexBound ==
  ASSUME NEW v \in SUBSET IDs, NEW id \in v
  PROVE  Index(id, v) < Cardinality(v)
<1> DEFINE smaller == {x \in v : x < id}
<1>1. IsFiniteSet(v)
  BY FS_Subset, PagingAssumption
<1>2. smaller \subseteq v /\ id \notin smaller
  BY PagingAssumption
<1>3. smaller \subseteq v \ {id}
  BY <1>2
<1>4. IsFiniteSet(v \ {id}) /\ Cardinality(v \ {id}) = Cardinality(v) - 1
  BY <1>1, FS_RemoveElement
<1>5. Cardinality(smaller) <= Cardinality(v \ {id})
  BY <1>3, <1>4, FS_Subset
<1>6. Cardinality(smaller) \in Nat /\ Cardinality(v) \in Nat
  BY <1>1, <1>2, FS_Subset, FS_CardinalityType
<1> QED  BY <1>4, <1>5, <1>6 DEF Index

\* The number of entries is a natural number, at most that of all IDs.
LEMMA ViewSize ==
  ASSUME NEW v \in SUBSET IDs
  PROVE  /\ Cardinality(v) \in Nat /\ Cardinality(IDs) \in Nat
         /\ Cardinality(v) <= Cardinality(IDs)
BY FS_Subset, FS_CardinalityType, PagingAssumption

-----------------------------------------------------------------------------
LEMMA PagingInitInv == PagingInit => PagingInv
<1> SUFFICES ASSUME PagingInit PROVE PagingInv
  OBVIOUS
<1>1. Cardinality(IDs) \in Nat
  BY ViewSize
<1>2. PagingTypeOK
  BY <1>1 DEF PagingInit, PagingTypeOK
<1>3. BetweenPages /\ ListedOnce
  BY DEF PagingInit, BetweenPages, ListedOnce
<1> QED  BY <1>2, <1>3 DEF PagingInv

LEMMA BeginInv == PagingInv /\ Begin => PagingInv'
<1> SUFFICES ASSUME PagingInv, Begin PROVE PagingInv'
  OBVIOUS
<1>1. Cardinality(IDs) \in Nat
  BY ViewSize
<1>2. PagingTypeOK'
  BY <1>1 DEF PagingInv, Begin, PagingTypeOK
<1>3. BetweenPages' /\ ListedOnce'
  BY DEF Begin, BetweenPages, ListedOnce
<1> QED  BY <1>2, <1>3 DEF PagingInv

LEMMA ViewChangesInv == PagingInv /\ ViewChanges => PagingInv'
BY DEF PagingInv, ViewChanges, callerVars, PagingTypeOK, BetweenPages, ListedOnce

\* A page: what was listed before the token stays as it was, and what lies
\* between the token and the end of the page is listed now.
LEMMA ListVolumesInv ==
  ASSUME NEW max \in PageSizes, PagingInv, ListVolumes(max)
  PROVE  PagingInv'
<1> DEFINE n    == Cardinality(view)
           end  == pageEnd(n, max)
           page == {id \in view : token <= Index(id, view) /\ Index(id, view) < end}
<1> USE PagingAssumption
<1>1. /\ view \in SUBSET IDs /\ last \in SUBSET IDs
      /\ n \in Nat /\ Cardinality(IDs) \in Nat /\ n <= Cardinality(IDs)
      /\ token \in Nat /\ max \in Nat
      /\ seen \in [IDs -> Nat]
      /\ listing = "paging"
  BY ViewSize DEF PagingInv, PagingTypeOK, ListVolumes
<1>2. CASE token > n
  <2>1. listing' = "failed" /\ token' = token /\ seen' = seen
    BY <1>1, <1>2 DEF ListVolumes
  <2>2. PagingTypeOK'
    BY <1>1, <2>1 DEF PagingInv, PagingTypeOK, ListVolumes
  <2> QED  BY <2>1, <2>2 DEF PagingInv, BetweenPages, ListedOnce
<1>3. CASE token <= n
  <2>1. /\ end \in Nat /\ token <= end /\ end <= n
        /\ end < n => end > 0
    BY <1>1, <1>3 DEF pageEnd
  <2>2. /\ token' = end
        /\ listing' = IF end < n THEN "paging" ELSE "done"
        /\ seen' = [id \in IDs |-> IF id \in page THEN seen[id] + 1 ELSE seen[id]]
        /\ last' = view
        /\ always' = always \cap view
        /\ rising' = {id \in rising : token = 0 \/ Index(id, last) <= Index(id, view)}
        /\ falling' = {id \in falling : token = 0 \/ Index(id, view) <= Index(id, last)}
        /\ view' = view
    BY <1>1, <1>3 DEF ListVolumes, moreAfter
  <2> HIDE DEF end
  <2>3. PagingTypeOK'
    <3>1. token' \in 0..Cardinality(IDs)
      BY <1>1, <2>1, <2>2
    <3>2. seen' \in [IDs -> Nat]
      BY <1>1, <2>2
    <3> QED  BY <1>1, <2>1, <2>2, <3>1, <3>2 DEF PagingInv, PagingTypeOK
  <2>4. ASSUME NEW id \in always'
        PROVE  /\ id \in rising' => (Index(id, view) < end => seen'[id] >= 1)
               /\ id \in falling' => /\ seen'[id] <= 1
                                     /\ seen'[id] = 1 => Index(id, view) < end
    <3>1. id \in IDs /\ id \in view /\ id \in always
      BY <1>1, <2>2, <2>4
    <3>2. Index(id, view) \in Nat /\ Index(id, last) \in Nat
      BY <1>1, <3>1, IndexType
    <3>3. /\ seen[id] \in Nat
          /\ seen'[id] = IF id \in page THEN seen[id] + 1 ELSE seen[id]
      BY <1>1, <2>2, <3>1
    <3>4. id \in page <=> token <= Index(id, view) /\ Index(id, view) < end
      BY <3>1
    <3> HIDE DEF page
    <3>5. CASE token = 0
      <4>1. seen[id] = 0
        BY <1>1, <3>1, <3>5 DEF PagingInv, BetweenPages
      <4> QED  BY <1>1, <2>1, <3>2, <3>3, <3>4, <3>5, <4>1
    <3>6. CASE token > 0
      <4>1. /\ id \in rising => (Index(id, last) < token => seen[id] >= 1)
            /\ id \in falling => /\ seen[id] <= 1
                                 /\ seen[id] = 1 => Index(id, last) < token
        BY <1>1, <3>1, <3>6 DEF PagingInv, BetweenPages
      <4>2. id \in rising' => id \in rising /\ Index(id, last) <= Index(id, view)
        BY <1>1, <2>2, <3>6
      <4>3. id \in falling' => id \in falling /\ Index(id, view) <= Index(id, last)
        BY <1>1, <2>2, <3>6
      <4>4. ASSUME id \in rising', Index(id, view) < end PROVE seen'[id] >= 1
        BY <1>1, <2>1, <3>2, <3>3, <3>4, <4>1, <4>2, <4>4
      <4>5. ASSUME id \in falling' 
            PROVE  seen'[id] <= 1 /\ (seen'[id] = 1 => Index(id, view) < end)
        BY <1>1, <2>1, <3>2, <3>3, <3>4, <4>1, <4>3, <4>5
      <4> QED  BY <4>4, <4>5
    <3> QED  BY <1>1, <3>5, <3>6
  <2>5. BetweenPages'
    BY <1>1, <2>1, <2>2, <2>4 DEF BetweenPages
  <2>6. ListedOnce'
    <3>1. SUFFICES ASSUME listing' = "done"
                   PROVE  /\ \A id \in always' \cap rising' : seen'[id] >= 1
                          /\ \A id \in always' \cap falling' : seen'[id] <= 1
      BY DEF ListedOnce
    <3>2. end = n
      BY <1>1, <2>1, <2>2, <3>1
    <3>3. \A id \in always' : Index(id, view) < n
      BY <1>1, <2>2, IndexBound
    <3> QED  BY <2>4, <3>2, <3>3
  <2> QED  BY <2>3, <2>5, <2>6 DEF PagingInv
<1> QED  BY <1>1, <1>2, <1>3

-----------------------------------------------------------------------------
\* The inductive invariant.
THEOREM PagingInvariant == PagingSpec => []PagingInv
<1>1. PagingInv /\ [PagingNext]_pagingVars => PagingInv'
  <2> SUFFICES ASSUME PagingInv, [PagingNext]_pagingVars PROVE PagingInv'
    OBVIOUS
  <2>1. CASE Begin
    BY <2>1, BeginInv
  <2>2. ASSUME NEW max \in PageSizes, ListVolumes(max) PROVE PagingInv'
    BY <2>2, ListVolumesInv
  <2>3. CASE ViewChanges
    BY <2>3, ViewChangesInv
  <2>4. CASE UNCHANGED pagingVars
    BY <2>4 DEF pagingVars, callerVars, PagingInv, PagingTypeOK, BetweenPages,
                ListedOnce
  <2> QED  BY <2>1, <2>2, <2>3, <2>4 DEF PagingNext
<1> QED  BY <1>1, PagingInitInv, PTL DEF PagingSpec

(***************************************************************************)
(* ListVolumes (controller.go:340-398): whatever happens to the volumes    *)
(* between the pages, a listing that ends has every volume that was there  *)
(* throughout and never moved down at least once, and every one that never *)
(* moved up at most once.                                                  *)
(***************************************************************************)
THEOREM ListingIsRight == PagingSpec => []ListedOnce
BY PagingInvariant, PTL DEF PagingInv

=============================================================================
