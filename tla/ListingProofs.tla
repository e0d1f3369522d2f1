--------------------------- MODULE ListingProofs ---------------------------
(***************************************************************************)
(* What a walk through a listing gives its caller, for every set of rows,  *)
(* every assignment of times to them and all limits.                       *)
(***************************************************************************)
EXTENDS Listing, TLAPS

(* While there is a page to ask for, whatever it can hold is older than all  *)
(* that has been given.  PagesDescend alone is not inductive: it says        *)
(* nothing of the cursor the next page will be taken with.                   *)
GivenIsNewer ==
    open => \A n \in DOMAIN pages : \A i \in pages[n] : \A j \in Ids :
                Before(j, cursor) => Newer(i, j)

(* The inductive invariant. *)
Inv == TypeOK /\ GivenIsNewer /\ PagesDescend /\ NothingSkipped

-----------------------------------------------------------------------------
(* The order of the listing is transitive: what is older than an older row   *)
(* is older.                                                                 *)
LEMMA NewerIsTransitive ==
    ASSUME NEW i \in Ids, NEW j \in Ids, NEW k \in Ids, Newer(i, j), Newer(j, k)
    PROVE  Newer(i, k)
  BY ListingAssumption DEF ListingAssumption, Newer

(* The cursor of a row selects what is older than the row: the time          *)
(* comparison and the tie by id of db.py:34-35 are the ORDER BY of db.py:38. *)
LEMMA CursorSelectsOlder ==
    ASSUME NEW i \in Ids, NEW j \in Ids
    PROVE  Before(j, CursorAt(i)) <=> Newer(i, j)
  BY ListingAssumption DEF ListingAssumption, Before, CursorAt, Newer

(* The last row of a page, and with it the next cursor, has the page before  *)
(* it and the rest of what was found behind it (main.py:109-112).            *)
LEMMA LastRow ==
    ASSUME NEW found \in SUBSET Ids, NEW page, NEW limit, IsPage(page, found, limit),
           NEW last \in page, \A j \in page \ {last} : Newer(j, last)
    PROVE  /\ \A i \in page : \A j \in Ids : Before(j, CursorAt(last)) => Newer(i, j)
           /\ \A i \in found \ page : Before(i, CursorAt(last))
<1>1. page \subseteq Ids /\ last \in Ids
  BY DEF IsPage
<1>2. ASSUME NEW i \in page, NEW j \in Ids, Before(j, CursorAt(last))
      PROVE  Newer(i, j)
  <2>1. Newer(last, j)
    BY <1>1, <1>2, CursorSelectsOlder
  <2>2. CASE i = last
    BY <2>1, <2>2
  <2>3. CASE i # last
    BY <1>1, <2>1, <2>3, NewerIsTransitive
  <2>4. QED
    BY <2>2, <2>3
<1>3. ASSUME NEW i \in found \ page
      PROVE  Before(i, CursorAt(last))
  BY <1>1, CursorSelectsOlder DEF IsPage
<1>4. QED
  BY <1>2, <1>3

-----------------------------------------------------------------------------
LEMMA InitInv == Init => Inv
<1> SUFFICES ASSUME Init
             PROVE  Inv
  OBVIOUS
<1>1. pages \in Seq(SUBSET Ids) /\ DOMAIN pages = {}
  BY DEF Init
<1>2. cursor \in Cursor
  BY DEF Init, Cursor
<1>3. TypeOK
  BY <1>1, <1>2 DEF Init, TypeOK
<1>4. GivenIsNewer /\ PagesDescend /\ NothingSkipped
  BY <1>1 DEF Init, GivenIsNewer, PagesDescend, NothingSkipped
<1>5. QED
  BY <1>3, <1>4 DEF Inv

(* A page leaves everything as it should be. *)
LEMMA NextPageInv ==
    ASSUME Inv, NextPage
    PROVE  Inv'
<1> DEFINE found == {i \in matching : Before(i, cursor)}
<1>0. /\ TypeOK /\ GivenIsNewer /\ PagesDescend /\ NothingSkipped
      /\ open /\ found \subseteq Ids /\ matching' = matching /\ stable' = stable
  BY DEF Inv, NextPage, TypeOK
<1>1. PICK limit \in Limits, page \in SUBSET matching :
        /\ IsPage(page, found, limit)
        /\ pages' = Append(pages, page)
        /\ IF HasNext(page, limit)
           THEN /\ open' = open
                /\ \E i \in page : /\ \A j \in page \ {i} : Newer(j, i)
                                   /\ cursor' = CursorAt(i)
           ELSE /\ open' = FALSE
                /\ cursor' = cursor
  BY DEF NextPage
<1>2. /\ page \subseteq found /\ page \in SUBSET Ids
      /\ DOMAIN pages = 1 .. Len(pages) /\ Len(pages) \in Nat
      /\ DOMAIN pages' = 1 .. Len(pages) + 1
      /\ \A n \in DOMAIN pages : pages'[n] = pages[n]
      /\ pages'[Len(pages) + 1] = page
  BY <1>0, <1>1 DEF IsPage, TypeOK
<1>3. TypeOK'
  <2>1. pages' \in Seq(SUBSET Ids)
    BY <1>0, <1>1, <1>2 DEF TypeOK
  <2>2. \A n \in DOMAIN pages' : \E l \in Limits : Cardinality(pages'[n]) <= l
    BY <1>0, <1>1, <1>2 DEF TypeOK, IsPage
  <2>3. cursor' \in Cursor /\ open' \in BOOLEAN
    <3>1. \A i \in Ids : CursorAt(i) \in Cursor
      BY ListingAssumption DEF ListingAssumption, CursorAt, Cursor
    <3>2. QED
      BY <1>0, <1>1, <1>2, <3>1 DEF TypeOK
  <2>4. QED
    BY <1>0, <2>1, <2>2, <2>3 DEF TypeOK
<1>4. \A n \in DOMAIN pages : \A i \in pages[n] : \A j \in page : Newer(i, j)
  BY <1>0, <1>2 DEF GivenIsNewer
<1>5. PagesDescend'
  BY <1>0, <1>2, <1>4 DEF PagesDescend
<1>6. CASE HasNext(page, limit)
  <2>1. PICK last \in page : /\ \A j \in page \ {last} : Newer(j, last)
                             /\ cursor' = CursorAt(last)
    BY <1>1, <1>6
  <2>2. /\ \A i \in page : \A j \in Ids : Before(j, cursor') => Newer(i, j)
        /\ \A i \in found \ page : Before(i, cursor')
    BY <1>0, <1>1, <2>1, LastRow
  <2>3. GivenIsNewer'
    <3>1. ASSUME NEW n \in DOMAIN pages, NEW i \in pages[n], NEW j \in Ids, Before(j, cursor')
          PROVE  Newer(i, j)
      <4>1. i \in Ids /\ last \in Ids
        BY <1>0, <1>2, <3>1 DEF TypeOK
      <4>2. Newer(i, last) /\ Newer(last, j)
        BY <1>4, <2>1, <3>1, <4>1, CursorSelectsOlder
      <4>3. QED
        BY <4>1, <4>2, NewerIsTransitive
    <3>2. QED
      BY <1>2, <2>2, <3>1 DEF GivenIsNewer
  <2>4. NothingSkipped'
    <3>1. ASSUME NEW i \in stable
          PROVE  i \in Given' \/ Before(i, cursor')
      <4>1. CASE i \in Given
        BY <1>2, <4>1 DEF Given
      <4>2. CASE i \in page
        BY <1>2, <4>2 DEF Given
      <4>3. CASE i \notin Given /\ i \notin page
        <5>1. i \in found
          BY <1>0, <4>3 DEF NothingSkipped, TypeOK
        <5>2. QED
          BY <2>2, <4>3, <5>1
      <4>4. QED
        BY <4>1, <4>2, <4>3
    <3>2. QED
      BY <1>0, <1>1, <1>6, <3>1 DEF NothingSkipped
  <2>5. QED
    BY <1>3, <1>5, <2>3, <2>4 DEF Inv
<1>7. CASE ~HasNext(page, limit)
  <2>1. page = found
    BY <1>1, <1>7 DEF IsPage, HasNext
  <2>2. NothingSkipped'
    <3>1. ASSUME NEW i \in stable
          PROVE  i \in Given'
      <4>1. CASE i \in Given
        BY <1>2, <4>1 DEF Given
      <4>2. CASE i \in page
        BY <1>2, <4>2 DEF Given
      <4>3. QED
        BY <1>0, <2>1, <3>1, <4>1, <4>2 DEF NothingSkipped, TypeOK
    <3>2. QED
      BY <1>0, <3>1 DEF NothingSkipped
  <2>3. GivenIsNewer'
    BY <1>1, <1>7 DEF GivenIsNewer
  <2>4. QED
    BY <1>3, <1>5, <2>2, <2>3 DEF Inv
<1>8. QED
  BY <1>6, <1>7

LEMMA StepInv == Inv /\ [Next]_vars => Inv'
<1> SUFFICES ASSUME Inv, [Next]_vars
             PROVE  Inv'
  OBVIOUS
<1>1. CASE Join
  BY <1>1 DEF Inv, Join, TypeOK, GivenIsNewer, PagesDescend, NothingSkipped, Given
<1>2. CASE Leave
  BY <1>2 DEF Inv, Leave, TypeOK, GivenIsNewer, PagesDescend, NothingSkipped, Given
<1>3. CASE Begin
  <2>1. TypeOK'
    BY <1>3, ListingAssumption DEF ListingAssumption, Inv, Begin, TypeOK, Cursor
  <2>2. QED
    BY <1>3, <2>1 DEF Inv, Begin, GivenIsNewer, PagesDescend, NothingSkipped
<1>4. CASE NextPage
  BY <1>4, NextPageInv
<1>5. CASE UNCHANGED vars
  BY <1>5 DEF Inv, vars, TypeOK, GivenIsNewer, PagesDescend, NothingSkipped, Given
<1>6. QED
  BY <1>1, <1>2, <1>3, <1>4, <1>5 DEF Next

(* The inductive invariant holds throughout. *)
THEOREM Invariance == Spec => []Inv
<1>1. QED
  BY InitInv, StepInv, PTL DEF Spec

(* Every variable keeps its type, and no page exceeds its limit              *)
(* (db.py:39, 79).                                                           *)
THEOREM TypeCorrect == Spec => []TypeOK
<1>1. Inv => TypeOK
  BY DEF Inv
<1>2. QED
  BY <1>1, Invariance, PTL

(* Pages descend and no row comes twice (db.py:34-39, 76-79).                *)
THEOREM Descending == Spec => []PagesDescend
<1>1. Inv => PagesDescend
  BY DEF Inv
<1>2. QED
  BY <1>1, Invariance, PTL

(* No row that stayed is skipped (db.py:34-39, main.py:109-112).             *)
THEOREM Complete == Spec => []NothingSkipped
<1>1. Inv => NothingSkipped
  BY DEF Inv
<1>2. QED
  BY <1>1, Invariance, PTL
=============================================================================
