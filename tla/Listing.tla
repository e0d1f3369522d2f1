------------------------------ MODULE Listing ------------------------------
(***************************************************************************)
(* A walk through GET /api/events or GET /api/alerts (api/main.py,         *)
(* api/db.py), page by page with the cursor of the page before, while rows *)
(* come, leave what the query selects and come back to it.                 *)
(*                                                                         *)
(* A row is its id; a new row may be older than those walked past, since   *)
(* events are stored in the order of the stream and listed by their time.  *)
(***************************************************************************)
EXTENDS Integers, FiniteSets, Sequences

CONSTANTS
    Ids,     \* event_id, alert_id: ordered as numbers
    At,      \* ts, created_at: of each row
    Limits,  \* the values of limit a caller uses
    Null     \* a parameter that is not given

ASSUME ListingAssumption ==
    /\ Ids \subseteq Nat
    /\ At \in [Ids -> Nat]
    /\ Limits \subseteq Nat \ {0}
    /\ Null \notin Nat

VARIABLES
    matching,  \* rows the query selects, were there no cursor
    open,      \* whether the caller has a page to ask for
    cursor,    \* before_ts and before_id of its next request
    pages,     \* the pages it has been given
    stable     \* history: what has matched since the walk began

vars == <<matching, open, cursor, pages, stable>>

Cursor == [ts : Nat \cup {Null}, id : Ids \cup {Null}]

TypeOK ==
    /\ matching \subseteq Ids
    /\ open \in BOOLEAN
    /\ cursor \in Cursor
    /\ pages \in Seq(SUBSET Ids)
    /\ \A n \in DOMAIN pages : \E limit \in Limits : Cardinality(pages[n]) <= limit
    /\ stable \subseteq matching

(* Mutant of Before: <= in place of <. *)
BeforeOrAt(i, c) ==
    \/ c.ts = Null
    \/ c.ts # Null /\ At[i] < c.ts
    \/ c.ts # Null /\ At[i] = c.ts /\ c.id # Null /\ i <= c.id

(* The WHERE clause: no cursor, or (ts, id) < (before_ts, before_id).  The   *)
(* comparison with an id that is NULL is unknown, so that rows of that very  *)
(* time are not selected.                                                    *)
Before(i, c) ==
    \/ c.ts = Null
    \/ c.ts # Null /\ At[i] < c.ts
    \/ c.ts # Null /\ At[i] = c.ts /\ c.id # Null /\ i < c.id

(* ORDER BY ts DESC, id DESC. *)
Newer(i, j) == At[j] < At[i] \/ (At[i] = At[j] /\ j < i)

(* Mutant of IsPage: no LIMIT. *)
IsPageUnlimited(page, found, limit) == page = found

(* What ORDER BY and LIMIT leave of the rows found. *)
IsPage(page, found, limit) ==
    /\ page \subseteq found
    /\ \A i \in page : \A j \in found \ page : Newer(i, j)
    /\ Cardinality(page) <= limit
    /\ Cardinality(page) = limit \/ page = found

HasNext(page, limit) == Cardinality(page) = limit

(* Mutant of CursorAt: before_id is left out. *)
CursorAtTs(i) == [ts |-> At[i], id |-> Null]

CursorAt(i) == [ts |-> At[i], id |-> i]

Init ==
    /\ matching = {}
    /\ open = FALSE
    /\ cursor = [ts |-> Null, id |-> Null]
    /\ pages = <<>>
    /\ stable = {}

-----------------------------------------------------------------------------
(* A row is inserted, or an alert is given the status asked for. *)
Join ==
    /\ \E i \in Ids \ matching : matching' = matching \cup {i}
    /\ UNCHANGED <<open, cursor, pages, stable>>

(* An alert is given another status than the one asked for. *)
Leave ==
    /\ \E i \in matching :
          /\ matching' = matching \ {i}
          /\ stable' = stable \ {i}
    /\ UNCHANGED <<open, cursor, pages>>

(* A walk begins at the newest row, or before a time. *)
Begin ==
    /\ ~open
    /\ open' = TRUE
    /\ \E ts \in {Null} \cup {At[i] : i \in Ids} : cursor' = [ts |-> ts, id |-> Null]
    /\ stable' = {i \in matching : Before(i, cursor')}
    /\ pages' = <<>>
    /\ UNCHANGED matching

(* list_events, list_alerts; the next cursor is the last row's. *)
NextPage ==
    /\ open
    /\ \E limit \in Limits : \E page \in SUBSET matching :
          /\ IsPage(page, {i \in matching : Before(i, cursor)}, limit)
          /\ pages' = Append(pages, page)
          /\ IF HasNext(page, limit)
             THEN /\ open' = open
                  /\ \E i \in page :
                        /\ \A j \in page \ {i} : Newer(j, i)
                        /\ cursor' = CursorAt(i)
             ELSE /\ open' = FALSE
                  /\ cursor' = cursor
    /\ UNCHANGED <<matching, stable>>

Next == Join \/ Leave \/ Begin \/ NextPage

Spec == Init /\ [][Next]_vars

-----------------------------------------------------------------------------
Given == UNION {pages[n] : n \in DOMAIN pages}

(* Every row of a page is older than all of the pages before it, so that no  *)
(* row comes twice, though rows come, leave and return between the requests  *)
(* (db.py:34-39, 76-79).                                                     *)
PagesDescend ==
    \A m, n \in DOMAIN pages : m < n =>
        \A i \in pages[m] : \A j \in pages[n] : Newer(i, j)

(* A row that has matched since the walk began is on a page or still ahead,  *)
(* and after the last page is on one, rows of one time at the end of a page  *)
(* included (db.py:34-39, main.py:109-112).                                  *)
NothingSkipped == \A i \in stable : i \in Given \/ (open /\ Before(i, cursor))
=============================================================================
