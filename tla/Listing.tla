------------------------------- MODULE Listing -------------------------------
(***************************************************************************)
(* A client walks a list page by page while rows come, go and change.      *)
(* Three ways of paging: by cursor over the rows a list handler fetched    *)
(* (pkg/query ProcessList), by page number (listTasksHandler), and by key  *)
(* (TaskRepository.ListByProjectCursor).  Rows are numbered in the order   *)
(* of creation and listed newest first, the default order.                 *)
(***************************************************************************)
EXTENDS Integers, FiniteSets, Sequences, SequencesExt

CONSTANTS
    MaxRows,        \* rows ever created
    Initially,      \* rows there when the walk begins
    AskedLimit,     \* the limit the client asks for
    DefaultLimit, MaxLimit

ASSUME ListingAssumption ==
    /\ { MaxRows, Initially, DefaultLimit, MaxLimit } \subseteq Nat \ { 0 }
    /\ Initially <= MaxRows /\ DefaultLimit <= MaxLimit /\ AskedLimit \in Int

VARIABLES
    table,          \* rows that exist
    newest,         \* the last row created
    matching,       \* rows the filter accepts
    walk,           \* [mode, cursor, pages, ended]: where the client is
    seen,           \* history: the rows of the pages so far, in order
    steady,         \* history: rows in the list since the walk began
    shrunk          \* history: a row left the list during the walk

listingVars == <<table, newest, matching, walk, seen, steady, shrunk>>

\* pagination.ParseRequest
ClampLimit(n) == IF n <= 0 THEN DefaultLimit ELSE IF n > MaxLimit THEN MaxLimit ELSE n

Limit == ClampLimit(AskedLimit)

ListingInit ==
    /\ newest = Initially /\ table = 1 .. Initially
    /\ matching \in SUBSET table
    /\ walk \in [mode : { "cursor", "page", "key" }, cursor : { 0 }, pages : { 0 }, ended : { FALSE }]
    /\ seen = <<>> /\ shrunk = FALSE
    /\ steady = IF walk.mode = "key" THEN table ELSE matching

(* Mutants *)

\* A cursor whose row is gone ends the walk.
StartAtEnd(list, cursor) ==
    LET at == { i \in DOMAIN list : list[i] = cursor }
    IN  IF cursor = 0 THEN 0 ELSE IF at = {} THEN Len(list) ELSE CHOOSE i \in at : TRUE

------------------------------------------------------------------------------

\* The rows of S in order: the i-th has i - 1 newer ones before it.
Newer(S, r) == { x \in S : r < x }
NewestFirst(S) == [i \in 1 .. Cardinality(S) |-> CHOOSE r \in S : Cardinality(Newer(S, r)) = i - 1]

Truncate(list, n) == SubSeq(list, 1, IF n < Len(list) THEN n ELSE Len(list))

\* ProcessList, steps 1 and 2: what the handler fetched, filtered and sorted.
Filtered == NewestFirst(matching)

\* ProcessList, step 3: a cursor that is not in the list starts from the top.
StartIndex(list, cursor) ==
    LET at == { i \in DOMAIN list : list[i] = cursor }
    IN  IF at = {} THEN 0 ELSE CHOOSE i \in at : TRUE

\* The rows after start, at most Limit of them, and whether more follow.
Page(list, start) ==
    LET end == IF start + Limit < Len(list) THEN start + Limit ELSE Len(list)
    IN  [rows |-> SubSeq(list, start + 1, end), hasMore |-> start + Limit < Len(list)]

Return(page) ==
    /\ seen' = seen \o page.rows
    /\ walk' = [walk EXCEPT !.cursor = IF page.hasMore THEN Last(page.rows) ELSE @,
                            !.pages = @ + 1, !.ended = ~page.hasMore]
    /\ UNCHANGED <<table, newest, matching, steady, shrunk>>

NextByCursor ==
    /\ walk.mode = "cursor" /\ ~walk.ended
    /\ Return(Page(Filtered, StartIndex(Filtered, walk.cursor)))

\* offset = (page - 1) * page_size, cut to the length of the list.
NextByPage ==
    /\ walk.mode = "page" /\ ~walk.ended
    /\ LET offset == walk.pages * Limit
       IN  Return(Page(Filtered, IF offset > Len(Filtered) THEN Len(Filtered) ELSE offset))

\* (created_at, id) < cursor, LIMIT limit + 1: the extra row only says "more".
AfterKey(cursor) == { r \in table : cursor = 0 \/ r < cursor }

NextByKey ==
    /\ walk.mode = "key" /\ ~walk.ended
    /\ Return(Page(Truncate(NewestFirst(AfterKey(walk.cursor)), Limit + 1), 0))

------------------------------------------------------------------------------

\* Other requests create, delete and change rows between two pages.
RowCreated ==
    /\ ~walk.ended /\ newest < MaxRows
    /\ newest' = newest + 1 /\ table' = table \cup { newest + 1 }
    /\ \E hit \in BOOLEAN : matching' = IF hit THEN matching \cup { newest + 1 } ELSE matching
    /\ UNCHANGED <<walk, seen, steady, shrunk>>

RowDeleted(r) ==
    /\ ~walk.ended /\ r \in table
    /\ table' = table \ { r } /\ matching' = matching \ { r } /\ steady' = steady \ { r }
    /\ shrunk' = (shrunk \/ r \in matching)
    /\ UNCHANGED <<newest, walk, seen>>

RowChanged(r) ==
    /\ ~walk.ended /\ r \in table
    /\ matching' = IF r \in matching THEN matching \ { r } ELSE matching \cup { r }
    /\ steady' = IF walk.mode = "key" THEN steady ELSE steady \ { r }
    /\ shrunk' = (shrunk \/ r \in matching)
    /\ UNCHANGED <<table, newest, walk, seen>>

\* The walk is given up after as many pages as there can be rows.
ListingNext ==
    \/ walk.pages <= MaxRows /\ (NextByCursor \/ NextByPage \/ NextByKey)
    \/ RowCreated
    \/ \E r \in table : RowDeleted(r) \/ RowChanged(r)

ListingSpec == ListingInit /\ [][ListingNext]_listingVars

------------------------------------------------------------------------------

(***************************************************************************)
(* A walk that ends has shown every row that was in the list all along,    *)
(* even when the row its cursor names was deleted or stopped matching; the *)
(* page numbers of listTasksHandler keep this only while no row leaves the *)
(* list.  The walk by key shows no row twice (ListByProjectCursor).        *)
(***************************************************************************)
WalkComplete ==
    /\ walk.ended =>
          \/ steady \subseteq ToSet(seen)
          \/ walk.mode = "page" /\ shrunk
    /\ walk.mode = "key" => IsInjective(seen)
==============================================================================
