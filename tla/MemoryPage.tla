----------------------------- MODULE MemoryPage -----------------------------
(* The knowledge base seen through MemoryExplorer.tsx: the browser of entity  *)
(* types, the paged table of facts and the search, with the routes GET /kb,   *)
(* /kb/entity-types and /kb/search of routes/control-plane/kb.ts.  A text has *)
(* two values: empty (FALSE) and one that only some facts match (TRUE).       *)
EXTENDS Integers, FiniteSets

CONSTANTS Insts, Types, NoType,
          Facts,          \* <<instance, type, rank, name>>: the rank is the value of the one
                          \* column that orders the table, which facts may share
          Hits,           \* the facts that match the text
          Limits,         \* page sizes
          MaxChanges      \* facts written or removed by Iranti, a bound

VARIABLES kb,      \* the facts in the databases of the instances
          was,     \* earlier values of kb, of which the query cache may hold answers
          ui,      \* what is selected, typed, and paged to
          req,     \* the request of the query in view
          data,    \* its answer
          walk     \* the facts on the pages passed by Next since the first one

vars == <<kb, was, ui, req, data, walk>>

NoData == [items |-> {}, total |-> 0, loaded |-> FALSE]
Idle == [at |-> "idle", items |-> {}]
Sent == [Idle EXCEPT !.at = "sent"]
NoWalk == [whole |-> TRUE, seen |-> {}]
------------------------------------------------------------------------------
(* The page. *)

Mode(u) == IF u.found THEN "search" ELSE IF u.type = NoType THEN "types" ELSE "table"

\* queryKey with queryParams, kb-search and entity-types.
Query(u) == [mode |-> Mode(u), inst |-> u.inst,
             type |-> IF Mode(u) = "table" THEN u.type ELSE NoType,
             search |-> Mode(u) = "search" \/ (Mode(u) = "table" /\ u.search),
             offset |-> IF Mode(u) = "table" THEN u.offset ELSE 0,
             limit |-> IF Mode(u) = "table" THEN u.limit ELSE 0]

\* buildKBWhereClause, the grouping of /kb/entity-types, the proxied search.
Matching(q, K) == {f \in K : /\ f[1] = q.inst
                             /\ q.mode = "table" => f[2] = q.type
                             /\ q.search => f \in Hits}

\* ORDER BY LIMIT OFFSET: how many facts of each rank a page has is determined;
\* which of those of one rank, is not, and may differ from page to page.  The
\* other two routes answer everything.
Pages(q, K) ==
    LET M == Matching(q, K)
        Places(f) == (Cardinality({g \in M : g[3] < f[3]}) + 1)..Cardinality({g \in M : g[3] <= f[3]})
        window == (q.offset + 1)..(q.offset + q.limit)
        count == [f \in M |-> Cardinality(Places(f) \intersect window)]
    IN  IF q.mode # "table" THEN {M}
        ELSE {P \in SUBSET M : \A f \in M : Cardinality({g \in P : g[3] = f[3]}) = count[f]}

Answers(q, K) == {[items |-> P, total |-> Cardinality(Matching(q, K)), loaded |-> TRUE] : P \in Pages(q, K)}
Cached(q) == UNION {Answers(q, K) : K \in was \union {kb}}

\* What a change of the state renders: another query comes with what the cache
\* has of it, and is asked anew unless that is fresh.
Render(u) ==
    /\ ui' = u
    /\ IF Query(u) = Query(ui) THEN UNCHANGED <<req, data>>
       ELSE /\ data' \in {NoData} \union Cached(Query(u))
            /\ req' \in IF data'.loaded THEN {Idle, Sent} ELSE {Sent}
    /\ UNCHANGED <<kb, was>>

\* The effect on the filters turns back to the first page.
FirstPage(u) == /\ Render([u EXCEPT !.offset = 0]) /\ walk' = NoWalk
Jump(u) == Render(u) /\ walk' = IF u.offset = 0 THEN NoWalk ELSE [walk EXCEPT !.whole = FALSE]

handleBrowseEntityType(t) == Mode(ui) = "types" /\ FirstPage([ui EXCEPT !.type = t])
handleBackToBrowser == Mode(ui) = "table" /\ FirstPage([ui EXCEPT !.type = NoType])
\* The search of the filter bar: the field at once, the query 300 ms later.
TypeSearch == Mode(ui) = "table" /\ FirstPage([ui EXCEPT !.typed = ~@])
useDebounced == ui.search # ui.typed /\ Jump([ui EXCEPT !.search = ui.typed])
ResetFilters == Mode(ui) = "table" /\ FirstPage([ui EXCEPT !.type = NoType, !.typed = FALSE])
\* The search bar above, debounced as well.
TypeFind == Jump([ui EXCEPT !.find = ~@])
FindDebounced == ui.found # ui.find /\ Jump([ui EXCEPT !.found = ui.find])
SelectInstance(i) == i # ui.inst /\ Jump([ui EXCEPT !.inst = i])

\* PaginationControls.
Total == data.total
NextPage == /\ Mode(ui) = "table" /\ ui.offset + ui.limit < Total
            /\ Render([ui EXCEPT !.offset = @ + ui.limit])
            /\ walk' = [walk EXCEPT !.seen = @ \union data.items]
PrevPage == /\ Mode(ui) = "table" /\ ui.offset > 0
            /\ Jump([ui EXCEPT !.offset = IF @ > ui.limit THEN @ - ui.limit ELSE 0])
PageSize(n) == Mode(ui) = "table" /\ n # ui.limit /\ FirstPage([ui EXCEPT !.limit = n])

Refetch == /\ req.at = "idle" /\ req' = Sent /\ UNCHANGED <<kb, was, ui, data, walk>>
------------------------------------------------------------------------------
(* The routes. *)

Init == /\ kb \in SUBSET Facts /\ was = {}
        /\ \E i \in Insts, n \in Limits :
             ui = [inst |-> i, type |-> NoType, typed |-> FALSE, search |-> FALSE,
                   find |-> FALSE, found |-> FALSE, offset |-> 0, limit |-> n]
        /\ req = Sent /\ data = NoData /\ walk = NoWalk

\* SELECT of the page; the answer waits for the count.
SelectRows == /\ req.at = "sent" /\ Mode(ui) = "table"
              /\ \E P \in Pages(Query(ui), kb) : req' = [at |-> "counting", items |-> P]
              /\ UNCHANGED <<kb, was, ui, data, walk>>

\* SELECT COUNT of the same filters, and the answer.
CountRows == /\ req.at = "counting"
             /\ data' = [items |-> req.items, total |-> Cardinality(Matching(Query(ui), kb)), loaded |-> TRUE]
             /\ req' = Idle /\ UNCHANGED <<kb, was, ui, walk>>

\* GET /kb/entity-types: one statement.
ListTypes == /\ req.at = "sent" /\ Mode(ui) = "types"
             /\ data' \in Answers(Query(ui), kb)
             /\ req' = Idle /\ UNCHANGED <<kb, was, ui, walk>>

\* GET /kb/search: Iranti answers, or refuses, or cannot be reached in ten seconds.
SearchKB == /\ req.at = "sent" /\ Mode(ui) = "search"
            /\ data' \in Answers(Query(ui), kb)
            /\ req' = Idle /\ UNCHANGED <<kb, was, ui, walk>>

\* withRequestQueryable: no DATABASE_URL, no connection, a query that fails.
RequestFails == /\ req.at \in {"sent", "counting"} /\ req' = Idle
                /\ UNCHANGED <<kb, was, ui, data, walk>>

\* External: Iranti writes or removes a fact.
Changes(f) == /\ Cardinality(was) < MaxChanges /\ was' = was \union {kb}
              /\ kb' = IF f \in kb THEN kb \ {f} ELSE kb \union {f}
              /\ UNCHANGED <<ui, req, data, walk>>

Next == \/ \E t \in Types : handleBrowseEntityType(t)
        \/ handleBackToBrowser \/ TypeSearch \/ useDebounced \/ ResetFilters \/ TypeFind \/ FindDebounced
        \/ \E i \in Insts : SelectInstance(i)
        \/ NextPage \/ PrevPage \/ Refetch \/ \E n \in Limits : PageSize(n)
        \/ SelectRows \/ CountRows \/ ListTypes \/ SearchKB \/ RequestFails
        \/ \E f \in Facts : Changes(f)
Spec == Init /\ [][Next]_vars
------------------------------------------------------------------------------
(* Properties. *)

\* What is shown belongs to the instance, the type and the text in force,
\* whichever earlier answers are kept and whatever was selected in between.
RowsMatchQuery == data.items \subseteq Matching(Query(ui), Facts)

\* Walking the pages of a knowledge base that nobody writes to shows each
\* fact once, and at the last page all of them have been shown; if the column
\* that orders them tells them apart.  Facts of one rank may come again on the
\* next page, or on none.
Ordered(S) == \A f, g \in S : f[3] = g[3] => f = g
WalkSeesEachOnce ==
    /\ was = {} /\ walk.whole /\ data.loaded /\ Mode(ui) = "table"
    /\ Ordered(Matching(Query(ui), kb))
    => /\ walk.seen \intersect data.items = {}
       /\ ui.offset + ui.limit >= Total => walk.seen \union data.items = Matching(Query(ui), kb)

===============================================================================
