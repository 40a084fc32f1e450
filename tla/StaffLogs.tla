------------------------------ MODULE StaffLogs ------------------------------
(* The staff logs: the filters, pages and export of StaffLogs.tsx with the    *)
(* routes GET /logs and GET /logs/export of routes/control-plane/logs.ts.  A  *)
(* text filter has two values: empty (FALSE) and one that only the events in  *)
(* Hits match (TRUE).                                                         *)
EXTENDS Integers, FiniteSets

CONSTANTS Components,
          Events,         \* pairs <<rank, component>>, rank 1 the newest, of one timestamp one rank
          Hits,           \* the events the text matches
          Routine,        \* isRoutineProbeNoise; stands for the filter by severity too
          Limits, Default, \* page sizes, and the one of a page just loaded
          EXPORT_MAX_ROWS,
          MaxNew          \* events written while the page is open, a bound

VARIABLES log,     \* staff_events
          was,     \* its earlier values, of which the query cache may hold answers
          ui,      \* the filters, the debounced text and the page
          req,     \* the request of the query in view
          data,    \* its answer
          export,  \* the export under way
          file     \* the last file saved, with the events that matched its filters,
                   \* until the next export begins

vars == <<log, was, ui, req, data, export, file>>

DEFAULT_FILTERS == [comps |-> Components, text |-> FALSE, hide |-> TRUE]
NoData == [items |-> {}, total |-> 0, loaded |-> FALSE]
Idle == [at |-> "idle", rows |-> {}, total |-> -1]
Sent == [Idle EXCEPT !.at = "sent"]
NoExport == [at |-> "idle", f |-> [comps |-> Components, text |-> FALSE], csv |-> FALSE]
NoFile == [of |-> {}, rows |-> {}, truncated |-> FALSE]
------------------------------------------------------------------------------
(* The filters. *)

\* Neither no component nor all of them is sent as a filter.
FilterOf(f, text) == [comps |-> IF f.comps = {} THEN Components ELSE f.comps, text |-> text]

\* buildLogsWhereClause.
Where(q, L) == {e \in L : e[2] \in q.comps /\ (q.text => e \in Hits)}

\* The rows of a set that ORDER BY timestamp DESC LIMIT OFFSET may select: how
\* many of each timestamp is determined, which of them is not.
Rows(S, offset, limit) ==
    LET Places(e) == (Cardinality({d \in S : d[1] < e[1]}) + 1)..Cardinality({d \in S : d[1] <= e[1]})
        count == [e \in S |-> Cardinality(Places(e) \intersect (offset + 1)..(offset + limit))]
    IN  {R \in SUBSET S : \A e \in S : Cardinality({d \in R : d[1] = e[1]}) = count[e]}

Query(u) == [f |-> FilterOf(u.f, u.debounced), offset |-> u.offset, limit |-> u.limit]
Counted(q, L) == Cardinality(Where(q.f, L))
Selected(q, L) == Rows(Where(q.f, L), q.offset, q.limit)
Answers(q, L) == {[items |-> R, total |-> Counted(q, L), loaded |-> TRUE] : R \in Selected(q, L)}

\* The filter that only the page applies.
Visible(f, S) == {e \in S : f.hide => e \notin Routine}
visibleEvents == Visible(ui.f, data.items)

\* A change of the state renders; a new query comes with what the cache has and
\* is asked anew unless that is fresh.
Render(u) ==
    /\ ui' = u
    /\ IF Query(u) = Query(ui) THEN UNCHANGED <<req, data>>
       ELSE /\ data' \in {NoData} \union UNION {Answers(Query(u), L) : L \in was \union {log}}
            /\ req' \in IF data'.loaded THEN {Idle, Sent} ELSE {Sent}
    /\ UNCHANGED <<log, was, export, file>>

\* The effect on filters resets the offset; what the render before it asks for
\* at the old offset only reaches the cache.
Dispatch(f) == f # ui.f /\ Render([ui EXCEPT !.f = f, !.offset = 0])
ToggleComponent(c) == Dispatch([ui.f EXCEPT !.comps = IF c \in @ THEN @ \ {c} ELSE @ \union {c}])
SetSearch == Dispatch([ui.f EXCEPT !.text = ~@])
SetHideRoutineProbes == Dispatch([ui.f EXCEPT !.hide = ~@])
clearFilters == Dispatch(DEFAULT_FILTERS)
\* 350 ms after the last key; the offset stays.
useDebounced == ui.debounced # ui.f.text /\ Render([ui EXCEPT !.debounced = ui.f.text])

NextPage == ui.offset + ui.limit < data.total /\ Render([ui EXCEPT !.offset = @ + ui.limit])
PrevPage == /\ ui.offset > 0
            /\ Render([ui EXCEPT !.offset = IF @ > ui.limit THEN @ - ui.limit ELSE 0])
PageSize(n) == n # ui.limit /\ Render([ui EXCEPT !.limit = n, !.offset = 0])
Refetch == req.at = "idle" /\ req' = Sent /\ UNCHANGED <<log, was, ui, data, export, file>>

\* The address of the page keeps the filters: all that differs from the
\* default is written, components only if some but not all are chosen.
filtersToParams(f) == [comps |-> IF f.comps \in {{}, Components} THEN {} ELSE f.comps,
                       text |-> f.text, hide |-> f.hide]
FromParams(p) == [p EXCEPT !.comps = IF @ = {} THEN Components ELSE @]
Reload == LET f == FromParams(filtersToParams(ui.f)) IN
          /\ ui' = [f |-> f, debounced |-> f.text, offset |-> 0, limit |-> Default]
          /\ req' = Sent /\ data' = NoData /\ export' = NoExport /\ UNCHANGED <<log, was, file>>
------------------------------------------------------------------------------
(* The routes. *)

\* The two statements of GET /logs run on two connections, in either order.
SelectRows == /\ req.at = "sent" /\ req.rows = {} /\ Where(Query(ui).f, log) # {}
              /\ \E R \in Selected(Query(ui), log) : req' = [req EXCEPT !.rows = R]
              /\ UNCHANGED <<log, was, ui, data, export, file>>
CountRows == /\ req.at = "sent" /\ req.total = -1
             /\ req' = [req EXCEPT !.total = Counted(Query(ui), log)]
             /\ UNCHANGED <<log, was, ui, data, export, file>>
ListAnswered ==
    /\ req.at = "sent" /\ req.total >= 0
    /\ req.rows # {} \/ {} \in Selected(Query(ui), log)
    /\ data' = [items |-> req.rows, total |-> req.total, loaded |-> TRUE] /\ req' = Idle
    /\ UNCHANGED <<log, was, ui, export, file>>
\* assertLogsTableExists, a rejected statement, no database.
ListFails == /\ req.at = "sent" /\ req' = Idle
             /\ UNCHANGED <<log, was, ui, data, export, file>>

\* The button sends the filters as they are typed, without the page's own two,
\* and is disabled while the page shows nothing.
handleExport(csv) == /\ export.at = "idle" /\ visibleEvents # {}
                     /\ export' = [at |-> "sent", f |-> FilterOf(ui.f, ui.f.text), csv |-> csv]
                     /\ file' = NoFile /\ UNCHANGED <<log, was, ui, req, data>>
\* One row more than the file may hold tells whether there are more.
FetchLimit == EXPORT_MAX_ROWS + 1
\* format=jsonl, which the page's other button sends, is not a format of the
\* route: it answers 400, which the page only logs.
ExportAnswered ==
    /\ export.at = "sent" /\ export.csv /\ export' = NoExport
    /\ LET all == Where(export.f, log) IN
       \E rows \in Rows(all, 0, FetchLimit) : \E kept \in Rows(rows, 0, EXPORT_MAX_ROWS) :
         file' = [of |-> all, rows |-> kept, truncated |-> Cardinality(rows) > EXPORT_MAX_ROWS]
    /\ UNCHANGED <<log, was, ui, req, data>>
ExportFails == export.at = "sent" /\ export' = NoExport /\ UNCHANGED <<log, was, ui, req, data, file>>

\* External: the staff write an event, older than no other.
Write(e) == /\ Cardinality(was) < MaxNew /\ e \notin log /\ \A d \in log : e[1] <= d[1]
            /\ was' = was \union {log} /\ log' = log \union {e}
            /\ UNCHANGED <<ui, req, data, export, file>>

Init == /\ log = {e \in Events : e[1] > MaxNew}
        /\ was = {} /\ req = Sent /\ data = NoData /\ export = NoExport /\ file = NoFile
        /\ ui = [f |-> DEFAULT_FILTERS, debounced |-> FALSE, offset |-> 0, limit |-> Default]

Next == \/ \E c \in Components : ToggleComponent(c)
        \/ SetSearch \/ SetHideRoutineProbes \/ clearFilters \/ useDebounced
        \/ NextPage \/ PrevPage \/ (\E n \in Limits : PageSize(n)) \/ Refetch \/ Reload
        \/ SelectRows \/ CountRows \/ ListAnswered \/ ListFails
        \/ (\E csv \in BOOLEAN : handleExport(csv)) \/ ExportAnswered \/ ExportFails
        \/ \E e \in Events : Write(e)
Spec == Init /\ [][Next]_vars
------------------------------------------------------------------------------
(* Properties. *)

\* The file saved holds the newest rows of the filters in force when the button
\* was pressed, and X-Export-Truncated is set just when rows are missing,
\* whatever was typed or written meanwhile.
ExportIsWhole ==
    /\ file.rows \in Rows(file.of, 0, EXPORT_MAX_ROWS)
    /\ file.truncated <=> (file.of # file.rows)

\* Reloading the page shows rows of the same filters again.
AddressKeepsFilters ==
    LET f == FromParams(filtersToParams(ui.f))
    IN  Visible(f, Where(FilterOf(f, f.text), Events)) =
        Visible(ui.f, Where(FilterOf(ui.f, ui.f.text), Events))

\* The rows in view are of the filters in view once the typing has settled.
RowsMatchFilters ==
    ui.debounced = ui.f.text => visibleEvents \subseteq Where(FilterOf(ui.f, ui.f.text), Events)
===============================================================================
