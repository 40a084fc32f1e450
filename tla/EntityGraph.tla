----------------------------- MODULE EntityGraph -----------------------------
(* The relationship graph of an entity: GET .../relationships/graph of        *)
(* routes/control-plane/kb.ts, which reads the edges of one level after the   *)
(* other, and RelationshipGraphView.tsx.  Iranti may write edges in between.  *)
EXTENDS Naturals, FiniteSets

CONSTANTS Root,
          Edges,      \* the pairs that may be related, an edge is <<from, to>>
          Limit,      \* perLevelLimit
          MaxWrites   \* edges written while a request is served, a bound

VARIABLES related,    \* EntityRelationship
          depth,      \* of the request, the toggle of the page
          level,      \* levels read; depth + 1 once the nodes are counted
          frontier, visited,
          edges, nodes, truncated,
          writes

vars == <<related, depth, level, frontier, visited, edges, nodes, truncated, writes>>
Ends(e) == {e[1], e[2]}
Touching(S, V) == {e \in S : Ends(e) \intersect V # {}}
AllEnds(S) == UNION {Ends(e) : e \in S}

Init == /\ related \in SUBSET Edges /\ depth \in {1, 2} /\ level = 0
        /\ frontier = {Root} /\ visited = {Root}
        /\ edges = {} /\ nodes = {Root} /\ truncated = FALSE /\ writes = 0
------------------------------------------------------------------------------
\* One query, of the newest Limit + 1 edges at the frontier; which ones are the
\* newest is left open.  The next frontier is what was not visited yet.
ReadLevel ==
    /\ level < depth /\ frontier # {}
    /\ LET rows == Touching(related, frontier)
       IN  \E kept \in SUBSET rows :
             /\ Cardinality(kept) = IF Cardinality(rows) > Limit THEN Limit ELSE Cardinality(rows)
             /\ truncated' = (truncated \/ Cardinality(rows) > Limit)
             /\ edges' = edges \union kept /\ nodes' = nodes \union AllEnds(kept)
             /\ frontier' = AllEnds(kept) \ visited
             /\ visited' = visited \union AllEnds(kept)
    /\ level' = level + 1 /\ UNCHANGED <<related, depth, writes>>

\* The facts of the nodes are counted, and the graph is answered.
CountFacts == /\ level = depth \/ (level < depth /\ frontier = {})
              /\ level' = depth + 1
              /\ UNCHANGED <<related, depth, frontier, visited, edges, nodes, truncated, writes>>

\* External: Iranti adds or removes an edge.
WriteEdge(e) == /\ writes < MaxWrites /\ writes' = writes + 1
                /\ related' = IF e \in related THEN related \ {e} ELSE related \union {e}
                /\ UNCHANGED <<depth, level, frontier, visited, edges, nodes, truncated>>

\* The page: another depth, or a click on a node, is another request.
Again(d) == /\ level = depth + 1 /\ depth' = d /\ level' = 0
            /\ frontier' = {Root} /\ visited' = {Root} /\ edges' = {} /\ nodes' = {Root}
            /\ truncated' = FALSE /\ writes' = 0 /\ UNCHANGED related
Next == ReadLevel \/ CountFacts \/ (\E e \in Edges : WriteEdge(e)) \/ \E d \in {1, 2} : Again(d)
Spec == Init /\ [][Next]_vars

\* computeRadialLayout: the rings of the drawing.
Inner == {n \in nodes \ {Root} : \E e \in edges : Ends(e) = {Root, n}}
Outer == nodes \ (Inner \union {Root})
------------------------------------------------------------------------------
(* Properties. *)
Answered == level = depth + 1
Ball(k) == IF k = 1 THEN {Root} \union AllEnds(Touching(related, {Root}))
           ELSE LET B == {Root} \union AllEnds(Touching(related, {Root}))
                IN  B \union AllEnds(Touching(related, B))

\* A graph that is not marked truncated has every entity within the depth, for
\* edges in both directions, if nothing was written meanwhile: an edge that is
\* met again at the second level, and counts against the limit, is no loss.
UntruncatedIsWhole == Answered /\ ~truncated /\ writes = 0 => nodes = Ball(depth)

\* Even if edges come and go between the levels, each entity drawn on the outer
\* ring hangs on one of the inner ring, by an edge of the graph.
OuterHangsOnInner ==
    Answered => /\ depth = 1 => Outer = {}
                /\ \A n \in Outer : \E m \in Inner, e \in edges : Ends(e) = {m, n}
===============================================================================
