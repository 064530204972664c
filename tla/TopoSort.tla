------------------------------ MODULE TopoSort -----------------------------
(***************************************************************************)
(* The order in which a selection is handled: topological_sort of          *)
(* graph.cpp, with the depth-first search of the Boost Graph Library that  *)
(* it calls.  A graph is a sequence that maps every vertex to the sequence *)
(* of its successors.                                                      *)
(***************************************************************************)
EXTENDS Resolve

Colors == {"white", "gray", "black"}

\* How far a search has come: the colour of every vertex, the vertices in the
\* order in which they were finished, and whether a back edge was met, in which
\* case not_a_dag is thrown and the search stops.
Searches(V) == [color : [V -> Colors], finished : Seq(V), cyclic : BOOLEAN]

Start(V) == [color |-> [v \in V |-> "white"], finished |-> << >>, cyclic |-> FALSE]

FinishFirst(s, v) ==   \* mutant of Finish
    [s EXCEPT !.color[v] = "black", !.finished = <<v>> \o @]
FinishGray(s, v) == [s EXCEPT !.finished = Append(@, v)]   \* mutant of Finish

Finish(s, v) == [s EXCEPT !.color[v] = "black", !.finished = Append(@, v)]

\* The search comes to an edge to w.
Meet(visit, w, s) ==
    CASE s.cyclic \/ s.color[w] = "black" -> s
      [] ~s.cyclic /\ s.color[w] = "gray" -> [s EXCEPT !.cyclic = TRUE]
      [] ~s.cyclic /\ s.color[w] = "white" -> visit[<<w, s>>]

\* v is visited: its edges in order, and v is output when all are done.
Visited(graph, visit, v, s) ==
    LET after[k \in 0 .. Len(graph[v])] ==
            IF k = 0 THEN [s EXCEPT !.color[v] = "gray"]
            ELSE Meet(visit, graph[v][k], after[k - 1])
        last == after[Len(graph[v])]
    IN IF last.cyclic THEN last ELSE Finish(last, v)

\* depth_first_visit of Boost, as a function of a vertex and how far the search is.
Visits(graph) ==
    LET V == DOMAIN graph
        visit[x \in V \X Searches(V)] == Visited(graph, visit, x[1], x[2])
    IN visit

\* depth_first_search of Boost: visit every vertex that is still white.
DepthFirst(graph) ==
    LET from[n \in 0 .. Len(graph)] ==
            IF n = 0 THEN Start(DOMAIN graph)
            ELSE LET s == from[n - 1]
                 IN IF s.cyclic \/ s.color[n] # "white" THEN s ELSE Visits(graph)[<<n, s>>]
    IN from[Len(graph)]

\* The model the solver returns lists the selected entries in database order.
InDatabaseOrder(db, sel) == Ascending(Len(db), sel)

\* There is an edge from a provider to every entry that depends on it.
DependencyGraph(db, model) ==
    [i \in DOMAIN model |->
        Ascending(Len(model), {k \in DOMAIN model : DependsOn(db, model[k], model[i])})]

TopologicalUnsorted(db, model) ==   \* mutant of TopologicalSort
    LET search == DepthFirst(DependencyGraph(db, model))
    IN [cyclic |-> search.cyclic,
        order |-> [i \in DOMAIN search.finished |-> model[search.finished[i]]]]

\* The vertices finish in reverse order, so the list is turned round at the end.
TopologicalSort(db, model) ==
    LET search == DepthFirst(DependencyGraph(db, model))
    IN [cyclic |-> search.cyclic,
        order |-> [i \in DOMAIN search.finished |-> model[Reverse(search.finished)[i]]]]
=============================================================================
