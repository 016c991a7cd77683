-------------------------- MODULE GraphComputation --------------------------
(***************************************************************************)
(* What ggml_graph_compute promises its caller, however many threads       *)
(* compute: the nodes of a graph one after the other, each of them whole   *)
(* before the next is begun.  A graph that ends early was aborted, and the *)
(* result says so.                                                         *)
(*                                                                         *)
(* The module models no code of its own.  ThreadPool implements it, see    *)
(* the instance GC there.                                                  *)
(***************************************************************************)
EXTENDS Integers, Sequences

CONSTANT Graphs     \* the graphs: sequences of nodes, nr0 by nr1

VARIABLES
    phase,          \* "idle", "ready" or "running"
    graph,
    threads,        \* the number of threads
    node,           \* the number of the node being computed
    parts,          \* what of the node has been computed
    abort,          \* the node not to be computed any more, or -1
    result

vars == <<phase, graph, threads, node, parts, abort, result>>

Init ==
    /\ phase = "idle"
    /\ graph = <<>>
    /\ threads \in Nat \ {0}
    /\ node = 0
    /\ parts = {}
    /\ abort = -1
    /\ result = "success"

Wanted == node < Len(graph) /\ abort # node

\* The parts of a node: the entries of a product; of anything else, a part for
\* each thread.
AllParts ==
    LET n == graph[node + 1]
    IN  IF n.nr0 > 0 THEN (0 .. n.nr0 - 1) \X (0 .. n.nr1 - 1) ELSE 0 .. threads - 1

Whole == Wanted /\ parts = AllParts

\* A graph, and how many threads are to compute it.
Prepare ==
    /\ phase = "idle"
    /\ phase' = "ready"
    /\ graph' \in Graphs
    /\ abort' = -1
    /\ result' = "success"
    /\ UNCHANGED <<threads, node, parts>>

SetThreads ==
    /\ phase = "ready"
    /\ threads' \in Nat \ {0}
    /\ UNCHANGED <<phase, graph, node, parts, abort, result>>

Begin ==
    /\ phase = "ready"
    /\ phase' = "running"
    /\ UNCHANGED <<graph, threads, node, parts, abort, result>>

\* The caller may ask, at any node, to have it end before the next.
MayAbort ==
    \/ abort' = node + 1 /\ result' = "aborted"
    \/ UNCHANGED <<abort, result>>

Compute ==
    /\ phase = "running" /\ Wanted
    /\ parts \subseteq parts' /\ parts' \subseteq AllParts
    /\ MayAbort
    /\ UNCHANGED <<phase, graph, threads, node>>

NextNode ==
    /\ phase = "running" /\ Whole
    /\ node + 1 < Len(graph)
    /\ node' = node + 1
    /\ parts' = {}
    /\ MayAbort
    /\ UNCHANGED <<phase, graph, threads>>

\* Nothing is left of the graph, or it is aborted.
Finish ==
    /\ phase = "running"
    /\ (Whole /\ node + 1 = Len(graph)) \/ ~Wanted
    /\ phase' = "idle"
    /\ node' = 0
    /\ parts' = {}
    /\ MayAbort
    /\ UNCHANGED <<graph, threads>>

Next == Prepare \/ SetThreads \/ Begin \/ Compute \/ NextNode \/ Finish

Spec == Init /\ [][Next]_vars

\* What is returned as a success is the whole graph.
SuccessIsWhole ==
    [][phase = "running" /\ phase' # "running" /\ result' = "success" =>
           graph = <<>> \/ (Whole /\ node + 1 = Len(graph))]_vars
=============================================================================
