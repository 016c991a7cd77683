----------------------------- MODULE ThreadPool -----------------------------
(***************************************************************************)
(* The thread pool of ggml (ggml-cpu.c), on which whisper.cpp computes     *)
(* every graph of a transcription: workers that poll, then sleep on a      *)
(* condition variable; a caller, thread 0, that kicks off a graph and      *)
(* computes along; the nodes of the graph in step, by barriers; the tiles  *)
(* of a matrix product dealt out by a shared counter.                      *)
(*                                                                         *)
(* WhisperService.swift leaves the pool to ggml, which makes one for each  *)
(* graph and frees it afterwards; a caller with a pool of its own computes *)
(* several graphs on it and may pause it.  Both are behaviours here.       *)
(*                                                                         *)
(* One action per access to shared data.  The mutex is held over several   *)
(* steps in the kickoff only (MutexFree).                                  *)
(***************************************************************************)
EXTENDS GgmlBarrier, Sequences

CONSTANTS
    Requests,           \* the thread counts a caller asks for
    MayGrow,            \* whether it may ask for more than the last time
    Graphs,             \* the graphs: sequences of nodes
    MaxGraphs,          \* bound on graphs computed
    ChunkSize, VectorChunkSize,     \* 16 and 64 in the code
    ChunksPerThread                 \* 4

\* A node is a matrix product with nr0 rows and nr1 columns, or, with nr0 = 0,
\* an operation whose threads do not share a counter.
Nodes == [nr0 : Nat, nr1 : Nat]

ASSUME ThreadPoolAssumption ==
    /\ Requests \subseteq Nat \ {0}
    /\ MayGrow \in BOOLEAN
    /\ Graphs \subseteq Seq(Nodes)
    /\ MaxGraphs \in Nat
    /\ ChunkSize \in Nat \ {0} /\ VectorChunkSize \in Nat \ {0}
    /\ ChunksPerThread \in Nat \ {0}

Workers == Threads \ {0}

VARIABLES
    \* struct ggml_threadpool, the counters of the barrier aside
    cgraph, n_graph, current_chunk, stop, pause, abort, ec,
    \* each thread: where it is, and its local variables
    pc,
    last_graph, new_graph,          \* workers only
    graph, node_n, nth, chunk,
    \* history: the product whose tiles are being dealt, and the tiles computed
    product, computed

poolVars == <<cgraph, n_graph, stop, pause>>
workerVars == <<last_graph, new_graph>>
computeVars == <<current_chunk, abort, ec, graph, node_n, nth, chunk, product, computed>>

vars == <<barrierVars, poolVars, pc, workerVars, computeVars>>

NoProduct == [nr0 |-> 0, nr1 |-> 0, nth |-> 1]

\* Barriers: within a product, between two nodes, at the end of the graph.
Barriers == {"mid", "end", "final"}
Computing == {"begin", "node", "chunk", "after"} \cup Barriers

CallerStages == {"caller", "kick1", "kick2", "kick3", "join", "freed"} \cup Computing
WorkerStages ==
    {"top", "paused", "pausesleep", "stopcheck", "polling", "active",
     "check", "sleep", "exited"} \cup Computing

TypeOK ==
    /\ BarrierTypeOK
    /\ cgraph \in Seq(Nodes)
    /\ n_graph \in 0 .. MaxGraphs
    /\ current_chunk \in Nat
    /\ stop \in BOOLEAN /\ pause \in BOOLEAN
    /\ abort \in Int
    /\ ec \in {"success", "aborted"}
    /\ pc \in [Threads -> CallerStages \cup WorkerStages]
    /\ pc[0] \in CallerStages
    /\ \A w \in Workers : pc[w] \in WorkerStages
    /\ last_graph \in [Workers -> 0 .. MaxGraphs]
    /\ new_graph \in [Workers -> 0 .. MaxGraphs]
    /\ graph \in [Threads -> Seq(Nodes)]
    /\ node_n \in [Threads -> Nat]
    /\ nth \in [Threads -> 1 .. NThreads]
    /\ chunk \in [Threads -> Nat]
    /\ product \in [nr0 : Nat, nr1 : Nat, nth : 1 .. NThreads]
    /\ computed \subseteq Nat

\* ggml_threadpool_new_impl.
Init ==
    /\ BarrierInit
    /\ cgraph = <<>>
    /\ n_graph = 0
    /\ current_chunk = 0
    /\ stop = FALSE /\ pause = FALSE
    /\ abort = -1
    /\ ec = "success"
    /\ pc = [t \in Threads |-> IF t = 0 THEN "caller" ELSE "top"]
    /\ last_graph = [w \in Workers |-> 0]
    /\ new_graph = [w \in Workers |-> 0]
    /\ graph = [t \in Threads |-> <<>>]
    /\ node_n = [t \in Threads |-> 0]
    /\ nth = [t \in Threads |-> NThreads]
    /\ chunk = [t \in Threads |-> 0]
    /\ product = NoProduct
    /\ computed = {}

At(t, stages) == pc[t] \in stages

Go(t, where) == pc' = [pc EXCEPT ![t] = where]

MutexFree == ~At(0, {"kick2", "kick3"})

\* Where ggml_cond_broadcast puts a sleeping thread.
Woken(t) == CASE pc[t] = "pausesleep" -> "top"
              [] pc[t] = "sleep" -> "check"
              [] OTHER -> pc[t]

----------------------------------------------------------------------------
(* The tiles of a matrix product. *)

CeilDiv(a, b) == (a + b - 1) \div b

Least(a, b) == IF a < b THEN a ELSE b

\* How many chunks each dimension is cut into; too few for the threads, and
\* the longer dimension is cut into one piece per thread.
Grid(p) ==
    LET size == IF p.nr0 = 1 \/ p.nr1 = 1 THEN VectorChunkSize ELSE ChunkSize
        n0 == CeilDiv(p.nr0, size)
        n1 == CeilDiv(p.nr1, size)
    IN  CASE n0 * n1 >= p.nth * ChunksPerThread -> [n0 |-> n0, n1 |-> n1]
          [] n0 * n1 < p.nth * ChunksPerThread /\ p.nr0 > p.nr1 ->
                [n0 |-> p.nth, n1 |-> 1]
          [] OTHER -> [n0 |-> 1, n1 |-> p.nth]

Total(p) == Grid(p).n0 * Grid(p).n1

\* The entries of the product that chunk c stands for.
Tile(p, c) ==
    LET g == Grid(p)
        d0 == CeilDiv(p.nr0, g.n0)
        d1 == CeilDiv(p.nr1, g.n1)
        s0 == d0 * (c % g.n0)
        s1 == d1 * (c \div g.n0)
    IN  (s0 .. Least(s0 + d0, p.nr0) - 1) \X (s1 .. Least(s1 + d1, p.nr1) - 1)

Entries(p) == (0 .. p.nr0 - 1) \X (0 .. p.nr1 - 1)

----------------------------------------------------------------------------
(* ggml_graph_compute_thread: the caller and the workers alike. *)

IsProduct(node) == node.nr0 > 0

Node(t) == graph[t][node_n[t] + 1]

\* What a thread does when it is past a barrier.
PastMid(t) ==
    /\ Go(t, "chunk")
    /\ chunk' = [chunk EXCEPT ![t] = t]
    /\ UNCHANGED node_n

PastEnd(t) ==
    /\ Go(t, "node")
    /\ node_n' = [node_n EXCEPT ![t] = @ + 1]
    /\ UNCHANGED chunk

PastFinal(t) ==
    /\ Go(t, IF t = 0 THEN "caller" ELSE "top")
    /\ node_n' = [node_n EXCEPT ![t] = 0]
    /\ chunk' = [chunk EXCEPT ![t] = 0]

Past(t, barrier) ==
    CASE barrier = "mid" -> PastMid(t)
      [] barrier = "end" -> PastEnd(t)
      [] barrier = "final" -> PastFinal(t)

\* Mutants: no barrier after the conversion, none at the end of the graph.
GoToBarrierButMid(t, barrier) ==
    \/ /\ Alone \/ barrier = "mid"
       /\ Past(t, barrier)
       /\ UNCHANGED barrierVars
    \/ /\ barrier # "mid" /\ Enter(t)
       /\ Go(t, barrier)
       /\ UNCHANGED <<node_n, chunk>>

GoToBarrierButFinal(t, barrier) ==
    \/ /\ Alone \/ barrier = "final"
       /\ Past(t, barrier)
       /\ UNCHANGED barrierVars
    \/ /\ barrier # "final" /\ Enter(t)
       /\ Go(t, barrier)
       /\ UNCHANGED <<node_n, chunk>>

\* A call of ggml_barrier.
GoToBarrier(t, barrier) ==
    \/ /\ Alone
       /\ Past(t, barrier)
       /\ UNCHANGED barrierVars
    \/ /\ Enter(t)
       /\ Go(t, barrier)
       /\ UNCHANGED <<node_n, chunk>>

BarrierStep(t) ==
    /\ At(t, Barriers)
    /\ \/ (Arrive(t) \/ Reset(t)) /\ UNCHANGED <<pc, node_n, chunk>>
       \/ (Release(t) \/ Leave(t)) /\ Past(t, pc[t])
    /\ UNCHANGED <<poolVars, workerVars, current_chunk, abort, ec, graph, nth,
           product, computed>>

Begin(t) ==
    /\ At(t, {"begin"})
    /\ graph' = [graph EXCEPT ![t] = cgraph]
    /\ nth' = [nth EXCEPT ![t] = n_threads_cur]
    /\ node_n' = [node_n EXCEPT ![t] = 0]
    /\ Go(t, "node")
    /\ UNCHANGED <<barrierVars, poolVars, workerVars, current_chunk, abort, ec,
           chunk, product, computed>>

MoreNodes(t) == node_n[t] < Len(graph[t]) /\ abort # node_n[t]

ComputeOther(t) ==
    /\ At(t, {"node"}) /\ MoreNodes(t)
    /\ ~IsProduct(Node(t))
    /\ Go(t, "after")
    /\ UNCHANGED <<barrierVars, poolVars, workerVars, computeVars>>

\* Mutant: the counter is not put past the chunks the threads begin with.
FirstChunkZero(t) == 0

\* The first chunk that no thread begins with.
FirstChunk(t) == nth[t]

\* Each thread converts its part of the second factor, thread 0 stores the
\* counter, and they wait for each other.
ConvertFactor(t) ==
    /\ At(t, {"node"}) /\ MoreNodes(t)
    /\ IsProduct(Node(t))
    /\ IF t = 0
       THEN /\ current_chunk' = FirstChunk(t)
            /\ product' = [nr0 |-> Node(t).nr0, nr1 |-> Node(t).nr1, nth |-> nth[t]]
            /\ computed' = {}
       ELSE UNCHANGED <<current_chunk, product, computed>>
    /\ GoToBarrier(t, "mid")
    /\ UNCHANGED <<poolVars, workerVars, abort, ec, graph, nth>>

ThisProduct(t) == [nr0 |-> Node(t).nr0, nr1 |-> Node(t).nr1, nth |-> nth[t]]

\* Compute a tile; take the next one, unless there is one for each thread.
ComputeChunk(t) ==
    /\ At(t, {"chunk"})
    /\ chunk[t] < Total(ThisProduct(t))
    /\ computed' = computed \cup {chunk[t]}
    /\ IF nth[t] >= Total(ThisProduct(t))
       THEN Go(t, "after") /\ UNCHANGED <<chunk, current_chunk>>
       ELSE /\ chunk' = [chunk EXCEPT ![t] = current_chunk]
            /\ current_chunk' = current_chunk + 1
            /\ UNCHANGED pc
    /\ UNCHANGED <<barrierVars, poolVars, workerVars, abort, ec, graph, node_n,
           nth, product>>

ChunksDone(t) ==
    /\ At(t, {"chunk"})
    /\ chunk[t] >= Total(ThisProduct(t))
    /\ Go(t, "after")
    /\ UNCHANGED <<barrierVars, poolVars, workerVars, computeVars>>

\* Mutant: the abort takes effect at the node being computed.
AskAbortHere(t) ==
    IF t = 0
    THEN \/ abort' = node_n[t] /\ ec' = "aborted"
         \/ UNCHANGED <<abort, ec>>
    ELSE UNCHANGED <<abort, ec>>

\* Mutant: the graph is left, and the result does not say so.
AskAbortSilent(t) ==
    IF t = 0
    THEN \/ abort' = node_n[t] + 1 /\ UNCHANGED ec
         \/ UNCHANGED <<abort, ec>>
    ELSE UNCHANGED <<abort, ec>>

\* Thread 0 asks the abort callback; a store for the others to see after the
\* barrier.
AskAbort(t) ==
    IF t = 0
    THEN \/ abort' = node_n[t] + 1 /\ ec' = "aborted"
         \/ UNCHANGED <<abort, ec>>
    ELSE UNCHANGED <<abort, ec>>

AfterNode(t) ==
    /\ At(t, {"after"})
    /\ AskAbort(t)
    /\ GoToBarrier(t, IF node_n[t] + 1 < Len(graph[t]) THEN "end" ELSE "final")
    /\ UNCHANGED <<poolVars, workerVars, current_chunk, graph, nth, product,
           computed>>

\* No node to compute, or the graph was aborted.
NoMoreNodes(t) ==
    /\ At(t, {"node"}) /\ ~MoreNodes(t)
    /\ GoToBarrier(t, "final")
    /\ UNCHANGED <<poolVars, workerVars, current_chunk, abort, ec, graph, nth,
           product, computed>>

ComputeThread(t) ==
    \/ Begin(t) \/ ComputeOther(t) \/ ConvertFactor(t) \/ ComputeChunk(t)
    \/ ChunksDone(t) \/ AfterNode(t) \/ NoMoreNodes(t) \/ BarrierStep(t)

----------------------------------------------------------------------------
(* ggml_graph_compute_secondary_thread: the loop of a worker. *)

\* Every step of the loop outside ggml_graph_compute_thread.
Waits(w) ==
    /\ w \in Workers
    /\ UNCHANGED <<barrierVars, poolVars, computeVars>>

ReadPause(w) ==
    /\ At(w, {"top"})
    /\ Go(w, IF pause THEN "paused" ELSE "stopcheck")
    /\ UNCHANGED workerVars
    /\ Waits(w)

\* Under the mutex: pause may have been reset meanwhile.
SleepWhilePaused(w) ==
    /\ At(w, {"paused"}) /\ MutexFree
    /\ Go(w, IF pause THEN "pausesleep" ELSE "top")
    /\ UNCHANGED workerVars
    /\ Waits(w)

\* Mutant: one worker too many.
ActiveOneMore(w) == w <= n_threads_cur

Active(w) == w < n_threads_cur

\* A worker that the current graph does not use skips the polling.
ReadStop(w) ==
    /\ At(w, {"stopcheck"})
    /\ Go(w, CASE stop -> "exited"
              [] ~stop /\ Active(w) -> "polling"
              [] OTHER -> "check")
    /\ UNCHANGED workerVars
    /\ Waits(w)

\* One round of polling that ends it or finds a graph, without the mutex.
Poll(w) ==
    /\ At(w, {"polling"})
    /\ \/ (stop \/ pause) /\ Go(w, "check") /\ UNCHANGED new_graph
       \/ /\ ~stop /\ ~pause /\ n_graph # last_graph[w]
          /\ new_graph' = [new_graph EXCEPT ![w] = n_graph]
          /\ Go(w, "active")
    /\ UNCHANGED last_graph
    /\ Waits(w)

\* The rounds are used up.
StopPolling(w) ==
    /\ At(w, {"polling"})
    /\ Go(w, "check")
    /\ UNCHANGED workerVars
    /\ Waits(w)

\* The thread count is read after the graph number was.
PollActive(w) ==
    /\ At(w, {"active"})
    /\ last_graph' = [last_graph EXCEPT ![w] = new_graph[w]]
    /\ Go(w, IF Active(w) THEN "begin" ELSE "polling")
    /\ UNCHANGED new_graph
    /\ Waits(w)

\* Mutant: the worker goes to sleep without looking at the graph number under
\* the mutex.
CheckWithoutLook(w) ==
    /\ At(w, {"check"}) /\ MutexFree
    /\ Go(w, IF stop \/ pause THEN "top" ELSE "sleep")
    /\ UNCHANGED workerVars
    /\ Waits(w)

\* Under the mutex, before sleeping and after each wakeup.
CheckForWork(w) ==
    /\ At(w, {"check"}) /\ MutexFree
    /\ IF stop \/ pause
       THEN Go(w, "top") /\ UNCHANGED last_graph
       ELSE /\ last_graph' = [last_graph EXCEPT ![w] = n_graph]
            /\ Go(w, IF n_graph # last_graph[w] /\ Active(w) THEN "begin"
                                                             ELSE "sleep")
    /\ UNCHANGED new_graph
    /\ Waits(w)

WorkerStep(w) ==
    \/ ReadPause(w) \/ SleepWhilePaused(w) \/ ReadStop(w)
    \/ Poll(w) \/ StopPolling(w) \/ PollActive(w)
    \/ CheckForWork(w)
    \/ w \in Workers /\ ComputeThread(w)

\* pthread_cond_wait may return for no reason.
SpuriousWakeup(w) ==
    /\ At(w, {"sleep", "pausesleep"})
    /\ Go(w, Woken(w))
    /\ UNCHANGED workerVars
    /\ Waits(w)

----------------------------------------------------------------------------
(* The caller: thread 0. *)

\* ggml_graph_compute, up to the kickoff.  (The threads asked for are clamped.)
GraphCompute(g, n) ==
    /\ At(0, {"caller"})
    /\ n_graph < MaxGraphs
    /\ MayGrow \/ n_graph = 0 \/ n <= n_threads_cur
    /\ cgraph' = g
    /\ current_chunk' = 0
    /\ abort' = -1
    /\ ec' = "success"
    /\ nth' = [nth EXCEPT ![0] = Least(n, NThreads)]
    /\ Go(0, "kick1")
    /\ UNCHANGED <<barrierVars, n_graph, stop, pause, workerVars, graph, node_n,
           chunk, product, computed>>

\* ggml_graph_compute_kickoff, with the mutex.
KickThreads ==
    /\ At(0, {"kick1"})
    /\ SetThreads(nth[0])
    /\ Go(0, "kick2")
    /\ UNCHANGED <<poolVars, workerVars, computeVars>>

KickGraph ==
    /\ At(0, {"kick2"})
    /\ n_graph' = n_graph + 1
    /\ Go(0, "kick3")
    /\ UNCHANGED <<barrierVars, cgraph, stop, pause, workerVars, computeVars>>

\* Mutant: only a pool that is paused is woken up.
KickWakePaused ==
    /\ At(0, {"kick3"})
    /\ pause' = FALSE
    /\ pc' = [t \in Threads |-> IF t = 0 THEN "begin" ELSE IF pause THEN Woken(t) ELSE pc[t]]
    /\ UNCHANGED <<barrierVars, cgraph, n_graph, stop, workerVars, computeVars>>

\* A paused pool is resumed; the broadcast is made in either case.
KickWake ==
    /\ At(0, {"kick3"})
    /\ pause' = FALSE
    /\ pc' = [t \in Threads |-> IF t = 0 THEN "begin" ELSE Woken(t)]
    /\ UNCHANGED <<barrierVars, cgraph, n_graph, stop, workerVars, computeVars>>

\* ggml_threadpool_pause and ggml_threadpool_resume.
SetPause(p) ==
    /\ At(0, {"caller"})
    /\ pause # p
    /\ pause' = p
    /\ pc' = [t \in Threads |-> Woken(t)]
    /\ UNCHANGED <<barrierVars, cgraph, n_graph, stop, workerVars, computeVars>>

\* ggml_threadpool_free, up to the joins.
FreePool ==
    /\ At(0, {"caller"})
    /\ stop' = TRUE
    /\ pause' = FALSE
    /\ pc' = [t \in Threads |-> IF t = 0 THEN "join" ELSE Woken(t)]
    /\ UNCHANGED <<barrierVars, cgraph, n_graph, workerVars, computeVars>>

\* The last join returns.
Joined ==
    /\ At(0, {"join"})
    /\ \A w \in Workers : At(w, {"exited"})
    /\ Go(0, "freed")
    /\ UNCHANGED <<barrierVars, poolVars, workerVars, computeVars>>

CallerStep == KickThreads \/ KickGraph \/ KickWake \/ Joined \/ ComputeThread(0)

Freed == At(0, {"freed"}) /\ UNCHANGED vars

Next ==
    \/ \E g \in Graphs, n \in Requests : GraphCompute(g, n)
    \/ \E p \in BOOLEAN : SetPause(p)
    \/ FreePool
    \/ CallerStep
    \/ \E w \in Workers : WorkerStep(w) \/ SpuriousWakeup(w)
    \/ Freed

\* The operating system runs every thread that can run.  The caller's own
\* decisions and spurious wakeups are not fair.
Fairness == WF_vars(CallerStep) /\ \A w \in Workers : WF_vars(WorkerStep(w))

SafeSpec == Init /\ [][Next]_vars

Spec == SafeSpec /\ Fairness

----------------------------------------------------------------------------
(* Properties. *)

\* The threads of the current graph, once it has been kicked off.
InGraph(t) ==
    /\ At(t, Computing) /\ ~(At(t, {"final"}) /\ Free(t))
    /\ t = 0 \/ last_graph[t] = n_graph

\* How far a thread is: a barrier that has let it go is behind it.
Progress(t) ==
    IF ~InGraph(t) \/ At(t, {"begin"}) THEN <<0, 0>>
    ELSE CASE At(t, {"mid"}) /\ Free(t) -> <<node_n[t], 1>>
           [] At(t, {"end"}) /\ Free(t) -> <<node_n[t] + 1, 0>>
           [] At(t, {"end"}) /\ ~Free(t) -> <<node_n[t], 1>>
           [] At(t, {"chunk", "after", "final"}) -> <<node_n[t], 1>>
           [] OTHER -> <<node_n[t], 0>>

\* No thread computes with what another has not finished: while one is at a
\* node, every thread of the graph has finished the nodes before it, and while
\* one multiplies, every thread has converted its part
\* (ggml-cpu.c:8747, :15211).
InStep ==
    \A t \in Threads : At(t, {"node", "chunk", "after"}) /\ InGraph(t) =>
        \A u \in 0 .. n_threads_cur - 1 :
            /\ Progress(u)[1] = Progress(t)[1]
            /\ At(t, {"chunk"}) => Progress(u)[2] = 1

\* The entries of a product are computed once each, whatever its shape and
\* whichever thread takes which chunk (ggml-cpu.c:8774-8834).
EntriesOnce ==
    /\ \A t \in Threads : At(t, {"chunk"}) /\ chunk[t] < Total(product) =>
          /\ chunk[t] \notin computed
          /\ \A u \in Threads : At(u, {"chunk"}) /\ chunk[u] = chunk[t] => u = t
          /\ \A c \in computed : Tile(product, c) \cap Tile(product, chunk[t]) = {}
    /\ At(0, {"node", "caller"}) =>
          UNION {Tile(product, c) : c \in computed} = Entries(product)

\* An abort is seen by every thread at the same node: none computes a node that
\* another leaves out (ggml-cpu.c:15199-15207).
AbortTogether ==
    \A t \in Threads : At(t, {"chunk", "after"}) /\ abort # -1 =>
        node_n[t] < abort

\* ggml-cpu.c:15459: while the caller resets the parameters of the pool, no
\* worker is at a graph.
CallerAlone ==
    At(0, {"caller"}) =>
        \A w \in Workers : At(w, Computing) => At(w, {"final"}) /\ Free(w)

\* The pool calls the barrier the way GgmlBarrier, about which there are proofs,
\* says: only threads of the graph call it, and the number of threads changes
\* when nobody waits (ggml-cpu.c:15346).
UsesBarrier == BarrierSpec

\* A graph that is kicked off is computed, and the pool is freed: no wakeup is
\* lost, whether a worker polls, sleeps or is paused (ggml-cpu.c:15277-15364).
CallReturns == ~At(0, {"caller", "freed"}) ~> At(0, {"caller", "freed"})

\* A thread that goes on only when another has acted.
Blocked(t) ==
    \/ At(t, {"sleep", "pausesleep", "exited"})
    \/ At(t, {"paused", "check"}) /\ ~MutexFree
    \/ At(t, Barriers) /\ stage[t] = "spin" /\ ~Free(t)
    \/ At(t, {"join"}) /\ \E w \in Workers : ~At(w, {"exited"})

\* The threads whose steps the caller waits for, itself among them.
Awaited == IF At(0, {"join"}) THEN Threads ELSE 0 .. n_threads_cur - 1

\* The caller never waits for threads that all sleep or are held: of those that
\* it waits for one can go on by itself (ggml-cpu.c:15285-15289, :15346, :2473-2485).
NobodyStuck == ~At(0, {"caller", "freed"}) => \E t \in Awaited : ~Blocked(t)

----------------------------------------------------------------------------
(* The pool as one computer. *)

\* At a graph: inside ggml_graph_compute_thread, and not let go by its last
\* barrier.
Busy(t) == At(t, Computing) /\ ~(At(t, {"final"}) /\ Free(t))

\* The current graph has been kicked off and is not finished.
Running == At(0, {"kick3"}) \/ Busy(0)

\* The node a thread is at; a barrier that has let it go is behind it.
Pos(t) ==
    CASE ~Busy(t) \/ At(t, {"begin"}) -> 0
      [] Busy(t) /\ At(t, {"end"}) /\ Free(t) -> node_n[t] + 1
      [] OTHER -> node_n[t]

\* Node n of the graph is a product, or another operation, to be computed.
Multiplies(n) == n < Len(cgraph) /\ abort # n /\ IsProduct(cgraph[n + 1])
Operates(n) == n < Len(cgraph) /\ abort # n /\ ~IsProduct(cgraph[n + 1])

\* The thread waits, or is about to, at the barrier behind the node.
Behind(t) == At(t, {"after"}) \/ (At(t, {"end", "final"}) /\ ~Free(t))

\* The thread is past the conversion of the product it is at.
Converted(t) ==
    \/ At(t, {"mid"}) /\ Free(t)
    \/ At(t, {"chunk"})
    \/ /\ At(t, {"after"}) \/ (At(t, {"end", "final"}) /\ ~Free(t))
       /\ Multiplies(node_n[t])

\* The chunks of a product are being dealt: thread 0 has set the counter up, and
\* the threads have not been let go by the barrier behind the product.
Dealing == Busy(0) /\ (At(0, {"mid"}) \/ Converted(0))

Phase ==
    CASE At(0, {"kick1", "kick2"}) -> "ready"
      [] Running -> "running"
      [] OTHER -> "idle"

\* What of the node has been computed: the tiles of a product, or the parts of
\* the threads that are through with it.
Parts ==
    CASE Dealing -> UNION {Tile(product, c) : c \in computed}
      [] ~Dealing /\ Running /\ Operates(Pos(0)) ->
            {t \in 0 .. n_threads_cur - 1 : Behind(t)}
      [] OTHER -> {}

GC == INSTANCE GraphComputation
          WITH phase <- Phase, graph <- cgraph, threads <- n_threads_cur,
               node <- Pos(0), parts <- Parts, result <- ec

\* The pool computes as its caller is promised: however the threads are
\* interleaved, no node is begun before the one before it is whole
\* (ggml-cpu.c:15198-15216).
ImplementsGraphComputation == GC!Spec

\* A graph is not returned as a success unless it was computed to the last entry
\* of the last node (ggml-cpu.c:15199-15207, :15500).
SuccessIsWhole == GC!SuccessIsWhole
=============================================================================
