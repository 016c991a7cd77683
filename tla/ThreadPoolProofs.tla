-------------------------- MODULE ThreadPoolProofs --------------------------
(***************************************************************************)
(* The threads of a pool compute a graph in step, for any number of        *)
(* threads, any graphs and any tiles.  The barrier is used only through    *)
(* what GgmlBarrierProofs shows of it: a Release lets the whole party go   *)
(* at once.                                                                *)
(*                                                                         *)
(* All of it is about a caller that asks for no more threads than the last *)
(* time (~MayGrow).                                                        *)
(***************************************************************************)
EXTENDS ThreadPool, GgmlBarrierProofs

\* Who calls the barrier is where the code calls it.
StagesMatch == \A t \in Threads : At(t, Barriers) <=> stage[t] # "out"

\* While a graph runs, its workers have not begun it or are at it; when it is
\* finished, they know it and none is at it.
WorkersOK ==
    \A w \in Workers :
        /\ Busy(w) => Running /\ Active(w) /\ last_graph[w] = n_graph
        /\ Active(w) /\ last_graph[w] = n_graph => (~Running \/ Busy(w))
        /\ Active(w) /\ ~Running => last_graph[w] = n_graph
        /\ Active(w) /\ At(w, {"active"}) =>
              new_graph[w] = n_graph /\ last_graph[w] # n_graph

\* What the caller has prepared when it kicks a graph off.
CallerOK ==
    /\ At(0, {"kick1", "kick2"}) => n_graph < MaxGraphs
    /\ At(0, {"kick1", "kick2", "kick3"}) => abort = -1
    /\ At(0, {"kick1"}) => nth[0] <= n_threads_cur
    /\ At(0, {"caller"}) /\ n_graph = 0 => n_threads_cur = NThreads
    /\ At(0, {"kick3"} \cup Computing) => n_graph # 0

\* The barrier, or the computation, that a thread is in fits its node.
PlaceOK(t) ==
    /\ graph[t] = cgraph
    /\ nth[t] = n_threads_cur
    /\ At(t, {"mid", "chunk"}) => Multiplies(node_n[t])
    /\ At(t, {"after"}) => node_n[t] < Len(cgraph) /\ abort # node_n[t]
    /\ At(t, {"end"}) => node_n[t] + 1 < Len(cgraph)
    /\ At(t, {"end"}) /\ ~Free(t) => abort # node_n[t]
    /\ At(t, {"final"}) =>
          \/ node_n[t] + 1 = Len(cgraph) /\ abort # node_n[t]
          \/ node_n[t] >= Len(cgraph)
          \/ abort = node_n[t]

PlacesOK == \A t \in Threads : Busy(t) /\ ~At(t, {"begin"}) => PlaceOK(t)

\* All threads of the graph are between the same two barriers.
EpochOK ==
    Running => \A t \in Party : Pos(t) = Pos(0) /\ (Converted(t) <=> Converted(0))

\* An abort is for the node they are at or for the next.
AbortOK == Running => abort \in {-1, Pos(0), Pos(0) + 1}

PoolInv ==
    /\ TypeOK
    /\ BarrierInv
    /\ StagesMatch
    /\ WorkersOK
    /\ CallerOK
    /\ PlacesOK
    /\ EpochOK
    /\ AbortOK

----------------------------------------------------------------------------
(* Types. *)

LEMMA ThreadsAre ==
  /\ 0 \in Threads
  /\ Workers \subseteq Threads
  /\ Threads \subseteq Nat
  /\ \A t \in Threads : t # 0 => t \in Workers
  /\ 0 \notin Workers
  BY NThreadsAssumption DEF Threads, Workers

LEMMA StageSets ==
  /\ Computing = {"begin", "node", "chunk", "after", "mid", "end", "final"}
  /\ CallerStages = {"caller", "kick1", "kick2", "kick3", "join", "freed"} \cup Computing
  /\ WorkerStages = {"top", "paused", "pausesleep", "stopcheck", "polling", "active",
                     "check", "sleep", "exited"} \cup Computing
  BY DEF Computing, Barriers, CallerStages, WorkerStages

\* A thread that goes to a stage of its own keeps pc typed.
LEMMA GoTypes ==
  ASSUME TypeOK, NEW t \in Threads, NEW s,
         s \in IF t = 0 THEN CallerStages ELSE WorkerStages, Go(t, s)
  PROVE  /\ pc' \in [Threads -> CallerStages \cup WorkerStages]
         /\ pc'[0] \in CallerStages
         /\ \A w \in Workers : pc'[w] \in WorkerStages
  BY ThreadsAre DEF TypeOK, Go

LEMMA WokenTypes ==
  ASSUME TypeOK, NEW s \in CallerStages,
         pc' = [t \in Threads |-> IF t = 0 THEN s ELSE Woken(t)]
  PROVE  /\ pc' \in [Threads -> CallerStages \cup WorkerStages]
         /\ pc'[0] \in CallerStages
         /\ \A w \in Workers : pc'[w] \in WorkerStages
  BY ThreadsAre, StageSets DEF TypeOK, Woken

LEMMA NodeType ==
  ASSUME TypeOK, NEW t \in Threads, node_n[t] < Len(graph[t])
  PROVE  Node(t) \in Nodes
  <1>1. graph[t] \in Seq(Nodes) /\ node_n[t] \in Nat
    BY DEF TypeOK
  <1>2. node_n[t] + 1 \in 1 .. Len(graph[t])
    BY <1>1
  <1>3. QED
    BY <1>1, <1>2 DEF Node

\* The types of what the barrier does not hold.
PoolTypes ==
  /\ cgraph \in Seq(Nodes)
  /\ n_graph \in 0 .. MaxGraphs
  /\ current_chunk \in Nat
  /\ stop \in BOOLEAN /\ pause \in BOOLEAN
  /\ abort \in Int
  /\ ec \in {"success", "aborted"}

PcTypes ==
  /\ pc \in [Threads -> CallerStages \cup WorkerStages]
  /\ pc[0] \in CallerStages
  /\ \A w \in Workers : pc[w] \in WorkerStages

LocalTypes ==
  /\ last_graph \in [Workers -> 0 .. MaxGraphs]
  /\ new_graph \in [Workers -> 0 .. MaxGraphs]
  /\ graph \in [Threads -> Seq(Nodes)]
  /\ node_n \in [Threads -> Nat]
  /\ nth \in [Threads -> 1 .. NThreads]
  /\ chunk \in [Threads -> Nat]

ProductTypes ==
  /\ product \in [nr0 : Nat, nr1 : Nat, nth : 1 .. NThreads]
  /\ computed \subseteq Nat

LEMMA TypeParts == TypeOK <=> BarrierTypeOK /\ PoolTypes /\ PcTypes /\ LocalTypes /\ ProductTypes
  BY DEF TypeOK, PoolTypes, PcTypes, LocalTypes, ProductTypes

LEMMA PastCases ==
  ASSUME NEW t \in Threads, NEW b \in Barriers, Past(t, b)
  PROVE  \/ b = "mid" /\ PastMid(t)
         \/ b = "end" /\ PastEnd(t)
         \/ b = "final" /\ PastFinal(t)
  <1>1. b \in {"mid", "end", "final"}
    BY DEF Barriers
  <1>2. QED
    BY <1>1, Zenon DEF Past

LEMMA ComputeTypes ==
  ASSUME TypeOK, NEW t \in Threads, ComputeThread(t)
  PROVE  PoolTypes' /\ PcTypes' /\ LocalTypes' /\ ProductTypes'
  <1> USE DEF poolVars, workerVars, computeVars
  <1>0. PoolTypes /\ PcTypes /\ LocalTypes /\ ProductTypes /\ n_threads_cur \in 1 .. NThreads
    BY TypeParts DEF BarrierTypeOK
  <1>g. ASSUME NEW s \in Computing, Go(t, s) PROVE PcTypes'
    BY <1>g, GoTypes, StageSets DEF PcTypes
  <1>p. ASSUME NEW b \in Barriers, Past(t, b)
        PROVE  PcTypes' /\ node_n' \in [Threads -> Nat] /\ chunk' \in [Threads -> Nat]
    <2>1. /\ t \in Nat
          /\ \/ b = "mid" /\ PastMid(t)
             \/ b = "end" /\ PastEnd(t)
             \/ b = "final" /\ PastFinal(t)
      BY <1>p, ThreadsAre, PastCases
    <2>2. \E s : (s \in IF t = 0 THEN CallerStages ELSE WorkerStages) /\ Go(t, s)
      BY <2>1, StageSets DEF PastMid, PastEnd, PastFinal
    <2>3. PcTypes'
      BY <2>2, GoTypes DEF PcTypes
    <2>4. node_n' \in [Threads -> Nat] /\ chunk' \in [Threads -> Nat]
      <3>0. node_n \in [Threads -> Nat] /\ chunk \in [Threads -> Nat]
        BY <1>0 DEF LocalTypes
      <3>1. CASE PastMid(t)
        BY <3>0, <2>1, <3>1 DEF PastMid
      <3>2. CASE PastEnd(t)
        BY <3>0, <3>2 DEF PastEnd
      <3>3. CASE PastFinal(t)
        BY <3>0, <3>3 DEF PastFinal
      <3>4. QED
        BY <2>1, <3>1, <3>2, <3>3
    <2>5. QED
      BY <2>3, <2>4
  <1>b. ASSUME NEW b \in Barriers, GoToBarrier(t, b)
        PROVE  PcTypes' /\ node_n' \in [Threads -> Nat] /\ chunk' \in [Threads -> Nat]
    <2>1. b \in Computing
      BY DEF Computing
    <2>2. QED
      BY <1>0, <1>b, <1>g, <1>p, <2>1 DEF GoToBarrier, LocalTypes
  <1>1. CASE Begin(t)
    <2>1. PcTypes'
      BY <1>1, <1>g, StageSets DEF Begin
    <2>2. LocalTypes'
      BY <1>0, <1>1 DEF Begin, LocalTypes, PoolTypes
    <2>3. QED
      BY <1>0, <1>1, <2>1, <2>2 DEF Begin, PoolTypes, ProductTypes
  <1>2. CASE ComputeOther(t) \/ ChunksDone(t)
    <2>1. PcTypes'
      BY <1>2, <1>g, StageSets DEF ComputeOther, ChunksDone
    <2>2. QED
      BY <1>0, <1>2, <2>1
         DEF ComputeOther, ChunksDone, PoolTypes, LocalTypes, ProductTypes
  <1>3. CASE ConvertFactor(t)
    <2>1. GoToBarrier(t, "mid") /\ "mid" \in Barriers
      BY <1>3 DEF ConvertFactor, Barriers
    <2>2. PcTypes' /\ node_n' \in [Threads -> Nat] /\ chunk' \in [Threads -> Nat]
      BY <1>b, <2>1
    <2>3. Node(t) \in Nodes /\ nth[t] \in 1 .. NThreads
      BY <1>0, <1>3, NodeType DEF ConvertFactor, MoreNodes, LocalTypes
    <2>4. ProductTypes' /\ current_chunk' \in Nat
      <3>1. CASE t = 0
        <4>1. PICK n \in Nodes : n = Node(t)
          BY <2>3
        <4>2. /\ current_chunk' = nth[t] /\ computed' = {}
              /\ product' = [nr0 |-> n.nr0, nr1 |-> n.nr1, nth |-> nth[t]]
          BY <1>3, <3>1, <4>1 DEF ConvertFactor, FirstChunk
        <4>3. current_chunk' \in Nat
          BY <2>3, <4>2, NThreadsAssumption
        <4>4. product' \in [nr0 : Nat, nr1 : Nat, nth : 1 .. NThreads]
          BY <2>3, <4>2 DEF Nodes
        <4>5. QED
          BY <4>2, <4>3, <4>4 DEF ProductTypes
      <3>2. CASE t # 0
        BY <1>0, <1>3, <3>2 DEF ConvertFactor, ProductTypes, PoolTypes
      <3>3. QED
        BY <3>1, <3>2
    <2>5. QED
      BY <1>0, <1>3, <2>2, <2>4 DEF ConvertFactor, PoolTypes, LocalTypes
  <1>4. CASE ComputeChunk(t)
    <2>1. PcTypes'
      <3>1. CASE Go(t, "after")
        BY <3>1, <1>g, StageSets
      <3>2. CASE pc' = pc
        BY <1>0, <3>2 DEF PcTypes
      <3>3. QED
        BY <1>4, <3>1, <3>2 DEF ComputeChunk
    <2>2. chunk' \in [Threads -> Nat] /\ current_chunk' \in Nat
      BY <1>0, <1>4 DEF ComputeChunk, LocalTypes, PoolTypes
    <2>3. computed' \subseteq Nat
      <3>1. chunk[t] \in Nat
        BY <1>0 DEF LocalTypes
      <3>2. QED
        BY <1>0, <1>4, <3>1 DEF ComputeChunk, ProductTypes
    <2>4. QED
      BY <1>0, <1>4, <2>1, <2>2, <2>3
         DEF ComputeChunk, PoolTypes, LocalTypes, ProductTypes
  <1>5. CASE AfterNode(t)
    <2>1. \E b \in Barriers : GoToBarrier(t, b)
      BY <1>5 DEF AfterNode, Barriers
    <2>2. PcTypes' /\ node_n' \in [Threads -> Nat] /\ chunk' \in [Threads -> Nat]
      BY <1>b, <2>1
    <2>3. abort' \in Int /\ ec' \in {"success", "aborted"}
      <3>1. node_n[t] \in Nat
        BY <1>0 DEF LocalTypes
      <3>2. QED
        BY <1>0, <1>5, <3>1 DEF AfterNode, AskAbort, PoolTypes
    <2>4. QED
      BY <1>0, <1>5, <2>2, <2>3 DEF AfterNode, PoolTypes, LocalTypes, ProductTypes
  <1>6. CASE NoMoreNodes(t)
    <2>1. GoToBarrier(t, "final") /\ "final" \in Barriers
      BY <1>6 DEF NoMoreNodes, Barriers
    <2>2. PcTypes' /\ node_n' \in [Threads -> Nat] /\ chunk' \in [Threads -> Nat]
      BY <1>b, <2>1
    <2>3. QED
      BY <1>0, <1>6, <2>2 DEF NoMoreNodes, PoolTypes, LocalTypes, ProductTypes
  <1>7. CASE BarrierStep(t)
    <2>1. PcTypes' /\ node_n' \in [Threads -> Nat] /\ chunk' \in [Threads -> Nat]
      <3>1. CASE UNCHANGED <<pc, node_n, chunk>>
        BY <1>0, <3>1 DEF PcTypes, LocalTypes
      <3>2. CASE Past(t, pc[t])
        BY <1>7, <1>p, <3>2 DEF BarrierStep, At
      <3>3. QED
        BY <1>7, <3>1, <3>2 DEF BarrierStep
    <2>2. QED
      BY <1>0, <1>7, <2>1 DEF BarrierStep, PoolTypes, LocalTypes, ProductTypes
  <1>8. QED
    BY <1>1, <1>2, <1>3, <1>4, <1>5, <1>6, <1>7 DEF ComputeThread

LEMMA WorkerTypes ==
  ASSUME TypeOK, NEW w \in Workers,
         \/ ReadPause(w) \/ SleepWhilePaused(w) \/ ReadStop(w) \/ Poll(w)
         \/ StopPolling(w) \/ PollActive(w) \/ CheckForWork(w) \/ SpuriousWakeup(w)
  PROVE  PoolTypes' /\ PcTypes' /\ LocalTypes' /\ ProductTypes'
  <1> USE DEF poolVars, workerVars, computeVars
  <1>0. PoolTypes /\ PcTypes /\ LocalTypes /\ ProductTypes
    BY TypeParts
  <1>1. Waits(w)
    BY DEF ReadPause, SleepWhilePaused, ReadStop, Poll, StopPolling, PollActive,
       CheckForWork, SpuriousWakeup
  <1>2. PcTypes'
    <2>1. \E s \in WorkerStages : Go(w, s)
      BY StageSets
         DEF ReadPause, SleepWhilePaused, ReadStop, Poll, StopPolling, PollActive,
             CheckForWork, SpuriousWakeup, Woken, At
    <2>2. QED
      BY <2>1, ThreadsAre, GoTypes DEF PcTypes
  <1>3. /\ last_graph' \in [Workers -> 0 .. MaxGraphs]
        /\ new_graph' \in [Workers -> 0 .. MaxGraphs]
    <2>1. \/ UNCHANGED last_graph
          \/ last_graph' = [last_graph EXCEPT ![w] = n_graph]
          \/ last_graph' = [last_graph EXCEPT ![w] = new_graph[w]]
      BY DEF ReadPause, SleepWhilePaused, ReadStop, Poll, StopPolling, PollActive,
         CheckForWork, SpuriousWakeup
    <2>2. UNCHANGED new_graph \/ new_graph' = [new_graph EXCEPT ![w] = n_graph]
      BY DEF ReadPause, SleepWhilePaused, ReadStop, Poll, StopPolling, PollActive,
         CheckForWork, SpuriousWakeup
    <2>3. QED
      BY <1>0, <2>1, <2>2 DEF LocalTypes, PoolTypes
  <1>4. QED
    BY <1>0, <1>1, <1>2, <1>3 DEF Waits, PoolTypes, LocalTypes, ProductTypes

LEMMA CallerTypes ==
  ASSUME TypeOK, CallerOK,
         \/ \E g \in Graphs, n \in Requests : GraphCompute(g, n)
         \/ \E p \in BOOLEAN : SetPause(p)
         \/ FreePool \/ KickThreads \/ KickGraph \/ KickWake \/ Joined
  PROVE  PoolTypes' /\ PcTypes' /\ LocalTypes' /\ ProductTypes'
  <1> USE DEF poolVars, workerVars, computeVars
  <1>0. PoolTypes /\ PcTypes /\ LocalTypes /\ ProductTypes
    BY TypeParts
  <1>g. ASSUME NEW s \in CallerStages, Go(0, s) PROVE PcTypes'
    BY <1>g, GoTypes, ThreadsAre DEF PcTypes
  <1>1. ASSUME NEW g \in Graphs, NEW n \in Requests, GraphCompute(g, n)
        PROVE  PoolTypes' /\ PcTypes' /\ LocalTypes' /\ ProductTypes'
    <2>1. PcTypes'
      BY <1>1, <1>g, StageSets DEF GraphCompute
    <2>2. g \in Seq(Nodes) /\ n \in Nat \ {0}
      BY ThreadPoolAssumption
    <2>3. Least(n, NThreads) \in 1 .. NThreads
      BY <2>2, NThreadsAssumption DEF Least
    <2>4. LocalTypes'
      BY <1>0, <1>1, <2>3 DEF GraphCompute, LocalTypes
    <2>5. QED
      BY <1>0, <1>1, <2>1, <2>2, <2>4 DEF GraphCompute, PoolTypes, ProductTypes
  <1>2. ASSUME NEW p \in BOOLEAN, SetPause(p)
        PROVE  PoolTypes' /\ PcTypes' /\ LocalTypes' /\ ProductTypes'
    <2>1. pc' = [t \in Threads |-> IF t = 0 THEN "caller" ELSE Woken(t)]
      BY <1>2 DEF SetPause, At, Woken
    <2>2. PcTypes'
      BY <2>1, WokenTypes, StageSets DEF PcTypes
    <2>3. QED
      BY <1>0, <1>2, <2>2 DEF SetPause, PoolTypes, LocalTypes, ProductTypes
  <1>3. CASE FreePool \/ KickWake
    <2>1. \E s \in CallerStages :
             pc' = [t \in Threads |-> IF t = 0 THEN s ELSE Woken(t)]
      BY <1>3, StageSets DEF FreePool, KickWake
    <2>2. PcTypes'
      BY <2>1, WokenTypes DEF PcTypes
    <2>3. QED
      BY <1>0, <1>3, <2>2 DEF FreePool, KickWake, PoolTypes, LocalTypes, ProductTypes
  <1>4. CASE KickThreads \/ KickGraph \/ Joined
    <2>1. PcTypes'
      BY <1>4, <1>g, StageSets DEF KickThreads, KickGraph, Joined
    <2>2. n_graph' \in 0 .. MaxGraphs
      <3>1. CASE KickGraph
        <4>1. n_graph < MaxGraphs /\ n_graph' = n_graph + 1
          BY <3>1 DEF KickGraph, CallerOK, At
        <4>2. QED
          BY <1>0, <4>1, ThreadPoolAssumption DEF PoolTypes
      <3>2. CASE KickThreads \/ Joined
        BY <1>0, <3>2 DEF KickThreads, Joined, PoolTypes
      <3>3. QED
        BY <1>4, <3>1, <3>2
    <2>3. QED
      BY <1>0, <1>4, <2>1, <2>2
         DEF KickThreads, KickGraph, Joined, PoolTypes, LocalTypes, ProductTypes
  <1>5. QED
    BY <1>1, <1>2, <1>3, <1>4

\* The steps of the pool: of the caller between graphs, of a worker outside
\* them, and of a thread at a graph.
LEMMA NextIs ==
  ASSUME Next
  PROVE  \/ \E g \in Graphs, n \in Requests : GraphCompute(g, n)
         \/ \E p \in BOOLEAN : SetPause(p)
         \/ FreePool \/ KickThreads \/ KickGraph \/ KickWake \/ Joined
         \/ \E w \in Workers :
               \/ ReadPause(w) \/ SleepWhilePaused(w) \/ ReadStop(w) \/ Poll(w)
               \/ StopPolling(w) \/ PollActive(w) \/ CheckForWork(w) \/ SpuriousWakeup(w)
         \/ \E t \in Threads : ComputeThread(t)
         \/ UNCHANGED vars
  BY ThreadsAre DEF Next, CallerStep, WorkerStep, Freed

LEMMA TypeStep ==
  ASSUME TypeOK, CallerOK, BarrierTypeOK', [Next]_vars
  PROVE  TypeOK'
  <1>1. PoolTypes' /\ PcTypes' /\ LocalTypes' /\ ProductTypes'
    <2>1. CASE UNCHANGED vars
      <3>1. PoolTypes /\ PcTypes /\ LocalTypes /\ ProductTypes
        BY TypeParts
      <3>2. QED
        BY <2>1, <3>1 DEF vars, poolVars, workerVars, computeVars, PoolTypes, PcTypes,
           LocalTypes, ProductTypes
    <2>2. QED
      BY <2>1, NextIs, ComputeTypes, WorkerTypes, CallerTypes
  <1>2. QED
    BY <1>1 DEF TypeOK, PoolTypes, PcTypes, LocalTypes, ProductTypes

----------------------------------------------------------------------------
(* Threads that a step leaves where they are. *)

Same(u) ==
    /\ pc'[u] = pc[u] /\ stage'[u] = stage[u] /\ n_passed'[u] = n_passed[u]
    /\ node_n'[u] = node_n[u] /\ graph'[u] = graph[u] /\ nth'[u] = nth[u]

LEMMA SameFree ==
  ASSUME NEW u \in Threads, Same(u), n_barrier_passed' = n_barrier_passed
  PROVE  /\ Free(u)' <=> Free(u)
         /\ Busy(u)' <=> Busy(u)
         /\ Pos(u)' = Pos(u)
  <1>1. Free(u)' <=> Free(u)
    BY DEF Same, Free
  <1>2. Busy(u)' <=> Busy(u)
    BY <1>1 DEF Same, Busy, At
  <1>3. Pos(u)' = Pos(u)
    BY <1>1, <1>2 DEF Same, Pos, At
  <1>4. QED
    BY <1>1, <1>2, <1>3

LEMMA SamePlace ==
  ASSUME NEW u \in Threads, Same(u), n_barrier_passed' = n_barrier_passed,
         cgraph' = cgraph, n_threads_cur' = n_threads_cur,
         abort' = abort \/ (abort # node_n[u] /\ abort' # node_n[u])
  PROVE  /\ Converted(u)' <=> Converted(u)
         /\ PlaceOK(u) /\ (At(u, {"final"}) => node_n[u] < Len(cgraph) \/ abort' = abort)
               => PlaceOK(u)'
  <1>1. Free(u)' <=> Free(u)
    BY SameFree
  <1>2. Multiplies(node_n[u])' <=> Multiplies(node_n[u])
    BY DEF Same, Multiplies, IsProduct
  <1>3. Converted(u)' <=> Converted(u)
    BY <1>1, <1>2 DEF Converted, Same, At
  <1>4. ASSUME PlaceOK(u), At(u, {"final"}) => node_n[u] < Len(cgraph) \/ abort' = abort
        PROVE  PlaceOK(u)'
    BY <1>1, <1>2, <1>4 DEF PlaceOK, Same, At
  <1>5. QED
    BY <1>3, <1>4

\* Who is at a graph is of the party, and the graph runs.
LEMMA BusyIs ==
  ASSUME PoolInv, NEW t \in Threads, Busy(t)
  PROVE  t \in Party /\ Running
  <1>1. n_threads_cur \in 1 .. NThreads /\ t \in Nat
    BY ThreadsAre DEF PoolInv, BarrierInv, BarrierTypeOK
  <1>2. CASE t = 0
    BY <1>1, <1>2 DEF Running, Party
  <1>3. CASE t # 0
    BY <1>1, <1>3, ThreadsAre DEF PoolInv, WorkersOK, Active, Party
  <1>4. QED
    BY <1>2, <1>3

LEMMA PartyIs ==
  ASSUME PoolInv
  PROVE  /\ 0 \in Party /\ Party \subseteq Threads
         /\ \A w \in Workers : w \in Party <=> Active(w)
         /\ Alone => Party = {0}
  <1>1. n_threads_cur \in 1 .. NThreads
    BY DEF PoolInv, BarrierInv, BarrierTypeOK
  <1>2. QED
    BY <1>1, NThreadsAssumption, ThreadsAre DEF Party, Threads, Active, Alone, Workers

----------------------------------------------------------------------------
(* A step at a graph that stays between the same two barriers. *)

LEMMA Within ==
  ASSUME PoolInv, TypeOK', BarrierInv', NEW t \in Threads, Busy(t),
         \A u \in Threads \ {t} : Same(u),
         UNCHANGED <<cgraph, n_graph, n_barrier_passed, n_threads_cur, last_graph,
                     new_graph, abort>>,
         pc'[t] \in Barriers <=> stage'[t] # "out",
         Busy(t)', ~At(t, {"begin"})',
         Pos(t)' = Pos(t), Converted(t)' <=> Converted(t), PlaceOK(t)'
  PROVE  PoolInv'
  <1>1. t \in Party /\ Running
    BY BusyIs
  <1>2. \A u \in Threads : /\ Busy(u)' <=> Busy(u)
                           /\ Pos(u)' = Pos(u)
                           /\ Converted(u)' <=> Converted(u)
    BY SameFree, SamePlace
  <1>3. Running'
    BY <1>1, <1>2, ThreadsAre DEF Running, Same, At
  <1>4. StagesMatch'
    BY DEF PoolInv, StagesMatch, Same, At
  <1>5. WorkersOK'
    <2> SUFFICES ASSUME NEW w \in Workers
                 PROVE  /\ Busy(w)' => Running' /\ Active(w)' /\ last_graph'[w] = n_graph'
                        /\ Active(w)' /\ last_graph'[w] = n_graph' => (~Running' \/ Busy(w)')
                        /\ Active(w)' /\ ~Running' => last_graph'[w] = n_graph'
                        /\ Active(w)' /\ At(w, {"active"})' =>
                              new_graph'[w] = n_graph' /\ last_graph'[w] # n_graph'
      BY DEF WorkersOK
    <2>1. w \in Threads /\ (Active(w)' <=> Active(w))
      BY ThreadsAre DEF Active
    <2>2. At(w, {"active"})' => At(w, {"active"})
      <3>1. CASE w = t
        BY <3>1 DEF Busy, At, Computing, Barriers
      <3>2. CASE w # t
        BY <2>1, <3>2 DEF Same, At
      <3>3. QED
        BY <3>1, <3>2
    <2>3. QED
      BY <1>1, <1>2, <1>3, <2>1, <2>2 DEF PoolInv, WorkersOK
  <1>6. CallerOK'
    <2>1. CASE t = 0
      BY <1>1, <2>1 DEF PoolInv, CallerOK, Busy, At, Computing, Barriers
    <2>2. CASE t # 0
      BY <1>1, <2>2, ThreadsAre DEF PoolInv, CallerOK, Same, At
    <2>3. QED
      BY <2>1, <2>2
  <1>7. PlacesOK'
    <2> SUFFICES ASSUME NEW u \in Threads \ {t}, Busy(u)', ~At(u, {"begin"})'
                 PROVE  PlaceOK(u)'
      BY DEF PlacesOK
    <2>1. Busy(u) /\ ~At(u, {"begin"})
      BY <1>2 DEF Same, At
    <2>2. QED
      BY <2>1, SamePlace DEF PoolInv, PlacesOK
  <1>8. EpochOK' /\ AbortOK'
    <2>1. Party' = Party /\ 0 \in Party /\ Party \subseteq Threads
      BY PartyIs DEF Party
    <2>2. Pos(0)' = Pos(0) /\ (Converted(0)' <=> Converted(0))
      BY <1>2, <2>1
    <2>3. EpochOK'
      BY <1>1, <1>2, <2>1, <2>2 DEF PoolInv, EpochOK
    <2>4. AbortOK'
      BY <1>1, <2>2 DEF PoolInv, AbortOK
    <2>5. QED
      BY <2>3, <2>4
  <1>9. QED
    BY <1>4, <1>5, <1>6, <1>7, <1>8 DEF PoolInv

LEMMA BeginKeeps ==
  ASSUME PoolInv, TypeOK', BarrierInv', NEW t \in Threads, Begin(t)
  PROVE  PoolInv'
  <1> USE DEF barrierVars, poolVars, workerVars
  <1>1. pc[t] = "begin" /\ pc'[t] = "node" /\ node_n'[t] = 0
        /\ graph'[t] = cgraph /\ nth'[t] = n_threads_cur
    BY DEF Begin, At, Go, PoolInv, TypeOK
  <1>2. /\ \A u \in Threads \ {t} : Same(u)
        /\ UNCHANGED <<cgraph, n_graph, n_barrier_passed, n_threads_cur, last_graph,
                       new_graph, abort, stage>>
    BY DEF Begin, Go, Same, PoolInv, TypeOK
  <1>3. Busy(t) /\ Busy(t)' /\ ~At(t, {"begin"})'
    BY <1>1 DEF Busy, At, Computing, Barriers
  <1>4. pc'[t] \in Barriers <=> stage'[t] # "out"
    BY <1>1, <1>2 DEF PoolInv, StagesMatch, At, Barriers
  <1>5. Pos(t) = 0 /\ Pos(t)' = 0
    BY <1>1, <1>3 DEF Pos, At
  <1>6. ~Converted(t) /\ ~Converted(t)'
    BY <1>1 DEF Converted, At
  <1>7. PlaceOK(t)'
    BY <1>1, <1>2 DEF PlaceOK, At
  <1>8. QED
    BY <1>2, <1>3, <1>4, <1>5, <1>6, <1>7, Within

\* Where a thread at a graph is, as PlacesOK says.
LEMMA PlaceIs ==
  ASSUME PoolInv, NEW t \in Threads, Busy(t), ~At(t, {"begin"})
  PROVE  /\ PlaceOK(t) /\ graph[t] = cgraph /\ nth[t] = n_threads_cur
         /\ node_n[t] \in Nat /\ Len(cgraph) \in Nat /\ abort \in Int
         /\ Pos(t) = IF At(t, {"end"}) /\ Free(t) THEN node_n[t] + 1 ELSE node_n[t]
  <1>1. PlaceOK(t)
    BY DEF PoolInv, PlacesOK
  <1>2. node_n[t] \in Nat /\ Len(cgraph) \in Nat /\ abort \in Int
    BY DEF PoolInv, TypeOK
  <1>3. QED
    BY <1>1, <1>2 DEF PlaceOK, Pos

LEMMA OtherKeeps ==
  ASSUME PoolInv, TypeOK', BarrierInv', NEW t \in Threads, ComputeOther(t)
  PROVE  PoolInv'
  <1> USE DEF barrierVars, poolVars, workerVars, computeVars
  <1>1. pc[t] = "node" /\ pc'[t] = "after" /\ MoreNodes(t) /\ ~IsProduct(Node(t))
    BY DEF ComputeOther, At, Go, PoolInv, TypeOK
  <1>2. /\ \A u \in Threads \ {t} : Same(u)
        /\ UNCHANGED <<cgraph, n_graph, n_barrier_passed, n_threads_cur, last_graph,
                       new_graph, abort, stage, graph, nth, node_n>>
    BY DEF ComputeOther, Go, Same, PoolInv, TypeOK
  <1>3. Busy(t) /\ Busy(t)' /\ ~At(t, {"begin"})' /\ ~At(t, {"begin"})
    BY <1>1 DEF Busy, At, Computing, Barriers
  <1>4. pc'[t] \in Barriers <=> stage'[t] # "out"
    BY <1>1, <1>2 DEF PoolInv, StagesMatch, At, Barriers
  <1>5. PlaceOK(t) /\ graph[t] = cgraph
    BY <1>3, PlaceIs
  <1>6. Pos(t)' = Pos(t)
    BY <1>1, <1>2, <1>3 DEF Pos, At
  <1>7. ~Multiplies(node_n[t])
    BY <1>1, <1>5 DEF Multiplies, Node
  <1>8. ~Converted(t) /\ ~Converted(t)'
    BY <1>1, <1>2, <1>7 DEF Converted, At, Multiplies, IsProduct
  <1>9. PlaceOK(t)'
    BY <1>1, <1>2, <1>5 DEF PlaceOK, At, MoreNodes
  <1>10. QED
    BY <1>2, <1>3, <1>4, <1>6, <1>8, <1>9, Within

LEMMA ChunkKeeps ==
  ASSUME PoolInv, TypeOK', BarrierInv', NEW t \in Threads,
         ComputeChunk(t) \/ ChunksDone(t)
  PROVE  PoolInv'
  <1> USE DEF barrierVars, poolVars, workerVars, computeVars
  <1>1. pc[t] = "chunk" /\ pc'[t] \in {"chunk", "after"}
    BY DEF ComputeChunk, ChunksDone, At, Go, PoolInv, TypeOK
  <1>2. /\ \A u \in Threads \ {t} : Same(u)
        /\ UNCHANGED <<cgraph, n_graph, n_barrier_passed, n_threads_cur, last_graph,
                       new_graph, abort, stage, graph, nth, node_n>>
    BY DEF ComputeChunk, ChunksDone, Go, Same, PoolInv, TypeOK
  <1>3. Busy(t) /\ Busy(t)' /\ ~At(t, {"begin"})' /\ ~At(t, {"begin"})
    BY <1>1 DEF Busy, At, Computing, Barriers
  <1>4. pc'[t] \in Barriers <=> stage'[t] # "out"
    BY <1>1, <1>2 DEF PoolInv, StagesMatch, At, Barriers
  <1>5. PlaceOK(t) /\ Multiplies(node_n[t])
    BY <1>1, <1>3, PlaceIs DEF PlaceOK, At
  <1>6. Pos(t)' = Pos(t)
    BY <1>1, <1>2, <1>3 DEF Pos, At
  <1>7. Multiplies(node_n[t])' /\ node_n'[t] = node_n[t]
    BY <1>2, <1>5 DEF Multiplies, IsProduct
  <1>8. Converted(t) /\ Converted(t)'
    BY <1>1, <1>7 DEF Converted, At
  <1>9. PlaceOK(t)'
    BY <1>1, <1>2, <1>5, <1>7 DEF PlaceOK, At, Multiplies
  <1>10. QED
    BY <1>2, <1>3, <1>4, <1>6, <1>8, <1>9, Within

\* A thread that calls the barrier is not let go yet.
LEMMA EnterIs ==
  ASSUME PoolInv, NEW t \in Threads, Enter(t)
  PROVE  /\ stage'[t] = "arrive" /\ ~Free(t)'
         /\ \A u \in Threads \ {t} : stage'[u] = stage[u] /\ n_passed'[u] = n_passed[u]
         /\ UNCHANGED <<n_barrier_passed, n_threads_cur>>
  <1>1. /\ stage'[t] = "arrive"
        /\ \A u \in Threads \ {t} : stage'[u] = stage[u] /\ n_passed'[u] = n_passed[u]
        /\ UNCHANGED <<n_barrier_passed, n_threads_cur>>
    BY DEF Enter, PoolInv, BarrierInv, BarrierTypeOK
  <1>2. QED
    BY <1>1 DEF Free

LEMMA ConvertKeeps ==
  ASSUME PoolInv, TypeOK', BarrierInv', NEW t \in Threads, ConvertFactor(t), Enter(t),
         Go(t, "mid"), UNCHANGED node_n
  PROVE  PoolInv'
  <1> USE DEF poolVars, workerVars
  <1>1. pc[t] = "node" /\ pc'[t] = "mid" /\ MoreNodes(t) /\ IsProduct(Node(t))
    BY DEF ConvertFactor, At, Go, PoolInv, TypeOK
  <1>2. /\ \A u \in Threads \ {t} : Same(u)
        /\ UNCHANGED <<cgraph, n_graph, n_barrier_passed, n_threads_cur, last_graph,
                       new_graph, abort, graph, nth>>
    BY EnterIs DEF ConvertFactor, Go, Same, PoolInv, TypeOK
  <1>3. Busy(t) /\ Busy(t)' /\ ~At(t, {"begin"})' /\ ~At(t, {"begin"})
    BY <1>1 DEF Busy, At, Computing, Barriers
  <1>4. pc'[t] \in Barriers <=> stage'[t] # "out"
    BY <1>1, EnterIs DEF Barriers
  <1>5. PlaceOK(t) /\ graph[t] = cgraph
    BY <1>3, PlaceIs
  <1>6. Pos(t)' = Pos(t)
    BY <1>1, <1>2, <1>3 DEF Pos, At
  <1>7. Multiplies(node_n[t])'
    BY <1>1, <1>2, <1>5 DEF Multiplies, Node, IsProduct, MoreNodes
  <1>8. ~Converted(t) /\ ~Converted(t)'
    BY <1>1, EnterIs DEF Converted, At
  <1>9. PlaceOK(t)'
    BY <1>1, <1>2, <1>5, <1>7 DEF PlaceOK, At
  <1>10. QED
    BY <1>2, <1>3, <1>4, <1>6, <1>8, <1>9, Within

LEMMA FinalKeeps ==
  ASSUME PoolInv, TypeOK', BarrierInv', NEW t \in Threads, NoMoreNodes(t), Enter(t),
         Go(t, "final"), UNCHANGED node_n
  PROVE  PoolInv'
  <1> USE DEF poolVars, workerVars
  <1>1. pc[t] = "node" /\ pc'[t] = "final" /\ ~MoreNodes(t)
    BY DEF NoMoreNodes, At, Go, PoolInv, TypeOK
  <1>2. /\ \A u \in Threads \ {t} : Same(u)
        /\ UNCHANGED <<cgraph, n_graph, n_barrier_passed, n_threads_cur, last_graph,
                       new_graph, abort, graph, nth>>
    BY EnterIs DEF NoMoreNodes, Go, Same, PoolInv, TypeOK
  <1>3. Busy(t) /\ Busy(t)' /\ ~At(t, {"begin"})' /\ ~At(t, {"begin"})
    BY <1>1, EnterIs DEF Busy, At, Computing, Barriers
  <1>4. pc'[t] \in Barriers <=> stage'[t] # "out"
    BY <1>1, EnterIs DEF Barriers
  <1>5. /\ PlaceOK(t) /\ graph[t] = cgraph
        /\ node_n[t] \in Nat /\ Len(cgraph) \in Nat
    BY <1>3, PlaceIs
  <1>6. Pos(t)' = Pos(t)
    BY <1>1, <1>2, <1>3 DEF Pos, At
  <1>7. node_n[t] >= Len(cgraph) \/ abort = node_n[t]
    BY <1>1, <1>5 DEF MoreNodes
  <1>8. ~Converted(t) /\ ~Converted(t)'
    <2>1. ~Multiplies(node_n[t])'
      BY <1>2, <1>5, <1>7 DEF Multiplies
    <2>2. QED
      BY <1>1, <2>1 DEF Converted, At
  <1>9. PlaceOK(t)'
    BY <1>1, <1>2, <1>5, <1>7 DEF PlaceOK, At
  <1>10. QED
    BY <1>2, <1>3, <1>4, <1>6, <1>8, <1>9, Within

LEMMA AfterKeeps ==
  ASSUME PoolInv, TypeOK', BarrierInv', NEW t \in Threads, AfterNode(t), Enter(t),
         Go(t, IF node_n[t] + 1 < Len(graph[t]) THEN "end" ELSE "final"),
         UNCHANGED <<node_n, abort>>
  PROVE  PoolInv'
  <1> USE DEF poolVars, workerVars
  <1>1. /\ pc[t] = "after"
        /\ pc'[t] = IF node_n[t] + 1 < Len(graph[t]) THEN "end" ELSE "final"
    BY DEF AfterNode, At, Go, PoolInv, TypeOK
  <1>2. /\ \A u \in Threads \ {t} : Same(u)
        /\ UNCHANGED <<cgraph, n_graph, n_barrier_passed, n_threads_cur, last_graph,
                       new_graph, graph, nth>>
    BY EnterIs DEF AfterNode, Go, Same, PoolInv, TypeOK
  <1>3. Busy(t) /\ Busy(t)' /\ ~At(t, {"begin"})' /\ ~At(t, {"begin"})
    BY <1>1, EnterIs DEF Busy, At, Computing, Barriers
  <1>4. pc'[t] \in Barriers <=> stage'[t] # "out"
    BY <1>1, EnterIs DEF Barriers
  <1>5. /\ PlaceOK(t) /\ graph[t] = cgraph
        /\ node_n[t] \in Nat /\ Len(cgraph) \in Nat
        /\ node_n[t] < Len(cgraph) /\ abort # node_n[t]
    BY <1>1, <1>3, PlaceIs DEF PlaceOK, At
  <1>6. Pos(t)' = Pos(t)
    BY <1>1, <1>2, <1>3, EnterIs DEF Pos, At
  <1>7. Multiplies(node_n[t])' <=> Multiplies(node_n[t])
    BY <1>2 DEF Multiplies, IsProduct
  <1>8. Converted(t)' <=> Converted(t)
    BY <1>1, <1>7, EnterIs DEF Converted, At
  <1>9. PlaceOK(t)'
    BY <1>1, <1>2, <1>5 DEF PlaceOK, At
  <1>10. QED
    BY <1>2, <1>3, <1>4, <1>6, <1>8, <1>9, Within

LEMMA ArriveStays ==
  ASSUME PoolInv, TypeOK', BarrierInv', NEW t \in Threads, BarrierStep(t),
         Arrive(t) \/ Reset(t), UNCHANGED <<pc, node_n, chunk>>
  PROVE  PoolInv'
  <1> USE DEF poolVars, workerVars
  <1>1. /\ stage[t] \in {"arrive", "reset"} /\ stage'[t] \in {"reset", "release", "spin"}
        /\ \A u \in Threads \ {t} : stage'[u] = stage[u]
        /\ UNCHANGED <<n_barrier_passed, n_threads_cur, n_passed>>
    BY DEF Arrive, Reset, PoolInv, BarrierInv, BarrierTypeOK
  <1>2. ~Free(t) /\ ~Free(t)'
    <2>1. ~Free(t)
      BY <1>1 DEF Free
    <2>2. n_passed[t] = n_barrier_passed
      BY <2>1 DEF PoolInv, BarrierInv, CallersBelong
    <2>3. QED
      BY <1>1, <2>1, <2>2 DEF Free
  <1>3. pc[t] \in Barriers
    BY DEF BarrierStep, At
  <1>4. /\ \A u \in Threads \ {t} : Same(u)
        /\ UNCHANGED <<cgraph, n_graph, last_graph, new_graph, abort, graph, nth, pc, node_n>>
    BY <1>1 DEF BarrierStep, Same
  <1>5. Busy(t) /\ Busy(t)' /\ ~At(t, {"begin"})' /\ ~At(t, {"begin"})
    BY <1>2, <1>3, <1>4 DEF Busy, At, Computing, Barriers
  <1>6. pc'[t] \in Barriers <=> stage'[t] # "out"
    BY <1>1, <1>3, <1>4
  <1>7. Pos(t)' = Pos(t)
    BY <1>2, <1>4, <1>5 DEF Pos, At
  <1>8. Multiplies(node_n[t])' <=> Multiplies(node_n[t])
    BY <1>4 DEF Multiplies, IsProduct
  <1>9. Converted(t)' <=> Converted(t)
    BY <1>2, <1>4, <1>8 DEF Converted, At
  <1>10. PlaceOK(t)'
    <2>1. PlaceOK(t)
      BY <1>5, PlaceIs
    <2>2. QED
      BY <1>1, <1>2, <1>4, <1>8, <2>1 DEF PlaceOK, At
  <1>11. QED
    BY <1>1, <1>4, <1>5, <1>6, <1>7, <1>9, <1>10, Within

\* A thread that was let go by a barrier within the graph.
LEMMA LeaveStays ==
  ASSUME PoolInv, TypeOK', BarrierInv', NEW t \in Threads, BarrierStep(t), Leave(t),
         \/ pc[t] = "mid" /\ PastMid(t)
         \/ pc[t] = "end" /\ PastEnd(t)
  PROVE  PoolInv'
  <1> USE DEF poolVars, workerVars
  <1>1. /\ stage'[t] = "out" /\ Free(t)
        /\ \A u \in Threads \ {t} : stage'[u] = stage[u] /\ n_passed'[u] = n_passed[u]
        /\ UNCHANGED <<n_barrier_passed, n_threads_cur>>
    BY DEF Leave, Out, Free, PoolInv, BarrierInv, BarrierTypeOK
  <1>2. /\ \A u \in Threads \ {t} : Same(u)
        /\ UNCHANGED <<cgraph, n_graph, last_graph, new_graph, abort, graph, nth>>
    BY <1>1 DEF BarrierStep, Same, PastMid, PastEnd, Go, PoolInv, TypeOK
  <1>3. \/ pc[t] = "mid" /\ pc'[t] = "chunk" /\ node_n'[t] = node_n[t]
        \/ pc[t] = "end" /\ pc'[t] = "node" /\ node_n'[t] = node_n[t] + 1
    BY DEF PastMid, PastEnd, Go, PoolInv, TypeOK
  <1>4. Busy(t) /\ Busy(t)' /\ ~At(t, {"begin"})' /\ ~At(t, {"begin"})
    BY <1>3 DEF Busy, At, Computing, Barriers
  <1>5. pc'[t] \in Barriers <=> stage'[t] # "out"
    BY <1>1, <1>3 DEF Barriers
  <1>6. PlaceOK(t)
    BY <1>4, PlaceIs
  <1>7. Pos(t)' = Pos(t)
    BY <1>1, <1>3, <1>4 DEF Pos, At
  <1>8. Converted(t)' <=> Converted(t)
    BY <1>1, <1>3 DEF Converted, At
  <1>9. PlaceOK(t)'
    <2>1. CASE pc[t] = "mid"
      <3>1. Multiplies(node_n[t])' /\ node_n'[t] = node_n[t]
        BY <1>2, <1>3, <1>6, <2>1 DEF PlaceOK, At, Multiplies, IsProduct
      <3>2. QED
        BY <1>1, <1>2, <1>3, <1>6, <2>1, <3>1 DEF PlaceOK, At
    <2>2. CASE pc[t] = "end"
      BY <1>1, <1>2, <1>3, <1>6, <2>2 DEF PlaceOK, At
    <2>3. QED
      BY <1>3, <2>1, <2>2
  <1>10. QED
    BY <1>1, <1>2, <1>4, <1>5, <1>7, <1>8, <1>9, Within

----------------------------------------------------------------------------
(* The abort, by thread 0, before a barrier. *)

\* All threads of the graph are at one node.
LEMMA AtOneNode ==
  ASSUME PoolInv, Running, NEW u \in Threads, Busy(u)
  PROVE  Pos(u) = Pos(0) /\ (Converted(u) <=> Converted(0))
  BY BusyIs DEF PoolInv, EpochOK

LEMMA AbortKeeps ==
  ASSUME PoolInv, TypeOK', BarrierInv', AfterNode(0), Enter(0),
         Go(0, IF node_n[0] + 1 < Len(graph[0]) THEN "end" ELSE "final"),
         UNCHANGED node_n, abort' = node_n[0] + 1
  PROVE  PoolInv'
  <1> USE DEF poolVars, workerVars
  <1>0. 0 \in Threads /\ Workers \subseteq Threads \ {0}
    BY ThreadsAre
  <1>1. /\ pc[0] = "after"
        /\ pc'[0] = IF node_n[0] + 1 < Len(graph[0]) THEN "end" ELSE "final"
    BY <1>0 DEF AfterNode, At, Go, PoolInv, TypeOK
  <1>2. stage'[0] = "arrive" /\ ~Free(0)'
    BY <1>0, EnterIs
  <1>3. /\ \A u \in Threads \ {0} : Same(u)
        /\ UNCHANGED <<cgraph, n_graph, n_barrier_passed, n_threads_cur, last_graph,
                       new_graph, graph, nth>>
    BY <1>0, EnterIs DEF AfterNode, Go, Same, PoolInv, TypeOK
  <1>4. Busy(0) /\ Busy(0)' /\ ~At(0, {"begin"})' /\ ~At(0, {"begin"}) /\ Running /\ Running'
    BY <1>1, <1>2 DEF Busy, At, Computing, Barriers, Running
  <1> DEFINE n == node_n[0]
  <1>5. /\ PlaceOK(0) /\ graph[0] = cgraph
        /\ n \in Nat /\ Len(cgraph) \in Nat /\ abort \in Int
        /\ n < Len(cgraph) /\ abort # n /\ Pos(0) = n
    BY <1>0, <1>1, <1>4, PlaceIs DEF PlaceOK, At
  <1>6. Pos(0)' = n
    BY <1>0, <1>1, <1>2, <1>4 DEF Pos, At
  <1>7. Multiplies(n)' <=> Multiplies(n)
    BY <1>3, <1>5 DEF Multiplies, IsProduct
  <1>8. Converted(0)' <=> Converted(0)
    BY <1>0, <1>1, <1>2, <1>7 DEF Converted, At
  <1>9. PlaceOK(0)'
    BY <1>0, <1>1, <1>2, <1>3, <1>5 DEF PlaceOK, At
  <1>10. \A u \in Threads \ {0} :
            (Busy(u)' <=> Busy(u)) /\ Pos(u)' = Pos(u)
    BY <1>3, SameFree
  <1>11. ASSUME NEW u \in Threads \ {0}, Busy(u), ~At(u, {"begin"})
         PROVE  (Converted(u)' <=> Converted(u)) /\ PlaceOK(u)'
    <2>1. /\ PlaceOK(u) /\ node_n[u] \in Nat
          /\ Pos(u) = IF At(u, {"end"}) /\ Free(u) THEN node_n[u] + 1 ELSE node_n[u]
      BY <1>11, PlaceIs
    <2>2. Pos(u) = n
      BY <1>4, <1>5, <1>11, AtOneNode
    <2>3. CASE At(u, {"end"}) /\ Free(u)
      <3>1. Free(u)' /\ At(u, {"end"})'
        BY <1>3, <2>3, SameFree DEF Same, At
      <3>2. ~Converted(u) /\ ~Converted(u)'
        BY <2>3, <3>1 DEF Converted, At
      <3>3. PlaceOK(u)'
        BY <1>3, <2>1, <2>3, <3>1 DEF PlaceOK, At, Same
      <3>4. QED
        BY <3>2, <3>3
    <2>4. CASE ~(At(u, {"end"}) /\ Free(u))
      <3>1. node_n[u] = n /\ abort # node_n[u] /\ abort' # node_n[u]
        BY <1>5, <2>1, <2>2, <2>4
      <3>2. QED
        BY <1>3, <1>5, <2>1, <3>1, SamePlace
    <2>5. QED
      BY <2>3, <2>4
  <1>12. ASSUME NEW u \in Threads \ {0}, ~Busy(u) \/ At(u, {"begin"})
         PROVE  ~Converted(u) /\ ~Converted(u)'
    <2>1. (Free(u)' <=> Free(u)) /\ pc'[u] = pc[u]
      BY <1>3, SameFree DEF Same
    <2>2. QED
      BY <1>12, <2>1 DEF Converted, Busy, At, Computing, Barriers
  <1>13. StagesMatch'
    <2>1. pc'[0] \in Barriers <=> stage'[0] # "out"
      BY <1>1, <1>2 DEF Barriers
    <2>2. QED
      BY <1>3, <2>1 DEF PoolInv, StagesMatch, Same, At
  <1>14. WorkersOK'
    <2>1. \A w \in Workers : (Active(w)' <=> Active(w)) /\ pc'[w] = pc[w]
      BY <1>0, <1>3 DEF Active, Same
    <2>2. QED
      BY <1>0, <1>3, <1>4, <1>10, <2>1 DEF PoolInv, WorkersOK, At
  <1>15. CallerOK'
    BY <1>1, <1>3, <1>4 DEF PoolInv, CallerOK, At, Computing, Barriers
  <1>16. PlacesOK'
    <2> SUFFICES ASSUME NEW u \in Threads \ {0}, Busy(u)', ~At(u, {"begin"})'
                 PROVE  PlaceOK(u)'
      BY <1>9 DEF PlacesOK
    <2>1. Busy(u) /\ ~At(u, {"begin"})
      BY <1>3, <1>10 DEF Same, At
    <2>2. QED
      BY <1>11, <2>1
  <1>17. EpochOK' /\ AbortOK'
    <2>1. Party' = Party /\ 0 \in Party /\ Party \subseteq Threads
      BY <1>3, PartyIs DEF Party
    <2>2. \A u \in Threads \ {0} : Converted(u)' <=> Converted(u)
      BY <1>11, <1>12
    <2>3. EpochOK'
      BY <1>4, <1>5, <1>6, <1>8, <1>10, <2>1, <2>2 DEF PoolInv, EpochOK
    <2>4. AbortOK'
      BY <1>5, <1>6 DEF AbortOK
    <2>5. QED
      BY <2>3, <2>4
  <1>18. QED
    BY <1>13, <1>14, <1>15, <1>16, <1>17 DEF PoolInv

----------------------------------------------------------------------------
(* Workers outside a graph. *)

LEMMA NotBusy ==
  ASSUME NEW t \in Threads, ~Busy(t)
  PROVE  Pos(t) = 0 /\ ~Converted(t)
  <1>1. Pos(t) = 0
    BY DEF Pos
  <1>2. ~Converted(t)
    BY DEF Converted, Busy, At, Computing, Barriers
  <1>3. QED
    BY <1>1, <1>2

LEMMA AtBegin ==
  ASSUME NEW t \in Threads, At(t, {"begin"})
  PROVE  Busy(t) /\ Pos(t) = 0 /\ ~Converted(t)
  <1>1. Busy(t)
    BY DEF Busy, At, Computing, Barriers
  <1>2. Pos(t) = 0
    BY DEF Pos, At
  <1>3. ~Converted(t)
    BY DEF Converted, At
  <1>4. QED
    BY <1>1, <1>2, <1>3

\* A worker moves, and nothing else does; it may take part now.
LEMMA WorkerMoves ==
  ASSUME PoolInv, TypeOK', BarrierInv', NEW w \in Workers, ~Busy(w),
         \A u \in Threads \ {w} : Same(u),
         \A x \in Workers \ {w} :
             last_graph'[x] = last_graph[x] /\ new_graph'[x] = new_graph[x],
         UNCHANGED <<cgraph, n_graph, n_barrier_passed, n_threads_cur, abort>>,
         pc'[w] \in Barriers <=> stage'[w] # "out",
         \/ /\ ~Busy(w)'
            /\ Active(w) => last_graph'[w] = last_graph[w]
            /\ Active(w) /\ At(w, {"active"})' =>
                   new_graph'[w] = n_graph /\ last_graph[w] # n_graph
         \/ /\ At(w, {"begin"})' /\ Active(w)
            /\ last_graph[w] # n_graph /\ last_graph'[w] = n_graph
  PROVE  PoolInv'
  <1>0. w \in Threads /\ w # 0 /\ 0 \in Threads
    BY ThreadsAre
  <1>1. \A u \in Threads \ {w} : /\ Busy(u)' <=> Busy(u)
                                 /\ Pos(u)' = Pos(u)
                                 /\ Converted(u)' <=> Converted(u)
    BY SameFree, SamePlace
  <1>2. Pos(w)' = Pos(w) /\ (Converted(w)' <=> Converted(w))
    <2>1. Pos(w) = 0 /\ ~Converted(w)
      BY <1>0, NotBusy
    <2>2. CASE ~Busy(w)'
      <3>1. Pos(w)' = 0
        BY <2>2 DEF Pos
      <3>2. ~Converted(w)'
        BY <2>2 DEF Converted, Busy, At, Computing, Barriers
      <3>3. QED
        BY <2>1, <3>1, <3>2
    <2>3. CASE At(w, {"begin"})'
      <3>1. Pos(w)' = 0
        BY <2>3 DEF Pos, At
      <3>2. ~Converted(w)'
        BY <2>3 DEF Converted, At
      <3>3. QED
        BY <2>1, <3>1, <3>2
    <2>4. QED
      BY <2>2, <2>3
  <1>3. Running' <=> Running
    BY <1>0, <1>1 DEF Running, Same, At
  <1>4. StagesMatch'
    BY DEF PoolInv, StagesMatch, Same, At
  <1>5. WorkersOK'
    <2>1. \A x \in Workers : Active(x)' <=> Active(x)
      BY DEF Active
    <2>2. ASSUME NEW x \in Workers \ {w}
          PROVE  /\ Busy(x)' => Running' /\ Active(x)' /\ last_graph'[x] = n_graph'
                 /\ Active(x)' /\ last_graph'[x] = n_graph' => (~Running' \/ Busy(x)')
                 /\ Active(x)' /\ ~Running' => last_graph'[x] = n_graph'
                 /\ Active(x)' /\ At(x, {"active"})' =>
                       new_graph'[x] = n_graph' /\ last_graph'[x] # n_graph'
      BY <1>1, <1>3, <2>1, ThreadsAre DEF PoolInv, WorkersOK, Same, At
    <2>3. /\ Busy(w)' => Running' /\ Active(w)' /\ last_graph'[w] = n_graph'
          /\ Active(w)' /\ last_graph'[w] = n_graph' => (~Running' \/ Busy(w)')
          /\ Active(w)' /\ ~Running' => last_graph'[w] = n_graph'
          /\ Active(w)' /\ At(w, {"active"})' =>
                new_graph'[w] = n_graph' /\ last_graph'[w] # n_graph'
      <3>1. CASE ~Busy(w)'
        <4>1. /\ Active(w) => last_graph'[w] = last_graph[w]
              /\ Active(w) /\ At(w, {"active"})' =>
                    new_graph'[w] = n_graph /\ last_graph[w] # n_graph
          BY <3>1, AtBegin, <1>0 DEF At, Busy, Computing, Barriers
        <4>2. /\ Active(w) /\ last_graph[w] = n_graph => ~Running
              /\ Active(w) /\ ~Running => last_graph[w] = n_graph
          BY DEF PoolInv, WorkersOK
        <4>3. QED
          BY <1>3, <2>1, <3>1, <4>1, <4>2
      <3>2. CASE At(w, {"begin"})' /\ Active(w)
                 /\ last_graph[w] # n_graph /\ last_graph'[w] = n_graph
        <4>1. Running
          BY <3>2 DEF PoolInv, WorkersOK
        <4>2. Busy(w)' /\ ~At(w, {"active"})'
          BY <3>2 DEF Busy, At, Computing, Barriers
        <4>3. QED
          BY <1>3, <2>1, <3>2, <4>1, <4>2
      <3>3. QED
        BY <3>1, <3>2
    <2>4. QED
      BY <2>2, <2>3 DEF WorkersOK
  <1>6. CallerOK'
    BY <1>0 DEF PoolInv, CallerOK, Same, At
  <1>7. PlacesOK'
    <2> SUFFICES ASSUME NEW u \in Threads, Busy(u)', ~At(u, {"begin"})'
                 PROVE  PlaceOK(u)'
      BY DEF PlacesOK
    <2>1. u # w
      OBVIOUS
    <2>2. Busy(u) /\ ~At(u, {"begin"})
      BY <1>1, <2>1 DEF Same, At
    <2>3. QED
      BY <2>1, <2>2, SamePlace DEF PoolInv, PlacesOK
  <1>8. EpochOK' /\ AbortOK'
    <2>1. Party' = Party /\ 0 \in Party /\ Party \subseteq Threads
      BY PartyIs DEF Party
    <2>2. EpochOK'
      BY <1>0, <1>1, <1>2, <1>3, <2>1 DEF PoolInv, EpochOK
    <2>3. AbortOK'
      BY <1>0, <1>1, <1>3 DEF PoolInv, AbortOK
    <2>4. QED
      BY <2>2, <2>3
  <1>9. QED
    BY <1>4, <1>5, <1>6, <1>7, <1>8 DEF PoolInv

LEMMA WorkerKeeps ==
  ASSUME PoolInv, TypeOK', BarrierInv', NEW w \in Workers,
         \/ ReadPause(w) \/ SleepWhilePaused(w) \/ ReadStop(w) \/ Poll(w)
         \/ StopPolling(w) \/ PollActive(w) \/ CheckForWork(w) \/ SpuriousWakeup(w)
  PROVE  PoolInv'
  <1> USE DEF barrierVars, poolVars, workerVars, computeVars
  <1>0. w \in Threads
    BY ThreadsAre
  <1>1. Waits(w)
    BY DEF ReadPause, SleepWhilePaused, ReadStop, Poll, StopPolling, PollActive,
       CheckForWork, SpuriousWakeup
  <1>2. /\ pc[w] \in {"top", "paused", "stopcheck", "polling", "active", "check",
                      "sleep", "pausesleep"}
        /\ \E s : Go(w, s)
    BY DEF ReadPause, SleepWhilePaused, ReadStop, Poll, StopPolling, PollActive,
       CheckForWork, SpuriousWakeup, At
  <1>3. /\ ~Busy(w) /\ stage[w] = "out"
        /\ \A u \in Threads \ {w} : pc'[u] = pc[u]
    <2>1. pc[w] \notin Computing /\ pc[w] \notin Barriers
      BY <1>2 DEF Computing, Barriers
    <2>2. \A u \in Threads \ {w} : pc'[u] = pc[u]
      BY <1>2 DEF Go, PoolInv, TypeOK
    <2>3. QED
      BY <1>0, <2>1, <2>2 DEF Busy, At, PoolInv, StagesMatch
  <1>4. /\ \A u \in Threads \ {w} : Same(u)
        /\ UNCHANGED <<cgraph, n_graph, n_barrier_passed, n_threads_cur, abort, stage>>
    BY <1>1, <1>3 DEF Waits, Same
  <1>5. \A x \in Workers \ {w} :
            last_graph'[x] = last_graph[x] /\ new_graph'[x] = new_graph[x]
    BY DEF ReadPause, SleepWhilePaused, ReadStop, Poll, StopPolling, PollActive,
       CheckForWork, SpuriousWakeup, PoolInv, TypeOK
  <1>6. CASE \/ ReadPause(w) \/ SleepWhilePaused(w) \/ ReadStop(w)
             \/ StopPolling(w) \/ SpuriousWakeup(w)
    <2>1. /\ pc'[w] \in {"top", "paused", "pausesleep", "stopcheck", "exited", "polling",
                         "check"}
          /\ last_graph' = last_graph
      BY <1>0, <1>6 DEF ReadPause, SleepWhilePaused, ReadStop, StopPolling, SpuriousWakeup,
         At, Woken, Go, PoolInv, TypeOK
    <2>2. /\ ~Busy(w)' /\ ~At(w, {"active"})'
          /\ pc'[w] \in Barriers <=> stage'[w] # "out"
      BY <1>3, <1>4, <2>1 DEF Busy, At, Computing, Barriers
    <2>3. QED
      BY <1>3, <1>4, <1>5, <2>1, <2>2, WorkerMoves
  <1>7. CASE Poll(w)
    <2>1. /\ last_graph' = last_graph
          /\ \/ pc'[w] = "check"
             \/ pc'[w] = "active" /\ n_graph # last_graph[w] /\ new_graph'[w] = n_graph
      BY <1>0, <1>7 DEF Poll, Go, PoolInv, TypeOK
    <2>2. /\ ~Busy(w)'
          /\ At(w, {"active"})' => n_graph # last_graph[w] /\ new_graph'[w] = n_graph
          /\ pc'[w] \in Barriers <=> stage'[w] # "out"
      BY <1>3, <1>4, <2>1 DEF Busy, At, Computing, Barriers
    <2>3. QED
      BY <1>3, <1>4, <1>5, <2>1, <2>2, WorkerMoves
  <1>8. CASE PollActive(w)
    <2>1. /\ pc[w] = "active" /\ last_graph'[w] = new_graph[w]
          /\ pc'[w] = IF Active(w) THEN "begin" ELSE "polling"
      BY <1>0, <1>8 DEF PollActive, At, Go, PoolInv, TypeOK
    <2>2. /\ pc'[w] \in Barriers <=> stage'[w] # "out"
      BY <1>3, <1>4, <2>1 DEF Barriers
    <2>3. CASE Active(w)
      <3>1. At(w, {"begin"})' /\ last_graph[w] # n_graph /\ last_graph'[w] = n_graph
        BY <2>1, <2>3 DEF PoolInv, WorkersOK, At
      <3>2. QED
        BY <1>3, <1>4, <1>5, <2>2, <2>3, <3>1, WorkerMoves
    <2>4. CASE ~Active(w)
      <3>1. ~Busy(w)'
        BY <2>1, <2>4 DEF Busy, At, Computing, Barriers
      <3>2. QED
        BY <1>3, <1>4, <1>5, <2>2, <2>4, <3>1, WorkerMoves
    <2>5. QED
      BY <2>3, <2>4
  <1>9. CASE CheckForWork(w)
    <2>1. \/ pc'[w] = "top" /\ last_graph' = last_graph
          \/ /\ pc'[w] = "sleep"
             /\ last_graph'[w] = n_graph
             /\ n_graph = last_graph[w] \/ ~Active(w)
          \/ /\ pc'[w] = "begin" /\ Active(w)
             /\ last_graph'[w] = n_graph /\ last_graph[w] # n_graph
      BY <1>0, <1>9 DEF CheckForWork, At, Go, PoolInv, TypeOK
    <2>2. /\ pc'[w] \in Barriers <=> stage'[w] # "out"
      BY <1>3, <1>4, <2>1 DEF Barriers
    <2>3. CASE pc'[w] \in {"top", "sleep"}
      <3>1. ~Busy(w)' /\ ~At(w, {"active"})'
        BY <2>3 DEF Busy, At, Computing, Barriers
      <3>2. Active(w) => last_graph'[w] = last_graph[w]
        BY <2>1, <2>3
      <3>3. QED
        BY <1>3, <1>4, <1>5, <2>2, <3>1, <3>2, WorkerMoves
    <2>4. CASE pc'[w] = "begin"
      <3>1. At(w, {"begin"})' /\ Active(w) /\ last_graph[w] # n_graph /\ last_graph'[w] = n_graph
        BY <2>1, <2>4 DEF At
      <3>2. QED
        BY <1>3, <1>4, <1>5, <2>2, <3>1, WorkerMoves
    <2>5. QED
      BY <2>1, <2>3, <2>4
  <1>10. QED
    BY <1>6, <1>7, <1>8, <1>9

\* A worker notices that it was let go by the last barrier.
LEMMA WorkerLeaves ==
  ASSUME PoolInv, TypeOK', BarrierInv', NEW t \in Workers, BarrierStep(t), Leave(t),
         pc[t] = "final", PastFinal(t)
  PROVE  PoolInv'
  <1> USE DEF poolVars, workerVars
  <1>0. t \in Threads /\ t # 0
    BY ThreadsAre
  <1>1. /\ stage'[t] = "out" /\ Free(t)
        /\ \A u \in Threads \ {t} : stage'[u] = stage[u] /\ n_passed'[u] = n_passed[u]
        /\ UNCHANGED <<n_barrier_passed, n_threads_cur>>
    BY <1>0 DEF Leave, Out, Free, PoolInv, BarrierInv, BarrierTypeOK
  <1>2. /\ pc'[t] = "top"
        /\ \A u \in Threads \ {t} : Same(u)
        /\ UNCHANGED <<cgraph, n_graph, last_graph, new_graph, abort>>
    BY <1>0, <1>1 DEF BarrierStep, Same, PastFinal, Go, PoolInv, TypeOK
  <1>3. /\ ~Busy(t) /\ ~Busy(t)' /\ ~At(t, {"active"})'
        /\ pc'[t] \in Barriers <=> stage'[t] # "out"
    BY <1>1, <1>2 DEF Busy, At, Computing, Barriers
  <1>4. QED
    BY <1>1, <1>2, <1>3, WorkerMoves

----------------------------------------------------------------------------
(* The caller between graphs. *)

\* What is left of PoolInv when no graph runs.
LEMMA WhenDone ==
  ASSUME TypeOK', BarrierInv', StagesMatch', CallerOK', ~Running',
         \A w \in Workers : /\ ~Busy(w)'
                            /\ Active(w)' => last_graph'[w] = n_graph' /\ pc'[w] # "active"
  PROVE  PoolInv'
  <1>1. WorkersOK'
    BY DEF WorkersOK, At
  <1>2. \A t \in Threads : ~Busy(t)'
    BY ThreadsAre DEF Running
  <1>3. PlacesOK' /\ EpochOK' /\ AbortOK'
    BY <1>2 DEF PlacesOK, EpochOK, AbortOK
  <1>4. QED
    BY <1>1, <1>3 DEF PoolInv

LEMMA DoneIs ==
  ASSUME PoolInv, ~Running
  PROVE  \A w \in Workers : /\ ~Busy(w) /\ Free(w)
                            /\ Active(w) => last_graph[w] = n_graph /\ pc[w] # "active"
  <1> SUFFICES ASSUME NEW w \in Workers
               PROVE  /\ ~Busy(w) /\ Free(w)
                      /\ Active(w) => last_graph[w] = n_graph /\ pc[w] # "active"
    OBVIOUS
  <1>0. w \in Threads
    BY ThreadsAre
  <1>1. ~Busy(w)
    BY DEF PoolInv, WorkersOK
  <1>2. Active(w) => last_graph[w] = n_graph /\ pc[w] # "active"
    BY DEF PoolInv, WorkersOK, At
  <1>3. Free(w)
    <2>1. CASE stage[w] = "out"
      BY <2>1 DEF Free
    <2>2. CASE stage[w] # "out"
      BY <1>0, <1>1, <2>2 DEF PoolInv, StagesMatch, Busy, At, Computing, Barriers
    <2>3. QED
      BY <2>1, <2>2
  <1>4. QED
    BY <1>1, <1>2, <1>3

\* A wakeup brings nobody to a graph.
LEMMA WakeupIs ==
  ASSUME NEW w \in Threads, pc'[w] = pc[w] \/ pc'[w] = Woken(w),
         stage'[w] = stage[w], n_passed'[w] = n_passed[w],
         n_barrier_passed' = n_barrier_passed
  PROVE  /\ Busy(w)' <=> Busy(w)
         /\ pc'[w] = "active" <=> pc[w] = "active"
         /\ pc'[w] \in Barriers <=> pc[w] \in Barriers
         /\ pc'[w] = "begin" <=> pc[w] = "begin"
         /\ Busy(w) => pc'[w] = pc[w]
  <1>1. Free(w)' <=> Free(w)
    BY DEF Free
  <1>2. \/ pc'[w] = pc[w]
        \/ pc[w] = "pausesleep" /\ pc'[w] = "top"
        \/ pc[w] = "sleep" /\ pc'[w] = "check"
    BY DEF Woken
  <1>3. QED
    BY <1>1, <1>2 DEF Busy, At, Computing, Barriers

\* A step of the caller from one stage between graphs to another.
LEMMA CallerMoves ==
  ASSUME PoolInv, TypeOK', BarrierInv', ~Running,
         pc[0] \notin Barriers, pc'[0] \notin Computing \cup {"kick3"},
         \A w \in Workers : pc'[w] = pc[w] \/ pc'[w] = Woken(w),
         UNCHANGED <<stage, n_passed, n_barrier_passed, last_graph, new_graph, n_graph>>,
         n_threads_cur' <= n_threads_cur, CallerOK'
  PROVE  PoolInv'
  <1>1. \A w \in Workers : /\ ~Busy(w)' /\ (pc'[w] = "active" <=> pc[w] = "active")
                           /\ pc'[w] \in Barriers <=> pc[w] \in Barriers
    BY DoneIs, WakeupIs, ThreadsAre
  <1>2. n_threads_cur \in Nat /\ n_threads_cur' \in Nat
    BY DEF PoolInv, TypeOK, BarrierTypeOK
  <1>3. \A w \in Workers : Active(w)' => Active(w)
    BY <1>2, ThreadsAre DEF Active
  <1>4. ~Running'
    BY DEF Running, Busy, At
  <1>5. pc'[0] \notin Barriers
    BY DEF Computing
  <1>6. StagesMatch'
    <2>1. stage[0] = "out"
      BY ThreadsAre DEF PoolInv, StagesMatch, At
    <2>2. \A w \in Workers : pc'[w] \in Barriers <=> stage'[w] # "out"
      BY <1>1, ThreadsAre DEF PoolInv, StagesMatch, At
    <2>3. QED
      BY <1>5, <2>1, <2>2, ThreadsAre DEF StagesMatch, At
  <1>7. QED
    BY <1>1, <1>3, <1>4, <1>6, DoneIs, WhenDone

LEMMA CallerKeeps ==
  ASSUME PoolInv, TypeOK', BarrierInv', ~MayGrow,
         \/ \E g \in Graphs, n \in Requests : GraphCompute(g, n)
         \/ \E p \in BOOLEAN : SetPause(p)
         \/ FreePool \/ KickThreads \/ Joined
  PROVE  PoolInv'
  <1> USE DEF barrierVars, poolVars, workerVars, computeVars
  <1>0. 0 \in Threads /\ Workers \subseteq Threads \ {0}
        /\ n_threads_cur \in 1 .. NThreads /\ NThreads \in Nat
    BY ThreadsAre, NThreadsAssumption DEF PoolInv, TypeOK, BarrierTypeOK
  <1>1. pc[0] \in {"caller", "kick1", "join"}
    BY DEF GraphCompute, SetPause, FreePool, KickThreads, Joined, At
  <1>2. pc[0] \notin Barriers /\ ~Running
    BY <1>1 DEF Running, Busy, At, Computing, Barriers
  <1>3. ASSUME NEW g \in Graphs, NEW n \in Requests, GraphCompute(g, n) PROVE PoolInv'
    <2>1. /\ pc[0] = "caller" /\ pc'[0] = "kick1" /\ nth'[0] = Least(n, NThreads)
          /\ abort' = -1 /\ n_graph < MaxGraphs
          /\ \A w \in Workers : pc'[w] = pc[w]
          /\ UNCHANGED <<n_graph, stage, n_passed, n_barrier_passed, last_graph, new_graph,
                         n_threads_cur>>
      BY <1>0, <1>3 DEF GraphCompute, At, Go, PoolInv, TypeOK
    <2>2. nth'[0] <= n_threads_cur
      <3>1. n \in Nat
        BY ThreadPoolAssumption
      <3>2. n_graph = 0 \/ n <= n_threads_cur
        BY <1>3 DEF GraphCompute
      <3>3. n_graph = 0 => n_threads_cur = NThreads
        BY <2>1 DEF PoolInv, CallerOK, At
      <3>4. QED
        BY <1>0, <2>1, <3>1, <3>2, <3>3 DEF Least
    <2>3. CallerOK' /\ pc'[0] \notin Computing \cup {"kick3"}
      BY <2>1, <2>2 DEF CallerOK, At, Computing, Barriers
    <2>4. QED
      BY <1>0, <1>2, <2>1, <2>3, CallerMoves
  <1>4. CASE (\E p \in BOOLEAN : SetPause(p)) \/ FreePool
    <2>1. /\ pc[0] = "caller" /\ pc'[0] \in {"caller", "join"}
          /\ \A w \in Workers : pc'[w] = Woken(w)
          /\ UNCHANGED <<n_graph, stage, n_passed, n_barrier_passed, last_graph, new_graph,
                         n_threads_cur, abort, nth>>
      BY <1>0, <1>4 DEF SetPause, FreePool, At, Woken
    <2>2. CallerOK' /\ pc'[0] \notin Computing \cup {"kick3"}
      BY <2>1 DEF PoolInv, CallerOK, At, Computing, Barriers
    <2>3. QED
      BY <1>0, <1>2, <2>1, <2>2, CallerMoves
  <1>5. CASE KickThreads
    <2>1. /\ pc[0] = "kick1" /\ pc'[0] = "kick2" /\ n_threads_cur' = nth[0]
          /\ \A w \in Workers : pc'[w] = pc[w]
          /\ UNCHANGED <<n_graph, stage, n_passed, n_barrier_passed, last_graph, new_graph,
                         abort>>
      BY <1>0, <1>5 DEF KickThreads, SetThreads, At, Go, PoolInv, TypeOK
    <2>2. n_threads_cur' <= n_threads_cur
      BY <2>1 DEF PoolInv, CallerOK, At
    <2>3. CallerOK' /\ pc'[0] \notin Computing \cup {"kick3"}
      BY <2>1 DEF PoolInv, CallerOK, At, Computing, Barriers
    <2>4. QED
      BY <1>0, <1>2, <2>1, <2>2, <2>3, CallerMoves
  <1>6. CASE Joined
    <2>1. /\ pc'[0] = "freed"
          /\ \A w \in Workers : pc'[w] = pc[w]
          /\ UNCHANGED <<n_graph, stage, n_passed, n_barrier_passed, last_graph, new_graph,
                         n_threads_cur>>
      BY <1>0, <1>6 DEF Joined, Go, PoolInv, TypeOK
    <2>2. CallerOK' /\ pc'[0] \notin Computing \cup {"kick3"}
      BY <2>1 DEF CallerOK, At, Computing, Barriers
    <2>3. QED
      BY <1>0, <1>2, <2>1, <2>2, CallerMoves
  <1>7. QED
    BY <1>3, <1>4, <1>5, <1>6

\* The graph number moves: every worker of the graph has yet to begin.
LEMMA KickGraphKeeps ==
  ASSUME PoolInv, TypeOK', BarrierInv', KickGraph
  PROVE  PoolInv'
  <1> USE DEF barrierVars, workerVars, computeVars
  <1>0. 0 \in Threads /\ Workers \subseteq Threads \ {0} /\ n_graph \in Nat
    BY ThreadsAre, ThreadPoolAssumption DEF PoolInv, TypeOK
  <1>1. /\ pc[0] = "kick2" /\ pc'[0] = "kick3" /\ n_graph' = n_graph + 1
        /\ \A w \in Workers : pc'[w] = pc[w]
        /\ UNCHANGED <<stage, n_passed, n_barrier_passed, n_threads_cur, last_graph,
                       new_graph, abort, cgraph>>
    BY <1>0 DEF KickGraph, At, Go, PoolInv, TypeOK
  <1>2. ~Running /\ Running' /\ ~Busy(0)'
    BY <1>1 DEF Running, Busy, At, Computing, Barriers
  <1>3. \A w \in Workers : /\ ~Busy(w)'
                           /\ Active(w)' => last_graph'[w] = n_graph /\ pc'[w] # "active"
    <2>1. \A w \in Workers : Busy(w)' <=> Busy(w)
      BY <1>0, <1>1, WakeupIs
    <2>2. QED
      BY <1>1, <1>2, <2>1, DoneIs DEF Active
  <1>4. \A t \in Threads : Pos(t)' = 0 /\ ~Converted(t)'
    <2> SUFFICES ASSUME NEW t \in Threads PROVE Pos(t)' = 0 /\ ~Converted(t)'
      OBVIOUS
    <2>1. ~Busy(t)'
      BY <1>2, <1>3, ThreadsAre
    <2>2. QED
      BY <2>1 DEF Pos, Converted, Busy, At, Computing, Barriers
  <1>5. StagesMatch'
    <2>1. stage[0] = "out"
      BY <1>0, <1>1 DEF PoolInv, StagesMatch, At, Barriers
    <2>2. QED
      BY <1>1, <2>1, ThreadsAre DEF PoolInv, StagesMatch, At, Barriers
  <1>6. WorkersOK'
    <2>1. n_graph' # n_graph
      BY <1>0, <1>1
    <2>2. QED
      BY <1>2, <1>3, <2>1 DEF WorkersOK, At
  <1>7. CallerOK'
    BY <1>0, <1>1 DEF PoolInv, CallerOK, At, Computing, Barriers
  <1>8. PlacesOK'
    BY <1>2, <1>3, ThreadsAre DEF PlacesOK
  <1>9. EpochOK' /\ AbortOK'
    <2>1. 0 \in Party /\ Party \subseteq Threads /\ Party' = Party
      BY <1>1, PartyIs DEF Party
    <2>2. abort' = -1
      BY <1>1 DEF PoolInv, CallerOK, At
    <2>3. QED
      BY <1>4, <2>1, <2>2 DEF EpochOK, AbortOK
  <1>10. QED
    BY <1>5, <1>6, <1>7, <1>8, <1>9 DEF PoolInv

LEMMA KickWakeKeeps ==
  ASSUME PoolInv, TypeOK', BarrierInv', KickWake
  PROVE  PoolInv'
  <1> USE DEF barrierVars, workerVars, computeVars
  <1>0. 0 \in Threads /\ Workers \subseteq Threads \ {0}
    BY ThreadsAre
  <1>1. /\ pc[0] = "kick3" /\ pc'[0] = "begin"
        /\ \A w \in Workers : pc'[w] = Woken(w)
        /\ UNCHANGED <<stage, n_passed, n_barrier_passed, n_threads_cur, last_graph,
                       new_graph, abort, cgraph, n_graph, node_n, graph, nth>>
    BY <1>0 DEF KickWake, At
  <1>2. Running /\ Running' /\ Busy(0)' /\ ~Busy(0)
    BY <1>1 DEF Running, Busy, At, Computing, Barriers
  <1>3. \A w \in Workers : /\ Busy(w)' <=> Busy(w)
                           /\ pc'[w] = "active" <=> pc[w] = "active"
                           /\ pc'[w] \in Barriers <=> pc[w] \in Barriers
                           /\ pc'[w] = "begin" <=> pc[w] = "begin"
                           /\ Busy(w) => pc'[w] = pc[w]
    BY <1>0, <1>1, WakeupIs
  <1>4. \A w \in Workers : Pos(w)' = Pos(w) /\ (Converted(w)' <=> Converted(w))
    <2> SUFFICES ASSUME NEW w \in Workers
                 PROVE  Pos(w)' = Pos(w) /\ (Converted(w)' <=> Converted(w))
      OBVIOUS
    <2>1. CASE Busy(w)
      <3>1. Same(w)
        BY <1>1, <1>3, <2>1 DEF Same
      <3>2. QED
        BY <1>0, <1>1, <3>1, SameFree, SamePlace
    <2>2. CASE ~Busy(w)
      <3>1. Pos(w) = 0 /\ ~Converted(w)
        BY <1>0, <2>2, NotBusy
      <3>2. ~Busy(w)'
        BY <1>3, <2>2
      <3>3. Pos(w)' = 0 /\ ~Converted(w)'
        BY <3>2 DEF Pos, Converted, Busy, At, Computing, Barriers
      <3>4. QED
        BY <3>1, <3>3
    <2>3. QED
      BY <2>1, <2>2
  <1>5. Pos(0) = 0 /\ Pos(0)' = 0 /\ ~Converted(0) /\ ~Converted(0)'
    BY <1>0, <1>1, <1>2, NotBusy DEF Pos, Converted, At
  <1>6. StagesMatch'
    <2>1. stage[0] = "out"
      BY <1>0, <1>1 DEF PoolInv, StagesMatch, At, Barriers
    <2>2. QED
      BY <1>0, <1>1, <1>3, <2>1, ThreadsAre DEF PoolInv, StagesMatch, At, Barriers
  <1>7. WorkersOK'
    <2>1. \A w \in Workers : Active(w)' <=> Active(w)
      BY <1>1 DEF Active
    <2>2. QED
      BY <1>1, <1>2, <1>3, <2>1 DEF PoolInv, WorkersOK, At
  <1>8. CallerOK'
    BY <1>1 DEF PoolInv, CallerOK, At, Computing, Barriers
  <1>9. PlacesOK'
    <2> SUFFICES ASSUME NEW u \in Threads, Busy(u)', ~At(u, {"begin"})'
                 PROVE  PlaceOK(u)'
      BY DEF PlacesOK
    <2>1. u \in Workers
      BY <1>1, ThreadsAre DEF At
    <2>2. Busy(u) /\ ~At(u, {"begin"}) /\ Same(u)
      BY <1>1, <1>3, <2>1 DEF Same, At
    <2>3. QED
      BY <1>1, <2>2, SamePlace DEF PoolInv, PlacesOK
  <1>10. EpochOK' /\ AbortOK'
    <2>1. 0 \in Party /\ Party \subseteq Threads /\ Party' = Party
      BY <1>1, PartyIs DEF Party
    <2>2. \A t \in Threads : Pos(t)' = Pos(t) /\ (Converted(t)' <=> Converted(t))
      BY <1>4, <1>5, ThreadsAre
    <2>3. EpochOK'
      BY <1>0, <1>2, <2>1, <2>2 DEF PoolInv, EpochOK
    <2>4. AbortOK'
      BY <1>1, <1>2, <1>5 DEF PoolInv, AbortOK
    <2>5. QED
      BY <2>3, <2>4
  <1>11. QED
    BY <1>6, <1>7, <1>8, <1>9, <1>10 DEF PoolInv

----------------------------------------------------------------------------
(* The barrier lets the party go. *)

\* Whoever waits waits at the same barrier.
LEMMA SameBarrier ==
  ASSUME PoolInv, NEW t \in Threads, NEW u \in Threads, Busy(t), Busy(u),
         At(t, Barriers), At(u, Barriers), ~Free(t), ~Free(u)
  PROVE  pc[u] = pc[t] /\ node_n[u] = node_n[t]
  <1>1. /\ pc[t] \in {"mid", "end", "final"} /\ pc[u] \in {"mid", "end", "final"}
        /\ ~At(t, {"begin"}) /\ ~At(u, {"begin"})
    BY DEF At, Barriers
  <1>2. /\ PlaceOK(t) /\ PlaceOK(u) /\ node_n[t] \in Nat /\ node_n[u] \in Nat
        /\ Len(cgraph) \in Nat
        /\ Pos(t) = node_n[t] /\ Pos(u) = node_n[u]
    BY <1>1, PlaceIs
  <1>3. Pos(t) = Pos(u) /\ (Converted(t) <=> Converted(u))
    BY BusyIs, AtOneNode
  <1> DEFINE n == node_n[t]
  <1>4. node_n[u] = n
    BY <1>2, <1>3
  <1>5. ASSUME NEW a \in {t, u}
        PROVE  /\ pc[a] = "mid" => Multiplies(n) /\ ~Converted(a)
               /\ pc[a] = "end" => n + 1 < Len(cgraph) /\ abort # n
               /\ pc[a] = "final" => n + 1 = Len(cgraph) \/ n >= Len(cgraph) \/ abort = n
               /\ pc[a] # "mid" /\ Multiplies(n) => Converted(a)
    <2>1. node_n[a] = n /\ PlaceOK(a) /\ ~Free(a) /\ pc[a] \in {"mid", "end", "final"}
      BY <1>1, <1>2, <1>4
    <2>2. QED
      BY <2>1 DEF PlaceOK, Converted, At
  <1>6. CASE pc[t] = "mid" \/ pc[u] = "mid"
    BY <1>1, <1>3, <1>4, <1>5, <1>6
  <1>7. CASE pc[t] # "mid" /\ pc[u] # "mid"
    BY <1>1, <1>2, <1>4, <1>5, <1>7
  <1>8. QED
    BY <1>6, <1>7

\* Before the last thread lets the others go, all of the party wait at its barrier;
\* afterwards nobody is held.
LEMMA ReleaseIs ==
  ASSUME PoolInv, BarrierInv', NEW t \in Threads, At(t, Barriers), Release(t)
  PROVE  /\ Running /\ t \in Party
         /\ \A u \in Party : /\ u \in Threads /\ Busy(u) /\ ~Free(u)
                             /\ pc[u] = pc[t] /\ node_n[u] = node_n[t]
                             /\ PlaceOK(u) /\ Pos(u) = node_n[t]
         /\ \A u \in Threads : Free(u)'
         /\ stage'[t] = "out" /\ \A u \in Threads \ {t} : stage'[u] = stage[u]
         /\ n_threads_cur' = n_threads_cur /\ Party' = Party
  <1>1. Waiting = Party /\ Waiting' = {} /\ Party' = Party
    BY ReleaseKeeps DEF PoolInv
  <1>2. /\ stage'[t] = "out" /\ n_threads_cur' = n_threads_cur
        /\ \A u \in Threads \ {t} : stage'[u] = stage[u]
    BY DEF Release, Out, PoolInv, BarrierInv, BarrierTypeOK
  <1>3. ASSUME NEW u \in Party PROVE u \in Threads /\ ~Free(u) /\ At(u, Barriers) /\ Busy(u)
    <2>1. u \in Threads /\ ~Free(u)
      BY <1>1 DEF Waiting
    <2>2. At(u, Barriers)
      BY <2>1 DEF PoolInv, StagesMatch, Free
    <2>3. QED
      BY <2>1, <2>2 DEF Busy, At, Computing
  <1>4. t \in Party
    <2>1. ~Free(t) /\ stage[t] # "arrive"
      BY DEF Release, Free
    <2>2. QED
      BY <1>1, <2>1 DEF Waiting
  <1>5. ASSUME NEW u \in Party
        PROVE  /\ pc[u] = pc[t] /\ node_n[u] = node_n[t]
               /\ PlaceOK(u) /\ Pos(u) = node_n[t]
    <2>1. pc[u] = pc[t] /\ node_n[u] = node_n[t]
      BY <1>3, <1>4, SameBarrier
    <2>2. ~At(u, {"begin"})
      BY <1>3 DEF At, Barriers
    <2>3. QED
      BY <1>3, <2>1, <2>2, PlaceIs
  <1>6. ASSUME NEW u \in Threads PROVE Free(u)'
    <2>1. CASE u \in Party
      <3>1. stage[u] \in {"spin", "reset", "release"}
        <4>1. stage[u] \in {"out", "arrive", "reset", "release", "spin"}
          BY DEF PoolInv, BarrierInv, BarrierTypeOK
        <4>2. u \in Waiting
          BY <1>1, <2>1
        <4>3. QED
          BY <4>1, <4>2 DEF Waiting, Free
      <3>2. CASE u = t
        BY <1>2, <3>2 DEF Free
      <3>3. CASE u # t
        <4>1. stage[u] = "spin"
          <5>1. ~(Last(u) /\ Last(t))
            BY <3>3 DEF PoolInv, BarrierInv, OneLast
          <5>2. QED
            BY <3>1, <5>1 DEF Last, Release
        <4>2. stage'[u] = "spin"
          BY <1>2, <3>3, <4>1
        <4>3. u \notin Waiting'
          BY <1>1
        <4>4. QED
          BY <4>2, <4>3 DEF Waiting
      <3>4. QED
        BY <3>2, <3>3
    <2>2. CASE u \notin Party
      <3>1. ~(~Free(u)')
        BY <1>1, <2>2 DEF BarrierInv, CallersBelong
      <3>2. QED
        BY <3>1
    <2>3. QED
      BY <2>1, <2>2
  <1>7. Running
    BY <1>3, <1>4, BusyIs
  <1>8. QED
    BY <1>1, <1>2, <1>3, <1>4, <1>5, <1>6, <1>7

\* What a Release changes besides the barrier.
LEMMA ReleaseMoves ==
  ASSUME PoolInv, BarrierInv', NEW t \in Threads, BarrierStep(t), Release(t), Past(t, pc[t])
  PROVE  /\ \A u \in Threads \ {t} : pc'[u] = pc[u] /\ node_n'[u] = node_n[u]
         /\ UNCHANGED <<cgraph, n_graph, last_graph, new_graph, abort, graph, nth>>
         /\ \/ pc[t] = "mid" /\ pc'[t] = "chunk" /\ node_n'[t] = node_n[t]
            \/ pc[t] = "end" /\ pc'[t] = "node" /\ node_n'[t] = node_n[t] + 1
            \/ pc[t] = "final" /\ pc'[t] = IF t = 0 THEN "caller" ELSE "top"
         /\ pc'[t] \notin Barriers /\ StagesMatch'
         /\ \A u \in Threads \ Party : ~Busy(u)'
  <1> USE DEF poolVars, workerVars
  <1>1. pc[t] \in Barriers
    BY DEF BarrierStep, At
  <1>2. \/ pc[t] = "mid" /\ PastMid(t)
        \/ pc[t] = "end" /\ PastEnd(t)
        \/ pc[t] = "final" /\ PastFinal(t)
    BY <1>1, PastCases
  <1>3. \A u \in Threads \ {t} : pc'[u] = pc[u] /\ node_n'[u] = node_n[u]
    BY <1>2 DEF PastMid, PastEnd, PastFinal, Go, PoolInv, TypeOK
  <1>4. UNCHANGED <<cgraph, n_graph, last_graph, new_graph, abort, graph, nth>>
    BY DEF BarrierStep
  <1>5. \/ pc[t] = "mid" /\ pc'[t] = "chunk" /\ node_n'[t] = node_n[t]
        \/ pc[t] = "end" /\ pc'[t] = "node" /\ node_n'[t] = node_n[t] + 1
        \/ pc[t] = "final" /\ pc'[t] = IF t = 0 THEN "caller" ELSE "top"
    BY <1>2 DEF PastMid, PastEnd, PastFinal, Go, PoolInv, TypeOK
  <1>6. pc'[t] \notin Barriers
    BY <1>5 DEF Barriers
  <1>7. StagesMatch'
    <2>1. stage'[t] = "out" /\ \A u \in Threads \ {t} : stage'[u] = stage[u]
      BY <1>1, ReleaseIs DEF At
    <2>2. QED
      BY <1>3, <1>6, <2>1 DEF PoolInv, StagesMatch, At
  <1>8. ASSUME NEW u \in Threads \ Party PROVE ~Busy(u)'
    <2>1. ~Busy(u) /\ Free(u)' /\ u # t
      BY <1>1, BusyIs, ReleaseIs DEF At
    <2>2. pc'[u] = pc[u]
      BY <1>3, <2>1
    <2>3. QED
      BY <2>1, <2>2 DEF Busy, At
  <1>9. QED
    BY <1>3, <1>4, <1>5, <1>6, <1>7, <1>8

LEMMA ReleaseOpens ==
  ASSUME PoolInv, TypeOK', BarrierInv', NEW t \in Threads, BarrierStep(t), Release(t),
         Past(t, pc[t]), pc[t] \in {"mid", "end"}
  PROVE  PoolInv'
  <1> DEFINE n == node_n[t]
             m == IF pc[t] = "mid" THEN n ELSE n + 1
  <1>0. At(t, Barriers)
    BY DEF BarrierStep
  <1>1. /\ Running /\ t \in Party /\ n_threads_cur' = n_threads_cur /\ Party' = Party
        /\ \A u \in Party : u \in Threads /\ Busy(u) /\ ~Free(u) /\ pc[u] = pc[t]
        /\ \A u \in Party : node_n[u] = n /\ PlaceOK(u) /\ Pos(u) = n
        /\ \A u \in Threads : Free(u)'
    BY <1>0, ReleaseIs
  <1>2. /\ \A u \in Threads \ {t} : pc'[u] = pc[u] /\ node_n'[u] = node_n[u]
        /\ UNCHANGED <<cgraph, n_graph, last_graph, new_graph, abort, graph, nth>>
        /\ pc'[t] \notin Barriers /\ StagesMatch'
        /\ \A u \in Threads \ Party : ~Busy(u)'
    BY ReleaseMoves
  <1>3. \/ pc[t] = "mid" /\ pc'[t] = "chunk" /\ node_n'[t] = n
        \/ pc[t] = "end" /\ pc'[t] = "node" /\ node_n'[t] = n + 1
    BY ReleaseMoves
  <1>4. 0 \in Party /\ Party \subseteq Threads
        /\ \A w \in Workers : w \in Party <=> Active(w)
    BY PartyIs
  <1>5. ASSUME NEW u \in Party
        PROVE  /\ Busy(u)' /\ pc'[u] \in {"mid", "end", "chunk", "node"}
               /\ Pos(u)' = m /\ (Converted(u)' <=> (pc[t] = "mid"))
    <2>1. u \in Threads /\ Free(u)'
      BY <1>1
    <2>2. CASE pc[t] = "mid"
      <3>1. pc'[u] \in {"mid", "chunk"} /\ node_n'[u] = n
        BY <1>1, <1>2, <1>3, <2>2
      <3>2. Busy(u)'
        BY <3>1 DEF Busy, At, Computing, Barriers
      <3>3. Pos(u)' = n
        BY <3>1, <3>2 DEF Pos, At
      <3>4. Converted(u)'
        BY <2>1, <3>1 DEF Converted, At
      <3>5. QED
        BY <2>2, <3>1, <3>2, <3>3, <3>4
    <2>3. CASE pc[t] = "end"
      <3>1. \/ pc'[u] = "end" /\ node_n'[u] = n
            \/ pc'[u] = "node" /\ node_n'[u] = n + 1
        BY <1>1, <1>2, <1>3, <2>3
      <3>2. Busy(u)'
        BY <3>1 DEF Busy, At, Computing, Barriers
      <3>3. Pos(u)' = n + 1
        BY <2>1, <3>1, <3>2 DEF Pos, At
      <3>4. ~Converted(u)'
        BY <2>1, <3>1 DEF Converted, At
      <3>5. QED
        BY <2>3, <3>1, <3>2, <3>3, <3>4
    <2>4. QED
      BY <2>2, <2>3
  <1>6. Running'
    BY <1>4, <1>5 DEF Running
  <1>7. WorkersOK'
    <2> SUFFICES ASSUME NEW w \in Workers
                 PROVE  /\ Busy(w)' => Active(w)' /\ last_graph'[w] = n_graph'
                        /\ Active(w)' /\ last_graph'[w] = n_graph' => Busy(w)'
                        /\ Active(w)' => pc'[w] # "active"
      BY <1>6 DEF WorkersOK, At
    <2>1. w \in Threads /\ (Active(w)' <=> w \in Party)
      BY <1>1, <1>4, ThreadsAre DEF Active
    <2>2. w \in Party => last_graph[w] = n_graph
      BY <1>1 DEF PoolInv, WorkersOK
    <2>3. QED
      BY <1>2, <1>5, <2>1, <2>2
  <1>8. CallerOK'
    <2>1. n_graph # 0
      BY <1>1, <1>4 DEF PoolInv, CallerOK, Busy, At
    <2>2. QED
      BY <1>2, <1>4, <1>5, <2>1 DEF CallerOK, At
  <1>9. PlacesOK'
    <2> SUFFICES ASSUME NEW u \in Threads, Busy(u)' PROVE PlaceOK(u)'
      BY DEF PlacesOK
    <2>1. u \in Party
      BY <1>2
    <2>2. /\ PlaceOK(u) /\ PlaceOK(t) /\ pc[u] = pc[t] /\ node_n[u] = n /\ Free(u)'
      BY <1>1, <2>1
    <2>3. CASE pc[t] = "mid"
      <3>1. Multiplies(n)
        BY <2>2, <2>3 DEF PlaceOK, At
      <3>2. node_n'[u] = n /\ pc'[u] \in {"mid", "chunk"}
        BY <1>2, <1>3, <2>2, <2>3
      <3>3. Multiplies(node_n[u])'
        BY <1>2, <3>1, <3>2 DEF Multiplies, IsProduct
      <3>4. QED
        BY <1>1, <1>2, <2>2, <3>2, <3>3 DEF PlaceOK, At
    <2>4. CASE pc[t] = "end"
      <3>1. \/ pc'[u] = "node"
            \/ pc'[u] = "end" /\ node_n'[u] = n
        BY <1>2, <1>3, <2>2, <2>4
      <3>2. QED
        BY <1>1, <1>2, <2>2, <2>4, <3>1 DEF PlaceOK, At
    <2>5. QED
      BY <2>3, <2>4
  <1>10. EpochOK' /\ AbortOK'
    <2>1. EpochOK'
      BY <1>1, <1>4, <1>5 DEF EpochOK
    <2>2. abort \in {-1, n, n + 1}
      BY <1>1, <1>4 DEF PoolInv, AbortOK
    <2>3. pc[t] = "end" => abort # n
      BY <1>1 DEF PlaceOK, At
    <2>4. abort' \in {-1, m, m + 1}
      BY <1>2, <2>2, <2>3
    <2>5. QED
      BY <1>4, <1>5, <2>1, <2>4 DEF AbortOK
  <1>11. QED
    BY <1>2, <1>7, <1>8, <1>9, <1>10 DEF PoolInv

LEMMA ReleaseEnds ==
  ASSUME PoolInv, TypeOK', BarrierInv', NEW t \in Threads, BarrierStep(t), Release(t),
         Past(t, pc[t]), pc[t] = "final"
  PROVE  PoolInv'
  <1>0. At(t, Barriers)
    BY DEF BarrierStep
  <1>1. /\ Running /\ t \in Party /\ n_threads_cur' = n_threads_cur
        /\ \A u \in Party : u \in Threads /\ Busy(u) /\ pc[u] = "final"
        /\ \A u \in Threads : Free(u)'
    BY <1>0, ReleaseIs
  <1>2. /\ \A u \in Threads \ {t} : pc'[u] = pc[u]
        /\ UNCHANGED <<n_graph, last_graph>>
        /\ pc'[t] = IF t = 0 THEN "caller" ELSE "top"
        /\ StagesMatch'
        /\ \A u \in Threads \ Party : ~Busy(u)'
    BY ReleaseMoves
  <1>3. 0 \in Party /\ \A w \in Workers : w \in Party <=> Active(w)
    BY PartyIs
  <1>4. ASSUME NEW u \in Party PROVE ~Busy(u)' /\ pc'[u] \in {"final", "caller", "top"}
    BY <1>1, <1>2 DEF Busy, At, Computing, Barriers
  <1>5. ~Running'
    BY <1>3, <1>4 DEF Running, At
  <1>6. CallerOK'
    <2>1. n_graph # 0
      BY <1>1, <1>3 DEF PoolInv, CallerOK, Busy, At
    <2>2. pc'[0] \in {"final", "caller", "top"}
      BY <1>3, <1>4
    <2>3. QED
      BY <1>2, <2>1, <2>2 DEF CallerOK, At
  <1>7. ASSUME NEW w \in Workers
        PROVE  /\ ~Busy(w)'
               /\ Active(w)' => last_graph'[w] = n_graph' /\ pc'[w] # "active"
    <2>1. w \in Threads /\ (Active(w)' <=> w \in Party)
      BY <1>1, <1>3, ThreadsAre DEF Active
    <2>2. w \in Party => last_graph[w] = n_graph
      BY <1>1 DEF PoolInv, WorkersOK
    <2>3. QED
      BY <1>2, <1>4, <2>1, <2>2
  <1>8. QED
    BY <1>2, <1>5, <1>6, <1>7, WhenDone

----------------------------------------------------------------------------
(* A lone thread does not wait. *)

LEMMA AloneStays ==
  ASSUME PoolInv, TypeOK', BarrierInv', Alone, Busy(0), pc[0] \notin Barriers,
         \A w \in Workers : Same(w),
         UNCHANGED <<barrierVars, cgraph, n_graph, last_graph, new_graph>>,
         pc'[0] \in {"chunk", "node"}, PlaceOK(0)', abort' \in {-1, Pos(0)', Pos(0)' + 1}
  PROVE  PoolInv'
  <1> USE DEF barrierVars
  <1>0. 0 \in Threads /\ Workers \subseteq Threads \ {0} /\ Party = {0} /\ Party' = Party
        /\ \A w \in Workers : ~Active(w) /\ ~Active(w)'
    BY ThreadsAre, PartyIs DEF Party, Active
  <1>1. Busy(0)' /\ Running'
    BY DEF Busy, At, Computing, Barriers, Running
  <1>2. \A w \in Workers : ~Busy(w)'
    <2>1. \A w \in Workers : ~Busy(w)
      BY <1>0 DEF PoolInv, WorkersOK
    <2>2. QED
      BY <1>0, <2>1, SameFree
  <1>3. StagesMatch'
    BY ThreadsAre DEF PoolInv, StagesMatch, Same, At, Barriers
  <1>4. WorkersOK'
    BY <1>0, <1>2 DEF WorkersOK
  <1>5. CallerOK'
    BY DEF PoolInv, CallerOK, Busy, At
  <1>6. PlacesOK'
    BY <1>2, ThreadsAre DEF PlacesOK
  <1>7. EpochOK' /\ AbortOK'
    BY <1>0 DEF EpochOK, AbortOK
  <1>8. QED
    BY <1>3, <1>4, <1>5, <1>6, <1>7 DEF PoolInv

LEMMA AloneEnds ==
  ASSUME PoolInv, TypeOK', BarrierInv', Alone, Busy(0), pc[0] \notin Barriers,
         \A w \in Workers : Same(w),
         UNCHANGED <<barrierVars, cgraph, n_graph, last_graph, new_graph>>,
         pc'[0] = "caller"
  PROVE  PoolInv'
  <1> USE DEF barrierVars
  <1>0. 0 \in Threads /\ Workers \subseteq Threads \ {0}
        /\ \A w \in Workers : ~Active(w) /\ ~Active(w)'
    BY ThreadsAre, PartyIs DEF Active
  <1>1. ~Running'
    BY DEF Busy, At, Computing, Barriers, Running
  <1>2. \A w \in Workers : ~Busy(w)'
    <2>1. \A w \in Workers : ~Busy(w)
      BY <1>0 DEF PoolInv, WorkersOK
    <2>2. QED
      BY <1>0, <2>1, SameFree
  <1>3. StagesMatch'
    BY ThreadsAre DEF PoolInv, StagesMatch, Same, At, Barriers
  <1>4. CallerOK'
    BY DEF PoolInv, CallerOK, Busy, At
  <1>5. QED
    BY <1>0, <1>1, <1>2, <1>3, <1>4, WhenDone

----------------------------------------------------------------------------
(* Every step at a graph. *)

\* The caller notices that it was let go by the last barrier.
LEMMA CallerLeaves ==
  ASSUME PoolInv, TypeOK', BarrierInv', BarrierStep(0), Leave(0), pc[0] = "final",
         PastFinal(0)
  PROVE  PoolInv'
  <1> USE DEF poolVars, workerVars
  <1>0. 0 \in Threads /\ Workers \subseteq Threads \ {0}
    BY ThreadsAre
  <1>1. /\ stage'[0] = "out" /\ Free(0)
        /\ \A u \in Threads \ {0} : stage'[u] = stage[u] /\ n_passed'[u] = n_passed[u]
        /\ UNCHANGED <<n_barrier_passed, n_threads_cur>>
    BY <1>0 DEF Leave, Out, Free, PoolInv, BarrierInv, BarrierTypeOK
  <1>2. /\ pc'[0] = "caller"
        /\ \A u \in Threads \ {0} : Same(u)
        /\ UNCHANGED <<cgraph, n_graph, last_graph, new_graph, abort>>
    BY <1>0, <1>1 DEF BarrierStep, Same, PastFinal, Go, PoolInv, TypeOK
  <1>3. ~Running /\ ~Running'
    BY <1>1, <1>2 DEF Running, Busy, At, Computing, Barriers
  <1>4. StagesMatch'
    BY <1>1, <1>2 DEF PoolInv, StagesMatch, Same, At, Barriers
  <1>5. CallerOK'
    BY <1>2 DEF PoolInv, CallerOK, At, Computing, Barriers
  <1>6. ASSUME NEW w \in Workers
        PROVE  ~Busy(w)' /\ (Active(w)' => last_graph'[w] = n_graph' /\ pc'[w] # "active")
    <2>1. ~Busy(w)' /\ (Active(w)' <=> Active(w)) /\ pc'[w] = pc[w]
      BY <1>0, <1>1, <1>2, <1>3, DoneIs, SameFree DEF Active, Same
    <2>2. QED
      BY <1>2, <1>3, <2>1, DoneIs
  <1>7. QED
    BY <1>3, <1>4, <1>5, <1>6, WhenDone

LEMMA BarrierStepKeeps ==
  ASSUME PoolInv, TypeOK', BarrierInv', NEW t \in Threads, BarrierStep(t)
  PROVE  PoolInv'
  <1>1. pc[t] \in Barriers
    BY DEF BarrierStep, At
  <1>2. CASE (Arrive(t) \/ Reset(t)) /\ UNCHANGED <<pc, node_n, chunk>>
    BY <1>2, ArriveStays
  <1>3. CASE Release(t) /\ Past(t, pc[t])
    BY <1>1, <1>3, ReleaseOpens, ReleaseEnds DEF Barriers
  <1>4. CASE Leave(t) /\ Past(t, pc[t])
    <2>1. \/ pc[t] = "mid" /\ PastMid(t)
          \/ pc[t] = "end" /\ PastEnd(t)
          \/ pc[t] = "final" /\ PastFinal(t)
      BY <1>1, <1>4, PastCases
    <2>2. CASE pc[t] # "final"
      BY <1>4, <2>1, <2>2, LeaveStays
    <2>3. CASE pc[t] = "final"
      BY <1>4, <2>1, <2>3, ThreadsAre, WorkerLeaves, CallerLeaves
    <2>4. QED
      BY <2>2, <2>3
  <1>5. QED
    BY <1>2, <1>3, <1>4 DEF BarrierStep

\* Thread 0, alone, is past a barrier at once.
LEMMA AlonePasses ==
  ASSUME PoolInv, TypeOK', BarrierInv', NEW t \in Threads, NEW b \in Barriers,
         Alone, Past(t, b), UNCHANGED barrierVars,
         UNCHANGED <<cgraph, n_graph, last_graph, new_graph, graph, nth>>,
         At(t, {"node", "after"}),
         b = "mid" => Multiplies(node_n[t]) /\ abort' = abort,
         b = "end" => abort' \in {-1, node_n[t] + 1}
  PROVE  PoolInv'
  <1> USE DEF barrierVars
  <1>1. pc[t] \in {"node", "after"} /\ pc[t] \notin Barriers /\ ~At(t, {"begin"})
    BY DEF At, Barriers
  <1>2. Busy(t)
    BY <1>1 DEF Busy, At, Computing, Barriers
  <1>3. t = 0
    BY <1>2, BusyIs, PartyIs
  <1>4. /\ PlaceOK(0) /\ node_n[0] \in Nat /\ abort \in Int /\ Pos(0) = node_n[0] /\ Running
    BY <1>1, <1>2, <1>3, PlaceIs, BusyIs DEF At
  <1>5. \/ b = "mid" /\ PastMid(0)
        \/ b = "end" /\ PastEnd(0)
        \/ b = "final" /\ PastFinal(0)
    BY <1>3, PastCases
  <1>6. \A w \in Workers : Same(w)
    BY <1>5, ThreadsAre DEF PastMid, PastEnd, PastFinal, Same, Go, PoolInv, TypeOK
  <1>7. CASE b = "mid"
    <2>1. pc'[0] = "chunk" /\ node_n' = node_n /\ abort' = abort /\ Multiplies(node_n[0])
      BY <1>3, <1>5, <1>7, ThreadsAre DEF PastMid, Go, PoolInv, TypeOK
    <2>2. Multiplies(node_n[0])'
      BY <2>1 DEF Multiplies, IsProduct
    <2>3. PlaceOK(0)'
      BY <1>4, <2>1, <2>2 DEF PlaceOK, At
    <2>4. Pos(0)' = node_n[0]
      BY <2>1 DEF Pos, Busy, At, Computing
    <2>5. abort' \in {-1, Pos(0)', Pos(0)' + 1}
      BY <1>4, <2>1, <2>4 DEF PoolInv, AbortOK
    <2>6. QED
      BY <1>1, <1>2, <1>3, <1>6, <2>1, <2>3, <2>5, AloneStays
  <1>8. CASE b = "end"
    <2>1. pc'[0] = "node" /\ node_n'[0] = node_n[0] + 1 /\ abort' \in {-1, node_n[0] + 1}
      BY <1>3, <1>5, <1>8, ThreadsAre DEF PastEnd, Go, PoolInv, TypeOK
    <2>2. PlaceOK(0)'
      BY <1>4, <2>1 DEF PlaceOK, At
    <2>3. Pos(0)' = node_n[0] + 1
      BY <2>1 DEF Pos, Busy, At, Computing
    <2>4. abort' \in {-1, Pos(0)', Pos(0)' + 1}
      BY <2>1, <2>3
    <2>5. QED
      BY <1>1, <1>2, <1>3, <1>6, <2>1, <2>2, <2>4, AloneStays
  <1>9. CASE b = "final"
    <2>1. pc'[0] = "caller"
      BY <1>3, <1>5, <1>9, ThreadsAre DEF PastFinal, Go, PoolInv, TypeOK
    <2>2. QED
      BY <1>1, <1>2, <1>3, <1>6, <2>1, AloneEnds
  <1>10. QED
    BY <1>7, <1>8, <1>9 DEF Barriers

LEMMA ConvertStep ==
  ASSUME PoolInv, TypeOK', BarrierInv', NEW t \in Threads, ConvertFactor(t)
  PROVE  PoolInv'
  <1> USE DEF poolVars, workerVars
  <1>1. CASE Alone /\ Past(t, "mid") /\ UNCHANGED barrierVars
    <2>1. /\ pc[t] = "node" /\ MoreNodes(t) /\ IsProduct(Node(t)) /\ "mid" \in Barriers
          /\ UNCHANGED <<cgraph, n_graph, last_graph, new_graph, graph, nth, abort>>
      BY DEF ConvertFactor, At, Barriers
    <2>2. Busy(t) /\ ~At(t, {"begin"})
      BY <2>1 DEF Busy, At, Computing, Barriers
    <2>3. graph[t] = cgraph
      BY <2>2, PlaceIs
    <2>4. Multiplies(node_n[t])
      BY <2>1, <2>3 DEF Multiplies, Node, MoreNodes
    <2>5. QED
      BY <1>1, <2>1, <2>4, AlonePasses DEF At
  <1>2. CASE Enter(t) /\ Go(t, "mid") /\ UNCHANGED <<node_n, chunk>>
    BY <1>2, ConvertKeeps
  <1>3. QED
    BY <1>1, <1>2 DEF ConvertFactor, GoToBarrier

LEMMA FinalStep ==
  ASSUME PoolInv, TypeOK', BarrierInv', NEW t \in Threads, NoMoreNodes(t)
  PROVE  PoolInv'
  <1> USE DEF poolVars, workerVars
  <1>1. CASE Alone /\ Past(t, "final") /\ UNCHANGED barrierVars
    <2>1. /\ pc[t] = "node" /\ "final" \in Barriers
          /\ UNCHANGED <<cgraph, n_graph, last_graph, new_graph, graph, nth, abort>>
      BY DEF NoMoreNodes, At, Barriers
    <2>2. QED
      BY <1>1, <2>1, AlonePasses DEF At
  <1>2. CASE Enter(t) /\ Go(t, "final") /\ UNCHANGED <<node_n, chunk>>
    BY <1>2, FinalKeeps
  <1>3. QED
    BY <1>1, <1>2 DEF NoMoreNodes, GoToBarrier

LEMMA AfterStep ==
  ASSUME PoolInv, TypeOK', BarrierInv', NEW t \in Threads, AfterNode(t)
  PROVE  PoolInv'
  <1> USE DEF poolVars, workerVars
  <1>1. PICK b \in {"end", "final"} :
            b = IF node_n[t] + 1 < Len(graph[t]) THEN "end" ELSE "final"
    OBVIOUS
  <1>2. pc[t] = "after" /\ GoToBarrier(t, b) /\ b \in Barriers
        /\ UNCHANGED <<cgraph, n_graph, last_graph, new_graph, graph, nth>>
    BY <1>1 DEF AfterNode, At, Barriers
  <1>3. \/ abort' = abort
        \/ t = 0 /\ abort' = node_n[0] + 1
    BY DEF AfterNode, AskAbort
  <1>4. CASE Alone /\ Past(t, b) /\ UNCHANGED barrierVars
    <2>1. Busy(t) /\ ~At(t, {"begin"})
      BY <1>2 DEF Busy, At, Computing, Barriers
    <2>2. t = 0 /\ Running
      BY <1>4, <2>1, BusyIs, PartyIs
    <2>3. PlaceOK(0) /\ Pos(0) = node_n[0]
      BY <1>2, <2>1, <2>2, PlaceIs DEF At
    <2>4. abort # node_n[0]
      BY <1>2, <2>2, <2>3 DEF PlaceOK, At
    <2>5. abort \in {-1, node_n[0] + 1}
      BY <2>2, <2>3, <2>4 DEF PoolInv, AbortOK
    <2>6. abort' \in {-1, node_n[t] + 1}
      BY <1>3, <2>2, <2>5
    <2>7. b # "mid" /\ At(t, {"node", "after"})
      BY <1>2 DEF At
    <2>8. QED
      BY <1>2, <1>4, <2>6, <2>7, AlonePasses
  <1>5. CASE Enter(t) /\ Go(t, b) /\ UNCHANGED <<node_n, chunk>>
    BY <1>1, <1>3, <1>5, AfterKeeps, AbortKeeps
  <1>6. QED
    BY <1>2, <1>4, <1>5 DEF GoToBarrier

LEMMA ComputeStep ==
  ASSUME PoolInv, TypeOK', BarrierInv', NEW t \in Threads, ComputeThread(t)
  PROVE  PoolInv'
  BY BeginKeeps, OtherKeeps, ChunkKeeps, ConvertStep, AfterStep, FinalStep,
     BarrierStepKeeps DEF ComputeThread

----------------------------------------------------------------------------
(* Every step. *)

\* Only threads of the graph enter the barrier, and the party changes when
\* nobody is held.
LEMMA BarrierSteps ==
  ASSUME PoolInv, [Next]_vars
  PROVE  [BarrierNext]_barrierVars
  <1>1. CASE UNCHANGED vars
    BY <1>1 DEF vars
  <1>2. ASSUME NEW t \in Threads, ComputeThread(t) PROVE [BarrierNext]_barrierVars
    <2>1. ASSUME At(t, {"node", "after"}), NEW b, GoToBarrier(t, b)
          PROVE  UNCHANGED barrierVars \/ (t < n_threads_cur /\ Enter(t))
      <3>1. Busy(t)
        BY <2>1 DEF Busy, At, Computing, Barriers
      <3>2. t < n_threads_cur
        <4>1. t \in Party
          BY <3>1, BusyIs
        <4>2. n_threads_cur \in Nat
          BY NThreadsAssumption DEF PoolInv, BarrierInv, BarrierTypeOK
        <4>3. QED
          BY <4>1, <4>2 DEF Party
      <3>3. QED
        BY <2>1, <3>2 DEF GoToBarrier
    <2>2. CASE ConvertFactor(t) \/ AfterNode(t) \/ NoMoreNodes(t)
      <3>1. At(t, {"node", "after"}) /\ \E b : GoToBarrier(t, b)
        BY <2>2 DEF ConvertFactor, AfterNode, NoMoreNodes, At
      <3>2. QED
        BY <2>1, <3>1 DEF BarrierNext
    <2>3. CASE BarrierStep(t)
      BY <2>3 DEF BarrierStep, BarrierNext
    <2>4. CASE Begin(t) \/ ComputeOther(t) \/ ComputeChunk(t) \/ ChunksDone(t)
      BY <2>4 DEF Begin, ComputeOther, ComputeChunk, ChunksDone
    <2>5. QED
      BY <1>2, <2>2, <2>3, <2>4 DEF ComputeThread
  <1>3. CASE KickThreads
    <2>1. pc[0] = "kick1" /\ SetThreads(nth[0]) /\ nth[0] \in 1 .. NThreads
      BY <1>3, ThreadsAre DEF KickThreads, At, PoolInv, TypeOK
    <2>2. ~Running /\ pc[0] \notin Barriers
      BY <2>1 DEF Running, Busy, At, Computing, Barriers
    <2>3. Free(0)
      BY <2>2, ThreadsAre DEF PoolInv, StagesMatch, At, Free
    <2>4. \A t \in Threads : Free(t)
      BY <2>2, <2>3, DoneIs, ThreadsAre
    <2>5. QED
      BY <2>1, <2>4 DEF BarrierNext
  <1>4. CASE \/ \E g \in Graphs, n \in Requests : GraphCompute(g, n)
             \/ \E p \in BOOLEAN : SetPause(p)
             \/ FreePool \/ KickGraph \/ KickWake \/ Joined
    BY <1>4 DEF GraphCompute, SetPause, FreePool, KickGraph, KickWake, Joined
  <1>5. ASSUME NEW w \in Workers,
               \/ ReadPause(w) \/ SleepWhilePaused(w) \/ ReadStop(w) \/ Poll(w)
               \/ StopPolling(w) \/ PollActive(w) \/ CheckForWork(w) \/ SpuriousWakeup(w)
        PROVE  UNCHANGED barrierVars
    BY <1>5 DEF Waits, ReadPause, SleepWhilePaused, ReadStop, Poll, StopPolling,
       PollActive, CheckForWork, SpuriousWakeup
  <1>6. QED
    BY <1>1, <1>2, <1>3, <1>4, <1>5, NextIs

LEMMA PoolInit == Init => PoolInv
  <1> SUFFICES ASSUME Init PROVE PoolInv
    OBVIOUS
  <1>0. BarrierInv /\ n_threads_cur = NThreads /\ stage = [t \in Threads |-> "out"]
    BY InitInv DEF Init, BarrierInit
  <1>1. /\ pc = [t \in Threads |-> IF t = 0 THEN "caller" ELSE "top"]
        /\ n_graph = 0 /\ abort = -1
        /\ last_graph = [w \in Workers |-> 0]
    BY DEF Init
  <1>2. pc[0] = "caller" /\ \A w \in Workers : pc[w] = "top" /\ last_graph[w] = n_graph
    BY <1>1, ThreadsAre
  <1>3. \A t \in Threads : ~Busy(t) /\ pc[t] \notin Barriers
    BY <1>1 DEF Busy, At, Computing, Barriers
  <1>4. ~Running
    BY <1>2, <1>3, ThreadsAre DEF Running, At
  <1>5. TypeOK
    <2>1. PcTypes
      BY <1>1, <1>2, ThreadsAre, StageSets DEF PcTypes
    <2>2. PoolTypes
      <3>1. 0 \in 0 .. MaxGraphs /\ -1 \in Int /\ <<>> \in Seq(Nodes)
        BY ThreadPoolAssumption
      <3>2. QED
        BY <3>1 DEF Init, PoolTypes
    <2>3. LocalTypes
      <3>1. 0 \in 0 .. MaxGraphs /\ NThreads \in 1 .. NThreads /\ <<>> \in Seq(Nodes)
        BY ThreadPoolAssumption, NThreadsAssumption
      <3>2. QED
        BY <3>1 DEF Init, LocalTypes
    <2>4. ProductTypes
      BY NThreadsAssumption DEF Init, ProductTypes, NoProduct
    <2>5. QED
      BY <1>0, <2>1, <2>2, <2>3, <2>4, TypeParts DEF BarrierInv
  <1>6. StagesMatch
    BY <1>0, <1>3 DEF StagesMatch, At
  <1>7. WorkersOK
    BY <1>2, <1>3, <1>4, ThreadsAre DEF WorkersOK, At
  <1>8. CallerOK
    BY <1>0, <1>2 DEF CallerOK, At, Computing, Barriers
  <1>9. PlacesOK /\ EpochOK /\ AbortOK
    BY <1>3, <1>4 DEF PlacesOK, EpochOK, AbortOK
  <1>10. QED
    BY <1>0, <1>5, <1>6, <1>7, <1>8, <1>9 DEF PoolInv

\* Nothing that PoolInv is about changes.
LEMMA PoolStutter ==
  ASSUME PoolInv, UNCHANGED vars
  PROVE  PoolInv'
  <1> USE DEF vars, barrierVars, poolVars, workerVars, computeVars
  <1>1. \A t \in Threads : Same(t)
    BY DEF Same
  <1>2. \A t \in Threads : /\ Busy(t)' <=> Busy(t)
                           /\ Pos(t)' = Pos(t)
                           /\ Converted(t)' <=> Converted(t)
                           /\ PlaceOK(t) => PlaceOK(t)'
    BY <1>1, SameFree, SamePlace
  <1>3. TypeOK' /\ BarrierInv'
    <2>1. BarrierInv'
      BY BarrierInvStep DEF PoolInv
    <2>2. BarrierTypeOK'
      BY <2>1 DEF BarrierInv
    <2>3. QED
      BY <2>1, <2>2, TypeStep DEF PoolInv
  <1>4. StagesMatch' /\ CallerOK'
    BY DEF PoolInv, StagesMatch, CallerOK, At
  <1>5. Running' <=> Running
    BY <1>2, ThreadsAre DEF Running, At
  <1>6. WorkersOK'
    BY <1>2, <1>5, ThreadsAre DEF PoolInv, WorkersOK, Active, At
  <1>7. PlacesOK'
    BY <1>2 DEF PoolInv, PlacesOK, At
  <1>8. EpochOK' /\ AbortOK'
    <2>1. Party' = Party /\ 0 \in Party /\ Party \subseteq Threads
      BY PartyIs DEF Party
    <2>2. QED
      BY <1>2, <1>5, <2>1 DEF PoolInv, EpochOK, AbortOK
  <1>9. QED
    BY <1>3, <1>4, <1>6, <1>7, <1>8 DEF PoolInv

LEMMA PoolStep ==
  ASSUME ~MayGrow, PoolInv, [Next]_vars
  PROVE  PoolInv'
  <1>1. BarrierInv'
    BY BarrierSteps, BarrierInvStep DEF PoolInv
  <1>2. TypeOK'
    BY <1>1, TypeStep DEF PoolInv, BarrierInv
  <1>3. CASE UNCHANGED vars
    BY <1>3, PoolStutter
  <1>4. CASE Next
    BY <1>1, <1>2, <1>3, <1>4, NextIs, CallerKeeps, KickGraphKeeps, KickWakeKeeps,
       WorkerKeeps, ComputeStep
  <1>5. QED
    BY <1>3, <1>4

\* The inductive invariant, of which the theorems below are parts.
THEOREM PoolInvariant ==
  ASSUME ~MayGrow
  PROVE  SafeSpec => []PoolInv
  BY PoolInit, PoolStep, PTL DEF SafeSpec

----------------------------------------------------------------------------
(* What the runs check. *)

\* The pool's state is of its types.
THEOREM PoolTypeOK ==
  ASSUME ~MayGrow
  PROVE  SafeSpec => []TypeOK
  <1>1. PoolInv => TypeOK
    BY DEF PoolInv
  <1>2. QED
    BY <1>1, PoolInvariant, PTL

\* A thread of the graph is busy, and Progress says what Pos and Converted say.
LEMMA ProgressIs ==
  ASSUME PoolInv, NEW t \in Threads, InGraph(t)
  PROVE  /\ Busy(t) /\ Progress(t)[1] = Pos(t)
         /\ Converted(t) => Progress(t)[2] = 1
  <1>1. Busy(t)
    BY DEF InGraph, Busy
  <1>2. pc[t] \in Computing
    BY <1>1 DEF Busy, At
  <1>3. CASE pc[t] = "begin"
    BY <1>1, <1>3 DEF Progress, Pos, Converted, At
  <1>4. CASE pc[t] = "node"
    BY <1>1, <1>4 DEF Progress, Pos, Converted, At
  <1>5. CASE pc[t] \in {"chunk", "after"}
    BY <1>1, <1>5 DEF Progress, Pos, Converted, At
  <1>6. CASE pc[t] = "mid"
    BY <1>1, <1>6 DEF Progress, Pos, Converted, At
  <1>7. CASE pc[t] = "end"
    <2>1. CASE Free(t)
      BY <1>1, <1>7, <2>1 DEF Progress, Pos, Converted, At
    <2>2. CASE ~Free(t)
      BY <1>1, <1>7, <2>2 DEF Progress, Pos, Converted, At
    <2>3. QED
      BY <2>1, <2>2
  <1>8. CASE pc[t] = "final"
    BY <1>1, <1>8 DEF Progress, Pos, Converted, At
  <1>9. QED
    BY <1>1, <1>2, <1>3, <1>4, <1>5, <1>6, <1>7, <1>8 DEF Computing, Barriers

\* A thread of the party that is not at the graph has made no progress.
LEMMA NoProgress ==
  ASSUME PoolInv, Running, NEW u \in Party
  PROVE  Progress(u)[1] = Pos(u) /\ (Converted(u) => Progress(u)[2] = 1)
  <1>0. u \in Threads
    BY PartyIs
  <1>1. CASE InGraph(u)
    BY <1>0, <1>1, ProgressIs
  <1>2. CASE ~InGraph(u)
    <2>1. ~Busy(u)
      BY <1>0, <1>2, ThreadsAre DEF InGraph, Busy, PoolInv, WorkersOK
    <2>2. QED
      BY <1>0, <1>2, <2>1, NotBusy DEF Progress
  <1>3. QED
    BY <1>1, <1>2

LEMMA KeepsStep == PoolInv => InStep
  <1> SUFFICES ASSUME PoolInv, NEW t \in Threads, At(t, {"node", "chunk", "after"}),
                      InGraph(t), NEW u \in Party
               PROVE  /\ Progress(u)[1] = Progress(t)[1]
                      /\ At(t, {"chunk"}) => Progress(u)[2] = 1
    BY DEF InStep, Party
  <1>1. Busy(t) /\ t \in Party /\ Running
    BY ProgressIs, BusyIs
  <1>2. Pos(u) = Pos(t) /\ (Converted(u) <=> Converted(t))
    BY <1>1 DEF PoolInv, EpochOK
  <1>3. Progress(u)[1] = Pos(u) /\ Progress(t)[1] = Pos(t)
        /\ (Converted(u) => Progress(u)[2] = 1)
    BY <1>1, NoProgress
  <1>4. At(t, {"chunk"}) => Converted(t)
    BY DEF Converted
  <1>5. QED
    BY <1>2, <1>3, <1>4

\* No thread computes with what another has not finished.
THEOREM PoolInStep ==
  ASSUME ~MayGrow
  PROVE  SafeSpec => []InStep
  BY KeepsStep, PoolInvariant, PTL

\* An abort is seen by every thread at the same node.
THEOREM PoolAbortTogether ==
  ASSUME ~MayGrow
  PROVE  SafeSpec => []AbortTogether
  <1>1. PoolInv => AbortTogether
    <2> SUFFICES ASSUME PoolInv, NEW t \in Threads, At(t, {"chunk", "after"}), abort # -1
                 PROVE  node_n[t] < abort
      BY DEF AbortTogether
    <2>1. Busy(t) /\ ~At(t, {"begin"})
      BY DEF Busy, At, Computing, Barriers
    <2>2. Running /\ Pos(t) = Pos(0)
      BY <2>1, BusyIs, AtOneNode
    <2>3. PlaceOK(t) /\ node_n[t] \in Nat /\ Pos(t) = node_n[t]
      BY <2>1, PlaceIs DEF At
    <2>4. abort # node_n[t]
      BY <2>3 DEF PlaceOK, At, Multiplies
    <2>5. abort \in {-1, Pos(0), Pos(0) + 1}
      BY <2>2 DEF PoolInv, AbortOK
    <2>6. QED
      BY <2>2, <2>3, <2>4, <2>5
  <1>2. QED
    BY <1>1, PoolInvariant, PTL

\* While the caller prepares the next graph no worker is at one.
THEOREM PoolCallerAlone ==
  ASSUME ~MayGrow
  PROVE  SafeSpec => []CallerAlone
  <1>1. PoolInv => CallerAlone
    <2> SUFFICES ASSUME PoolInv, At(0, {"caller"}), NEW w \in Workers, At(w, Computing)
                 PROVE  At(w, {"final"}) /\ Free(w)
      BY DEF CallerAlone
    <2>1. ~Running
      BY DEF Running, Busy, At, Computing, Barriers
    <2>2. ~Busy(w)
      BY <2>1, DoneIs
    <2>3. QED
      BY <2>2 DEF Busy
  <1>2. QED
    BY <1>1, PoolInvariant, PTL

\* The pool calls the barrier as GgmlBarrier says.
THEOREM PoolUsesBarrier ==
  ASSUME ~MayGrow
  PROVE  SafeSpec => UsesBarrier
  <1>1. Init => BarrierInit
    BY DEF Init
  <1>2. PoolInv /\ [Next]_vars => [BarrierNext]_barrierVars
    BY BarrierSteps
  <1>3. QED
    BY <1>1, <1>2, PoolInvariant, PTL DEF SafeSpec, UsesBarrier, BarrierSpec

\* So what the threads do at a barrier of the pool is a rendezvous.
THEOREM PoolImplementsRendezvous ==
  ASSUME ~MayGrow
  PROVE  SafeSpec => ImplementsRendezvous
  BY PoolUsesBarrier, BarrierImplementsRendezvous, PTL DEF UsesBarrier

----------------------------------------------------------------------------
(* Nobody sleeps through what it is awaited for. *)

\* A worker sleeps when there is nothing to do: it has seen the number of the
\* graph, or is about to be woken up; and a pool is paused or stopped by the
\* caller alone.
SleepOK ==
    /\ \A w \in Workers :
        /\ At(w, {"sleep"}) => (last_graph[w] = n_graph \/ At(0, {"kick3"})) /\ ~stop
        /\ At(w, {"pausesleep"}) => pause
        /\ At(w, {"exited"}) => stop
    /\ pause => At(0, {"caller", "kick1", "kick2", "kick3"})
    /\ stop <=> At(0, {"join", "freed"})

LEMMA SleepInit == Init => SleepOK
  <1> SUFFICES ASSUME Init PROVE SleepOK
    OBVIOUS
  <1>1. ~stop /\ ~pause /\ pc[0] = "caller" /\ \A w \in Workers : pc[w] = "top"
    BY ThreadsAre DEF Init
  <1>2. QED
    BY <1>1 DEF SleepOK, At

\* A step at a graph: the thread is awake before and after.
LEMMA SleepCompute ==
  ASSUME PoolInv, SleepOK, NEW t \in Threads, ComputeThread(t)
  PROVE  SleepOK'
  <1> USE DEF poolVars, workerVars, computeVars
  <1>1. pc[t] \in Computing
    BY DEF ComputeThread, Begin, ComputeOther, ConvertFactor, ComputeChunk, ChunksDone,
       AfterNode, NoMoreNodes, BarrierStep, At, Computing
  <1>2. UNCHANGED <<n_graph, stop, pause, last_graph>>
    BY DEF ComputeThread, Begin, ComputeOther, ConvertFactor, ComputeChunk, ChunksDone,
       AfterNode, NoMoreNodes, BarrierStep
  <1>p. ASSUME NEW b \in Barriers, Past(t, b)
        PROVE  \E s \in Computing \cup {"caller", "top"} :
                   Go(t, s) /\ (s = "top" => t # 0) /\ (s = "caller" => t = 0)
    <2>1. PastMid(t) \/ PastEnd(t) \/ PastFinal(t)
      BY <1>p, PastCases
    <2>2. QED
      BY <2>1 DEF PastMid, PastEnd, PastFinal, Computing
  <1>3. \/ \E s \in Computing \cup {"caller", "top"} :
               Go(t, s) /\ (s = "top" => t # 0) /\ (s = "caller" => t = 0)
        \/ UNCHANGED pc
    <2>1. ASSUME NEW b \in Barriers, GoToBarrier(t, b)
          PROVE  \E s \in Computing \cup {"caller", "top"} :
                     Go(t, s) /\ (s = "top" => t # 0) /\ (s = "caller" => t = 0)
      BY <1>p, <2>1 DEF GoToBarrier, Computing, Barriers
    <2>2. CASE ConvertFactor(t) \/ AfterNode(t) \/ NoMoreNodes(t)
      <3>1. \E b \in Barriers : GoToBarrier(t, b)
        BY <2>2 DEF ConvertFactor, AfterNode, NoMoreNodes, Barriers
      <3>2. QED
        BY <2>1, <3>1
    <2>3. CASE BarrierStep(t)
      BY <1>p, <2>3 DEF BarrierStep, At
    <2>4. CASE Begin(t) \/ ComputeOther(t) \/ ComputeChunk(t) \/ ChunksDone(t)
      BY <2>4 DEF Begin, ComputeOther, ComputeChunk, ChunksDone, Computing
    <2>5. QED
      BY <2>2, <2>3, <2>4 DEF ComputeThread
  <1>4. /\ \A u \in Threads \ {t} : pc'[u] = pc[u]
        /\ pc'[t] \in Computing \cup {"caller", "top"}
        /\ t = 0 => pc'[t] # "top"
        /\ t # 0 => pc'[t] # "caller"
    BY <1>1, <1>3 DEF Go, PoolInv, TypeOK, Computing, Barriers
  <1>5. \A w \in Workers : /\ At(w, {"sleep"})' => At(w, {"sleep"})
                           /\ At(w, {"pausesleep"})' => At(w, {"pausesleep"})
                           /\ At(w, {"exited"})' => At(w, {"exited"})
    BY <1>4, ThreadsAre DEF At, Computing, Barriers
  <1>6. CASE t # 0
    <2>1. pc'[0] = pc[0]
      BY <1>4, <1>6, ThreadsAre
    <2>2. QED
      BY <1>2, <1>5, <2>1 DEF SleepOK, At
  <1>7. CASE t = 0
    <2>1. ~stop /\ ~pause /\ ~At(0, {"kick3"})
      BY <1>1, <1>7 DEF SleepOK, At, Computing, Barriers
    <2>2. ~At(0, {"join", "freed"})'
      BY <1>4, <1>7 DEF At, Computing, Barriers
    <2>3. QED
      BY <1>2, <1>5, <2>1, <2>2 DEF SleepOK
  <1>8. QED
    BY <1>6, <1>7

LEMMA SleepWorker ==
  ASSUME PoolInv, SleepOK, NEW w \in Workers,
         \/ ReadPause(w) \/ SleepWhilePaused(w) \/ ReadStop(w) \/ Poll(w)
         \/ StopPolling(w) \/ PollActive(w) \/ CheckForWork(w) \/ SpuriousWakeup(w)
  PROVE  SleepOK'
  <1> USE DEF poolVars, workerVars
  <1>1. UNCHANGED <<n_graph, stop, pause>>
    BY DEF Waits, ReadPause, SleepWhilePaused, ReadStop, Poll, StopPolling, PollActive,
       CheckForWork, SpuriousWakeup
  <1>2. PICK s \in WorkerStages :
            /\ Go(w, s)
            /\ s = "sleep" => ~stop /\ last_graph' = [last_graph EXCEPT ![w] = n_graph]
            /\ s = "pausesleep" => pause
            /\ s = "exited" => stop
    <2>1. CASE \/ ReadPause(w) \/ SleepWhilePaused(w) \/ Poll(w) \/ StopPolling(w)
               \/ PollActive(w)
      BY <2>1, StageSets DEF ReadPause, SleepWhilePaused, Poll, StopPolling, PollActive
    <2>2. CASE ReadStop(w)
      BY <2>2, StageSets DEF ReadStop
    <2>3. CASE CheckForWork(w)
      BY <2>3, StageSets DEF CheckForWork
    <2>4. CASE SpuriousWakeup(w)
      BY <2>4, StageSets DEF SpuriousWakeup, Woken, At
    <2>5. QED
      BY <2>1, <2>2, <2>3, <2>4
  <1>3. w \in Threads /\ w # 0 /\ 0 \in Threads
    BY ThreadsAre
  <1>4. pc'[w] = s /\ \A u \in Threads \ {w} : pc'[u] = pc[u]
    BY <1>2, <1>3 DEF Go, PoolInv, TypeOK
  <1>5. \A x \in Workers \ {w} : last_graph'[x] = last_graph[x]
    BY DEF ReadPause, SleepWhilePaused, ReadStop, Poll, StopPolling, PollActive,
       CheckForWork, SpuriousWakeup, PoolInv, TypeOK
  <1>6. s = "sleep" => last_graph'[w] = n_graph
    BY <1>2 DEF PoolInv, TypeOK
  <1>7. \A x \in Workers :
            /\ At(x, {"sleep"})' => (last_graph'[x] = n_graph \/ At(0, {"kick3"})) /\ ~stop
            /\ At(x, {"pausesleep"})' => pause
            /\ At(x, {"exited"})' => stop
    BY <1>2, <1>4, <1>5, <1>6, ThreadsAre DEF SleepOK, At
  <1>8. QED
    BY <1>1, <1>3, <1>4, <1>7 DEF SleepOK, At

LEMMA SleepCaller ==
  ASSUME PoolInv, SleepOK,
         \/ \E g \in Graphs, n \in Requests : GraphCompute(g, n)
         \/ \E p \in BOOLEAN : SetPause(p)
         \/ FreePool \/ KickThreads \/ KickGraph \/ KickWake \/ Joined
  PROVE  SleepOK'
  <1> USE DEF poolVars, workerVars
  <1>0. 0 \in Threads /\ Workers \subseteq Threads \ {0}
    BY ThreadsAre
  <1>1. CASE \/ \E g \in Graphs, n \in Requests : GraphCompute(g, n)
             \/ KickThreads \/ KickGraph \/ Joined
    <2>1. /\ UNCHANGED <<stop, pause, last_graph>>
          /\ \A w \in Workers : pc'[w] = pc[w]
      BY <1>0, <1>1 DEF GraphCompute, KickThreads, KickGraph, Joined, Go, PoolInv, TypeOK
    <2>2. \/ pc[0] = "caller" /\ pc'[0] = "kick1" /\ n_graph' = n_graph
          \/ pc[0] = "kick1" /\ pc'[0] = "kick2" /\ n_graph' = n_graph
          \/ pc[0] = "kick2" /\ pc'[0] = "kick3"
          \/ pc[0] = "join" /\ pc'[0] = "freed" /\ n_graph' = n_graph
      BY <1>0, <1>1 DEF GraphCompute, KickThreads, KickGraph, Joined, At, Go, PoolInv, TypeOK
    <2>3. QED
      BY <2>1, <2>2 DEF SleepOK, At
  <1>2. CASE (\E p \in BOOLEAN : SetPause(p)) \/ FreePool \/ KickWake
    <2>1. /\ \A w \in Workers : pc'[w] = Woken(w)
          /\ \/ pc[0] = "caller" /\ pc'[0] = "caller" /\ stop' = stop
             \/ pc[0] = "caller" /\ pc'[0] = "join" /\ stop' /\ ~pause'
             \/ pc[0] = "kick3" /\ pc'[0] = "begin" /\ stop' = stop /\ ~pause'
      BY <1>0, <1>2 DEF SetPause, FreePool, KickWake, Woken, At
    <2>2. \A w \in Workers : /\ pc'[w] \notin {"sleep", "pausesleep"}
                             /\ pc'[w] = "exited" => pc[w] = "exited"
      BY <2>1 DEF Woken
    <2>3. \A w \in Workers : At(w, {"exited"})' => stop'
      BY <2>1, <2>2 DEF SleepOK, At
    <2>4. stop' <=> At(0, {"join", "freed"})'
      BY <2>1 DEF SleepOK, At
    <2>5. pause' => At(0, {"caller", "kick1", "kick2", "kick3"})'
      BY <2>1 DEF At
    <2>6. QED
      BY <2>2, <2>3, <2>4, <2>5 DEF SleepOK, At
  <1>3. QED
    BY <1>1, <1>2

LEMMA SleepStep ==
  ASSUME PoolInv, SleepOK, [Next]_vars
  PROVE  SleepOK'
  <1>1. CASE UNCHANGED vars
    BY <1>1 DEF vars, poolVars, workerVars, SleepOK, At
  <1>2. CASE Next
    BY <1>1, <1>2, NextIs, SleepCaller, SleepWorker, SleepCompute
  <1>3. QED
    BY <1>1, <1>2

\* A worker that is held by nothing but the end of its sleep.
LEMMA AwakeIs ==
  ASSUME NEW u \in Threads, Free(u) \/ stage[u] # "spin", ~At(u, {"join"}), MutexFree,
         ~At(u, {"sleep", "pausesleep", "exited"})
  PROVE  ~Blocked(u)
  BY DEF Blocked

\* While the caller is held, a thread of the graph is not and can go on.
LEMMA HeldAwaits ==
  ASSUME PoolInv, SleepOK, At(0, Barriers), stage[0] = "spin", ~Free(0)
  PROVE  \E u \in Party : ~Blocked(u)
  <1>1. Running /\ MutexFree /\ ~At(0, {"join"})
        /\ ~At(0, {"caller", "kick1", "kick2", "kick3", "join", "freed"})
    BY DEF Running, Busy, MutexFree, At, Computing, Barriers
  <1>2. BarrierTypeOK /\ CallersBelong /\ CountIsRight
    BY DEF PoolInv, BarrierInv
  <1>3. \E u \in Party : Free(u) \/ stage[u] # "spin"
    <2>1. CASE \E u \in Threads : Last(u)
      <3>1. PICK u \in Threads : Last(u)
        BY <2>1
      <3>2. ~Free(u) /\ stage[u] # "spin"
        BY <3>1 DEF Last, Free
      <3>3. u \in Party
        BY <1>2, <3>2 DEF CallersBelong
      <3>4. QED
        BY <3>2, <3>3
    <2>2. CASE \A u \in Threads : ~Last(u)
      <3>1. Cardinality(Waiting) < n_threads_cur
        BY <1>2, <2>2 DEF CountIsRight
      <3>2. Party \subseteq Threads /\ Cardinality(Party) = n_threads_cur
            /\ n_threads_cur \in Nat
        BY <1>2, PartyFinite, NThreadsAssumption DEF BarrierTypeOK
      <3>3. Waiting \subseteq Party
        BY <1>2, WaitingFinite
      <3>4. PICK u \in Party : u \notin Waiting
        BY <3>1, <3>2, <3>3
      <3>5. Free(u) \/ stage[u] = "arrive"
        BY <3>2, <3>4 DEF Waiting
      <3>6. QED
        BY <3>5
    <2>3. QED
      BY <2>1, <2>2
  <1>4. PICK u \in Party : Free(u) \/ stage[u] # "spin"
    BY <1>3
  <1>5. u \in Threads /\ u # 0
    BY <1>4, PartyIs
  <1>6. u \in Workers /\ Active(u)
    BY <1>5, ThreadsAre, PartyIs
  <1>7. ~At(u, {"sleep", "pausesleep", "exited"})
    <2>1. ASSUME At(u, {"sleep", "pausesleep", "exited"}) PROVE FALSE
      <3>1. ~Busy(u)
        BY <2>1 DEF Busy, At, Computing, Barriers
      <3>2. last_graph[u] # n_graph
        BY <1>1, <1>6, <3>1 DEF PoolInv, WorkersOK
      <3>3. ~stop /\ ~pause /\ ~At(0, {"kick3"})
        BY <1>1 DEF SleepOK, At
      <3>4. QED
        BY <1>6, <2>1, <3>2, <3>3 DEF SleepOK, At
    <2>2. QED
      BY <2>1
  <1>8. ~At(u, {"join"})
    BY <1>6, StageSets DEF PoolInv, TypeOK, At
  <1>9. QED
    BY <1>1, <1>4, <1>5, <1>7, <1>8, AwakeIs

\* The caller never waits for threads that all sleep or are held, for any
\* number of threads: a graph that is kicked off cannot come to a standstill,
\* nor can the pool while it is freed (ggml-cpu.c:15285-15289, :15346, :2473-2485).
THEOREM PoolNobodyStuck ==
  ASSUME ~MayGrow
  PROVE  SafeSpec => []NobodyStuck
  <1>1. ASSUME PoolInv, SleepOK, ~At(0, {"caller", "freed"})
        PROVE  \E t \in Awaited : ~Blocked(t)
    <2>1. 0 \in Threads /\ pc[0] \in CallerStages /\ \A w \in Workers : pc[w] \in WorkerStages
      BY <1>1, ThreadsAre DEF PoolInv, TypeOK
    <2>2. CASE At(0, {"join"})
      <3>1. ~Running /\ MutexFree
        BY <2>2 DEF Running, Busy, MutexFree, At, Computing, Barriers
      <3>2. CASE \A w \in Workers : At(w, {"exited"})
        <4>1. ~Blocked(0)
          BY <2>2, <3>2 DEF Blocked, At, Barriers
        <4>2. QED
          BY <2>1, <2>2, <4>1 DEF Awaited
      <3>3. CASE \E w \in Workers : ~At(w, {"exited"})
        <4>1. PICK w \in Workers : ~At(w, {"exited"})
          BY <3>3
        <4>2. w \in Threads /\ Free(w)
          BY <1>1, <3>1, DoneIs, ThreadsAre
        <4>3. stop /\ ~pause
          BY <1>1, <2>2 DEF SleepOK, At
        <4>4. ~At(w, {"sleep", "pausesleep", "exited"})
          BY <1>1, <4>1, <4>3 DEF SleepOK, At
        <4>5. ~At(w, {"join"})
          BY <2>1, StageSets DEF At
        <4>6. ~Blocked(w)
          BY <3>1, <4>2, <4>4, <4>5, AwakeIs
        <4>7. QED
          BY <2>2, <4>2, <4>6 DEF Awaited
      <3>4. QED
        BY <3>2, <3>3
    <2>3. CASE ~At(0, {"join"})
      <3>1. Awaited = Party /\ 0 \in Party
        BY <1>1, <2>3, PartyIs DEF Awaited, Party
      <3>2. CASE At(0, Barriers) /\ stage[0] = "spin" /\ ~Free(0)
        BY <1>1, <3>1, <3>2, HeldAwaits
      <3>3. CASE ~(At(0, Barriers) /\ stage[0] = "spin" /\ ~Free(0))
        <4>1. ~At(0, {"sleep", "pausesleep", "exited", "paused", "check"})
          BY <2>1, StageSets DEF At
        <4>2. ~Blocked(0)
          BY <2>3, <3>3, <4>1 DEF Blocked, At
        <4>3. QED
          BY <3>1, <4>2
      <3>4. QED
        BY <3>2, <3>3
    <2>4. QED
      BY <2>2, <2>3
  <1>2. PoolInv /\ SleepOK => NobodyStuck
    BY <1>1 DEF NobodyStuck
  <1>3. Init => PoolInv /\ SleepOK
    BY PoolInit, SleepInit
  <1>4. PoolInv /\ SleepOK /\ [Next]_vars => (PoolInv /\ SleepOK)'
    BY PoolStep, SleepStep
  <1>5. QED
    BY <1>2, <1>3, <1>4, PTL DEF SafeSpec
=============================================================================
