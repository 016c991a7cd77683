-------------------- MODULE ThreadPoolComputationProofs --------------------
(***************************************************************************)
(* The pool computes as one computer would: it implements GraphComputation *)
(* for any number of threads, any graphs and any tiles.  Each of its steps *)
(* is one of GraphComputation or changes nothing there.                    *)
(***************************************************************************)
EXTENDS ThreadPoolChunkProofs

----------------------------------------------------------------------------
(* The refinement mapping. *)

LEMMA PhaseIs ==
  /\ At(0, {"kick1", "kick2"}) => Phase = "ready" /\ ~Running
  /\ Running => Phase = "running"
  /\ ~Running /\ ~At(0, {"kick1", "kick2"}) => Phase = "idle"
  <1>1. At(0, {"kick1", "kick2"}) => ~Running
    BY DEF Running, Busy, At, Computing, Barriers
  <1>2. QED
    BY <1>1, Zenon DEF Phase

\* An operation of which each thread has its part is being computed.
Operating == ~Dealing /\ Running /\ Operates(Pos(0))

LEMMA PartsIs ==
  /\ Dealing => Parts = UNION {Tile(product, c) : c \in computed}
  /\ Operating => Parts = {u \in Party : Behind(u)}
  /\ ~Dealing /\ ~Operating => Parts = {}
  BY Zenon DEF Parts, Operating, Party

LEMMA BehindIs ==
  ASSUME NEW t \in Threads, Behind(t)
  PROVE  Busy(t) /\ ~At(t, {"begin"})
  BY DEF Behind, Busy, At, Computing, Barriers

\* Nothing is mapped to something else.
LEMMA MapSame ==
  ASSUME Phase' = Phase, Pos(0)' = Pos(0), Parts' = Parts,
         UNCHANGED <<cgraph, n_threads_cur, abort, ec>>
  PROVE  [GC!Next]_(GC!vars)
  BY DEF GC!vars

LEMMA PartsSame ==
  ASSUME Dealing' <=> Dealing, Operating' <=> Operating, n_threads_cur' = n_threads_cur,
         Dealing => UNCHANGED <<product, computed>>,
         Operating => \A u \in Party : Behind(u)' <=> Behind(u)
  PROVE  Parts' = Parts
  <1>1. /\ Dealing' => Parts' = UNION {Tile(product, c)' : c \in computed'}
        /\ Operating' => Parts' = {u \in Party' : Behind(u)'}
        /\ ~Dealing' /\ ~Operating' => Parts' = {}
    <2>1. (/\ Dealing => Parts = UNION {Tile(product, c) : c \in computed}
           /\ Operating => Parts = {u \in Party : Behind(u)}
           /\ ~Dealing /\ ~Operating => Parts = {})'
      BY PartsIs, PTL
    <2>2. QED
      BY <2>1
  <1>2. Party' = Party
    BY DEF Party
  <1>3. CASE Dealing
    <2>1. UNION {Tile(product, c)' : c \in computed'}
            = UNION {Tile(product, c) : c \in computed}
      BY <1>3 DEF Tile, Grid
    <2>2. QED
      BY <1>1, <1>3, <2>1, PartsIs
  <1>4. CASE Operating
    <2>1. {u \in Party' : Behind(u)'} = {u \in Party : Behind(u)}
      BY <1>2, <1>4
    <2>2. QED
      BY <1>1, <1>4, <2>1, PartsIs
  <1>5. CASE ~Dealing /\ ~Operating
    BY <1>1, <1>5, PartsIs
  <1>6. QED
    BY <1>3, <1>4, <1>5

\* A step of one thread that gets nothing done and leaves nothing undone.
LEMMA StepKeeps ==
  ASSUME PoolInv, NEW t \in Threads,
         \A u \in Threads \ {t} : Same(u),
         UNCHANGED <<cgraph, n_threads_cur, n_barrier_passed>>,
         abort' = abort \/ (t = 0 /\ abort # Pos(0) /\ abort' # Pos(0)),
         Dealing => UNCHANGED <<product, computed>>,
         t = 0 => /\ pc[0] \notin {"kick1", "kick2"} /\ pc'[0] \notin {"kick1", "kick2"}
                  /\ Running' <=> Running,
         ZeroStays(t),
         Operating => (Behind(t)' <=> Behind(t))
  PROVE  Phase' = Phase /\ Pos(0)' = Pos(0) /\ Parts' = Parts
  <1>1. /\ Running' <=> Running
        /\ Pos(0)' = Pos(0) /\ (Dealing' <=> Dealing)
        /\ At(0, {"kick1", "kick2"})' <=> At(0, {"kick1", "kick2"})
    <2>1. CASE t = 0
      BY <2>1 DEF At, ZeroStays
    <2>2. CASE t # 0
      <3>1. Same(0)
        BY <2>2, ThreadsAre
      <3>2. Busy(0)' <=> Busy(0)
        BY <3>1, ThreadsAre, SameFree
      <3>3. QED
        BY <2>2, <3>1, <3>2, ZeroSame DEF Running, At, Same
    <2>3. QED
      BY <2>1, <2>2
  <1>2. Phase' = Phase
    BY <1>1, Zenon DEF Phase
  <1>3. Operating' <=> Operating
    BY <1>1 DEF Operating, Operates, IsProduct
  <1>4. Operating => \A u \in Party : Behind(u)' <=> Behind(u)
    <2>1. \A u \in Threads \ {t} : Behind(u)' <=> Behind(u)
      BY SameFree DEF Behind, Same, At
    <2>2. QED
      BY <2>1, DealTypes
  <1>5. Parts' = Parts
    BY <1>1, <1>3, <1>4, PartsSame
  <1>6. QED
    BY <1>1, <1>2, <1>5

LEMMA StepSame ==
  ASSUME PoolInv, NEW t \in Threads,
         \A u \in Threads \ {t} : Same(u),
         UNCHANGED <<cgraph, n_threads_cur, n_barrier_passed, abort, ec>>,
         UNCHANGED <<product, computed>>,
         t = 0 => /\ pc[0] \notin {"kick1", "kick2"} /\ pc'[0] \notin {"kick1", "kick2"}
                  /\ Running' <=> Running,
         ZeroStays(t),
         Operating => (Behind(t)' <=> Behind(t))
  PROVE  [GC!Next]_(GC!vars)
  BY StepKeeps, MapSame

----------------------------------------------------------------------------
(* Between graphs. *)

\* Nothing is computed while no graph runs.
LEMMA IdleIs == PoolInv /\ ~Running => Pos(0) = 0 /\ Parts = {} /\ ~Dealing /\ ~Operating
  <1> SUFFICES ASSUME PoolInv, ~Running
               PROVE  Pos(0) = 0 /\ Parts = {} /\ ~Dealing /\ ~Operating
    OBVIOUS
  <1>1. ~Busy(0) /\ ~Dealing /\ ~Operating
    BY DEF Running, Dealing, Operating
  <1>2. QED
    BY <1>1, ThreadsAre, NotBusy, PartsIs

LEMMA CallerComputes ==
  ASSUME PoolInv, PoolInv',
         \/ \E g \in Graphs, n \in Requests : GraphCompute(g, n)
         \/ \E p \in BOOLEAN : SetPause(p)
         \/ FreePool \/ KickThreads \/ KickGraph \/ KickWake \/ Joined
  PROVE  [GC!Next]_(GC!vars)
  <1> USE DEF barrierVars, poolVars, workerVars, computeVars
  <1>0. 0 \in Threads /\ Workers \subseteq Threads \ {0}
        /\ n_threads_cur \in Nat \ {0} /\ nth[0] \in Nat \ {0}
    <2>1. 0 \in Threads /\ n_threads_cur \in 1 .. NThreads /\ nth \in [Threads -> 1 .. NThreads]
      BY ThreadsAre DEF PoolInv, TypeOK, BarrierTypeOK
    <2>2. 1 .. NThreads \subseteq Nat \ {0}
      BY NThreadsAssumption
    <2>3. QED
      BY <2>1, <2>2, ThreadsAre
  <1>i. ASSUME ~Running' PROVE Pos(0)' = 0 /\ Parts' = {}
    <2>1. (PoolInv /\ ~Running => Pos(0) = 0 /\ Parts = {} /\ ~Dealing /\ ~Operating)'
      BY IdleIs, PTL
    <2>2. QED
      BY <1>i, <2>1
  <1>p. (/\ At(0, {"kick1", "kick2"}) => Phase = "ready" /\ ~Running
         /\ Running => Phase = "running"
         /\ ~Running /\ ~At(0, {"kick1", "kick2"}) => Phase = "idle")'
    BY PhaseIs, PTL
  <1>1. CASE \E g \in Graphs, n \in Requests : GraphCompute(g, n)
    <2>1. PICK g \in Graphs, n \in Requests : GraphCompute(g, n)
      BY <1>1
    <2>2. /\ pc[0] = "caller" /\ pc'[0] = "kick1"
          /\ cgraph' = g /\ abort' = -1 /\ ec' = "success" /\ n_threads_cur' = n_threads_cur
      BY <1>0, <2>1 DEF GraphCompute, At, Go, PoolInv, TypeOK
    <2>3. ~Running /\ ~Running' /\ At(0, {"kick1", "kick2"})' /\ ~At(0, {"kick1", "kick2"})
      BY <2>2 DEF Running, Busy, At, Computing, Barriers
    <2>4. /\ Phase = "idle" /\ Phase' = "ready"
          /\ Pos(0)' = Pos(0) /\ Parts' = Parts
      BY <1>i, <1>p, <2>3, IdleIs, PhaseIs
    <2>5. GC!Prepare
      BY <2>1, <2>2, <2>4 DEF GC!Prepare
    <2>6. QED
      BY <2>5 DEF GC!Next
  <1>2. CASE KickThreads
    <2>1. /\ pc[0] = "kick1" /\ pc'[0] = "kick2" /\ n_threads_cur' = nth[0]
          /\ UNCHANGED <<cgraph, abort, ec>>
      BY <1>0, <1>2 DEF KickThreads, SetThreads, At, Go, PoolInv, TypeOK
    <2>2. At(0, {"kick1", "kick2"}) /\ At(0, {"kick1", "kick2"})'
      BY <2>1 DEF At
    <2>3. /\ Phase = "ready" /\ Phase' = "ready"
          /\ Pos(0)' = Pos(0) /\ Parts' = Parts
      BY <1>i, <1>p, <2>2, IdleIs, PhaseIs
    <2>4. GC!SetThreads
      BY <1>0, <2>1, <2>3 DEF GC!SetThreads
    <2>5. QED
      BY <2>4 DEF GC!Next
  <1>3. CASE KickGraph
    <2>1. /\ pc[0] = "kick2" /\ pc'[0] = "kick3"
          /\ \A u \in Threads \ {0} : Same(u)
          /\ UNCHANGED <<cgraph, abort, ec, n_threads_cur, n_barrier_passed>>
      BY <1>0, <1>3 DEF KickGraph, Same, At, Go, PoolInv, TypeOK
    <2>2. At(0, {"kick1", "kick2"}) /\ ~Running /\ Running' /\ ~Busy(0)'
      BY <2>1 DEF Running, Busy, At, Computing, Barriers
    <2>3. Pos(0)' = 0 /\ ~Dealing'
      BY <2>2, Zenon DEF Pos, Dealing
    <2>4. \A u \in Party' : ~Behind(u)'
      <3>1. \A u \in Threads \ {0} : ~Behind(u)
        BY <2>2, ThreadsAre, DoneIs, BehindIs
      <3>2. \A u \in Threads \ {0} : ~Behind(u)'
        BY <2>1, <3>1, SameFree DEF Behind, Same, At
      <3>3. ~Behind(0)'
        BY <2>1 DEF Behind, At
      <3>4. Party' \subseteq Threads
        BY <2>1, PartyIs DEF Party
      <3>5. QED
        BY <3>2, <3>3, <3>4
    <2>5. Parts' = {}
      <3>1. (/\ Operating => Parts = {u \in Party : Behind(u)}
             /\ ~Dealing /\ ~Operating => Parts = {})'
        BY PartsIs, PTL
      <3>2. QED
        BY <2>3, <2>4, <3>1
    <2>6. Phase = "ready" /\ Phase' = "running" /\ Pos(0) = 0 /\ Parts = {}
      BY <1>p, <2>2, IdleIs, PhaseIs
    <2>7. GC!Begin
      BY <2>1, <2>3, <2>5, <2>6 DEF GC!Begin
    <2>8. QED
      BY <2>7 DEF GC!Next
  <1>4. CASE KickWake
    <2>1. /\ pc[0] = "kick3" /\ pc'[0] = "begin"
          /\ \A w \in Workers : pc'[w] = Woken(w)
          /\ UNCHANGED <<cgraph, abort, ec, n_threads_cur, n_barrier_passed, stage, n_passed>>
      BY <1>0, <1>4 DEF KickWake, At
    <2>2. /\ Running /\ Running' /\ ~Busy(0)
          /\ Pos(0) = 0 /\ Pos(0)' = 0 /\ ~Dealing /\ ~Dealing'
      <3>1. Running /\ Running' /\ ~Busy(0) /\ At(0, {"begin"})'
        BY <2>1 DEF Running, Busy, At, Computing, Barriers
      <3>2. Pos(0) = 0 /\ ~Dealing
        BY <3>1, Zenon DEF Pos, Dealing
      <3>3. ~Dealing'
        BY <2>1 DEF Dealing, Converted, At
      <3>4. Pos(0)' = 0
        BY <2>1 DEF Pos, At
      <3>5. QED
        BY <3>1, <3>2, <3>3, <3>4
    <2>3. Operating' <=> Operating
      BY <2>1, <2>2 DEF Operating, Operates, IsProduct
    <2>4. \A u \in Party : Behind(u)' <=> Behind(u)
      <3>1. \A w \in Workers :
                \/ pc'[w] = pc[w]
                \/ {pc[w], pc'[w]} \subseteq {"pausesleep", "top", "sleep", "check"}
        BY <2>1 DEF Woken
      <3>2. \A w \in Workers : Behind(w)' <=> Behind(w)
        BY <2>1, <3>1 DEF Behind, At, Free
      <3>3. ~Behind(0)' /\ ~Behind(0)
        BY <2>1 DEF Behind, At
      <3>4. QED
        BY <3>2, <3>3, DealTypes, ThreadsAre
    <2>5. Parts' = Parts
      BY <2>1, <2>2, <2>3, <2>4, PartsSame
    <2>6. Phase' = Phase
      BY <1>p, <2>2, PhaseIs
    <2>7. QED
      BY <2>1, <2>2, <2>5, <2>6, MapSame
  <1>5. CASE (\E p \in BOOLEAN : SetPause(p)) \/ FreePool \/ Joined
    <2>1. /\ pc[0] \in {"caller", "join"} /\ pc'[0] \in {"caller", "join", "freed"}
          /\ UNCHANGED <<cgraph, abort, ec, n_threads_cur>>
      BY <1>0, <1>5 DEF SetPause, FreePool, Joined, Woken, At, Go, PoolInv, TypeOK
    <2>2. /\ ~Running /\ ~Running'
          /\ ~At(0, {"kick1", "kick2"}) /\ ~At(0, {"kick1", "kick2"})'
      BY <2>1 DEF Running, Busy, At, Computing, Barriers
    <2>3. Phase' = Phase /\ Pos(0)' = Pos(0) /\ Parts' = Parts
      BY <1>i, <1>p, <2>2, IdleIs, PhaseIs
    <2>4. QED
      BY <2>1, <2>3, MapSame
  <1>6. QED
    BY <1>1, <1>2, <1>3, <1>4, <1>5

LEMMA WorkerComputes ==
  ASSUME PoolInv, NEW w \in Workers,
         \/ ReadPause(w) \/ SleepWhilePaused(w) \/ ReadStop(w) \/ Poll(w)
         \/ StopPolling(w) \/ PollActive(w) \/ CheckForWork(w) \/ SpuriousWakeup(w)
  PROVE  [GC!Next]_(GC!vars)
  <1> USE DEF barrierVars, poolVars, computeVars
  <1>1. Waits(w)
    BY DEF ReadPause, SleepWhilePaused, ReadStop, Poll, StopPolling, PollActive,
       CheckForWork, SpuriousWakeup
  <1>2. pc[w] \in {"top", "paused", "pausesleep", "stopcheck", "polling", "active",
                   "check", "sleep"}
    BY DEF ReadPause, SleepWhilePaused, ReadStop, Poll, StopPolling, PollActive,
       CheckForWork, SpuriousWakeup, At
  <1>3. PICK s \in WorkerStages : Go(w, s) /\ s \notin {"mid", "chunk", "after", "end", "final"}
    BY StageSets
       DEF ReadPause, SleepWhilePaused, ReadStop, Poll, StopPolling, PollActive,
           CheckForWork, SpuriousWakeup, Woken, At
  <1>4. w \in Threads /\ w # 0
    BY ThreadsAre
  <1>5. pc'[w] = s /\ \A u \in Threads \ {w} : pc'[u] = pc[u]
    BY <1>3, <1>4 DEF Go, PoolInv, TypeOK
  <1>6. ~Behind(w) /\ ~Behind(w)'
    BY <1>2, <1>3, <1>5 DEF Behind, At
  <1>7. \A u \in Threads \ {w} : Same(u)
    BY <1>1, <1>5 DEF Waits, Same
  <1>8. QED
    BY <1>1, <1>4, <1>6, <1>7, StepSame DEF Waits, ZeroStays

LEMMA StutterComputes ==
  ASSUME PoolInv, UNCHANGED vars
  PROVE  [GC!Next]_(GC!vars)
  <1> USE DEF vars, barrierVars, poolVars, workerVars, computeVars
  <1>1. \A u \in Threads : Same(u)
    BY DEF Same
  <1>2. /\ Busy(0)' <=> Busy(0)
        /\ Pos(0)' = Pos(0)
        /\ Dealing' <=> Dealing
        /\ Behind(0)' <=> Behind(0)
    BY <1>1, ThreadsAre, SameFree, ZeroSame DEF Behind, At
  <1>3. Running' <=> Running
    BY <1>2 DEF Running, At
  <1>4. Phase' = Phase
    BY <1>3, Zenon DEF Phase, At
  <1>5. Operating' <=> Operating
    BY <1>2, <1>3 DEF Operating, Operates, IsProduct
  <1>6. \A u \in Party : Behind(u)' <=> Behind(u)
    BY DEF Behind, At, Free
  <1>7. Parts' = Parts
    BY <1>2, <1>5, <1>6, PartsSame
  <1>8. QED
    BY <1>2, <1>4, <1>7, MapSame

----------------------------------------------------------------------------
(* A node and its parts. *)

LEMMA MultipliesIs == PoolInv /\ Dealing => Running /\ Multiplies(Pos(0))
  BY DealingIs

\* What a node that is wanted consists of.
LEMMA AllPartsAre ==
  ASSUME PoolInv, DealInv, Running, GC!Wanted
  PROVE  /\ Dealing \/ Operating \/ (Multiplies(Pos(0)) /\ Parts = {})
         /\ Dealing => GC!AllParts = Entries(product)
         /\ Operating => GC!AllParts = Party
  <1>1. Multiplies(Pos(0)) <=> ~Operates(Pos(0))
    BY DEF GC!Wanted, Multiplies, Operates
  <1>2. Dealing \/ Operating \/ (Multiplies(Pos(0)) /\ Parts = {})
    BY <1>1, PartsIs DEF Operating
  <1>3. PICK n : n = cgraph[Pos(0) + 1]
    OBVIOUS
  <1>4. GC!AllParts = IF n.nr0 > 0 THEN (0 .. n.nr0 - 1) \X (0 .. n.nr1 - 1)
                                   ELSE 0 .. n_threads_cur - 1
    BY <1>3 DEF GC!AllParts
  <1>5. ASSUME Dealing PROVE GC!AllParts = Entries(product)
    <2>1. n.nr0 > 0
      BY <1>3, <1>5, MultipliesIs DEF Multiplies, IsProduct
    <2>2. product.nr0 = n.nr0 /\ product.nr1 = n.nr1
      BY <1>3, <1>5 DEF DealInv, DealOK, ProductIs
    <2>3. QED
      BY <1>4, <2>1, <2>2 DEF Entries
  <1>6. ASSUME Operating PROVE GC!AllParts = Party
    <2>1. ~(n.nr0 > 0)
      BY <1>3, <1>6 DEF Operating, Operates, IsProduct
    <2>2. QED
      BY <1>4, <2>1 DEF Party
  <1>7. QED
    BY <1>2, <1>5, <1>6

LEMMA PartsWithin ==
  ASSUME PoolInv, DealInv, Running, GC!Wanted
  PROVE  Parts \subseteq GC!AllParts
  <1>1. CASE Dealing
    <2>1. \A c \in computed : c \in 0 .. Total(product) - 1
      BY <1>1, DealTypes DEF DealInv, DealOK, TakenOK
    <2>2. UNION {Tile(product, c) : c \in computed}
              \subseteq UNION {Tile(product, c) : c \in 0 .. Total(product) - 1}
      BY <2>1
    <2>3. QED
      BY <1>1, <2>2, DealTypes, TilesCover, AllPartsAre, PartsIs
  <1>2. CASE Operating
    BY <1>2, AllPartsAre, PartsIs
  <1>3. CASE ~Dealing /\ ~Operating
    BY <1>3, PartsIs
  <1>4. QED
    BY <1>1, <1>2, <1>3

\* A node that every thread is through with is whole.
LEMMA WholeIs ==
  ASSUME PoolInv, DealInv, Running, GC!Wanted, Busy(0),
         \A u \in Party : Behind(u)
  PROVE  GC!Whole
  <1>1. CASE Dealing
    <2>1. \A u \in Party : ~At(u, {"mid", "chunk"})
      BY DEF Behind, At
    <2>2. Converted(0)
      BY <1>1, <2>1, DealTypes DEF Dealing, At
    <2>3. computed = 0 .. Total(product) - 1
      BY <1>1, <2>1, <2>2, AllDealt
    <2>4. Parts = Entries(product)
      BY <1>1, <2>3, DealTypes, TilesCover, PartsIs
    <2>5. QED
      BY <1>1, <2>4, AllPartsAre DEF GC!Whole
  <1>2. CASE Operating
    <2>1. Parts = Party
      BY <1>2, PartsIs
    <2>2. QED
      BY <1>2, <2>1, AllPartsAre DEF GC!Whole
  <1>3. CASE Multiplies(Pos(0)) /\ ~Dealing
    <2>1. 0 \in Threads /\ Behind(0) /\ ~At(0, {"begin"})
      BY ThreadsAre, DealTypes, BehindIs
    <2>2. Pos(0) = node_n[0]
      BY <2>1, PlaceIs DEF Behind, At
    <2>3. Converted(0)
      BY <1>3, <2>1, <2>2 DEF Converted, Behind
    <2>4. QED
      BY <1>3, <2>3 DEF Dealing
  <1>4. QED
    BY <1>1, <1>2, <1>3, AllPartsAre DEF Operating

----------------------------------------------------------------------------
(* The steps of the abstract computation. *)

\* Something of a node, or nothing, is computed.
LEMMA NodeComputes ==
  ASSUME PoolInv, DealInv, Running, Running', GC!Wanted,
         UNCHANGED <<cgraph, n_threads_cur>>, Pos(0)' = Pos(0),
         Parts \subseteq Parts', Parts' \subseteq GC!AllParts, GC!MayAbort
  PROVE  [GC!Next]_(GC!vars)
  <1>1. (Running => Phase = "running")'
    BY PhaseIs, PTL
  <1>2. Phase = "running" /\ Phase' = "running"
    BY <1>1, PhaseIs
  <1>3. GC!Compute
    BY <1>2 DEF GC!Compute
  <1>4. QED
    BY <1>3 DEF GC!Next

\* All threads go on to the next node.
LEMMA NodeEnds ==
  ASSUME PoolInv, DealInv, Running, Running', GC!Whole, Pos(0) + 1 < Len(cgraph),
         UNCHANGED <<cgraph, n_threads_cur>>, Pos(0)' = Pos(0) + 1, ~Dealing',
         \A u \in Party : ~Behind(u)', GC!MayAbort
  PROVE  [GC!Next]_(GC!vars)
  <1>1. (Running => Phase = "running")'
    BY PhaseIs, PTL
  <1>2. Phase = "running" /\ Phase' = "running"
    BY <1>1, PhaseIs
  <1>3. Parts' = {}
    <2>1. (/\ Operating => Parts = {u \in Party : Behind(u)}
           /\ ~Dealing /\ ~Operating => Parts = {})'
      BY PartsIs, PTL
    <2>2. Party' = Party
      BY DEF Party
    <2>3. QED
      BY <2>1, <2>2
  <1>4. GC!NextNode
    BY <1>2, <1>3 DEF GC!NextNode
  <1>5. QED
    BY <1>4 DEF GC!Next

\* The graph is finished, or aborted.
LEMMA GraphEnds ==
  ASSUME PoolInv, PoolInv', Running, ~Running', ~At(0, {"kick1", "kick2"})',
         (GC!Whole /\ Pos(0) + 1 = Len(cgraph)) \/ ~GC!Wanted,
         UNCHANGED <<cgraph, n_threads_cur>>, GC!MayAbort
  PROVE  [GC!Next]_(GC!vars)
  <1>1. (~Running /\ ~At(0, {"kick1", "kick2"}) => Phase = "idle")'
    BY PhaseIs, PTL
  <1>2. Phase = "running" /\ Phase' = "idle"
    BY <1>1, PhaseIs
  <1>3. (PoolInv /\ ~Running => Pos(0) = 0 /\ Parts = {} /\ ~Dealing /\ ~Operating)'
    BY IdleIs, PTL
  <1>4. GC!Finish
    BY <1>2, <1>3 DEF GC!Finish
  <1>5. QED
    BY <1>4 DEF GC!Next

----------------------------------------------------------------------------
(* The steps at a graph. *)

LEMMA BeginComputes ==
  ASSUME PoolInv, PoolInv', DealInv, NEW t \in Threads, Begin(t)
  PROVE  [GC!Next]_(GC!vars)
  <1> USE DEF barrierVars, poolVars
  <1>1. pc[t] = "begin" /\ pc'[t] = "node" /\ \A u \in Threads \ {t} : Same(u)
    BY DEF Begin, At, Go, Same, PoolInv, TypeOK
  <1>2. /\ UNCHANGED <<cgraph, n_threads_cur, n_barrier_passed, abort, ec>>
        /\ UNCHANGED <<product, computed>>
    BY DEF Begin
  <1>3. ~Behind(t) /\ ~Behind(t)'
    BY <1>1 DEF Behind, At
  <1>4. Busy(t) /\ Busy(t)'
    BY <1>1 DEF Busy, At, Computing
  <1>5. ZeroStays(t)
    BY DealBegins
  <1>6. QED
    BY <1>1, <1>2, <1>3, <1>4, <1>5, StepSame DEF Running

\* A thread is through with its part.
LEMMA OtherComputes ==
  ASSUME PoolInv, PoolInv', DealInv, DealInv', NEW t \in Threads, ComputeOther(t)
  PROVE  [GC!Next]_(GC!vars)
  <1> USE DEF barrierVars, poolVars, computeVars
  <1>1. /\ pc[t] = "node" /\ pc'[t] = "after" /\ MoreNodes(t) /\ ~IsProduct(Node(t))
        /\ \A u \in Threads \ {t} : Same(u)
    BY DEF ComputeOther, At, Go, Same, PoolInv, TypeOK
  <1>2. UNCHANGED <<cgraph, n_threads_cur, n_barrier_passed, abort, ec, product, computed>>
    BY DEF ComputeOther
  <1>3. Busy(t) /\ Busy(t)' /\ ~At(t, {"begin"}) /\ ~Behind(t)
    BY <1>1 DEF Busy, At, Computing, Behind
  <1>4. Running /\ t \in Party
    BY <1>3, BusyIs
  <1>5. Pos(0) = node_n[t] /\ graph[t] = cgraph
    BY <1>1, <1>3, <1>4, AtOneNode, PlaceIs DEF At
  <1>6. Operates(Pos(0)) /\ GC!Wanted
    BY <1>1, <1>5 DEF Operates, MoreNodes, Node, GC!Wanted
  <1>7. Operating
    BY <1>4, <1>6, MultipliesIs DEF Operating, Operates, Multiplies
  <1>8. Running' /\ Pos(0)' = Pos(0) /\ ~Dealing'
    <2>1. ZeroStays(t)
      BY DealBegins
    <2>2. CASE t = 0
      BY <1>3, <1>7, <2>1, <2>2 DEF ZeroStays, Running, Operating
    <2>3. CASE t # 0
      <3>1. Same(0)
        BY <1>1, <2>3, ThreadsAre
      <3>2. Busy(0)' <=> Busy(0)
        BY <1>2, <3>1, ThreadsAre, SameFree
      <3>3. QED
        BY <1>2, <1>4, <1>7, <3>1, <3>2, ZeroSame DEF Running, At, Same, Operating
    <2>4. QED
      BY <2>2, <2>3
  <1>9. Operating'
    BY <1>2, <1>6, <1>8 DEF Operating, Operates, IsProduct
  <1>10. Parts = {u \in Party : Behind(u)} /\ Parts' = {u \in Party : Behind(u)'}
    <2>1. (/\ Operating => Parts = {u \in Party : Behind(u)}
           /\ ~Dealing /\ ~Operating => Parts = {})'
      BY PartsIs, PTL
    <2>2. Party' = Party
      BY <1>2 DEF Party
    <2>3. QED
      BY <1>7, <1>9, <2>1, <2>2, PartsIs
  <1>11. \A u \in Party : Behind(u) => Behind(u)'
    <2>1. \A u \in Threads \ {t} : Behind(u) => Behind(u)'
      BY <1>1, <1>2, SameFree DEF Behind, Same, At
    <2>2. QED
      BY <1>3, <2>1, DealTypes
  <1>12. Parts \subseteq Parts' /\ Parts' \subseteq GC!AllParts
    BY <1>4, <1>6, <1>7, <1>10, <1>11, AllPartsAre
  <1>13. GC!MayAbort
    BY <1>2 DEF GC!MayAbort
  <1>14. QED
    BY <1>2, <1>4, <1>6, <1>8, <1>12, <1>13, NodeComputes

\* A product begins: nothing of it is computed yet.
LEMMA ConvertComputes ==
  ASSUME PoolInv, PoolInv', DealInv, NEW t \in Threads, ConvertFactor(t)
  PROVE  [GC!Next]_(GC!vars)
  <1> USE DEF poolVars, barrierVars
  <1>1. /\ pc[t] = "node" /\ GoToBarrier(t, "mid") /\ MoreNodes(t) /\ IsProduct(Node(t))
        /\ UNCHANGED <<cgraph, graph, nth, abort, ec>>
    BY DEF ConvertFactor, At
  <1>2. Busy(t) /\ ~At(t, {"begin"}) /\ ~Behind(t)
    BY <1>1 DEF Busy, At, Computing, Behind
  <1>3. Running
    BY <1>2, BusyIs
  <1>4. CASE t = 0
    <2>1. Dealing' /\ Pos(0)' = Pos(0) /\ computed' = {}
      BY <1>4, DealStarts
    <2>2. Running'
      BY <2>1 DEF Dealing, Running
    <2>3. n_threads_cur' = n_threads_cur
      BY <1>1, EnterIs DEF GoToBarrier
    <2>4. Phase' = Phase
      <3>1. (Running => Phase = "running")'
        BY PhaseIs, PTL
      <3>2. QED
        BY <1>3, <2>2, <3>1, PhaseIs
    <2>5. ~Dealing /\ ~Operating
      <3>1. ~Dealing
        BY <1>1, <1>4 DEF Dealing, Converted, At
      <3>2. Pos(0) = node_n[0] /\ graph[0] = cgraph
        BY <1>1, <1>2, <1>4, PlaceIs DEF At
      <3>3. QED
        BY <1>1, <1>4, <3>1, <3>2 DEF Operating, Operates, Node
    <2>6. Parts = {} /\ Parts' = {}
      <3>1. (Dealing => Parts = UNION {Tile(product, c) : c \in computed})'
        BY PartsIs, PTL
      <3>2. Parts' = UNION {Tile(product, c)' : c \in computed'}
        BY <2>1, <3>1
      <3>3. QED
        BY <2>1, <2>5, <3>2, PartsIs
    <2>7. QED
      BY <1>1, <2>1, <2>3, <2>4, <2>6, MapSame
  <1>5. CASE t # 0
    <2>1. UNCHANGED <<current_chunk, product, computed>>
      BY <1>5 DEF ConvertFactor
    <2>2. ~Alone
      BY <1>2, <1>5, BusyIs, PartyIs
    <2>3. Enter(t) /\ Go(t, "mid") /\ UNCHANGED <<node_n, chunk>>
      BY <1>1, <2>2 DEF GoToBarrier
    <2>4. /\ pc'[t] = "mid" /\ UNCHANGED <<n_barrier_passed, n_threads_cur>>
          /\ \A u \in Threads \ {t} : Same(u)
      BY <1>1, <2>3, EnterIs DEF Go, Same, PoolInv, TypeOK
    <2>5. ~Behind(t)'
      BY <2>4 DEF Behind, At
    <2>6. QED
      BY <1>1, <1>2, <1>5, <2>1, <2>4, <2>5, StepSame DEF ZeroStays
  <1>6. QED
    BY <1>4, <1>5

\* A tile, or none when the chunks are used up.
LEMMA ChunkComputes ==
  ASSUME PoolInv, PoolInv', DealInv, DealInv', NEW t \in Threads,
         ComputeChunk(t) \/ ChunksDone(t)
  PROVE  [GC!Next]_(GC!vars)
  <1> USE DEF barrierVars, poolVars, computeVars
  <1>1. At(t, {"chunk"})
    BY DEF ComputeChunk, ChunksDone
  <1>2. Dealing /\ Running
    BY <1>1, AtChunk
  <1>3. /\ Dealing' /\ Pos(0)' = Pos(0) /\ product' = product
        /\ Total(product)' = Total(product) /\ n_threads_cur' = n_threads_cur
    BY ChunkStep
  <1>4. UNCHANGED <<cgraph, abort, ec>> /\ computed \subseteq computed'
    BY DEF ComputeChunk, ChunksDone
  <1>5. Running'
    BY <1>3 DEF Dealing, Running
  <1>6. GC!Wanted
    BY <1>2, MultipliesIs DEF Multiplies, GC!Wanted
  <1>7. Parts' = UNION {Tile(product, c) : c \in computed'}
    <2>1. (Dealing => Parts = UNION {Tile(product, c) : c \in computed})'
      BY PartsIs, PTL
    <2>2. Parts' = UNION {Tile(product, c)' : c \in computed'}
      BY <1>3, <2>1
    <2>3. \A c : Tile(product, c)' = Tile(product, c)
      BY <1>3, Zenon DEF Tile, Grid
    <2>4. QED
      BY <2>2, <2>3
  <1>8. Parts \subseteq Parts'
    BY <1>2, <1>4, <1>7, PartsIs
  <1>9. Parts' \subseteq GC!AllParts
    <2>1. \A c \in computed' : c \in 0 .. Total(product) - 1
      <3>1. \A c \in computed' : c < Total(product)
        BY <1>3 DEF DealInv, DealOK, TakenOK
      <3>2. computed' \subseteq Nat
        BY DEF PoolInv, TypeOK
      <3>3. QED
        BY <3>1, <3>2, DealTypes
    <2>2. UNION {Tile(product, c) : c \in computed'}
              \subseteq UNION {Tile(product, c) : c \in 0 .. Total(product) - 1}
      BY <2>1
    <2>3. QED
      BY <1>2, <1>6, <1>7, <2>2, DealTypes, TilesCover, AllPartsAre
  <1>10. GC!MayAbort
    BY <1>4 DEF GC!MayAbort
  <1>11. QED
    BY <1>2, <1>3, <1>4, <1>5, <1>6, <1>8, <1>9, <1>10, NodeComputes

----------------------------------------------------------------------------
(* The barrier behind a node. *)

\* A lone thread passes it.
LEMMA AloneComputes ==
  ASSUME PoolInv, PoolInv', DealInv, NEW t \in Threads, NEW b \in {"end", "final"},
         Alone, pc[t] \in {"node", "after"}, Past(t, b), UNCHANGED barrierVars,
         UNCHANGED cgraph, GC!MayAbort,
         pc[t] = "node" => b = "final" /\ ~GC!Wanted,
         b = "end" => node_n[t] + 1 < Len(cgraph),
         b = "final" /\ pc[t] = "after" => node_n[t] + 1 = Len(cgraph)
  PROVE  [GC!Next]_(GC!vars)
  <1> USE DEF barrierVars
  <1>1. Busy(t) /\ ~At(t, {"begin"})
    BY DEF Busy, At, Computing
  <1>2. t = 0 /\ Party = {0} /\ Running
    BY <1>1, BusyIs, PartyIs
  <1>3. /\ (b = "end" /\ PastEnd(0)) \/ (b = "final" /\ PastFinal(0))
        /\ PlaceOK(0) /\ Pos(0) = node_n[0] /\ node_n[0] \in Nat
    BY <1>1, <1>2, PastCases, PlaceIs DEF Barriers, At
  <1>4. pc[0] = "after" => GC!Wanted /\ GC!Whole
    <2>1. ASSUME pc[0] = "after" PROVE GC!Wanted /\ Behind(0)
      BY <1>3, <2>1 DEF PlaceOK, GC!Wanted, Behind, At
    <2>2. QED
      BY <1>1, <1>2, <2>1, WholeIs
  <1>5. CASE b = "end" /\ PastEnd(0)
    <2>1. pc'[0] = "node" /\ node_n'[0] = node_n[0] + 1 /\ pc[0] = "after"
      BY <1>2, <1>5 DEF PastEnd, Go, PoolInv, TypeOK
    <2>2. Busy(0)' /\ ~Behind(0)' /\ ~Dealing'
      BY <2>1 DEF Busy, Behind, Dealing, Converted, At, Computing
    <2>3. Pos(0)' = node_n[0] + 1
      BY <2>1, <2>2 DEF Pos, At
    <2>4. Running'
      BY <2>2 DEF Running
    <2>5. \A u \in Party : ~Behind(u)'
      BY <1>2, <2>2
    <2>6. QED
      BY <1>2, <1>3, <1>4, <1>5, <2>1, <2>2, <2>3, <2>4, <2>5, NodeEnds
  <1>6. CASE b = "final" /\ PastFinal(0)
    <2>1. pc'[0] = "caller"
      BY <1>2, <1>6 DEF PastFinal, Go, PoolInv, TypeOK
    <2>2. ~Running' /\ ~At(0, {"kick1", "kick2"})'
      BY <2>1 DEF Running, Busy, At, Computing, Barriers
    <2>3. (GC!Whole /\ Pos(0) + 1 = Len(cgraph)) \/ ~GC!Wanted
      BY <1>2, <1>3, <1>4, <1>6
    <2>4. QED
      BY <1>2, <2>2, <2>3, GraphEnds
  <1>7. QED
    BY <1>3, <1>5, <1>6

\* A thread of several comes to it; thread 0 may ask for an abort before.
LEMMA EntryComputes ==
  ASSUME PoolInv, PoolInv', DealInv, NEW t \in Threads, NEW b \in {"end", "final"},
         pc[t] \in {"node", "after"}, Enter(t), Go(t, b),
         UNCHANGED <<node_n, chunk, graph, nth>>,
         UNCHANGED <<product, computed, current_chunk, cgraph>>,
         pc[t] = "node" => ~GC!Wanted /\ UNCHANGED <<abort, ec>>,
         pc[t] = "after" => AskAbort(t)
  PROVE  [GC!Next]_(GC!vars)
  <1>1. Busy(t) /\ ~At(t, {"begin"})
    BY DEF Busy, At, Computing
  <1>2. Running /\ Pos(0) = node_n[t] /\ node_n[t] \in Nat /\ PlaceOK(t)
    BY <1>1, BusyIs, AtOneNode, PlaceIs DEF At
  <1>3. /\ pc'[t] = b /\ ~Free(t)' /\ UNCHANGED <<n_barrier_passed, n_threads_cur>>
        /\ \A u \in Threads \ {t} : Same(u)
    BY EnterIs DEF Go, Same, PoolInv, TypeOK
  <1>4. Busy(t)' /\ Behind(t)'
    BY <1>3 DEF Busy, Behind, At, Computing, Barriers
  <1>5. CASE pc[t] = "node"
    <2>1. ~Multiplies(Pos(0)) /\ ~Operates(Pos(0))
      BY <1>5 DEF Multiplies, Operates, GC!Wanted
    <2>2. ZeroStays(t)
      BY <1>2, <1>5, <2>1, DealEnters DEF Barriers
    <2>3. t = 0 => (Running' <=> Running)
      BY <1>2, <1>4 DEF Running
    <2>4. QED
      BY <1>3, <1>5, <2>1, <2>2, <2>3, StepSame DEF Operating, Barriers
  <1>6. CASE pc[t] = "after"
    <2>1. GC!Wanted
      BY <1>2, <1>6 DEF PlaceOK, At, GC!Wanted
    <2>2. abort' = abort \/ (t = 0 /\ abort # Pos(0) /\ abort' # Pos(0))
      BY <1>2, <1>6, <2>1 DEF AskAbort, GC!Wanted
    <2>3. GC!MayAbort
      BY <1>2, <1>6 DEF AskAbort, GC!MayAbort
    <2>4. ZeroStays(t)
      BY <1>2, <1>6, <2>2, DealEnters DEF Barriers
    <2>5. Behind(t)
      BY <1>6 DEF Behind, At
    <2>6. t = 0 => (Running' <=> Running)
      BY <1>2, <1>4 DEF Running
    <2>7. Phase' = Phase /\ Pos(0)' = Pos(0) /\ Parts' = Parts
      BY <1>3, <1>4, <1>6, <2>2, <2>4, <2>5, <2>6, StepKeeps DEF Barriers
    <2>8. Running'
      <3>1. (~Running => Phase # "running")'
        <4>1. (/\ At(0, {"kick1", "kick2"}) => Phase = "ready" /\ ~Running
               /\ Running => Phase = "running"
               /\ ~Running /\ ~At(0, {"kick1", "kick2"}) => Phase = "idle")'
          BY PhaseIs, PTL
        <4>2. QED
          BY <4>1
      <3>2. QED
        BY <1>2, <2>7, <3>1, PhaseIs
    <2>9. QED
      BY <1>2, <1>3, <2>1, <2>3, <2>7, <2>8, PartsWithin, NodeComputes
  <1>7. QED
    BY <1>5, <1>6

LEMMA AfterComputes ==
  ASSUME PoolInv, PoolInv', DealInv, NEW t \in Threads, AfterNode(t) \/ NoMoreNodes(t)
  PROVE  [GC!Next]_(GC!vars)
  <1> USE DEF poolVars
  <1>1. pc[t] \in {"node", "after"}
    BY DEF AfterNode, NoMoreNodes, At
  <1>2. Busy(t) /\ ~At(t, {"begin"})
    BY <1>1 DEF Busy, At, Computing
  <1>3. Running /\ Pos(0) = node_n[t] /\ node_n[t] \in Nat /\ PlaceOK(t)
        /\ graph[t] = cgraph /\ Len(cgraph) \in Nat
    BY <1>1, <1>2, BusyIs, AtOneNode, PlaceIs DEF At
  <1>4. UNCHANGED <<product, computed, current_chunk, cgraph, graph, nth>>
    BY DEF AfterNode, NoMoreNodes
  <1>5. PICK b \in {"end", "final"} :
            /\ GoToBarrier(t, b)
            /\ pc[t] = "node" => b = "final" /\ ~GC!Wanted /\ UNCHANGED <<abort, ec>>
            /\ pc[t] = "after" => AskAbort(t)
            /\ b = "end" => node_n[t] + 1 < Len(cgraph)
            /\ b = "final" /\ pc[t] = "after" => node_n[t] + 1 = Len(cgraph)
    <2>1. CASE AfterNode(t)
      <3>1. pc[t] = "after" /\ node_n[t] < Len(cgraph)
        BY <1>3, <2>1 DEF AfterNode, At, PlaceOK
      <3>2. CASE node_n[t] + 1 < Len(cgraph)
        <4>1. GoToBarrier(t, "end") /\ AskAbort(t)
          BY <1>3, <2>1, <3>2 DEF AfterNode
        <4>2. QED
          BY <3>1, <3>2, <4>1
      <3>3. CASE ~(node_n[t] + 1 < Len(cgraph))
        <4>1. GoToBarrier(t, "final") /\ AskAbort(t)
          BY <1>3, <2>1, <3>3 DEF AfterNode
        <4>2. node_n[t] + 1 = Len(cgraph)
          BY <1>3, <3>1, <3>3
        <4>3. QED
          BY <3>1, <4>1, <4>2
      <3>4. QED
        BY <3>2, <3>3
    <2>2. CASE NoMoreNodes(t)
      BY <1>3, <2>2 DEF NoMoreNodes, MoreNodes, At, GC!Wanted
    <2>3. QED
      BY <2>1, <2>2
  <1>6. GC!MayAbort
    BY <1>1, <1>3, <1>5 DEF AskAbort, GC!MayAbort
  <1>7. CASE Alone /\ Past(t, b) /\ UNCHANGED barrierVars
    BY <1>1, <1>4, <1>5, <1>6, <1>7, AloneComputes
  <1>8. CASE Enter(t) /\ Go(t, b) /\ UNCHANGED <<node_n, chunk>>
    BY <1>1, <1>4, <1>5, <1>8, EntryComputes
  <1>9. QED
    BY <1>5, <1>7, <1>8 DEF GoToBarrier

\* A thread arrives, or notices that it has been let go.
LEMMA WaitComputes ==
  ASSUME PoolInv, PoolInv', DealInv, NEW t \in Threads, BarrierStep(t),
         ((Arrive(t) \/ Reset(t)) /\ UNCHANGED <<pc, node_n, chunk>>)
            \/ (Leave(t) /\ Past(t, pc[t]))
  PROVE  [GC!Next]_(GC!vars)
  <1> USE DEF poolVars
  <1>1. ZeroStays(t)
    BY DealWaits, DealLeaves
  <1>2. /\ UNCHANGED <<cgraph, n_threads_cur, n_barrier_passed, abort, ec>>
        /\ UNCHANGED <<product, computed>>
    BY DEF BarrierStep, Arrive, Reset, Leave
  <1>3. CASE (Arrive(t) \/ Reset(t)) /\ UNCHANGED <<pc, node_n, chunk>>
    <2>1. ~Free(t) /\ ~Free(t)'
      <3>1. stage[t] \in {"arrive", "reset"}
        BY <1>3 DEF Arrive, Reset
      <3>2. ~Free(t)
        BY <3>1 DEF Free
      <3>3. n_passed[t] = n_barrier_passed
        BY <3>2 DEF PoolInv, BarrierInv, CallersBelong
      <3>4. stage'[t] \in {"reset", "release", "spin"} /\ n_passed' = n_passed
        BY <1>3 DEF Arrive, Reset, PoolInv, TypeOK, BarrierTypeOK
      <3>5. QED
        BY <1>2, <3>2, <3>3, <3>4 DEF Free
    <2>2. \A u \in Threads \ {t} : Same(u)
      BY <1>3 DEF Arrive, Reset, Same, BarrierStep, PoolInv, TypeOK, BarrierTypeOK
    <2>3. Behind(t)' <=> Behind(t)
      BY <1>3, <2>1 DEF Behind, At
    <2>4. Busy(t) /\ Busy(t)'
      BY <1>3, <2>1 DEF Busy, At, BarrierStep, Computing
    <2>5. t = 0 => /\ pc[0] \notin {"kick1", "kick2"} /\ pc'[0] \notin {"kick1", "kick2"}
                   /\ Running' <=> Running
      BY <1>3, <2>4 DEF Running, BarrierStep, At, Barriers
    <2>6. QED
      BY <1>1, <1>2, <2>2, <2>3, <2>5, StepSame
  <1>4. CASE Leave(t) /\ Past(t, pc[t])
    <2>1. pc[t] \in Barriers /\ Free(t)
      BY <1>4 DEF BarrierStep, At, Leave, Free
    <2>2. \/ pc[t] = "mid" /\ PastMid(t)
          \/ pc[t] = "end" /\ PastEnd(t)
          \/ pc[t] = "final" /\ PastFinal(t)
      BY <1>4, <2>1, PastCases
    <2>3. \A u \in Threads \ {t} : Same(u)
      <3>1. \A u \in Threads \ {t} : stage'[u] = stage[u] /\ n_passed'[u] = n_passed[u]
        BY <1>4 DEF Leave, Out, PoolInv, BarrierInv, BarrierTypeOK
      <3>2. \A u \in Threads \ {t} : pc'[u] = pc[u] /\ node_n'[u] = node_n[u]
        BY <2>2 DEF PastMid, PastEnd, PastFinal, Go, PoolInv, TypeOK
      <3>3. QED
        BY <3>1, <3>2 DEF BarrierStep, Same
    <2>4. /\ pc[t] = "final" => pc'[t] \in {"caller", "top"}
          /\ pc[t] # "final" => pc'[t] \in {"chunk", "node"}
      BY <2>2 DEF PastMid, PastEnd, PastFinal, Go, PoolInv, TypeOK
    <2>5. ~Behind(t) /\ ~Behind(t)'
      BY <2>1, <2>4 DEF Behind, At, Barriers
    <2>6. t = 0 => /\ pc[0] \notin {"kick1", "kick2"} /\ pc'[0] \notin {"kick1", "kick2"}
                   /\ Running' <=> Running
      <3>1. CASE pc[t] = "final"
        BY <2>1, <2>4, <3>1 DEF Running, Busy, At, Computing, Barriers
      <3>2. CASE pc[t] # "final"
        BY <2>1, <2>4, <3>2 DEF Running, Busy, At, Computing, Barriers
      <3>3. QED
        BY <3>1, <3>2
    <2>7. QED
      BY <1>1, <1>2, <2>3, <2>5, <2>6, StepSame
  <1>5. QED
    BY <1>3, <1>4

\* All the threads are let go at once.
LEMMA ReleaseComputes ==
  ASSUME PoolInv, PoolInv', DealInv, NEW t \in Threads, BarrierStep(t), Release(t),
         Past(t, pc[t])
  PROVE  [GC!Next]_(GC!vars)
  <1> USE DEF poolVars
  <1>1. /\ Running
        /\ \A u \in Party : /\ u \in Threads /\ Busy(u) /\ ~Free(u)
                            /\ pc[u] = pc[t] /\ node_n[u] = node_n[t]
                            /\ PlaceOK(u) /\ Pos(u) = node_n[t]
        /\ \A u \in Threads : Free(u)'
        /\ n_threads_cur' = n_threads_cur
    BY ReleaseIs DEF BarrierStep, PoolInv
  <1>2. /\ \A u \in Threads \ {t} : pc'[u] = pc[u] /\ node_n'[u] = node_n[u]
        /\ \/ pc[t] = "mid" /\ pc'[t] = "chunk" /\ node_n'[t] = node_n[t]
           \/ pc[t] = "end" /\ pc'[t] = "node" /\ node_n'[t] = node_n[t] + 1
           \/ pc[t] = "final" /\ pc'[t] = IF t = 0 THEN "caller" ELSE "top"
    BY ReleaseMoves DEF PoolInv
  <1>3. /\ UNCHANGED <<product, computed, cgraph, abort, ec>>
        /\ GC!MayAbort
    BY DEF BarrierStep, GC!MayAbort
  <1>4. /\ 0 \in Party /\ 0 \in Threads /\ pc[0] = pc[t] /\ Busy(0) /\ ~Free(0)
        /\ Pos(0) = node_n[0] /\ PlaceOK(0) /\ node_n[0] = node_n[t] /\ Free(0)'
    BY <1>1, DealTypes
  <1>5. CASE pc[t] = "mid"
    <2>1. pc'[0] \in {"mid", "chunk"} /\ node_n'[0] = node_n[0]
      BY <1>2, <1>4, <1>5
    <2>2. Busy(0)' /\ Converted(0)'
      BY <1>4, <2>1 DEF Busy, Converted, At, Computing, Barriers
    <2>3. Dealing /\ Dealing' /\ Running'
      BY <1>4, <1>5, <2>2 DEF Dealing, Running, At
    <2>4. Pos(0)' = Pos(0)
      BY <1>4, <2>1, <2>2 DEF Pos, At
    <2>5. ~Operating /\ ~Operating'
      BY <2>3 DEF Operating
    <2>6. Parts' = Parts
      BY <1>1, <1>3, <2>3, <2>5, PartsSame
    <2>7. Phase' = Phase
      <3>1. (Running => Phase = "running")'
        BY PhaseIs, PTL
      <3>2. QED
        BY <1>1, <2>3, <3>1, PhaseIs
    <2>8. QED
      BY <1>1, <1>3, <2>4, <2>6, <2>7, MapSame
  <1>6. CASE pc[t] = "end"
    <2>1. \A u \in Party : pc'[u] \in {"end", "node"} /\ Behind(u) /\ Free(u)'
      BY <1>1, <1>2, <1>6 DEF Behind, At
    <2>2. \A u \in Party : ~Behind(u)'
      BY <2>1 DEF Behind, At
    <2>3. pc'[0] \in {"end", "node"}
          /\ node_n'[0] = IF pc'[0] = "end" THEN node_n[0] ELSE node_n[0] + 1
      BY <1>2, <1>4, <1>6
    <2>4. Busy(0)' /\ ~Dealing' /\ Running'
      BY <1>4, <2>3 DEF Busy, Dealing, Converted, Running, At, Computing, Barriers
    <2>5. Pos(0)' = Pos(0) + 1
      BY <1>4, <2>3, <2>4 DEF Pos, At
    <2>6. Pos(0) + 1 < Len(cgraph) /\ GC!Wanted
      <3>1. Pos(0) + 1 < Len(cgraph) /\ abort # Pos(0)
        BY <1>4, <1>6 DEF PlaceOK, At
      <3>2. Pos(0) \in Nat /\ Len(cgraph) \in Nat
        BY <1>4 DEF PoolInv, TypeOK
      <3>3. QED
        BY <3>1, <3>2 DEF GC!Wanted
    <2>7. GC!Whole
      BY <1>1, <1>4, <2>1, <2>6, WholeIs
    <2>8. QED
      BY <1>1, <1>3, <2>2, <2>4, <2>5, <2>6, <2>7, NodeEnds
  <1>7. CASE pc[t] = "final"
    <2>1. pc'[0] \in {"final", "caller"}
      BY <1>2, <1>4, <1>7
    <2>2. ~Running' /\ ~At(0, {"kick1", "kick2"})'
      BY <1>4, <2>1 DEF Running, Busy, At, Computing, Barriers
    <2>3. \A u \in Party : Behind(u)
      BY <1>1, <1>7 DEF Behind, At
    <2>4. GC!Wanted => Pos(0) + 1 = Len(cgraph)
      <3>1. \/ Pos(0) + 1 = Len(cgraph) /\ abort # Pos(0)
            \/ Pos(0) >= Len(cgraph)
            \/ abort = Pos(0)
        BY <1>4, <1>7 DEF PlaceOK, At
      <3>2. Pos(0) \in Nat /\ Len(cgraph) \in Nat
        BY <1>4 DEF PoolInv, TypeOK
      <3>3. QED
        BY <3>1, <3>2 DEF GC!Wanted
    <2>5. GC!Wanted => GC!Whole
      BY <1>1, <1>4, <2>3, WholeIs
    <2>6. QED
      BY <1>1, <1>3, <2>2, <2>4, <2>5, GraphEnds
  <1>8. QED
    BY <1>2, <1>5, <1>6, <1>7

----------------------------------------------------------------------------
(* The pool and the computation. *)

LEMMA ThreadComputes ==
  ASSUME PoolInv, PoolInv', DealInv, DealInv', NEW t \in Threads, ComputeThread(t)
  PROVE  [GC!Next]_(GC!vars)
  <1>1. CASE BarrierStep(t)
    BY <1>1, WaitComputes, ReleaseComputes DEF BarrierStep
  <1>2. QED
    BY <1>1, BeginComputes, OtherComputes, ConvertComputes, ChunkComputes, AfterComputes
       DEF ComputeThread

LEMMA StepComputes ==
  ASSUME PoolInv, PoolInv', DealInv, DealInv', [Next]_vars
  PROVE  [GC!Next]_(GC!vars)
  <1>1. CASE UNCHANGED vars
    BY <1>1, StutterComputes
  <1>2. CASE Next
    BY <1>1, <1>2, NextIs, CallerComputes, WorkerComputes, ThreadComputes
  <1>3. QED
    BY <1>1, <1>2

LEMMA InitComputes == Init => GC!Init
  <1> SUFFICES ASSUME Init PROVE GC!Init
    OBVIOUS
  <1>1. /\ pc[0] = "caller" /\ cgraph = <<>> /\ abort = -1 /\ ec = "success"
        /\ n_threads_cur \in Nat \ {0}
    BY ThreadsAre, NThreadsAssumption DEF Init, BarrierInit
  <1>2. ~Running /\ ~At(0, {"kick1", "kick2"})
    BY <1>1 DEF Running, Busy, At, Computing, Barriers
  <1>3. Phase = "idle" /\ Pos(0) = 0 /\ Parts = {}
    BY <1>2, PhaseIs, PoolInit, IdleIs
  <1>4. QED
    BY <1>1, <1>3 DEF GC!Init

\* The pool computes as its caller is promised, for any number of threads, any
\* graphs and any interleaving: no node is begun before the one before it is
\* whole (ggml-cpu.c:15198-15216).
THEOREM PoolImplementsGraphComputation ==
  ASSUME ~MayGrow
  PROVE  SafeSpec => ImplementsGraphComputation
  <1>1. Init => PoolInv /\ DealInv /\ GC!Init
    BY PoolInit, DealInit, InitComputes
  <1>2. PoolInv /\ DealInv /\ [Next]_vars => (PoolInv /\ DealInv)'
    BY PoolStep, DealStep
  <1>3. PoolInv /\ DealInv /\ (PoolInv /\ DealInv)' /\ [Next]_vars => [GC!Next]_(GC!vars)
    BY StepComputes
  <1>4. QED
    BY <1>1, <1>2, <1>3, PTL DEF SafeSpec, ImplementsGraphComputation, GC!Spec

\* Where a computation is, and that it remembers an abort.
Placed ==
    /\ Pos(0) \in Nat /\ cgraph \in Seq(Nodes)
    /\ Phase # "running" => Pos(0) = 0
    /\ Pos(0) = 0 \/ Pos(0) < Len(cgraph)
    /\ abort = -1 \/ ec = "aborted"

LEMMA PlacedInit == GC!Init => Placed
  BY DEF GC!Init, Placed

LEMMA PlacedStep ==
  ASSUME Placed, [GC!Next]_(GC!vars)
  PROVE  Placed'
  <1>1. CASE UNCHANGED GC!vars
    BY <1>1 DEF GC!vars, Placed
  <1>2. CASE GC!Prepare
    BY <1>2, ThreadPoolAssumption DEF GC!Prepare, Placed
  <1>3. CASE GC!SetThreads \/ GC!Begin
    BY <1>3 DEF GC!SetThreads, GC!Begin, Placed
  <1>4. CASE GC!Compute
    BY <1>4 DEF GC!Compute, GC!MayAbort, Placed
  <1>5. CASE GC!NextNode
    BY <1>5 DEF GC!NextNode, GC!MayAbort, Placed
  <1>6. CASE GC!Finish
    BY <1>6 DEF GC!Finish, GC!MayAbort, Placed
  <1>7. QED
    BY <1>1, <1>2, <1>3, <1>4, <1>5, <1>6 DEF GC!Next

LEMMA WholeReturned ==
  ASSUME Placed, [GC!Next]_(GC!vars),
         Phase = "running", Phase' # "running", ec' = "success"
  PROVE  cgraph = <<>> \/ (GC!Whole /\ Pos(0) + 1 = Len(cgraph))
  <1>1. GC!Finish
    BY DEF GC!Next, GC!vars, GC!Prepare, GC!SetThreads, GC!Begin, GC!Compute, GC!NextNode
  <1>2. ec = "success"
    BY <1>1 DEF GC!Finish, GC!MayAbort
  <1>3. abort # Pos(0)
    BY <1>2 DEF Placed
  <1>4. CASE ~GC!Wanted
    <2>1. Pos(0) >= Len(cgraph)
      BY <1>3, <1>4 DEF GC!Wanted, Placed
    <2>2. Len(cgraph) = 0
      BY <2>1 DEF Placed
    <2>3. QED
      BY <2>2 DEF Placed
  <1>5. QED
    BY <1>1, <1>4 DEF GC!Finish

\* A graph is not returned as a success unless it was computed to the last entry
\* of the last node, whatever is asked of the pool and whenever the caller
\* aborts (ggml-cpu.c:15199-15207, :15500).
THEOREM PoolSuccessIsWhole ==
  ASSUME ~MayGrow
  PROVE  SafeSpec => SuccessIsWhole
  <1>1. SafeSpec => GC!Spec
    BY PoolImplementsGraphComputation DEF ImplementsGraphComputation
  <1>2. GC!Init => Placed
    BY PlacedInit
  <1>3. Placed /\ [GC!Next]_(GC!vars) => Placed'
    BY PlacedStep
  <1>4. Placed /\ [GC!Next]_(GC!vars) =>
            [Phase = "running" /\ Phase' # "running" /\ ec' = "success" =>
                cgraph = <<>> \/ (GC!Whole /\ Pos(0) + 1 = Len(cgraph))]_(GC!vars)
    BY WholeReturned
  <1>5. QED
    BY <1>1, <1>2, <1>3, <1>4, PTL DEF GC!Spec, SuccessIsWhole, GC!SuccessIsWhole
=============================================================================
