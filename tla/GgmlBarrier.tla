----------------------------- MODULE GgmlBarrier -----------------------------
(***************************************************************************)
(* ggml_barrier (ggml-cpu.c): the barrier of the threads that compute one  *)
(* graph of a transcription.  Two counters, no lock: the last thread to    *)
(* add itself to n_barrier resets it and then moves n_barrier_passed, for  *)
(* which the others spin.                                                  *)
(*                                                                         *)
(* One action per access to a shared counter; the loads of n_threads_cur   *)
(* and of n_barrier_passed at the top are one step, since neither changes  *)
(* while a thread of the party is outside the barrier.  Atomics are taken  *)
(* to be sequentially consistent.                                          *)
(***************************************************************************)
EXTENDS Integers, FiniteSets

CONSTANT NThreads           \* threadpool->n_threads_max

ASSUME NThreadsAssumption == NThreads \in Nat \ {0}

Threads == 0 .. NThreads - 1

VARIABLES
    n_threads_cur,          \* the threads of the current graph
    n_barrier,              \* those that have added themselves
    n_barrier_passed,       \* the barriers passed (not wrapped at 2^32 here)
    stage,                  \* where in ggml_barrier a thread is
    n_threads, n_passed     \* its local variables

barrierVars ==
    <<n_threads_cur, n_barrier, n_barrier_passed, stage, n_threads, n_passed>>

BarrierTypeOK ==
    /\ n_threads_cur \in 1 .. NThreads
    /\ n_barrier \in 0 .. NThreads
    /\ n_barrier_passed \in Nat
    /\ stage \in [Threads -> {"out", "arrive", "reset", "release", "spin"}]
    /\ n_threads \in [Threads -> 1 .. NThreads]
    /\ n_passed \in [Threads -> Nat]

BarrierInit ==
    /\ n_threads_cur = NThreads
    /\ n_barrier = 0
    /\ n_barrier_passed = 0
    /\ stage = [t \in Threads |-> "out"]
    /\ n_threads = [t \in Threads |-> 1]
    /\ n_passed = [t \in Threads |-> 0]

----------------------------------------------------------------------------

\* A lone thread does not wait.
Alone == n_threads_cur = 1

Enter(t) ==
    /\ stage[t] = "out"
    /\ ~Alone
    /\ n_threads' = [n_threads EXCEPT ![t] = n_threads_cur]
    /\ n_passed' = [n_passed EXCEPT ![t] = n_barrier_passed]
    /\ stage' = [stage EXCEPT ![t] = "arrive"]
    /\ UNCHANGED <<n_threads_cur, n_barrier, n_barrier_passed>>

\* Mutant: the last thread is taken to be one too early.
ArriveOneShort(t) ==
    /\ stage[t] = "arrive"
    /\ n_barrier' = n_barrier + 1
    /\ stage' = [stage EXCEPT ![t] =
           IF n_barrier' >= n_threads[t] - 1 THEN "reset" ELSE "spin"]
    /\ UNCHANGED <<n_threads_cur, n_barrier_passed, n_threads, n_passed>>

Arrive(t) ==
    /\ stage[t] = "arrive"
    /\ n_barrier' = n_barrier + 1
    /\ stage' = [stage EXCEPT ![t] =
           IF n_barrier = n_threads[t] - 1 THEN "reset" ELSE "spin"]
    /\ UNCHANGED <<n_threads_cur, n_barrier_passed, n_threads, n_passed>>

\* Mutant: the counter is left for the next barrier.
ResetForgotten(t) ==
    /\ stage[t] = "reset"
    /\ stage' = [stage EXCEPT ![t] = "release"]
    /\ UNCHANGED <<n_threads_cur, n_barrier, n_barrier_passed, n_threads, n_passed>>

Reset(t) ==
    /\ stage[t] = "reset"
    /\ n_barrier' = 0
    /\ stage' = [stage EXCEPT ![t] = "release"]
    /\ UNCHANGED <<n_threads_cur, n_barrier_passed, n_threads, n_passed>>

\* ggml_barrier returns: its local variables end.
Out(t) ==
    /\ stage' = [stage EXCEPT ![t] = "out"]
    /\ n_threads' = [n_threads EXCEPT ![t] = 1]
    /\ n_passed' = [n_passed EXCEPT ![t] = 0]

Release(t) ==
    /\ stage[t] = "release"
    /\ n_barrier_passed' = n_barrier_passed + 1
    /\ Out(t)
    /\ UNCHANGED <<n_threads_cur, n_barrier>>

\* The spinning thread sees the counter move.
Leave(t) ==
    /\ stage[t] = "spin"
    /\ n_barrier_passed # n_passed[t]
    /\ Out(t)
    /\ UNCHANGED <<n_threads_cur, n_barrier, n_barrier_passed>>

\* A thread that has been let go, though it may not have noticed.
Free(t) == stage[t] = "out" \/ (stage[t] = "spin" /\ n_barrier_passed # n_passed[t])

\* What a caller may do between two graphs.
SetThreads(n) ==
    /\ n_threads_cur' = n
    /\ UNCHANGED <<n_barrier, n_barrier_passed, stage, n_threads, n_passed>>

BarrierNext ==
    \/ \E t \in Threads :
           \/ t < n_threads_cur /\ Enter(t)
           \/ Arrive(t) \/ Reset(t) \/ Release(t) \/ Leave(t)
    \/ \E n \in 1 .. NThreads : (\A t \in Threads : Free(t)) /\ SetThreads(n)

BarrierSpec == BarrierInit /\ [][BarrierNext]_barrierVars

----------------------------------------------------------------------------

\* The threads that have arrived and have not been let go.
Waiting == {t \in Threads : ~Free(t) /\ stage[t] # "arrive"}

RV == INSTANCE Rendezvous
          WITH party <- 0 .. n_threads_cur - 1, waiting <- Waiting

\* Nobody gets past the barrier before every thread of the graph has reached
\* it, and a thread that is late to notice neither holds up the next barrier
\* nor slips through it (ggml-cpu.c:2451-2487).
ImplementsRendezvous == RV!Spec
=============================================================================
