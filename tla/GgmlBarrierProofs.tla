------------------------- MODULE GgmlBarrierProofs -------------------------
(***************************************************************************)
(* ggml_barrier is a barrier, for any number of threads.                   *)
(***************************************************************************)
EXTENDS GgmlBarrier, FiniteSetTheorems, TLAPS

Party == 0 .. n_threads_cur - 1

\* The thread that found itself to be the last and has not let the others go.
Last(t) == stage[t] \in {"reset", "release"}

\* A thread that has not been let go is one of the party, it counts with the
\* size the party has, and it waits for the counter to move from where it is.
CallersBelong ==
    \A t \in Threads : ~Free(t) =>
        /\ t \in Party
        /\ n_threads[t] = n_threads_cur
        /\ n_passed[t] = n_barrier_passed

\* A thread that has been let go waits for a value of the past.
CounterGrows == \A t \in Threads : n_passed[t] <= n_barrier_passed

\* While nobody is the last, n_barrier counts those who wait, and somebody is
\* missing; when somebody is, nobody is missing.
CountIsRight ==
    /\ (\A t \in Threads : ~Last(t)) =>
          n_barrier = Cardinality(Waiting) /\ n_barrier < n_threads_cur
    /\ \A t \in Threads : Last(t) => Waiting = Party
    /\ \A t \in Threads : stage[t] = "release" => n_barrier = 0

OneLast == \A t, u \in Threads : Last(t) /\ Last(u) => t = u

BarrierInv ==
    /\ BarrierTypeOK
    /\ CallersBelong
    /\ CounterGrows
    /\ CountIsRight
    /\ OneLast

----------------------------------------------------------------------------

LEMMA PartyFinite ==
    ASSUME BarrierTypeOK
    PROVE  /\ Party \subseteq Threads
           /\ IsFiniteSet(Party)
           /\ Cardinality(Party) = n_threads_cur
  <1>1. n_threads_cur \in 1 .. NThreads /\ NThreads \in Nat
    BY NThreadsAssumption DEF BarrierTypeOK
  <1>2. IsFiniteSet(0 .. n_threads_cur - 1)
    BY <1>1, FS_Interval
  <1>3. Cardinality(0 .. n_threads_cur - 1) = n_threads_cur
    BY <1>1, FS_Interval
  <1>4. QED
    BY <1>1, <1>2, <1>3 DEF Party, Threads

LEMMA WaitingFinite ==
    ASSUME BarrierTypeOK, CallersBelong
    PROVE  /\ Waiting \subseteq Party
           /\ IsFiniteSet(Waiting)
  <1>1. Waiting \subseteq Party
    BY DEF Waiting, CallersBelong
  <1>2. QED
    BY <1>1, PartyFinite, FS_Subset

LEMMA InitInv == BarrierInit => BarrierInv
  <1> SUFFICES ASSUME BarrierInit PROVE BarrierInv
    OBVIOUS
  <1>1. BarrierTypeOK
    BY NThreadsAssumption DEF BarrierInit, BarrierTypeOK
  <1>2. \A t \in Threads : Free(t) /\ ~Last(t)
    BY DEF BarrierInit, Free, Last
  <1>3. Waiting = {}
    BY <1>2 DEF Waiting
  <1>4. CallersBelong /\ CounterGrows /\ OneLast
    BY <1>2 DEF CallersBelong, CounterGrows, OneLast, BarrierInit
  <1>5. CountIsRight
    BY <1>2, <1>3, FS_EmptySet, NThreadsAssumption DEF CountIsRight, BarrierInit, Last
  <1>6. QED
    BY <1>1, <1>4, <1>5 DEF BarrierInv

LEMMA EnterKeeps ==
    ASSUME BarrierInv, NEW t \in Threads, t < n_threads_cur, Enter(t)
    PROVE  BarrierInv' /\ Waiting' = Waiting
  <1> USE DEF BarrierInv
  <1>1. BarrierTypeOK'
    BY DEF BarrierTypeOK, Enter
  <1>2. t \in Party /\ Free(t) /\ ~Last(t) /\ Party' = Party
    <2>1. Free(t) /\ ~Last(t) /\ Party' = Party
      BY DEF Party, Enter, Free, Last
    <2>2. t \in Nat /\ n_threads_cur \in Int
      BY NThreadsAssumption DEF Threads, BarrierTypeOK
    <2>3. t \in Party
      BY <2>2 DEF Party
    <2>4. QED
      BY <2>1, <2>3
  <1>3. /\ stage'[t] = "arrive" /\ n_passed'[t] = n_barrier_passed
        /\ n_threads'[t] = n_threads_cur
        /\ \A u \in Threads \ {t} : stage'[u] = stage[u] /\ n_passed'[u] = n_passed[u]
                                    /\ n_threads'[u] = n_threads[u]
    BY DEF BarrierTypeOK, Enter
  <1>4. \A u \in Threads \ {t} : Free(u)' = Free(u) /\ Last(u)' = Last(u)
    BY <1>3 DEF Free, Last, Enter
  <1>5. ~Free(t)' /\ ~Last(t)'
    BY <1>3 DEF Free, Last
  <1>6. Waiting' = Waiting
    BY <1>2, <1>3, <1>4 DEF Waiting
  <1>7. CallersBelong'
    BY <1>2, <1>3, <1>4 DEF CallersBelong, Enter
  <1>8. CounterGrows'
    BY <1>3 DEF CounterGrows, Enter, BarrierTypeOK
  <1>9. CountIsRight'
    BY <1>2, <1>3, <1>4, <1>5, <1>6 DEF CountIsRight, Enter
  <1>10. OneLast'
    BY <1>4, <1>5 DEF OneLast
  <1>11. QED
    BY <1>1, <1>6, <1>7, <1>8, <1>9, <1>10

LEMMA ArriveKeeps ==
    ASSUME BarrierInv, NEW t \in Threads, Arrive(t)
    PROVE  BarrierInv' /\ t \in Party \ Waiting /\ Waiting' = Waiting \cup {t}
           /\ Party' = Party
  <1> USE DEF BarrierInv
  <1>1. /\ ~Free(t) /\ ~Last(t) /\ t \in Party \ Waiting
        /\ n_threads[t] = n_threads_cur /\ n_passed[t] = n_barrier_passed
        /\ Party' = Party
    BY DEF Arrive, Free, Last, Waiting, CallersBelong, Party
  <1>2. \A u \in Threads : ~Last(u)
    BY <1>1 DEF CountIsRight
  <1>3. n_barrier = Cardinality(Waiting) /\ n_barrier < n_threads_cur
    BY <1>2 DEF CountIsRight
  <1>4. /\ stage'[t] = IF n_barrier = n_threads_cur - 1 THEN "reset" ELSE "spin"
        /\ n_barrier' = n_barrier + 1
        /\ \A u \in Threads \ {t} : stage'[u] = stage[u]
        /\ UNCHANGED <<n_threads_cur, n_barrier_passed, n_threads, n_passed>>
    BY <1>1 DEF Arrive, BarrierTypeOK
  <1>5. BarrierTypeOK'
    <2>1. n_barrier' \in 0 .. NThreads
      BY <1>3, <1>4, NThreadsAssumption DEF BarrierTypeOK
    <2>2. QED
      BY <2>1 DEF Arrive, BarrierTypeOK
  <1>6. \A u \in Threads \ {t} : Free(u)' = Free(u) /\ Last(u)' = Last(u)
    BY <1>4 DEF Free, Last
  <1>7. ~Free(t)'
    BY <1>1, <1>4 DEF Free
  <1>8. Waiting' = Waiting \cup {t}
    <2>1. t \in Waiting'
      BY <1>4, <1>7 DEF Waiting
    <2>2. \A u \in Threads \ {t} : u \in Waiting' <=> u \in Waiting
      BY <1>4, <1>6 DEF Waiting
    <2>3. Waiting \subseteq Threads /\ Waiting' \subseteq Threads
      BY DEF Waiting
    <2>4. QED
      BY <2>1, <2>2, <2>3
  <1>9. Cardinality(Waiting') = n_barrier' /\ IsFiniteSet(Waiting')
    BY <1>1, <1>3, <1>4, <1>8, WaitingFinite, FS_AddElement
  <1>10. CallersBelong'
    BY <1>1, <1>4, <1>6 DEF CallersBelong
  <1>11. CounterGrows'
    BY <1>4 DEF CounterGrows
  <1>12. CountIsRight'
    <2>1. CASE n_barrier = n_threads_cur - 1
      <3>1. Cardinality(Waiting') = Cardinality(Party)
        BY <1>4, <1>9, <2>1, PartyFinite DEF BarrierTypeOK
      <3>2. Waiting' \subseteq Party
        BY <1>1, <1>8, WaitingFinite
      <3>3. Waiting' = Party
        BY <3>1, <3>2, PartyFinite, FS_Subset
      <3>4. stage'[t] = "reset" /\ Last(t)'
        BY <1>4, <2>1 DEF Last
      <3>5. \A u \in Threads : stage'[u] # "release"
        BY <1>2, <1>4, <3>4 DEF Last
      <3>6. QED
        BY <1>1, <3>3, <3>4, <3>5 DEF CountIsRight
    <2>2. CASE n_barrier # n_threads_cur - 1
      <3>1. \A u \in Threads : ~Last(u)'
        BY <1>2, <1>4, <1>6, <2>2 DEF Last
      <3>2. n_barrier' < n_threads_cur'
        BY <1>3, <1>4, <2>2 DEF BarrierTypeOK
      <3>3. QED
        BY <1>9, <3>1, <3>2 DEF CountIsRight, Last
    <2>3. QED
      BY <2>1, <2>2
  <1>13. OneLast'
    BY <1>2, <1>6 DEF OneLast
  <1>14. QED
    BY <1>1, <1>5, <1>8, <1>10, <1>11, <1>12, <1>13

LEMMA ResetKeeps ==
    ASSUME BarrierInv, NEW t \in Threads, Reset(t)
    PROVE  BarrierInv' /\ Waiting' = Waiting /\ Party' = Party
  <1> USE DEF BarrierInv
  <1>1. Last(t) /\ Party' = Party
    BY DEF Reset, Last, Party
  <1>2. /\ stage'[t] = "release" /\ n_barrier' = 0
        /\ \A u \in Threads \ {t} : stage'[u] = stage[u]
        /\ UNCHANGED <<n_threads_cur, n_barrier_passed, n_threads, n_passed>>
    BY DEF Reset, BarrierTypeOK
  <1>3. BarrierTypeOK'
    BY NThreadsAssumption DEF Reset, BarrierTypeOK
  <1>4. \A u \in Threads : Free(u)' = Free(u) /\ Last(u)' = Last(u)
    BY <1>2 DEF Free, Last, Reset
  <1>5. Waiting' = Waiting
    <2>1. \A u \in Threads : stage'[u] = "arrive" <=> stage[u] = "arrive"
      BY <1>2 DEF Reset
    <2>2. QED
      BY <1>4, <2>1 DEF Waiting
  <1>6. CallersBelong' /\ CounterGrows'
    BY <1>1, <1>2, <1>4 DEF CallersBelong, CounterGrows
  <1>7. CountIsRight'
    BY <1>1, <1>2, <1>4, <1>5 DEF CountIsRight
  <1>8. OneLast'
    BY <1>4 DEF OneLast
  <1>9. QED
    BY <1>1, <1>3, <1>5, <1>6, <1>7, <1>8

LEMMA ReleaseKeeps ==
    ASSUME BarrierInv, NEW t \in Threads, Release(t)
    PROVE  BarrierInv' /\ Waiting = Party /\ Waiting' = {} /\ Party' = Party
  <1> USE DEF BarrierInv
  <1>1. Last(t) /\ Waiting = Party /\ n_barrier = 0 /\ Party' = Party
    BY DEF Release, Last, Party, CountIsRight
  <1>2. /\ stage'[t] = "out" /\ n_passed'[t] = 0
        /\ n_barrier_passed' = n_barrier_passed + 1
        /\ \A u \in Threads \ {t} : stage'[u] = stage[u] /\ n_passed'[u] = n_passed[u]
        /\ UNCHANGED <<n_threads_cur, n_barrier>>
    BY DEF Release, Out, BarrierTypeOK
  <1>3. BarrierTypeOK'
    BY NThreadsAssumption DEF Release, Out, BarrierTypeOK
  <1>4. \A u \in Threads \ {t} : ~Last(u)
    BY <1>1 DEF OneLast
  <1>5. \A u \in Threads : Free(u)'
    <2> SUFFICES ASSUME NEW u \in Threads PROVE Free(u)'
      OBVIOUS
    <2>1. CASE u = t
      BY <1>2, <2>1 DEF Free
    <2>2. CASE u # t /\ stage[u] = "out"
      BY <1>2, <2>2 DEF Free
    <2>3. CASE u # t /\ stage[u] = "spin"
      <3>1. n_passed[u] <= n_barrier_passed
        BY DEF CounterGrows
      <3>2. n_passed'[u] # n_barrier_passed'
        BY <1>2, <2>3, <3>1 DEF BarrierTypeOK
      <3>3. QED
        BY <1>2, <2>3, <3>2 DEF Free
    <2>4. stage[u] # "arrive"
      <3>1. SUFFICES ASSUME stage[u] = "arrive" PROVE FALSE
        OBVIOUS
      <3>2. ~Free(u) /\ u \notin Waiting
        BY <3>1 DEF Free, Waiting
      <3>3. u \in Party
        BY <3>2 DEF CallersBelong
      <3>4. QED
        BY <1>1, <3>2, <3>3
    <2>5. QED
      BY <1>4, <2>1, <2>2, <2>3, <2>4 DEF Last, BarrierTypeOK
  <1>6. Waiting' = {}
    BY <1>5 DEF Waiting
  <1>7. CallersBelong'
    BY <1>5 DEF CallersBelong
  <1>8. CounterGrows'
    BY <1>2 DEF CounterGrows, BarrierTypeOK
  <1>9. \A u \in Threads : ~Last(u)'
    BY <1>5 DEF Free, Last
  <1>10. CountIsRight'
    BY <1>1, <1>2, <1>6, <1>9, FS_EmptySet DEF CountIsRight, Last, BarrierTypeOK
  <1>11. OneLast'
    BY <1>9 DEF OneLast
  <1>12. QED
    BY <1>1, <1>3, <1>6, <1>7, <1>8, <1>10, <1>11

LEMMA LeaveKeeps ==
    ASSUME BarrierInv, NEW t \in Threads, Leave(t)
    PROVE  BarrierInv' /\ Waiting' = Waiting /\ Party' = Party
  <1> USE DEF BarrierInv
  <1>1. Free(t) /\ ~Last(t) /\ Party' = Party
    BY DEF Leave, Free, Last, Party
  <1>2. /\ stage'[t] = "out" /\ n_passed'[t] = 0
        /\ \A u \in Threads \ {t} : stage'[u] = stage[u] /\ n_passed'[u] = n_passed[u]
                                    /\ n_threads'[u] = n_threads[u]
        /\ UNCHANGED <<n_threads_cur, n_barrier, n_barrier_passed>>
    BY DEF Leave, Out, BarrierTypeOK
  <1>3. BarrierTypeOK'
    BY NThreadsAssumption DEF Leave, Out, BarrierTypeOK
  <1>4. \A u \in Threads : Free(u)' = Free(u) /\ Last(u)' = Last(u)
    BY <1>1, <1>2 DEF Free, Last
  <1>5. Waiting' = Waiting
    <2>1. \A u \in Threads : ~Free(u) => stage'[u] = stage[u]
      BY <1>1, <1>2
    <2>2. QED
      BY <1>4, <2>1 DEF Waiting
  <1>6. CallersBelong'
    BY <1>1, <1>2, <1>4 DEF CallersBelong
  <1>7. CounterGrows'
    BY <1>2 DEF CounterGrows, BarrierTypeOK
  <1>8. CountIsRight'
    <2>1. \A u \in Threads : stage'[u] = "release" => stage[u] = "release"
      BY <1>2
    <2>2. QED
      BY <1>1, <1>2, <1>4, <1>5, <2>1 DEF CountIsRight
  <1>9. OneLast'
    BY <1>4 DEF OneLast
  <1>10. QED
    BY <1>1, <1>3, <1>5, <1>6, <1>7, <1>8, <1>9

LEMMA SetThreadsKeeps ==
    ASSUME BarrierInv, NEW n \in 1 .. NThreads, \A t \in Threads : Free(t),
           SetThreads(n)
    PROVE  BarrierInv' /\ Waiting = {} /\ Waiting' = {}
  <1> USE DEF BarrierInv
  <1>1. UNCHANGED <<n_barrier, n_barrier_passed, stage, n_threads, n_passed>>
        /\ n_threads_cur' = n
    BY DEF SetThreads
  <1>2. BarrierTypeOK'
    BY <1>1 DEF BarrierTypeOK
  <1>3. \A t \in Threads : Free(t)' /\ ~Last(t) /\ ~Last(t)'
    BY <1>1 DEF Free, Last
  <1>4. Waiting = {} /\ Waiting' = {}
    BY <1>3 DEF Waiting
  <1>5. CallersBelong' /\ CounterGrows' /\ OneLast'
    BY <1>1, <1>3 DEF CallersBelong, CounterGrows, OneLast
  <1>6. n_barrier = 0
    BY <1>3, <1>4, FS_EmptySet DEF CountIsRight
  <1>7. CountIsRight'
    BY <1>1, <1>3, <1>4, <1>6, FS_EmptySet, NThreadsAssumption DEF CountIsRight, Last
  <1>8. QED
    BY <1>2, <1>4, <1>5, <1>7

LEMMA BarrierInvStep ==
    ASSUME BarrierInv, [BarrierNext]_barrierVars
    PROVE  BarrierInv'
  <1>1. ASSUME NEW t \in Threads, t < n_threads_cur, Enter(t) PROVE BarrierInv'
    BY <1>1, EnterKeeps
  <1>2. ASSUME NEW t \in Threads, Arrive(t) PROVE BarrierInv'
    BY <1>2, ArriveKeeps
  <1>3. ASSUME NEW t \in Threads, Reset(t) PROVE BarrierInv'
    BY <1>3, ResetKeeps
  <1>4. ASSUME NEW t \in Threads, Release(t) PROVE BarrierInv'
    BY <1>4, ReleaseKeeps
  <1>5. ASSUME NEW t \in Threads, Leave(t) PROVE BarrierInv'
    BY <1>5, LeaveKeeps
  <1>6. ASSUME NEW n \in 1 .. NThreads, \A t \in Threads : Free(t), SetThreads(n)
        PROVE  BarrierInv'
    BY <1>6, SetThreadsKeeps
  <1>7. CASE UNCHANGED barrierVars
    BY <1>7 DEF barrierVars, BarrierInv, BarrierTypeOK, CallersBelong, CounterGrows,
       CountIsRight, OneLast, Waiting, Free, Last, Party
  <1>8. QED
    BY <1>1, <1>2, <1>3, <1>4, <1>5, <1>6, <1>7 DEF BarrierNext

\* The invariant of the barrier: the shared counter counts the threads that
\* wait, and whoever finds itself to be the last one is (ggml-cpu.c:2463-2473).
THEOREM BarrierInvariant == BarrierSpec => []BarrierInv
  BY InitInv, BarrierInvStep, PTL DEF BarrierSpec

LEMMA StepRefines ==
    ASSUME BarrierInv, [BarrierNext]_barrierVars
    PROVE  [RV!Next]_RV!vars
  <1> USE DEF RV!Next, RV!vars, RV!Arrive, RV!Open, RV!Regroup
  <1>1. ASSUME NEW t \in Threads, t < n_threads_cur, Enter(t)
        PROVE  UNCHANGED RV!vars
    BY <1>1, EnterKeeps DEF Enter
  <1>2. ASSUME NEW t \in Threads, Arrive(t) PROVE RV!Arrive(t)
    BY <1>2, ArriveKeeps DEF Party
  <1>3. ASSUME NEW t \in Threads, Reset(t) PROVE UNCHANGED RV!vars
    BY <1>3, ResetKeeps DEF Party
  <1>4. ASSUME NEW t \in Threads, Release(t) PROVE RV!Open
    BY <1>4, ReleaseKeeps DEF Party
  <1>5. ASSUME NEW t \in Threads, Leave(t) PROVE UNCHANGED RV!vars
    BY <1>5, LeaveKeeps DEF Party
  <1>6. ASSUME NEW n \in 1 .. NThreads, \A t \in Threads : Free(t), SetThreads(n)
        PROVE  RV!Regroup
    <2>1. n_threads_cur' = n
      BY <1>6 DEF SetThreads
    <2>2. 0 .. n - 1 \in SUBSET Threads
      BY NThreadsAssumption DEF Threads
    <2>3. QED
      BY <1>6, <2>1, <2>2, SetThreadsKeeps
  <1>7. CASE UNCHANGED barrierVars
    BY <1>7 DEF barrierVars, Waiting, Free
  <1>8. QED
    BY <1>1, <1>2, <1>3, <1>4, <1>5, <1>6, <1>7 DEF BarrierNext

\* ggml_barrier keeps the promise of a barrier for any number of threads, and
\* for parties whose size changes from graph to graph (ggml-cpu.c:2451-2487).
THEOREM BarrierImplementsRendezvous == BarrierSpec => ImplementsRendezvous
  <1>1. BarrierInit => RV!Init
    <2> SUFFICES ASSUME BarrierInit PROVE RV!Init
      OBVIOUS
    <2>1. Waiting = {}
      BY DEF BarrierInit, Waiting, Free
    <2>2. 0 .. n_threads_cur - 1 \in SUBSET Threads
      BY DEF BarrierInit, Threads
    <2>3. QED
      BY <2>1, <2>2 DEF RV!Init
  <1>2. QED
    BY <1>1, StepRefines, BarrierInvariant, PTL
       DEF ImplementsRendezvous, RV!Spec, BarrierSpec
=============================================================================
