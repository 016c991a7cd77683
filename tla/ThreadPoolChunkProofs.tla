---------------------- MODULE ThreadPoolChunkProofs ----------------------
(***************************************************************************)
(* The entries of a matrix product are computed once each, for any shape,  *)
(* any chunk sizes, any number of threads and any order in which they take *)
(* the chunks.  First the cutting, which is arithmetic; then the dealing.  *)
(***************************************************************************)
EXTENDS ThreadPoolProofs

----------------------------------------------------------------------------
(* Quotients. *)

LEMMA DivMod ==
  ASSUME NEW a \in Nat, NEW b \in Nat \ {0}
  PROVE  /\ a \div b \in Nat /\ (a % b) \in 0 .. b - 1
         /\ a = b * (a \div b) + (a % b)
  OBVIOUS

LEMMA TimesNat ==
  ASSUME NEW a \in Nat, NEW b \in Nat
  PROVE  a * b \in Nat
  OBVIOUS

LEMMA TimesLess ==
  ASSUME NEW a \in Nat, NEW b \in Nat, NEW d \in Nat, a < b
  PROVE  d * a + d <= d * b
  OBVIOUS

\* Where a pair of coordinates is among n columns, and back.
LEMMA PairUp ==
  ASSUME NEW n \in Nat \ {0}, NEW i \in 0 .. n - 1, NEW j \in Nat
  PROVE  /\ n * j + i \in Nat
         /\ (n * j + i) % n = i
         /\ (n * j + i) \div n = j
  OBVIOUS

LEMMA DivLess ==
  ASSUME NEW a \in Nat, NEW b \in Nat \ {0}, NEW n \in Nat, a < b * n
  PROVE  a \div b \in 0 .. n - 1
  OBVIOUS

LEMMA CeilIs ==
  ASSUME NEW a \in Nat, NEW b \in Nat \ {0}
  PROVE  CeilDiv(a, b) \in Nat /\ a <= b * CeilDiv(a, b)
  <1>1. a + b - 1 \in Nat
    OBVIOUS
  <1>2. PICK q \in Nat, r \in 0 .. b - 1 :
            q = (a + b - 1) \div b /\ a + b - 1 = b * q + r
    BY <1>1, DivMod
  <1>3. CeilDiv(a, b) = q
    BY <1>2 DEF CeilDiv
  <1>4. b * q \in Nat
    BY TimesNat
  <1>5. QED
    BY <1>2, <1>3, <1>4

----------------------------------------------------------------------------
(* The cutting. *)

Products == [nr0 : Nat, nr1 : Nat, nth : 1 .. NThreads]

LEMMA GridIs ==
  ASSUME NEW p \in Products
  PROVE  Grid(p).n0 \in Nat \ {0} /\ Grid(p).n1 \in Nat \ {0}
  <1> DEFINE size == IF p.nr0 = 1 \/ p.nr1 = 1 THEN VectorChunkSize ELSE ChunkSize
             n0 == CeilDiv(p.nr0, size)
             n1 == CeilDiv(p.nr1, size)
             least == p.nth * ChunksPerThread
  <1>1. size \in Nat \ {0} /\ p.nr0 \in Nat /\ p.nr1 \in Nat
        /\ p.nth \in Nat \ {0} /\ ChunksPerThread \in Nat \ {0}
    BY ThreadPoolAssumption, NThreadsAssumption DEF Products
  <1>2. n0 \in Nat /\ n1 \in Nat
    BY <1>1, CeilIs
  <1>3. n0 * n1 \in Nat /\ least \in Nat /\ least > 0
    BY <1>1, <1>2
  <1>4. CASE n0 * n1 >= least
    <2>1. Grid(p) = [n0 |-> n0, n1 |-> n1]
      BY <1>3, <1>4 DEF Grid
    <2>2. n0 # 0 /\ n1 # 0
      BY <1>2, <1>3, <1>4
    <2>3. QED
      BY <1>2, <2>1, <2>2
  <1>5. CASE n0 * n1 < least
    <2>1. \/ Grid(p) = [n0 |-> p.nth, n1 |-> 1]
          \/ Grid(p) = [n0 |-> 1, n1 |-> p.nth]
      BY <1>1, <1>3, <1>5 DEF Grid
    <2>2. QED
      BY <1>1, <2>1
  <1>6. QED
    BY <1>3, <1>4, <1>5

LEMMA TotalIs ==
  ASSUME NEW p \in Products
  PROVE  Total(p) \in Nat
  BY GridIs, TimesNat DEF Total

\* Strip a of those of width d that m rows or columns are cut into.
Strip(d, m, a) == d * a .. Least(d * a + d, m) - 1

\* The size of a tile.
Width0(p) == CeilDiv(p.nr0, Grid(p).n0)
Width1(p) == CeilDiv(p.nr1, Grid(p).n1)

LEMMA WidthsAre ==
  ASSUME NEW p \in Products
  PROVE  /\ p.nr0 \in Nat /\ p.nr1 \in Nat
         /\ Width0(p) \in Nat /\ p.nr0 <= Grid(p).n0 * Width0(p)
         /\ Width1(p) \in Nat /\ p.nr1 <= Grid(p).n1 * Width1(p)
  BY GridIs, CeilIs DEF Products, Width0, Width1

\* Where a chunk lies.
LEMMA TileIs ==
  ASSUME NEW p \in Products, NEW c
  PROVE  Tile(p, c) = Strip(Width0(p), p.nr0, c % Grid(p).n0)
                      \X Strip(Width1(p), p.nr1, c \div Grid(p).n0)
  BY Zenon DEF Tile, Strip, Width0, Width1

LEMMA ChunkIs ==
  ASSUME NEW p \in Products, NEW c \in 0 .. Total(p) - 1
  PROVE  /\ c % Grid(p).n0 \in 0 .. Grid(p).n0 - 1
         /\ c \div Grid(p).n0 \in 0 .. Grid(p).n1 - 1
         /\ c = Grid(p).n0 * (c \div Grid(p).n0) + (c % Grid(p).n0)
  <1>1. PICK n0, n1 \in Nat \ {0} : n0 = Grid(p).n0 /\ n1 = Grid(p).n1
    BY GridIs
  <1>2. c \in Nat /\ c < n0 * n1
    BY <1>1, TotalIs DEF Total
  <1>3. /\ c % n0 \in 0 .. n0 - 1 /\ c \div n0 \in 0 .. n1 - 1
        /\ c = n0 * (c \div n0) + (c % n0)
    BY <1>2, DivMod, DivLess
  <1>4. QED
    BY <1>1, <1>3

\* Strips of width d do not overlap.
LEMMA StripsApart ==
  ASSUME NEW d \in Nat, NEW m \in Nat, NEW a \in Nat, NEW b \in Nat,
         NEW i \in Strip(d, m, a), i \in Strip(d, m, b)
  PROVE  a = b
  <1>1. d * a \in Nat /\ d * b \in Nat
    BY TimesNat
  <1>2. /\ d * a <= i /\ i < d * a + d
        /\ d * b <= i /\ i < d * b + d
    BY <1>1 DEF Strip, Least
  <1>3. PICK k \in Nat, l \in Nat : k = d * a /\ l = d * b /\ i \in Int
    BY <1>1 DEF Strip, Least
  <1>4. ~(a < b)
    <2>1. a < b => k + d <= l
      BY <1>3, TimesLess
    <2>2. QED
      BY <1>2, <1>3, <2>1
  <1>5. ~(b < a)
    <2>1. b < a => l + d <= k
      BY <1>3, TimesLess
    <2>2. QED
      BY <1>2, <1>3, <2>1
  <1>6. QED
    BY <1>4, <1>5

\* Two chunks have no entry in common (ggml-cpu.c:8809-8826).
THEOREM TilesApart ==
  ASSUME NEW p \in Products, NEW c \in 0 .. Total(p) - 1, NEW e \in 0 .. Total(p) - 1,
         c # e
  PROVE  Tile(p, c) \cap Tile(p, e) = {}
  <1> SUFFICES ASSUME NEW x \in Tile(p, c), x \in Tile(p, e)
               PROVE  c = e
    OBVIOUS
  <1>1. PICK n0 \in Nat \ {0}, a \in Nat, b \in Nat, k \in Nat, l \in Nat :
            /\ a = c % n0 /\ b = c \div n0 /\ c = n0 * b + a
            /\ k = e % n0 /\ l = e \div n0 /\ e = n0 * l + k
            /\ n0 = Grid(p).n0
    <2>1. Grid(p).n0 \in Nat \ {0} /\ Grid(p).n1 \in Nat \ {0}
      BY GridIs
    <2>2. /\ c % Grid(p).n0 \in Nat /\ c \div Grid(p).n0 \in Nat
          /\ c = Grid(p).n0 * (c \div Grid(p).n0) + (c % Grid(p).n0)
      BY <2>1, ChunkIs
    <2>3. /\ e % Grid(p).n0 \in Nat /\ e \div Grid(p).n0 \in Nat
          /\ e = Grid(p).n0 * (e \div Grid(p).n0) + (e % Grid(p).n0)
      BY <2>1, ChunkIs
    <2>4. QED
      BY <2>1, <2>2, <2>3
  <1>2. /\ Tile(p, c) = Strip(Width0(p), p.nr0, a) \X Strip(Width1(p), p.nr1, b)
        /\ Tile(p, e) = Strip(Width0(p), p.nr0, k) \X Strip(Width1(p), p.nr1, l)
    BY <1>1, TileIs
  <1>3. PICK i, j : /\ i \in Strip(Width0(p), p.nr0, a) /\ i \in Strip(Width0(p), p.nr0, k)
                    /\ j \in Strip(Width1(p), p.nr1, b) /\ j \in Strip(Width1(p), p.nr1, l)
    BY <1>2
  <1>4. a = k /\ b = l
    BY <1>3, WidthsAre, StripsApart
  <1>5. QED
    BY <1>1, <1>4

\* The strip that a row or a column is in.
LEMMA StripOf ==
  ASSUME NEW n \in Nat \ {0}, NEW m \in Nat, NEW d \in Nat, m <= n * d,
         NEW i \in 0 .. m - 1
  PROVE  \E a \in 0 .. n - 1 : i \in Strip(d, m, a)
  <1>1. d # 0
    OBVIOUS
  <1>2. i \in Nat /\ i < d * n
    OBVIOUS
  <1>3. i \div d \in 0 .. n - 1
    BY <1>1, <1>2, DivLess
  <1>4. (i % d) \in 0 .. d - 1 /\ i = d * (i \div d) + (i % d)
    BY <1>1, <1>2, DivMod
  <1>5. PICK a \in 0 .. n - 1, r \in 0 .. d - 1 : i = d * a + r
    BY <1>3, <1>4
  <1>6. d * a \in Nat
    BY TimesNat
  <1>7. i \in Strip(d, m, a)
    BY <1>5, <1>6 DEF Strip, Least
  <1>8. QED
    BY <1>7

LEMMA StripWithin ==
  ASSUME NEW d \in Nat, NEW m \in Nat, NEW a \in Nat
  PROVE  Strip(d, m, a) \subseteq 0 .. m - 1
  <1>1. d * a \in Nat
    BY TimesNat
  <1>2. QED
    BY <1>1 DEF Strip, Least

\* The chunks together are the product, whatever its shape.
THEOREM TilesCover ==
  ASSUME NEW p \in Products
  PROVE  UNION {Tile(p, c) : c \in 0 .. Total(p) - 1} = Entries(p)
  <1>1. ASSUME NEW c \in 0 .. Total(p) - 1 PROVE Tile(p, c) \subseteq Entries(p)
    <2>1. c % Grid(p).n0 \in Nat /\ c \div Grid(p).n0 \in Nat
      BY ChunkIs, GridIs
    <2>2. /\ Strip(Width0(p), p.nr0, c % Grid(p).n0) \subseteq 0 .. p.nr0 - 1
          /\ Strip(Width1(p), p.nr1, c \div Grid(p).n0) \subseteq 0 .. p.nr1 - 1
      BY <2>1, WidthsAre, StripWithin
    <2>3. QED
      BY <2>2, TileIs DEF Entries
  <1>2. ASSUME NEW x \in Entries(p)
        PROVE  \E c \in 0 .. Total(p) - 1 : x \in Tile(p, c)
    <2>1. PICK i \in 0 .. p.nr0 - 1, j \in 0 .. p.nr1 - 1 : x = <<i, j>>
      BY DEF Entries
    <2>2. PICK n0, n1 \in Nat \ {0} : n0 = Grid(p).n0 /\ n1 = Grid(p).n1
      BY GridIs
    <2>3. PICK a \in 0 .. n0 - 1 : i \in Strip(Width0(p), p.nr0, a)
      BY <2>2, WidthsAre, StripOf
    <2>4. PICK b \in 0 .. n1 - 1 : j \in Strip(Width1(p), p.nr1, b)
      BY <2>2, WidthsAre, StripOf
    <2>5. PICK c \in Nat : c = n0 * b + a /\ c % n0 = a /\ c \div n0 = b
      BY PairUp
    <2>6. c \in 0 .. Total(p) - 1
      <3>1. n0 * b + n0 <= n0 * n1
        BY TimesLess
      <3>2. n0 * n1 \in Nat /\ n0 * b \in Nat
        BY TimesNat
      <3>3. c < n0 * n1
        BY <2>5, <3>1, <3>2
      <3>4. QED
        BY <2>2, <3>2, <3>3 DEF Total
    <2>7. Tile(p, c) = Strip(Width0(p), p.nr0, a) \X Strip(Width1(p), p.nr1, b)
      BY <2>2, <2>5, TileIs
    <2>8. QED
      BY <2>1, <2>3, <2>4, <2>6, <2>7
  <1>3. QED
    BY <1>1, <1>2

----------------------------------------------------------------------------
(* The dealing. *)

\* The thread takes no more chunks of the product.
Done(t) == Converted(t) /\ ~At(t, {"mid", "chunk"})

\* The chunk that a thread has taken; its own, before it begins.
Taken(t) == IF At(t, {"chunk"}) THEN chunk[t] ELSE t

\* The product is the one the threads are at.
ProductIs ==
    product = [nr0 |-> cgraph[Pos(0) + 1].nr0, nr1 |-> cgraph[Pos(0) + 1].nr1,
               nth |-> n_threads_cur]

\* What has been computed was dealt, and what has been taken was not computed.
TakenOK ==
    /\ \A c \in computed : c < Total(product) /\ c < current_chunk
    /\ \A u \in Party : ~Done(u) => Taken(u) < current_chunk /\ Taken(u) \notin computed
    /\ \A u, v \in Party : ~Done(u) /\ ~Done(v) /\ Taken(u) = Taken(v) => u = v

\* No chunk is forgotten, and who is done knows that all are dealt.
NoneForgotten ==
    /\ \A c \in Nat : c < current_chunk /\ c < Total(product) =>
          c \in computed \/ \E u \in Party : ~Done(u) /\ Taken(u) = c
    /\ \A u \in Party : Done(u) => Total(product) <= current_chunk

DealOK == ProductIs /\ n_threads_cur <= current_chunk /\ TakenOK /\ NoneForgotten

\* Between two products the last one is complete.
DealtOut ==
    \/ computed = 0 .. Total(product) - 1
    \/ product = NoProduct /\ computed = {}

DealInv == (Dealing => DealOK) /\ (~Dealing => DealtOut)

\* The types that the dealing is about.
LEMMA DealTypes ==
  ASSUME PoolInv
  PROVE  /\ product \in Products /\ Total(product) \in Nat /\ computed \subseteq Nat
         /\ current_chunk \in Nat /\ n_threads_cur \in Nat
         /\ 0 \in Party /\ Party \subseteq Threads /\ Party \subseteq Nat
         /\ \A t \in Threads : chunk[t] \in Nat
  <1>1. product \in Products
    BY DEF PoolInv, TypeOK, Products
  <1>2. computed \subseteq Nat /\ current_chunk \in Nat /\ \A t \in Threads : chunk[t] \in Nat
    BY DEF PoolInv, TypeOK
  <1>3. n_threads_cur \in Nat
    BY NThreadsAssumption DEF PoolInv, BarrierInv, BarrierTypeOK
  <1>4. QED
    BY <1>1, <1>2, <1>3, TotalIs, PartyIs, ThreadsAre

\* Thread 0 stands for all of the party.
LEMMA DealingIs ==
  ASSUME PoolInv, Dealing
  PROVE  /\ Running /\ Multiplies(Pos(0))
         /\ \A u \in Party : (Converted(u) <=> Converted(0))
                             /\ (Done(u) <=> Converted(0) /\ ~At(u, {"mid", "chunk"}))
  <1>1. Running /\ Busy(0) /\ 0 \in Threads
    BY ThreadsAre DEF Dealing, Running
  <1>2. \A u \in Party : Converted(u) <=> Converted(0)
    BY <1>1 DEF PoolInv, EpochOK
  <1>3. Multiplies(Pos(0))
    <2>1. ~At(0, {"begin"})
      BY DEF Dealing, Converted, At
    <2>2. PlaceOK(0) /\ Pos(0) = IF At(0, {"end"}) /\ Free(0) THEN node_n[0] + 1 ELSE node_n[0]
      BY <1>1, <2>1, PlaceIs
    <2>3. Pos(0) = node_n[0]
      BY <2>2 DEF Dealing, Converted, At
    <2>4. Multiplies(node_n[0])
      BY <2>2 DEF Dealing, Converted, PlaceOK, At
    <2>5. QED
      BY <2>3, <2>4
  <1>4. QED
    BY <1>1, <1>2, <1>3 DEF Done

\* Nothing that DealInv is about changes.
LEMMA DealSame ==
  ASSUME PoolInv, DealInv, UNCHANGED <<product, computed>>, Dealing' <=> Dealing,
         Dealing => /\ UNCHANGED <<current_chunk, n_threads_cur, cgraph>>
                    /\ Pos(0)' = Pos(0)
                    /\ \A u \in Party : /\ Done(u)' <=> Done(u)
                                        /\ ~Done(u) => Taken(u)' = Taken(u)
  PROVE  DealInv'
  <1>1. CASE ~Dealing
    BY <1>1 DEF DealInv, DealtOut, Total, Grid
  <1>2. CASE Dealing
    <2>1. Party' = Party /\ Total(product)' = Total(product) /\ DealOK
      BY <1>2 DEF Party, Total, Grid, DealInv
    <2>2. ProductIs'
      BY <1>2, <2>1 DEF DealOK, ProductIs
    <2>3. TakenOK'
      BY <1>2, <2>1 DEF DealOK, TakenOK
    <2>4. NoneForgotten'
      BY <1>2, <2>1 DEF DealOK, NoneForgotten
    <2>5. QED
      BY <1>2, <2>1, <2>2, <2>3, <2>4 DEF DealOK, DealInv
  <1>3. QED
    BY <1>1, <1>2

\* When all are done the product is complete.
LEMMA AllDealt ==
  ASSUME PoolInv, DealInv, Dealing, Converted(0),
         \A u \in Party : ~At(u, {"mid", "chunk"})
  PROVE  computed = 0 .. Total(product) - 1
  <1>1. \A u \in Party : Done(u)
    BY DealingIs
  <1>2. DealOK
    BY DEF DealInv
  <1>3. Total(product) <= current_chunk
    BY <1>1, <1>2, DealTypes DEF DealOK, NoneForgotten
  <1>4. \A c \in computed : c \in Nat /\ c < Total(product)
    BY <1>2, DealTypes DEF DealOK, TakenOK
  <1>5. \A c \in Nat : c < Total(product) => c \in computed
    BY <1>1, <1>2, <1>3, DealTypes DEF DealOK, NoneForgotten
  <1>6. PICK n \in Nat : n = Total(product)
    BY DealTypes
  <1>7. \A c : c \in computed <=> c \in 0 .. n - 1
    BY <1>4, <1>5, <1>6
  <1>8. QED
    BY <1>6, <1>7

LEMMA DealDone ==
  ASSUME PoolInv, DealInv, Dealing, Converted(0),
         \A u \in Party : ~At(u, {"mid", "chunk"}),
         ~Dealing', UNCHANGED <<product, computed>>
  PROVE  DealInv'
  <1>1. computed = 0 .. Total(product) - 1
    BY AllDealt
  <1>2. DealtOut'
    BY <1>1 DEF DealtOut, Total, Grid
  <1>3. QED
    BY <1>2 DEF DealInv

----------------------------------------------------------------------------
(* Steps that deal nothing. *)

LEMMA DealIdle ==
  ASSUME PoolInv, DealInv, ~Dealing, ~Dealing', UNCHANGED <<product, computed>>
  PROVE  DealInv'
  BY DealSame

\* A thread of the party that stays where it is keeps what it has taken.
LEMMA OtherSame ==
  ASSUME PoolInv, PoolInv', Dealing, Dealing', n_threads_cur' = n_threads_cur,
         Converted(0)' <=> Converted(0), NEW u \in Party,
         pc'[u] = pc[u], chunk'[u] = chunk[u]
  PROVE  (Done(u)' <=> Done(u)) /\ Taken(u)' = Taken(u)
  <1>1. u \in Threads /\ u \in Party'
    BY DealTypes DEF Party
  <1>2. Converted(u) <=> Converted(0)
    BY DealingIs
  <1>3. Converted(u)' <=> Converted(0)'
    BY <1>1 DEF PoolInv, EpochOK, Running, Dealing
  <1>4. QED
    BY <1>2, <1>3 DEF Done, Taken, At

\* Thread 0 stays where it is.
LEMMA ZeroSame ==
  ASSUME Same(0), UNCHANGED <<n_barrier_passed, cgraph, n_threads_cur, abort>>
  PROVE  /\ Dealing' <=> Dealing
         /\ Pos(0)' = Pos(0)
         /\ Converted(0)' <=> Converted(0)
  <1>1. /\ Busy(0)' <=> Busy(0)
        /\ Pos(0)' = Pos(0)
        /\ Converted(0)' <=> Converted(0)
    BY ThreadsAre, SameFree, SamePlace
  <1>2. At(0, {"mid"})' <=> At(0, {"mid"})
    BY DEF Same, At
  <1>3. QED
    BY <1>1, <1>2 DEF Dealing

\* A step of thread 0 leaves it at its node, and the dealing on or off.
ZeroStays(t) == t = 0 => Pos(0)' = Pos(0) /\ (Dealing' <=> Dealing)

\* The step of one thread, which neither takes a chunk nor is done with one by it.
LEMMA DealStays ==
  ASSUME PoolInv, PoolInv', DealInv, NEW t \in Threads,
         \A u \in Threads \ {t} : Same(u) /\ chunk'[u] = chunk[u],
         UNCHANGED <<product, computed, current_chunk, n_threads_cur, cgraph,
                     n_barrier_passed>>,
         t # 0 => UNCHANGED abort,
         ZeroStays(t),
         Converted(t)' <=> Converted(t),
         Done(t)' <=> Done(t),
         ~Done(t) => Taken(t)' = Taken(t)
  PROVE  DealInv'
  <1>1. /\ Dealing' <=> Dealing
        /\ Pos(0)' = Pos(0)
        /\ Converted(0)' <=> Converted(0)
    BY ThreadsAre, ZeroSame DEF ZeroStays
  <1>2. ASSUME Dealing, NEW u \in Party
        PROVE  (Done(u)' <=> Done(u)) /\ (~Done(u) => Taken(u)' = Taken(u))
    <2>1. CASE u = t
      BY <2>1
    <2>2. CASE u # t
      BY <1>1, <1>2, <2>2, DealTypes, OtherSame DEF Same
    <2>3. QED
      BY <2>1, <2>2
  <1>3. QED
    BY <1>1, <1>2, DealSame

LEMMA DealStutter ==
  ASSUME PoolInv, DealInv, UNCHANGED vars
  PROVE  DealInv'
  <1> USE DEF vars, barrierVars, poolVars, workerVars, computeVars
  <1>1. \A t \in Threads : Same(t)
    BY DEF Same
  <1>2. /\ Dealing' <=> Dealing
        /\ Pos(0)' = Pos(0)
    BY <1>1, ThreadsAre, ZeroSame
  <1>3. \A u \in Party : Converted(u)' <=> Converted(u)
    BY <1>1, DealTypes, SamePlace
  <1>4. \A u \in Party : (Done(u)' <=> Done(u)) /\ Taken(u)' = Taken(u)
    BY <1>3 DEF Done, Taken, At
  <1>5. QED
    BY <1>2, <1>4, DealSame

\* Who is nowhere near a product has taken none of its chunks.
LEMMA NotTaken ==
  ASSUME NEW t \in Threads, pc[t] \notin {"mid", "chunk", "after", "end", "final"}
  PROVE  ~Converted(t) /\ ~Done(t) /\ Taken(t) = t /\ (t = 0 => ~Dealing)
  BY DEF Converted, Done, Taken, Dealing, At

----------------------------------------------------------------------------
(* The steps of the caller and of the workers outside a graph. *)

LEMMA DealCaller ==
  ASSUME PoolInv, DealInv,
         \/ \E g \in Graphs, n \in Requests : GraphCompute(g, n)
         \/ \E p \in BOOLEAN : SetPause(p)
         \/ FreePool \/ KickThreads \/ KickGraph \/ KickWake \/ Joined
  PROVE  DealInv'
  <1> USE DEF workerVars, computeVars
  <1>1. pc[0] \in {"caller", "kick1", "kick2", "kick3", "join"}
    BY DEF GraphCompute, SetPause, FreePool, KickThreads, KickGraph, KickWake, Joined, At
  <1>2. pc'[0] \in {"caller", "kick1", "kick2", "kick3", "begin", "join", "freed"}
    <2>1. CASE \/ \E g \in Graphs, n \in Requests : GraphCompute(g, n)
               \/ KickThreads \/ KickGraph \/ Joined
      BY <2>1, ThreadsAre
         DEF GraphCompute, KickThreads, KickGraph, Joined, Go, PoolInv, TypeOK
    <2>2. CASE \E p \in BOOLEAN : SetPause(p)
      <3>1. pc'[0] = Woken(0) /\ pc[0] = "caller"
        BY <2>2, ThreadsAre DEF SetPause, At
      <3>2. QED
        BY <3>1 DEF Woken
    <2>3. CASE FreePool \/ KickWake
      BY <2>3, ThreadsAre DEF FreePool, KickWake
    <2>4. QED
      BY <2>1, <2>2, <2>3
  <1>3. ~Dealing /\ ~Dealing'
    BY <1>1, <1>2 DEF Dealing, Converted, At
  <1>4. UNCHANGED <<product, computed>>
    BY DEF GraphCompute, SetPause, FreePool, KickThreads, KickGraph, KickWake, Joined
  <1>5. QED
    BY <1>3, <1>4, DealIdle

LEMMA DealWorker ==
  ASSUME PoolInv, PoolInv', DealInv, NEW w \in Workers,
         \/ ReadPause(w) \/ SleepWhilePaused(w) \/ ReadStop(w) \/ Poll(w)
         \/ StopPolling(w) \/ PollActive(w) \/ CheckForWork(w) \/ SpuriousWakeup(w)
  PROVE  DealInv'
  <1> USE DEF barrierVars, poolVars, computeVars
  <1>1. Waits(w)
    BY DEF ReadPause, SleepWhilePaused, ReadStop, Poll, StopPolling, PollActive,
       CheckForWork, SpuriousWakeup
  <1>2. pc[w] \in {"top", "paused", "pausesleep", "stopcheck", "polling", "active",
                   "check", "sleep"}
    BY DEF ReadPause, SleepWhilePaused, ReadStop, Poll, StopPolling, PollActive,
       CheckForWork, SpuriousWakeup, At
  <1>3. PICK s \in WorkerStages : Go(w, s) /\ s \notin {"mid", "chunk", "after", "end", "final"}
    BY StageSets
       DEF ReadPause, SleepWhilePaused, ReadStop, Poll, StopPolling, PollActive,
           CheckForWork, SpuriousWakeup, Woken, At
  <1>4. w \in Threads /\ w # 0
    BY ThreadsAre
  <1>5. pc'[w] = s /\ \A u \in Threads \ {w} : pc'[u] = pc[u]
    BY <1>3, <1>4 DEF Go, PoolInv, TypeOK
  <1>6. /\ ~Converted(w) /\ ~Done(w) /\ Taken(w) = w
        /\ ~Converted(w)' /\ ~Done(w)' /\ Taken(w)' = w
    BY <1>2, <1>3, <1>5 DEF Converted, Done, Taken, At
  <1>7. \A u \in Threads \ {w} : Same(u) /\ chunk'[u] = chunk[u]
    BY <1>1, <1>5 DEF Waits, Same
  <1>8. QED
    BY <1>1, <1>4, <1>6, <1>7, DealStays DEF Waits, ZeroStays

----------------------------------------------------------------------------
(* The steps at a graph that deal nothing. *)

LEMMA DealBegins ==
  ASSUME PoolInv, PoolInv', DealInv, NEW t \in Threads, Begin(t) \/ ComputeOther(t)
  PROVE  DealInv' /\ ZeroStays(t)
  <1> USE DEF barrierVars, poolVars, computeVars
  <1>1. PICK s \in {"node", "after"} :
            /\ Go(t, s)
            /\ s = "node" => pc[t] = "begin" /\ node_n'[t] = 0
            /\ s = "after" => pc[t] = "node" /\ node_n' = node_n /\ MoreNodes(t)
                              /\ ~IsProduct(Node(t)) /\ UNCHANGED abort
    BY DEF Begin, ComputeOther, At, PoolInv, TypeOK
  <1>2. pc'[t] = s /\ \A u \in Threads \ {t} : pc'[u] = pc[u]
    BY <1>1 DEF Go, PoolInv, TypeOK
  <1>3. \A u \in Threads \ {t} : Same(u) /\ chunk'[u] = chunk[u]
    BY <1>2 DEF Begin, ComputeOther, Same, PoolInv, TypeOK
  <1>4. ~Converted(t) /\ ~Done(t) /\ Taken(t) = t /\ (t = 0 => ~Dealing)
    BY <1>1, NotTaken
  <1>5. ~Converted(t)'
    <2>1. CASE s = "node"
      BY <1>2, <2>1 DEF Converted, At
    <2>2. CASE s = "after"
      <3>1. Busy(t) /\ ~At(t, {"begin"})
        BY <1>1, <2>2 DEF Busy, At, Computing
      <3>2. graph[t] = cgraph
        BY <3>1, PlaceIs
      <3>3. ~Multiplies(node_n[t])'
        BY <1>1, <2>2, <3>2 DEF Multiplies, Node, ComputeOther, IsProduct, Begin
      <3>4. QED
        BY <1>2, <2>2, <3>3 DEF Converted, At
    <2>3. QED
      BY <2>1, <2>2
  <1>6. ~Done(t)' /\ Taken(t)' = t /\ (t = 0 => ~Dealing')
    BY <1>2, <1>5 DEF Done, Taken, At, Dealing
  <1>7. t = 0 => Pos(0)' = Pos(0)
    <2>1. Busy(t) /\ Busy(t)'
      BY <1>1, <1>2 DEF Busy, At, Computing
    <2>2. CASE s = "node"
      BY <1>1, <1>2, <2>1, <2>2 DEF Pos, At
    <2>3. CASE s = "after"
      BY <1>1, <1>2, <2>1, <2>3 DEF Pos, At
    <2>4. QED
      BY <2>2, <2>3
  <1>8. /\ UNCHANGED <<product, computed, current_chunk, n_threads_cur, cgraph,
                       n_barrier_passed>>
        /\ UNCHANGED abort
    BY DEF Begin, ComputeOther
  <1>9. QED
    BY <1>3, <1>4, <1>5, <1>6, <1>7, <1>8, DealStays DEF ZeroStays

\* Entering a barrier.
LEMMA DealEnters ==
  ASSUME PoolInv, PoolInv', DealInv, NEW t \in Threads, NEW b \in Barriers,
         pc[t] \in {"node", "after"}, Enter(t), Go(t, b),
         UNCHANGED <<node_n, chunk, graph, nth>>,
         UNCHANGED <<product, computed, current_chunk, cgraph>>,
         abort' = abort \/ (t = 0 /\ abort # node_n[t] /\ abort' # node_n[t]),
         pc[t] = "node" => ~Multiplies(node_n[t]) \/ (b = "mid" /\ t # 0),
         pc[t] = "after" => b # "mid"
  PROVE  DealInv' /\ ZeroStays(t)
  <1>1. pc'[t] = b /\ \A u \in Threads \ {t} : pc'[u] = pc[u]
    BY DEF Go, PoolInv, TypeOK
  <1>2. /\ ~Free(t)' /\ UNCHANGED <<n_barrier_passed, n_threads_cur>>
        /\ \A u \in Threads \ {t} : stage'[u] = stage[u] /\ n_passed'[u] = n_passed[u]
    BY EnterIs
  <1>3. \A u \in Threads \ {t} : Same(u) /\ chunk'[u] = chunk[u]
    BY <1>1, <1>2 DEF Same
  <1>4. Multiplies(node_n[t])' <=> Multiplies(node_n[t])
    BY DEF Multiplies, IsProduct
  <1>5. Converted(t)' <=> Converted(t)
    <2>1. CASE b = "mid"
      BY <1>1, <1>2, <2>1 DEF Converted, At
    <2>2. CASE b # "mid"
      <3>1. Converted(t)' <=> Multiplies(node_n[t])
        BY <1>1, <1>2, <1>4, <2>2 DEF Converted, At, Barriers
      <3>2. Converted(t) <=> pc[t] = "after" /\ Multiplies(node_n[t])
        BY DEF Converted, At
      <3>3. QED
        BY <2>2, <3>1, <3>2
    <2>3. QED
      BY <2>1, <2>2
  <1>6. Done(t)' <=> Done(t)
    <2>1. Done(t) <=> Converted(t)
      BY DEF Done, At
    <2>2. CASE b = "mid"
      BY <1>1, <1>2, <2>1, <2>2, <1>5 DEF Done, At, Converted
    <2>3. CASE b # "mid"
      BY <1>1, <1>5, <2>1, <2>3 DEF Done, At, Barriers
    <2>4. QED
      BY <2>2, <2>3
  <1>7. Taken(t) = t /\ Taken(t)' = t
    BY <1>1 DEF Taken, At, Barriers
  <1>8. ASSUME t = 0 PROVE Pos(0)' = Pos(0) /\ (Dealing' <=> Dealing)
    <2>1. Busy(0) /\ Busy(0)'
      BY <1>1, <1>2, <1>8 DEF Busy, At, Computing, Barriers
    <2>2. Pos(0) = node_n[0] /\ Pos(0)' = node_n[0]
      BY <1>1, <1>2, <1>8, <2>1 DEF Pos, At, Barriers
    <2>3. CASE b = "mid"
      <3>1. pc[0] = "node" /\ ~Multiplies(node_n[0])
        BY <1>8, <2>3
      <3>2. PlaceOK(0)'
        BY <1>1, <1>8, <2>1, <2>3, ThreadsAre DEF PoolInv, PlacesOK, At
      <3>3. Multiplies(node_n[0])'
        BY <1>1, <1>8, <2>3, <3>2 DEF PlaceOK, At
      <3>4. QED
        BY <1>4, <1>8, <3>1, <3>3
    <2>4. CASE b # "mid"
      BY <1>1, <1>5, <1>8, <2>1, <2>2, <2>4 DEF Dealing, At
    <2>5. QED
      BY <2>3, <2>4
  <1>9. QED
    BY <1>2, <1>3, <1>5, <1>6, <1>7, <1>8, DealStays DEF ZeroStays

LEMMA DealWaits ==
  ASSUME PoolInv, PoolInv', DealInv, NEW t \in Threads, BarrierStep(t),
         Arrive(t) \/ Reset(t), UNCHANGED <<pc, node_n, chunk>>
  PROVE  DealInv' /\ ZeroStays(t)
  <1> USE DEF poolVars, computeVars
  <1>1. ~Free(t) /\ ~Free(t)'
    <2>1. stage[t] \in {"arrive", "reset"}
      BY DEF Arrive, Reset
    <2>2. ~Free(t)
      BY <2>1 DEF Free
    <2>3. n_passed[t] = n_barrier_passed
      BY <2>2 DEF PoolInv, BarrierInv, CallersBelong
    <2>4. stage'[t] \in {"reset", "release", "spin"} /\ n_passed' = n_passed
          /\ n_barrier_passed' = n_barrier_passed
      BY DEF Arrive, Reset, PoolInv, TypeOK, BarrierTypeOK
    <2>5. QED
      BY <2>2, <2>3, <2>4 DEF Free
  <1>2. \A u \in Threads \ {t} : Same(u) /\ chunk'[u] = chunk[u]
    BY DEF Arrive, Reset, Same, BarrierStep, PoolInv, TypeOK, BarrierTypeOK
  <1>3. UNCHANGED <<product, computed, current_chunk, n_threads_cur, cgraph,
                    n_barrier_passed, abort>>
    BY DEF BarrierStep, Arrive, Reset
  <1>4. Converted(t)' <=> Converted(t)
    BY <1>1, <1>3 DEF Converted, At, Multiplies, IsProduct
  <1>5. (Done(t)' <=> Done(t)) /\ Taken(t)' = Taken(t)
    BY <1>4 DEF Done, Taken, At
  <1>6. Busy(t) /\ Busy(t)' /\ Pos(t)' = Pos(t)
    BY <1>1 DEF Busy, At, Pos, BarrierStep, Computing
  <1>7. t = 0 => Pos(0)' = Pos(0) /\ (Dealing' <=> Dealing)
    BY <1>4, <1>6 DEF Dealing, At
  <1>8. QED
    BY <1>2, <1>3, <1>4, <1>5, <1>7, DealStays DEF ZeroStays

LEMMA DealLeaves ==
  ASSUME PoolInv, PoolInv', DealInv, NEW t \in Threads, BarrierStep(t), Leave(t),
         Past(t, pc[t])
  PROVE  DealInv' /\ ZeroStays(t)
  <1> USE DEF poolVars, computeVars
  <1>1. pc[t] \in Barriers /\ Free(t) /\ pc[t] # "out"
    BY DEF BarrierStep, At, Leave, Free, Barriers
  <1>2. \/ pc[t] = "mid" /\ PastMid(t)
        \/ pc[t] = "end" /\ PastEnd(t)
        \/ pc[t] = "final" /\ PastFinal(t)
    BY <1>1, PastCases
  <1>3. \A u \in Threads \ {t} : Same(u) /\ chunk'[u] = chunk[u]
    <2>1. \A u \in Threads \ {t} : stage'[u] = stage[u] /\ n_passed'[u] = n_passed[u]
      BY DEF Leave, Out, PoolInv, BarrierInv, BarrierTypeOK
    <2>2. \A u \in Threads \ {t} : /\ pc'[u] = pc[u] /\ node_n'[u] = node_n[u]
                                   /\ chunk'[u] = chunk[u]
      BY <1>2 DEF PastMid, PastEnd, PastFinal, Go, PoolInv, TypeOK
    <2>3. QED
      BY <2>1, <2>2 DEF BarrierStep, Same
  <1>4. /\ UNCHANGED <<product, computed, current_chunk, n_threads_cur, cgraph,
                       n_barrier_passed, abort>>
        /\ stage'[t] = "out" /\ Free(t)'
    BY DEF BarrierStep, Leave, Out, Free, PoolInv, TypeOK, BarrierTypeOK
  <1>5. CASE pc[t] = "mid" /\ PastMid(t)
    <2>1. pc'[t] = "chunk" /\ chunk'[t] = t /\ node_n' = node_n
      BY <1>5 DEF PastMid, Go, PoolInv, TypeOK
    <2>2. Converted(t) /\ Converted(t)'
      BY <1>1, <1>5, <2>1 DEF Converted, At
    <2>3. ~Done(t) /\ ~Done(t)' /\ Taken(t) = t /\ Taken(t)' = t
      BY <1>5, <2>1 DEF Done, Taken, At
    <2>4. Busy(t) /\ Busy(t)' /\ Pos(t)' = Pos(t)
      BY <1>5, <2>1 DEF Busy, At, Pos, Computing, Barriers
    <2>5. QED
      BY <1>3, <1>4, <2>2, <2>3, <2>4, DealStays DEF Dealing, ZeroStays
  <1>6. CASE pc[t] = "end" /\ PastEnd(t)
    <2>1. pc'[t] = "node" /\ node_n'[t] = node_n[t] + 1
      BY <1>6 DEF PastEnd, Go, PoolInv, TypeOK
    <2>2. ~Converted(t) /\ ~Converted(t)'
      BY <1>1, <1>6, <2>1 DEF Converted, At
    <2>3. ~Done(t) /\ ~Done(t)' /\ Taken(t) = t /\ Taken(t)' = t
          /\ (t = 0 => ~Dealing /\ ~Dealing')
      BY <1>6, <2>1, <2>2 DEF Done, Taken, At, Dealing
    <2>4. Busy(t) /\ Busy(t)'
      BY <1>6, <2>1 DEF Busy, At, Computing, Barriers
    <2>5. Pos(t) = node_n[t] + 1 /\ Pos(t)' = node_n[t] + 1
      BY <1>1, <1>6, <2>1, <2>4 DEF Pos, At
    <2>6. QED
      BY <1>3, <1>4, <2>2, <2>3, <2>5, DealStays DEF ZeroStays
  <1>7. CASE pc[t] = "final" /\ PastFinal(t)
    <2>1. pc'[t] \in {"caller", "top"}
      BY <1>7 DEF PastFinal, Go, PoolInv, TypeOK
    <2>2. ~Converted(t) /\ ~Converted(t)'
      BY <1>1, <1>7, <2>1 DEF Converted, At
    <2>3. ~Done(t) /\ ~Done(t)' /\ Taken(t) = t /\ Taken(t)' = t
          /\ (t = 0 => ~Dealing /\ ~Dealing')
      BY <1>7, <2>1, <2>2 DEF Done, Taken, At, Dealing
    <2>4. CASE t = 0
      <3>1. ~Busy(0) /\ ~Busy(0)'
        BY <1>1, <1>7, <2>1, <2>4 DEF Busy, At, Computing, Barriers
      <3>2. Pos(0) = 0 /\ Pos(0)' = 0
        BY <3>1 DEF Pos
      <3>3. QED
        BY <1>4, <2>3, <2>4, <3>2, DealIdle DEF ZeroStays
    <2>5. CASE t # 0
      BY <1>3, <1>4, <2>2, <2>3, <2>5, DealStays DEF ZeroStays
    <2>6. QED
      BY <2>4, <2>5
  <1>8. QED
    BY <1>2, <1>5, <1>6, <1>7

----------------------------------------------------------------------------
(* A barrier lets the threads go. *)

LEMMA DealReleases ==
  ASSUME PoolInv, PoolInv', DealInv, NEW t \in Threads, BarrierStep(t), Release(t),
         Past(t, pc[t])
  PROVE  DealInv'
  <1> USE DEF poolVars, computeVars
  <1>1. /\ \A u \in Party : /\ u \in Threads /\ Busy(u) /\ ~Free(u)
                            /\ pc[u] = pc[t] /\ node_n[u] = node_n[t]
                            /\ PlaceOK(u) /\ Pos(u) = node_n[t]
        /\ \A u \in Threads : Free(u)'
        /\ n_threads_cur' = n_threads_cur
    BY ReleaseIs DEF BarrierStep, PoolInv
  <1>2. /\ \A u \in Threads \ {t} : pc'[u] = pc[u] /\ node_n'[u] = node_n[u]
        /\ \/ pc[t] = "mid" /\ pc'[t] = "chunk" /\ node_n'[t] = node_n[t]
           \/ pc[t] = "end" /\ pc'[t] = "node"
           \/ pc[t] = "final" /\ pc'[t] \in {"caller", "top"}
    BY ReleaseMoves DEF PoolInv
  <1>3. UNCHANGED <<product, computed, current_chunk, cgraph>>
    BY DEF BarrierStep
  <1>4. 0 \in Party /\ 0 \in Threads /\ pc[0] = pc[t]
    BY <1>1, DealTypes
  <1>5. CASE pc[t] = "mid"
    <2>1. Dealing
      BY <1>1, <1>4, <1>5 DEF Dealing, At
    <2>2. /\ pc'[0] \in {"mid", "chunk"} /\ node_n'[0] = node_n[0]
          /\ Free(0) = Free(0) /\ Free(0)'
      BY <1>1, <1>2, <1>4, <1>5
    <2>3. Busy(0)' /\ Converted(0)'
      BY <2>2 DEF Busy, Converted, At, Computing, Barriers
    <2>4. Dealing'
      BY <2>3 DEF Dealing
    <2>5. Pos(0) = node_n[0] /\ Pos(0)' = node_n[0]
      BY <1>1, <1>4, <2>2, <2>3 DEF Pos, At
    <2>6. chunk' = [chunk EXCEPT ![t] = t]
      BY <1>5, PastCases DEF Barriers, PastMid
    <2>7. ASSUME NEW u \in Party
          PROVE  ~Done(u) /\ ~Done(u)' /\ Taken(u)' = Taken(u)
      <3>1. pc[u] = "mid" /\ pc'[u] \in {"mid", "chunk"} /\ (pc'[u] = "chunk" => u = t)
        BY <1>1, <1>2, <1>5
      <3>2. pc'[u] = "chunk" => chunk'[u] = u
        BY <1>1, <2>6, <3>1 DEF PoolInv, TypeOK
      <3>3. QED
        BY <3>1, <3>2 DEF Done, Taken, At
    <2>8. QED
      BY <1>1, <1>3, <2>1, <2>4, <2>5, <2>7, DealSame
  <1>6. CASE pc[t] # "mid"
    <2>1. pc'[0] \in {"end", "final", "node", "caller", "top"} /\ Free(0)'
      BY <1>1, <1>2, <1>4, <1>6
    <2>2. ~Dealing'
      BY <2>1 DEF Dealing, Converted, At
    <2>3. pc[t] \in {"end", "final"}
      BY <1>2, <1>6
    <2>4. CASE ~Dealing
      BY <1>3, <2>2, <2>4, DealIdle
    <2>5. CASE Dealing
      <3>1. Converted(0)
        BY <1>4, <2>3, <2>5 DEF Dealing, At
      <3>2. \A u \in Party : ~At(u, {"mid", "chunk"})
        BY <1>1, <2>3 DEF At
      <3>3. QED
        BY <1>3, <2>2, <2>5, <3>1, <3>2, DealDone
    <2>6. QED
      BY <2>4, <2>5
  <1>7. QED
    BY <1>5, <1>6

\* A lone thread passes the barrier behind a node.
LEMMA DealAlone ==
  ASSUME PoolInv, DealInv, NEW t \in Threads, NEW b \in {"end", "final"},
         Alone, pc[t] \in {"node", "after"}, Past(t, b), UNCHANGED <<product, computed>>
  PROVE  DealInv'
  <1>1. Busy(t)
    BY DEF Busy, At, Computing
  <1>2. t = 0 /\ Party = {0}
    BY <1>1, BusyIs, PartyIs
  <1>3. (b = "end" /\ PastEnd(t)) \/ (b = "final" /\ PastFinal(t))
    BY PastCases DEF Barriers
  <1>4. pc'[0] \in {"node", "caller"}
    BY <1>2, <1>3 DEF PastEnd, PastFinal, Go, PoolInv, TypeOK
  <1>5. ~Dealing'
    BY <1>4 DEF Dealing, Converted, At
  <1>6. CASE ~Dealing
    BY <1>5, <1>6, DealIdle
  <1>7. CASE Dealing
    <2>1. Converted(0) /\ ~At(0, {"mid", "chunk"})
      BY <1>2, <1>7 DEF Dealing, At
    <2>2. QED
      BY <1>2, <1>5, <1>7, <2>1, DealDone
  <1>8. QED
    BY <1>6, <1>7

LEMMA DealBarrier ==
  ASSUME PoolInv, PoolInv', DealInv, NEW t \in Threads, BarrierStep(t)
  PROVE  DealInv'
  BY DealWaits, DealReleases, DealLeaves DEF BarrierStep

LEMMA DealEnds ==
  ASSUME PoolInv, PoolInv', DealInv, NEW t \in Threads, AfterNode(t) \/ NoMoreNodes(t)
  PROVE  DealInv'
  <1> USE DEF poolVars
  <1>1. PICK b \in {"end", "final"} :
            /\ GoToBarrier(t, b)
            /\ pc[t] = "node" => NoMoreNodes(t)
            /\ pc[t] = "after" => AfterNode(t)
            /\ pc[t] \in {"node", "after"}
    BY DEF AfterNode, NoMoreNodes, At
  <1>2. UNCHANGED <<product, computed, current_chunk, cgraph, graph, nth>>
    BY DEF AfterNode, NoMoreNodes
  <1>3. CASE Alone /\ Past(t, b)
    BY <1>1, <1>2, <1>3, DealAlone
  <1>4. CASE Enter(t) /\ Go(t, b) /\ UNCHANGED <<node_n, chunk>>
    <2>1. Busy(t) /\ ~At(t, {"begin"})
      BY <1>1 DEF Busy, At, Computing
    <2>2. PlaceOK(t) /\ graph[t] = cgraph /\ node_n[t] \in Nat
      BY <2>1, PlaceIs
    <2>3. abort' = abort \/ (t = 0 /\ abort # node_n[t] /\ abort' # node_n[t])
      <3>1. CASE pc[t] = "node"
        BY <1>1, <3>1 DEF NoMoreNodes
      <3>2. CASE pc[t] = "after"
        <4>1. abort # node_n[t]
          BY <2>2, <3>2 DEF PlaceOK, At
        <4>2. abort' = abort \/ (t = 0 /\ abort' = node_n[t] + 1)
          BY <1>1, <3>2 DEF AfterNode, AskAbort
        <4>3. node_n[t] + 1 # node_n[t]
          BY <2>2
        <4>4. QED
          BY <4>1, <4>2, <4>3
      <3>3. QED
        BY <1>1, <3>1, <3>2
    <2>4. pc[t] = "node" => ~Multiplies(node_n[t])
      BY <1>1, <2>2 DEF NoMoreNodes, MoreNodes, Multiplies
    <2>5. b \in Barriers /\ b # "mid"
      BY DEF Barriers
    <2>6. QED
      BY <1>1, <1>2, <1>4, <2>3, <2>4, <2>5, DealEnters
  <1>5. QED
    BY <1>1, <1>3, <1>4 DEF GoToBarrier

----------------------------------------------------------------------------
(* A product begins. *)

\* Thread 0 puts the counter past the chunks that the threads begin with.
LEMMA DealStarts ==
  ASSUME PoolInv, PoolInv', ConvertFactor(0)
  PROVE  DealInv' /\ Dealing' /\ Pos(0)' = Pos(0) /\ computed' = {}
  <1> USE DEF poolVars
  <1>1. pc[0] = "node" /\ MoreNodes(0) /\ IsProduct(Node(0)) /\ GoToBarrier(0, "mid")
    BY DEF ConvertFactor, At
  <1>2. Busy(0) /\ ~At(0, {"begin"}) /\ 0 \in Threads
    BY <1>1, ThreadsAre DEF Busy, At, Computing
  <1>3. graph[0] = cgraph /\ nth[0] = n_threads_cur /\ node_n[0] \in Nat
    BY <1>2, PlaceIs
  <1>4. /\ UNCHANGED <<node_n, n_threads_cur, cgraph>>
        /\ \/ /\ Enter(0) /\ pc'[0] = "mid" /\ ~Free(0)' /\ UNCHANGED chunk
           \/ /\ Alone /\ pc'[0] = "chunk" /\ chunk' = [chunk EXCEPT ![0] = 0]
    <2>1. CASE Alone /\ Past(0, "mid") /\ UNCHANGED barrierVars
      <3>1. PastMid(0)
        BY <1>2, <2>1, PastCases DEF Barriers
      <3>2. QED
        BY <2>1, <3>1, <1>2 DEF PastMid, Go, barrierVars, ConvertFactor, PoolInv, TypeOK
    <2>2. CASE Enter(0) /\ Go(0, "mid") /\ UNCHANGED <<node_n, chunk>>
      BY <1>2, <2>2, EnterIs DEF Go, ConvertFactor, PoolInv, TypeOK
    <2>3. QED
      BY <1>1, <2>1, <2>2 DEF GoToBarrier
  <1>5. PICK n : n = cgraph[node_n[0] + 1]
    OBVIOUS
  <1>6. /\ current_chunk' = n_threads_cur /\ computed' = {}
        /\ product' = [nr0 |-> n.nr0, nr1 |-> n.nr1, nth |-> n_threads_cur]
    BY <1>3, <1>5 DEF ConvertFactor, FirstChunk, Node
  <1>7. Busy(0)' /\ Dealing'
    BY <1>4 DEF Busy, Dealing, Converted, At, Computing, Barriers
  <1>8. Pos(0)' = node_n[0]
    BY <1>4, <1>7 DEF Pos, At
  <1>9. ProductIs'
    BY <1>4, <1>5, <1>6, <1>8 DEF ProductIs
  <1>10. /\ Party' = Party /\ Party' \subseteq Threads /\ Party' \subseteq Nat
         /\ n_threads_cur \in Nat /\ Party = 0 .. n_threads_cur - 1
    BY <1>4, DealTypes DEF Party
  <1>11. ASSUME NEW u \in Party PROVE ~Done(u)' /\ Taken(u)' = u
    <2>1. Converted(u)' <=> Converted(0)'
      BY <1>7, <1>10 DEF PoolInv, EpochOK, Running
    <2>2. CASE pc'[0] = "mid"
      <3>1. ~Converted(0)'
        BY <1>4, <2>2 DEF Converted, At
      <3>2. QED
        BY <2>1, <3>1 DEF Done, Taken, Converted, At
    <2>3. CASE pc'[0] = "chunk"
      <3>1. Alone /\ chunk'[0] = 0
        BY <1>2, <1>4, <2>3 DEF PoolInv, TypeOK
      <3>2. u = 0
        BY <3>1, PartyIs
      <3>3. QED
        BY <2>3, <3>1, <3>2 DEF Done, Taken, At
    <2>4. QED
      BY <1>4, <2>2, <2>3
  <1>12. \A u \in Party' : ~Done(u)' /\ Taken(u)' = u
    BY <1>10, <1>11
  <1>13. TakenOK'
    BY <1>6, <1>10, <1>12 DEF TakenOK
  <1>14. NoneForgotten'
    <2>1. ASSUME NEW c \in Nat, c < current_chunk'
          PROVE  c \in Party' /\ ~Done(c)' /\ Taken(c)' = c
      <3>1. c \in Party'
        BY <1>6, <1>10, <2>1
      <3>2. QED
        BY <1>12, <3>1
    <2>2. QED
      BY <1>12, <2>1 DEF NoneForgotten
  <1>15. DealInv'
    BY <1>4, <1>6, <1>7, <1>9, <1>10, <1>13, <1>14 DEF DealInv, DealOK
  <1>16. Pos(0) = node_n[0]
    BY <1>1, <1>2, PlaceIs DEF At
  <1>17. QED
    BY <1>6, <1>7, <1>8, <1>15, <1>16

LEMMA DealConverts ==
  ASSUME PoolInv, PoolInv', DealInv, NEW t \in Threads, ConvertFactor(t)
  PROVE  DealInv'
  <1> USE DEF poolVars
  <1>1. CASE t = 0
    BY <1>1, DealStarts
  <1>2. CASE t # 0
    <2>1. /\ pc[t] = "node" /\ GoToBarrier(t, "mid")
          /\ UNCHANGED <<current_chunk, product, computed, cgraph, graph, nth, abort>>
      BY <1>2 DEF ConvertFactor, At
    <2>2. Busy(t)
      BY <2>1 DEF Busy, At, Computing
    <2>3. ~Alone
      BY <1>2, <2>2, BusyIs, PartyIs
    <2>4. Enter(t) /\ Go(t, "mid") /\ UNCHANGED <<node_n, chunk>>
      BY <2>1, <2>3 DEF GoToBarrier
    <2>5. QED
      BY <1>2, <2>1, <2>4, DealEnters DEF Barriers
  <1>3. QED
    BY <1>1, <1>2

----------------------------------------------------------------------------
(* A thread computes its chunk and takes the next. *)

\* Who has a chunk is at the product that is being dealt.
LEMMA AtChunk ==
  ASSUME PoolInv, DealInv, NEW t \in Threads, At(t, {"chunk"})
  PROVE  /\ Dealing /\ DealOK /\ Running /\ t \in Party /\ Busy(t)
         /\ Converted(0) /\ Multiplies(node_n[t])
         /\ ~Done(t) /\ Taken(t) = chunk[t] /\ chunk[t] \in Nat
         /\ ThisProduct(t) = product /\ nth[t] = n_threads_cur
  <1>1. Busy(t) /\ ~At(t, {"begin"}) /\ ~At(t, {"end"}) /\ Converted(t)
    BY DEF Busy, At, Computing, Converted, Barriers
  <1>2. Running /\ t \in Party
    BY <1>1, BusyIs
  <1>3. Pos(t) = Pos(0) /\ Converted(0)
    BY <1>1, <1>2, AtOneNode
  <1>4. PlaceOK(t) /\ graph[t] = cgraph /\ nth[t] = n_threads_cur /\ Pos(t) = node_n[t]
    BY <1>1, PlaceIs
  <1>5. Busy(0)
    <2>1. ~At(0, {"kick3"})
      BY <1>3 DEF Converted, At
    <2>2. QED
      BY <1>2, <2>1 DEF Running
  <1>6. Dealing /\ DealOK
    BY <1>3, <1>5 DEF Dealing, DealInv
  <1>7. ThisProduct(t) = product
    BY <1>3, <1>4, <1>6 DEF ThisProduct, Node, DealOK, ProductIs
  <1>8. Multiplies(node_n[t])
    BY <1>4 DEF PlaceOK, At
  <1>9. ~Done(t) /\ Taken(t) = chunk[t] /\ chunk[t] \in Nat
    BY DealTypes DEF Done, Taken, At
  <1>10. QED
    BY <1>1, <1>2, <1>3, <1>4, <1>6, <1>7, <1>8, <1>9

\* What the step leaves to the others and of the product.
LEMMA ChunkStep ==
  ASSUME PoolInv, PoolInv', DealInv, NEW t \in Threads,
         ComputeChunk(t) \/ ChunksDone(t)
  PROVE  /\ Dealing' /\ Pos(0)' = Pos(0) /\ ProductIs' /\ Party' = Party
         /\ product' = product
         /\ Total(product)' = Total(product) /\ n_threads_cur' = n_threads_cur
         /\ \A u \in Party \ {t} : (Done(u)' <=> Done(u)) /\ Taken(u)' = Taken(u)
         /\ \/ pc'[t] = "after" /\ Done(t)'
            \/ pc'[t] = "chunk" /\ ~Done(t)' /\ Taken(t)' = chunk'[t]
  <1> USE DEF barrierVars, poolVars, computeVars
  <1>1. pc[t] = "chunk" /\ At(t, {"chunk"})
    BY DEF ComputeChunk, ChunksDone, At
  <1>2. /\ Dealing /\ DealOK /\ t \in Party /\ Busy(t) /\ Converted(0)
        /\ Multiplies(node_n[t])
    BY <1>1, AtChunk
  <1>3. /\ UNCHANGED <<product, n_threads_cur, cgraph, n_barrier_passed, abort, node_n,
                       graph, nth, stage, n_passed>>
    BY DEF ComputeChunk, ChunksDone
  <1>4. Go(t, "after") \/ UNCHANGED pc
    BY DEF ComputeChunk, ChunksDone
  <1>5. pc'[t] \in {"chunk", "after"} /\ \A u \in Threads \ {t} : pc'[u] = pc[u]
    BY <1>1, <1>4 DEF Go, PoolInv, TypeOK
  <1>6. \A u \in Threads \ {t} : chunk'[u] = chunk[u]
    BY DEF ComputeChunk, ChunksDone, PoolInv, TypeOK
  <1>7. Multiplies(node_n[t])' /\ Converted(t)' /\ Busy(t)'
    <2>1. Multiplies(node_n[t])'
      BY <1>2, <1>3 DEF Multiplies, IsProduct
    <2>2. Converted(t)'
      BY <1>5, <2>1 DEF Converted, At
    <2>3. Busy(t)'
      BY <1>5 DEF Busy, At, Computing
    <2>4. QED
      BY <2>1, <2>2, <2>3
  <1>8. Pos(t)' = Pos(t)
    BY <1>1, <1>2, <1>3, <1>5, <1>7 DEF Pos, At
  <1>9. Dealing' /\ Pos(0)' = Pos(0) /\ Converted(0)'
    <2>1. CASE t = 0
      BY <1>7, <1>8, <2>1 DEF Dealing
    <2>2. CASE t # 0
      <3>1. Same(0)
        BY <1>3, <1>5, <2>2, ThreadsAre DEF Same
      <3>2. QED
        BY <1>2, <1>3, <3>1, ZeroSame
    <2>3. QED
      BY <2>1, <2>2
  <1>10. \A u \in Party \ {t} : (Done(u)' <=> Done(u)) /\ Taken(u)' = Taken(u)
    BY <1>2, <1>3, <1>5, <1>6, <1>9, DealTypes, OtherSame
  <1>11. ProductIs'
    BY <1>2, <1>3, <1>9 DEF DealOK, ProductIs
  <1>12. \/ pc'[t] = "after" /\ Done(t)'
         \/ pc'[t] = "chunk" /\ ~Done(t)' /\ Taken(t)' = chunk'[t]
    BY <1>5, <1>7 DEF Done, Taken, At
  <1>13. Party' = Party /\ Total(product)' = Total(product)
    BY <1>3 DEF Party, Total, Grid
  <1>14. QED
    BY <1>3, <1>9, <1>10, <1>11, <1>12, <1>13

\* The chunk taken last is past the end.
LEMMA DealRunsOut ==
  ASSUME PoolInv, PoolInv', DealInv, NEW t \in Threads, ChunksDone(t)
  PROVE  DealInv'
  <1> USE DEF computeVars
  <1>1. /\ Dealing' /\ ProductIs' /\ Party' = Party /\ product' = product
        /\ Total(product)' = Total(product) /\ n_threads_cur' = n_threads_cur
        /\ \A u \in Party \ {t} : (Done(u)' <=> Done(u)) /\ Taken(u)' = Taken(u)
    BY ChunkStep
  <1>2. UNCHANGED <<current_chunk, computed>> /\ At(t, {"chunk"}) /\ Go(t, "after")
    BY DEF ChunksDone
  <1>3. Done(t)'
    <2>1. pc'[t] = "after"
      BY <1>2 DEF Go, PoolInv, TypeOK
    <2>2. QED
      BY <2>1, ChunkStep
  <1>4. /\ DealOK /\ t \in Party /\ ~Done(t) /\ Taken(t) = chunk[t] /\ chunk[t] \in Nat
        /\ ThisProduct(t) = product
    BY <1>2, AtChunk
  <1>5. PICK n \in Nat : n = Total(product)
    BY DealTypes
  <1>6. n <= chunk[t] /\ chunk[t] < current_chunk /\ current_chunk \in Nat
    BY <1>4, <1>5, DealTypes DEF ChunksDone, DealOK, TakenOK
  <1>7. TakenOK'
    BY <1>1, <1>2, <1>3, <1>4 DEF DealOK, TakenOK
  <1>8. n <= current_chunk
    BY <1>4, <1>6
  <1>9. NoneForgotten'
    <2>1. ASSUME NEW c \in Nat, c < current_chunk, c < n, c \notin computed
          PROVE  \E u \in Party' : ~Done(u)' /\ Taken(u)' = c
      <3>1. PICK u \in Party : ~Done(u) /\ Taken(u) = c
        BY <1>4, <1>5, <2>1 DEF DealOK, NoneForgotten
      <3>2. u # t
        BY <1>4, <1>6, <2>1, <3>1
      <3>3. QED
        BY <1>1, <3>1, <3>2
    <2>2. \A u \in Party' : Done(u)' => Total(product)' <= current_chunk'
      BY <1>1, <1>2, <1>5, <1>8
    <2>3. QED
      BY <1>1, <1>2, <1>5, <2>1, <2>2 DEF NoneForgotten
  <1>10. QED
    BY <1>1, <1>2, <1>4, <1>7, <1>9 DEF DealInv, DealOK

\* A chunk for each thread, and no more.
LEMMA DealOnlyOne ==
  ASSUME PoolInv, PoolInv', DealInv, NEW t \in Threads, ComputeChunk(t),
         nth[t] >= Total(ThisProduct(t))
  PROVE  DealInv'
  <1>1. /\ Dealing' /\ ProductIs' /\ Party' = Party /\ product' = product
        /\ Total(product)' = Total(product) /\ n_threads_cur' = n_threads_cur
        /\ \A u \in Party \ {t} : (Done(u)' <=> Done(u)) /\ Taken(u)' = Taken(u)
    BY ChunkStep
  <1>2. /\ UNCHANGED current_chunk /\ At(t, {"chunk"}) /\ Go(t, "after")
        /\ computed' = computed \cup {chunk[t]} /\ chunk[t] < Total(ThisProduct(t))
    BY DEF ComputeChunk
  <1>3. Done(t)'
    <2>1. pc'[t] = "after"
      BY <1>2 DEF Go, PoolInv, TypeOK
    <2>2. QED
      BY <2>1, ChunkStep
  <1>4. /\ DealOK /\ t \in Party /\ ~Done(t) /\ Taken(t) = chunk[t] /\ chunk[t] \in Nat
        /\ ThisProduct(t) = product /\ nth[t] = n_threads_cur
    BY <1>2, AtChunk
  <1>5. PICK n \in Nat : n = Total(product)
    BY DealTypes
  <1>6. n <= current_chunk /\ chunk[t] < current_chunk /\ chunk[t] < n
    BY <1>2, <1>4, <1>5, DealTypes DEF DealOK, TakenOK
  <1>7. TakenOK'
    <2>1. \A c \in computed' : c < Total(product)' /\ c < current_chunk'
      BY <1>1, <1>2, <1>4, <1>5, <1>6 DEF DealOK, TakenOK
    <2>2. ASSUME NEW u \in Party', ~Done(u)'
          PROVE  Taken(u)' < current_chunk' /\ Taken(u)' \notin computed'
      <3>1. u # t /\ u \in Party /\ ~Done(u) /\ Taken(u)' = Taken(u)
        BY <1>1, <1>3, <2>2
      <3>2. Taken(u) # Taken(t)
        BY <1>4, <3>1 DEF DealOK, TakenOK
      <3>3. QED
        BY <1>2, <1>4, <3>1, <3>2 DEF DealOK, TakenOK
    <2>3. \A u, v \in Party' : ~Done(u)' /\ ~Done(v)' /\ Taken(u)' = Taken(v)' => u = v
      BY <1>1, <1>3, <1>4 DEF DealOK, TakenOK
    <2>4. QED
      BY <2>1, <2>2, <2>3 DEF TakenOK
  <1>8. NoneForgotten'
    <2>1. ASSUME NEW c \in Nat, c < current_chunk, c < n, c \notin computed'
          PROVE  \E u \in Party' : ~Done(u)' /\ Taken(u)' = c
      <3>1. PICK u \in Party : ~Done(u) /\ Taken(u) = c
        BY <1>2, <1>4, <1>5, <2>1 DEF DealOK, NoneForgotten
      <3>2. u # t
        BY <1>2, <1>4, <2>1, <3>1
      <3>3. QED
        BY <1>1, <3>1, <3>2
    <2>2. \A u \in Party' : Done(u)' => Total(product)' <= current_chunk'
      BY <1>1, <1>2, <1>5, <1>6
    <2>3. QED
      BY <1>1, <1>2, <1>5, <2>1, <2>2 DEF NoneForgotten
  <1>9. QED
    BY <1>1, <1>2, <1>4, <1>7, <1>8 DEF DealInv, DealOK

\* The counter gives out its value, once.
LEMMA DealTakes ==
  ASSUME PoolInv, PoolInv', DealInv, NEW t \in Threads, ComputeChunk(t),
         ~(nth[t] >= Total(ThisProduct(t)))
  PROVE  DealInv'
  <1>1. /\ Dealing' /\ ProductIs' /\ Party' = Party /\ product' = product
        /\ Total(product)' = Total(product) /\ n_threads_cur' = n_threads_cur
        /\ \A u \in Party \ {t} : (Done(u)' <=> Done(u)) /\ Taken(u)' = Taken(u)
    BY ChunkStep
  <1>2. /\ current_chunk' = current_chunk + 1 /\ At(t, {"chunk"}) /\ pc' = pc
        /\ chunk' = [chunk EXCEPT ![t] = current_chunk]
        /\ computed' = computed \cup {chunk[t]} /\ chunk[t] < Total(ThisProduct(t))
    BY DEF ComputeChunk
  <1>3. ~Done(t)' /\ Taken(t)' = current_chunk
    <2>1. pc'[t] = "chunk" /\ chunk'[t] = current_chunk
      BY <1>2 DEF At, PoolInv, TypeOK
    <2>2. QED
      BY <2>1, ChunkStep
  <1>4. /\ DealOK /\ t \in Party /\ ~Done(t) /\ Taken(t) = chunk[t] /\ chunk[t] \in Nat
        /\ ThisProduct(t) = product
    BY <1>2, AtChunk
  <1>5. PICK n \in Nat, k \in Nat : n = Total(product) /\ k = current_chunk
    BY DealTypes
  <1>6. chunk[t] < k /\ chunk[t] < n /\ current_chunk' = k + 1
    BY <1>2, <1>4, <1>5 DEF DealOK, TakenOK
  <1>7. ASSUME NEW u \in Party, u # t, ~Done(u)
        PROVE  /\ Taken(u) \in Nat /\ Taken(u) < k /\ Taken(u) # chunk[t]
               /\ Taken(u) \notin computed
    BY <1>4, <1>5, <1>7, DealTypes DEF DealOK, TakenOK, Taken
  <1>8. TakenOK'
    <2>1. \A c \in computed' : c < Total(product)' /\ c < current_chunk'
      <3>1. \A c \in computed : c \in Nat /\ c < n /\ c < k
        BY <1>4, <1>5, DealTypes DEF DealOK, TakenOK
      <3>2. QED
        BY <1>1, <1>2, <1>4, <1>5, <1>6, <3>1
    <2>2. ASSUME NEW u \in Party', ~Done(u)'
          PROVE  Taken(u)' < current_chunk' /\ Taken(u)' \notin computed'
      <3>1. CASE u = t
        <4>1. k \notin computed
          BY <1>4, <1>5, DealTypes DEF DealOK, TakenOK
        <4>2. QED
          BY <1>2, <1>3, <1>5, <1>6, <3>1, <4>1
      <3>2. CASE u # t
        <4>1. u \in Party /\ ~Done(u) /\ Taken(u)' = Taken(u)
          BY <1>1, <2>2, <3>2
        <4>2. QED
          BY <1>2, <1>6, <1>7, <3>2, <4>1
      <3>3. QED
        BY <3>1, <3>2
    <2>3. ASSUME NEW u \in Party', NEW v \in Party', ~Done(u)', ~Done(v)',
                 Taken(u)' = Taken(v)'
          PROVE  u = v
      <3>1. \A x \in Party \ {t} : ~Done(x)' => Taken(x)' # k
        BY <1>1, <1>7
      <3>2. CASE u = t \/ v = t
        BY <1>1, <1>3, <1>5, <2>3, <3>1, <3>2
      <3>3. CASE u # t /\ v # t
        BY <1>1, <1>4, <2>3, <3>3 DEF DealOK, TakenOK
      <3>4. QED
        BY <3>2, <3>3
    <2>4. QED
      BY <2>1, <2>2, <2>3 DEF TakenOK
  <1>9. NoneForgotten'
    <2>1. ASSUME NEW c \in Nat, c < k + 1, c < n, c \notin computed'
          PROVE  \E u \in Party' : ~Done(u)' /\ Taken(u)' = c
      <3>1. CASE c = k
        BY <1>1, <1>3, <1>4, <1>5, <3>1
      <3>2. CASE c # k
        <4>1. c < k /\ c \notin computed /\ c # chunk[t]
          BY <1>2, <2>1, <3>2
        <4>2. PICK u \in Party : ~Done(u) /\ Taken(u) = c
          BY <1>4, <1>5, <2>1, <4>1 DEF DealOK, NoneForgotten
        <4>3. u # t
          BY <1>4, <4>1, <4>2
        <4>4. QED
          BY <1>1, <4>2, <4>3
      <3>3. QED
        BY <3>1, <3>2
    <2>2. \A u \in Party' : Done(u)' => Total(product)' <= current_chunk'
      <3>1. \A u \in Party : Done(u) => n <= k
        BY <1>4, <1>5 DEF DealOK, NoneForgotten
      <3>2. QED
        BY <1>1, <1>3, <1>5, <1>6, <3>1
    <2>3. QED
      BY <1>1, <1>5, <1>6, <2>1, <2>2 DEF NoneForgotten
  <1>10. n_threads_cur' <= current_chunk'
    BY <1>1, <1>4, <1>5, <1>6, DealTypes DEF DealOK
  <1>11. QED
    BY <1>1, <1>8, <1>9, <1>10 DEF DealInv, DealOK

----------------------------------------------------------------------------
(* Every step. *)

LEMMA DealCompute ==
  ASSUME PoolInv, PoolInv', DealInv, NEW t \in Threads, ComputeThread(t)
  PROVE  DealInv'
  BY DealBegins, DealConverts, DealRunsOut, DealOnlyOne, DealTakes, DealEnds, DealBarrier
     DEF ComputeThread

LEMMA DealStep ==
  ASSUME PoolInv, PoolInv', DealInv, [Next]_vars
  PROVE  DealInv'
  <1>1. CASE UNCHANGED vars
    BY <1>1, DealStutter
  <1>2. CASE Next
    BY <1>1, <1>2, NextIs, DealCaller, DealWorker, DealCompute
  <1>3. QED
    BY <1>1, <1>2

LEMMA DealInit == Init => DealInv
  <1> SUFFICES ASSUME Init PROVE DealInv
    OBVIOUS
  <1>1. pc[0] = "caller" /\ product = NoProduct /\ computed = {}
    BY ThreadsAre DEF Init
  <1>2. ~Dealing
    BY <1>1 DEF Dealing, Converted, At
  <1>3. QED
    BY <1>1, <1>2 DEF DealInv, DealtOut

\* What the invariant says of the entries.
LEMMA DealEntries == PoolInv /\ DealInv => EntriesOnce
  <1> SUFFICES ASSUME PoolInv, DealInv PROVE EntriesOnce
    OBVIOUS
  <1>1. ASSUME NEW t \in Threads, At(t, {"chunk"}), chunk[t] < Total(product)
        PROVE  /\ chunk[t] \notin computed
               /\ \A u \in Threads : At(u, {"chunk"}) /\ chunk[u] = chunk[t] => u = t
               /\ \A c \in computed : Tile(product, c) \cap Tile(product, chunk[t]) = {}
    <2>1. \A u \in Threads : At(u, {"chunk"}) =>
              u \in Party /\ ~Done(u) /\ Taken(u) = chunk[u] /\ chunk[u] \in Nat /\ DealOK
      BY AtChunk
    <2>2. /\ chunk[t] \notin computed
          /\ \A u \in Threads : At(u, {"chunk"}) /\ chunk[u] = chunk[t] => u = t
      BY <1>1, <2>1 DEF DealOK, TakenOK
    <2>3. ASSUME NEW c \in computed
          PROVE  Tile(product, c) \cap Tile(product, chunk[t]) = {}
      <3>1. c \in Nat /\ c < Total(product) /\ product \in Products /\ Total(product) \in Nat
        BY <1>1, <2>1, DealTypes DEF DealOK, TakenOK
      <3>2. c \in 0 .. Total(product) - 1 /\ chunk[t] \in 0 .. Total(product) - 1
            /\ c # chunk[t]
        BY <1>1, <2>1, <2>2, <3>1
      <3>3. QED
        BY <3>1, <3>2, TilesApart
    <2>4. QED
      BY <2>2, <2>3
  <1>2. ASSUME At(0, {"node", "caller"})
        PROVE  UNION {Tile(product, c) : c \in computed} = Entries(product)
    <2>1. ~Dealing
      BY <1>2 DEF Dealing, Converted, At
    <2>2. CASE computed = 0 .. Total(product) - 1
      BY <2>2, DealTypes, TilesCover
    <2>3. CASE product = NoProduct /\ computed = {}
      <3>1. Entries(product) = {}
        BY <2>3 DEF Entries, NoProduct
      <3>2. QED
        BY <2>3, <3>1
    <2>4. QED
      BY <2>1, <2>2, <2>3 DEF DealInv, DealtOut
  <1>3. QED
    BY <1>1, <1>2 DEF EntriesOnce

\* The entries of a product are computed once each, whatever its shape, however
\* many threads there are and whichever of them takes which chunk
\* (ggml-cpu.c:8747-8834).
THEOREM PoolEntriesOnce ==
  ASSUME ~MayGrow
  PROVE  SafeSpec => []EntriesOnce
  <1>1. Init => PoolInv /\ DealInv
    BY PoolInit, DealInit
  <1>2. PoolInv /\ DealInv /\ [Next]_vars => (PoolInv /\ DealInv)'
    BY PoolStep, DealStep
  <1>3. PoolInv /\ DealInv => EntriesOnce
    BY DealEntries
  <1>4. QED
    BY <1>1, <1>2, <1>3, PTL DEF SafeSpec
=============================================================================
