---------------------------- MODULE MCThreadPool ----------------------------
(* ThreadPool for TLC: graphs short enough to check. *)
EXTENDS ThreadPool

Other == [nr0 |-> 0, nr1 |-> 0]
Product(n0, n1) == [nr0 |-> n0, nr1 |-> n1]

\* A product and an operation on it; a product on a vector.
ShortGraphs == {<<Product(2, 2), Other>>, <<Product(2, 1)>>}
=============================================================================
