-------------------------- MODULE MCBatchProduction --------------------------
(***************************************************************************)
(* Small instances of BatchProduction for TLC.                             *)
(***************************************************************************)
EXTENDS BatchProduction, TLC

CONSTANTS w1, w2, j1, j2, a, b, p1, p2, s1, s2

\* A scope is a product and one of its SKUs.
ProductsAndSkus == [product: {p1, p2}, sku: {s1, s2}]
Sku(p, s) == [product |-> p, sku |-> s]

\* Two jobs of one item each, both of the same product and SKU.
JobOfTwo == (a :> j1) @@ (b :> j2)
SameSku == (a :> Sku(p1, s1)) @@ (b :> Sku(p1, s1))

\* One job of two items.
JobOfPair == (a :> j1) @@ (b :> j1)

\* One job of one item.
JobOfOne == a :> j1
OneSku == a :> Sku(p1, s1)

WorkerSymmetry == Permutations(Workers)

=============================================================================
