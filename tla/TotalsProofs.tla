----------------------------- MODULE TotalsProofs -----------------------------
(***************************************************************************)
(* Lemmas about sums over the rows of a table.                             *)
(***************************************************************************)
EXTENDS Totals, FiniteSetTheorems, TLAPS

\* Finitely many rows have finitely many units, so their sum is a number.
LEMMA TotalType ==
    ASSUME NEW S, IsFiniteSet(S), NEW f, \A x \in S : f[x] \in Int
    PROVE  IsFiniteSet(Units(S, f)) /\ Total(S, f) \in Nat
<1> DEFINE Cover == [x \in S |-> {x} \X (1..f[x])]
           Parts == {{x} \X (1..f[x]) : x \in S}
<1>1. Cover \in Surjection(S, Parts)
  BY DEF Surjection
<1>2. IsFiniteSet(Parts)
  BY <1>1, FS_Surjection
<1>3. \A P \in Parts : IsFiniteSet(P)
  <2> SUFFICES ASSUME NEW x \in S
               PROVE  IsFiniteSet({x} \X (1..f[x]))
    OBVIOUS
  <2>1. IsFiniteSet({x})
    BY FS_Singleton
  <2>2. IsFiniteSet(1..f[x])
    BY FS_Interval
  <2> QED
    BY <2>1, <2>2, FS_Product
<1>4. IsFiniteSet(UNION Parts)
  BY <1>2, <1>3, FS_UNION
<1> QED
  BY <1>4, FS_CardinalityType DEF Total, Units

\* No rows, no sum.
LEMMA TotalEmpty ==
    ASSUME NEW f
    PROVE  Total({}, f) = 0
<1>1. Units({}, f) = {}
  BY DEF Units
<1> QED
  BY <1>1, FS_EmptySet DEF Total

\* The sum of one row is its value.
LEMMA TotalOne ==
    ASSUME NEW x, NEW f, f[x] \in Nat
    PROVE  Total({x}, f) = f[x]
<1>1. Units({x}, f) = {x} \X (1..f[x])
  BY DEF Units
<1>2. IsFiniteSet({x}) /\ Cardinality({x}) = 1
  BY FS_Singleton
<1>3. IsFiniteSet(1..f[x]) /\ Cardinality(1..f[x]) = f[x]
  BY FS_Interval
<1>4. Cardinality({x} \X (1..f[x])) = Cardinality({x}) * Cardinality(1..f[x])
  <2>1. IsFiniteSet({x}) /\ IsFiniteSet(1..f[x])
    BY <1>2, <1>3
  <2> QED
    BY <2>1, FS_Product, Zenon
<1>5. Cardinality({x} \X (1..f[x])) = 1 * f[x]
  BY <1>2, <1>3, <1>4
<1>6. 1 * f[x] = f[x]
  OBVIOUS
<1> QED
  BY <1>1, <1>5, <1>6 DEF Total

\* A sum reads the rows it is over, and nothing else.
LEMMA TotalSame ==
    ASSUME NEW S, NEW f, NEW g, \A x \in S : f[x] = g[x]
    PROVE  Total(S, f) = Total(S, g)
<1>1. Units(S, f) = Units(S, g)
  <2>1. {{x} \X (1..f[x]) : x \in S} = {{x} \X (1..g[x]) : x \in S}
    OBVIOUS
  <2> QED BY <2>1 DEF Units
<1> QED
  BY <1>1 DEF Total

\* The sums of rows apart add up.
LEMMA TotalSplit ==
    ASSUME NEW S, IsFiniteSet(S), NEW T, IsFiniteSet(T), S \cap T = {},
           NEW f, \A x \in S \cup T : f[x] \in Int
    PROVE  Total(S \cup T, f) = Total(S, f) + Total(T, f)
<1>1. IsFiniteSet(Units(S, f)) /\ IsFiniteSet(Units(T, f))
  BY TotalType
<1>2. Units(S \cup T, f) = Units(S, f) \cup Units(T, f)
  BY DEF Units
<1>3. Units(S, f) \cap Units(T, f) = {}
  <2> SUFFICES ASSUME NEW p \in Units(S, f), p \in Units(T, f)
               PROVE  FALSE
    OBVIOUS
  <2>1. PICK x \in S : p \in {x} \X (1..f[x])
    BY DEF Units
  <2>2. PICK y \in T : p \in {y} \X (1..f[y])
    BY DEF Units
  <2> QED
    BY <2>1, <2>2
<1>4. Cardinality(Units(S, f)) \in Nat /\ Cardinality(Units(T, f)) \in Nat
  BY <1>1, FS_CardinalityType
<1>5. Cardinality(Units(S, f) \cap Units(T, f)) = 0
  BY <1>3, FS_EmptySet
<1>6. Cardinality(Units(S, f) \cup Units(T, f)) =
          Cardinality(Units(S, f)) + Cardinality(Units(T, f)) - Cardinality(Units(S, f) \cap Units(T, f))
  BY <1>1, FS_Union, Zenon
<1>7. Cardinality(Units(S, f) \cup Units(T, f)) = Cardinality(Units(S, f)) + Cardinality(Units(T, f))
  BY <1>4, <1>5, <1>6
<1> QED
  BY <1>2, <1>7, Zenon DEF Total

\* One row more adds its value.
LEMMA TotalAdd ==
    ASSUME NEW S, IsFiniteSet(S), NEW x, x \notin S,
           NEW f, \A y \in S : f[y] \in Int, f[x] \in Nat
    PROVE  Total(S \cup {x}, f) = Total(S, f) + f[x]
<1>1. IsFiniteSet({x}) /\ S \cap {x} = {}
  BY FS_Singleton
<1>2. Total({x}, f) = f[x]
  BY TotalOne
<1> QED
  BY <1>1, <1>2, TotalSplit

\* Fewer rows, or smaller ones, have the smaller sum.
LEMMA TotalMonotone ==
    ASSUME NEW S, IsFiniteSet(S), NEW T \in SUBSET S, NEW f, NEW g,
           \A x \in S : f[x] \in Int, \A x \in T : g[x] \in Int /\ g[x] <= f[x]
    PROVE  Total(T, g) <= Total(S, f)
<1>1. Units(T, g) \subseteq Units(S, f)
  BY DEF Units
<1>2. IsFiniteSet(Units(S, f))
  BY TotalType
<1> QED
  BY <1>1, <1>2, FS_Subset DEF Total

\* Rows that overlap have at most the sum of their sums.
LEMMA TotalUnion ==
    ASSUME NEW S, IsFiniteSet(S), NEW T, IsFiniteSet(T), NEW f, \A x \in S \cup T : f[x] \in Int
    PROVE  Total(S \cup T, f) <= Total(S, f) + Total(T, f)
<1> DEFINE R == T \ S
<1>1. IsFiniteSet(R) /\ R \in SUBSET T
  BY FS_Subset
<1>2. S \cup T = S \cup R /\ S \cap R = {}
  OBVIOUS
<1>3. Total(S \cup R, f) = Total(S, f) + Total(R, f)
  <2> HIDE DEF R
  <2> QED BY <1>1, <1>2, TotalSplit
<1>4. Total(R, f) <= Total(T, f)
  <2> HIDE DEF R
  <2> QED BY <1>1, TotalMonotone
<1>5. Total(S, f) \in Nat /\ Total(R, f) \in Nat /\ Total(T, f) \in Nat
  <2> HIDE DEF R
  <2> QED BY <1>1, TotalType
<1>6. Total(S \cup T, f) = Total(S, f) + Total(R, f)
  BY <1>2, <1>3, Zenon
<1> HIDE DEF R
<1> QED
  BY <1>4, <1>5, <1>6

\* Rows that have nothing, or less, add nothing.
LEMMA TotalNone ==
    ASSUME NEW S, NEW f, \A x \in S : f[x] \in Int /\ f[x] <= 0
    PROVE  Total(S, f) = 0
<1>1. \A x \in S : 1..f[x] = {}
  OBVIOUS
<1>2. Units(S, f) = {}
  BY <1>1 DEF Units
<1> QED
  BY <1>2, FS_EmptySet DEF Total

\* A net sum is a number, and reads the rows it is over.
LEMMA NetType ==
    ASSUME NEW S, IsFiniteSet(S), NEW f, \A x \in S : f[x] \in Int
    PROVE  Net(S, f) \in Int
<1> DEFINE g == [x \in S |-> -f[x]]
<1>1. \A x \in S : g[x] \in Int
  OBVIOUS
<1> HIDE DEF g
<1>2. Total(S, f) \in Nat /\ Total(S, g) \in Nat
  BY <1>1, TotalType
<1> QED
  BY <1>2 DEF Net, g

LEMMA NetSame ==
    ASSUME NEW S, NEW f, NEW g, \A x \in S : f[x] = g[x]
    PROVE  Net(S, f) = Net(S, g)
<1>1. [x \in S |-> -f[x]] = [x \in S |-> -g[x]]
  OBVIOUS
<1>2. Total(S, f) = Total(S, g)
  BY TotalSame
<1> QED
  BY <1>1, <1>2 DEF Net

\* The net sums of rows apart add up.
LEMMA NetSplit ==
    ASSUME NEW S, IsFiniteSet(S), NEW T, IsFiniteSet(T), S \cap T = {},
           NEW f, \A x \in S \cup T : f[x] \in Int
    PROVE  Net(S \cup T, f) = Net(S, f) + Net(T, f)
<1> DEFINE all == [x \in S \cup T |-> -f[x]]
           one == [x \in S |-> -f[x]]
           two == [x \in T |-> -f[x]]
<1>1. (\A x \in S \cup T : all[x] \in Int) /\ (\A x \in S : one[x] \in Int) /\ (\A x \in T : two[x] \in Int)
  OBVIOUS
<1>2. (\A x \in S : all[x] = one[x]) /\ (\A x \in T : all[x] = two[x])
  OBVIOUS
<1> HIDE DEF all, one, two
<1>3. Total(S \cup T, f) = Total(S, f) + Total(T, f)
  BY TotalSplit
<1>4. Total(S \cup T, all) = Total(S, all) + Total(T, all)
  BY <1>1, TotalSplit
<1>5. Total(S, all) = Total(S, one) /\ Total(T, all) = Total(T, two)
  BY <1>2, TotalSame
<1>6. /\ Total(S, f) \in Nat /\ Total(T, f) \in Nat
      /\ Total(S, one) \in Nat /\ Total(T, two) \in Nat
  BY <1>1, TotalType
<1>7. /\ Net(S \cup T, f) = Total(S \cup T, f) - Total(S \cup T, all)
      /\ Net(S, f) = Total(S, f) - Total(S, one) /\ Net(T, f) = Total(T, f) - Total(T, two)
  BY DEF Net, all, one, two
<1> QED
  BY <1>3, <1>4, <1>5, <1>6, <1>7

\* The net sum of one row is its value, negative or not.
LEMMA NetOne ==
    ASSUME NEW x, NEW f, f[x] \in Int
    PROVE  Net({x}, f) = f[x]
<1> DEFINE g == [y \in {x} |-> -f[y]]
<1>1. g[x] = -f[x] /\ Net({x}, f) = Total({x}, f) - Total({x}, g)
  BY DEF Net
<1> HIDE DEF g
<1>2. CASE f[x] >= 0
  <2>1. Total({x}, f) = f[x]
    <3>1. f[x] \in Nat
      BY <1>2
    <3> QED
      BY <3>1, TotalOne
  <2>2. Total({x}, g) = 0
    BY <1>1, <1>2, TotalNone
  <2> QED
    BY <1>1, <2>1, <2>2
<1>3. CASE f[x] < 0
  <2>1. Total({x}, f) = 0
    BY <1>3, TotalNone
  <2>2. Total({x}, g) = -f[x]
    <3>1. g[x] \in Nat
      BY <1>1, <1>3
    <3>2. Total({x}, g) = g[x]
      BY <3>1, TotalOne
    <3> QED
      BY <1>1, <3>2
  <2> QED
    BY <1>1, <2>1, <2>2
<1> QED
  BY <1>2, <1>3

\* A row that changes moves the net sum by its change.
LEMMA NetChange ==
    ASSUME NEW S, IsFiniteSet(S), NEW x \in S, NEW f, NEW g,
           \A y \in S : f[y] \in Int /\ g[y] \in Int,
           \A y \in S \ {x} : g[y] = f[y]
    PROVE  Net(S, g) = Net(S, f) + g[x] - f[x]
<1> DEFINE R == S \ {x}
<1>1. IsFiniteSet(R) /\ IsFiniteSet({x}) /\ R \cap {x} = {} /\ R \cup {x} = S
  BY FS_Subset, FS_Singleton
<1>2. (\A y \in R : f[y] \in Int /\ g[y] = f[y]) /\ f[x] \in Int /\ g[x] \in Int
  OBVIOUS
<1> HIDE DEF R
<1>3. \A y \in R \cup {x} : f[y] \in Int /\ g[y] \in Int
  BY <1>1
<1>4. Net(R \cup {x}, f) = Net(R, f) + Net({x}, f)
  BY <1>1, <1>3, NetSplit
<1>5. Net(R \cup {x}, g) = Net(R, g) + Net({x}, g)
  BY <1>1, <1>3, NetSplit
<1>6. Net(R, g) = Net(R, f)
  BY <1>2, NetSame
<1>7. Net({x}, f) = f[x] /\ Net({x}, g) = g[x]
  BY <1>2, NetOne
<1>8. Net(R, f) \in Int
  BY <1>1, <1>2, NetType
<1>9. Net(S, f) = Net(R, f) + f[x] /\ Net(S, g) = Net(R, f) + g[x]
  BY <1>1, <1>4, <1>5, <1>6, <1>7
<1> QED
  BY <1>2, <1>8, <1>9

\* Rows that are emptied take their sum away.
LEMMA NetEmptied ==
    ASSUME NEW S, IsFiniteSet(S), NEW T \in SUBSET S, NEW f, NEW g,
           \A y \in S : f[y] \in Int, \A y \in T : f[y] >= 0 /\ g[y] = 0,
           \A y \in S \ T : g[y] = f[y]
    PROVE  Net(S, g) = Net(S, f) - Total(T, f)
<1> DEFINE R == S \ T
           m == [y \in T |-> -f[y]]
           n == [y \in T |-> -g[y]]
<1>1. IsFiniteSet(R) /\ IsFiniteSet(T) /\ R \cap T = {} /\ R \cup T = S
  BY FS_Subset
<1>2. /\ \A y \in R \cup T : f[y] \in Int /\ g[y] \in Int
      /\ \A y \in R : f[y] \in Int /\ g[y] = f[y]
      /\ \A y \in T : /\ f[y] \in Int /\ g[y] \in Int /\ g[y] <= 0
                      /\ m[y] \in Int /\ m[y] <= 0 /\ n[y] \in Int /\ n[y] <= 0
  OBVIOUS
<1>3. Net(T, f) = Total(T, f) - Total(T, m) /\ Net(T, g) = Total(T, g) - Total(T, n)
  BY DEF Net
<1> HIDE DEF R, m, n
<1>4. Total(T, m) = 0 /\ Total(T, n) = 0 /\ Total(T, g) = 0
  BY <1>2, TotalNone
<1>5. Total(T, f) \in Nat /\ Net(R, f) \in Int
  BY <1>1, <1>2, TotalType, NetType
<1>6. Net(R \cup T, f) = Net(R, f) + Net(T, f)
  BY <1>1, <1>2, NetSplit
<1>7. Net(R \cup T, g) = Net(R, g) + Net(T, g)
  BY <1>1, <1>2, NetSplit
<1>8. Net(R, g) = Net(R, f)
  BY <1>2, NetSame
<1>9. Net(T, f) = Total(T, f) /\ Net(T, g) = 0
  BY <1>3, <1>4, <1>5
<1>10. Net(S, f) = Net(R, f) + Net(T, f) /\ Net(S, g) = Net(R, g) + Net(T, g)
  BY <1>1, <1>6, <1>7
<1> QED
  BY <1>5, <1>8, <1>9, <1>10

=============================================================================
