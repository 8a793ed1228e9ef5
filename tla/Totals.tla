-------------------------------- MODULE Totals --------------------------------
(***************************************************************************)
(* Sums over the rows of a table, as the transactions read them (SUM of a  *)
(* column of the rows of S).                                               *)
(*                                                                         *)
(* A sum is the number of its units, each row having as many as its column *)
(* says, so that what is known about the cardinality of finite sets applies*)
(* to it. A negative value has no units: Total is for columns that are     *)
(* never negative, and Net for those that may be.                          *)
(***************************************************************************)
EXTENDS Integers, FiniteSets

Units(S, column) == UNION {{x} \X (1..column[x]) : x \in S}

Total(S, column) == Cardinality(Units(S, column))

Net(S, column) == Total(S, column) - Total(S, [x \in S |-> -column[x]])

=============================================================================
