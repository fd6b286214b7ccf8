-------------------------------- MODULE Sums --------------------------------
(***************************************************************************)
(* The sum of a function over a finite set, by counting: each element has  *)
(* as many units as the function gives it.  A sum that is stated this way  *)
(* can be reasoned about with what is known of cardinalities, which a sum  *)
(* that is computed by a fold cannot (see SumsProofs).                     *)
(***************************************************************************)
EXTENDS Integers, FiniteSets

\* The units of the elements of S.
Units(f, S) == UNION {{x} \X (1 .. f[x]) : x \in S}

\* The sum of f[x] over the x in S.
Total(f, S) == Cardinality(Units(f, S))
=============================================================================
