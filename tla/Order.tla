-------------------------------- MODULE Order --------------------------------
(***************************************************************************)
(* The order in which the programs list numbered things: listmap iterates  *)
(* in the order of its keys, ls in that of the names.  (SortSeq, on which  *)
(* the community modules sort, is not used: TLC overrides it, and the      *)
(* provers know no definition of it.)                                      *)
(***************************************************************************)
EXTENDS Integers, FiniteSets

\* The elements of a finite set of numbers, each once, the smallest first.
InOrder(S) == CHOOSE s \in [1 .. Cardinality(S) -> S] :
                 \A i, j \in DOMAIN s : i < j => s[i] < s[j]
=============================================================================
