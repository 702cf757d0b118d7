------------------------------- MODULE MCYdc -------------------------------
(* Instances of Ydc for TLC. *)
EXTENDS YdcProperties

\* 0, 1, 3 and 6 with either sign, 2 and 15, in base 4; some are typed with zeros
\* in front, and one is a sign alone.
McLiterals ==
  {bigint(u, neg) : u \in {<< 0, 0 >>, << 1 >>, << 3 >>, << 2, 1, 0 >>}, neg \in BOOLEAN}
    \cup {bigint(<< >>, TRUE), bigint(<< 2 >>, FALSE), bigint(<< 3, 3 >>, FALSE)}
=============================================================================
