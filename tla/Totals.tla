--------------------------------- MODULE Totals ---------------------------------
(***************************************************************************)
(* Sums of balances, amounts and bonds, as the properties of the           *)
(* components state them.                                                  *)
(***************************************************************************)
EXTENDS Integers, FiniteSetsExt

\* The sum of f[x] for the elements x of S.
Total(f, S) == MapThenSumSet(LAMBDA x : f[x], S)

=================================================================================
