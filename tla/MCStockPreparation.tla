-------------------------- MODULE MCStockPreparation --------------------------
(* StockPreparation for TLC: a recent listing that owes one period, one     *)
(* that owes two, one whose exchange data are old, and the same outside of  *)
(* production or with external calls disabled.                              *)
EXTENDS StockPreparation, TLC

CONSTANTS p1, p2, j1, j2, j3

Usual == [listed |-> 200, newest |-> 100, offered |-> 2, derivable |-> TRUE, supported |-> TRUE,
          external |-> TRUE, production |-> TRUE, mapped |-> TRUE,
          policy |-> "nse_four_tier", bar |-> 1]

SomeStocks ==
  {Usual,
   [Usual EXCEPT !.listed = 100, !.offered = 1],
   [Usual EXCEPT !.newest = 300, !.production = FALSE],
   [Usual EXCEPT !.external = FALSE, !.listed = 100],
   [Usual EXCEPT !.supported = FALSE],
   [Usual EXCEPT !.offered = 1, !.bar = 9, !.derivable = FALSE]}

(* The recent listing alone, of which the database may fail one step.       *)
OneStock == {Usual}

Symmetry == Permutations(Jobs) \cup Permutations(Procs)
=============================================================================
