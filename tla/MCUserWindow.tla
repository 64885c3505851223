----------------------------- MODULE MCUserWindow -----------------------------
(* Small instances of UserWindow.                                          *)
EXTENDS UserWindow, TLC

CONSTANTS k1, e1, e2

MCIds == {e1, e2}
Interchangeable == Permutations(MCIds)

(* Event times anywhere in the run of the clock, whatever it shows.        *)
MCTimes == 0..MaxTime
=============================================================================
