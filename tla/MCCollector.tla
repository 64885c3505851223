------------------------------ MODULE MCCollector ------------------------------
(* Small instances of Collector: all constants are numbers.                *)
EXTENDS Collector
=============================================================================
