----------------------------- MODULE MCRuleEngine -----------------------------
(* Small instances of RuleEngine.                                          *)
EXTENDS RuleEngine, TLC

CONSTANTS w1, w2, v1, v2, spot, perp

MCWriters == {w1, w2}
MCEvaluators == {v1, v2}
Interchangeable == Permutations(MCWriters) \cup Permutations(MCEvaluators)

(* Configured thresholds: all rules on, or off.                            *)
On == [t \in RuleTypes |-> 2]
Off == [t \in RuleTypes |-> 0]
=============================================================================
