---------------------------- MODULE MCRuleGraph ----------------------------
EXTENDS RuleGraph, TLC

CONSTANTS k1, k2, k3

\* COMPACTION_POLICY: two rules, whose destinations for k1 are k2 and k3.
MCAutoDests == (k1 :> {k2, k3}) @@ [k \in {k2, k3} |-> {}]

\* The two destinations may be exchanged.
MCSymmetry == Permutations({k2, k3})
=============================================================================
