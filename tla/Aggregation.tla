---------------------------- MODULE Aggregation ----------------------------
(***************************************************************************)
(* The three users of the aggregation functions: queries with AGGREGATION, *)
(* compaction rules, and GROUPBY ... REDUCE.  They run on the main thread, *)
(* one command at a time, and share the functions but no state, so a       *)
(* behaviour follows one of them.                                          *)
(***************************************************************************)
EXTENDS AggregationIterator, Rollup, GroupBy

vars == <<queryVars, ruleVars, groupVars>>

Init == QueryInit /\ RuleInit /\ GroupInit

Next ==
  \/ rule = NoRule /\ req = NoRequest /\ QueryStep /\ UNCHANGED <<ruleVars, groupVars>>
  \/ q = NoQuery /\ req = NoRequest /\ RuleStep /\ UNCHANGED <<queryVars, groupVars>>
  \/ q = NoQuery /\ rule = NoRule /\ GroupStep /\ UNCHANGED <<queryVars, ruleVars>>

Spec == Init /\ [][Next]_vars

TypeOK == QueryTypeOK /\ RuleTypeOK /\ GroupTypeOK
=============================================================================
