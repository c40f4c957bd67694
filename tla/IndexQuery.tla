---------------------------- MODULE IndexQuery -----------------------------
(***************************************************************************)
(* TS.QUERYINDEX, and the first half of TS.MGET and TS.MRANGE: from a list *)
(* of filters to the series that satisfy all of them.                      *)
(***************************************************************************)
EXTENDS Index, Naturals, Sequences, FiniteSets

CONSTANTS
  Filter,     \* the filters used: [label, values, list, negated]
  MaxFilters, \* bound: filters of one query
  Owned,      \* the keys in the slot range of this shard
  NoResult    \* NULL

ASSUME FilterAssumption ==
  Filter \subseteq [label : Label, values : SUBSET LabelValue, list : BOOLEAN, negated : BOOLEAN]
ASSUME KeyAssumption == IsFiniteSet(Key)
ASSUME MaxFiltersAssumption == MaxFilters \in Nat
ASSUME NoResultAssumption == \A S \in SUBSET Key : NoResult # S

(***************************************************************************)
(* parseLabelListFromArgs.  A filter is label=value, label=(value,...) or, *)
(* without a value, label=; each of them with != instead of =.             *)
(***************************************************************************)
PredicateType(f) ==
  CASE f.list /\ f.negated                     -> "LIST_NOTMATCH"
    [] f.list /\ ~f.negated                    -> "LIST_MATCH"
    [] ~f.list /\ f.values = {} /\ f.negated   -> "CONTAINS"
    [] ~f.list /\ f.values = {} /\ ~f.negated  -> "NCONTAINS"
    [] ~f.list /\ f.values # {} /\ f.negated   -> "NEQ"
    [] ~f.list /\ f.values # {} /\ ~f.negated  -> "EQ"

IsMatcher(f) == PredicateType(f) \in {"EQ", "CONTAINS", "LIST_MATCH"}

\* "please provide at least one matcher".
IsQuery(filters) ==
  \E i \in DOMAIN filters : PredicateType(filters[i]) \in {"EQ", "LIST_MATCH"}

----------------------------------------------------------------------------
GetPredicateKeysDict(f) ==
  IF PredicateType(f) \in {"CONTAINS", "NCONTAINS"} THEN index.labelsIndex[<<f.label>>]
  ELSE UNION {index.labelsIndex[<<f.label, v>>] : v \in f.values}

\* Mutant: a label=value filter adds to the result.
QueryIndexPredicateUnion(result, f) ==
  IF IsMatcher(f)
  THEN IF result = NoResult THEN GetPredicateKeysDict(f)
       ELSE result \cup GetPredicateKeysDict(f)
  ELSE IF result = NoResult THEN NoResult ELSE result \ GetPredicateKeysDict(f)

\* The first matcher is copied, later ones are intersected, the others are
\* taken away.
QueryIndexPredicate(result, f) ==
  IF IsMatcher(f)
  THEN IF result = NoResult THEN GetPredicateKeysDict(f)
       ELSE result \cap GetPredicateKeysDict(f)
  ELSE IF result = NoResult THEN NoResult ELSE result \ GetPredicateKeysDict(f)

\* The filter with the fewest keys changes places with the first one.
PromoteSmallestPredicateToFront(filters) ==
  LET size(i) == Cardinality(GetPredicateKeysDict(filters[i]))
      min     == CHOOSE i \in DOMAIN filters :
                   \A j \in DOMAIN filters : size(i) < size(j) \/ (size(i) = size(j) /\ i <= j)
  IN  [filters EXCEPT ![1] = filters[min], ![min] = filters[1]]

\* One pass over the filters, for the matchers or for the others.
ApplyPredicates(filters, matchers, start) ==
  LET result[i \in 0 .. Len(filters)] ==
        IF i = 0 THEN start
        ELSE IF IsMatcher(filters[i]) = matchers THEN QueryIndexPredicate(result[i - 1], filters[i])
        ELSE result[i - 1]
  IN  result[Len(filters)]

\* isTrimming hides the keys that have moved to another shard.
QueryIndex(filters, isTrimming) ==
  LET promoted == PromoteSmallestPredicateToFront(filters)
      matched  == ApplyPredicates(promoted, TRUE, NoResult)
      reduced  == ApplyPredicates(promoted, FALSE, matched)
  IN  IF reduced = NoResult THEN {}
      ELSE IF isTrimming THEN reduced \cap Owned ELSE reduced

----------------------------------------------------------------------------
\* docs/commands/ts.queryindex.md: what the filters mean for a series with the
\* labels L.
Satisfies(L, f) ==
  LET has == IF f.list \/ f.values # {} THEN \E v \in f.values : <<f.label, v>> \in L
             ELSE ~\E v \in LabelValue : <<f.label, v>> \in L
  IN  IF f.negated THEN ~has ELSE has

Queries == {filters \in UNION {[1 .. n -> Filter] : n \in 1 .. MaxFilters} : IsQuery(filters)}

Matching(filters) ==
  {k \in Key : IsSeries(db[k]) /\ \A i \in DOMAIN filters : Satisfies(db[k], filters[i])}

\* A query returns the series that satisfy all its filters, and nothing else,
\* in whatever order the filters come and whichever is promoted to the front,
\* as long as no key was overwritten without an event.
QueriesExact ==
  stale = {} => \A filters \in Queries :
    /\ QueryIndex(filters, FALSE) = Matching(filters)
    /\ QueryIndex(filters, TRUE) = Matching(filters) \cap Owned
=============================================================================
