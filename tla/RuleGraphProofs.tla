-------------------------- MODULE RuleGraphProofs --------------------------
(***************************************************************************)
(* No series is both a source and a destination, for every set of keys,    *)
(* every compaction policy and every number of rules.                      *)
(*                                                                         *)
(* NoChains speaks of rules whose two halves agree, and is not inductive:  *)
(* a half that was left behind may find a counterpart again.  The          *)
(* invariant is about each series alone, halves included: one that has a   *)
(* srcKey has no rules.  It also holds for a dumped value, which RESTORE   *)
(* puts back under any key.                                                *)
(*                                                                         *)
(* The same invariant carries the refinement: what the commands do to the  *)
(* rules whose halves agree is what LinkGraph says.                        *)
(***************************************************************************)
EXTENDS RuleGraph, TLAPS

Keyspace == [Key -> Series \cup {Absent}]

\* A series with a srcKey has no rules.
OneRole(s) == s.src = NoKey \/ \A d \in Key : s.rules[d] = 0

Good(g) == g \in Keyspace /\ \A k \in Key : g[k] # Absent => OneRole(g[k])

IndInv ==
  /\ Good(db)
  /\ persisting \in BOOLEAN
  /\ dumped \in Series \cup {Absent} /\ (dumped # Absent => OneRole(dumped))

----------------------------------------------------------------------------
(***************************************************************************)
(* Keyspaces.                                                              *)
(***************************************************************************)

\* A stored value that is not Absent is a series.
LEMMA GoodFacts ==
  ASSUME NEW g, Good(g), NEW k \in Key, g[k] # Absent
  PROVE  /\ g[k] \in Series /\ OneRole(g[k])
         /\ g[k].src \in Key \cup {NoKey} /\ g[k].rules \in [Key -> Nat]
         /\ g[k] = [src |-> g[k].src, rules |-> g[k].rules]
BY DEF Good, Keyspace, Series

\* Storing a series with one role.
LEMMA PutGood ==
  ASSUME NEW g, Good(g), NEW k \in Key, NEW s \in Series, OneRole(s)
  PROVE  /\ Good([g EXCEPT ![k] = s])
         /\ \A j \in Key : [g EXCEPT ![k] = s][j] = IF j = k THEN s ELSE g[j]
         /\ s # Absent
BY AbsentAssumption DEF Good, Keyspace

\* A new series has no role yet.
LEMMA EmptySeriesGood == EmptySeries \in Series /\ OneRole(EmptySeries)
BY DEF EmptySeries, NoRules, Series, OneRole

\* Removing a key.
LEMMA RemoveGood ==
  ASSUME NEW g, Good(g), NEW k \in Key
  PROVE  Good([g EXCEPT ![k] = Absent])
BY DEF Good, Keyspace

\* An assignment to one field of a stored series.
SrcSet(g, k, a) == [g EXCEPT ![k].src = a]
RulesSet(g, k, r) == [g EXCEPT ![k].rules = r]

\* It replaces the series by another one.
LEMMA FieldUpdates ==
  ASSUME NEW g, Good(g), NEW k \in Key, g[k] # Absent, NEW a, NEW r
  PROVE  /\ SrcSet(g, k, a) = [g EXCEPT ![k] = [src |-> a, rules |-> g[k].rules]]
         /\ RulesSet(g, k, r) = [g EXCEPT ![k] = [src |-> g[k].src, rules |-> r]]
<1>1. g[k] \in Series
  BY GoodFacts
<1>2. ASSUME NEW c \in Series
      PROVE  /\ [c EXCEPT !.src = a] = [src |-> a, rules |-> c.rules]
             /\ [c EXCEPT !.rules = r] = [src |-> c.src, rules |-> r]
  BY DEF Series
<1>3. /\ SrcSet(g, k, a) = [g EXCEPT ![k] = [g[k] EXCEPT !.src = a]]
      /\ RulesSet(g, k, r) = [g EXCEPT ![k] = [g[k] EXCEPT !.rules = r]]
  BY DEF SrcSet, RulesSet
<1>4. /\ [g[k] EXCEPT !.src = a] = [src |-> a, rules |-> g[k].rules]
      /\ [g[k] EXCEPT !.rules = r] = [src |-> g[k].src, rules |-> r]
  BY <1>1, <1>2
<1> QED BY <1>3, <1>4

\* Another source, or none; a series with rules can only lose it.
LEMMA SetSource ==
  ASSUME NEW g, Good(g), NEW k \in Key, g[k] # Absent, NEW a \in Key \cup {NoKey},
         a = NoKey \/ \A d \in Key : g[k].rules[d] = 0
  PROVE  /\ Good(SrcSet(g, k, a))
         /\ \A j \in Key \ {k} : SrcSet(g, k, a)[j] = g[j]
         /\ SrcSet(g, k, a)[k] # Absent
         /\ SrcSet(g, k, a)[k].src = a
         /\ SrcSet(g, k, a)[k].rules = g[k].rules
<1> DEFINE s == [src |-> a, rules |-> g[k].rules]
<1>1. s \in Series /\ OneRole(s)
  BY GoodFacts DEF Series, OneRole
<1>2. SrcSet(g, k, a) = [g EXCEPT ![k] = s]
  BY FieldUpdates
<1>3. s.src = a /\ s.rules = g[k].rules
  OBVIOUS
<1> HIDE DEF s
<1>4. /\ Good([g EXCEPT ![k] = s]) /\ s # Absent
      /\ \A j \in Key : [g EXCEPT ![k] = s][j] = IF j = k THEN s ELSE g[j]
  BY <1>1, PutGood
<1> QED BY <1>2, <1>3, <1>4

\* Other rules; a series with a source can only lose them.
LEMMA SetRules ==
  ASSUME NEW g, Good(g), NEW k \in Key, g[k] # Absent, NEW r \in [Key -> Nat],
         g[k].src = NoKey \/ \A d \in Key : r[d] = 0
  PROVE  /\ Good(RulesSet(g, k, r))
         /\ \A j \in Key \ {k} : RulesSet(g, k, r)[j] = g[j]
         /\ RulesSet(g, k, r)[k] # Absent
         /\ RulesSet(g, k, r)[k].src = g[k].src
         /\ RulesSet(g, k, r)[k].rules = r
<1> DEFINE s == [src |-> g[k].src, rules |-> r]
<1>1. s \in Series /\ OneRole(s)
  BY GoodFacts DEF Series, OneRole
<1>2. RulesSet(g, k, r) = [g EXCEPT ![k] = s]
  BY FieldUpdates
<1>3. s.src = g[k].src /\ s.rules = r
  OBVIOUS
<1> HIDE DEF s
<1>4. /\ Good([g EXCEPT ![k] = s]) /\ s # Absent
      /\ \A j \in Key : [g EXCEPT ![k] = s][j] = IF j = k THEN s ELSE g[j]
  BY <1>1, PutGood
<1> QED BY <1>2, <1>3, <1>4

----------------------------------------------------------------------------
(***************************************************************************)
(* deleteReferenceToDeletedSeries.                                         *)
(***************************************************************************)

\* Forgetting a source that has no rule for the series.
LEMMA WithoutDeletedSourceGood ==
  ASSUME NEW g, Good(g), NEW k \in Key, g[k] # Absent, NEW name \in Key
  PROVE  LET h == WithoutDeletedSource(g, k, name) IN
         /\ Good(h) /\ h[k] # Absent
         /\ \A j \in Key \ {k} : h[j] = g[j]
         /\ h[k].rules = g[k].rules
         /\ h[k].src = NoKey \/ (/\ h[k].src = g[k].src
                                 /\ g[g[k].src] # Absent /\ g[g[k].src].rules[name] # 0)
<1> DEFINE gone == g[k].src # NoKey /\ (g[g[k].src] = Absent \/ g[g[k].src].rules[name] = 0)
<1>1. WithoutDeletedSource(g, k, name) = IF gone THEN SrcSet(g, k, NoKey) ELSE g
  BY DEF WithoutDeletedSource, SrcSet
<1>2. CASE gone
  <2>1. WithoutDeletedSource(g, k, name) = SrcSet(g, k, NoKey)
    BY <1>1, <1>2
  <2> QED BY <2>1, SetSource
<1>3. CASE ~gone
  BY <1>1, <1>3
<1> QED BY <1>2, <1>3

\* Dropping the rules whose destination names another source.
LEMMA WithoutDeletedDestsGood ==
  ASSUME NEW g, Good(g), NEW k \in Key, g[k] # Absent, NEW name \in Key
  PROVE  LET h == WithoutDeletedDests(g, k, name) IN
         /\ Good(h) /\ h[k] # Absent
         /\ \A j \in Key \ {k} : h[j] = g[j]
         /\ h[k].src = g[k].src
         /\ \A d \in Key : h[k].rules[d] # 0 =>
              g[k].rules[d] # 0 /\ g[d] # Absent /\ g[d].src = name
<1> DEFINE r == [d \in Key |-> IF g[d] # Absent /\ g[d].src = name THEN g[k].rules[d] ELSE 0]
<1>1. g[k].rules \in [Key -> Nat] /\ OneRole(g[k])
  BY GoodFacts
<1>2. r \in [Key -> Nat]
  BY <1>1
<1>3. g[k].src = NoKey \/ \A d \in Key : r[d] = 0
  BY <1>1 DEF OneRole
<1>4. \A d \in Key : r[d] # 0 => g[k].rules[d] # 0 /\ g[d] # Absent /\ g[d].src = name
  OBVIOUS
<1>5. WithoutDeletedDests(g, k, name) = RulesSet(g, k, r)
  <2>1. g[k] = [src |-> g[k].src, rules |-> g[k].rules] /\ g \in Keyspace
    BY GoodFacts DEF Good
  <2> QED BY <2>1 DEF WithoutDeletedDests, RulesSet, Keyspace
<1> HIDE DEF r
<1>6. /\ Good(RulesSet(g, k, r)) /\ RulesSet(g, k, r)[k] # Absent
      /\ \A j \in Key \ {k} : RulesSet(g, k, r)[j] = g[j]
      /\ RulesSet(g, k, r)[k].src = g[k].src
      /\ RulesSet(g, k, r)[k].rules = r
  BY <1>2, <1>3, SetRules
<1> QED BY <1>4, <1>5, <1>6

\* Both: what is left are rules to series that name this one as their source.
LEMMA CleanedGood ==
  ASSUME NEW g, Good(g), NEW k \in Key, g[k] # Absent, NEW name \in Key
  PROVE  LET h == Cleaned(g, k, name) IN
         /\ Good(h) /\ h[k] # Absent
         /\ \A j \in Key \ {k} : h[j] = g[j]
         /\ h[k].src = NoKey \/ (/\ h[k].src = g[k].src
                                 /\ g[g[k].src] # Absent /\ g[g[k].src].rules[name] # 0)
         /\ \A d \in Key : h[k].rules[d] # 0 =>
              /\ g[k].rules[d] # 0
              /\ d # k => g[d] # Absent /\ g[d].src = name
              /\ d = k => h[k].src = name
<1> DEFINE f == WithoutDeletedSource(g, k, name)
           h == WithoutDeletedDests(f, k, name)
<1>1. /\ Good(f) /\ f[k] # Absent
      /\ \A j \in Key \ {k} : f[j] = g[j]
      /\ f[k].rules = g[k].rules
      /\ f[k].src = NoKey \/ (/\ f[k].src = g[k].src
                              /\ g[g[k].src] # Absent /\ g[g[k].src].rules[name] # 0)
  BY WithoutDeletedSourceGood
<1> HIDE DEF f
<1>2. /\ Good(h) /\ h[k] # Absent
      /\ \A j \in Key \ {k} : h[j] = f[j]
      /\ h[k].src = f[k].src
      /\ \A d \in Key : h[k].rules[d] # 0 =>
           f[k].rules[d] # 0 /\ f[d] # Absent /\ f[d].src = name
  BY <1>1, WithoutDeletedDestsGood
<1>3. Cleaned(g, k, name) = h
  BY DEF Cleaned, f
<1> HIDE DEF h
<1> QED BY <1>1, <1>2, <1>3

----------------------------------------------------------------------------
(***************************************************************************)
(* The commands.                                                           *)
(***************************************************************************)

\* A rule from a series without a source to one without rules.
LEMMA LinkedGood ==
  ASSUME NEW g, Good(g), NEW s \in Key, NEW d \in Key, s # d,
         g[s] # Absent, g[s].src = NoKey,
         g[d] # Absent, \A e \in Key : g[d].rules[e] = 0
  PROVE  Good(Linked(g, s, d))
<1> DEFINE r == [g[s].rules EXCEPT ![d] = @ + 1]
           f == RulesSet(g, s, r)
<1>1. g[s].rules \in [Key -> Nat]
  BY GoodFacts
<1>2. r \in [Key -> Nat]
  BY <1>1
<1>3. Linked(g, s, d) = SrcSet(f, d, s)
  BY DEF Linked, SrcSet, RulesSet
<1> HIDE DEF r
<1>4. Good(f) /\ \A j \in Key \ {s} : f[j] = g[j]
  BY <1>2, SetRules
<1> HIDE DEF f
<1>5. f[d] # Absent /\ \A e \in Key : f[d].rules[e] = 0
  BY <1>4
<1>6. Good(SrcSet(f, d, s))
  BY <1>4, <1>5, SetSource
<1> QED BY <1>3, <1>6

\* A rule taken out of a list, and one whose destination is renamed.
RuleLess(g, s, a) == [g EXCEPT ![s].rules[a] = @ - 1]
RuleMoved(g, s, a, b) == [g EXCEPT ![s].rules = RuleRenamed(@, a, b)]

\* Only a series without a source has rules to take out.
LEMMA RuleLessGood ==
  ASSUME NEW g, Good(g), NEW s \in Key, g[s] # Absent, NEW a \in Key, g[s].rules[a] # 0
  PROVE  /\ Good(RuleLess(g, s, a))
         /\ \A j \in Key : g[j] # Absent => RuleLess(g, s, a)[j] # Absent
<1> DEFINE r == [g[s].rules EXCEPT ![a] = @ - 1]
<1>1. g[s].rules \in [Key -> Nat] /\ g[s].src = NoKey
  BY GoodFacts DEF OneRole
<1>2. r \in [Key -> Nat]
  BY <1>1
<1>3. RuleLess(g, s, a) = RulesSet(g, s, r)
  BY DEF RulesSet, RuleLess
<1> HIDE DEF r
<1>4. /\ Good(RulesSet(g, s, r)) /\ RulesSet(g, s, r)[s] # Absent
      /\ \A j \in Key \ {s} : RulesSet(g, s, r)[j] = g[j]
  BY <1>1, <1>2, SetRules
<1> QED BY <1>3, <1>4

\* The same for a rule that changes its destination.
LEMMA RuleMovedGood ==
  ASSUME NEW g, Good(g), NEW s \in Key, g[s] # Absent, NEW a \in Key, g[s].rules[a] # 0,
         NEW b \in Key, a # b
  PROVE  /\ Good(RuleMoved(g, s, a, b))
         /\ \A j \in Key \ {s} : RuleMoved(g, s, a, b)[j] = g[j]
<1> DEFINE q == RuleRenamed(g[s].rules, a, b)
<1>1. g[s].rules \in [Key -> Nat] /\ g[s].src = NoKey
  BY GoodFacts DEF OneRole
<1>2. q \in [Key -> Nat]
  BY <1>1 DEF RuleRenamed
<1>3. RuleMoved(g, s, a, b) = RulesSet(g, s, q)
  BY DEF RulesSet, RuleMoved
<1> HIDE DEF q
<1>4. Good(RulesSet(g, s, q)) /\ \A j \in Key \ {s} : RulesSet(g, s, q)[j] = g[j]
  BY <1>1, <1>2, SetRules
<1> QED BY <1>3, <1>4

\* RENAME: what is left after the cleaning are destinations that name the
\* series, so they have no rules, and a source that has a rule for it.
LEMMA RenameGood ==
  ASSUME Good(db), NEW a \in Key, NEW b \in Key, a # b, db[a] # Absent
  PROVE  Good(RenameSeriesTo(a, b))
<1> DEFINE g       == [db EXCEPT ![b] = db[a], ![a] = Absent]
           moved   == Cleaned(g, b, a)
           s       == moved[b].src
           more    == RuleMoved(moved, s, a, b)
           updated == IF s = NoKey \/ moved[s].rules[a] = 0 THEN moved ELSE more
           after   == [d \in Key |-> IF updated[b].rules[d] > 0
                                     THEN [updated[d] EXCEPT !.src = b] ELSE updated[d]]
<1>1. Good(g) /\ g[b] # Absent /\ g[a] = Absent
  BY DEF Good, Keyspace
<1>2. RenameSeriesTo(a, b) = after
  BY DEF RenameSeriesTo, RuleMoved
<1> HIDE DEF g
<1>3. /\ Good(moved) /\ moved[b] # Absent
      /\ \A j \in Key \ {b} : moved[j] = g[j]
      /\ moved[b].src = NoKey \/ (/\ moved[b].src = g[b].src
                                  /\ g[g[b].src] # Absent /\ g[g[b].src].rules[a] # 0)
      /\ \A d \in Key : moved[b].rules[d] # 0 =>
           /\ g[b].rules[d] # 0
           /\ d # b => g[d] # Absent /\ g[d].src = a
           /\ d = b => moved[b].src = a
  BY <1>1, CleanedGood
<1> HIDE DEF moved
<1>4. a # NoKey
  BY KeyAssumption
<1>5. /\ OneRole(moved[b]) /\ moved[b].rules \in [Key -> Nat]
      /\ s \in Key \cup {NoKey}
  BY <1>3, GoodFacts
<1>6. CASE \E d \in Key : moved[b].rules[d] # 0
  <2>1. s = NoKey
    BY <1>5, <1>6 DEF OneRole
  <2>2. updated = moved
    BY <2>1
  <2>3. ASSUME NEW d \in Key, moved[b].rules[d] > 0
        PROVE  /\ [moved[d] EXCEPT !.src = b] \in Series
               /\ OneRole([moved[d] EXCEPT !.src = b])
    <3>1. moved[b].rules[d] # 0
      BY <1>5, <2>3
    <3>2. d # b
      BY <1>3, <1>4, <2>1, <3>1
    <3>3. moved[d] # Absent /\ moved[d].src = a
      BY <1>3, <3>1, <3>2
    <3>4. moved[d] \in Series /\ \A e \in Key : moved[d].rules[e] = 0
      BY <1>3, <1>4, <3>3, GoodFacts DEF OneRole
    <3>5. ASSUME NEW c \in Series
          PROVE  [c EXCEPT !.src = b] = [src |-> b, rules |-> c.rules] /\ c.rules \in [Key -> Nat]
      BY DEF Series
    <3>6. /\ [moved[d] EXCEPT !.src = b] = [src |-> b, rules |-> moved[d].rules]
          /\ moved[d].rules \in [Key -> Nat]
      BY <3>4, <3>5
    <3> QED BY <3>4, <3>6 DEF Series, OneRole
  <2>4. after = [d \in Key |-> IF moved[b].rules[d] > 0
                               THEN [moved[d] EXCEPT !.src = b] ELSE moved[d]]
    <3> HIDE DEF updated
    <3> QED BY <2>2
  <2> HIDE DEF after
  <2>5. Good(after)
    BY <1>3, <2>3, <2>4 DEF Good, Keyspace
  <2> QED BY <1>2, <2>5 DEF after
<1>7. CASE \A d \in Key : moved[b].rules[d] = 0
  <2>1. Good(updated) /\ updated[b] = moved[b]
    <3>1. CASE s = NoKey \/ moved[s].rules[a] = 0
      BY <1>3, <3>1
    <3>2. CASE ~(s = NoKey \/ moved[s].rules[a] = 0)
      <4>1. s \in Key /\ s # b /\ moved[s].rules[a] # 0
        BY <1>5, <1>7, <3>2
      <4>2. moved[s] # Absent
        <5>1. s = g[b].src /\ g[g[b].src] # Absent
          BY <1>3, <3>2
        <5> QED BY <1>3, <4>1, <5>1
      <4> HIDE DEF s
      <4>3. Good(more) /\ \A j \in Key \ {s} : more[j] = moved[j]
        BY <1>3, <4>1, <4>2, RuleMovedGood
      <4>4. updated = more
        BY <3>2
      <4> QED BY <4>1, <4>3, <4>4
    <3> QED BY <3>1, <3>2
  <2> HIDE DEF updated
  <2>2. updated \in Keyspace
    BY <2>1 DEF Good
  <2>3. \A d \in Key : ~(updated[b].rules[d] > 0)
    <3>1. updated[b].rules \in [Key -> Nat] /\ \A d \in Key : updated[b].rules[d] = 0
      BY <1>5, <1>7, <2>1
    <3>2. ASSUME NEW d \in Key PROVE ~(updated[b].rules[d] > 0)
      BY <3>1
    <3> QED BY <3>2
  <2>4. after = updated
    BY <2>2, <2>3 DEF Keyspace
  <2> QED BY <1>2, <2>1, <2>4
<1> QED BY <1>6, <1>7

\* A new series with its destinations of the policy.
WithPolicy(g, k, made) ==
  LET source == [src |-> NoKey, rules |-> [d \in Key |-> IF d \in made THEN 1 ELSE 0]]
      dest   == [src |-> k, rules |-> NoRules]
  IN  [j \in Key |-> IF j = k THEN source ELSE IF j \in made THEN dest ELSE g[j]]

\* Each of them has one role.
LEMMA WithPolicyGood ==
  ASSUME NEW g, Good(g), NEW k \in Key, NEW made \in SUBSET Key
  PROVE  LET h == WithPolicy(g, k, made) IN
         /\ Good(h)
         /\ h[k] # Absent /\ h[k].src = NoKey
         /\ \A d \in Key : h[k].rules[d] = IF d \in made THEN 1 ELSE 0
         /\ \A j \in made \ {k} : h[j] # Absent /\ h[j].src = k /\ \A d \in Key : h[j].rules[d] = 0
         /\ \A j \in Key \ (made \cup {k}) : h[j] = g[j]
<1> DEFINE source == [src |-> NoKey, rules |-> [d \in Key |-> IF d \in made THEN 1 ELSE 0]]
           dest   == [src |-> k, rules |-> NoRules]
           h      == WithPolicy(g, k, made)
<1>1. h = [j \in Key |-> IF j = k THEN source ELSE IF j \in made THEN dest ELSE g[j]]
  BY DEF WithPolicy
<1>2. /\ source \in Series /\ OneRole(source) /\ source # Absent /\ source.src = NoKey
      /\ \A d \in Key : source.rules[d] = IF d \in made THEN 1 ELSE 0
  BY AbsentAssumption DEF Series, OneRole
<1>3. /\ dest \in Series /\ OneRole(dest) /\ dest # Absent /\ dest.src = k
      /\ \A d \in Key : dest.rules[d] = 0
  BY AbsentAssumption DEF Series, OneRole, NoRules
<1> HIDE DEF source, dest, h
<1>4. Good(h)
  BY <1>1, <1>2, <1>3 DEF Good, Keyspace
<1> QED BY <1>1, <1>2, <1>3, <1>4 DEF h

----------------------------------------------------------------------------
\* An empty keyspace satisfies the invariant.
LEMMA InitInd == Init => IndInv
BY DEF Init, IndInv, Good, Keyspace

\* Every command preserves it.
LEMMA NextInd == IndInv /\ [Next]_vars => IndInv'
<1> SUFFICES ASSUME IndInv, [Next]_vars PROVE IndInv'
  OBVIOUS
<1>i. /\ Good(db) /\ persisting \in BOOLEAN
      /\ dumped \in Series \cup {Absent} /\ (dumped # Absent => OneRole(dumped))
  BY DEF IndInv
<1>k. ASSUME Good(db'), UNCHANGED <<persisting, dumped>> PROVE IndInv'
  BY <1>i, <1>k DEF IndInv, Good, Keyspace, OneRole
<1>c. ASSUME NEW k \in Key, db[k] # Absent
      PROVE  LET h == Cleaned(db, k, k) IN
             /\ Good(h) /\ h[k] # Absent /\ \A j \in Key \ {k} : h[j] = db[j]
  BY <1>i, <1>c, CleanedGood
<1>1. ASSUME NEW k \in Key, Create(k) PROVE IndInv'
  <2>1. Good([db EXCEPT ![k] = EmptySeries])
    BY <1>i, EmptySeriesGood, PutGood
  <2> QED BY <1>1, <1>k, <2>1 DEF Create
<1>2. ASSUME NEW k \in Key, AddToNew(k) PROVE IndInv'
  <2>1. PICK made \in SUBSET {d \in AutoDests[k] : ~Exists(d)} : db' = WithPolicy(db, k, made)
    BY <1>2 DEF AddToNew, WithPolicy
  <2>2. made \subseteq Key
    BY <2>1, KeyAssumption
  <2>3. Good(db')
    BY <1>i, <2>1, <2>2, WithPolicyGood
  <2> QED BY <1>2, <1>k, <2>3 DEF AddToNew
<1>3. ASSUME NEW k \in Key, Write(k) \/ Info(k) PROVE IndInv'
  <2>1. Good(Cleaned(db, k, k))
    BY <1>3, <1>c DEF Write, Info, Exists
  <2> QED BY <1>3, <1>k, <2>1 DEF Write, Info
<1>4. ASSUME NEW k \in Key, Delete(k) PROVE IndInv'
  <2>1. Good([db EXCEPT ![k] = Absent])
    BY <1>i, RemoveGood
  <2> QED BY <1>4, <1>k, <2>1 DEF Delete
<1>5. ASSUME NEW k \in Key, Dump(k) PROVE IndInv'
  <2>1. db[k] \in Series /\ OneRole(db[k])
    BY <1>i, <1>5, GoodFacts DEF Dump, Exists
  <2>2. dumped' \in Series /\ OneRole(dumped)'
    BY <1>5, <2>1, EmptySeriesGood DEF Dump, OneRole
  <2> QED BY <1>5, <1>i, <2>2 DEF Dump, IndInv, Good, Keyspace, OneRole
<1>6. ASSUME NEW k \in Key, RestoreKey(k) PROVE IndInv'
  <2>1. Good([db EXCEPT ![k] = dumped])
    BY <1>i, <1>6, PutGood DEF RestoreKey
  <2> QED BY <1>6, <1>k, <2>1 DEF RestoreKey
<1>7. ASSUME NEW k \in Key, NEW j \in Key, CreateRule(k, j) \/ CreateRuleRefused(k, j)
      PROVE  IndInv'
  <2> DEFINE once  == Cleaned(db, k, k)
             twice == Cleaned(once, j, j)
  <2>1. k # j /\ db[k] # Absent
    BY <1>7 DEF CreateRule, CreateRuleRefused, Exists
  <2>2. Good(once) /\ once[k] # Absent /\ once[j] = db[j]
    BY <1>c, <2>1
  <2>a. CreateRule(k, j) =>
          /\ db[j] # Absent /\ twice[k].src = NoKey /\ ~HasRules(twice, j)
          /\ db' = Linked(twice, k, j)
    BY DEF CreateRule, Exists
  <2>b. CreateRuleRefused(k, j) => db' = once \/ (db[j] # Absent /\ db' = twice)
    BY DEF CreateRuleRefused, Exists
  <2> HIDE DEF once
  <2>3. ASSUME db[j] # Absent
        PROVE  Good(twice) /\ twice[j] # Absent /\ twice[k] # Absent
    <3>1. /\ Good(twice) /\ twice[j] # Absent
          /\ \A i \in Key \ {j} : twice[i] = once[i]
      BY <2>2, <2>3, CleanedGood
    <3> QED BY <2>1, <2>2, <3>1
  <2> HIDE DEF twice
  <2>4. CASE CreateRule(k, j)
    <3>1. Good(twice) /\ twice[j] # Absent /\ twice[k] # Absent /\ twice[k].src = NoKey
      BY <2>a, <2>3, <2>4
    <3>2. \A e \in Key : twice[j].rules[e] = 0
      <4>1. twice[j].rules \in [Key -> Nat]
        BY <3>1, GoodFacts
      <4> QED BY <2>a, <2>4, <4>1 DEF HasRules
    <3>3. Good(Linked(twice, k, j))
      BY <2>1, <3>1, <3>2, LinkedGood
    <3> QED BY <2>a, <2>4, <3>3, <1>k DEF CreateRule
  <2>5. CASE CreateRuleRefused(k, j)
    <3>1. Good(db')
      BY <2>b, <2>2, <2>3, <2>5
    <3> QED BY <2>5, <3>1, <1>k DEF CreateRuleRefused
  <2> QED BY <1>7, <2>4, <2>5
<1>8. ASSUME NEW k \in Key, NEW j \in Key, DeleteRule(k, j) PROVE IndInv'
  <2> DEFINE once == Cleaned(db, k, k)
             less == RuleLess(once, k, j)
             cut  == Cleaned(less, j, j)
             none == [cut EXCEPT ![j].src = IF @ = k THEN NoKey ELSE @]
  <2>1. db[k] # Absent /\ db' = IF once[k].rules[j] = 0 THEN once ELSE none
    BY <1>8 DEF DeleteRule, Exists, RuleLess
  <2>2. Good(once) /\ once[k] # Absent
    BY <1>c, <2>1
  <2>9. ASSUME once[k].rules[j] # 0 PROVE once[j] # Absent
    <3>1. /\ \A i \in Key \ {k} : once[i] = db[i]
          /\ \A d \in Key : once[k].rules[d] # 0 => (d # k => db[d] # Absent)
      BY <1>i, <2>1, CleanedGood
    <3> QED BY <2>2, <2>9, <3>1
  <2> HIDE DEF once
  <2>3. ASSUME once[k].rules[j] # 0 PROVE Good(none)
    <3>1. Good(less) /\ less[j] # Absent
      BY <2>2, <2>3, <2>9, RuleLessGood
    <3> HIDE DEF less
    <3>2. Good(cut) /\ cut[j] # Absent
      BY <3>1, CleanedGood
    <3> HIDE DEF cut
    <3>3. cut[j].src \in Key \cup {NoKey} /\ OneRole(cut[j])
      BY <3>2, GoodFacts
    <3> DEFINE s == IF cut[j].src = k THEN NoKey ELSE cut[j].src
    <3>4. none = SrcSet(cut, j, s)
      BY DEF SrcSet
    <3>5. s \in Key \cup {NoKey} /\ (s = NoKey \/ \A d \in Key : cut[j].rules[d] = 0)
      BY <3>3 DEF OneRole
    <3> HIDE DEF s
    <3>6. Good(SrcSet(cut, j, s))
      BY <3>2, <3>5, SetSource
    <3> QED BY <3>4, <3>6
  <2> HIDE DEF none
  <2>4. Good(db')
    BY <2>1, <2>2, <2>3
  <2> QED BY <1>8, <2>4, <1>k DEF DeleteRule
<1>9. ASSUME NEW k \in Key, NEW j \in Key, Rename(k, j) PROVE IndInv'
  <2>1. Good(RenameSeriesTo(k, j))
    BY <1>i, <1>9, RenameGood DEF Rename, Exists
  <2> QED BY <1>9, <2>1, <1>k DEF Rename
<1>10. ASSUME NEW k \in Key, NEW j \in Key, Copy(k, j) PROVE IndInv'
  <2>1. Good([db EXCEPT ![j] = EmptySeries])
    BY <1>i, EmptySeriesGood, PutGood
  <2> QED BY <1>10, <2>1, <1>k DEF Copy
<1>11. CASE PersistenceEvent
  BY <1>i, <1>11 DEF PersistenceEvent, IndInv, Good, Keyspace, OneRole
<1>12. CASE Flush
  <2>1. Good([k \in Key |-> Absent])
    BY DEF Good, Keyspace
  <2> QED BY <1>12, <2>1, <1>k DEF Flush
<1>13. CASE UNCHANGED vars
  BY <1>i, <1>13 DEF vars, IndInv, Good, Keyspace, OneRole
<1> QED
  BY <1>1, <1>2, <1>3, <1>4, <1>5, <1>6, <1>7, <1>8, <1>9, <1>10, <1>11, <1>12, <1>13 DEF Next

----------------------------------------------------------------------------
\* In every reachable state each series, stored or dumped, has one role.
THEOREM Invariance == Spec => []IndInv
BY InitInd, NextInd, PTL DEF Spec

\* Type correctness of the keyspace, across every command.
THEOREM TypeCorrect == Spec => []TypeOK
<1>1. IndInv => TypeOK
  BY DEF IndInv, Good, Keyspace, TypeOK
<1> QED BY <1>1, Invariance, PTL

\* No series is both the destination and the source of a rule, so that a write
\* is passed on by one level only.
THEOREM NoChainsTheorem == Spec => []NoChains
<1>1. IndInv => NoChains
  <2> SUFFICES ASSUME IndInv, NEW l \in Links, NEW m \in Links, l[2] = m[1] PROVE FALSE
    BY DEF NoChains
  <2>1. /\ l[1] \in Key /\ l[2] \in Key /\ m[2] \in Key
        /\ db[l[2]] # Absent /\ db[l[2]].src = l[1] /\ db[l[2]].rules[m[2]] > 0
    BY DEF Links, IsLink, Exists
  <2>2. /\ OneRole(db[l[2]]) /\ db[l[2]].rules \in [Key -> Nat]
    BY <2>1, GoodFacts DEF IndInv
  <2> QED BY <2>1, <2>2, KeyAssumption DEF OneRole
<1> QED BY <1>1, Invariance, PTL

----------------------------------------------------------------------------
(***************************************************************************)
(* The refinement of LinkGraph.  A rule whose halves agree is a link; what *)
(* the commands do is described by what becomes of every single link.      *)
(***************************************************************************)
LinkIn(g, s, d) == g[s] # Absent /\ g[d] # Absent /\ g[s].rules[d] > 0 /\ g[d].src = s

SameGraph(g, h) ==
  /\ \A k \in Key : h[k] = Absent <=> g[k] = Absent
  /\ \A s, d \in Key : LinkIn(h, s, d) <=> LinkIn(g, s, d)

\* No series is its own source.
LEMMA LinkEnds ==
  ASSUME NEW g, Good(g), NEW s \in Key, NEW d \in Key, LinkIn(g, s, d)
  PROVE  /\ s # d /\ g[s].src = NoKey /\ g[s].rules[d] # 0
         /\ \A e \in Key : g[d].rules[e] = 0
<1>1. /\ OneRole(g[s]) /\ g[s].rules \in [Key -> Nat]
      /\ OneRole(g[d]) /\ g[d].rules \in [Key -> Nat]
  BY GoodFacts DEF LinkIn
<1>2. g[s].rules[d] # 0
  BY <1>1 DEF LinkIn
<1>3. g[d].src # NoKey
  BY KeyAssumption DEF LinkIn
<1> QED BY <1>1, <1>2, <1>3 DEF OneRole, LinkIn

\* What deleteReferenceToDeletedSeries keeps: a source that has a rule for the series,
\* and the rules whose destinations name it.
LEMMA CleanedKeeps ==
  ASSUME NEW g, Good(g), NEW k \in Key, g[k] # Absent, NEW name \in Key
  PROVE  LET h == Cleaned(g, k, name) IN
         /\ \A s \in Key : g[k].src = s /\ g[s] # Absent /\ g[s].rules[name] # 0 => h[k].src = s
         /\ \A d \in Key \ {k} : g[d] # Absent /\ g[d].src = name => h[k].rules[d] = g[k].rules[d]
<1> DEFINE f == WithoutDeletedSource(g, k, name)
           h == WithoutDeletedDests(f, k, name)
           r == [d \in Key |-> IF f[d] # Absent /\ f[d].src = name THEN f[k].rules[d] ELSE 0]
<1>1. /\ Good(f) /\ f[k] # Absent
      /\ \A j \in Key \ {k} : f[j] = g[j]
      /\ f[k].rules = g[k].rules
  BY WithoutDeletedSourceGood
<1>2. \A s \in Key : g[k].src = s /\ g[s] # Absent /\ g[s].rules[name] # 0 => f[k].src = s
  BY DEF WithoutDeletedSource
<1>3. Cleaned(g, k, name) = h
  BY DEF Cleaned
<1> HIDE DEF f
<1>4. h[k].src = f[k].src
  BY <1>1, WithoutDeletedDestsGood
<1>5. h[k].rules = r
  <2>1. f[k] = [src |-> f[k].src, rules |-> f[k].rules] /\ f \in Keyspace
    BY <1>1, GoodFacts DEF Good
  <2>2. h = [f EXCEPT ![k].rules = r]
    BY <2>1 DEF WithoutDeletedDests, Keyspace
  <2> HIDE DEF h, r
  <2> QED BY <2>1, <2>2 DEF Keyspace
<1>6. ASSUME NEW d \in Key \ {k}, g[d] # Absent, g[d].src = name PROVE h[k].rules[d] = g[k].rules[d]
  <2>1. r[d] = f[k].rules[d]
    BY <1>1, <1>6
  <2> QED BY <1>1, <1>5, <2>1
<1> HIDE DEF h
<1> QED BY <1>2, <1>3, <1>4, <1>6

\* It is invisible.
LEMMA CleanedSame ==
  ASSUME NEW g, Good(g), NEW k \in Key, g[k] # Absent
  PROVE  SameGraph(g, Cleaned(g, k, k))
<1> DEFINE h == Cleaned(g, k, k)
<1>1. /\ Good(h) /\ h[k] # Absent
      /\ \A j \in Key \ {k} : h[j] = g[j]
      /\ h[k].src = NoKey \/ (/\ h[k].src = g[k].src
                              /\ g[g[k].src] # Absent /\ g[g[k].src].rules[k] # 0)
      /\ \A d \in Key : h[k].rules[d] # 0 =>
           /\ g[k].rules[d] # 0
           /\ d # k => g[d] # Absent /\ g[d].src = k
           /\ d = k => h[k].src = k
  BY CleanedGood
<1>2. /\ \A s \in Key : g[k].src = s /\ g[s] # Absent /\ g[s].rules[k] # 0 => h[k].src = s
      /\ \A d \in Key \ {k} : g[d] # Absent /\ g[d].src = k => h[k].rules[d] = g[k].rules[d]
  BY CleanedKeeps
<1> HIDE DEF h
<1>3. ASSUME NEW s \in Key, NEW d \in Key, LinkIn(g, s, d) PROVE LinkIn(h, s, d)
  <2>1. s # d /\ g[s].rules[d] # 0
    BY <1>3, LinkEnds
  <2>2. CASE s = k
    BY <1>1, <1>2, <1>3, <2>1, <2>2 DEF LinkIn
  <2>3. CASE d = k
    BY <1>1, <1>2, <1>3, <2>1, <2>3 DEF LinkIn
  <2>4. CASE s # k /\ d # k
    BY <1>1, <1>3, <2>4 DEF LinkIn
  <2> QED BY <2>2, <2>3, <2>4
<1>4. ASSUME NEW s \in Key, NEW d \in Key, LinkIn(h, s, d) PROVE LinkIn(g, s, d)
  <2>1. s # d /\ h[s].rules[d] # 0 /\ s # NoKey
    BY <1>1, <1>4, LinkEnds, KeyAssumption
  <2>n. ASSUME NEW j \in Key, g[j] # Absent PROVE g[j].rules \in [Key -> Nat]
    BY <2>n, GoodFacts
  <2>2. CASE s = k
    <3>1. g[k].rules[d] # 0 /\ g[k].rules \in [Key -> Nat]
      BY <1>1, <2>1, <2>2, <2>n
    <3>2. g[k].rules[d] > 0
      BY <3>1
    <3> QED BY <1>1, <1>4, <2>1, <2>2, <3>2 DEF LinkIn
  <2>3. CASE d = k
    BY <1>1, <1>4, <2>1, <2>3 DEF LinkIn
  <2>4. CASE s # k /\ d # k
    BY <1>1, <1>4, <2>4 DEF LinkIn
  <2> QED BY <2>2, <2>3, <2>4
<1>5. ASSUME NEW j \in Key PROVE h[j] = Absent <=> g[j] = Absent
  <2>1. j # k => h[j] = g[j]
    BY <1>1
  <2> QED BY <1>1, <2>1
<1> QED BY <1>3, <1>4, <1>5 DEF SameGraph, h

\* What Linked does to both series.
LEMMA LinkedIs ==
  ASSUME NEW g, Good(g), NEW s \in Key, NEW d \in Key, s # d, g[s] # Absent, g[d] # Absent,
         g[s].src = NoKey, \A e \in Key : g[d].rules[e] = 0
  PROVE  LET h == Linked(g, s, d) IN
         /\ \A j \in Key \ {s, d} : h[j] = g[j]
         /\ h[s] # Absent /\ h[d] # Absent
         /\ h[s].src = NoKey /\ h[d].src = s /\ h[d].rules = g[d].rules
         /\ h[s].rules[d] > 0 /\ \A e \in Key \ {d} : h[s].rules[e] = g[s].rules[e]
<1> DEFINE r == [g[s].rules EXCEPT ![d] = @ + 1]
           f == RulesSet(g, s, r)
<1>1. g[s].rules \in [Key -> Nat]
  BY GoodFacts
<1>2. r \in [Key -> Nat] /\ r[d] > 0 /\ \A e \in Key \ {d} : r[e] = g[s].rules[e]
  BY <1>1
<1>3. Linked(g, s, d) = SrcSet(f, d, s)
  BY DEF Linked, SrcSet, RulesSet
<1> HIDE DEF r
<1>4. /\ Good(f) /\ \A j \in Key \ {s} : f[j] = g[j]
      /\ f[s] # Absent /\ f[s].src = NoKey /\ f[s].rules = r
  BY <1>2, SetRules
<1> HIDE DEF f
<1>5. f[d] # Absent /\ f[d] = g[d] /\ \A e \in Key : f[d].rules[e] = 0
  BY <1>4
<1>6. /\ \A j \in Key \ {d} : SrcSet(f, d, s)[j] = f[j]
      /\ SrcSet(f, d, s)[d] # Absent /\ SrcSet(f, d, s)[d].src = s
      /\ SrcSet(f, d, s)[d].rules = f[d].rules
  BY <1>4, <1>5, SetSource
<1> QED BY <1>2, <1>3, <1>4, <1>5, <1>6

\* A new rule is a new link, if both series were free for it.
LEMMA LinkedLinks ==
  ASSUME NEW g, Good(g), NEW s \in Key, NEW d \in Key, s # d, g[s] # Absent, g[d] # Absent,
         g[s].src = NoKey, g[d].src = NoKey, \A e \in Key : g[d].rules[e] = 0
  PROVE  /\ \A k \in Key : Linked(g, s, d)[k] = Absent <=> g[k] = Absent
         /\ \A x, y \in Key : LinkIn(Linked(g, s, d), x, y) <=> LinkIn(g, x, y) \/ (x = s /\ y = d)
         /\ \A x, y \in Key : LinkIn(g, x, y) => y # s /\ x # d /\ y # d
<1> DEFINE h == Linked(g, s, d)
<1>1. /\ \A j \in Key \ {s, d} : h[j] = g[j]
      /\ h[s] # Absent /\ h[d] # Absent
      /\ h[s].src = NoKey /\ h[d].src = s /\ h[d].rules = g[d].rules
      /\ h[s].rules[d] > 0 /\ \A e \in Key \ {d} : h[s].rules[e] = g[s].rules[e]
  BY LinkedIs
<1> HIDE DEF h
<1>2. ASSUME NEW x \in Key, NEW y \in Key, LinkIn(g, x, y) PROVE y # s /\ x # d /\ y # d /\ LinkIn(h, x, y)
  <2>1. x # y /\ g[x].rules[y] # 0 /\ x # NoKey
    BY <1>2, LinkEnds, KeyAssumption
  <2>2. y # s /\ x # d /\ y # d
    BY <1>2, <2>1 DEF LinkIn
  <2> QED BY <1>1, <1>2, <2>2 DEF LinkIn
<1>3. ASSUME NEW x \in Key, NEW y \in Key, LinkIn(h, x, y) PROVE LinkIn(g, x, y) \/ (x = s /\ y = d)
  <2>1. x # NoKey
    BY KeyAssumption
  <2>2. CASE y = d
    BY <1>1, <1>3, <2>2 DEF LinkIn
  <2>3. CASE y = s
    BY <1>1, <1>3, <2>1, <2>3 DEF LinkIn
  <2>4. CASE x = d /\ y # d
    <3>1. g[d].rules[y] = 0 /\ h[d].rules[y] > 0
      BY <1>1, <1>3, <2>4 DEF LinkIn
    <3> QED BY <1>1, <3>1
  <2>5. CASE y \notin {s, d} /\ x # d
    BY <1>1, <1>3, <2>5 DEF LinkIn
  <2> QED BY <2>2, <2>3, <2>4, <2>5
<1>4. LinkIn(h, s, d)
  BY <1>1 DEF LinkIn
<1>5. \A k \in Key : h[k] = Absent <=> g[k] = Absent
  BY <1>1
<1> QED BY <1>2, <1>3, <1>4, <1>5 DEF h

\* A series stored under k: the links that do not touch k stay as they are.
LEMMA PutLinks ==
  ASSUME NEW g, Good(g), NEW k \in Key, NEW v
  PROVE  /\ \A j \in Key : [g EXCEPT ![k] = v][j] = IF j = k THEN v ELSE g[j]
         /\ \A x, y \in Key : x # k /\ y # k => (LinkIn([g EXCEPT ![k] = v], x, y) <=> LinkIn(g, x, y))
<1>1. \A j \in Key : [g EXCEPT ![k] = v][j] = IF j = k THEN v ELSE g[j]
  BY DEF Good, Keyspace
<1> QED BY <1>1 DEF LinkIn

LinksOf(g) == {l \in Key \X Key : LinkIn(g, l[1], l[2])}
KeysOf(g) == {k \in Key : g[k] # Absent}

LEMMA LinksOfDb ==
  /\ Links = LinksOf(db) /\ Links' = LinksOf(db')
  /\ {k \in Key : Exists(k)} = KeysOf(db) /\ {k \in Key : Exists(k)}' = KeysOf(db')
BY DEF Links, LinksOf, IsLink, LinkIn, Exists, KeysOf

\* Equal sets of links, pair by pair.
LEMMA PairsEqual ==
  ASSUME NEW g, NEW L, L \subseteq Key \X Key,
         \A x, y \in Key : LinkIn(g, x, y) <=> <<x, y>> \in L
  PROVE  LinksOf(g) = L
<1>1. ASSUME NEW l \in Key \X Key PROVE l \in LinksOf(g) <=> l \in L
  <2>1. PICK x \in Key, y \in Key : l = <<x, y>>
    BY <1>1
  <2>2. l[1] = x /\ l[2] = y
    BY <2>1
  <2> QED BY <2>1, <2>2 DEF LinksOf
<1> QED BY <1>1 DEF LinksOf

\* The links after RENAME are those before it, under the new name.
LEMMA RenameLinks ==
  ASSUME Good(db), NEW a \in Key, NEW b \in Key, a # b, db[a] # Absent
  PROVE  LET h == RenameSeriesTo(a, b) IN
         /\ h[a] = Absent /\ h[b] # Absent
         /\ \A k \in Key \ {a, b} : h[k] = Absent <=> db[k] = Absent
         /\ \A x, y \in Key :
              LinkIn(h, x, y) <=>
                \/ x \notin {a, b} /\ y \notin {a, b} /\ LinkIn(db, x, y)
                \/ x = b /\ y \notin {a, b} /\ LinkIn(db, a, y)
                \/ x \notin {a, b} /\ y = b /\ LinkIn(db, x, a)
<1> DEFINE g       == [db EXCEPT ![b] = db[a], ![a] = Absent]
           moved   == Cleaned(g, b, a)
           s       == moved[b].src
           more    == RuleMoved(moved, s, a, b)
           updated == IF s = NoKey \/ moved[s].rules[a] = 0 THEN moved ELSE more
           after   == [d \in Key |-> IF updated[b].rules[d] > 0
                                     THEN [updated[d] EXCEPT !.src = b] ELSE updated[d]]
<1>1. Good(g) /\ g[b] # Absent /\ g[a] = Absent /\ g[b] = db[a] /\ \A j \in Key \ {a, b} : g[j] = db[j]
  BY DEF Good, Keyspace
<1>2. RenameSeriesTo(a, b) = after
  BY DEF RenameSeriesTo, RuleMoved
<1>n. a # NoKey /\ b # NoKey
  BY KeyAssumption
<1> HIDE DEF g
<1>3. /\ Good(moved) /\ moved[b] # Absent
      /\ \A j \in Key \ {b} : moved[j] = g[j]
      /\ moved[b].src = NoKey \/ (/\ moved[b].src = g[b].src
                                  /\ g[g[b].src] # Absent /\ g[g[b].src].rules[a] # 0)
      /\ \A d \in Key : moved[b].rules[d] # 0 =>
           /\ g[b].rules[d] # 0
           /\ d # b => g[d] # Absent /\ g[d].src = a
           /\ d = b => moved[b].src = a
  BY <1>1, CleanedGood
<1>4. /\ \A z \in Key : g[b].src = z /\ g[z] # Absent /\ g[z].rules[a] # 0 => moved[b].src = z
      /\ \A d \in Key \ {b} : g[d] # Absent /\ g[d].src = a => moved[b].rules[d] = g[b].rules[d]
  BY <1>1, CleanedKeeps
<1> HIDE DEF moved
<1>5. /\ OneRole(moved[b]) /\ moved[b].rules \in [Key -> Nat] /\ s \in Key \cup {NoKey}
      /\ OneRole(db[a]) /\ db[a].rules \in [Key -> Nat] /\ db[a].src \in Key \cup {NoKey}
  BY <1>3, GoodFacts
\* Another series, if it is there, has its srcKey and its rules.
<1>6. ASSUME NEW j \in Key, db[j] # Absent PROVE db[j] \in Series /\ db[j].rules \in [Key -> Nat]
  BY <1>6, GoodFacts
\* The series with rules.
<1>7. ASSUME s = NoKey
      PROVE  /\ updated = moved
             /\ ~(moved[b].rules[a] > 0) /\ ~(moved[b].rules[b] > 0)
             /\ \A y \in Key \ {a, b} : moved[b].rules[y] > 0 <=> LinkIn(db, a, y)
  <2>1. updated = moved
    BY <1>7
  <2>2. ~(moved[b].rules[a] > 0) /\ ~(moved[b].rules[b] > 0)
    BY <1>1, <1>3, <1>5, <1>7, <1>n
  <2>3. ASSUME NEW y \in Key \ {a, b} PROVE moved[b].rules[y] > 0 <=> LinkIn(db, a, y)
    <3>1. g[y] = db[y] /\ g[b] = db[a] /\ y # b
      BY <1>1
    <3>2. moved[b].rules[y] > 0 => LinkIn(db, a, y)
      BY <1>3, <1>5, <3>1 DEF LinkIn
    <3>3. LinkIn(db, a, y) => moved[b].rules[y] > 0
      BY <1>4, <3>1 DEF LinkIn
    <3> QED BY <3>2, <3>3
  <2> QED BY <2>1, <2>2, <2>3
<1>8. ASSUME s = NoKey, NEW x \in Key PROVE ~LinkIn(db, x, a) \/ x = b
  <2> SUFFICES ASSUME LinkIn(db, x, a), x # b PROVE FALSE
    OBVIOUS
  <2>1. x # a /\ db[x].rules[a] # 0
    BY LinkEnds
  <2>2. g[b].src = x /\ g[x] # Absent /\ g[x].rules[a] # 0
    BY <1>1, <2>1 DEF LinkIn
  <2> QED BY <1>4, <1>8, <2>2, KeyAssumption
<1>9. CASE s = NoKey
  <2>1. after = [d \in Key |-> IF moved[b].rules[d] > 0
                               THEN [moved[d] EXCEPT !.src = b] ELSE moved[d]]
    <3> HIDE DEF updated
    <3> QED BY <1>7, <1>9
  <2> HIDE DEF after, updated
  <2>2. /\ after[a] = Absent /\ after[b] = moved[b]
        /\ \A y \in Key \ {a, b} : after[y] = IF LinkIn(db, a, y) THEN [db[y] EXCEPT !.src = b] ELSE db[y]
    BY <1>1, <1>3, <1>7, <1>9, <2>1
  <2>3. ASSUME NEW y \in Key \ {a, b}
        PROVE  /\ after[y] = Absent <=> db[y] = Absent
               /\ db[y] # Absent => after[y].rules = db[y].rules
               /\ db[y] # Absent => after[y].src = IF LinkIn(db, a, y) THEN b ELSE db[y].src
    <3>1. ASSUME NEW c \in Series
          PROVE  /\ [c EXCEPT !.src = b] = [src |-> b, rules |-> c.rules]
                 /\ [src |-> b, rules |-> c.rules] \in Series
      BY DEF Series
    <3>2. CASE LinkIn(db, a, y)
      <4>1. db[y] # Absent /\ db[y] \in Series
        BY <1>6, <3>2 DEF LinkIn
      <4>2. after[y] = [db[y] EXCEPT !.src = b]
        BY <2>2, <3>2
      <4>3. after[y] = [src |-> b, rules |-> db[y].rules] /\ after[y] \in Series
        <5>1. PICK c \in Series : c = db[y]
          BY <4>1
        <5>2. /\ [c EXCEPT !.src = b] = [src |-> b, rules |-> c.rules]
              /\ [src |-> b, rules |-> c.rules] \in Series
          BY <3>1
        <5>3. after[y] = [c EXCEPT !.src = b]
          BY <4>2, <5>1
        <5> QED BY <5>1, <5>2, <5>3
      <4> QED BY <3>2, <4>1, <4>3, AbsentAssumption
    <3>3. CASE ~LinkIn(db, a, y)
      BY <2>2, <3>3
    <3> QED BY <3>2, <3>3
  <2>4. ASSUME NEW x \in Key, NEW y \in Key
        PROVE  LinkIn(after, x, y) <=>
                \/ x \notin {a, b} /\ y \notin {a, b} /\ LinkIn(db, x, y)
                \/ x = b /\ y \notin {a, b} /\ LinkIn(db, a, y)
                \/ x \notin {a, b} /\ y = b /\ LinkIn(db, x, a)
    <3>1. CASE x = a \/ y = a
      BY <2>2, <3>1 DEF LinkIn
    <3>2. CASE y = b
      <4>1. after[b].src = NoKey /\ x # NoKey
        BY <1>9, <2>2, KeyAssumption
      <4> QED BY <1>8, <1>9, <3>2, <4>1 DEF LinkIn
    <3>3. CASE x = b /\ y \notin {a, b}
      <4>1. moved[b].rules[y] > 0 <=> LinkIn(db, a, y)
        BY <1>7, <1>9, <3>3
      <4>2. LinkIn(db, a, y) => db[y] # Absent
        BY DEF LinkIn
      <4> QED BY <1>3, <2>2, <2>3, <3>3, <4>1, <4>2 DEF LinkIn
    <3>4. CASE x \notin {a, b} /\ y \notin {a, b}
      <4>1. LinkIn(db, a, y) => ~LinkIn(db, x, y) /\ ~LinkIn(after, x, y)
        <5>1. LinkIn(db, a, y) => db[y] # Absent /\ db[y].src = a
          BY DEF LinkIn
        <5> QED BY <2>3, <3>4, <5>1 DEF LinkIn
      <4>2. ~LinkIn(db, a, y) => (LinkIn(after, x, y) <=> LinkIn(db, x, y))
        BY <2>3, <3>4 DEF LinkIn
      <4> QED BY <3>4, <4>1, <4>2
    <3> QED BY <3>1, <3>2, <3>3, <3>4
  <2>5. after[b] # Absent
    BY <1>3, <2>2
  <2> QED BY <1>2, <2>2, <2>3, <2>4, <2>5
\* The series with a source.
<1>10. CASE s # NoKey
  <2>1. /\ s \in Key /\ s = db[a].src /\ g[s] # Absent /\ g[s].rules[a] # 0
        /\ \A e \in Key : moved[b].rules[e] = 0
    <3>1. moved[b].src # NoKey /\ moved[b].src = db[a].src /\ moved[b].src \in Key
      BY <1>1, <1>3, <1>5, <1>10
    <3>2. g[moved[b].src] # Absent /\ g[moved[b].src].rules[a] # 0
      BY <1>1, <1>3, <3>1
    <3>3. \A e \in Key : moved[b].rules[e] = 0
      BY <1>5, <3>1 DEF OneRole
    <3> QED BY <3>1, <3>2, <3>3
  <2>2. s \notin {a, b}
    <3>1. s # a
      BY <1>1, <2>1
    <3>2. \A e \in Key : db[a].rules[e] = 0
      <4>1. db[a].src # NoKey
        BY <1>10, <2>1
      <4> QED BY <1>5, <4>1, Zenon DEF OneRole
    <3> QED BY <1>1, <2>1, <3>1, <3>2
  <2>3. db[s] # Absent /\ db[s].rules[a] # 0 /\ moved[s] = db[s] /\ db[s] \in Series /\ db[s].rules \in [Key -> Nat]
    BY <1>1, <1>3, <1>6, <2>1, <2>2
  <2>4. LinkIn(db, s, a)
    BY <2>1, <2>3 DEF LinkIn
  <2>5. updated = more
    BY <1>10, <2>3
  <2>s. PICK z \in Key : z = s
    BY <2>1
  <2> DEFINE q == RuleRenamed(db[z].rules, a, b)
  <2>6. q \in [Key -> Nat] /\ q[b] > 0 /\ \A e \in Key \ {a, b} : q[e] = db[z].rules[e]
    BY <2>3, <2>s DEF RuleRenamed
  <2>7. more = RulesSet(moved, z, q)
    BY <2>3, <2>s DEF RuleMoved, RulesSet
  <2> HIDE DEF more, q, updated, s
  <2>8. /\ \A j \in Key \ {z} : more[j] = moved[j]
        /\ more[z] # Absent /\ more[z].src = moved[z].src /\ more[z].rules = q
    <3>1. moved[z] # Absent /\ moved[z].src = NoKey
      BY <2>3, <2>4, <2>s, LinkEnds
    <3> QED BY <1>3, <2>6, <2>7, <3>1, SetRules
  <2>9. after = more
    <3>1. more[b] = moved[b]
      BY <2>2, <2>8, <2>s
    <3>2. ASSUME NEW d \in Key PROVE ~(updated[b].rules[d] > 0)
      BY <2>1, <2>5, <3>1
    <3>3. more \in Keyspace
      <4>1. moved[z] # Absent /\ moved[z].src = NoKey
        BY <2>3, <2>4, <2>s, LinkEnds
      <4> QED BY <1>3, <2>6, <2>7, <4>1, SetRules DEF Good
    <3> QED BY <2>5, <3>2, <3>3 DEF Keyspace
  <2> HIDE DEF after
  <2>10. /\ after[a] = Absent /\ after[b] = moved[b]
         /\ after[z] # Absent /\ after[z].src = db[z].src /\ after[z].rules = q
         /\ \A j \in Key \ {a, b, z} : after[j] = db[j]
    BY <1>1, <1>3, <2>2, <2>3, <2>8, <2>9, <2>s
  <2>11. ASSUME NEW x \in Key, NEW y \in Key
         PROVE  LinkIn(after, x, y) <=>
                 \/ x \notin {a, b} /\ y \notin {a, b} /\ LinkIn(db, x, y)
                 \/ x = b /\ y \notin {a, b} /\ LinkIn(db, a, y)
                 \/ x \notin {a, b} /\ y = b /\ LinkIn(db, x, a)
    <3>1. CASE x = a \/ y = a
      BY <2>10, <3>1 DEF LinkIn
    <3>2. CASE x = b
      <4>1. after[b].rules[y] = 0
        BY <2>1, <2>10
      <4>2. ~LinkIn(db, a, y)
        <5>1. db[a].src # NoKey
          BY <1>10, <2>1 DEF s
        <5> QED BY <5>1, LinkEnds
      <4> QED BY <3>2, <4>1, <4>2 DEF LinkIn
    <3>3. CASE x \notin {a, b} /\ y = b
      <4>1. LinkIn(after, x, b) => x = z
        BY <2>10, <2>s DEF LinkIn, s
      <4>2. LinkIn(after, z, b)
        BY <1>3, <2>6, <2>10, <2>s DEF LinkIn, s
      <4>3. LinkIn(db, x, a) => x = z
        BY <2>1, <2>s DEF LinkIn
      <4> QED BY <2>4, <2>s, <3>3, <4>1, <4>2, <4>3
    <3>4. CASE x \notin {a, b} /\ y \notin {a, b}
      <4>1. /\ after[x] = Absent <=> db[x] = Absent
            /\ after[y] = Absent <=> db[y] = Absent
            /\ after[x] # Absent => after[x].rules[y] = db[x].rules[y]
            /\ after[y] # Absent => after[y].src = db[y].src
        BY <2>3, <2>6, <2>10, <2>s, <3>4
      <4> QED BY <3>4, <4>1 DEF LinkIn
    <3> QED BY <3>1, <3>2, <3>3, <3>4
  <2>12. \A k \in Key \ {a, b} : after[k] = Absent <=> db[k] = Absent
    BY <2>3, <2>10, <2>s
  <2> QED BY <1>2, <1>3, <2>10, <2>11, <2>12
<1> QED BY <1>9, <1>10

----------------------------------------------------------------------------
(***************************************************************************)
(* The steps of LinkGraph, between keyspaces.                              *)
(***************************************************************************)
WithoutKey(g, k) == {l \in LinksOf(g) : l[1] # k /\ l[2] # k}

\* The lazy cleaning, at most two of them in a command, is a stutter.
LEMMA SameSets ==
  ASSUME NEW g, NEW h, SameGraph(g, h)
  PROVE  KeysOf(h) = KeysOf(g) /\ LinksOf(h) = LinksOf(g)
<1>1. KeysOf(h) = KeysOf(g)
  BY DEF KeysOf, SameGraph
<1>2. \A l \in Key \X Key : LinkIn(h, l[1], l[2]) <=> LinkIn(g, l[1], l[2])
  BY DEF SameGraph
<1> QED BY <1>1, <1>2 DEF LinksOf

LEMMA SameTwice ==
  ASSUME NEW f, NEW g, NEW h, SameGraph(f, g), SameGraph(g, h)
  PROVE  SameGraph(f, h)
<1>1. ASSUME NEW k \in Key PROVE h[k] = Absent <=> f[k] = Absent
  BY DEF SameGraph
<1>2. ASSUME NEW s \in Key, NEW d \in Key PROVE LinkIn(h, s, d) <=> LinkIn(f, s, d)
  BY DEF SameGraph
<1> QED BY <1>1, <1>2 DEF SameGraph

\* A series without references, or none at all, is stored under k.
LEMMA StoreLinks ==
  ASSUME NEW g, Good(g), NEW k \in Key, NEW v,
         v = Absent \/ (v # Absent /\ v.src = NoKey /\ \A d \in Key : v.rules[d] = 0)
  PROVE  LET h == [g EXCEPT ![k] = v] IN
         /\ LinksOf(h) = WithoutKey(g, k)
         /\ KeysOf(h) = IF v = Absent THEN KeysOf(g) \ {k} ELSE KeysOf(g) \cup {k}
<1> DEFINE h == [g EXCEPT ![k] = v]
<1>1. /\ \A j \in Key : h[j] = IF j = k THEN v ELSE g[j]
      /\ \A x, y \in Key : x # k /\ y # k => (LinkIn(h, x, y) <=> LinkIn(g, x, y))
  BY PutLinks
<1> HIDE DEF h
<1>2. ASSUME NEW x \in Key, NEW y \in Key PROVE LinkIn(h, x, y) <=> <<x, y>> \in WithoutKey(g, k)
  <2>1. <<x, y>> \in WithoutKey(g, k) <=> LinkIn(g, x, y) /\ x # k /\ y # k
    BY DEF WithoutKey, LinksOf
  <2>2. ASSUME x = k \/ y = k PROVE ~LinkIn(h, x, y)
    <3>1. x # NoKey
      BY KeyAssumption
    <3> QED BY <1>1, <2>2, <3>1 DEF LinkIn
  <2> QED BY <1>1, <2>1, <2>2
<1>3. WithoutKey(g, k) \subseteq Key \X Key
  BY DEF WithoutKey, LinksOf
<1>4. LinksOf(h) = WithoutKey(g, k)
  BY <1>2, <1>3, PairsEqual
<1>5. KeysOf(h) = IF v = Absent THEN KeysOf(g) \ {k} ELSE KeysOf(g) \cup {k}
  BY <1>1 DEF KeysOf
<1> QED BY <1>4, <1>5 DEF h

\* The references of a value.
Sources(v) == {v.src} \ {NoKey}
Dests(v) == {d \in Key : v.rules[d] > 0}

\* The rules of a restored series: those it names and whose other half is there.
LEMMA RestoreLinks ==
  ASSUME NEW g, Good(g), NEW k \in Key, NEW v \in Series, OneRole(v)
  PROVE  LET h == [g EXCEPT ![k] = v] IN
         /\ KeysOf(h) = KeysOf(g) \cup {k}
         /\ WithoutKey(g, k) \subseteq LinksOf(h)
         /\ Sources(v) = {} \/ Dests(v) = {}
         /\ LinksOf(h) \ WithoutKey(g, k) \subseteq
              ((Sources(v) \cap KeysOf(g)) \X {k}) \cup ({k} \X (Dests(v) \cap KeysOf(g)))
<1> DEFINE h == [g EXCEPT ![k] = v]
<1>1. /\ \A j \in Key : h[j] = IF j = k THEN v ELSE g[j]
      /\ \A x, y \in Key : x # k /\ y # k => (LinkIn(h, x, y) <=> LinkIn(g, x, y))
  BY PutLinks
<1>2. Good(h) /\ v # Absent
  BY PutGood
<1> HIDE DEF h
<1>3. KeysOf(h) = KeysOf(g) \cup {k}
  BY <1>1, <1>2 DEF KeysOf
<1>4. ASSUME NEW l \in WithoutKey(g, k) PROVE l \in LinksOf(h)
  BY <1>1 DEF WithoutKey, LinksOf
<1>5. ASSUME NEW l \in LinksOf(h) \ WithoutKey(g, k)
      PROVE  /\ l \in Key \X Key /\ LinkIn(h, l[1], l[2]) /\ l[1] # l[2]
             /\ l[1] = k \/ l[2] = k
             /\ l[1] # k => l[1] \in KeysOf(g) \ {k}
             /\ l[2] # k => l[2] \in KeysOf(g) \ {k}
  <2>1. l \in Key \X Key /\ LinkIn(h, l[1], l[2])
    BY DEF LinksOf
  <2>2. l[1] # l[2]
    BY <1>2, <2>1, LinkEnds
  <2>3. l[1] = k \/ l[2] = k
    BY <1>1, <2>1 DEF WithoutKey, LinksOf
  <2> QED BY <1>1, <2>1, <2>2, <2>3 DEF KeysOf, LinkIn
<1>6. Sources(v) = {} \/ Dests(v) = {}
  <2>1. v.src = NoKey => Sources(v) = {}
    BY DEF Sources
  <2>2. (\A d \in Key : v.rules[d] = 0) => Dests(v) = {}
    BY DEF Dests
  <2> QED BY <2>1, <2>2 DEF OneRole
<1>7. ASSUME NEW l \in LinksOf(h) \ WithoutKey(g, k)
      PROVE  l \in ((Sources(v) \cap KeysOf(g)) \X {k}) \cup ({k} \X (Dests(v) \cap KeysOf(g)))
  <2>1. l = <<l[1], l[2]>> /\ l[1] \in Key /\ l[2] \in Key /\ l[1] # NoKey
    BY <1>5, KeyAssumption
  <2>2. CASE l[2] = k
    <3>1. l[1] \in KeysOf(g)
      BY <1>5, <2>2
    <3>2. v.src = l[1]
      BY <1>1, <1>5, <2>2 DEF LinkIn
    <3> QED BY <2>1, <2>2, <3>1, <3>2 DEF Sources
  <2>3. CASE l[1] = k
    <3>1. l[2] \in KeysOf(g)
      BY <1>5, <2>3
    <3>2. v.rules[l[2]] > 0
      BY <1>1, <1>5, <2>3 DEF LinkIn
    <3> QED BY <2>1, <2>3, <3>1, <3>2 DEF Dests
  <2> QED BY <1>5, <2>2, <2>3
<1> QED BY <1>3, <1>4, <1>6, <1>7 DEF h

\* No link touches a key without a series.
LEMMA FreshLinks ==
  ASSUME NEW g, NEW k \in Key, g[k] = Absent
  PROVE  WithoutKey(g, k) = LinksOf(g)
BY DEF WithoutKey, LinksOf, LinkIn

\* A rule between two series that are free for it.
LEMMA AddedLink ==
  ASSUME NEW g, Good(g), NEW s \in Key, NEW d \in Key, s # d, g[s] # Absent, g[d] # Absent,
         g[s].src = NoKey, g[d].src = NoKey, \A e \in Key : g[d].rules[e] = 0
  PROVE  /\ KeysOf(Linked(g, s, d)) = KeysOf(g)
         /\ LinksOf(Linked(g, s, d)) = LinksOf(g) \cup {<<s, d>>}
         /\ \A l \in LinksOf(g) : l[2] # s /\ l[1] # d /\ l[2] # d
<1> DEFINE h == Linked(g, s, d)
<1>1. /\ \A k \in Key : h[k] = Absent <=> g[k] = Absent
      /\ \A x, y \in Key : LinkIn(h, x, y) <=> LinkIn(g, x, y) \/ (x = s /\ y = d)
      /\ \A x, y \in Key : LinkIn(g, x, y) => y # s /\ x # d /\ y # d
  BY LinkedLinks
<1> HIDE DEF h
<1>2. ASSUME NEW x \in Key, NEW y \in Key
      PROVE  LinkIn(h, x, y) <=> <<x, y>> \in LinksOf(g) \cup {<<s, d>>}
  <2>1. <<x, y>> \in LinksOf(g) <=> LinkIn(g, x, y)
    BY DEF LinksOf
  <2> QED BY <1>1, <2>1
<1>3. LinksOf(g) \cup {<<s, d>>} \subseteq Key \X Key
  BY DEF LinksOf
<1>4. LinksOf(h) = LinksOf(g) \cup {<<s, d>>}
  BY <1>2, <1>3, PairsEqual
<1>5. KeysOf(h) = KeysOf(g)
  BY <1>1 DEF KeysOf
<1>6. \A l \in LinksOf(g) : l[2] # s /\ l[1] # d /\ l[2] # d
  BY <1>1 DEF LinksOf
<1> QED BY <1>4, <1>5, <1>6 DEF h

\* A new series and its new destinations: one link to each of them, and no
\* other, whatever references to their keys had been left behind.
LEMMA PolicyLinks ==
  ASSUME NEW g, Good(g), NEW k \in Key, g[k] = Absent, NEW made \in SUBSET (Key \ {k}),
         \A d \in made : g[d] = Absent
  PROVE  LET h == WithPolicy(g, k, made) IN
         /\ KeysOf(h) = KeysOf(g) \cup {k} \cup made
         /\ LinksOf(h) = LinksOf(g) \cup ({k} \X made)
<1> DEFINE h == WithPolicy(g, k, made)
           L == LinksOf(g) \cup ({k} \X made)
<1>1. /\ h[k] # Absent /\ h[k].src = NoKey
      /\ \A d \in Key : h[k].rules[d] = IF d \in made THEN 1 ELSE 0
      /\ \A j \in made \ {k} : h[j] # Absent /\ h[j].src = k /\ \A d \in Key : h[j].rules[d] = 0
      /\ \A j \in Key \ (made \cup {k}) : h[j] = g[j]
  BY WithPolicyGood
<1> HIDE DEF h
<1>2. KeysOf(h) = KeysOf(g) \cup {k} \cup made
  BY <1>1 DEF KeysOf
<1>3. ASSUME NEW x \in Key, NEW y \in Key
      PROVE  LinkIn(h, x, y) <=> <<x, y>> \in L
  <2>1. <<x, y>> \in L <=> LinkIn(g, x, y) \/ (x = k /\ y \in made)
    BY DEF LinksOf
  <2>n. x # NoKey
    BY KeyAssumption
  <2>2. CASE y = k
    BY <1>1, <2>1, <2>2, <2>n DEF LinkIn
  <2>3. CASE y \in made
    <3>1. h[y].src = k /\ h[y] # Absent /\ ~LinkIn(g, x, y)
      BY <1>1, <2>3 DEF LinkIn
    <3>2. x = k => LinkIn(h, x, y)
      BY <1>1, <2>3, <3>1 DEF LinkIn
    <3> QED BY <2>1, <2>3, <3>1, <3>2 DEF LinkIn
  <2>4. CASE y \notin made \cup {k} /\ x = k
    BY <1>1, <2>1, <2>4 DEF LinkIn
  <2>5. CASE y \notin made \cup {k} /\ x \in made
    BY <1>1, <2>1, <2>5 DEF LinkIn
  <2>6. CASE y \notin made \cup {k} /\ x \notin made \cup {k}
    BY <1>1, <2>1, <2>6 DEF LinkIn
  <2> QED BY <2>2, <2>3, <2>4, <2>5, <2>6
<1>4. L \subseteq Key \X Key
  BY DEF LinksOf
<1> HIDE DEF L
<1>5. LinksOf(h) = L
  BY <1>3, <1>4, PairsEqual
<1> QED BY <1>2, <1>5 DEF h, L

\* The rules of a cleaned series are links.
LEMMA CleanedRules ==
  ASSUME NEW g, Good(g), NEW k \in Key, g[k] # Absent, NEW j \in Key,
         Cleaned(g, k, k)[k].rules[j] # 0
  PROVE  LinkIn(Cleaned(g, k, k), k, j)
<1> DEFINE h == Cleaned(g, k, k)
<1>1. /\ Good(h) /\ h[k] # Absent
      /\ \A i \in Key \ {k} : h[i] = g[i]
      /\ \A d \in Key : h[k].rules[d] # 0 =>
           /\ d # k => g[d] # Absent /\ g[d].src = k
           /\ d = k => h[k].src = k
  BY CleanedGood
<1> HIDE DEF h
<1>2. h[k].rules[j] # 0
  BY DEF h
<1>3. OneRole(h[k]) /\ h[k].rules \in [Key -> Nat]
  BY <1>1, GoodFacts
<1>4. j # k
  BY <1>1, <1>2, <1>3, KeyAssumption DEF OneRole
<1>5. h[k].rules[j] > 0
  BY <1>2, <1>3
<1> QED BY <1>1, <1>2, <1>4, <1>5 DEF LinkIn, h

\* The references when TS.DELETERULE is done.
RuleDropped(g, k, j) ==
  LET cut == Cleaned(RuleLess(g, k, j), j, j)
  IN  [cut EXCEPT ![j].src = IF @ = k THEN NoKey ELSE @]

\* TS.DELETERULE of a link: the source keeps one rule less, the destination has
\* no source.
LEMMA DroppedLink ==
  ASSUME NEW g, Good(g), NEW k \in Key, NEW j \in Key, LinkIn(g, k, j)
  PROVE  /\ KeysOf(RuleDropped(g, k, j)) = KeysOf(g)
         /\ LinksOf(RuleDropped(g, k, j)) = LinksOf(g) \ {<<k, j>>}
<1> DEFINE r    == [g[k].rules EXCEPT ![j] = @ - 1]
           less == RuleLess(g, k, j)
           cut  == Cleaned(less, j, j)
           h    == [cut EXCEPT ![j].src = IF @ = k THEN NoKey ELSE @]
<1>1. /\ k # j /\ g[k].src = NoKey /\ g[k].rules[j] # 0 /\ \A e \in Key : g[j].rules[e] = 0
      /\ g[k] # Absent /\ g[j] # Absent /\ g[j].src = k /\ g[k].rules \in [Key -> Nat]
  <2>1. k # j /\ g[k].src = NoKey /\ g[k].rules[j] # 0 /\ \A e \in Key : g[j].rules[e] = 0
    BY LinkEnds
  <2>2. g[k] # Absent /\ g[j] # Absent /\ g[j].src = k
    BY DEF LinkIn
  <2> QED BY <2>1, <2>2, GoodFacts
<1>2. r \in [Key -> Nat] /\ \A e \in Key \ {j} : r[e] = g[k].rules[e]
  BY <1>1
<1>3. less = RulesSet(g, k, r)
  BY DEF RuleLess, RulesSet
<1> HIDE DEF r, less
<1>4. /\ Good(less) /\ \A i \in Key \ {k} : less[i] = g[i]
      /\ less[k] # Absent /\ less[k].src = NoKey /\ less[k].rules = r
  BY <1>1, <1>2, <1>3, SetRules
<1>5. less[j] = g[j] /\ less[j] # Absent
  BY <1>1, <1>4
<1>6. /\ Good(cut) /\ cut[j] # Absent
      /\ \A i \in Key \ {j} : cut[i] = less[i]
      /\ cut[j].src = NoKey \/ cut[j].src = k
      /\ \A d \in Key : cut[j].rules[d] # 0 => less[j].rules[d] # 0
  BY <1>1, <1>4, <1>5, CleanedGood
<1> HIDE DEF cut
<1>7. ASSUME NEW e \in Key PROVE cut[j].rules[e] = 0
  <2>1. less[j].rules[e] = 0
    BY <1>1, <1>5
  <2> QED BY <1>6, <2>1
<1>8. h = SrcSet(cut, j, NoKey)
  <2>1. (IF cut[j].src = k THEN NoKey ELSE cut[j].src) = NoKey
    BY <1>6
  <2> QED BY <2>1 DEF SrcSet
<1> HIDE DEF h
<1>9. /\ \A i \in Key \ {j} : h[i] = cut[i]
      /\ h[j] # Absent /\ h[j].src = NoKey /\ h[j].rules = cut[j].rules
  BY <1>6, <1>8, SetSource
<1>10. /\ \A i \in Key \ {j, k} : h[i] = g[i]
       /\ h[k] # Absent /\ h[k].src = NoKey /\ h[k].rules = r
       /\ h[j] # Absent /\ h[j].src = NoKey /\ \A e \in Key : h[j].rules[e] = 0
  BY <1>1, <1>4, <1>6, <1>7, <1>9
<1>11. ASSUME NEW x \in Key, NEW y \in Key
       PROVE  LinkIn(h, x, y) <=> <<x, y>> \in LinksOf(g) \ {<<k, j>>}
  <2>1. <<x, y>> \in LinksOf(g) \ {<<k, j>>} <=> LinkIn(g, x, y) /\ ~(x = k /\ y = j)
    BY DEF LinksOf
  <2>n. x # NoKey
    BY KeyAssumption
  <2>2. CASE y = j
    BY <1>1, <1>10, <2>1, <2>2, <2>n DEF LinkIn
  <2>3. CASE y = k
    BY <1>1, <1>10, <2>1, <2>3, <2>n DEF LinkIn
  <2>4. CASE x = j
    <3>1. ~LinkIn(g, x, y) /\ ~LinkIn(h, x, y)
      BY <1>1, <1>10, <2>4 DEF LinkIn
    <3> QED BY <2>1, <3>1
  <2>5. CASE x # j /\ y \notin {j, k}
    BY <1>1, <1>2, <1>10, <2>1, <2>5 DEF LinkIn
  <2> QED BY <2>2, <2>3, <2>4, <2>5
<1>12. LinksOf(g) \ {<<k, j>>} \subseteq Key \X Key
  BY DEF LinksOf
<1>13. LinksOf(h) = LinksOf(g) \ {<<k, j>>}
  BY <1>11, <1>12, PairsEqual
<1>14. KeysOf(h) = KeysOf(g)
  BY <1>1, <1>10 DEF KeysOf
<1> QED BY <1>13, <1>14 DEF RuleDropped, h, cut, less

\* RENAME, as a set of links.
LEMMA RenamedLinks ==
  ASSUME Good(db), NEW a \in Key, NEW b \in Key, a # b, db[a] # Absent
  PROVE  LET renamed(k) == IF k = a THEN b ELSE k
             h == RenameSeriesTo(a, b)
         IN  /\ KeysOf(h) = (KeysOf(db) \ {a}) \cup {b}
             /\ LinksOf(h) = {<<renamed(l[1]), renamed(l[2])>> : l \in WithoutKey(db, b)}
<1> DEFINE renamed(k) == IF k = a THEN b ELSE k
           h == RenameSeriesTo(a, b)
           L == {<<renamed(l[1]), renamed(l[2])>> : l \in WithoutKey(db, b)}
<1>1. /\ h[a] = Absent /\ h[b] # Absent
      /\ \A k \in Key \ {a, b} : h[k] = Absent <=> db[k] = Absent
      /\ \A x, y \in Key :
           LinkIn(h, x, y) <=>
             \/ x \notin {a, b} /\ y \notin {a, b} /\ LinkIn(db, x, y)
             \/ x = b /\ y \notin {a, b} /\ LinkIn(db, a, y)
             \/ x \notin {a, b} /\ y = b /\ LinkIn(db, x, a)
  BY RenameLinks
<1> HIDE DEF h
<1>2. KeysOf(h) = (KeysOf(db) \ {a}) \cup {b}
  BY <1>1 DEF KeysOf
<1>3. ASSUME NEW x \in Key, NEW y \in Key
      PROVE  <<x, y>> \in WithoutKey(db, b) <=> LinkIn(db, x, y) /\ x # b /\ y # b
  BY DEF WithoutKey, LinksOf
<1>4. ASSUME NEW x \in Key, NEW y \in Key, LinkIn(h, x, y) PROVE <<x, y>> \in L
  <2>1. CASE x \notin {a, b} /\ y \notin {a, b} /\ LinkIn(db, x, y)
    <3>1. <<x, y>> \in WithoutKey(db, b) /\ renamed(x) = x /\ renamed(y) = y
      BY <1>3, <2>1
    <3> QED BY <3>1
  <2>2. CASE x = b /\ y \notin {a, b} /\ LinkIn(db, a, y)
    <3>1. <<a, y>> \in WithoutKey(db, b) /\ renamed(a) = x /\ renamed(y) = y
      BY <1>3, <2>2
    <3> QED BY <3>1
  <2>3. CASE x \notin {a, b} /\ y = b /\ LinkIn(db, x, a)
    <3>1. <<x, a>> \in WithoutKey(db, b) /\ renamed(x) = x /\ renamed(a) = y
      BY <1>3, <2>3
    <3> QED BY <3>1
  <2> QED BY <1>1, <1>4, <2>1, <2>2, <2>3
<1>5. ASSUME NEW x \in Key, NEW y \in Key, <<x, y>> \in L PROVE LinkIn(h, x, y)
  <2>1. PICK l \in WithoutKey(db, b) : <<x, y>> = <<renamed(l[1]), renamed(l[2])>>
    BY <1>5
  <2>2. PICK u \in Key, v \in Key : l = <<u, v>>
    BY DEF WithoutKey, LinksOf
  <2>3. x = renamed(u) /\ y = renamed(v) /\ LinkIn(db, u, v) /\ u # b /\ v # b
    BY <1>3, <2>1, <2>2
  <2>4. u # v
    BY <2>3, LinkEnds
  <2> QED BY <1>1, <2>3, <2>4
<1>6. L \subseteq Key \X Key
  <2>1. ASSUME NEW l \in WithoutKey(db, b) PROVE l[1] \in Key /\ l[2] \in Key
    BY DEF WithoutKey, LinksOf
  <2> QED BY <2>1
<1>7. \A x, y \in Key : LinkIn(h, x, y) <=> <<x, y>> \in L
  BY <1>4, <1>5
<1> HIDE DEF L
<1>8. LinksOf(h) = L
  BY <1>6, <1>7, PairsEqual
<1> QED BY <1>2, <1>8 DEF h, L

\* Every command is its own step of LinkGraph on the links, or leaves them alone.
LEMMA GraphStep == IndInv => CommandStep
<1> SUFFICES ASSUME IndInv PROVE CommandStep
  OBVIOUS
<1> DEFINE K == {k \in Key : Exists(k)}
<1>i. /\ Good(db)
      /\ dumped \in Series \cup {Absent} /\ (dumped # Absent => OneRole(dumped))
  BY DEF IndInv
<1>l. Links = LinksOf(db) /\ Links' = LinksOf(db') /\ K = KeysOf(db) /\ K' = KeysOf(db')
  BY LinksOfDb
<1>w. ASSUME NEW k \in Key PROVE Graph!Without(k) = WithoutKey(db, k)
  BY <1>l DEF Graph!Without, WithoutKey
<1>e. EmptySeries.src = NoKey /\ EmptySeries # Absent /\ \A d \in Key : EmptySeries.rules[d] = 0
  BY EmptySeriesGood, AbsentAssumption DEF EmptySeries, NoRules
<1>s. ASSUME SameGraph(db, db') PROVE UNCHANGED Graph!vars
  BY <1>l, <1>s, SameSets DEF Graph!vars
<1>c. ASSUME NEW k \in Key, db[k] # Absent
      PROVE  /\ SameGraph(db, Cleaned(db, k, k)) /\ Good(Cleaned(db, k, k))
             /\ Cleaned(db, k, k)[k] # Absent
             /\ \A j \in Key \ {k} : Cleaned(db, k, k)[j] = db[j]
  BY <1>i, <1>c, CleanedSame, CleanedGood
<1>n. ASSUME NEW k \in Key, db' = [db EXCEPT ![k] = EmptySeries] PROVE Graph!Create(k)
  <2>1. LinksOf(db') = WithoutKey(db, k) /\ KeysOf(db') = KeysOf(db) \cup {k}
    BY <1>i, <1>e, <1>n, StoreLinks
  <2> QED BY <1>l, <1>w, <2>1 DEF Graph!Create
<1>1. ASSUME NEW k \in Key, Create(k) PROVE Graph!Create(k)
  BY <1>1, <1>n DEF Create
<1>2. ASSUME NEW k \in Key, AddToNew(k)
      PROVE  \E made \in SUBSET AutoDests[k] : Graph!CreateLinked(k, made)
  <2>1. PICK made \in SUBSET {d \in AutoDests[k] : ~Exists(d)} : db' = WithPolicy(db, k, made)
    BY <1>2 DEF AddToNew, WithPolicy
  <2>2. /\ made \in SUBSET (Key \ {k}) /\ made \in SUBSET AutoDests[k]
        /\ db[k] = Absent /\ \A d \in made : db[d] = Absent
    BY <1>2, <2>1, KeyAssumption, AutoDestsAssumption DEF AddToNew, Exists
  <2>3. /\ KeysOf(db') = KeysOf(db) \cup {k} \cup made
        /\ LinksOf(db') = LinksOf(db) \cup ({k} \X made)
    BY <1>i, <2>1, <2>2, PolicyLinks
  <2>4. k \notin KeysOf(db) /\ made \cap (KeysOf(db) \cup {k}) = {}
    BY <2>2 DEF KeysOf
  <2>5. Graph!CreateLinked(k, made)
    BY <1>l, <2>3, <2>4 DEF Graph!CreateLinked
  <2> QED BY <2>2, <2>5
<1>3. ASSUME NEW k \in Key, Write(k) \/ Info(k) PROVE UNCHANGED Graph!vars
  BY <1>3, <1>c, <1>s DEF Write, Info, Exists
<1>4. ASSUME NEW k \in Key, Delete(k) PROVE Graph!Delete(k)
  <2>1. LinksOf(db') = WithoutKey(db, k) /\ KeysOf(db') = KeysOf(db) \ {k}
    BY <1>i, <1>4, StoreLinks DEF Delete
  <2> QED BY <1>l, <1>w, <2>1 DEF Graph!Delete
<1>5. ASSUME NEW k \in Key, Dump(k) PROVE UNCHANGED Graph!vars
  <2>1. db' = db
    BY <1>5 DEF Dump
  <2> QED BY <1>l, <2>1 DEF Graph!vars
<1>6. ASSUME NEW k \in Key, RestoreKey(k)
      PROVE  Graph!Restore(k, {dumped.src} \ {NoKey}, {d \in Key : dumped.rules[d] > 0})
  <2>1. /\ KeysOf(db') = KeysOf(db) \cup {k}
        /\ WithoutKey(db, k) \subseteq LinksOf(db')
        /\ Sources(dumped) = {} \/ Dests(dumped) = {}
        /\ LinksOf(db') \ WithoutKey(db, k) \subseteq
             ((Sources(dumped) \cap KeysOf(db)) \X {k}) \cup ({k} \X (Dests(dumped) \cap KeysOf(db)))
    BY <1>i, <1>6, RestoreLinks DEF RestoreKey
  <2>2. Graph!Restore(k, Sources(dumped), Dests(dumped))
    BY <1>l, <1>w, <2>1 DEF Graph!Restore
  <2> QED BY <2>2 DEF Sources, Dests
<1>7. ASSUME NEW k \in Key, NEW j \in Key, CreateRule(k, j) \/ CreateRuleRefused(k, j)
      PROVE  /\ CreateRule(k, j) => Graph!AddLink(k, j)
             /\ CreateRuleRefused(k, j) => UNCHANGED Graph!vars
  <2> DEFINE once  == Cleaned(db, k, k)
             twice == Cleaned(once, j, j)
  <2>1. k # j /\ db[k] # Absent
    BY <1>7 DEF CreateRule, CreateRuleRefused, Exists
  <2>2. Good(once) /\ SameGraph(db, once) /\ once[j] = db[j] /\ once[k] # Absent
    BY <1>c, <2>1
  <2>a. CreateRule(k, j) =>
          /\ db[j] # Absent /\ twice[k].src = NoKey /\ twice[j].src = NoKey /\ ~HasRules(twice, j)
          /\ db' = Linked(twice, k, j)
    BY DEF CreateRule, Exists
  <2>b. CreateRuleRefused(k, j) => db' = once \/ (db[j] # Absent /\ db' = twice)
    BY DEF CreateRuleRefused, Exists
  <2> HIDE DEF once
  <2>3. ASSUME db[j] # Absent
        PROVE  Good(twice) /\ twice[j] # Absent /\ twice[k] # Absent /\ SameGraph(db, twice)
    <3>1. /\ Good(twice) /\ twice[j] # Absent
          /\ \A i \in Key \ {j} : twice[i] = once[i]
      BY <2>2, <2>3, CleanedGood
    <3>2. SameGraph(once, twice)
      BY <2>2, <2>3, CleanedSame
    <3>3. SameGraph(db, twice)
      BY <2>2, <3>2, SameTwice
    <3> QED BY <2>1, <2>2, <3>1, <3>3
  <2> HIDE DEF twice
  <2>4. ASSUME CreateRule(k, j) PROVE Graph!AddLink(k, j)
    <3>1. /\ Good(twice) /\ twice[j] # Absent /\ twice[k] # Absent /\ twice[k].src = NoKey
          /\ twice[j].src = NoKey /\ SameGraph(db, twice)
      BY <2>a, <2>3, <2>4
    <3>2. \A e \in Key : twice[j].rules[e] = 0
      <4>1. twice[j].rules \in [Key -> Nat]
        BY <3>1, GoodFacts
      <4> QED BY <2>a, <2>4, <4>1 DEF HasRules
    <3>3. KeysOf(twice) = KeysOf(db) /\ LinksOf(twice) = LinksOf(db)
      BY <3>1, SameSets
    <3>4. /\ KeysOf(Linked(twice, k, j)) = KeysOf(twice)
          /\ LinksOf(Linked(twice, k, j)) = LinksOf(twice) \cup {<<k, j>>}
          /\ \A l \in LinksOf(twice) : l[2] # k /\ l[1] # j /\ l[2] # j
      BY <2>1, <3>1, <3>2, AddedLink
    <3>5. k \in KeysOf(db) /\ j \in KeysOf(db)
      BY <2>1, <2>a, <2>4 DEF KeysOf
    <3> QED BY <1>l, <2>1, <2>a, <2>4, <3>3, <3>4, <3>5 DEF Graph!AddLink, Graph!Linkable
  <2>5. ASSUME CreateRuleRefused(k, j) PROVE UNCHANGED Graph!vars
    <3>1. SameGraph(db, db')
      BY <2>b, <2>2, <2>3, <2>5
    <3> QED BY <1>s, <3>1
  <2> QED BY <2>4, <2>5
<1>8. ASSUME NEW k \in Key, NEW j \in Key, DeleteRule(k, j) PROVE Graph!DropLink(k, j)
  <2> DEFINE once == Cleaned(db, k, k)
             none == RuleDropped(once, k, j)
  <2>1. db[k] # Absent /\ db' = IF once[k].rules[j] = 0 THEN once ELSE none
    BY <1>8 DEF DeleteRule, Exists, RuleLess, RuleDropped
  <2>2. Good(once) /\ SameGraph(db, once)
    BY <1>c, <2>1
  <2>3. KeysOf(once) = KeysOf(db) /\ LinksOf(once) = LinksOf(db)
    BY <2>2, SameSets
  <2>4. CASE once[k].rules[j] = 0
    <3>1. <<k, j>> \notin LinksOf(once)
      BY <2>4 DEF LinksOf, LinkIn
    <3> QED BY <1>l, <2>1, <2>3, <2>4, <3>1 DEF Graph!DropLink
  <2>5. CASE once[k].rules[j] # 0
    <3>1. LinkIn(once, k, j)
      BY <1>i, <2>1, <2>5, CleanedRules
    <3> HIDE DEF once
    <3>2. KeysOf(none) = KeysOf(once) /\ LinksOf(none) = LinksOf(once) \ {<<k, j>>}
      BY <2>2, <3>1, DroppedLink
    <3> HIDE DEF none
    <3> QED BY <1>l, <2>1, <2>3, <2>5, <3>2 DEF Graph!DropLink
  <2> QED BY <2>4, <2>5
<1>9. ASSUME NEW k \in Key, NEW j \in Key, Rename(k, j) PROVE Graph!Rename(k, j)
  <2> DEFINE renamed(i) == IF i = k THEN j ELSE i
  <2>1. /\ k # j
        /\ KeysOf(db') = (KeysOf(db) \ {k}) \cup {j}
        /\ LinksOf(db') = {<<renamed(l[1]), renamed(l[2])>> : l \in WithoutKey(db, j)}
    BY <1>i, <1>9, RenamedLinks DEF Rename, Exists
  <2> QED BY <1>l, <1>w, <2>1 DEF Graph!Rename
<1>10. ASSUME NEW k \in Key, NEW j \in Key, Copy(k, j) PROVE Graph!Create(j)
  BY <1>10, <1>n DEF Copy
<1>11. ASSUME PersistenceEvent PROVE UNCHANGED Graph!vars
  <2>1. db' = db
    BY <1>11 DEF PersistenceEvent
  <2> QED BY <1>l, <2>1 DEF Graph!vars
<1>12. ASSUME Flush PROVE Graph!Flush
  <2>1. KeysOf(db') = {} /\ LinksOf(db') = {}
    BY <1>12 DEF Flush, KeysOf, LinksOf, LinkIn
  <2> QED BY <1>l, <2>1 DEF Graph!Flush
<1> QED
  BY <1>1, <1>2, <1>3, <1>4, <1>5, <1>6, <1>7, <1>8, <1>9, <1>10, <1>11, <1>12 DEF CommandStep

\* The commands, seen as what they do to the pairs of series whose two halves
\* agree, implement LinkGraph, each by the action of its own name and keys: for
\* every keyspace and every policy, no command makes or breaks a link it is not
\* about, and RESTORE brings back no link that the value does not name.
THEOREM RefinesLinkGraph == Spec => ImplementsLinkGraph
<1>1. Init => Graph!Init
  <2> SUFFICES ASSUME Init PROVE Graph!Init
    OBVIOUS
  <2>1. KeysOf(db) = {} /\ LinksOf(db) = {}
    BY DEF Init, KeysOf, LinksOf, LinkIn
  <2> QED BY <2>1, LinksOfDb DEF Graph!Init
<1> QED BY <1>1, Invariance, GraphStep, PTL DEF Spec, ImplementsLinkGraph
=============================================================================
