----------------------------- MODULE RuleGraph -----------------------------
(***************************************************************************)
(* The references between series.  A compaction rule is written down       *)
(* twice: in the source's list of rules, by the destination's key name,    *)
(* and in the destination's srcKey.  Deleting, overwriting or restoring a  *)
(* key leaves the other half behind; deleteReferenceToDeletedSeries removes *)
(* a half without its counterpart when a later command opens the series.   *)
(*                                                                         *)
(* Only the references are modelled here.  What two rules with the same    *)
(* destination differ in (aggregation, bucket) is left out, so a list of   *)
(* rules is the number of rules for each destination.  A key of another    *)
(* type counts as absent, as it does for GetSeries.                        *)
(***************************************************************************)
EXTENDS Naturals

CONSTANTS
  Key,       \* key names
  NoKey,     \* NULL
  Absent,    \* no series under this key
  AutoDests, \* the destinations COMPACTION_POLICY names for a new key
  MaxRules   \* bound: rules with the same destination

ASSUME KeyAssumption == NoKey \notin Key /\ AutoDests \in [Key -> SUBSET Key]
ASSUME AutoDestsAssumption == \A k \in Key : k \notin AutoDests[k]

Series == [src : Key \cup {NoKey}, rules : [Key -> Nat]]

ASSUME AbsentAssumption == Absent \notin Series

VARIABLES
  db,         \* the series under each key, or Absent
  persisting, \* persistence_in_progress > 0
  dumped      \* the value of an earlier DUMP, or Absent

vars == <<db, persisting, dumped>>

NoRules == [d \in Key |-> 0]
EmptySeries == [src |-> NoKey, rules |-> NoRules]

Exists(k) == db[k] # Absent

----------------------------------------------------------------------------
(***************************************************************************)
(* deleteReferenceToDeletedSeries for the series under key k, whose name   *)
(* is name (during RENAME still the old one): forget a source that has no  *)
(* rule for it, then the rules whose destination does not name it as its   *)
(* source.                                                                 *)
(***************************************************************************)
WithoutDeletedSource(g, k, name) ==
  LET s == g[k].src IN
  IF s # NoKey /\ (g[s] = Absent \/ g[s].rules[name] = 0)
  THEN [g EXCEPT ![k].src = NoKey] ELSE g

WithoutDeletedDests(g, k, name) ==
  [g EXCEPT ![k].rules = [d \in Key |-> IF g[d] # Absent /\ g[d].src = name THEN @[d] ELSE 0]]

Cleaned(g, k, name) == WithoutDeletedDests(WithoutDeletedSource(g, k, name), k, name)

HasRules(g, k) == \E d \in Key : g[k].rules[d] > 0

\* The source side and the destination side of a rule from s to d.
Linked(g, s, d) ==
  [g EXCEPT ![s].rules[d] = @ + 1, ![d].src = s]

----------------------------------------------------------------------------
Init ==
  /\ db = [k \in Key |-> Absent]
  /\ persisting = FALSE
  /\ dumped = Absent

\* TS.CREATE.
Create(k) ==
  /\ ~Exists(k)
  /\ db' = [db EXCEPT ![k] = EmptySeries]
  /\ UNCHANGED <<persisting, dumped>>

\* TS.ADD or TS.INCRBY of a key that does not exist: the series is created
\* together with the destinations of the global compaction policy.  A rule of
\* the policy whose key is taken is passed over; the key may be taken by a value
\* that is not a series, which is Absent here, so any of them may be missing.
AddToNew(k) ==
  /\ ~Exists(k)
  /\ \E made \in SUBSET {d \in AutoDests[k] : ~Exists(d)} :
       LET source == [src |-> NoKey, rules |-> [d \in Key |-> IF d \in made THEN 1 ELSE 0]]
           dest   == [src |-> k, rules |-> NoRules]
       IN  db' = [j \in Key |-> IF j = k THEN source ELSE IF j \in made THEN dest ELSE db[j]]
  /\ UNCHANGED <<persisting, dumped>>

\* TS.ADD, TS.MADD, TS.INCRBY, TS.DECRBY or TS.DEL of an existing series: a
\* series with rules is cleaned before its destinations are written to.
Write(k) ==
  /\ Exists(k) /\ HasRules(db, k)
  /\ db' = Cleaned(db, k, k)
  /\ UNCHANGED <<persisting, dumped>>

\* TS.INFO.
Info(k) ==
  /\ Exists(k)
  /\ db' = Cleaned(db, k, k)
  /\ UNCHANGED <<persisting, dumped>>

----------------------------------------------------------------------------
(***************************************************************************)
(* TS.CREATERULE and TS.DELETERULE.  A refused command has still cleaned   *)
(* the series it opened.                                                   *)
(***************************************************************************)

\* Mutant: the source may be a destination itself.
CreateRuleUnchecked(s, d) ==
  /\ s # d /\ Exists(s) /\ Exists(d)
  /\ LET cleaned == Cleaned(Cleaned(db, s, s), d, d) IN
     /\ cleaned[d].src = NoKey /\ ~HasRules(cleaned, d)
     /\ cleaned[s].rules[d] < MaxRules
     /\ db' = Linked(cleaned, s, d)
  /\ UNCHANGED <<persisting, dumped>>

CreateRule(s, d) ==
  /\ s # d /\ Exists(s) /\ Exists(d)
  /\ LET cleaned == Cleaned(Cleaned(db, s, s), d, d) IN
     /\ cleaned[s].src = NoKey
     /\ cleaned[d].src = NoKey /\ ~HasRules(cleaned, d)
     /\ cleaned[s].rules[d] < MaxRules
     /\ db' = Linked(cleaned, s, d)
  /\ UNCHANGED <<persisting, dumped>>

CreateRuleRefused(s, d) ==
  /\ s # d /\ Exists(s)
  /\ LET once  == Cleaned(db, s, s)
         twice == Cleaned(once, d, d)
     IN
     IF once[s].src # NoKey \/ ~Exists(d) THEN db' = once
     ELSE /\ HasRules(twice, d) \/ twice[d].src # NoKey
          /\ db' = twice
  /\ UNCHANGED <<persisting, dumped>>

\* Mutant: a rule that is not there is taken out as well.
DeleteRuleUnchecked(s, d) ==
  /\ Exists(s) /\ Exists(d)
  /\ LET once == Cleaned(db, s, s)
         cut  == Cleaned([once EXCEPT ![s].rules[d] = @ - 1], d, d)
     IN  db' = [cut EXCEPT ![d].src = IF @ = s THEN NoKey ELSE @]
  /\ UNCHANGED <<persisting, dumped>>

\* The rule goes first, so opening the destination already removes srcKey
\* unless there is a second rule for it.
DeleteRule(s, d) ==
  /\ Exists(s)
  /\ LET once == Cleaned(db, s, s) IN
     IF once[s].rules[d] = 0 THEN db' = once
     ELSE LET cut == Cleaned([once EXCEPT ![s].rules[d] = @ - 1], d, d)
          IN  db' = [cut EXCEPT ![d].src = IF @ = s THEN NoKey ELSE @]
  /\ UNCHANGED <<persisting, dumped>>

----------------------------------------------------------------------------
(***************************************************************************)
(* The keyspace: DEL, UNLINK, SET, expiry and eviction; RENAME; COPY; DUMP *)
(* and RESTORE; FLUSHALL.                                                  *)
(***************************************************************************)
Delete(k) ==
  /\ Exists(k)
  /\ db' = [db EXCEPT ![k] = Absent]
  /\ UNCHANGED <<persisting, dumped>>

\* RenameSeriesTo: the series is now under b but its name is still a.  The
\* source's rule (one of them, when there are several) and the srcKey of every
\* destination are changed to b.

RuleRenamed(rules, a, b) == [rules EXCEPT ![a] = @ - 1, ![b] = @ + 1]

\* Mutant: the destinations of a renamed source keep its old name.
RenameSeriesToKeepingSrc(a, b) ==
  LET moved   == Cleaned([db EXCEPT ![b] = db[a], ![a] = Absent], b, a)
      s       == moved[b].src
  IN
  IF s = NoKey \/ moved[s].rules[a] = 0 THEN moved
  ELSE [moved EXCEPT ![s].rules = RuleRenamed(@, a, b)]

RenameSeriesTo(a, b) ==
  LET moved   == Cleaned([db EXCEPT ![b] = db[a], ![a] = Absent], b, a)
      s       == moved[b].src
      updated == IF s = NoKey \/ moved[s].rules[a] = 0 THEN moved
                 ELSE [moved EXCEPT ![s].rules = RuleRenamed(@, a, b)]
  IN
  [d \in Key |-> IF updated[b].rules[d] > 0 THEN [updated[d] EXCEPT !.src = b] ELSE updated[d]]

Rename(a, b) ==
  /\ a # b /\ Exists(a)
  /\ LET s == db[a].src IN s # NoKey /\ Exists(s) => db[s].rules[b] < MaxRules
  /\ db' = RenameSeriesTo(a, b)
  /\ UNCHANGED <<persisting, dumped>>

\* CopySeries, also onto an existing key (REPLACE).
Copy(a, b) ==
  /\ a # b /\ Exists(a)
  /\ db' = [db EXCEPT ![b] = EmptySeries]
  /\ UNCHANGED <<persisting, dumped>>

\* DUMP (series_rdb_save): the references are left out unless an RDB or AOF is
\* being written at the same time.
Dump(k) ==
  /\ Exists(k)
  /\ dumped' = IF persisting THEN db[k] ELSE EmptySeries
  /\ UNCHANGED <<db, persisting>>

\* RESTORE (series_rdb_load and RestoreKey), also with REPLACE.
RestoreKey(k) ==
  /\ dumped # Absent
  /\ db' = [db EXCEPT ![k] = dumped]
  /\ UNCHANGED <<persisting, dumped>>

\* persistCallback.
PersistenceEvent == persisting' = ~persisting /\ UNCHANGED <<db, dumped>>

Flush ==
  /\ db' = [k \in Key |-> Absent]
  /\ UNCHANGED <<persisting, dumped>>

Next ==
  \/ \E k \in Key :
       \/ Create(k) \/ AddToNew(k) \/ Write(k) \/ Info(k)
       \/ Delete(k) \/ Dump(k) \/ RestoreKey(k)
       \/ \E j \in Key : \/ CreateRule(k, j) \/ CreateRuleRefused(k, j) \/ DeleteRule(k, j)
                         \/ Rename(k, j) \/ Copy(k, j)
  \/ PersistenceEvent \/ Flush

Spec == Init /\ [][Next]_vars

----------------------------------------------------------------------------
(***************************************************************************)
(* Properties.                                                             *)
(***************************************************************************)

\* Both halves of the rule agree.
IsLink(s, d) ==
  /\ Exists(s) /\ Exists(d)
  /\ db[s].rules[d] > 0 /\ db[d].src = s

Links == {l \in Key \X Key : IsLink(l[1], l[2])}

\* Type correctness of the keyspace.
TypeOK ==
  /\ db \in [Key -> Series \cup {Absent}]
  /\ persisting \in BOOLEAN
  /\ dumped \in Series \cup {Absent}

\* No series is both a source and a destination, so that a write reaches
\* destinations that pass it on to nobody: internalAdd and handleCompaction,
\* which call each other, end after one level.
NoChains == \A l, m \in Links : l[2] # m[1]

Graph == INSTANCE LinkGraph WITH keys <- {k \in Key : Exists(k)}, links <- Links

\* What each command does to the links: it is that action of LinkGraph, for the
\* keys it was given, and a command that is about no link leaves all of them
\* alone.
CommandStep ==
  /\ \A k \in Key :
       /\ Create(k) => Graph!Create(k)
       /\ AddToNew(k) => \E made \in SUBSET AutoDests[k] : Graph!CreateLinked(k, made)
       /\ Write(k) \/ Info(k) \/ Dump(k) => UNCHANGED Graph!vars
       /\ Delete(k) => Graph!Delete(k)
       /\ RestoreKey(k) => Graph!Restore(k, {dumped.src} \ {NoKey}, {d \in Key : dumped.rules[d] > 0})
  /\ \A s, d \in Key :
       /\ CreateRule(s, d) => Graph!AddLink(s, d)
       /\ CreateRuleRefused(s, d) => UNCHANGED Graph!vars
       /\ DeleteRule(s, d) => Graph!DropLink(s, d)
       /\ Rename(s, d) => Graph!Rename(s, d)
       /\ Copy(s, d) => Graph!Create(d)
  /\ PersistenceEvent => UNCHANGED Graph!vars
  /\ Flush => Graph!Flush

\* For the pairs of series whose two halves agree every command is its own step
\* of LinkGraph: no command makes or breaks a link it is not about, whatever
\* halves DEL, RENAME, COPY and RESTORE have left behind before; RENAME takes a
\* series' links along on both sides; RESTORE brings back at most the links that
\* the restored value names; and the lazy cleaning is invisible.
ImplementsLinkGraph == Graph!Init /\ [][CommandStep]_vars

\* series_iterator.c: "LATEST is ignored for a series that is not a
\* compaction".  TS.GET and TS.RANGE with LATEST of a series with a srcKey open
\* that source, without cleaning either series, and once the source has a
\* sample find_rule asserts that it has a rule for the series.
LatestFindsRule ==
  \A k \in Key : Exists(k) /\ db[k].src # NoKey =>
    LET s == db[k].src IN Exists(s) => db[s].rules[k] > 0
=============================================================================
