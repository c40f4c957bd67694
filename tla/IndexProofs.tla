---------------------------- MODULE IndexProofs ----------------------------
(***************************************************************************)
(* The two halves of the label index stay inverse to each other and follow *)
(* the keyspace, for every set of keys, labels and lists of labels; and a  *)
(* query of the index returns exactly the series that satisfy its filters, *)
(* for every set of filters and every number of filters in a query.        *)
(*                                                                         *)
(* The invariant says the same of the index that a diskless load has put   *)
(* aside, because Restore_Globals brings it back.  For the queries: the    *)
(* filter that is promoted to the front changes places with another, so    *)
(* the filters stay the same ones; the pass over the matchers yields the   *)
(* keys that all matchers have, the pass over the others takes away the    *)
(* keys that one of them has; and by the invariant the leaf of a filter    *)
(* holds the series with that label.                                       *)
(***************************************************************************)
EXTENDS IndexQuery, FiniteSetTheorems, WellFoundedInduction, TLAPS

Good(d, ix, outlived) ==
  /\ d \in [Key -> Content]
  /\ ix \in IndexType
  /\ outlived \in SUBSET Key
  /\ AreInverse(ix)
  /\ Follows(d, ix, outlived)

IndInv ==
  /\ Good(db, index, stale)
  /\ loading \in BOOLEAN
  /\ backup # NoBackup =>
       /\ backup = [db |-> backup.db, index |-> backup.index, stale |-> backup.stale]
       /\ Good(backup.db, backup.index, backup.stale)

----------------------------------------------------------------------------
(***************************************************************************)
(* The operations on the index.                                            *)
(***************************************************************************)

\* The entries of a list of labels are entries of the index.
LEMMA IndexKeysType ==
  ASSUME NEW L \in LabelLists
  PROVE  IndexKeys(L) \in SUBSET IndexKey
<1>1. L \in SUBSET LabelPair
  BY LabelListsAssumption
<1>2. ASSUME NEW p \in L PROVE p[1] \in Label
  BY <1>1 DEF LabelPair
<1> QED BY <1>1, <1>2 DEF IndexKeys, IndexKey

\* A series is stored with one of the label lists.
LEMMA SeriesLabels ==
  ASSUME NEW v \in Content, IsSeries(v)
  PROVE  v \in LabelLists
BY DEF Content, IsSeries

\* An empty index has inverse halves.
LEMMA EmptyIndexGood ==
  /\ EmptyIndex \in IndexType
  /\ AreInverse(EmptyIndex)
  /\ \A k \in Key : EmptyIndex.tsLabelIndex[k] = {}
BY DEF EmptyIndex, IndexType, AreInverse

\* IndexMetric adds the entries of k on both sides.
LEMMA IndexMetricGood ==
  ASSUME NEW ix \in IndexType, AreInverse(ix), NEW k \in Key, NEW L \in LabelLists
  PROVE  /\ IndexMetric(ix, k, L) \in IndexType
         /\ AreInverse(IndexMetric(ix, k, L))
         /\ \A j \in Key : IndexMetric(ix, k, L).tsLabelIndex[j] =
              IF j = k THEN ix.tsLabelIndex[j] \cup IndexKeys(L) ELSE ix.tsLabelIndex[j]
<1> DEFINE E == IndexKeys(L)
<1>1. E \in SUBSET IndexKey
  BY IndexKeysType
<1> HIDE DEF E
<1> DEFINE jx == [labelsIndex  |-> [x \in IndexKey |-> IF x \in E THEN ix.labelsIndex[x] \cup {k}
                                                       ELSE ix.labelsIndex[x]],
                  tsLabelIndex |-> [ix.tsLabelIndex EXCEPT ![k] = @ \cup E]]
<1>2. IndexMetric(ix, k, L) = jx
  BY DEF IndexMetric, E
<1>3. jx \in IndexType
  BY <1>1 DEF IndexType
<1>4. \A j \in Key : jx.tsLabelIndex[j] =
        IF j = k THEN ix.tsLabelIndex[j] \cup E ELSE ix.tsLabelIndex[j]
  BY DEF IndexType
<1>5. AreInverse(jx)
  BY <1>1, <1>4 DEF AreInverse, IndexType
<1> QED BY <1>2, <1>3, <1>4, <1>5 DEF E

\* RemoveIndexedMetric finds every entry of k through tsLabelIndex.
LEMMA RemoveIndexedMetricGood ==
  ASSUME NEW ix \in IndexType, AreInverse(ix), NEW k \in Key
  PROVE  /\ RemoveIndexedMetric(ix, k) \in IndexType
         /\ AreInverse(RemoveIndexedMetric(ix, k))
         /\ \A j \in Key : RemoveIndexedMetric(ix, k).tsLabelIndex[j] =
              IF j = k THEN {} ELSE ix.tsLabelIndex[j]
<1> DEFINE jx == [labelsIndex  |-> [x \in IndexKey |->
                                      IF x \in ix.tsLabelIndex[k] THEN ix.labelsIndex[x] \ {k}
                                      ELSE ix.labelsIndex[x]],
                  tsLabelIndex |-> [ix.tsLabelIndex EXCEPT ![k] = {}]]
<1>1. RemoveIndexedMetric(ix, k) = jx
  BY DEF RemoveIndexedMetric
<1>2. jx \in IndexType
  BY DEF IndexType
<1>3. \A j \in Key : jx.tsLabelIndex[j] = IF j = k THEN {} ELSE ix.tsLabelIndex[j]
  BY DEF IndexType
<1>4. AreInverse(jx)
  BY <1>3 DEF AreInverse, IndexType
<1> QED BY <1>1, <1>2, <1>3, <1>4

\* Removing the old entries first leaves exactly the new ones.
LEMMA ReindexedGood ==
  ASSUME NEW ix \in IndexType, AreInverse(ix), NEW k \in Key, NEW L \in LabelLists
  PROVE  /\ Reindexed(ix, k, L) \in IndexType
         /\ AreInverse(Reindexed(ix, k, L))
         /\ \A j \in Key : Reindexed(ix, k, L).tsLabelIndex[j] =
              IF j = k THEN IndexKeys(L) ELSE ix.tsLabelIndex[j]
<1> DEFINE jx == RemoveIndexedMetric(ix, k)
<1>1. /\ jx \in IndexType /\ AreInverse(jx)
      /\ \A j \in Key : jx.tsLabelIndex[j] = IF j = k THEN {} ELSE ix.tsLabelIndex[j]
  BY RemoveIndexedMetricGood
<1> HIDE DEF jx
<1>2. /\ IndexMetric(jx, k, L) \in IndexType
      /\ AreInverse(IndexMetric(jx, k, L))
      /\ \A j \in Key : IndexMetric(jx, k, L).tsLabelIndex[j] =
           IF j = k THEN jx.tsLabelIndex[j] \cup IndexKeys(L) ELSE jx.tsLabelIndex[j]
  BY <1>1, IndexMetricGood
<1>3. Reindexed(ix, k, L) = IndexMetric(jx, k, L)
  BY DEF Reindexed, jx
<1> QED BY <1>1, <1>2, <1>3

\* RemoveAllIndexedMetrics empties both halves.
LEMMA RemoveAllGood ==
  ASSUME NEW ix \in IndexType, AreInverse(ix)
  PROVE  RemoveAllIndexedMetrics(ix) = EmptyIndex
BY DEF RemoveAllIndexedMetrics, EmptyIndex, AreInverse, IndexType

----------------------------------------------------------------------------
(***************************************************************************)
(* The state after an operation, from what it does to one or two keys.     *)
(***************************************************************************)

\* Good is about each key on its own.
LEMMA GoodAfter ==
  ASSUME NEW d, NEW ix, NEW outlived,
         d \in [Key -> Content], ix \in IndexType, AreInverse(ix), outlived \in SUBSET Key,
         \A k \in Key : IsSeries(d[k]) => IndexKeys(d[k]) \subseteq ix.tsLabelIndex[k],
         \A k \in Key \ outlived :
           ix.tsLabelIndex[k] = IF IsSeries(d[k]) THEN IndexKeys(d[k]) ELSE {}
  PROVE  Good(d, ix, outlived)
BY DEF Good, Follows

\* A keyspace without keys and an empty index.
LEMMA EmptyGood == Good([k \in Key |-> Absent], EmptyIndex, {})
<1> DEFINE d == [k \in Key |-> Absent]
<1>1. d \in [Key -> Content] /\ \A k \in Key : d[k] = Absent
  BY DEF Content
<1> HIDE DEF d
<1>2. \A k \in Key : ~IsSeries(d[k])
  BY <1>1 DEF IsSeries
<1>3. {} \in SUBSET Key
  OBVIOUS
<1>4. Good(d, EmptyIndex, {})
  BY <1>1, <1>2, <1>3, EmptyIndexGood, GoodAfter
<1> QED BY <1>4 DEF d

\* A series with the labels L comes to k, and the old entries of k go.
LEMMA ReplacedGood ==
  ASSUME NEW d, NEW ix, NEW outlived, Good(d, ix, outlived),
         NEW k \in Key, NEW L \in LabelLists
  PROVE  Good([d EXCEPT ![k] = L], Reindexed(ix, k, L), outlived \ {k})
<1> DEFINE e == [d EXCEPT ![k] = L]
           jx == Reindexed(ix, k, L)
<1>1. ix \in IndexType /\ AreInverse(ix) /\ d \in [Key -> Content]
  BY DEF Good
<1>2. /\ jx \in IndexType /\ AreInverse(jx)
      /\ \A j \in Key : jx.tsLabelIndex[j] = IF j = k THEN IndexKeys(L) ELSE ix.tsLabelIndex[j]
  BY <1>1, ReindexedGood
<1>3. e \in [Key -> Content] /\ \A j \in Key : e[j] = IF j = k THEN L ELSE d[j]
  BY <1>1 DEF Content
<1>4. IsSeries(L)
  BY NoSeriesAssumption DEF IsSeries
<1> HIDE DEF e, jx
<1>5. outlived \ {k} \in SUBSET Key
  BY DEF Good
<1>6. \A j \in Key : IsSeries(e[j]) => IndexKeys(e[j]) \subseteq jx.tsLabelIndex[j]
  BY <1>2, <1>3 DEF Good, Follows
<1>7. \A j \in Key \ (outlived \ {k}) :
        jx.tsLabelIndex[j] = IF IsSeries(e[j]) THEN IndexKeys(e[j]) ELSE {}
  BY <1>2, <1>3, <1>4 DEF Good, Follows
<1>8. Good(e, jx, outlived \ {k})
  BY <1>2, <1>3, <1>5, <1>6, <1>7, GoodAfter
<1> QED BY <1>8 DEF e, jx

\* Something that is not a series comes to k, and the old entries of k go.
LEMMA RemovedGood ==
  ASSUME NEW d, NEW ix, NEW outlived, Good(d, ix, outlived),
         NEW k \in Key, NEW v \in {Absent, Other}
  PROVE  Good([d EXCEPT ![k] = v], RemoveIndexedMetric(ix, k), outlived \ {k})
<1> DEFINE e == [d EXCEPT ![k] = v]
           jx == RemoveIndexedMetric(ix, k)
<1>1. ix \in IndexType /\ AreInverse(ix) /\ d \in [Key -> Content]
  BY DEF Good
<1>2. /\ jx \in IndexType /\ AreInverse(jx)
      /\ \A j \in Key : jx.tsLabelIndex[j] = IF j = k THEN {} ELSE ix.tsLabelIndex[j]
  BY <1>1, RemoveIndexedMetricGood
<1>3. e \in [Key -> Content] /\ \A j \in Key : e[j] = IF j = k THEN v ELSE d[j]
  BY <1>1 DEF Content
<1>4. ~IsSeries(v)
  BY DEF IsSeries
<1> HIDE DEF e, jx
<1>5. outlived \ {k} \in SUBSET Key
  BY DEF Good
<1>6. \A j \in Key : IsSeries(e[j]) => IndexKeys(e[j]) \subseteq jx.tsLabelIndex[j]
  BY <1>2, <1>3, <1>4 DEF Good, Follows
<1>7. \A j \in Key \ (outlived \ {k}) :
        jx.tsLabelIndex[j] = IF IsSeries(e[j]) THEN IndexKeys(e[j]) ELSE {}
  BY <1>2, <1>3, <1>4 DEF Good, Follows
<1>8. Good(e, jx, outlived \ {k})
  BY <1>2, <1>3, <1>5, <1>6, <1>7, GoodAfter
<1> QED BY <1>8 DEF e, jx

\* A series with the labels L comes to k, and the old entries of k stay.
LEMMA AddedGood ==
  ASSUME NEW d, NEW ix, NEW outlived, Good(d, ix, outlived),
         NEW k \in Key, NEW L \in LabelLists,
         NEW more \in SUBSET {k}, ix.tsLabelIndex[k] # {} => more \cup outlived = outlived \cup {k}
  PROVE  Good([d EXCEPT ![k] = L], IndexMetric(ix, k, L), outlived \cup more)
<1> DEFINE e == [d EXCEPT ![k] = L]
           jx == IndexMetric(ix, k, L)
<1>1. ix \in IndexType /\ AreInverse(ix) /\ d \in [Key -> Content]
  BY DEF Good
<1>2. /\ jx \in IndexType /\ AreInverse(jx)
      /\ \A j \in Key : jx.tsLabelIndex[j] =
           IF j = k THEN ix.tsLabelIndex[j] \cup IndexKeys(L) ELSE ix.tsLabelIndex[j]
  BY <1>1, IndexMetricGood
<1>3. e \in [Key -> Content] /\ \A j \in Key : e[j] = IF j = k THEN L ELSE d[j]
  BY <1>1 DEF Content
<1>4. IsSeries(L)
  BY NoSeriesAssumption DEF IsSeries
<1> HIDE DEF e, jx
<1>5. outlived \cup more \in SUBSET Key
  BY DEF Good
<1>6. \A j \in Key : IsSeries(e[j]) => IndexKeys(e[j]) \subseteq jx.tsLabelIndex[j]
  BY <1>2, <1>3 DEF Good, Follows
<1>7. \A j \in Key \ (outlived \cup more) :
        jx.tsLabelIndex[j] = IF IsSeries(e[j]) THEN IndexKeys(e[j]) ELSE {}
  BY <1>2, <1>3, <1>4 DEF Good, Follows
<1>8. Good(e, jx, outlived \cup more)
  BY <1>2, <1>3, <1>5, <1>6, <1>7, GoodAfter
<1> QED BY <1>8 DEF e, jx

\* Something that is not a series comes to k without an event.
LEMMA OutlivedGood ==
  ASSUME NEW d, NEW ix, NEW outlived, Good(d, ix, outlived),
         NEW k \in Key, NEW v \in {Absent, Other},
         NEW more \in SUBSET {k}, ix.tsLabelIndex[k] # {} => more \cup outlived = outlived \cup {k}
  PROVE  Good([d EXCEPT ![k] = v], ix, outlived \cup more)
<1> DEFINE e == [d EXCEPT ![k] = v]
<1>1. ix \in IndexType /\ AreInverse(ix) /\ d \in [Key -> Content]
  BY DEF Good
<1>3. e \in [Key -> Content] /\ \A j \in Key : e[j] = IF j = k THEN v ELSE d[j]
  BY <1>1 DEF Content
<1>4. ~IsSeries(v)
  BY DEF IsSeries
<1> HIDE DEF e
<1>5. outlived \cup more \in SUBSET Key
  BY DEF Good
<1>6. \A j \in Key : IsSeries(e[j]) => IndexKeys(e[j]) \subseteq ix.tsLabelIndex[j]
  BY <1>3, <1>4 DEF Good, Follows
<1>7. \A j \in Key \ (outlived \cup more) :
        ix.tsLabelIndex[j] = IF IsSeries(e[j]) THEN IndexKeys(e[j]) ELSE {}
  BY <1>3, <1>4 DEF Good, Follows
<1>8. Good(e, ix, outlived \cup more)
  BY <1>1, <1>3, <1>5, <1>6, <1>7, GoodAfter
<1> QED BY <1>8 DEF e

----------------------------------------------------------------------------
(***************************************************************************)
(* The invariant.                                                          *)
(***************************************************************************)

\* A server starts with an empty keyspace and an empty index.
LEMMA InitInd == Init => IndInv
BY EmptyGood DEF Init, IndInv

\* Only a load touches the backup.
LEMMA Preserved ==
  ASSUME IndInv, Good(db', index', stale'), UNCHANGED <<loading, backup>>
  PROVE  IndInv'
BY DEF IndInv

\* The entries that RENAME, COPY or RESTORE leave behind at k.
LEMMA OutlivedFacts ==
  ASSUME NEW k \in Key
  PROVE  /\ Outlived(k) \in SUBSET {k}
         /\ index.tsLabelIndex[k] # {} => Outlived(k) \cup stale = stale \cup {k}
BY DEF Outlived, IsKeyIndexed

\* RENAME: the series leaves a with its entries and comes to b.
LEMMA RenameGood ==
  ASSUME IndInv, NEW a \in Key, NEW b \in Key, Rename(a, b)
  PROVE  Good(db', index', stale')
<1>1. Good(db, index, stale) /\ db[a] \in Content /\ a # b /\ db \in [Key -> Content]
  BY DEF IndInv, Good, Rename
<1>2. CASE IsSeries(db[a])
  <2> DEFINE d  == [db EXCEPT ![a] = Absent]
             ix == RemoveIndexedMetric(index, a)
  <2>1. Good(d, ix, stale \ {a})
    BY <1>1, RemovedGood
  <2>2. ix.tsLabelIndex[b] = index.tsLabelIndex[b]
    BY <1>1, RemoveIndexedMetricGood DEF Good
  <2>3. db[a] \in LabelLists
    BY <1>1, <1>2, SeriesLabels
  <2>4. db' = [d EXCEPT ![b] = db[a]]
    BY <1>1 DEF Rename
  <2>5. index' = IndexMetric(ix, b, db[a]) /\ stale' = (stale \ {a}) \cup Outlived(b)
    BY <1>2 DEF Rename
  <2> HIDE DEF d, ix
  <2>6. /\ Outlived(b) \in SUBSET {b}
        /\ ix.tsLabelIndex[b] # {} => Outlived(b) \cup (stale \ {a}) = (stale \ {a}) \cup {b}
    BY <2>2, OutlivedFacts DEF Outlived, IsKeyIndexed
  <2>7. Good([d EXCEPT ![b] = db[a]], IndexMetric(ix, b, db[a]), (stale \ {a}) \cup Outlived(b))
    BY <2>1, <2>3, <2>6, AddedGood
  <2> QED BY <2>4, <2>5, <2>7
<1>3. CASE ~IsSeries(db[a])
  <2>1. db[a] \in {Absent, Other}
    BY <1>3 DEF IsSeries
  <2>2. Good([db EXCEPT ![b] = db[a]], index, stale \cup Outlived(b))
    BY <1>1, <2>1, OutlivedFacts, OutlivedGood
  <2> DEFINE d == [db EXCEPT ![b] = db[a]]
  <2>3. d[a] = db[a] /\ d \in [Key -> Content]
    BY <1>1
  <2>4. index.tsLabelIndex[a] # {} => a \in stale
    BY <1>1, <1>3 DEF Good, Follows
  <2>5. db' = [d EXCEPT ![a] = Absent]
    BY <1>1 DEF Rename
  <2>6. index' = index /\ stale' = stale \cup Outlived(b)
    BY <1>3 DEF Rename
  <2> HIDE DEF d
  <2>7. {} \in SUBSET {a}
        /\ (index.tsLabelIndex[a] # {} =>
              {} \cup (stale \cup Outlived(b)) = (stale \cup Outlived(b)) \cup {a})
    BY <2>4
  <2>8. Absent \in {Absent, Other} /\ Good(d, index, stale \cup Outlived(b))
    BY <2>2 DEF d
  <2>9. Good([d EXCEPT ![a] = Absent], index, (stale \cup Outlived(b)) \cup {})
    BY <2>7, <2>8, OutlivedGood
  <2>10. (stale \cup Outlived(b)) \cup {} = stale \cup Outlived(b)
    OBVIOUS
  <2> QED BY <2>5, <2>6, <2>9, <2>10
<1> QED BY <1>2, <1>3

\* Every command, notification and step of a load preserves the invariant.
LEMMA NextInd == IndInv /\ [Next]_vars => IndInv'
<1> SUFFICES ASSUME IndInv, [Next]_vars PROVE IndInv'
  OBVIOUS
<1>1. Good(db, index, stale) /\ db \in [Key -> Content]
  BY DEF IndInv, Good
<1>2. ASSUME NEW k \in Key, NEW L \in LabelLists, Create(k, L) PROVE IndInv'
  <2>1. ~IsSeries(db[k])
    BY <1>2 DEF Create, IsSeries
  <2>2. {} \in SUBSET {k} /\ (index.tsLabelIndex[k] # {} => {} \cup stale = stale \cup {k})
    BY <1>1, <2>1 DEF Good, Follows
  <2>3. Good([db EXCEPT ![k] = L], IndexMetric(index, k, L), stale \cup {})
    BY <1>1, <2>2, AddedGood
  <2>4. stale \cup {} = stale
    OBVIOUS
  <2> QED BY <1>2, <2>3, <2>4, Preserved DEF Create
<1>3. ASSUME NEW k \in Key, NEW L \in LabelLists, Alter(k, L) PROVE IndInv'
  BY <1>1, <1>3, ReplacedGood, Preserved DEF Alter
<1>4. ASSUME NEW k \in Key, Delete(k) PROVE IndInv'
  <2>1. Good([db EXCEPT ![k] = Absent], RemoveIndexedMetric(index, k), stale \ {k})
    BY <1>1, RemovedGood
  <2> QED BY <1>4, <2>1, Preserved DEF Delete
<1>5. ASSUME NEW k \in Key, Overwrite(k) PROVE IndInv'
  <2>1. Good([db EXCEPT ![k] = Other], RemoveIndexedMetric(index, k), stale \ {k})
    BY <1>1, RemovedGood
  <2> QED BY <1>5, <2>1, Preserved DEF Overwrite
<1>6. ASSUME NEW k \in Key, NEW v \in Content \ {Absent}, RestoreKey(k, v) PROVE IndInv'
  <2>1. CASE IsSeries(v)
    <3>1. Good([db EXCEPT ![k] = v], Reindexed(index, k, v), stale \ {k})
      BY <1>1, <2>1, SeriesLabels, ReplacedGood
    <3> QED BY <1>6, <2>1, <3>1, Preserved DEF RestoreKey
  <2>2. CASE ~IsSeries(v)
    <3>1. v \in {Absent, Other}
      BY <2>2 DEF IsSeries
    <3>2. Good([db EXCEPT ![k] = v], index, stale \cup Outlived(k))
      BY <1>1, <3>1, OutlivedFacts, OutlivedGood
    <3> QED BY <1>6, <2>2, <3>2, Preserved DEF RestoreKey
  <2> QED BY <2>1, <2>2
<1>7. ASSUME NEW k \in Key, NEW v \in Content \ {Absent}, LoadKey(k, v) PROVE IndInv'
  <2>1. ~IsSeries(db[k])
    BY <1>7 DEF LoadKey, IsSeries
  <2>2. CASE IsSeries(v)
    <3>1. Good([db EXCEPT ![k] = v], Reindexed(index, k, v), stale \ {k})
      BY <1>1, <2>2, SeriesLabels, ReplacedGood
    <3>2. Good(db', index', stale')
      BY <1>7, <2>2, <3>1, <1>1 DEF LoadKey, Good, Follows
    <3> QED BY <1>7, <3>2, Preserved DEF LoadKey
  <2>3. CASE ~IsSeries(v)
    <3>1. v \in {Absent, Other}
      BY <2>3 DEF IsSeries
    <3>2. {} \in SUBSET {k} /\ (index.tsLabelIndex[k] # {} => {} \cup stale = stale \cup {k})
      BY <1>1, <2>1 DEF Good, Follows
    <3>3. Good([db EXCEPT ![k] = v], index, stale \cup {})
      BY <1>1, <3>1, <3>2, OutlivedGood
    <3>4. stale \cup {} = stale
      OBVIOUS
    <3> QED BY <1>7, <2>3, <3>3, <3>4, Preserved DEF LoadKey
  <2> QED BY <2>2, <2>3
<1>8. ASSUME NEW a \in Key, NEW b \in Key, Rename(a, b) PROVE IndInv'
  BY <1>8, RenameGood, Preserved DEF Rename
<1>9. ASSUME NEW a \in Key, NEW b \in Key, Copy(a, b) PROVE IndInv'
  <2>1. db[a] \in Content
    BY <1>1
  <2>2. CASE IsSeries(db[a])
    <3>1. Good([db EXCEPT ![b] = db[a]], Reindexed(index, b, db[a]), stale \ {b})
      BY <1>1, <2>1, <2>2, SeriesLabels, ReplacedGood
    <3> QED BY <1>9, <2>2, <3>1, Preserved DEF Copy
  <2>3. CASE ~IsSeries(db[a])
    <3>1. db[a] \in {Absent, Other}
      BY <2>3 DEF IsSeries
    <3>2. Good([db EXCEPT ![b] = db[a]], index, stale \cup Outlived(b))
      BY <1>1, <3>1, OutlivedFacts, OutlivedGood
    <3> QED BY <1>9, <2>3, <3>2, Preserved DEF Copy
  <2> QED BY <2>2, <2>3
<1>10. CASE Flush
  <2>1. index' = EmptyIndex
    BY <1>1, <1>10, RemoveAllGood DEF Flush, Good
  <2> QED BY <1>10, <2>1, EmptyGood, Preserved DEF Flush
<1>11. CASE Restart
  BY <1>11, EmptyGood DEF Restart, IndInv
<1>12. CASE BackupGlobals
  BY <1>1, <1>12, EmptyGood DEF BackupGlobals, IndInv
<1>13. CASE LoadDone
  BY <1>1, <1>13 DEF LoadDone, IndInv
<1>14. CASE RestoreGlobals
  BY <1>14 DEF RestoreGlobals, IndInv
<1>15. CASE UNCHANGED vars
  BY <1>15 DEF vars, IndInv
<1> QED
  BY <1>2, <1>3, <1>4, <1>5, <1>6, <1>7, <1>8, <1>9, <1>10, <1>11, <1>12, <1>13, <1>14, <1>15
  DEF Next

----------------------------------------------------------------------------
\* The inductive invariant of the index and its backup.
THEOREM Invariance == Spec => []IndInv
BY InitInd, NextInd, PTL DEF Spec

\* The keyspace, the index and the backup have their types.
THEOREM TypeCorrect == Spec => []TypeOK
<1>1. IndInv => TypeOK
  BY DEF IndInv, Good, TypeOK
<1> QED BY <1>1, Invariance, PTL

\* labelsIndex and tsLabelIndex never disagree, so RemoveIndexedMetric, which
\* goes through tsLabelIndex, misses no entry.
THEOREM InverseTheorem == Spec => []IndexesInverse
<1>1. IndInv => IndexesInverse
  BY DEF IndInv, Good, IndexesInverse
<1> QED BY <1>1, Invariance, PTL

\* The index holds the entries of every series' labels, and no others except
\* for keys that were overwritten without an event.
THEOREM FollowTheorem == Spec => []IndexFollowsKeyspace
<1>1. IndInv => IndexFollowsKeyspace
  BY DEF IndInv, Good, IndexFollowsKeyspace
<1> QED BY <1>1, Invariance, PTL

----------------------------------------------------------------------------
(***************************************************************************)
(* Numbers and recursion.                                                  *)
(***************************************************************************)

\* A set of natural numbers that is not empty has a smallest element.
LEMMA SmallestExists ==
  ASSUME NEW M \in SUBSET Nat, M # {}
  PROVE  \E m \in M : \A n \in M : m <= n
<1>1. PICK m \in M : \A n \in M : ~(<<n, m>> \in OpToRel(<, Nat))
  BY NatLessThanWellFounded, WFMin
<1>2. ASSUME NEW n \in M PROVE m <= n
  <2>1. m \in Nat /\ n \in Nat
    OBVIOUS
  <2>2. n < m => <<n, m>> \in OpToRel(<, Nat)
    BY <2>1 DEF OpToRel
  <2>3. ~(n < m)
    BY <1>1, <2>2, Zenon
  <2> QED BY <2>1, <2>3
<1> QED BY <1>2

\* Two functions that start alike and agree after a number when they agree at
\* it agree everywhere.
LEMMA AgreeByStep ==
  ASSUME NEW n \in Nat, NEW r, NEW w, r[0] = w[0],
         \A i \in 1 .. n : r[i - 1] = w[i - 1] => r[i] = w[i]
  PROVE  r[n] = w[n]
<1> SUFFICES ASSUME r[n] # w[n] PROVE FALSE
  OBVIOUS
<1> DEFINE M == {i \in 0 .. n : r[i] # w[i]}
<1>1. M \in SUBSET Nat /\ n \in M
  OBVIOUS
<1>2. PICK m \in M : \A i \in M : m <= i
  BY <1>1, SmallestExists
<1>3. m \in 0 .. n /\ r[m] # w[m] /\ m # 0
  OBVIOUS
<1>4. m \in 1 .. n /\ m - 1 \in 0 .. n /\ ~(m <= m - 1)
  BY <1>3
<1>5. r[m - 1] = w[m - 1]
  BY <1>2, <1>4
<1> QED BY <1>3, <1>4, <1>5

----------------------------------------------------------------------------
(***************************************************************************)
(* The passes over the filters.                                            *)
(***************************************************************************)

\* The leaves hold keys.
LEMMA DictType ==
  ASSUME index \in IndexType, NEW f \in Filter
  PROVE  GetPredicateKeysDict(f) \in SUBSET Key
<1>1. /\ f.label \in Label /\ f.values \in SUBSET LabelValue
  BY FilterAssumption
<1>2. <<f.label>> \in IndexKey /\ \A v \in f.values : <<f.label, v>> \in IndexKey
  BY <1>1 DEF IndexKey, LabelPair
<1>3. \A x \in IndexKey : index.labelsIndex[x] \in SUBSET Key
  BY DEF IndexType
<1> QED BY <1>2, <1>3 DEF GetPredicateKeysDict

\* The first i steps of the pass over the matchers: no result before the first
\* matcher, then the keys that all matchers so far have.
MatchedBy(filters, i) ==
  IF \E j \in 1 .. i : IsMatcher(filters[j])
  THEN {k \in Key : \A j \in 1 .. i :
          IsMatcher(filters[j]) => k \in GetPredicateKeysDict(filters[j])}
  ELSE NoResult

\* The first i steps of the pass over the others.
ReducedBy(filters, i, S) ==
  {k \in S : \A j \in 1 .. i :
     ~IsMatcher(filters[j]) => k \notin GetPredicateKeysDict(filters[j])}

\* What a pass computes at filter i from the result before it.
PassStep(filters, matchers, before, i) ==
  IF IsMatcher(filters[i]) = matchers THEN QueryIndexPredicate(before, filters[i]) ELSE before

\* A function that obeys the step of a pass gives its result.
LEMMA PassResult ==
  ASSUME NEW filters, Len(filters) \in Nat, NEW matchers \in BOOLEAN, NEW start,
         NEW w, w = [i \in 0 .. Len(filters) |-> w[i]], w[0] = start,
         \A i \in 1 .. Len(filters) : w[i] = PassStep(filters, matchers, w[i - 1], i)
  PROVE  ApplyPredicates(filters, matchers, start) = w[Len(filters)]
<1> DEFINE n == Len(filters)
           IsPass(r) == r = [i \in 0 .. n |->
                              IF i = 0 THEN start
                              ELSE IF IsMatcher(filters[i]) = matchers
                                   THEN QueryIndexPredicate(r[i - 1], filters[i])
                              ELSE r[i - 1]]
           result == CHOOSE r : IsPass(r)
<1>1. ApplyPredicates(filters, matchers, start) = result[n]
  BY DEF ApplyPredicates
<1>2. IsPass(w)
  <2>1. ASSUME NEW i \in 0 .. n
        PROVE  w[i] = IF i = 0 THEN start
                      ELSE IF IsMatcher(filters[i]) = matchers
                           THEN QueryIndexPredicate(w[i - 1], filters[i])
                      ELSE w[i - 1]
    BY DEF PassStep
  <2> QED BY <2>1
<1>3. IsPass(result)
  BY <1>2
<1> HIDE DEF result
<1>4. result[0] = w[0]
  <2>1. 0 \in 0 .. n
    OBVIOUS
  <2> QED BY <1>3, <2>1
<1>5. ASSUME NEW i \in 1 .. n, result[i - 1] = w[i - 1] PROVE result[i] = w[i]
  <2>1. i \in 0 .. n /\ i # 0
    OBVIOUS
  <2>2. result[i] = PassStep(filters, matchers, result[i - 1], i)
    BY <1>3, <2>1 DEF PassStep
  <2> QED BY <1>5, <2>2
<1> HIDE DEF n
<1>6. n \in Nat
  BY DEF n
<1>7. result[n] = w[n]
  BY <1>4, <1>5, <1>6, AgreeByStep
<1> QED BY <1>1, <1>7 DEF n

\* The pass over the matchers yields what all matchers have.
LEMMA MatcherPass ==
  ASSUME index \in IndexType, NEW n \in Nat, NEW filters \in [1 .. n -> Filter]
  PROVE  ApplyPredicates(filters, TRUE, NoResult) = MatchedBy(filters, n)
<1>1. Len(filters) = n
  OBVIOUS
<1> DEFINE w == [i \in 0 .. n |-> MatchedBy(filters, i)]
<1>2. w[0] = NoResult
  BY DEF MatchedBy
<1>3. ASSUME NEW i \in 1 .. n PROVE w[i] = PassStep(filters, TRUE, w[i - 1], i)
  <2> DEFINE f == filters[i]
             D == GetPredicateKeysDict(f)
  <2>1. D \in SUBSET Key
    BY DictType
  <2>2. i - 1 \in 0 .. n /\ i \in 0 .. n
    OBVIOUS
  <2>3. w[i] = MatchedBy(filters, i) /\ w[i - 1] = MatchedBy(filters, i - 1)
    BY <2>2
  <2>4. \A j : j \in 1 .. i <=> (j \in 1 .. i - 1 \/ j = i)
    OBVIOUS
  <2> HIDE DEF w
  <2>5. CASE ~IsMatcher(f)
    <3>1. MatchedBy(filters, i) = MatchedBy(filters, i - 1)
      BY <2>4, <2>5 DEF MatchedBy
    <3> QED BY <2>3, <2>5, <3>1 DEF PassStep
  <2>6. CASE IsMatcher(f) /\ ~\E j \in 1 .. i - 1 : IsMatcher(filters[j])
    <3>1. MatchedBy(filters, i - 1) = NoResult
      BY <2>6 DEF MatchedBy
    <3>2. MatchedBy(filters, i) = D
      <4>1. \E j \in 1 .. i : IsMatcher(filters[j])
        BY <2>4, <2>6
      <4>2. \A k \in Key : (\A j \in 1 .. i : IsMatcher(filters[j]) => k \in GetPredicateKeysDict(filters[j]))
                           <=> k \in D
        BY <2>4, <2>6
      <4> HIDE DEF D
      <4> QED BY <2>1, <4>1, <4>2 DEF MatchedBy
    <3> QED BY <2>3, <2>6, <3>1, <3>2 DEF PassStep, QueryIndexPredicate
  <2>7. CASE IsMatcher(f) /\ \E j \in 1 .. i - 1 : IsMatcher(filters[j])
    <3> DEFINE B == {k \in Key : \A j \in 1 .. i - 1 :
                       IsMatcher(filters[j]) => k \in GetPredicateKeysDict(filters[j])}
    <3>1. MatchedBy(filters, i - 1) = B
      BY <2>7 DEF MatchedBy
    <3>2. B # NoResult
      <4>1. B \in SUBSET Key
        OBVIOUS
      <4> QED BY <4>1, NoResultAssumption
    <3>3. MatchedBy(filters, i) = B \cap D
      <4>1. \E j \in 1 .. i : IsMatcher(filters[j])
        BY <2>4, <2>7
      <4>2. \A k \in Key : (\A j \in 1 .. i : IsMatcher(filters[j]) => k \in GetPredicateKeysDict(filters[j]))
                           <=> k \in B /\ k \in D
        BY <2>4, <2>7
      <4>3. B \in SUBSET Key
        OBVIOUS
      <4> HIDE DEF B, D
      <4> QED BY <2>1, <4>1, <4>2, <4>3 DEF MatchedBy
    <3> QED BY <2>3, <2>7, <3>1, <3>2, <3>3 DEF PassStep, QueryIndexPredicate
  <2> QED BY <2>5, <2>6, <2>7
<1>4. w = [i \in 0 .. n |-> w[i]] /\ w[n] = MatchedBy(filters, n)
  OBVIOUS
<1> HIDE DEF w
<1> QED BY <1>1, <1>2, <1>3, <1>4, PassResult

\* The pass over the others takes away what one of them has.
LEMMA ReducerPass ==
  ASSUME index \in IndexType, NEW n \in Nat, NEW filters \in [1 .. n -> Filter],
         NEW S \in SUBSET Key
  PROVE  ApplyPredicates(filters, FALSE, S) = ReducedBy(filters, n, S)
<1>1. Len(filters) = n
  OBVIOUS
<1> DEFINE w == [i \in 0 .. n |-> ReducedBy(filters, i, S)]
<1>2. w[0] = S
  BY DEF ReducedBy
<1>3. ASSUME NEW i \in 1 .. n PROVE w[i] = PassStep(filters, FALSE, w[i - 1], i)
  <2> DEFINE f == filters[i]
             D == GetPredicateKeysDict(f)
  <2>2. i - 1 \in 0 .. n /\ i \in 0 .. n
    OBVIOUS
  <2>3. w[i] = ReducedBy(filters, i, S) /\ w[i - 1] = ReducedBy(filters, i - 1, S)
    BY <2>2
  <2>4. \A j : j \in 1 .. i <=> (j \in 1 .. i - 1 \/ j = i)
    OBVIOUS
  <2> HIDE DEF w
  <2>5. CASE IsMatcher(f)
    <3>1. ReducedBy(filters, i, S) = ReducedBy(filters, i - 1, S)
      BY <2>4, <2>5 DEF ReducedBy
    <3> QED BY <2>3, <2>5, <3>1 DEF PassStep
  <2>6. CASE ~IsMatcher(f)
    <3>1. ReducedBy(filters, i - 1, S) # NoResult
      <4>1. ReducedBy(filters, i - 1, S) \in SUBSET Key
        BY DEF ReducedBy
      <4> QED BY <4>1, NoResultAssumption
    <3>2. ReducedBy(filters, i, S) = ReducedBy(filters, i - 1, S) \ D
      BY <2>4, <2>6 DEF ReducedBy
    <3> QED BY <2>3, <2>6, <3>1, <3>2 DEF PassStep, QueryIndexPredicate
  <2> QED BY <2>5, <2>6
<1>4. w = [i \in 0 .. n |-> w[i]] /\ w[n] = ReducedBy(filters, n, S)
  OBVIOUS
<1> HIDE DEF w
<1> QED BY <1>1, <1>2, <1>3, <1>4, PassResult

----------------------------------------------------------------------------
(***************************************************************************)
(* The filter promoted to the front.                                       *)
(***************************************************************************)

\* There is a first filter among those with the fewest keys.
LEMMA SmallestPredicate ==
  ASSUME index \in IndexType, NEW n \in Nat \ {0}, NEW filters \in [1 .. n -> Filter],
         NEW size, \A i \in 1 .. n : size[i] = Cardinality(GetPredicateKeysDict(filters[i]))
  PROVE  \E i \in 1 .. n : \A j \in 1 .. n :
           size[i] < size[j] \/ (size[i] = size[j] /\ i <= j)
<1>1. ASSUME NEW i \in 1 .. n PROVE size[i] \in Nat
  <2>1. GetPredicateKeysDict(filters[i]) \in SUBSET Key
    BY DictType
  <2>2. IsFiniteSet(GetPredicateKeysDict(filters[i]))
    BY <2>1, KeyAssumption, FS_Subset
  <2> QED BY <2>2, FS_CardinalityType
<1> DEFINE M == {size[i] : i \in 1 .. n}
<1>2. M \in SUBSET Nat /\ M # {}
  <2>1. 1 \in 1 .. n
    OBVIOUS
  <2> QED BY <1>1, <2>1
<1>3. PICK m \in M : \A x \in M : m <= x
  BY <1>2, SmallestExists
<1> DEFINE I == {i \in 1 .. n : size[i] = m}
<1>4. I \in SUBSET Nat /\ I # {}
  OBVIOUS
<1>5. PICK i \in I : \A j \in I : i <= j
  BY <1>4, SmallestExists
<1>6. i \in 1 .. n /\ size[i] = m
  OBVIOUS
<1>7. ASSUME NEW j \in 1 .. n PROVE size[i] < size[j] \/ (size[i] = size[j] /\ i <= j)
  <2>1. m <= size[j] /\ m \in Nat /\ size[j] \in Nat
    BY <1>1, <1>2, <1>3
  <2>2. CASE size[j] = m
    BY <1>5, <1>6, <2>2
  <2>3. CASE size[j] # m
    BY <1>6, <2>1, <2>3
  <2> QED BY <2>2, <2>3
<1> QED BY <1>6, <1>7

\* Promotion exchanges two filters.
LEMMA PromotedFilters ==
  ASSUME index \in IndexType, NEW n \in Nat \ {0}, NEW filters \in [1 .. n -> Filter]
  PROVE  /\ PromoteSmallestPredicateToFront(filters) \in [1 .. n -> Filter]
         /\ \A i \in 1 .. n : \E j \in 1 .. n :
              PromoteSmallestPredicateToFront(filters)[j] = filters[i]
         /\ \A i \in 1 .. n : \E j \in 1 .. n :
              PromoteSmallestPredicateToFront(filters)[i] = filters[j]
<1> DEFINE size == [i \in 1 .. n |-> Cardinality(GetPredicateKeysDict(filters[i]))]
           IsMin(i) == \A j \in 1 .. n :
             \/ Cardinality(GetPredicateKeysDict(filters[i])) < Cardinality(GetPredicateKeysDict(filters[j]))
             \/ /\ Cardinality(GetPredicateKeysDict(filters[i])) = Cardinality(GetPredicateKeysDict(filters[j]))
                /\ i <= j
           min == CHOOSE i \in 1 .. n : IsMin(i)
<1>1. \A i \in 1 .. n : size[i] = Cardinality(GetPredicateKeysDict(filters[i]))
  OBVIOUS
<1> HIDE DEF size
<1>2. \E i \in 1 .. n : \A j \in 1 .. n : size[i] < size[j] \/ (size[i] = size[j] /\ i <= j)
  BY <1>1, SmallestPredicate
<1>3. \E i \in 1 .. n : IsMin(i)
  BY <1>1, <1>2
<1>4. DOMAIN filters = 1 .. n
  OBVIOUS
<1>5. PromoteSmallestPredicateToFront(filters) =
        [filters EXCEPT ![1] = filters[min], ![min] = filters[1]]
  BY <1>4 DEF PromoteSmallestPredicateToFront
<1> HIDE DEF IsMin
<1>6. min \in 1 .. n
  BY <1>3
<1> HIDE DEF min
<1> DEFINE g == [filters EXCEPT ![1] = filters[min], ![min] = filters[1]]
<1>7. 1 \in 1 .. n
  OBVIOUS
<1>8. g \in [1 .. n -> Filter]
  BY <1>6, <1>7
<1>9. \A i \in 1 .. n : g[i] = IF i = min THEN filters[1] ELSE IF i = 1 THEN filters[min] ELSE filters[i]
  BY <1>6, <1>7
<1> HIDE DEF g
<1>10. ASSUME NEW i \in 1 .. n PROVE \E j \in 1 .. n : g[j] = filters[i]
  <2>1. CASE i = 1
    BY <1>6, <1>9, <2>1
  <2>2. CASE i = min
    BY <1>6, <1>7, <1>9, <2>2
  <2>3. CASE i # 1 /\ i # min
    BY <1>9, <2>3
  <2> QED BY <2>1, <2>2, <2>3
<1>11. ASSUME NEW i \in 1 .. n PROVE \E j \in 1 .. n : g[i] = filters[j]
  BY <1>6, <1>7, <1>9
<1>12. PromoteSmallestPredicateToFront(filters) = g
  BY <1>5 DEF g
<1> QED BY <1>8, <1>10, <1>11, <1>12

----------------------------------------------------------------------------
(***************************************************************************)
(* What a filter means, and what its leaf holds.                           *)
(***************************************************************************)

\* A filter without a value asks for the label alone.
ByLabel(f) == ~f.list /\ f.values = {}

\* The six kinds of filter in terms of the label, the values and the sign.
LEMMA Kinds ==
  ASSUME NEW f \in Filter
  PROVE  /\ PredicateType(f) \in {"CONTAINS", "NCONTAINS"} <=> ByLabel(f)
         /\ PredicateType(f) \in {"EQ", "LIST_MATCH"} <=> ~ByLabel(f) /\ ~f.negated
         /\ IsMatcher(f) <=> (ByLabel(f) <=> f.negated)
<1>1. f.list \in BOOLEAN /\ f.negated \in BOOLEAN
  BY FilterAssumption
<1>2. CASE f.list /\ f.negated
  <2>1. PredicateType(f) = "LIST_NOTMATCH"
    BY <1>2 DEF PredicateType
  <2> QED BY <1>2, <2>1 DEF IsMatcher, ByLabel
<1>3. CASE f.list /\ ~f.negated
  <2>1. PredicateType(f) = "LIST_MATCH"
    BY <1>3 DEF PredicateType
  <2> QED BY <1>3, <2>1 DEF IsMatcher, ByLabel
<1>4. CASE ~f.list /\ f.values = {} /\ f.negated
  <2>1. PredicateType(f) = "CONTAINS"
    BY <1>4 DEF PredicateType
  <2> QED BY <1>4, <2>1 DEF IsMatcher, ByLabel
<1>5. CASE ~f.list /\ f.values = {} /\ ~f.negated
  <2>1. PredicateType(f) = "NCONTAINS"
    BY <1>5 DEF PredicateType
  <2> QED BY <1>5, <2>1 DEF IsMatcher, ByLabel
<1>6. CASE ~f.list /\ f.values # {} /\ f.negated
  <2>1. PredicateType(f) = "NEQ"
    BY <1>6 DEF PredicateType
  <2> QED BY <1>6, <2>1 DEF IsMatcher, ByLabel
<1>7. CASE ~f.list /\ f.values # {} /\ ~f.negated
  <2>1. PredicateType(f) = "EQ"
    BY <1>7 DEF PredicateType
  <2> QED BY <1>7, <2>1 DEF IsMatcher, ByLabel
<1> QED BY <1>1, <1>2, <1>3, <1>4, <1>5, <1>6, <1>7

\* The entries of a list of labels, read back.
LEMMA EntriesOf ==
  ASSUME NEW L \in LabelLists, NEW l \in Label
  PROVE  /\ \A v \in LabelValue : <<l, v>> \in IndexKeys(L) <=> <<l, v>> \in L
         /\ <<l>> \in IndexKeys(L) <=> \E v \in LabelValue : <<l, v>> \in L
<1>1. L \in SUBSET LabelPair
  BY LabelListsAssumption
<1>2. \A v \in LabelValue : <<l, v>> \in IndexKeys(L) <=> <<l, v>> \in L
  <2>1. \A v \in LabelValue : \A x : <<l, v>> # <<x>>
    OBVIOUS
  <2> QED BY <2>1 DEF IndexKeys
<1>3. ASSUME <<l>> \in IndexKeys(L) PROVE \E v \in LabelValue : <<l, v>> \in L
  <2>1. \A p \in LabelPair : p # <<l>>
    BY DEF LabelPair
  <2>2. PICK p \in L : <<l>> = <<p[1]>>
    BY <1>1, <1>3, <2>1 DEF IndexKeys
  <2>3. p \in LabelPair /\ p[1] = l
    BY <1>1, <2>2
  <2>4. p = <<l, p[2]>> /\ p[2] \in LabelValue
    BY <2>3 DEF LabelPair
  <2> QED BY <2>2, <2>4
<1>4. ASSUME NEW v \in LabelValue, <<l, v>> \in L PROVE <<l>> \in IndexKeys(L)
  <2>1. <<l, v>>[1] = l
    OBVIOUS
  <2> QED BY <1>4, <2>1 DEF IndexKeys
<1> QED BY <1>2, <1>3, <1>4

\* Without keys overwritten unnoticed, a leaf holds the series with its entry.
LEMMA LeafHolds ==
  ASSUME Good(db, index, {}), NEW k \in Key, NEW x \in IndexKey
  PROVE  k \in index.labelsIndex[x] <=> IsSeries(db[k]) /\ x \in IndexKeys(db[k])
<1>1. k \in index.labelsIndex[x] <=> x \in index.tsLabelIndex[k]
  BY DEF Good, AreInverse
<1>2. index.tsLabelIndex[k] = IF IsSeries(db[k]) THEN IndexKeys(db[k]) ELSE {}
  BY DEF Good, Follows
<1> QED BY <1>1, <1>2

\* The keys of a filter are the series with the label, or with the label and
\* one of the values.
LEMMA DictHolds ==
  ASSUME Good(db, index, {}), NEW k \in Key, NEW f \in Filter
  PROVE  k \in GetPredicateKeysDict(f) <=>
           /\ IsSeries(db[k])
           /\ IF ByLabel(f) THEN \E v \in LabelValue : <<f.label, v>> \in db[k]
              ELSE \E v \in f.values : <<f.label, v>> \in db[k]
<1>1. f.label \in Label /\ f.values \in SUBSET LabelValue
  BY FilterAssumption
<1>2. <<f.label>> \in IndexKey /\ \A v \in LabelValue : <<f.label, v>> \in IndexKey
  BY <1>1 DEF IndexKey, LabelPair
<1>3. IsSeries(db[k]) => db[k] \in LabelLists
  BY SeriesLabels DEF Good
<1>4. CASE ByLabel(f)
  <2>1. GetPredicateKeysDict(f) = index.labelsIndex[<<f.label>>]
    BY <1>4, Kinds DEF GetPredicateKeysDict
  <2>2. k \in index.labelsIndex[<<f.label>>] <=>
          IsSeries(db[k]) /\ <<f.label>> \in IndexKeys(db[k])
    BY <1>2, LeafHolds
  <2>3. IsSeries(db[k]) =>
          (<<f.label>> \in IndexKeys(db[k]) <=> \E v \in LabelValue : <<f.label, v>> \in db[k])
    BY <1>1, <1>3, EntriesOf
  <2> QED BY <1>4, <2>1, <2>2, <2>3
<1>5. CASE ~ByLabel(f)
  <2>1. GetPredicateKeysDict(f) = UNION {index.labelsIndex[<<f.label, v>>] : v \in f.values}
    BY <1>5, Kinds DEF GetPredicateKeysDict
  <2>2. ASSUME NEW v \in f.values
        PROVE  k \in index.labelsIndex[<<f.label, v>>] <=> IsSeries(db[k]) /\ <<f.label, v>> \in db[k]
    <3>1. v \in LabelValue /\ <<f.label, v>> \in IndexKey
      BY <1>1, <1>2
    <3>2. k \in index.labelsIndex[<<f.label, v>>] <=>
            IsSeries(db[k]) /\ <<f.label, v>> \in IndexKeys(db[k])
      BY <3>1, LeafHolds
    <3>3. IsSeries(db[k]) => (<<f.label, v>> \in IndexKeys(db[k]) <=> <<f.label, v>> \in db[k])
      BY <1>1, <1>3, <3>1, EntriesOf
    <3> QED BY <3>2, <3>3
  <2>3. k \in GetPredicateKeysDict(f) <=> \E v \in f.values : k \in index.labelsIndex[<<f.label, v>>]
    BY <2>1
  <2> QED BY <1>5, <2>2, <2>3
<1> QED BY <1>4, <1>5

\* A series satisfies a matcher when it is among its keys, and another filter
\* when it is not.
LEMMA SatisfiesByDict ==
  ASSUME Good(db, index, {}), NEW k \in Key, NEW f \in Filter, IsSeries(db[k])
  PROVE  Satisfies(db[k], f) <=> (IsMatcher(f) <=> k \in GetPredicateKeysDict(f))
<1>1. f.list \in BOOLEAN /\ f.negated \in BOOLEAN
  BY FilterAssumption
<1>2. CASE ByLabel(f)
  <2>1. k \in GetPredicateKeysDict(f) <=> \E v \in LabelValue : <<f.label, v>> \in db[k]
    BY <1>2, DictHolds
  <2>2. IsMatcher(f) <=> f.negated
    BY <1>2, Kinds
  <2>3. Satisfies(db[k], f) <=>
          IF f.negated THEN ~~\E v \in LabelValue : <<f.label, v>> \in db[k]
          ELSE ~\E v \in LabelValue : <<f.label, v>> \in db[k]
    BY <1>2 DEF Satisfies, ByLabel
  <2> QED BY <1>1, <2>1, <2>2, <2>3
<1>3. CASE ~ByLabel(f)
  <2>1. k \in GetPredicateKeysDict(f) <=> \E v \in f.values : <<f.label, v>> \in db[k]
    BY <1>3, DictHolds
  <2>2. IsMatcher(f) <=> ~f.negated
    BY <1>3, Kinds
  <2>3. Satisfies(db[k], f) <=>
          IF f.negated THEN ~\E v \in f.values : <<f.label, v>> \in db[k]
          ELSE \E v \in f.values : <<f.label, v>> \in db[k]
    BY <1>3 DEF Satisfies, ByLabel
  <2> QED BY <1>1, <2>1, <2>2, <2>3
<1> QED BY <1>2, <1>3

----------------------------------------------------------------------------
\* The two passes over the filters of a query leave the series that satisfy them.
LEMMA QueryAnswer ==
  ASSUME Good(db, index, {}), NEW n \in Nat \ {0}, NEW filters \in [1 .. n -> Filter],
         IsQuery(filters)
  PROVE  /\ QueryIndex(filters, FALSE) = Matching(filters)
         /\ QueryIndex(filters, TRUE) = Matching(filters) \cap Owned
<1> DEFINE g == PromoteSmallestPredicateToFront(filters)
<1>1. index \in IndexType /\ n \in Nat
  BY DEF Good
<1>2. /\ g \in [1 .. n -> Filter]
      /\ \A i \in 1 .. n : \E j \in 1 .. n : g[j] = filters[i]
      /\ \A i \in 1 .. n : \E j \in 1 .. n : g[i] = filters[j]
  BY <1>1, PromotedFilters
<1> DEFINE matched == ApplyPredicates(g, TRUE, NoResult)
           reduced == ApplyPredicates(g, FALSE, matched)
<1>3. /\ QueryIndex(filters, FALSE) = IF reduced = NoResult THEN {} ELSE reduced
      /\ QueryIndex(filters, TRUE) = IF reduced = NoResult THEN {} ELSE reduced \cap Owned
  BY DEF QueryIndex
<1> HIDE DEF g
<1>4. DOMAIN filters = 1 .. n
  OBVIOUS
<1>5. PICK q \in 1 .. n : IsMatcher(g[q]) /\ ~ByLabel(g[q])
  <2>1. PICK i \in 1 .. n : PredicateType(filters[i]) \in {"EQ", "LIST_MATCH"}
    BY <1>4 DEF IsQuery
  <2>2. filters[i] \in Filter
    OBVIOUS
  <2>3. IsMatcher(filters[i]) /\ ~ByLabel(filters[i])
    BY <2>1, <2>2, Kinds DEF IsMatcher
  <2> QED BY <1>2, <2>3
<1> DEFINE S == {k \in Key : \A j \in 1 .. n : IsMatcher(g[j]) => k \in GetPredicateKeysDict(g[j])}
<1>6. matched = S
  BY <1>1, <1>2, <1>5, MatcherPass DEF MatchedBy
<1>7. S \in SUBSET Key
  OBVIOUS
<1>8. reduced = {k \in S : \A j \in 1 .. n : ~IsMatcher(g[j]) => k \notin GetPredicateKeysDict(g[j])}
  <2>1. reduced = ApplyPredicates(g, FALSE, matched)
    OBVIOUS
  <2> HIDE DEF matched, reduced, S
  <2>2. ApplyPredicates(g, FALSE, matched) = ReducedBy(g, n, S)
    BY <1>1, <1>2, <1>6, <1>7, ReducerPass
  <2> QED BY <2>1, <2>2 DEF ReducedBy
<1> HIDE DEF matched, reduced
<1>9. reduced # NoResult
  <2>1. reduced \in SUBSET Key
    BY <1>8
  <2> QED BY <2>1, NoResultAssumption
<1>10. ASSUME NEW k \in Key PROVE k \in reduced <=> k \in Matching(filters)
  <2>1. \A j \in 1 .. n : g[j] \in Filter /\ filters[j] \in Filter
    BY <1>2
  <2>2. k \in reduced <=> \A j \in 1 .. n : IsMatcher(g[j]) <=> k \in GetPredicateKeysDict(g[j])
    BY <1>8
  <2>3. CASE IsSeries(db[k])
    <3>1. \A j \in 1 .. n : Satisfies(db[k], g[j]) <=> (IsMatcher(g[j]) <=> k \in GetPredicateKeysDict(g[j]))
      BY <2>1, <2>3, SatisfiesByDict
    <3>2. k \in reduced <=> \A j \in 1 .. n : Satisfies(db[k], g[j])
      BY <2>2, <3>1
    <3>3. (\A j \in 1 .. n : Satisfies(db[k], g[j])) <=> (\A j \in 1 .. n : Satisfies(db[k], filters[j]))
      BY <1>2
    <3> QED BY <1>4, <2>3, <3>2, <3>3 DEF Matching
  <2>4. CASE ~IsSeries(db[k])
    <3>1. k \notin GetPredicateKeysDict(g[q])
      BY <2>1, <2>4, DictHolds
    <3> QED BY <1>5, <2>2, <2>4, <3>1 DEF Matching
  <2> QED BY <2>3, <2>4
<1>11. reduced = Matching(filters)
  <2>1. reduced \in SUBSET Key /\ Matching(filters) \in SUBSET Key
    BY <1>8 DEF Matching
  <2> QED BY <1>10, <2>1
<1> QED BY <1>3, <1>9, <1>11

\* TS.QUERYINDEX answers with the series that satisfy all the filters, however
\* many there are and whichever comes first, unless a key was overwritten
\* without an event; a shard that is trimming answers with those it owns.
THEOREM QueriesTheorem == Spec => []QueriesExact
<1>1. IndInv => QueriesExact
  <2> SUFFICES ASSUME IndInv, stale = {}, NEW filters \in Queries
               PROVE  /\ QueryIndex(filters, FALSE) = Matching(filters)
                      /\ QueryIndex(filters, TRUE) = Matching(filters) \cap Owned
    BY DEF QueriesExact
  <2>1. Good(db, index, {})
    BY DEF IndInv
  <2>2. PICK n \in 1 .. MaxFilters : filters \in [1 .. n -> Filter]
    BY DEF Queries
  <2>3. IsQuery(filters) /\ n \in Nat \ {0}
    BY MaxFiltersAssumption DEF Queries
  <2> QED BY <2>1, <2>2, <2>3, QueryAnswer
<1> QED BY <1>1, Invariance, PTL
=============================================================================
