------------------------------- MODULE Index -------------------------------
(***************************************************************************)
(* The label index (indexer.c): from a label, or a label with its value,   *)
(* to the series that have it, and back from a series to its entries.  It  *)
(* is kept up to date by the commands that create or change a series and   *)
(* by keyspace notifications, that is by hearsay: Redis tells the module   *)
(* that a key was deleted, renamed, restored or loaded, and tells it       *)
(* nothing about a key that RENAME, COPY or RESTORE has overwritten.       *)
(*                                                                         *)
(* A key of another type matters here because it can take a series' place. *)
(* "del" stands for all the events that NotifyCallback treats like it.     *)
(***************************************************************************)
CONSTANTS
  Key,        \* key names
  Label,      \* label names
  LabelValue, \* label values
  LabelLists, \* the lists of labels a series may be given, as sets of pairs
  Absent,     \* no key of this name
  Other,      \* a key of another type
  NoBackup    \* no backup of the index

LabelPair == Label \X LabelValue

ASSUME LabelListsAssumption == LabelLists \subseteq SUBSET LabelPair
ASSUME NoSeriesAssumption == Absent \notin LabelLists /\ Other \notin LabelLists /\ Absent # Other

\* What may be stored under a key; a series is its labels.
Content == LabelLists \cup {Absent, Other}

VARIABLES
  db,       \* the keyspace
  index,    \* labelsIndex and tsLabelIndex
  loading,  \* is an RDB being loaded?
  backup,   \* the keyspace and the index put aside by a diskless load, or NoBackup
  stale     \* history: keys whose entries a key in their place has outlived

vars == <<db, index, loading, backup, stale>>

IsSeries(v) == v # Absent /\ v # Other

----------------------------------------------------------------------------
(***************************************************************************)
(* The index.  An entry is __index_label=value or __key_index_label; for   *)
(* the names without "=" that a filter can ask for these are different.  A *)
(* leaf without elements is not in the dictionary, so "no leaf" is the     *)
(* empty set.                                                              *)
(***************************************************************************)
IndexKey == LabelPair \cup {<<l>> : l \in Label}

\* Mutant: the label's entry is its bare name.
IndexKeysUnwrapped(L) == L \cup {p[1] : p \in L}

IndexKeys(L) == L \cup {<<p[1]>> : p \in L}

EmptyIndex == [labelsIndex  |-> [x \in IndexKey |-> {}],
               tsLabelIndex |-> [k \in Key |-> {}]]

IndexMetric(ix, k, L) ==
  [labelsIndex  |-> [x \in IndexKey |-> IF x \in IndexKeys(L) THEN ix.labelsIndex[x] \cup {k}
                                        ELSE ix.labelsIndex[x]],
   tsLabelIndex |-> [ix.tsLabelIndex EXCEPT ![k] = @ \cup IndexKeys(L)]]

\* Only the leaves that tsLabelIndex names are visited.
RemoveIndexedMetric(ix, k) ==
  [labelsIndex  |-> [x \in IndexKey |-> IF x \in ix.tsLabelIndex[k] THEN ix.labelsIndex[x] \ {k}
                                        ELSE ix.labelsIndex[x]],
   tsLabelIndex |-> [ix.tsLabelIndex EXCEPT ![k] = {}]]

RemoveAllIndexedMetrics(ix) ==
  [labelsIndex  |-> [x \in IndexKey |-> {k \in ix.labelsIndex[x] : x \notin ix.tsLabelIndex[k]}],
   tsLabelIndex |-> [k \in Key |-> {}]]

\* The entries of k are replaced by those of the labels L.
Reindexed(ix, k, L) == IndexMetric(RemoveIndexedMetric(ix, k), k, L)

IsKeyIndexed(k) == index.tsLabelIndex[k] # {}

----------------------------------------------------------------------------
Init ==
  /\ db = [k \in Key |-> Absent]
  /\ index = EmptyIndex
  /\ loading = FALSE /\ backup = NoBackup
  /\ stale = {}

\* TS.CREATE, or the first TS.ADD or TS.INCRBY: CreateTsKey.
Create(k, L) ==
  /\ ~loading /\ db[k] = Absent
  /\ db' = [db EXCEPT ![k] = L]
  /\ index' = IndexMetric(index, k, L)
  /\ UNCHANGED <<loading, backup, stale>>

\* Mutant: the old labels stay in the index.
AlterWithoutRemove(k, L) ==
  /\ ~loading /\ IsSeries(db[k])
  /\ db' = [db EXCEPT ![k] = L]
  /\ index' = IndexMetric(index, k, L)
  /\ stale' = stale \ {k}
  /\ UNCHANGED <<loading, backup>>

\* TS.ALTER ... LABELS.
Alter(k, L) ==
  /\ ~loading /\ IsSeries(db[k])
  /\ db' = [db EXCEPT ![k] = L]
  /\ index' = Reindexed(index, k, L)
  /\ stale' = stale \ {k}
  /\ UNCHANGED <<loading, backup>>

----------------------------------------------------------------------------
(***************************************************************************)
(* Keyspace notifications.                                                 *)
(***************************************************************************)

\* DEL, UNLINK, expiry, eviction, trimming of a key of any type.
Delete(k) ==
  /\ ~loading /\ db[k] # Absent
  /\ db' = [db EXCEPT ![k] = Absent]
  /\ index' = RemoveIndexedMetric(index, k)
  /\ stale' = stale \ {k}
  /\ UNCHANGED <<loading, backup>>

\* SET.
Overwrite(k) ==
  /\ ~loading
  /\ db' = [db EXCEPT ![k] = Other]
  /\ index' = RemoveIndexedMetric(index, k)
  /\ stale' = stale \ {k}
  /\ UNCHANGED <<loading, backup>>

\* What becomes of the entries of a key that is overwritten without an event.
Outlived(k) == IF IsKeyIndexed(k) THEN {k} ELSE {}

\* rename_from and rename_to; nothing is done for a key of another type.
Rename(a, b) ==
  /\ ~loading /\ a # b /\ db[a] # Absent
  /\ db' = [db EXCEPT ![b] = db[a], ![a] = Absent]
  /\ IF IsSeries(db[a])
     THEN /\ index' = IndexMetric(RemoveIndexedMetric(index, a), b, db[a])
          /\ stale' = (stale \ {a}) \cup Outlived(b)
     ELSE /\ stale' = stale \cup Outlived(b)
          /\ UNCHANGED index
  /\ UNCHANGED <<loading, backup>>

\* COPY, also with REPLACE.  CopySeries is called for a series only.
Copy(a, b) ==
  /\ ~loading /\ a # b /\ db[a] # Absent
  /\ db' = [db EXCEPT ![b] = db[a]]
  /\ IF IsSeries(db[a])
     THEN /\ index' = Reindexed(index, b, db[a])
          /\ stale' = stale \ {b}
     ELSE /\ stale' = stale \cup Outlived(b)
          /\ UNCHANGED index
  /\ UNCHANGED <<loading, backup>>

\* RESTORE, also with REPLACE, of a value dumped at any time: RestoreKey.
RestoreKey(k, v) ==
  /\ ~loading
  /\ db' = [db EXCEPT ![k] = v]
  /\ IF IsSeries(v)
     THEN /\ index' = Reindexed(index, k, v)
          /\ stale' = stale \ {k}
     ELSE /\ stale' = stale \cup Outlived(k)
          /\ UNCHANGED index
  /\ UNCHANGED <<loading, backup>>

\* FLUSHALL.
Flush ==
  /\ ~loading
  /\ db' = [k \in Key |-> Absent]
  /\ index' = RemoveAllIndexedMetrics(index)
  /\ stale' = {}
  /\ UNCHANGED <<loading, backup>>

----------------------------------------------------------------------------
(***************************************************************************)
(* Loading an RDB: after a restart, or on a replica, which may keep what   *)
(* it had until the transfer has succeeded (Backup_Globals) and gets it    *)
(* back when the transfer breaks off (Restore_Globals).                    *)
(***************************************************************************)
Restart ==
  /\ db' = [k \in Key |-> Absent]
  /\ index' = EmptyIndex
  /\ loading' = TRUE /\ backup' = NoBackup
  /\ stale' = {}

BackupGlobals ==
  /\ ~loading
  /\ backup' = [db |-> db, index |-> index, stale |-> stale]
  /\ db' = [k \in Key |-> Absent]
  /\ index' = EmptyIndex
  /\ loading' = TRUE
  /\ stale' = {}

\* The "loaded" event: IndexMetricFromName.
LoadKey(k, v) ==
  /\ loading /\ db[k] = Absent
  /\ db' = [db EXCEPT ![k] = v]
  /\ index' = IF IsSeries(v) THEN Reindexed(index, k, v) ELSE index
  /\ UNCHANGED <<loading, backup, stale>>

\* The load is complete: Discard_Globals_Backup, when there is a backup.
LoadDone ==
  /\ loading
  /\ loading' = FALSE /\ backup' = NoBackup
  /\ UNCHANGED <<db, index, stale>>

\* Mutant: the keys loaded so far stay in the index.
RestoreGlobalsMerged ==
  /\ loading /\ backup # NoBackup
  /\ db' = backup.db
  /\ index' = [backup.index EXCEPT !.labelsIndex =
                 [x \in IndexKey |-> @[x] \cup index.labelsIndex[x]]]
  /\ stale' = backup.stale
  /\ loading' = FALSE /\ backup' = NoBackup

RestoreGlobals ==
  /\ loading /\ backup # NoBackup
  /\ db' = backup.db
  /\ index' = backup.index
  /\ stale' = backup.stale
  /\ loading' = FALSE /\ backup' = NoBackup

Next ==
  \/ \E k \in Key :
       \/ \E L \in LabelLists : Create(k, L) \/ Alter(k, L)
       \/ Delete(k) \/ Overwrite(k)
       \/ \E v \in Content \ {Absent} : RestoreKey(k, v) \/ LoadKey(k, v)
       \/ \E j \in Key : Rename(k, j) \/ Copy(k, j)
  \/ Flush \/ Restart \/ BackupGlobals \/ LoadDone \/ RestoreGlobals

Spec == Init /\ [][Next]_vars

----------------------------------------------------------------------------
(***************************************************************************)
(* Properties.                                                             *)
(***************************************************************************)
IndexType == [labelsIndex : [IndexKey -> SUBSET Key], tsLabelIndex : [Key -> SUBSET IndexKey]]

\* Type correctness of the keyspace and the index.
TypeOK ==
  /\ db \in [Key -> Content]
  /\ index \in IndexType
  /\ loading \in BOOLEAN
  /\ backup \in [db : [Key -> Content], index : IndexType, stale : SUBSET Key] \cup {NoBackup}
  /\ stale \in SUBSET Key

AreInverse(ix) ==
  \A x \in IndexKey, k \in Key : k \in ix.labelsIndex[x] <=> x \in ix.tsLabelIndex[k]

\* labelsIndex and tsLabelIndex are inverse to each other: RemoveIndexedMetric
\* finds the leaves of a series through tsLabelIndex, so an entry without its
\* counterpart could never be removed again.
IndexesInverse == AreInverse(index)

Follows(d, ix, outlived) ==
  \A k \in Key :
    LET expected == IF IsSeries(d[k]) THEN IndexKeys(d[k]) ELSE {} IN
    /\ expected \subseteq ix.tsLabelIndex[k]
    /\ k \notin outlived => ix.tsLabelIndex[k] = expected

\* The entries of every key are those of its labels, whatever the order of
\* commands, notifications and broken-off loads; the entries of a series that
\* was overwritten without an event come on top of them.
IndexFollowsKeyspace == Follows(db, index, stale)
=============================================================================
