----------------------------- MODULE LinkGraph -----------------------------
(***************************************************************************)
(* What the compaction rules between series amount to: a set of links from *)
(* a source to a destination, in which a destination has one source and no *)
(* series is both.  Writing to a source writes to its destinations, so a   *)
(* chain or a cycle of links would make one TS.ADD recurse.                *)
(*                                                                         *)
(* Each action names the keys a command is given; it changes the links of  *)
(* those keys and no others.                                               *)
(***************************************************************************)
CONSTANT Key

VARIABLES
  keys,   \* the keys that hold a series
  links   \* pairs of a source and a destination

vars == <<keys, links>>

Without(k) == {l \in links : l[1] # k /\ l[2] # k}

Init == keys = {} /\ links = {}

\* A new series, or a copy of another one, under a free or a taken key.
Create(k) == keys' = keys \cup {k} /\ links' = Without(k)

\* A new series together with new destinations.
CreateLinked(k, dests) ==
  /\ k \notin keys /\ dests \cap (keys \cup {k}) = {}
  /\ keys' = keys \cup {k} \cup dests
  /\ links' = links \cup ({k} \X dests)

Linkable(s, d) == s # d /\ \A l \in links : l[2] # s /\ l[1] # d /\ l[2] # d

\* A rule between two series.
AddLink(s, d) ==
  /\ s \in keys /\ d \in keys /\ Linkable(s, d)
  /\ links' = links \cup {<<s, d>>}
  /\ UNCHANGED keys

\* Nothing happens when there is no such rule.
DropLink(s, d) == links' = links \ {<<s, d>>} /\ UNCHANGED keys

Delete(k) == keys' = keys \ {k} /\ links' = Without(k)

\* A renamed series takes its links along; those of a key it overwrites go.
Rename(a, b) ==
  LET renamed(k) == IF k = a THEN b ELSE k IN
  /\ keys' = (keys \ {a}) \cup {b}
  /\ links' = {<<renamed(l[1]), renamed(l[2])>> : l \in Without(b)}

\* A series restored from an earlier value of some key.  The value names a
\* source or destinations, not both; the links that come back are among those,
\* with series that are there.
Restore(k, sources, dests) ==
  /\ sources = {} \/ dests = {}
  /\ keys' = keys \cup {k}
  /\ Without(k) \subseteq links'
  /\ links' \ Without(k) \subseteq ((sources \cap keys) \X {k}) \cup ({k} \X (dests \cap keys))

Flush == keys' = {} /\ links' = {}
=============================================================================
