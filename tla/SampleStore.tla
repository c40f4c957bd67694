---------------------------- MODULE SampleStore ----------------------------
(***************************************************************************)
(* What a time series promises its clients, with no chunks in sight: one   *)
(* value per timestamp, a write that changes no other timestamp, a delete  *)
(* that removes exactly its range, and samples that disappear by           *)
(* themselves only once they are older than the retention window.          *)
(***************************************************************************)
EXTENDS Samples

CONSTANT GlobalPolicy   \* TSGlobalConfig.duplicatePolicy

VARIABLES
  data,       \* the sample at each timestamp, or NoValue
  retention,  \* the retention time, 0 for none
  policy      \* the series' own duplicate policy, or DP_NONE

vars == <<data, retention, policy>>
settings == <<retention, policy>>

Contents == [Time -> Value \cup {NoValue}]
Empty == [t \in Time |-> NoValue]
Stored(d) == {t \in Time : d[t] # NoValue}

\* t is the newest timestamp of the contents d.
IsNewest(d, t) == d[t] # NoValue /\ \A u \in Time : d[u] # NoValue => u <= t

Init ==
  /\ data = Empty
  /\ retention \in Nat
  /\ policy \in DuplicatePolicy \cup {DP_NONE}

\* The contents d become e when a sample newer than every stored one arrives
\* at t.  Samples behind the retention window of the newest sample there was
\* may be dropped on the way.
Appends(d, e, t) ==
  /\ d[t] = NoValue /\ e[t] # NoValue
  /\ \A u \in Time \ {t} :
       /\ d[u] # NoValue => u < t
       /\ \/ e[u] = d[u]
          \/ /\ e[u] = NoValue
             /\ \E last \in Time : IsNewest(d, last) /\ OlderThanRetention(u, last, retention)

\* The contents d become e when a sample arrives at t, at or before the newest
\* one: it changes its own timestamp only, and what it leaves there is decided
\* by the duplicate policy.
Upserts(d, e, t) ==
  /\ \A u \in Time \ {t} : e[u] = d[u]
  /\ \E last \in Time : /\ IsNewest(d, last) /\ t <= last
                        /\ ~OlderThanRetention(t, last, retention)
  /\ IF d[t] = NoValue THEN e[t] # NoValue
     ELSE \E v \in Value, override \in DuplicatePolicy \cup {DP_NONE} :
            LET dp == EffectivePolicy(override, policy, GlobalPolicy)
            IN  dp # "block" /\ e[t] = HandleDuplicateSample(dp, d[t], v)

\* A deletion empties a range of timestamps and nothing else.
Deletes(d, e, a, b) ==
  e = [t \in Time |-> IF a <= t /\ t <= b THEN NoValue ELSE d[t]]

Write ==
  LET old == data new == data' IN
  /\ old \in Contents /\ new \in Contents
  /\ \E t \in Time : Appends(old, new, t) \/ Upserts(old, new, t)
  /\ UNCHANGED settings

Delete ==
  LET old == data new == data' IN
  /\ old \in Contents /\ new \in Contents
  /\ \E a, b \in Time : Deletes(old, new, a, b)
  /\ UNCHANGED settings

\* TS.ALTER changes the settings and no sample.
Alter ==
  /\ retention' \in Nat /\ policy' \in DuplicatePolicy \cup {DP_NONE}
  /\ UNCHANGED data

\* DEL and a new TS.CREATE.
Recreate ==
  /\ data' = Empty
  /\ retention' \in Nat /\ policy' \in DuplicatePolicy \cup {DP_NONE}

Next == Write \/ Delete \/ Alter \/ Recreate

Spec == Init /\ [][Next]_vars
=============================================================================
