------------------------------ MODULE Samples ------------------------------
(***************************************************************************)
(* What every component shares: timestamps, sample values and the rule     *)
(* that decides which value is kept when a timestamp is written twice.     *)
(*                                                                         *)
(* A timestamp is an unsigned 64-bit count of milliseconds; MaxTime stands *)
(* for UINT64_MAX, so TS.RANGE key - + is the interval 0..MaxTime.  A      *)
(* value is a C double; only its order, its sum and whether it is NaN      *)
(* matter here.                                                            *)
(***************************************************************************)
EXTENDS Integers

CONSTANTS
  MaxTime,   \* the largest timestamp
  Number,    \* the doubles that are numbers, as integers
  NaN,       \* the double that is not a number
  NoValue    \* "no sample at this timestamp"

ASSUME TimeAssumption == MaxTime \in Nat
ASSUME NumberAssumption == Number \subseteq Int /\ 0 \in Number
ASSUME MarkerAssumption == NaN \notin Number /\ NoValue \notin Number /\ NaN # NoValue

Time == 0 .. MaxTime
Value == Number \cup {NaN}

(***************************************************************************)
(* The duplicate policies of consts.h.  DP_NONE means "not set here": the  *)
(* series falls back to its own policy and then to the module's.           *)
(***************************************************************************)
DuplicatePolicy == {"block", "first", "last", "min", "max", "sum"}
DP_NONE == "none"

\* The stored value when a sample valued new meets one valued old at the same
\* timestamp under a policy other than BLOCK.  A NaN never replaces a number.
HandleDuplicateSample(policy, old, new) ==
  IF new = NaN THEN old
  ELSE IF old = NaN THEN new
  ELSE CASE policy = "first" -> old
         [] policy = "last"  -> new
         [] policy = "min"   -> IF old < new THEN old ELSE new
         [] policy = "max"   -> IF old > new THEN old ELSE new
         [] policy = "sum"   -> old + new

\* The policy in force: the command's, else the series', else the module's.
EffectivePolicy(override, ofSeries, global) ==
  IF override # DP_NONE THEN override
  ELSE IF ofSeries # DP_NONE THEN ofSeries
  ELSE global

\* The window a retention time leaves open behind the newest timestamp; a
\* retention time of 0 means "keep everything".
OlderThanRetention(t, last, retention) ==
  retention # 0 /\ t < last /\ retention < last - t
=============================================================================
