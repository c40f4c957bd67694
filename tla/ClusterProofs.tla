--------------------------- MODULE ClusterProofs ---------------------------
(***************************************************************************)
(* Commands in a cluster, for every number of shards and commands, every   *)
(* query and all data: replies are snapshots, no thread uses memory that   *)
(* has been freed, and what was allocated is freed.                        *)
(*                                                                         *)
(* The commands do not touch each other, so the invariant speaks of one at *)
(* a time.  Its first part counts who still holds a reference to the       *)
(* arguments and the predicates; its second part says where the records of *)
(* a shard are that has answered: under way or collected, never both.      *)
(***************************************************************************)
EXTENDS Cluster, TLAPS

----------------------------------------------------------------------------
(***************************************************************************)
(* Memory.  Of a command that ran: its query q, the state ex of its        *)
(* execution, the count a of its arguments, its predicates ls, the threads *)
(* fr that free them, and the place at in the main thread's handler.       *)
(***************************************************************************)
\* Where the main thread is with command c.
At(c) == IF main.cmd = c THEN main.pc ELSE "idle"

BuilderHolds == {"freeExecution", "freeBuilder"}
ListHeld == {"freeExecution", "freeBuilder", "inObjectFree", "builderFreed"}

\* The predicates of TS.MGET have one owner.
Sole(ls, f) == ls.ref = 1 /\ f.pc # "dec" /\ (ls.freed <=> f.pc = "end")

\* Those of the others have two, f and g, each of which has let go when it is at its
\* end.  Both are behind the test at once only in a race (rs).
Shared(ls, f, g, c, rs) ==
  /\ ls.freed => f.pc = "end" /\ g.pc = "end"
  /\ f.pc = "end" /\ g.pc = "end" => ls.freed \/ c \in rs
  /\ f.pc # "end" /\ g.pc # "end" => ls.ref = 2
  /\ f.pc = "end" /\ g.pc # "end" => ls.ref = 1
  /\ f.pc # "end" /\ g.pc = "end" => ls.ref = 1
  /\ (f.pc = "dec" => f.read = 2) /\ (g.pc = "dec" => g.read = 2)
  /\ f.pc = "dec" /\ g.pc \in {"dec", "end"} => c \in rs
  /\ g.pc = "dec" /\ f.pc \in {"dec", "end"} => c \in rs

Held(q, ex, a, ls, fr, at, c, rs) ==
  /\ a = (IF at \in BuilderHolds THEN 1 ELSE 0) + (IF ex \in {"running", "done"} THEN 1 ELSE 0)
  /\ fr["arg"].pc = "no" <=> a > 0
  /\ fr["done"].pc = "no" <=> (ex = "running" \/ q.kind # "mrange")
  /\ fr["main"].pc = "no" <=> (q.kind # "queryindex" \/ at \in ListHeld)
  /\ q.kind = "mget" => Sole(ls, fr["arg"])
  /\ q.kind = "mrange" => Shared(ls, fr["arg"], fr["done"], c, rs)
  /\ q.kind = "queryindex" => Shared(ls, fr["arg"], fr["main"], c, rs)

\* A command that has not run, or was refused, holds nothing.
Unheld(cl, a, fr, at) ==
  cl \in {"new", "answered"} /\ a = 0 /\ at = "idle" /\ \A th \in Thread : fr[th] = NotFreeing

MemoryOf(q, cl, ex, a, ls, fr, at, c, rs) ==
  /\ cl = "new" => ex = "none" /\ ls = [ref |-> 0, freed |-> FALSE]
  /\ ex = "none" => Unheld(cl, a, fr, at)
  /\ ex # "none" => q \in Query /\ Held(q, ex, a, ls, fr, at, c, rs)

MemoryInv ==
  \A c \in Command :
    MemoryOf(query[c], client[c], exec[c], arg[c], list[c], frees[c], At(c), c, raced)

----------------------------------------------------------------------------
(***************************************************************************)
(* Records.                                                                *)
(***************************************************************************)
Data == {NoSeries, NotSeries} \cup {v \in Series : WellFormed(v)}
Records == {Mapper(q, v) : q \in Query, v \in Data}
Result == [shard : Shard, records : Records]

\* The places of shard s among the results.
PlacesOf(rs, s) == {i \in DOMAIN rs : rs[i].shard = s}

\* What shard s sent is nowhere, under way, or collected once.
Nowhere(ib, rs, s) == ib = <<>> /\ PlacesOf(rs, s) = {}
UnderWay(ib, rs, s, m) == ib = <<m>> /\ PlacesOf(rs, s) = {}
OnceCollected(ib, rs, s, m) ==
  ib = <<>> /\ \E i \in DOMAIN rs : PlacesOf(rs, s) = {i} /\ rs[i].records = m

\* The execution of q on shard s, which has had the series sn.
Delivery(q, rd, rt, ib, rs, s, sn) ==
  /\ rd = "unsent" => ~rt
  /\ rd = "finished" => rt
  /\ ~rt => Nowhere(ib, rs, s)
  /\ rt => \E v \in sn : \/ UnderWay(ib, rs, s, Mapper(q, v))
                         \/ OnceCollected(ib, rs, s, Mapper(q, v))

RecordsType ==
  /\ db \in [Shard -> Data]
  /\ returned \in [Command -> [Shard -> BOOLEAN]]
  /\ inbox \in [Command -> [Shard -> Seq(Records)]]
  /\ results \in [Command -> Seq(Result)]
  /\ seen \in [Command -> [Shard -> SUBSET Data]]
  /\ query \in [Command -> Query \cup {NoReply}]
  /\ reply = [c \in Command |-> reply[c]]

RecordsInv ==
  \A c \in Command :
    /\ client[c] = "new" => reply[c] = NoReply
    /\ exec[c] = "none" => \A s \in Shard : ~returned[c][s] /\ inbox[c][s] = <<>>
    /\ exec[c] = "none" => results[c] = <<>> /\ reply[c] \in {NoReply, Failed}
    /\ exec[c] = "running" => \A s \in Shard :
         /\ db[s] \in seen[c][s]
         /\ Delivery(query[c], reader[c][s], returned[c][s], inbox[c][s], results[c], s, seen[c][s])

IndInv == TypeOK /\ MemoryInv /\ RecordsType /\ RecordsInv /\ RepliesAreSnapshots

----------------------------------------------------------------------------
(***************************************************************************)
(* Memory: the steps of one command.                                       *)
(***************************************************************************)
Freeing == [pc : {"no", "check", "dec", "end"}, read : 0..2]
Predicates == [ref : 0..2, freed : BOOLEAN]
MemoryType ==
  /\ main = Idle \/ main \in [cmd : Command, pc : Place]
  /\ client \in [Command -> {"new", "blocked", "unblocked", "answered"}]
  /\ arg \in [Command -> 0..2]
  /\ list \in [Command -> Predicates]
  /\ frees \in [Command -> [Thread -> Freeing]]
  /\ exec \in [Command -> {"none", "running", "done", "freed"}]
  /\ query \in [Command -> Query \cup {NoReply}]

Memory(c) == MemoryOf(query[c], client[c], exec[c], arg[c], list[c], frees[c], At(c), c, raced)

\* A step that leaves everything of a command alone.
LEMMA MemoryFrame ==
  ASSUME NEW c \in Command, Memory(c),
         query'[c] = query[c], client'[c] = client[c], exec'[c] = exec[c], arg'[c] = arg[c],
         list'[c] = list[c], frees'[c] = frees[c], At(c)' = At(c), c \in raced' <=> c \in raced
  PROVE  Memory(c)'
<1>1. ASSUME NEW q, NEW ex, NEW a, NEW ls, NEW fr, NEW at, Held(q, ex, a, ls, fr, at, c, raced)
      PROVE  Held(q, ex, a, ls, fr, at, c, raced')
  BY <1>1 DEF Held, Shared
<1> QED BY <1>1 DEF Memory, MemoryOf

\* The threads that let go of the list, thread by thread.
FreesPut(fs, c, th, f) == [fs EXCEPT ![c] = [fs[c] EXCEPT ![th] = f]]
PcSet(fs, c, th, p) == [fs EXCEPT ![c][th].pc = p]

\* Putting a new state for one thread of one command.
LEMMA FreesPutFacts ==
  ASSUME NEW fs \in [Command -> [Thread -> Freeing]], NEW c \in Command, NEW th \in Thread, NEW f \in Freeing
  PROVE  /\ FreesPut(fs, c, th, f) \in [Command -> [Thread -> Freeing]]
         /\ \A d \in Command \ {c} : FreesPut(fs, c, th, f)[d] = fs[d]
         /\ \A o \in Thread : FreesPut(fs, c, th, f)[c][o] = IF o = th THEN f ELSE fs[c][o]
BY DEF FreesPut

LEMMA FreesUpdates ==
  ASSUME frees \in [Command -> [Thread -> Freeing]], NEW c \in Command, NEW th \in Thread,
         NEW p \in {"no", "check", "dec", "end"}
  PROVE  /\ PcSet(frees, c, th, p) = FreesPut(frees, c, th, [pc |-> p, read |-> frees[c][th].read])
         /\ [pc |-> p, read |-> frees[c][th].read] \in Freeing
<1>1. frees[c][th] \in Freeing
  OBVIOUS
<1>2. [frees[c][th] EXCEPT !.pc = p] = [pc |-> p, read |-> frees[c][th].read]
  BY <1>1 DEF Freeing
<1>3. PcSet(frees, c, th, p) = FreesPut(frees, c, th, [frees[c][th] EXCEPT !.pc = p])
  BY DEF FreesPut, PcSet
<1>4. [pc |-> p, read |-> frees[c][th].read] \in Freeing
  BY <1>1 DEF Freeing
<1> QED BY <1>2, <1>3, <1>4

\* An assignment to one field of the list.
RefSet(ls, c, r) == [ls EXCEPT ![c].ref = r]
FreedSet(ls, c) == [ls EXCEPT ![c].freed = TRUE]

LEMMA ListUpdates ==
  ASSUME list \in [Command -> Predicates], NEW c \in Command, NEW r
  PROVE  /\ RefSet(list, c, r) = [list EXCEPT ![c] = [ref |-> r, freed |-> list[c].freed]]
         /\ FreedSet(list, c) = [list EXCEPT ![c] = [ref |-> list[c].ref, freed |-> TRUE]]
<1>1. list[c] \in Predicates
  OBVIOUS
<1>f. ASSUME NEW R, NEW F, NEW p \in [ref : R, freed : F], NEW b
      PROVE  /\ [p EXCEPT !.ref = r] = [ref |-> r, freed |-> p.freed]
             /\ [p EXCEPT !.freed = b] = [ref |-> p.ref, freed |-> b]
  OBVIOUS
<1>p. ASSUME NEW p \in Predicates, NEW b
      PROVE  /\ [p EXCEPT !.ref = r] = [ref |-> r, freed |-> p.freed]
             /\ [p EXCEPT !.freed = b] = [ref |-> p.ref, freed |-> b]
  BY <1>f DEF Predicates
<1>2. /\ [list[c] EXCEPT !.ref = r] = [ref |-> r, freed |-> list[c].freed]
      /\ [list[c] EXCEPT !.freed = TRUE] = [ref |-> list[c].ref, freed |-> TRUE]
  BY <1>1, <1>p
<1>3. /\ RefSet(list, c, r) = [list EXCEPT ![c] = [list[c] EXCEPT !.ref = r]]
      /\ FreedSet(list, c) = [list EXCEPT ![c] = [list[c] EXCEPT !.freed = TRUE]]
  BY DEF RefSet, FreedSet
<1> QED BY <1>2, <1>3

\* A thread goes to another place; the arguments are let go; the list is.
Goes(fr, th, p) == [fr EXCEPT ![th] = [pc |-> p, read |-> fr[th].read]]
Dropped(fr, a) == IF a = 1 THEN Goes(fr, "arg", "check") ELSE fr
Decremented(ls, r) == [ref |-> r - 1, freed |-> ls.freed]

\* Only the threads that own the list free it, and before that the list is there.
LEMMA FreeTestHeld ==
  ASSUME NEW q \in Query, NEW ex, NEW a, NEW ls \in Predicates, NEW fr \in [Thread -> Freeing], NEW at,
         NEW c, NEW rs, Held(q, ex, a, ls, fr, at, c, rs), NEW th \in Thread, fr[th].pc = "check",
         NEW nl \in Predicates, NEW nr \in [Thread -> Freeing], NEW nc,
         IF ls.ref > 1
         THEN nr = [fr EXCEPT ![th] = [pc |-> "dec", read |-> ls.ref]] /\ nl = ls
         ELSE nr = [fr EXCEPT ![th] = [pc |-> "end", read |-> fr[th].read]] /\ nl.ref = ls.ref /\ nl.freed,
         nc = IF \E other \in Thread \ {th} : fr[other].pc = "dec" THEN rs \cup {c} ELSE rs
  PROVE  Held(q, ex, a, nl, nr, at, c, nc)
<1>1. q.kind \in Kind
  BY QueryAssumption
<1>2. CASE q.kind = "mget"
  <2>1. th = "arg"
    BY <1>2 DEF Held, Thread
  <2> QED BY <1>2, <2>1 DEF Held, Sole, Thread, Freeing, Predicates
<1>3. CASE q.kind = "mrange"
  <2>1. th \in {"arg", "done"}
    BY <1>3 DEF Held, Thread
  <2> QED BY <1>3, <2>1 DEF Held, Shared, Thread, Freeing, Predicates
<1>4. CASE q.kind = "queryindex"
  <2>1. th \in {"arg", "main"}
    BY <1>4 DEF Held, Thread
  <2> QED BY <1>4, <2>1 DEF Held, Shared, Thread, Freeing, Predicates
<1> QED BY <1>1, <1>2, <1>3, <1>4 DEF Kind

LEMMA FreeDecrementHeld ==
  ASSUME NEW q \in Query, NEW ex, NEW a, NEW ls \in Predicates, NEW fr \in [Thread -> Freeing], NEW at,
         NEW c, NEW rs, Held(q, ex, a, ls, fr, at, c, rs), NEW th \in Thread, fr[th].pc = "dec",
         NEW r \in {ls.ref, fr[th].read}
  PROVE  /\ Decremented(ls, r) \in Predicates
         /\ Held(q, ex, a, Decremented(ls, r), Goes(fr, th, "end"), at, c, rs)
<1>1. q.kind \in Kind
  BY QueryAssumption
<1>2. CASE q.kind = "mget"
  BY <1>2 DEF Held, Sole, Thread
<1>3. CASE q.kind = "mrange"
  <2>1. th \in {"arg", "done"}
    BY <1>3 DEF Held, Thread
  <2> QED BY <1>3, <2>1 DEF Held, Shared, Thread, Freeing, Predicates, Decremented, Goes
<1>4. CASE q.kind = "queryindex"
  <2>1. th \in {"arg", "main"}
    BY <1>4 DEF Held, Thread
  <2> QED BY <1>4, <2>1 DEF Held, Shared, Thread, Freeing, Predicates, Decremented, Goes
<1> QED BY <1>1, <1>2, <1>3, <1>4 DEF Kind

\* The builder's reference or the execution's is let go; the last one begins to free the list.
LEMMA ObjectFreeHeld ==
  ASSUME NEW q \in Query, NEW ex, NEW a \in 0..2, NEW ls, NEW fr \in [Thread -> Freeing], NEW at, NEW c, NEW rs,
         Held(q, ex, a, ls, fr, at, c, rs), NEW nx, NEW nt,
         \/ at = "freeBuilder" /\ nt \in {"inObjectFree", "builderFreed"} /\ nx = ex
         \/ ex = "done" /\ nx = "freed" /\ nt = at
  PROVE  a - 1 \in 0..2 /\ Held(q, nx, a - 1, ls, Dropped(fr, a), nt, c, rs)
<1> DEFINE nr == IF a = 1 THEN [fr EXCEPT !["arg"] = [pc |-> "check", read |-> fr["arg"].read]] ELSE fr
<1>0. nr = Dropped(fr, a)
  BY DEF Dropped, Goes
<1>1. /\ a - 1 \in 0..2
      /\ a - 1 = (IF nt \in BuilderHolds THEN 1 ELSE 0) + (IF nx \in {"running", "done"} THEN 1 ELSE 0)
  BY DEF Held, BuilderHolds
<1>2. nr["done"] = fr["done"] /\ nr["main"] = fr["main"]
  BY DEF Thread
<1>3. nr["arg"].pc = "no" <=> a - 1 > 0
  BY <1>1 DEF Held, Thread, BuilderHolds
<1>4. (ex = "running" <=> nx = "running") /\ (at \in ListHeld <=> nt \in ListHeld)
  BY DEF ListHeld
<1>5. \/ nr["arg"] = fr["arg"]
      \/ fr["arg"].pc = "no" /\ nr["arg"].pc = "check"
  BY DEF Held, Thread
<1>6. q.kind = "mget" => Sole(ls, nr["arg"])
  BY <1>5 DEF Held, Sole
<1>7. q.kind = "mrange" => Shared(ls, nr["arg"], nr["done"], c, rs)
  BY <1>2, <1>5 DEF Held, Shared
<1>8. q.kind = "queryindex" => Shared(ls, nr["arg"], nr["main"], c, rs)
  BY <1>2, <1>5 DEF Held, Shared
<1> QED BY <1>0, <1>1, <1>2, <1>3, <1>4, <1>6, <1>7, <1>8 DEF Held

\* Another owner begins to free the list.
LEMMA OwnerFrees ==
  ASSUME NEW q \in Query, NEW ex, NEW a, NEW ls, NEW fr \in [Thread -> Freeing], NEW at, NEW c, NEW rs,
         Held(q, ex, a, ls, fr, at, c, rs), NEW nx, NEW nt, NEW nr,
         \/ /\ q.kind = "mrange" /\ ex = "running" /\ nx = "done" /\ nt = at
            /\ nr = [fr EXCEPT !["done"] = [pc |-> "check", read |-> fr["done"].read]]
         \/ /\ q.kind = "queryindex" /\ at \in {"inObjectFree", "builderFreed"} /\ nt = "freePredicates" /\ nx = ex
            /\ nr = [fr EXCEPT !["main"] = [pc |-> "check", read |-> fr["main"].read]]
  PROVE  Held(q, nx, a, ls, nr, nt, c, rs)
<1>1. CASE q.kind = "mrange"
  BY <1>1 DEF Held, Shared, Thread, BuilderHolds, ListHeld, Freeing
<1>2. CASE q.kind = "queryindex"
  BY <1>2 DEF Held, Shared, Thread, BuilderHolds, ListHeld, Freeing
<1> QED BY <1>1, <1>2

\* A step of the execution or of the handler that lets nothing go.
LEMMA HeldOn ==
  ASSUME NEW q \in Query, NEW ex, NEW a, NEW ls, NEW fr, NEW at, NEW c, NEW rs,
         Held(q, ex, a, ls, fr, at, c, rs), NEW nx, NEW nt,
         at \in BuilderHolds <=> nt \in BuilderHolds,
         q.kind = "queryindex" => (at \in ListHeld <=> nt \in ListHeld),
         nx = ex \/ (q.kind # "mrange" /\ ex = "running" /\ nx = "done")
  PROVE  Held(q, nx, a, ls, fr, nt, c, rs)
BY DEF Held

\* A command that begins to run.
LEMMA RunHeld ==
  ASSUME NEW q \in Query, NEW ls, ls = [ref |-> Refs(q), freed |-> FALSE], NEW fr,
         \A th \in Thread : fr[th] = NotFreeing, NEW c, NEW rs
  PROVE  Held(q, "running", 2, ls, fr, "freeExecution", c, rs) /\ ls \in Predicates
BY DEF Held, Sole, Shared, Refs, NotFreeing, Thread, BuilderHolds, ListHeld, Predicates

----------------------------------------------------------------------------
\* The invariant holds in the beginning.
LEMMA MemoryInit == Init => MemoryType /\ MemoryInv
<1> SUFFICES ASSUME Init PROVE MemoryType /\ MemoryInv
  OBVIOUS
<1>1. MemoryType
  BY DEF Init, MemoryType, Freeing, Predicates, NotFreeing
<1>2. ASSUME NEW c \in Command PROVE Memory(c)
  BY DEF Init, Memory, MemoryOf, Unheld, NotFreeing, At, Idle
<1> QED BY <1>1, <1>2 DEF MemoryInv, Memory

\* Every step preserves it.
LEMMA MemoryStep == MemoryType /\ MemoryInv /\ [Next]_vars => MemoryType' /\ MemoryInv'
<1> SUFFICES ASSUME MemoryType, MemoryInv, [Next]_vars PROVE MemoryType' /\ MemoryInv'
  OBVIOUS
<1>t. /\ main = Idle \/ main \in [cmd : Command, pc : Place]
      /\ client \in [Command -> {"new", "blocked", "unblocked", "answered"}]
      /\ arg \in [Command -> 0..2]
      /\ list \in [Command -> Predicates]
      /\ frees \in [Command -> [Thread -> Freeing]]
      /\ exec \in [Command -> {"none", "running", "done", "freed"}]
      /\ query \in [Command -> Query \cup {NoReply}]
  BY DEF MemoryType
<1>m. \A c \in Command : Memory(c)
  BY DEF MemoryInv, Memory
<1>q. ASSUME MemoryType', \A c \in Command : Memory(c)' PROVE MemoryType' /\ MemoryInv'
  BY <1>q DEF MemoryInv, Memory
<1>i. ASSUME main = Idle, NEW c \in Command PROVE At(c) = "idle"
  BY <1>i DEF At, Idle
<1>0. ASSUME UNCHANGED <<main, query, client, memory, exec>> PROVE MemoryType' /\ MemoryInv'
  <2>1. MemoryType'
    BY <1>0, <1>t DEF MemoryType, memory
  <2>2. ASSUME NEW c \in Command PROVE Memory(c)'
    BY <1>0, <1>m, MemoryFrame DEF memory, At
  <2> QED BY <1>q, <2>1, <2>2
<1>1. ASSUME NEW s \in Shard, Write(s) \/ Stop(s) \/ Restart(s) PROVE MemoryType' /\ MemoryInv'
  BY <1>1, <1>0 DEF Write, Stop, Restart, asking, running
<1>2. ASSUME NEW c \in Command, NEW q \in Query, Refuse(c, q) \/ CreateFails(c, q)
      PROVE  MemoryType' /\ MemoryInv'
  <2>1. /\ client[c] = "new" /\ main = Idle
        /\ query' = [query EXCEPT ![c] = q]
        /\ client' = [client EXCEPT ![c] = "answered"]
        /\ UNCHANGED <<main, arg, frees, raced, exec>>
    BY <1>2 DEF Refuse, CreateFails, running
  <2>2. exec[c] = "none" /\ list[c] = [ref |-> 0, freed |-> FALSE] /\ Unheld(client[c], arg[c], frees[c], At(c))
    BY <1>m, <2>1 DEF Memory, MemoryOf
  <2>3. list' \in [Command -> Predicates] /\ \A d \in Command \ {c} : list'[d] = list[d]
    <3>1. CASE Refuse(c, q)
      <4> DEFINE r == IF q.kind = "queryindex" THEN 1 ELSE 0
      <4>1. list' = [list EXCEPT ![c] = [ref |-> r, freed |-> FALSE]]
        <5>1. list' = RefSet(list, c, r)
          BY <3>1 DEF Refuse, RefSet
        <5>2. list[c].freed = FALSE
          BY <2>2
        <5> HIDE DEF r
        <5> QED BY <1>t, <5>1, <5>2, ListUpdates
      <4>2. [ref |-> r, freed |-> FALSE] \in Predicates
        BY DEF Predicates
      <4> QED BY <4>1, <4>2, <1>t
    <3>2. CASE CreateFails(c, q)
      <4>1. [ref |-> 1, freed |-> FALSE] \in Predicates /\ [ref |-> 1, freed |-> TRUE] \in Predicates
        BY DEF Predicates
      <4> QED BY <3>2, <4>1, <1>t DEF CreateFails
    <3> QED BY <1>2, <3>1, <3>2
  <2>4. MemoryType'
    BY <1>t, <2>1, <2>3 DEF MemoryType
  <2>5. ASSUME NEW d \in Command PROVE Memory(d)'
    <3>1. At(d)' = At(d)
      BY <2>1 DEF At
    <3>2. CASE d = c
      <4>1. client'[c] = "answered" /\ exec'[c] = "none" /\ arg'[c] = arg[c] /\ frees'[c] = frees[c]
        BY <1>t, <2>1, <2>2
      <4>2. Unheld(client'[c], arg'[c], frees'[c], At(c)')
        BY <2>2, <3>1, <3>2, <4>1 DEF Unheld
      <4> QED BY <3>2, <4>1, <4>2 DEF Memory, MemoryOf
    <3>3. CASE d # c
      BY <1>m, <2>1, <2>3, <3>1, <3>3, <1>t, MemoryFrame
    <3> QED BY <3>2, <3>3
  <2> QED BY <1>q, <2>4, <2>5
<1>3. ASSUME NEW c \in Command, NEW q \in Query, Run(c, q) PROVE MemoryType' /\ MemoryInv'
  <2>1. /\ client[c] = "new" /\ main = Idle
        /\ query' = [query EXCEPT ![c] = q]
        /\ client' = [client EXCEPT ![c] = "blocked"]
        /\ arg' = [arg EXCEPT ![c] = 2]
        /\ list' = RefSet(list, c, Refs(q))
        /\ exec' = [exec EXCEPT ![c] = "running"]
        /\ main' = [cmd |-> c, pc |-> "freeExecution"]
        /\ UNCHANGED <<frees, raced>>
    BY <1>3 DEF Run, RefSet
  <2>2. exec[c] = "none" /\ list[c] = [ref |-> 0, freed |-> FALSE] /\ Unheld(client[c], arg[c], frees[c], At(c))
    BY <1>m, <2>1 DEF Memory, MemoryOf
  <2> DEFINE ls == [ref |-> Refs(q), freed |-> FALSE]
  <2>3. list' = [list EXCEPT ![c] = ls]
    <3>1. list[c].freed = FALSE
      BY <2>2
    <3> QED BY <2>1, <3>1, <1>t, ListUpdates
  <2>4. ls \in Predicates /\ Held(q, "running", 2, ls, frees[c], "freeExecution", c, raced)
    BY <2>2, RunHeld DEF Unheld
  <2> HIDE DEF ls
  <2>5. MemoryType'
    BY <1>t, <2>1, <2>3, <2>4 DEF MemoryType, Place
  <2>6. ASSUME NEW d \in Command PROVE Memory(d)'
    <3>1. CASE d = c
      <4>1. At(c)' = "freeExecution"
        BY <2>1 DEF At
      <4>2. query'[c] = q /\ client'[c] = "blocked" /\ exec'[c] = "running" /\ arg'[c] = 2 /\ list'[c] = ls
            /\ frees'[c] = frees[c] /\ raced' = raced
        BY <2>1, <2>3, <1>t
      <4> QED BY <2>4, <3>1, <4>1, <4>2 DEF Memory, MemoryOf
    <3>2. CASE d # c
      <4>1. At(d)' = At(d)
        BY <1>i, <2>1, <3>2 DEF At
      <4> QED BY <1>m, <2>1, <2>3, <3>2, <4>1, <1>t, MemoryFrame
    <3> QED BY <3>1, <3>2
  <2> QED BY <1>q, <2>5, <2>6
\* The main thread, in the handler of command c.
<1>c. ASSUME main.pc \in Place
      PROVE  \E c \in Command : main.cmd = c
  BY <1>c, <1>t DEF Idle, Place
<1>h. ASSUME main.pc \in Place, NEW c \in Command, main.cmd = c
      PROVE  /\ main \in [cmd : Command, pc : Place] /\ At(c) = main.pc
             /\ exec[c] # "none" /\ client[c] # "new" /\ query[c] \in Query
             /\ Held(query[c], exec[c], arg[c], list[c], frees[c], main.pc, c, raced)
  <2>1. main \in [cmd : Command, pc : Place] /\ main.pc # "idle"
    BY <1>h, <1>t DEF Idle, Place
  <2>2. At(c) = main.pc
    BY <1>h DEF At
  <2>3. Memory(c)
    BY <1>m, <1>h
  <2> QED BY <2>1, <2>2, <2>3 DEF Memory, MemoryOf, Unheld
\* A step of that handler: the other commands are somewhere else before and after it.
<1>o. ASSUME NEW c \in Command, main.cmd = c, main' = Idle \/ main'.cmd = c, NEW d \in Command, d # c
      PROVE  At(d)' = At(d)
  BY <1>o DEF At, Idle
\* It goes on to another place.
<1>p. ASSUME main \in [cmd : Command, pc : Place], NEW c \in Command, main.cmd = c,
             NEW p \in Place, main' = [main EXCEPT !.pc = p]
      PROVE  main' \in [cmd : Command, pc : Place] /\ main'.cmd = c /\ At(c)' = p
  BY <1>p DEF At
\* Letting go, in one state of a thread.
<1>f. ASSUME NEW c \in Command, NEW th \in Thread, NEW p \in {"no", "check", "dec", "end"},
             frees' = [frees EXCEPT ![c][th].pc = p]
      PROVE  /\ frees' \in [Command -> [Thread -> Freeing]]
             /\ frees'[c] = [frees[c] EXCEPT ![th] = [pc |-> p, read |-> frees[c][th].read]]
             /\ \A d \in Command \ {c} : frees'[d] = frees[d]
  <2>1. PICK f \in Freeing : f = [pc |-> p, read |-> frees[c][th].read]
    BY <1>t, FreesUpdates
  <2>0. frees' = PcSet(frees, c, th, p)
    BY <1>f DEF PcSet
  <2>a. PcSet(frees, c, th, p) = FreesPut(frees, c, th, [pc |-> p, read |-> frees[c][th].read])
    BY <1>t, FreesUpdates
  <2>2. frees' = FreesPut(frees, c, th, f)
    BY <2>0, <2>1, <2>a
  <2>3. frees' \in [Command -> [Thread -> Freeing]]
    BY <2>2, <1>t, FreesPutFacts
  <2>4. frees'[c] = [frees[c] EXCEPT ![th] = f] /\ \A d \in Command \ {c} : frees'[d] = frees[d]
    BY <2>2, <1>t DEF FreesPut
  <2> QED BY <2>1, <2>3, <2>4
<1>4. CASE MainFreeExecution
  <2>1. /\ main.pc = "freeExecution" /\ main' = [main EXCEPT !.pc = "freeBuilder"]
        /\ UNCHANGED <<query, client, arg, list, frees, raced, exec>>
    BY <1>4 DEF MainFreeExecution, asking, memory, running
  <2>2. main.pc \in Place /\ "freeBuilder" \in Place
    BY <2>1 DEF Place
  <2>c. PICK c \in Command : main.cmd = c
    BY <1>c, <2>2
  <2>4. /\ main \in [cmd : Command, pc : Place] /\ exec[c] # "none" /\ client[c] # "new" /\ query[c] \in Query
        /\ Held(query[c], exec[c], arg[c], list[c], frees[c], "freeExecution", c, raced)
    BY <1>h, <2>1, <2>2, <2>c
  <2>3. main' \in [cmd : Command, pc : Place] /\ main'.cmd = c /\ At(c)' = "freeBuilder"
    BY <1>p, <2>1, <2>2, <2>4, <2>c
  <2>5. Held(query[c], exec[c], arg[c], list[c], frees[c], "freeBuilder", c, raced)
    BY <2>4, HeldOn DEF BuilderHolds, ListHeld
  <2>6. Memory(c)'
    BY <2>1, <2>3, <2>4, <2>5 DEF Memory, MemoryOf
  <2>7. ASSUME NEW d \in Command, d # c PROVE Memory(d)'
    <3>1. At(d)' = At(d)
      BY <1>o, <2>3, <2>7, <2>c
    <3> QED BY <1>m, <2>1, <3>1, MemoryFrame
  <2>8. MemoryType'
    BY <1>t, <2>1, <2>3 DEF MemoryType
  <2> QED BY <1>q, <2>6, <2>7, <2>8
\* ObjectFree of command c, from the main thread or the execution.
<1>b. ASSUME NEW c \in Command, ObjectFree(c), exec[c] # "none", NEW nx, NEW nt, query[c] \in Query,
             Held(query[c], exec[c], arg[c], list[c], frees[c], At(c), c, raced),
             \/ At(c) = "freeBuilder" /\ nt \in {"inObjectFree", "builderFreed"} /\ nx = exec[c]
             \/ exec[c] = "done" /\ nx = "freed" /\ nt = At(c)
      PROVE  /\ arg' \in [Command -> 0..2] /\ frees' \in [Command -> [Thread -> Freeing]]
             /\ \A d \in Command \ {c} : arg'[d] = arg[d] /\ frees'[d] = frees[d]
             /\ Held(query[c], nx, arg'[c], list[c], frees'[c], nt, c, raced)
  <2>1. arg' = [arg EXCEPT ![c] = arg[c] - 1] /\ arg[c] \in 0..2 /\ frees[c] \in [Thread -> Freeing]
    BY <1>b, <1>t DEF ObjectFree
  <2>2. /\ frees' \in [Command -> [Thread -> Freeing]]
        /\ frees'[c] = Dropped(frees[c], arg[c])
        /\ \A d \in Command \ {c} : frees'[d] = frees[d]
    <3>1. CASE arg[c] = 1
      <4>1. frees' = [frees EXCEPT ![c]["arg"].pc = "check"]
        BY <1>b, <3>1 DEF ObjectFree
      <4>2. "arg" \in Thread
        BY DEF Thread
      <4> QED BY <1>f, <3>1, <4>1, <4>2 DEF Dropped, Goes
    <3>2. CASE arg[c] # 1
      BY <1>b, <1>t, <3>2 DEF ObjectFree, Dropped
    <3> QED BY <3>1, <3>2
  <2>3. /\ arg[c] - 1 \in 0..2
        /\ Held(query[c], nx, arg[c] - 1, list[c], frees'[c], nt, c, raced)
    <3>1. arg[c] \in 0..2 /\ frees[c] \in [Thread -> Freeing]
      BY <2>1
    <3>2. /\ arg[c] - 1 \in 0..2
          /\ Held(query[c], nx, arg[c] - 1, list[c], Dropped(frees[c], arg[c]), nt, c, raced)
      BY <1>b, <3>1, ObjectFreeHeld, Zenon
    <3> QED BY <2>2, <3>2
  <2>4. arg'[c] = arg[c] - 1
    BY <2>1, <1>t
  <2>5. arg' \in [Command -> 0..2] /\ \A d \in Command \ {c} : arg'[d] = arg[d]
    BY <2>1, <2>3, <1>t
  <2> QED BY <2>2, <2>3, <2>4, <2>5
<1>5. CASE MainFreeBuilder
  <2>1. main.pc = "freeBuilder" /\ UNCHANGED <<query, client, list, raced, exec>>
    BY <1>5 DEF MainFreeBuilder, asking, running
  <2>2. main.pc \in Place
    BY <2>1 DEF Place
  <2>c. PICK c \in Command : main.cmd = c
    BY <1>c, <2>2
  <2>p. PICK p \in {"inObjectFree", "builderFreed"} : main' = [main EXCEPT !.pc = p]
    BY <1>5 DEF MainFreeBuilder
  <2>4. /\ main \in [cmd : Command, pc : Place] /\ exec[c] # "none" /\ client[c] # "new" /\ query[c] \in Query
        /\ At(c) = "freeBuilder"
        /\ Held(query[c], exec[c], arg[c], list[c], frees[c], "freeBuilder", c, raced)
    BY <1>h, <2>1, <2>2, <2>c
  <2>3. main' \in [cmd : Command, pc : Place] /\ main'.cmd = c /\ At(c)' = p
    <3>1. p \in Place
      BY <2>p DEF Place
    <3> QED BY <1>p, <2>1, <2>2, <2>4, <2>c, <2>p, <3>1
  <2>5. ObjectFree(c)
    BY <1>5, <2>c DEF MainFreeBuilder
  <2>6. /\ arg' \in [Command -> 0..2] /\ frees' \in [Command -> [Thread -> Freeing]]
        /\ \A d \in Command \ {c} : arg'[d] = arg[d] /\ frees'[d] = frees[d]
        /\ Held(query[c], exec[c], arg'[c], list[c], frees'[c], p, c, raced)
    BY <1>b, <2>4, <2>5, <2>p
  <2>7. Memory(c)'
    BY <2>1, <2>3, <2>4, <2>6 DEF Memory, MemoryOf
  <2>8. ASSUME NEW d \in Command, d # c PROVE Memory(d)'
    <3>1. At(d)' = At(d)
      BY <1>o, <2>3, <2>8, <2>c
    <3> QED BY <1>m, <2>1, <2>6, <2>8, <3>1, MemoryFrame
  <2>9. MemoryType'
    BY <1>t, <2>1, <2>3, <2>6 DEF MemoryType
  <2> QED BY <1>q, <2>7, <2>8, <2>9
<1>6. CASE MainReturns
  <2>1. main.pc \in {"inObjectFree", "builderFreed"} /\ UNCHANGED <<query, client, arg, list, raced, exec>>
    BY <1>6 DEF MainReturns, asking, running
  <2>2. main.pc \in Place
    BY <2>1 DEF Place
  <2>c. PICK c \in Command : main.cmd = c
    BY <1>c, <2>2
  <2>4. /\ main \in [cmd : Command, pc : Place] /\ exec[c] # "none" /\ client[c] # "new" /\ query[c] \in Query
        /\ Held(query[c], exec[c], arg[c], list[c], frees[c], main.pc, c, raced)
    BY <1>h, <2>2, <2>c
  <2>5. CASE query[c].kind = "queryindex"
    <3>1. main' = [main EXCEPT !.pc = "freePredicates"] /\ frees' = [frees EXCEPT ![c]["main"].pc = "check"]
      BY <1>6, <2>5, <2>c DEF MainReturns
    <3>2. main' \in [cmd : Command, pc : Place] /\ main'.cmd = c /\ At(c)' = "freePredicates"
      <4>1. "freePredicates" \in Place
        BY DEF Place
      <4> QED BY <1>p, <2>4, <2>c, <3>1, <4>1
    <3>3. /\ frees' \in [Command -> [Thread -> Freeing]]
          /\ frees'[c] = [frees[c] EXCEPT !["main"] = [pc |-> "check", read |-> frees[c]["main"].read]]
          /\ \A d \in Command \ {c} : frees'[d] = frees[d]
      <4>1. "main" \in Thread
        BY DEF Thread
      <4> QED BY <1>f, <3>1, <4>1
    <3>4. Held(query[c], exec[c], arg[c], list[c], frees'[c], "freePredicates", c, raced)
      <4>1. frees[c] \in [Thread -> Freeing]
        BY <1>t
      <4> QED BY <2>1, <2>4, <2>5, <3>3, <4>1, OwnerFrees
    <3>5. Memory(c)'
      BY <2>1, <2>4, <3>2, <3>4 DEF Memory, MemoryOf
    <3>6. ASSUME NEW d \in Command, d # c PROVE Memory(d)'
      <4>1. At(d)' = At(d)
        BY <1>o, <3>2, <3>6, <2>c
      <4> QED BY <1>m, <2>1, <3>3, <3>6, <4>1, MemoryFrame
    <3>7. MemoryType'
      BY <1>t, <2>1, <3>2, <3>3 DEF MemoryType
    <3> QED BY <1>q, <3>5, <3>6, <3>7
  <2>6. CASE query[c].kind # "queryindex"
    <3>1. main' = Idle /\ frees' = frees
      BY <1>6, <2>6, <2>c DEF MainReturns
    <3>2. At(c)' = "idle"
      BY <3>1 DEF At, Idle
    <3>3. Held(query[c], exec[c], arg[c], list[c], frees[c], "idle", c, raced)
      BY <2>1, <2>4, <2>6, HeldOn DEF BuilderHolds
    <3>4. Memory(c)'
      BY <2>1, <2>4, <3>1, <3>2, <3>3 DEF Memory, MemoryOf
    <3>5. ASSUME NEW d \in Command, d # c PROVE Memory(d)'
      <4>1. At(d)' = At(d)
        BY <1>o, <3>1, <3>5, <2>c
      <4> QED BY <1>m, <2>1, <3>1, <4>1, MemoryFrame
    <3>6. MemoryType'
      BY <1>t, <2>1, <3>1 DEF MemoryType
    <3> QED BY <1>q, <3>4, <3>5, <3>6
  <2> QED BY <2>5, <2>6
<1>7. CASE MainFreedPredicates
  <2>1. main.pc = "freePredicates" /\ main' = Idle /\ UNCHANGED <<query, client, arg, list, frees, raced, exec>>
    BY <1>7 DEF MainFreedPredicates, asking, memory, running
  <2>2. main.pc \in Place
    BY <2>1 DEF Place
  <2>c. PICK c \in Command : main.cmd = c
    BY <1>c, <2>2
  <2>4. /\ exec[c] # "none" /\ client[c] # "new" /\ query[c] \in Query
        /\ Held(query[c], exec[c], arg[c], list[c], frees[c], "freePredicates", c, raced)
    BY <1>h, <2>1, <2>2, <2>c
  <2>5. Held(query[c], exec[c], arg[c], list[c], frees[c], "idle", c, raced)
    BY <2>4, HeldOn DEF BuilderHolds, ListHeld
  <2>6. At(c)' = "idle"
    BY <2>1 DEF At, Idle
  <2>7. Memory(c)'
    BY <2>1, <2>4, <2>5, <2>6 DEF Memory, MemoryOf
  <2>8. ASSUME NEW d \in Command, d # c PROVE Memory(d)'
    <3>1. At(d)' = At(d)
      BY <1>o, <2>1, <2>8, <2>c
    <3> QED BY <1>m, <2>1, <3>1, MemoryFrame
  <2>9. MemoryType'
    BY <1>t, <2>1 DEF MemoryType
  <2> QED BY <1>q, <2>7, <2>8, <2>9
\* A command whose execution was begun, on any thread.
<1>r. ASSUME NEW c \in Command, exec[c] # "none"
      PROVE  /\ client[c] # "new" /\ query[c] \in Query
             /\ Held(query[c], exec[c], arg[c], list[c], frees[c], At(c), c, raced)
  <2>1. Memory(c)
    BY <1>m, <1>r
  <2> QED BY <1>r, <2>1 DEF Memory, MemoryOf
<1>w. ASSUME NEW c \in Command, NEW th \in Thread, frees[c][th].pc # "no" PROVE exec[c] # "none"
  BY <1>m, <1>w DEF Memory, MemoryOf, Unheld, NotFreeing
<1>8. ASSUME NEW c \in Command, NEW th \in Thread, FreeTest(c, th) PROVE MemoryType' /\ MemoryInv'
  <2>1. /\ frees[c][th].pc = "check" /\ UNCHANGED <<main, query, client, arg, exec>>
        /\ raced' = IF \E other \in Thread \ {th} : frees[c][other].pc = "dec" THEN raced \cup {c} ELSE raced
    BY <1>8 DEF FreeTest, asking, running
  <2>2. /\ exec[c] # "none" /\ client[c] # "new" /\ query[c] \in Query
        /\ Held(query[c], exec[c], arg[c], list[c], frees[c], At(c), c, raced)
    BY <1>r, <1>w, <2>1
  <2>3. list[c] \in Predicates /\ frees[c] \in [Thread -> Freeing]
    BY <1>t
  <2>4. /\ frees' \in [Command -> [Thread -> Freeing]] /\ list' \in [Command -> Predicates]
        /\ \A d \in Command \ {c} : frees'[d] = frees[d] /\ list'[d] = list[d]
        /\ IF list[c].ref > 1
           THEN frees'[c] = [frees[c] EXCEPT ![th] = [pc |-> "dec", read |-> list[c].ref]] /\ list'[c] = list[c]
           ELSE /\ frees'[c] = [frees[c] EXCEPT ![th] = [pc |-> "end", read |-> frees[c][th].read]]
                /\ list'[c].ref = list[c].ref /\ list'[c].freed
    <3>1. CASE list[c].ref > 1
      <4>1. PICK f : f = [pc |-> "dec", read |-> list[c].ref]
        OBVIOUS
      <4>2. f \in Freeing
        BY <2>3, <4>1 DEF Predicates, Freeing
      <4>3. frees' = FreesPut(frees, c, th, f) /\ list' = list
        BY <1>8, <3>1, <4>1 DEF FreeTest, FreesPut
      <4>4. frees' \in [Command -> [Thread -> Freeing]]
        BY <4>2, <4>3, <1>t, FreesPutFacts
      <4>5. frees'[c] = [frees[c] EXCEPT ![th] = f] /\ \A d \in Command \ {c} : frees'[d] = frees[d]
        BY <4>3, <1>t DEF FreesPut
      <4> QED BY <3>1, <4>1, <4>3, <4>4, <4>5, <1>t
    <3>2. CASE ~(list[c].ref > 1)
      <4>1. frees' = [frees EXCEPT ![c][th].pc = "end"] /\ list' = FreedSet(list, c)
        BY <1>8, <3>2 DEF FreeTest, FreedSet
      <4>2. /\ frees' \in [Command -> [Thread -> Freeing]]
            /\ frees'[c] = [frees[c] EXCEPT ![th] = [pc |-> "end", read |-> frees[c][th].read]]
            /\ \A d \in Command \ {c} : frees'[d] = frees[d]
        BY <1>f, <4>1
      <4>3. PICK l : l = [ref |-> list[c].ref, freed |-> TRUE]
        OBVIOUS
      <4>4. l \in Predicates /\ l.ref = list[c].ref /\ l.freed
        BY <2>3, <4>3 DEF Predicates
      <4>5. list' = [list EXCEPT ![c] = l]
        BY <4>1, <4>3, <1>t, ListUpdates
      <4>6. list' \in [Command -> Predicates] /\ list'[c] = l /\ \A d \in Command \ {c} : list'[d] = list[d]
        BY <4>4, <4>5, <1>t
      <4> QED BY <3>2, <4>2, <4>4, <4>6
    <3> QED BY <3>1, <3>2
  <2>5. Held(query[c], exec[c], arg[c], list'[c], frees'[c], At(c), c, raced')
    <3>1. list'[c] \in Predicates /\ frees'[c] \in [Thread -> Freeing]
      BY <2>4
    <3> QED BY <2>1, <2>2, <2>3, <2>4, <3>1, FreeTestHeld
  <2>6. At(c)' = At(c)
    BY <2>1 DEF At
  <2>7. Memory(c)'
    BY <2>1, <2>2, <2>5, <2>6 DEF Memory, MemoryOf
  <2>8. ASSUME NEW d \in Command, d # c PROVE Memory(d)'
    <3>1. At(d)' = At(d)
      BY <2>1 DEF At
    <3>2. d \in raced' <=> d \in raced
      BY <2>1, <2>8
    <3> QED BY <1>m, <2>1, <2>4, <2>8, <3>1, <3>2, MemoryFrame
  <2>9. MemoryType'
    BY <1>t, <2>1, <2>4 DEF MemoryType
  <2> QED BY <1>q, <2>7, <2>8, <2>9
<1>9. ASSUME NEW c \in Command, NEW th \in Thread, FreeDecrement(c, th) PROVE MemoryType' /\ MemoryInv'
  <2>1. /\ frees[c][th].pc = "dec" /\ UNCHANGED <<main, query, client, arg, exec, raced>>
        /\ frees' = [frees EXCEPT ![c][th].pc = "end"]
    BY <1>9 DEF FreeDecrement, asking, running
  <2>2. /\ exec[c] # "none" /\ client[c] # "new" /\ query[c] \in Query
        /\ Held(query[c], exec[c], arg[c], list[c], frees[c], At(c), c, raced)
    BY <1>r, <1>w, <2>1
  <2>3. list[c] \in Predicates /\ frees[c] \in [Thread -> Freeing]
    BY <1>t
  <2>r. PICK r \in {list[c].ref, frees[c][th].read} : list' = RefSet(list, c, r - 1)
    BY <1>9 DEF FreeDecrement, RefSet
  <2>l. PICK l : l = Decremented(list[c], r)
    OBVIOUS
  <2>4. /\ frees' \in [Command -> [Thread -> Freeing]]
        /\ frees'[c] = Goes(frees[c], th, "end")
        /\ \A d \in Command \ {c} : frees'[d] = frees[d]
    BY <1>f, <2>1 DEF Goes
  <2>5. l \in Predicates /\ Held(query[c], exec[c], arg[c], l, frees'[c], At(c), c, raced)
    <3>1. frees[c][th].pc = "dec" /\ r \in {list[c].ref, frees[c][th].read}
      BY <2>1, <2>r
    <3>2. /\ Decremented(list[c], r) \in Predicates
          /\ Held(query[c], exec[c], arg[c], Decremented(list[c], r), Goes(frees[c], th, "end"), At(c), c, raced)
      BY <2>2, <2>3, <3>1, FreeDecrementHeld, Zenon
    <3> QED BY <2>4, <2>l, <3>2
  <2>6. list' \in [Command -> Predicates] /\ list'[c] = l /\ \A d \in Command \ {c} : list'[d] = list[d]
    <3>1. list' = [list EXCEPT ![c] = l]
      BY <2>r, <2>l, <1>t, ListUpdates DEF Decremented
    <3> QED BY <2>5, <3>1, <1>t
  <2>7. At(c)' = At(c)
    BY <2>1 DEF At
  <2>8. Memory(c)'
    BY <2>1, <2>2, <2>5, <2>6, <2>7 DEF Memory, MemoryOf
  <2>9. ASSUME NEW d \in Command, d # c PROVE Memory(d)'
    <3>1. At(d)' = At(d)
      BY <2>1 DEF At
    <3> QED BY <1>m, <2>1, <2>4, <2>6, <2>9, <3>1, MemoryFrame
  <2>10. MemoryType'
    BY <1>t, <2>1, <2>4, <2>6 DEF MemoryType
  <2> QED BY <1>q, <2>8, <2>9, <2>10
<1>10. ASSUME NEW c \in Command, NEW s \in Shard, Send(c, s) \/ Read(c, s) \/ ReadEnds(c, s) \/ Collect(c, s)
       PROVE  MemoryType' /\ MemoryInv'
  BY <1>10, <1>0 DEF Send, Read, ReadEnds, Collect, asking
<1>11. ASSUME NEW c \in Command, Fail(c) PROVE MemoryType' /\ MemoryInv'
  BY <1>11, <1>0 DEF Fail, asking
<1>12. ASSUME NEW c \in Command, Done(c) PROVE MemoryType' /\ MemoryInv'
  <2>1. /\ exec[c] = "running" /\ exec' = [exec EXCEPT ![c] = "done"]
        /\ UNCHANGED <<main, query, client, arg, list, raced>>
    BY <1>12 DEF Done
  <2>2. /\ client[c] # "new" /\ query[c] \in Query
        /\ Held(query[c], "running", arg[c], list[c], frees[c], At(c), c, raced)
    BY <1>r, <2>1
  <2>3. /\ frees' \in [Command -> [Thread -> Freeing]]
        /\ \A d \in Command \ {c} : frees'[d] = frees[d]
        /\ Held(query[c], "done", arg[c], list[c], frees'[c], At(c), c, raced)
    <3>1. CASE query[c].kind = "mrange"
      <4>1. frees' = [frees EXCEPT ![c]["done"].pc = "check"]
        BY <1>12, <3>1 DEF Done
      <4>2. /\ frees' \in [Command -> [Thread -> Freeing]]
            /\ frees'[c] = [frees[c] EXCEPT !["done"] = [pc |-> "check", read |-> frees[c]["done"].read]]
            /\ \A d \in Command \ {c} : frees'[d] = frees[d]
        <5>1. "done" \in Thread
          BY DEF Thread
        <5> QED BY <1>f, <4>1, <5>1
      <4>3. frees[c] \in [Thread -> Freeing]
        BY <1>t
      <4> QED BY <2>2, <3>1, <4>2, <4>3, OwnerFrees
    <3>2. CASE query[c].kind # "mrange"
      <4>1. frees' = frees
        BY <1>12, <3>2 DEF Done
      <4> QED BY <1>t, <2>2, <3>2, <4>1, HeldOn
    <3> QED BY <3>1, <3>2
  <2>4. ASSUME NEW d \in Command PROVE At(d)' = At(d)
    BY <2>1 DEF At
  <2>5. exec'[c] = "done" /\ exec' \in [Command -> {"none", "running", "done", "freed"}]
        /\ \A d \in Command \ {c} : exec'[d] = exec[d]
    BY <2>1, <1>t
  <2>6. Memory(c)'
    BY <2>1, <2>2, <2>3, <2>4, <2>5 DEF Memory, MemoryOf
  <2>7. ASSUME NEW d \in Command, d # c PROVE Memory(d)'
    BY <1>m, <2>1, <2>3, <2>4, <2>5, <2>7, MemoryFrame
  <2>8. MemoryType'
    BY <1>t, <2>1, <2>3, <2>5 DEF MemoryType
  <2> QED BY <1>q, <2>6, <2>7, <2>8
<1>13. ASSUME NEW c \in Command, Unblock(c) \/ Answer(c) PROVE MemoryType' /\ MemoryInv'
  <2>p. PICK p \in {"unblocked", "answered"} : client' = [client EXCEPT ![c] = p]
    BY <1>13 DEF Unblock, Answer
  <2>1. UNCHANGED <<main, query, arg, list, frees, raced, exec>> /\ client[c] \in {"blocked", "unblocked"}
    BY <1>13 DEF Unblock, Answer, memory, running
  <2>2. exec[c] # "none"
    <3>1. Memory(c)
      BY <1>m
    <3> QED BY <2>1, <3>1 DEF Memory, MemoryOf, Unheld
  <2>3. /\ query[c] \in Query
        /\ Held(query[c], exec[c], arg[c], list[c], frees[c], At(c), c, raced)
    BY <1>r, <2>2
  <2>4. ASSUME NEW d \in Command PROVE At(d)' = At(d)
    BY <2>1 DEF At
  <2>5. client'[c] # "new" /\ client' \in [Command -> {"new", "blocked", "unblocked", "answered"}]
        /\ \A d \in Command \ {c} : client'[d] = client[d]
    BY <2>p, <1>t
  <2>6. Memory(c)'
    BY <2>1, <2>2, <2>3, <2>4, <2>5 DEF Memory, MemoryOf
  <2>7. ASSUME NEW d \in Command, d # c PROVE Memory(d)'
    BY <1>m, <2>1, <2>4, <2>5, <2>7, MemoryFrame
  <2>8. MemoryType'
    BY <1>t, <2>1, <2>5 DEF MemoryType
  <2> QED BY <1>q, <2>6, <2>7, <2>8
<1>14. ASSUME NEW c \in Command, ExecutionFree(c) PROVE MemoryType' /\ MemoryInv'
  <2>1. /\ exec[c] = "done" /\ exec' = [exec EXCEPT ![c] = "freed"]
        /\ UNCHANGED <<main, query, client, list, raced>> /\ ObjectFree(c)
    BY <1>14 DEF ExecutionFree, asking
  <2>2. /\ client[c] # "new" /\ query[c] \in Query
        /\ Held(query[c], exec[c], arg[c], list[c], frees[c], At(c), c, raced)
    BY <1>r, <2>1
  <2>3. /\ arg' \in [Command -> 0..2] /\ frees' \in [Command -> [Thread -> Freeing]]
        /\ \A d \in Command \ {c} : arg'[d] = arg[d] /\ frees'[d] = frees[d]
        /\ Held(query[c], "freed", arg'[c], list[c], frees'[c], At(c), c, raced)
    BY <1>b, <2>1, <2>2
  <2>4. ASSUME NEW d \in Command PROVE At(d)' = At(d)
    BY <2>1 DEF At
  <2>5. exec'[c] = "freed" /\ exec' \in [Command -> {"none", "running", "done", "freed"}]
        /\ \A d \in Command \ {c} : exec'[d] = exec[d]
    BY <2>1, <1>t
  <2>6. Memory(c)'
    BY <2>1, <2>2, <2>3, <2>4, <2>5 DEF Memory, MemoryOf
  <2>7. ASSUME NEW d \in Command, d # c PROVE Memory(d)'
    BY <1>m, <2>1, <2>3, <2>4, <2>5, <2>7, MemoryFrame
  <2>8. MemoryType'
    BY <1>t, <2>1, <2>3, <2>5 DEF MemoryType
  <2> QED BY <1>q, <2>6, <2>7, <2>8
<1>15. CASE UNCHANGED vars
  BY <1>15, <1>0 DEF vars, asking, memory, running
<1>16. ASSUME NEW c \in Command, ExecutionStep(c) PROVE MemoryType' /\ MemoryInv'
  BY <1>16, <1>8, <1>9, <1>10, <1>12, <1>13, <1>14 DEF ExecutionStep
<1>17. CASE MainStep
  BY <1>17, <1>4, <1>5, <1>6, <1>7 DEF MainStep
<1> QED BY <1>1, <1>2, <1>3, <1>11, <1>15, <1>16, <1>17 DEF Next

----------------------------------------------------------------------------
(***************************************************************************)
(* The data: what a well-formed series is, and what its readers make of it *)
(***************************************************************************)
\* The last chunk has the newest sample, unless there is none.
LEMMA LastSample ==
  ASSUME NEW v, WellFormed(v)
  PROVE  /\ SamplesOf(v) \subseteq Time
         /\ SamplesOf(v) = {} <=> v.chunks[Len(v.chunks)] = <<>>
         /\ SamplesOf(v) # {} => LastTimestamp(v) \in SamplesOf(v)
         /\ \A t \in SamplesOf(v) : t <= LastTimestamp(v)
         /\ LastTimestamp(v) \in Time
<1> DEFINE ch == v.chunks
           n == Len(ch)
<1>1. ch \in Seq(Seq(Time)) /\ n \in Nat \ {0} /\ ch[n] \in Seq(Time) /\ DOMAIN ch = 1..n
  BY DEF WellFormed, Series
<1>2. \A i \in DOMAIN ch : ch[i] \in Seq(Time) /\ DOMAIN ch[i] = 1..Len(ch[i])
  BY <1>1
<1>m. \A t : t \in SamplesOf(v) <=> \E i \in DOMAIN ch : \E m \in DOMAIN ch[i] : t = ch[i][m]
  BY DEF SamplesOf, Range
<1>4. SamplesOf(v) \subseteq Time
  BY <1>2, <1>m
<1>5. CASE ch[n] = <<>>
  <2>1. n = 1
    <3>1. n \in DOMAIN ch
      BY <1>1
    <3>2. \A i \in DOMAIN ch : ch[i] = <<>> => n = 1
      BY DEF WellFormed
    <3> QED BY <1>5, <3>1, <3>2
  <2>2. SamplesOf(v) = {}
    BY <1>1, <1>5, <1>m, <2>1
  <2> QED BY <1>5, <2>2, BoundAssumption DEF LastTimestamp, Time
<1>6. CASE ch[n] # <<>>
  <2> DEFINE z == ch[n][Len(ch[n])]
  <2>1. Len(ch[n]) \in DOMAIN ch[n] /\ n \in DOMAIN ch
    BY <1>1, <1>2, <1>6
  <2>2. z \in SamplesOf(v)
    BY <1>m, <2>1
  <2>3. \A t \in SamplesOf(v) : t <= z
    <3> SUFFICES ASSUME NEW t \in SamplesOf(v) PROVE t <= z
      OBVIOUS
    <3>1. PICK i \in DOMAIN ch : \E m \in DOMAIN ch[i] : t = ch[i][m]
      BY <1>m
    <3>2. PICK m \in DOMAIN ch[i] : t = ch[i][m]
      BY <3>1
    <3>3. t \in Int /\ z \in Int
      BY <1>4, <2>2 DEF Time
    <3>4. i < n \/ (i = n /\ m < Len(ch[n])) \/ (i = n /\ m = Len(ch[n]))
      BY <1>1, <1>2, <3>1, <3>2
    <3>5. i < n \/ (i = n /\ m < Len(ch[n])) => t < z
      BY <2>1, <3>2 DEF WellFormed
    <3> QED BY <3>2, <3>3, <3>4, <3>5
  <2>4. Max(SamplesOf(v)) \in SamplesOf(v) /\ \A t \in SamplesOf(v) : Max(SamplesOf(v)) >= t
    <3>1. \A t \in SamplesOf(v) : z >= t
      BY <1>4, <2>2, <2>3 DEF Time
    <3>2. \E x \in SamplesOf(v) : \A t \in SamplesOf(v) : x >= t
      BY <2>2, <3>1
    <3> QED BY <3>2 DEF Max
  <2> QED BY <1>4, <1>6, <2>2, <2>4 DEF LastTimestamp, Time
<1> QED BY <1>5, <1>6

\* What clients' writes make of a series is well-formed too.
LEMMA AppendedWellFormed ==
  ASSUME NEW v, WellFormed(v), v.open < 0, LastTimestamp(v) < MaxTime
  PROVE  WellFormed(Appended(v))
<1> DEFINE ch == v.chunks
           n == Len(ch)
           t == LastTimestamp(v) + 1
           w == Appended(v)
<1>1. /\ ch \in Seq(Seq(Time)) /\ n \in Nat \ {0} /\ ch[n] \in Seq(Time) /\ DOMAIN ch = 1..n
      /\ v = [chunks |-> ch, open |-> v.open] /\ v.open = -1
  BY DEF WellFormed, Series, Time
<1>2. \A i \in DOMAIN ch : ch[i] \in Seq(Time) /\ DOMAIN ch[i] = 1..Len(ch[i])
  BY <1>1
<1>3. t \in Time /\ \A i \in DOMAIN ch : \A m \in DOMAIN ch[i] : ch[i][m] < t /\ ch[i][m] \in Time
  <2>1. t \in Time
    BY LastSample, BoundAssumption DEF Time
  <2>2. ASSUME NEW i \in DOMAIN ch, NEW m \in DOMAIN ch[i] PROVE ch[i][m] < t /\ ch[i][m] \in Time
    <3>1. ch[i][m] \in SamplesOf(v)
      BY DEF SamplesOf, Range
    <3>2. ch[i][m] \in Time /\ ch[i][m] <= LastTimestamp(v) /\ LastTimestamp(v) \in Time
      BY <3>1, LastSample
    <3> QED BY <3>2 DEF Time
  <2> QED BY <2>1, <2>2
<1>4. /\ \A i, j \in DOMAIN ch : \A m \in DOMAIN ch[i], k \in DOMAIN ch[j] :
           i < j \/ (i = j /\ m < k) => ch[i][m] < ch[j][k]
      /\ \A i \in DOMAIN ch : ch[i] = <<>> => n = 1
  BY DEF WellFormed
<1>5. CASE Len(ch[n]) < ChunkLen
  <2> DEFINE c2 == [ch EXCEPT ![n] = Append(ch[n], t)]
  <2>1. w = [v EXCEPT !.chunks = c2]
    BY <1>5 DEF Appended
  <2>2. w = [chunks |-> c2, open |-> -1]
    BY <1>1, <2>1
  <2>3. Append(ch[n], t) \in Seq(Time) /\ Len(Append(ch[n], t)) = Len(ch[n]) + 1
    BY <1>1, <1>3
  <2>4. /\ c2 \in Seq(Seq(Time)) /\ Len(c2) = n /\ DOMAIN c2 = DOMAIN ch
        /\ \A i \in DOMAIN ch : c2[i] = IF i = n THEN Append(ch[n], t) ELSE ch[i]
    BY <1>1, <2>3
  <2>5. \A i \in DOMAIN c2 : c2[i] = <<>> => Len(c2) = 1
    BY <1>4, <2>3, <2>4
  <2>6. ASSUME NEW i \in DOMAIN c2, NEW j \in DOMAIN c2, NEW m \in DOMAIN c2[i], NEW k \in DOMAIN c2[j],
               i < j \/ (i = j /\ m < k)
        PROVE  c2[i][m] < c2[j][k]
    <3>1. i \in DOMAIN ch /\ j \in DOMAIN ch /\ i \in 1..n /\ j \in 1..n
      BY <1>1, <2>4, <2>6
    <3>2. c2[i][m] = (IF i = n /\ m = Len(ch[n]) + 1 THEN t ELSE ch[i][m])
          /\ (~(i = n /\ m = Len(ch[n]) + 1) => m \in DOMAIN ch[i])
      BY <1>1, <1>2, <2>3, <2>4, <2>6, <3>1
    <3>3. c2[j][k] = (IF j = n /\ k = Len(ch[n]) + 1 THEN t ELSE ch[j][k])
          /\ (~(j = n /\ k = Len(ch[n]) + 1) => k \in DOMAIN ch[j])
      BY <1>1, <1>2, <2>3, <2>4, <2>6, <3>1
    <3>4. k \in Int /\ m \in Int /\ (j = n => k <= Len(ch[n]) + 1) /\ (i = n => m <= Len(ch[n]) + 1)
      BY <1>1, <1>2, <2>3, <2>4, <2>6, <3>1
    <3>5. ~(i = n /\ m = Len(ch[n]) + 1)
      BY <2>6, <3>1, <3>4, <1>1
    <3> QED BY <1>3, <1>4, <2>6, <3>1, <3>2, <3>3, <3>5
  <2>7. w \in Series /\ c2 # <<>>
    BY <1>1, <2>2, <2>4 DEF Series, Time
  <2> HIDE DEF c2, w
  <2>8. w.chunks = c2 /\ w.open = -1
    BY <2>2
  <2> QED BY <2>5, <2>6, <2>7, <2>8 DEF WellFormed, w
<1>6. CASE ~(Len(ch[n]) < ChunkLen)
  <2> DEFINE c2 == Append(ch, <<t>>)
  <2>1. w = [v EXCEPT !.chunks = c2]
    BY <1>6 DEF Appended
  <2>2. w = [chunks |-> c2, open |-> -1]
    BY <1>1, <2>1
  <2>3. <<t>> \in Seq(Time) /\ Len(<<t>>) = 1 /\ <<t>>[1] = t /\ <<t>> # <<>> /\ DOMAIN <<t>> = {1}
    BY <1>3
  <2>4. /\ c2 \in Seq(Seq(Time)) /\ Len(c2) = n + 1 /\ DOMAIN c2 = 1..n+1
        /\ \A i \in 1..n : c2[i] = ch[i]
        /\ c2[n+1] = <<t>>
    BY <1>1, <2>3
  <2>5. ch[n] # <<>>
    BY <1>1, <1>6, BoundAssumption
  <2>6. \A i \in DOMAIN ch : ch[i] # <<>>
    <3>1. n = 1 => \A i \in DOMAIN ch : i = n
      BY <1>1
    <3> QED BY <1>4, <2>5, <3>1
  <2>7. \A i \in DOMAIN c2 : c2[i] = <<>> => Len(c2) = 1
    BY <1>1, <2>3, <2>4, <2>6
  <2>8. ASSUME NEW i \in DOMAIN c2, NEW j \in DOMAIN c2, NEW m \in DOMAIN c2[i], NEW k \in DOMAIN c2[j],
               i < j \/ (i = j /\ m < k)
        PROVE  c2[i][m] < c2[j][k]
    <3>1. i \in 1..n
      <4>1. i = n + 1 => j = n + 1 /\ m = 1 /\ k = 1
        BY <1>1, <2>3, <2>4, <2>8
      <4> QED BY <1>1, <2>4, <2>8, <4>1
    <3>2. c2[i][m] = ch[i][m] /\ m \in DOMAIN ch[i] /\ i \in DOMAIN ch
      BY <1>1, <2>4, <2>8, <3>1
    <3>3. CASE j \in 1..n
      BY <1>1, <1>4, <2>4, <2>8, <3>2, <3>3
    <3>4. CASE j = n + 1
      <4>1. c2[j][k] = t
        BY <2>3, <2>4, <2>8, <3>4
      <4> QED BY <1>3, <3>2, <4>1
    <3> QED BY <1>1, <2>4, <3>3, <3>4
  <2> HIDE DEF c2, w
  <2>9. w \in Series /\ c2 # <<>>
    BY <1>1, <2>2, <2>4 DEF Series
  <2>10. w.chunks = c2 /\ w.open = -1
    BY <2>2
  <2> QED BY <2>7, <2>8, <2>9, <2>10 DEF WellFormed, w
<1> QED BY <1>5, <1>6

LEMMA ChangesData == ASSUME NEW v \in Data, NEW w \in Changes(v) PROVE w \in Data
<1>1. ASSUME NEW u \in Time \cup {-1} PROVE WellFormed([chunks |-> <<<<>>>>, open |-> u])
  <2> DEFINE x == [chunks |-> <<<<>>>>, open |-> u]
  <2>1. <<<<>>>> \in Seq(Seq(Time)) /\ Len(<<<<>>>>) = 1 /\ <<<<>>>>[1] = <<>> /\ DOMAIN <<<<>>>> = {1} /\ <<<<>>>> # <<>>
    OBVIOUS
  <2>2. x \in Series /\ x.chunks = <<<<>>>>
    BY <2>1 DEF Series
  <2>3. \A m \in DOMAIN <<>> : FALSE
    OBVIOUS
  <2> QED BY <2>1, <2>2, <2>3 DEF WellFormed
<1>2. CASE v \in {NoSeries, NotSeries}
  <2>1. w = NoSeries \/ w = [chunks |-> <<<<>>>>, open |-> -1]
    BY <1>2, MarkerAssumption DEF Changes
  <2> QED BY <1>1, <2>1 DEF Data, WellFormed
<1>3. CASE v \notin {NoSeries, NotSeries}
  <2>1. WellFormed(v) /\ v \in Series
    BY <1>3 DEF Data
  <2>2. \/ w \in {NoSeries, NotSeries}
        \/ w = [v EXCEPT !.chunks = <<<<>>>>]
        \/ w = Appended(v) /\ v.open < 0 /\ LastTimestamp(v) < MaxTime
    BY <1>3 DEF Changes
  <2>3. [v EXCEPT !.chunks = <<<<>>>>] = [chunks |-> <<<<>>>>, open |-> v.open] /\ v.open \in Time \cup {-1}
    BY <2>1 DEF Series
  <2>4. WellFormed([v EXCEPT !.chunks = <<<<>>>>])
    BY <1>1, <2>3
  <2>5. w \in {NoSeries, NotSeries} \/ WellFormed(w)
    BY <2>1, <2>2, <2>4, AppendedWellFormed
  <2>6. WellFormed(w) => w \in Series
    BY DEF WellFormed
  <2> QED BY <2>5, <2>6 DEF Data
<1> QED BY <1>2, <1>3

\* The newest sample is the one TS.MGET is after.
LEMMA LastExact ==
  ASSUME NEW v, WellFormed(v)
  PROVE  {t \in SamplesOf(v) : \A u \in SamplesOf(v) : u <= t} =
           IF SamplesOf(v) = {} THEN {} ELSE {LastTimestamp(v)}
<1>1. /\ SamplesOf(v) \subseteq Time
      /\ SamplesOf(v) # {} => LastTimestamp(v) \in SamplesOf(v)
      /\ \A t \in SamplesOf(v) : t <= LastTimestamp(v)
  BY LastSample
<1>2. CASE SamplesOf(v) = {}
  BY <1>2
<1>3. CASE SamplesOf(v) # {}
  <2>1. LastTimestamp(v) \in SamplesOf(v)
    BY <1>1, <1>3
  <2>2. ASSUME NEW t \in SamplesOf(v), \A u \in SamplesOf(v) : u <= t PROVE t = LastTimestamp(v)
    BY <1>1, <2>1, <2>2 DEF Time
  <2> QED BY <1>1, <1>3, <2>1, <2>2
<1> QED BY <1>2, <1>3

\* A record of TS.MRANGE: cutting chunks off and filing the rest by first timestamps
\* loses no sample of the range, and adds none.
LEMMA RangeExact ==
  ASSUME NEW q \in Query, NEW v, WellFormed(v)
  PROVE  RangeOfRecord(q, RecordChunks(q, v)) =
           {t \in SamplesOf(v) \cup (IF q.latest /\ q.end > 0 THEN {v.open} ELSE {}) :
              q.start <= t /\ t <= q.end}
<1> DEFINE ch == v.chunks
           n == Len(ch)
           Ends(i) == \/ ch[i] = <<>>
                      \/ Kept(q, ch[i]) /\ ch[i][1] > q.end
           kept == {i \in DOMAIN ch : (\A j \in 1..i : ~Ends(j)) /\ Kept(q, ch[i])}
           behind == {n + 1 : t \in Latest(q, v)}
           r == RecordChunks(q, v)
<1>1. /\ ch \in Seq(Seq(Time)) /\ n \in Nat \ {0} /\ DOMAIN ch = 1..n
      /\ v.open \in Time \cup {-1} /\ q.start \in Time /\ q.end \in Time
  BY QueryAssumption DEF WellFormed, Series
<1>2. \A i \in DOMAIN ch : ch[i] \in Seq(Time) /\ DOMAIN ch[i] = 1..Len(ch[i]) /\ Len(ch[i]) \in Nat
  BY <1>1
<1>3. /\ \A i, j \in DOMAIN ch : \A m \in DOMAIN ch[i], k \in DOMAIN ch[j] :
           i < j \/ (i = j /\ m < k) => ch[i][m] < ch[j][k]
      /\ \A i \in DOMAIN ch : ch[i] = <<>> => n = 1
      /\ v.open # -1 => \A i \in DOMAIN ch : \A m \in DOMAIN ch[i] : ch[i][m] < v.open
  BY DEF WellFormed
<1>4. \A i \in DOMAIN ch : \A m \in DOMAIN ch[i] : ch[i][m] \in Time
  BY <1>2
<1>5. \A t : t \in SamplesOf(v) <=> \E i \in DOMAIN ch : \E m \in DOMAIN ch[i] : t = ch[i][m]
  BY DEF SamplesOf, Range
<1>6. r = [i \in kept \cup behind |-> IF i \in kept THEN ch[i] ELSE <<v.open>>]
  BY DEF RecordChunks
<1>7. \A i \in kept : ch[i] # <<>> /\ 1 \in DOMAIN ch[i] /\ i \in DOMAIN ch
  <2> SUFFICES ASSUME NEW i \in kept PROVE ch[i] # <<>> /\ 1 \in DOMAIN ch[i] /\ i \in DOMAIN ch
    OBVIOUS
  <2>1. i \in DOMAIN ch /\ ~Ends(i)
    BY <1>1
  <2> QED BY <1>2, <2>1
<1>8. \A i \in behind : i = n + 1 /\ q.latest /\ v.open >= 0 /\ v.open <= q.end /\ q.end > LastTimestamp(v)
  <2>1. ASSUME NEW t \in Latest(q, v)
        PROVE  q.latest /\ v.open >= 0 /\ v.open <= q.end /\ q.end > LastTimestamp(v)
    BY <2>1, <1>1, BoundAssumption DEF Latest, Time
  <2> QED BY <2>1
<1>9. /\ DOMAIN r = kept \cup behind
      /\ \A i \in kept : r[i] = ch[i]
      /\ \A i \in behind : r[i] = <<v.open>> /\ r[i][1] = v.open /\ i \notin kept
  <2>1. \A i \in behind : i \notin kept
    BY <1>1, <1>8
  <2> HIDE DEF kept, behind, r
  <2> QED BY <1>6, <2>1
<1> HIDE DEF r, behind
\* Every chunk of a record is filed.
<1>10. \A i, j \in DOMAIN r : j < i => r[j][1] # r[i][1]
  <2> SUFFICES ASSUME NEW i \in DOMAIN r, NEW j \in DOMAIN r, j < i PROVE r[j][1] # r[i][1]
    OBVIOUS
  <2>1. j \in kept
    BY <1>1, <1>7, <1>8, <1>9
  <2>2. r[j][1] = ch[j][1] /\ 1 \in DOMAIN ch[j] /\ j \in DOMAIN ch /\ ch[j][1] \in Time
    BY <1>4, <1>7, <1>9, <2>1
  <2>3. CASE i \in kept
    <3>1. r[i][1] = ch[i][1] /\ 1 \in DOMAIN ch[i] /\ i \in DOMAIN ch /\ ch[i][1] \in Time
      BY <1>4, <1>7, <1>9, <2>3
    <3>2. ch[j][1] < ch[i][1]
      BY <1>3, <2>2, <3>1
    <3> QED BY <2>2, <3>1, <3>2 DEF Time
  <2>4. CASE i \in behind
    <3>1. r[i][1] = v.open /\ v.open # -1 /\ v.open \in Time
      BY <1>1, <1>8, <1>9, <2>4
    <3>2. ch[j][1] < v.open
      BY <1>3, <2>2, <3>1
    <3> QED BY <2>2, <3>1, <3>2 DEF Time
  <2> QED BY <1>9, <2>3, <2>4
<1>11. RangeOfRecord(q, r) = {t \in UNION {Range(r[i]) : i \in DOMAIN r} : q.start <= t /\ t <= q.end}
  <2>1. {i \in DOMAIN r : \A j \in DOMAIN r : j < i => r[j][1] # r[i][1]} = DOMAIN r
    BY <1>10
  <2> QED BY <2>1 DEF RangeOfRecord
\* What is in it.
<1>12. ASSUME NEW t, NEW i \in DOMAIN r, t \in Range(r[i]), q.start <= t, t <= q.end
       PROVE  t \in SamplesOf(v) \/ (q.latest /\ q.end > 0 /\ t = v.open)
  <2>1. CASE i \in kept
    BY <1>5, <1>7, <1>9, <1>12, <2>1 DEF Range
  <2>2. CASE i \in behind
    <3>1. t = v.open
      BY <1>9, <1>12, <2>2 DEF Range
    <3>2. LastTimestamp(v) \in Time
      BY LastSample
    <3> QED BY <1>1, <1>8, <2>2, <3>1, <3>2 DEF Time
  <2> QED BY <1>9, <2>1, <2>2
\* What has to be.
<1>13. ASSUME NEW t \in SamplesOf(v), q.start <= t, t <= q.end
       PROVE  \E i \in DOMAIN r : t \in Range(r[i])
  <2>1. PICK i \in DOMAIN ch : \E m \in DOMAIN ch[i] : t = ch[i][m]
    BY <1>5, <1>13
  <2>2. PICK m \in DOMAIN ch[i] : t = ch[i][m]
    BY <2>1
  <2>3. t \in Time /\ m \in 1..Len(ch[i]) /\ ch[i] # <<>> /\ i \in 1..n
    BY <1>1, <1>2, <1>4, <2>1, <2>2
  <2>4. Kept(q, ch[i])
    <3>1. Len(ch[i]) \in DOMAIN ch[i] /\ Last(ch[i]) = ch[i][Len(ch[i])]
      BY <1>2, <2>1, <2>3 DEF Last
    <3>2. m = Len(ch[i]) \/ ch[i][m] < ch[i][Len(ch[i])]
      <4>1. m = Len(ch[i]) \/ m < Len(ch[i])
        BY <1>2, <2>1, <2>3
      <4> HIDE DEF ch
      <4>2. m < Len(ch[i]) => ch[i][m] < ch[i][Len(ch[i])]
        BY <1>3, <2>1, <2>2, <3>1
      <4> QED BY <4>1, <4>2
    <3>3. ch[i][Len(ch[i])] \in Time
      BY <1>4, <2>1, <3>1
    <3> QED BY <1>1, <1>13, <2>2, <2>3, <3>1, <3>2, <3>3 DEF Kept, Time
  <2>5. ASSUME NEW j \in 1..i PROVE ~Ends(j)
    <3>1. j \in DOMAIN ch
      BY <1>1, <2>3
    <3>2. ch[j] # <<>>
      <4>1. n = 1 => j = i
        BY <2>3
      <4> QED BY <1>3, <2>3, <3>1, <4>1
    <3>3. 1 \in DOMAIN ch[j] /\ ch[j][1] \in Time
      BY <1>2, <1>4, <3>1, <3>2
    <3>4. ch[j][1] <= t
      <4>1. j < i \/ (j = i /\ 1 < m) \/ (j = i /\ m = 1)
        BY <2>3
      <4>2. j < i \/ (j = i /\ 1 < m) => ch[j][1] < ch[i][m]
        BY <1>3, <2>1, <2>2, <3>1, <3>3
      <4>3. j = i /\ m = 1 => ch[j][1] = t
        BY <2>2
      <4> HIDE DEF ch
      <4> QED BY <2>2, <2>3, <3>3, <4>1, <4>2, <4>3 DEF Time
    <3>5. ~(ch[j][1] > q.end)
      BY <1>1, <1>13, <2>3, <3>3, <3>4 DEF Time
    <3> QED BY <3>2, <3>5
  <2>6. i \in kept
    BY <2>1, <2>4, <2>5
  <2> QED BY <1>9, <2>2, <2>6 DEF Range
<1>14. ASSUME q.latest, q.end > 0, q.start <= v.open, v.open <= q.end
       PROVE  \E i \in DOMAIN r : v.open \in Range(r[i])
  <2>1. v.open \in Time /\ v.open >= 0
    BY <1>1, <1>14 DEF Time
  <2>2. q.end > LastTimestamp(v)
    <3>1. CASE SamplesOf(v) = {}
      BY <1>14, <3>1 DEF LastTimestamp
    <3>2. CASE SamplesOf(v) # {}
      <4>1. LastTimestamp(v) \in SamplesOf(v) /\ LastTimestamp(v) \in Time
        BY <3>2, LastSample
      <4>2. LastTimestamp(v) < v.open
        BY <1>3, <1>5, <2>1, <4>1
      <4> QED BY <1>1, <1>14, <2>1, <4>1, <4>2 DEF Time
    <3> QED BY <3>1, <3>2
  <2>3. v.open \in Latest(q, v)
    BY <1>1, <1>14, <2>1, <2>2 DEF Latest, Time
  <2>4. n + 1 \in behind
    BY <2>3 DEF behind
  <2>5. r[n + 1] = <<v.open>> /\ n + 1 \in DOMAIN r
    BY <1>9, <2>4
  <2>6. v.open \in Range(<<v.open>>)
    BY DEF Range
  <2> QED BY <2>5, <2>6
<1> HIDE DEF ch, kept, r
<1>15. ASSUME NEW t
       PROVE  t \in RangeOfRecord(q, r) <=>
              /\ t \in SamplesOf(v) \cup (IF q.latest /\ q.end > 0 THEN {v.open} ELSE {})
              /\ q.start <= t /\ t <= q.end
  BY <1>11, <1>12, <1>13, <1>14
<1> QED BY <1>15 DEF r

\* What the handler replies for the records of a shard is the exact answer.
Values(q, m) == [j \in DOMAIN m |-> Replied(q, m[j])]

LEMMA MapperExact ==
  ASSUME NEW q \in Query, NEW v \in Data
  PROVE  /\ Len(Values(q, Mapper(q, v))) <= 1
         /\ Range(Values(q, Mapper(q, v))) = Answers(q, v)
<1>1. q.kind \in {"mget", "mrange", "queryindex"} /\ NoSeries # NotSeries
  BY QueryAssumption, MarkerAssumption DEF Kind
<1>2. ASSUME Mapper(q, v) = <<>>, Answers(q, v) = {}
      PROVE  Len(Values(q, Mapper(q, v))) <= 1 /\ Range(Values(q, Mapper(q, v))) = Answers(q, v)
  <2>1. Values(q, <<>>) = <<>>
    BY DEF Values
  <2> QED BY <1>2, <2>1 DEF Range
<1>3. ASSUME NEW x, Mapper(q, v) = <<x>>, Answers(q, v) = {Replied(q, x)}
      PROVE  Len(Values(q, Mapper(q, v))) <= 1 /\ Range(Values(q, Mapper(q, v))) = Answers(q, v)
  <2>1. Values(q, <<x>>) = <<Replied(q, x)>>
    BY DEF Values
  <2>2. Range(<<Replied(q, x)>>) = {Replied(q, x)} /\ Len(<<Replied(q, x)>>) = 1
    BY DEF Range
  <2>3. Values(q, Mapper(q, v)) = <<Replied(q, x)>>
    BY <1>3, <2>1
  <2>4. Len(<<Replied(q, x)>>) <= 1
    BY <2>2
  <2> QED BY <1>3, <2>2, <2>3, <2>4, Zenon
<1>4. CASE v = NoSeries
  BY <1>1, <1>2, <1>4 DEF Mapper, Answers, ShardSeriesMapper, ShardMgetMapper, ShardQueryindexMapper, IsSeries
<1>5. CASE q.kind = "queryindex" /\ v # NoSeries
  <2>1. Mapper(q, v) = <<{}>> /\ Replied(q, {}) = {} /\ Answers(q, v) = {{}}
    BY <1>5 DEF Mapper, Answers, ExactAnswer, ShardQueryindexMapper, Replied
  <2> QED BY <1>3, <2>1
<1>6. CASE v = NotSeries /\ q.kind # "queryindex"
  BY <1>1, <1>2, <1>6 DEF Mapper, Answers, ShardSeriesMapper, ShardMgetMapper, IsSeries
<1>7. CASE v \notin {NoSeries, NotSeries} /\ q.kind = "mget"
  <2>1. WellFormed(v)
    BY <1>7 DEF Data
  <2>2. Mapper(q, v) = <<LastDatapoint(q, v)>> /\ Replied(q, LastDatapoint(q, v)) = LastDatapoint(q, v)
    BY <1>7 DEF Mapper, ShardMgetMapper, IsSeries, Replied
  <2>3. Answers(q, v) = {IF q.latest /\ v.open >= 0 THEN {v.open}
                         ELSE {t \in SamplesOf(v) : \A u \in SamplesOf(v) : u <= t}}
    BY <1>7 DEF Answers, ExactAnswer
  <2>4. Answers(q, v) = {LastDatapoint(q, v)}
    BY <2>1, <2>3, LastExact DEF LastDatapoint
  <2> QED BY <1>3, <2>2, <2>4
<1>8. CASE v \notin {NoSeries, NotSeries} /\ q.kind = "mrange"
  <2>1. WellFormed(v)
    BY <1>8 DEF Data
  <2>2. Mapper(q, v) = <<RecordChunks(q, v)>>
        /\ Replied(q, RecordChunks(q, v)) = RangeOfRecord(q, RecordChunks(q, v))
    BY <1>8 DEF Mapper, ShardSeriesMapper, IsSeries, Replied
  <2>3. Answers(q, v) = {{t \in SamplesOf(v) \cup (IF q.latest /\ q.end > 0 THEN {v.open} ELSE {}) :
                            q.start <= t /\ t <= q.end}}
    BY <1>8 DEF Answers, ExactAnswer
  <2>4. Answers(q, v) = {RangeOfRecord(q, RecordChunks(q, v))}
    BY <2>1, <2>3, RangeExact
  <2> QED BY <1>3, <2>2, <2>4
<1> QED BY <1>1, <1>4, <1>5, <1>6, <1>7, <1>8

----------------------------------------------------------------------------
(***************************************************************************)
(* Records and replies, command by command.                                *)
(***************************************************************************)
Recs(c) ==
  /\ client[c] = "new" => reply[c] = NoReply
  /\ exec[c] = "none" => \A s \in Shard : ~returned[c][s] /\ inbox[c][s] = <<>>
  /\ exec[c] = "none" => results[c] = <<>> /\ reply[c] \in {NoReply, Failed}
  /\ exec[c] = "running" => \A s \in Shard :
       /\ db[s] \in seen[c][s]
       /\ Delivery(query[c], reader[c][s], returned[c][s], inbox[c][s], results[c], s, seen[c][s])

Snapshot(r, q, s, sn) ==
  \E i \in DOMAIN r, v \in sn :
    /\ PartsOf(r, s) = {i} /\ Len(r[i].values) <= 1
    /\ Range(r[i].values) = Answers(q, v)

Snap(c) ==
  reply[c] \notin {NoReply, Failed} => \A s \in Shard : Snapshot(reply[c], query[c], s, seen[c][s])

ReaderState == {"none", "unsent", "mapping", "lost", "finished"}
RestType ==
  /\ writes \in 0..MaxWrites /\ stops \in 0..MaxStops /\ up \subseteq Shard
  /\ reader \in [Command -> [Shard -> ReaderState]]
  /\ errors \in [Command -> BOOLEAN]

\* The invariant, taken apart.
LEMMA IndInvParts ==
  IndInv <=> /\ MemoryType /\ MemoryInv /\ RestType /\ RecordsType
             /\ \A c \in Command : Recs(c) /\ Snap(c)
<1>1. TypeOK /\ RecordsType <=> MemoryType /\ RestType /\ RecordsType
  BY DEF TypeOK, MemoryType, RestType, RecordsType, ReaderState, Predicates, Freeing
<1>2. RecordsInv <=> \A c \in Command : Recs(c)
  BY DEF RecordsInv, Recs
<1>3. RepliesAreSnapshots <=> \A c \in Command : Snap(c)
  BY DEF RepliesAreSnapshots, Snap, Snapshot
<1> QED BY <1>1, <1>2, <1>3 DEF IndInv

LEMMA DeliveryGrows ==
  ASSUME NEW q, NEW rd, NEW rt, NEW ib, NEW rs, NEW s, NEW sn, NEW sm, sn \subseteq sm,
         Delivery(q, rd, rt, ib, rs, s, sn)
  PROVE  Delivery(q, rd, rt, ib, rs, s, sm)
BY DEF Delivery

LEMMA SnapshotGrows ==
  ASSUME NEW r, NEW q, NEW s, NEW sn, NEW sm, sn \subseteq sm, Snapshot(r, q, s, sn)
  PROVE  Snapshot(r, q, s, sm)
BY DEF Snapshot

\* A step that leaves a command alone, but for what it has seen.
LEMMA RecsFrame ==
  ASSUME NEW c \in Command, Recs(c), Snap(c),
         client'[c] = client[c], exec'[c] = exec[c], query'[c] = query[c], reply'[c] = reply[c],
         returned'[c] = returned[c], reader'[c] = reader[c], inbox'[c] = inbox[c], results'[c] = results[c],
         \A s \in Shard : seen[c][s] \subseteq seen'[c][s],
         exec[c] = "running" => \A s \in Shard : db'[s] \in seen'[c][s]
  PROVE  Recs(c)' /\ Snap(c)'
<1>1. ASSUME exec[c] = "running", NEW s \in Shard
      PROVE  Delivery(query[c], reader[c][s], returned[c][s], inbox[c][s], results[c], s, seen'[c][s])
  BY <1>1, DeliveryGrows DEF Recs
<1>2. ASSUME reply[c] \notin {NoReply, Failed}, NEW s \in Shard
      PROVE  Snapshot(reply[c], query[c], s, seen'[c][s])
  BY <1>2, SnapshotGrows DEF Snap
<1>3. Recs(c)'
  BY <1>1 DEF Recs
<1>4. Snap(c)'
  BY <1>2 DEF Snap
<1> QED BY <1>3, <1>4

\* The invariant holds in the beginning.
LEMMA IndInit == Init => IndInv
<1> SUFFICES ASSUME Init PROVE IndInv
  OBVIOUS
<1>1. MemoryType /\ MemoryInv
  BY MemoryInit
<1>2. RestType
  BY BoundAssumption DEF Init, RestType, ReaderState
<1>3. RecordsType
  <2>1. Contents \subseteq Data
    BY ContentsAssumption DEF Data, WellFormed
  <2>2. db \in [Shard -> Data]
    BY <2>1 DEF Init
  <2>3. results \in [Command -> Seq(Result)] /\ inbox \in [Command -> [Shard -> Seq(Records)]]
    BY DEF Init
  <2> QED BY <2>2, <2>3 DEF Init, RecordsType
<1>4. ASSUME NEW c \in Command PROVE Recs(c) /\ Snap(c)
  BY DEF Init, Recs, Snap
<1> QED BY <1>1, <1>2, <1>3, <1>4, IndInvParts

\* The types of the rest.
LEMMA RestStep == RestType /\ [Next]_vars => RestType'
<1> SUFFICES ASSUME RestType, [Next]_vars PROVE RestType'
  OBVIOUS
<1>t. /\ writes \in 0..MaxWrites /\ stops \in 0..MaxStops /\ up \subseteq Shard
      /\ reader \in [Command -> [Shard -> ReaderState]]
      /\ errors \in [Command -> BOOLEAN]
      /\ MaxWrites \in Nat /\ MaxStops \in Nat
  BY BoundAssumption DEF RestType
<1>0. ASSUME UNCHANGED <<writes, stops, up, reader, errors>> PROVE RestType'
  BY <1>0, <1>t DEF RestType
<1>1. ASSUME NEW s \in Shard, Write(s) PROVE RestType'
  BY <1>1, <1>t DEF Write, running, RestType
<1>2. ASSUME NEW s \in Shard, Stop(s) PROVE RestType'
  <2>1. reader' \in [Command -> [Shard -> ReaderState]]
    <3>1. reader' = [c \in Command |-> [reader[c] EXCEPT ![s] = IF reader[c][s] = "mapping" THEN "lost" ELSE reader[c][s]]]
      BY <1>2 DEF Stop
    <3>2. ASSUME NEW c \in Command
          PROVE  [reader[c] EXCEPT ![s] = IF reader[c][s] = "mapping" THEN "lost" ELSE reader[c][s]] \in [Shard -> ReaderState]
      <4>1. reader[c] \in [Shard -> ReaderState] /\ "lost" \in ReaderState /\ reader[c][s] \in ReaderState
        BY <1>t, <1>2 DEF ReaderState
      <4> QED BY <4>1
    <3> QED BY <3>1, <3>2
  <2> QED BY <1>2, <1>t, <2>1 DEF Stop, RestType
<1>3. ASSUME NEW s \in Shard, Restart(s) PROVE RestType'
  BY <1>3, <1>t DEF Restart, running, RestType
<1>4. ASSUME NEW c \in Command, NEW q \in Query, Refuse(c, q) \/ CreateFails(c, q) \/ Run(c, q) PROVE RestType'
  <2>1. CASE Run(c, q)
    <3>1. reader' \in [Command -> [Shard -> ReaderState]]
      BY <2>1, <1>t DEF Run, ReaderState
    <3> QED BY <2>1, <1>t, <3>1 DEF Run, RestType
  <2>2. CASE Refuse(c, q) \/ CreateFails(c, q)
    BY <2>2, <1>0 DEF Refuse, CreateFails, data, running
  <2> QED BY <1>4, <2>1, <2>2
<1>5. CASE MainStep
  BY <1>5, <1>0 DEF MainStep, MainFreeExecution, MainFreeBuilder, MainReturns, MainFreedPredicates, data, running
<1>6. ASSUME NEW c \in Command, NEW s \in Shard, Send(c, s) \/ ReadEnds(c, s) PROVE RestType'
  <2>1. PICK p \in ReaderState : reader' = [reader EXCEPT ![c][s] = p]
    BY <1>6 DEF Send, ReadEnds, ReaderState
  <2>2. UNCHANGED <<writes, stops, up, errors>>
    BY <1>6 DEF Send, ReadEnds, data
  <2> QED BY <1>t, <2>1, <2>2 DEF RestType
<1>7. ASSUME NEW c \in Command, NEW s \in Shard, Read(c, s) \/ Collect(c, s) PROVE RestType'
  BY <1>7, <1>0 DEF Read, Collect, data
<1>8. ASSUME NEW c \in Command, Fail(c) PROVE RestType'
  BY <1>8, <1>t DEF Fail, data, RestType
<1>9. ASSUME NEW c \in Command, Done(c) \/ Unblock(c) \/ Answer(c) \/ ExecutionFree(c) PROVE RestType'
  BY <1>9, <1>0 DEF Done, Unblock, Answer, ExecutionFree, data, running
<1>10. ASSUME NEW c \in Command, NEW th \in Thread, FreeTest(c, th) \/ FreeDecrement(c, th) PROVE RestType'
  BY <1>10, <1>0 DEF FreeTest, FreeDecrement, data, running
<1>11. CASE UNCHANGED vars
  BY <1>11, <1>0 DEF vars, data, running
<1> QED BY <1>1, <1>2, <1>3, <1>4, <1>5, <1>6, <1>7, <1>8, <1>9, <1>10, <1>11 DEF Next, ExecutionStep

\* The shards a record comes from, when one more is collected.
LEMMA PlacesAppend ==
  ASSUME NEW rs \in Seq(Result), NEW x \in Result, NEW s
  PROVE  /\ x.shard = s => PlacesOf(Append(rs, x), s) = PlacesOf(rs, s) \cup {Len(rs) + 1}
         /\ x.shard # s => PlacesOf(Append(rs, x), s) = PlacesOf(rs, s)
         /\ DOMAIN rs \subseteq DOMAIN Append(rs, x) /\ \A i \in DOMAIN rs : Append(rs, x)[i] = rs[i]
         /\ Len(rs) + 1 \in DOMAIN Append(rs, x) /\ Append(rs, x)[Len(rs) + 1] = x
<1>1. /\ DOMAIN rs = 1..Len(rs) /\ DOMAIN Append(rs, x) = 1..Len(rs)+1 /\ Len(rs) \in Nat
      /\ \A i \in 1..Len(rs) : Append(rs, x)[i] = rs[i]
      /\ Append(rs, x)[Len(rs) + 1] = x
  OBVIOUS
<1>2. DOMAIN Append(rs, x) = DOMAIN rs \cup {Len(rs) + 1} /\ Len(rs) + 1 \notin DOMAIN rs
  BY <1>1
<1> QED BY <1>1, <1>2 DEF PlacesOf

LEMMA DeliveryReads ==
  ASSUME NEW q, NEW ib, NEW rs, NEW s, NEW sn, NEW v \in sn, Delivery(q, "mapping", FALSE, ib, rs, s, sn)
  PROVE  Delivery(q, "mapping", TRUE, Append(ib, Mapper(q, v)), rs, s, sn)
<1>1. ib = <<>> /\ PlacesOf(rs, s) = {}
  BY DEF Delivery, Nowhere
<1>2. Append(ib, Mapper(q, v)) = <<Mapper(q, v)>>
  BY <1>1
<1>3. UnderWay(Append(ib, Mapper(q, v)), rs, s, Mapper(q, v))
  BY <1>1, <1>2 DEF UnderWay
<1> QED BY <1>3 DEF Delivery

LEMMA DeliveryCollects ==
  ASSUME NEW q, NEW rd, NEW rt, NEW ib, ib # <<>>, NEW rs \in Seq(Result), NEW s \in Shard, NEW sn,
         Delivery(q, rd, rt, ib, rs, s, sn), NEW x \in Result, x = [shard |-> s, records |-> Head(ib)]
  PROVE  Delivery(q, rd, rt, Tail(ib), Append(rs, x), s, sn)
<1>1. rt
  BY DEF Delivery, Nowhere
<1>2. PICK v \in sn : UnderWay(ib, rs, s, Mapper(q, v))
  BY <1>1 DEF Delivery, OnceCollected
<1>3. ib = <<Mapper(q, v)>> /\ PlacesOf(rs, s) = {}
  BY <1>2 DEF UnderWay
<1>4. Head(ib) = Mapper(q, v) /\ Tail(ib) = <<>>
  BY <1>3
<1>5. PlacesOf(Append(rs, x), s) = {Len(rs) + 1} /\ Append(rs, x)[Len(rs) + 1].records = Mapper(q, v)
      /\ Len(rs) + 1 \in DOMAIN Append(rs, x)
  <2>1. x.shard = s /\ x.records = Mapper(q, v)
    BY <1>4
  <2>2. PlacesOf(Append(rs, x), s) = PlacesOf(rs, s) \cup {Len(rs) + 1}
    BY <2>1, PlacesAppend
  <2>3. Len(rs) + 1 \in DOMAIN Append(rs, x) /\ Append(rs, x)[Len(rs) + 1] = x
    BY PlacesAppend
  <2> QED BY <1>3, <2>1, <2>2, <2>3
<1>6. OnceCollected(Tail(ib), Append(rs, x), s, Mapper(q, v))
  BY <1>4, <1>5 DEF OnceCollected
<1> QED BY <1>1, <1>6 DEF Delivery

LEMMA DeliveryOther ==
  ASSUME NEW q, NEW rd, NEW rt, NEW ib, NEW rs \in Seq(Result), NEW s \in Shard, NEW sn,
         Delivery(q, rd, rt, ib, rs, s, sn), NEW x \in Result, x.shard # s
  PROVE  Delivery(q, rd, rt, ib, Append(rs, x), s, sn)
<1>1. PlacesOf(Append(rs, x), s) = PlacesOf(rs, s)
  BY PlacesAppend
<1>2. DOMAIN rs \subseteq DOMAIN Append(rs, x) /\ \A i \in DOMAIN rs : Append(rs, x)[i] = rs[i]
  BY PlacesAppend
<1>3. Nowhere(ib, rs, s) => Nowhere(ib, Append(rs, x), s)
  BY <1>1 DEF Nowhere
<1>4. \A m : UnderWay(ib, rs, s, m) => UnderWay(ib, Append(rs, x), s, m)
  BY <1>1 DEF UnderWay
<1>5. \A m : OnceCollected(ib, rs, s, m) => OnceCollected(ib, Append(rs, x), s, m)
  BY <1>1, <1>2 DEF OnceCollected
<1> QED BY <1>3, <1>4, <1>5 DEF Delivery

\* When everything is collected the reply has a snapshot of every shard.
LEMMA CollectedSnapshot ==
  ASSUME NEW c \in Command, query[c] \in Query, NEW s \in Shard, seen[c][s] \subseteq Data,
         reader[c][s] = "finished", inbox[c][s] = <<>>,
         Delivery(query[c], reader[c][s], returned[c][s], inbox[c][s], results[c], s, seen[c][s])
  PROVE  Snapshot(ReplyOf(c), query[c], s, seen[c][s])
<1>1. PICK v \in seen[c][s] : OnceCollected(inbox[c][s], results[c], s, Mapper(query[c], v))
  <2>1. \A m : ~UnderWay(inbox[c][s], results[c], s, m)
    BY DEF UnderWay
  <2> QED BY <2>1 DEF Delivery
<1>2. PICK i \in DOMAIN results[c] : PlacesOf(results[c], s) = {i} /\ results[c][i].records = Mapper(query[c], v)
  BY <1>1 DEF OnceCollected
<1> DEFINE r == ReplyOf(c)
<1>3. /\ DOMAIN r = DOMAIN results[c]
      /\ \A j \in DOMAIN results[c] : r[j].key = results[c][j].shard
      /\ \A j \in DOMAIN results[c] : r[j].values = Values(query[c], results[c][j].records)
  BY DEF ReplyOf, Values
<1> HIDE DEF r
<1>4. PartsOf(r, s) = {i}
  <2>1. PartsOf(r, s) = PlacesOf(results[c], s)
    BY <1>3 DEF PartsOf, PlacesOf
  <2> QED BY <1>2, <2>1
<1>5. r[i].values = Values(query[c], Mapper(query[c], v)) /\ i \in DOMAIN r
  BY <1>2, <1>3
<1>6. v \in Data
  BY <1>1
<1>7. Len(r[i].values) <= 1 /\ Range(r[i].values) = Answers(query[c], v)
  BY <1>5, <1>6, MapperExact
<1> QED BY <1>1, <1>4, <1>5, <1>7 DEF Snapshot, r

\* Every step preserves the records and the replies.
LEMMA RecordsStep == IndInv /\ [Next]_vars => RecordsType' /\ \A c \in Command : Recs(c)' /\ Snap(c)'
<1> DEFINE Goal == RecordsType' /\ \A c \in Command : Recs(c)' /\ Snap(c)'
<1> SUFFICES ASSUME IndInv, [Next]_vars PROVE Goal
  OBVIOUS
<1>t. /\ db \in [Shard -> Data]
      /\ returned \in [Command -> [Shard -> BOOLEAN]]
      /\ inbox \in [Command -> [Shard -> Seq(Records)]]
      /\ results \in [Command -> Seq(Result)]
      /\ seen \in [Command -> [Shard -> SUBSET Data]]
      /\ query \in [Command -> Query \cup {NoReply}]
      /\ client \in [Command -> {"new", "blocked", "unblocked", "answered"}]
      /\ exec \in [Command -> {"none", "running", "done", "freed"}]
      /\ reader \in [Command -> [Shard -> ReaderState]]
      /\ reply = [c \in Command |-> reply[c]]
  BY IndInvParts DEF RecordsType, MemoryType, RestType
<1>r. \A c \in Command : Recs(c) /\ Snap(c)
  BY IndInvParts
<1>m. ASSUME NEW c \in Command
      PROVE  /\ exec[c] = "running" => query[c] \in Query /\ client[c] # "new"
             /\ client[c] = "new" => exec[c] = "none"
             /\ client[c] \in {"blocked", "unblocked"} => exec[c] # "none"
  BY IndInvParts DEF MemoryInv, MemoryOf, Unheld
<1>l. ASSUME NEW c \in Command, exec[c] = "running", NEW s \in Shard
      PROVE  /\ db[s] \in seen[c][s]
             /\ Delivery(query[c], reader[c][s], returned[c][s], inbox[c][s], results[c], s, seen[c][s])
  BY <1>r, <1>l DEF Recs
\* Steps that change none of it.
<1>0. ASSUME UNCHANGED <<db, seen, query, client, exec, returned, reader, inbox, results>>,
             reply' = reply
      PROVE  Goal
  <2>1. RecordsType'
    BY <1>0, <1>t DEF RecordsType
  <2>2. ASSUME NEW c \in Command PROVE Recs(c)' /\ Snap(c)'
    BY <1>0, <1>r DEF Recs, Snap
  <2> QED BY <2>1, <2>2
\* A step of another command than d.
<1>o. ASSUME NEW d \in Command, UNCHANGED <<db, reply>>,
             query'[d] = query[d], client'[d] = client[d], exec'[d] = exec[d],
             returned'[d] = returned[d], reader'[d] = reader[d], inbox'[d] = inbox[d], results'[d] = results[d],
             seen'[d] = seen[d]
      PROVE  Recs(d)' /\ Snap(d)'
  BY <1>o, <1>r DEF Recs, Snap
<1>1. ASSUME NEW s \in Shard, Write(s) PROVE Goal
  <2>1. PICK v \in Changes(db[s]) :
          /\ db' = [db EXCEPT ![s] = v]
          /\ seen' = [c \in Command |-> [seen[c] EXCEPT ![s] = IF exec[c] = "running" THEN seen[c][s] \cup {v} ELSE seen[c][s]]]
          /\ UNCHANGED <<query, client, reply, exec, returned, reader, inbox, results>>
    BY <1>1 DEF Write, asking, running
  <2>2. v \in Data
    BY <1>t, ChangesData
  <2>3. ASSUME NEW c \in Command
        PROVE  /\ seen'[c] \in [Shard -> SUBSET Data]
               /\ \A z \in Shard : seen[c][z] \subseteq seen'[c][z]
               /\ exec[c] = "running" => v \in seen'[c][s]
    <3>1. seen[c] \in [Shard -> SUBSET Data] /\ seen[c][s] \in SUBSET Data
      BY <1>t
    <3>2. seen'[c] = [seen[c] EXCEPT ![s] = IF exec[c] = "running" THEN seen[c][s] \cup {v} ELSE seen[c][s]]
      BY <2>1
    <3> QED BY <2>2, <3>1, <3>2
  <2>4. RecordsType'
    <3>1. seen' \in [Command -> [Shard -> SUBSET Data]]
      BY <2>1, <2>3
    <3>2. db' \in [Shard -> Data]
      BY <1>t, <2>1, <2>2
    <3> QED BY <1>t, <2>1, <3>1, <3>2 DEF RecordsType
  <2>5. ASSUME NEW c \in Command PROVE Recs(c)' /\ Snap(c)'
    <3>1. ASSUME exec[c] = "running", NEW z \in Shard PROVE db'[z] \in seen'[c][z]
      <4>1. CASE z = s
        BY <1>t, <2>1, <2>3, <3>1, <4>1
      <4>2. CASE z # s
        BY <1>t, <1>l, <2>1, <2>3, <3>1, <4>2
      <4> QED BY <4>1, <4>2
    <3> QED BY <1>r, <2>1, <2>3, <3>1, RecsFrame
  <2> QED BY <2>4, <2>5
<1>2. ASSUME NEW s \in Shard, Stop(s) PROVE Goal
  <2>1. /\ reader' = [c \in Command |-> [reader[c] EXCEPT ![s] = IF reader[c][s] = "mapping" THEN "lost" ELSE reader[c][s]]]
        /\ UNCHANGED <<db, seen, query, client, reply, exec, returned, inbox, results>>
    BY <1>2 DEF Stop, asking
  <2>2. RecordsType'
    BY <1>t, <2>1 DEF RecordsType
  <2>3. ASSUME NEW c \in Command PROVE Recs(c)' /\ Snap(c)'
    <3>1. ASSUME exec[c] = "running", NEW z \in Shard
          PROVE  Delivery(query[c], reader'[c][z], returned[c][z], inbox[c][z], results[c], z, seen[c][z])
      <4>1. reader'[c][z] = reader[c][z] \/ reader'[c][z] = "lost"
        BY <1>t, <2>1
      <4> QED BY <1>l, <3>1, <4>1 DEF Delivery
    <3>2. Recs(c)'
      BY <1>r, <2>1, <3>1 DEF Recs
    <3>3. Snap(c)'
      BY <1>r, <2>1 DEF Snap
    <3> QED BY <3>2, <3>3
  <2> QED BY <2>2, <2>3
<1>3. ASSUME NEW s \in Shard, Restart(s) PROVE Goal
  BY <1>3, <1>0 DEF Restart, asking, running
<1>4. ASSUME NEW c \in Command, NEW q \in Query, Refuse(c, q) \/ CreateFails(c, q) PROVE Goal
  <2>1. /\ client[c] = "new"
        /\ query' = [query EXCEPT ![c] = q]
        /\ client' = [client EXCEPT ![c] = "answered"]
        /\ reply' = [reply EXCEPT ![c] = Failed]
        /\ UNCHANGED <<db, seen, exec, returned, reader, inbox, results>>
    BY <1>4 DEF Refuse, CreateFails, data, running
  <2>3. exec[c] = "none"
    BY <1>m, <2>1
  <2>4. /\ reply'[c] = Failed /\ client'[c] = "answered" /\ reply' = [d \in Command |-> reply'[d]]
        /\ \A d \in Command \ {c} : reply'[d] = reply[d] /\ client'[d] = client[d] /\ query'[d] = query[d]
    BY <1>t, <2>1
  <2>5. ASSUME NEW d \in Command PROVE Recs(d)' /\ Snap(d)'
    <3>1. CASE d = c
      BY <1>r, <2>1, <2>3, <2>4, <3>1 DEF Recs, Snap
    <3>2. CASE d # c
      BY <1>r, <2>1, <2>4, <3>2 DEF Recs, Snap
    <3> QED BY <3>1, <3>2
  <2>6. RecordsType'
    BY <1>t, <2>1, <2>4 DEF RecordsType
  <2> QED BY <2>5, <2>6
<1>5. ASSUME NEW c \in Command, NEW q \in Query, Run(c, q) PROVE Goal
  <2>1. /\ client[c] = "new"
        /\ query' = [query EXCEPT ![c] = q]
        /\ client' = [client EXCEPT ![c] = "blocked"]
        /\ exec' = [exec EXCEPT ![c] = "running"]
        /\ reader' = [reader EXCEPT ![c] = [s \in Shard |-> "unsent"]]
        /\ seen' = [seen EXCEPT ![c] = [s \in Shard |-> {db[s]}]]
        /\ UNCHANGED <<db, reply, returned, inbox, results>>
    BY <1>5 DEF Run
  <2>2. exec[c] = "none"
    BY <1>m, <2>1
  <2>3. /\ query'[c] = q /\ client'[c] = "blocked" /\ exec'[c] = "running"
        /\ \A s \in Shard : reader'[c][s] = "unsent" /\ seen'[c][s] = {db[s]}
        /\ \A d \in Command \ {c} : /\ query'[d] = query[d] /\ client'[d] = client[d] /\ exec'[d] = exec[d]
                                    /\ reader'[d] = reader[d] /\ seen'[d] = seen[d]
    BY <1>t, <2>1
  <2>4. RecordsType'
    <3>1. [s \in Shard |-> {db[s]}] \in [Shard -> SUBSET Data]
      BY <1>t
    <3>2. seen' \in [Command -> [Shard -> SUBSET Data]]
      BY <1>t, <2>1, <3>1
    <3> QED BY <1>t, <2>1, <3>2 DEF RecordsType
  <2>5. Recs(c)' /\ Snap(c)'
    <3>1. /\ reply[c] = NoReply /\ results[c] = <<>>
          /\ \A s \in Shard : ~returned[c][s] /\ inbox[c][s] = <<>>
      BY <1>r, <2>1, <2>2 DEF Recs
    <3>2. ASSUME NEW s \in Shard
          PROVE  Delivery(q, "unsent", returned[c][s], inbox[c][s], results[c], s, {db[s]})
      <4>1. PlacesOf(results[c], s) = {}
        BY <3>1 DEF PlacesOf
      <4> QED BY <3>1, <4>1 DEF Delivery, Nowhere
    <3> QED BY <2>1, <2>3, <3>1, <3>2 DEF Recs, Snap
  <2>6. ASSUME NEW d \in Command, d # c PROVE Recs(d)' /\ Snap(d)'
    <3>1. UNCHANGED <<db, reply, returned, inbox, results>>
      BY <2>1
    <3>2. /\ query'[d] = query[d] /\ client'[d] = client[d] /\ exec'[d] = exec[d]
          /\ reader'[d] = reader[d] /\ seen'[d] = seen[d]
      BY <2>3, <2>6
    <3> QED BY <1>o, <3>1, <3>2
  <2> QED BY <2>4, <2>5, <2>6
<1>6. CASE MainStep
  BY <1>6, <1>0 DEF MainStep, MainFreeExecution, MainFreeBuilder, MainReturns, MainFreedPredicates, data, asking, running
<1>7. ASSUME NEW c \in Command, NEW s \in Shard, Send(c, s) PROVE Goal
  <2>1. /\ exec[c] = "running" /\ reader[c][s] = "unsent"
        /\ returned' = [returned EXCEPT ![c][s] = FALSE]
        /\ UNCHANGED <<db, seen, query, client, reply, exec, inbox, results>>
    BY <1>7 DEF Send, ArgDeserialize, data, asking
  <2>p. PICK p \in {"mapping", "lost"} : reader' = [reader EXCEPT ![c][s] = p]
    BY <1>7 DEF Send
  <2>2. /\ returned' \in [Command -> [Shard -> BOOLEAN]] /\ reader'[c][s] = p /\ ~returned'[c][s]
        /\ \A z \in Shard \ {s} : reader'[c][z] = reader[c][z] /\ returned'[c][z] = returned[c][z]
        /\ \A d \in Command \ {c} : reader'[d] = reader[d] /\ returned'[d] = returned[d]
    BY <1>t, <2>1, <2>p
  <2>3. RecordsType'
    BY <1>t, <2>1, <2>2 DEF RecordsType
  <2>4. Recs(c)' /\ Snap(c)'
    <3>1. ASSUME NEW z \in Shard
          PROVE  Delivery(query[c], reader'[c][z], returned'[c][z], inbox[c][z], results[c], z, seen[c][z])
      <4>1. Delivery(query[c], reader[c][z], returned[c][z], inbox[c][z], results[c], z, seen[c][z])
        BY <1>l, <2>1
      <4>2. CASE z = s
        BY <2>1, <2>2, <2>p, <4>1, <4>2 DEF Delivery
      <4>3. CASE z # s
        BY <2>2, <4>1, <4>3
      <4> QED BY <4>2, <4>3
    <3> QED BY <1>r, <1>m, <2>1, <3>1 DEF Recs, Snap
  <2>5. ASSUME NEW d \in Command, d # c PROVE Recs(d)' /\ Snap(d)'
    BY <1>o, <2>1, <2>2, <2>5
  <2> QED BY <2>3, <2>4, <2>5
<1>8. ASSUME NEW c \in Command, NEW s \in Shard, Read(c, s) PROVE Goal
  <2> DEFINE m == Mapper(query[c], db[s])
  <2>1. /\ exec[c] = "running" /\ reader[c][s] = "mapping" /\ ~returned[c][s]
        /\ returned' = [returned EXCEPT ![c][s] = TRUE]
        /\ inbox' = [inbox EXCEPT ![c][s] = Append(inbox[c][s], m)]
        /\ UNCHANGED <<db, seen, query, client, reply, exec, reader, results>>
    BY <1>8 DEF Read, data, asking
  <2>2. m \in Records
    BY <1>t, <1>m, <2>1 DEF Records
  <2>3. Append(inbox[c][s], m) \in Seq(Records)
    BY <1>t, <2>2
  <2> HIDE DEF m
  <2>4. /\ returned' \in [Command -> [Shard -> BOOLEAN]] /\ returned'[c][s] = TRUE
        /\ inbox' \in [Command -> [Shard -> Seq(Records)]] /\ inbox'[c][s] = Append(inbox[c][s], m)
        /\ \A z \in Shard \ {s} : inbox'[c][z] = inbox[c][z] /\ returned'[c][z] = returned[c][z]
        /\ \A d \in Command \ {c} : inbox'[d] = inbox[d] /\ returned'[d] = returned[d]
    BY <1>t, <2>1, <2>3
  <2>5. RecordsType'
    BY <1>t, <2>1, <2>4 DEF RecordsType
  <2>6. Recs(c)' /\ Snap(c)'
    <3>1. ASSUME NEW z \in Shard
          PROVE  Delivery(query[c], reader[c][z], returned'[c][z], inbox'[c][z], results[c], z, seen[c][z])
      <4>1. /\ Delivery(query[c], reader[c][z], returned[c][z], inbox[c][z], results[c], z, seen[c][z])
            /\ db[z] \in seen[c][z]
        BY <1>l, <2>1
      <4>2. CASE z = s
        <5>1. returned[c][s] = FALSE
          BY <1>t, <2>1
        <5>2. Delivery(query[c], "mapping", FALSE, inbox[c][s], results[c], s, seen[c][s])
          BY <2>1, <4>1, <4>2, <5>1
        <5>3. Delivery(query[c], "mapping", TRUE, Append(inbox[c][s], m), results[c], s, seen[c][s])
          BY <4>1, <4>2, <5>2, DeliveryReads DEF m
        <5> QED BY <2>1, <2>4, <4>2, <5>3
      <4>3. CASE z # s
        BY <2>4, <4>1, <4>3
      <4> QED BY <4>2, <4>3
    <3> QED BY <1>r, <1>m, <2>1, <3>1 DEF Recs, Snap
  <2>7. ASSUME NEW d \in Command, d # c PROVE Recs(d)' /\ Snap(d)'
    BY <1>o, <2>1, <2>4, <2>7
  <2> QED BY <2>5, <2>6, <2>7
<1>9. ASSUME NEW c \in Command, NEW s \in Shard, ReadEnds(c, s) PROVE Goal
  <2>1. /\ exec[c] = "running" /\ reader[c][s] = "mapping" /\ returned[c][s]
        /\ reader' = [reader EXCEPT ![c][s] = "finished"]
        /\ UNCHANGED <<db, seen, query, client, reply, exec, returned, inbox, results>>
    BY <1>9 DEF ReadEnds, data, asking
  <2>2. /\ reader'[c][s] = "finished"
        /\ \A z \in Shard \ {s} : reader'[c][z] = reader[c][z]
        /\ \A d \in Command \ {c} : reader'[d] = reader[d]
    BY <1>t, <2>1
  <2>3. RecordsType'
    BY <1>t, <2>1 DEF RecordsType
  <2>4. Recs(c)' /\ Snap(c)'
    <3>1. ASSUME NEW z \in Shard
          PROVE  Delivery(query[c], reader'[c][z], returned[c][z], inbox[c][z], results[c], z, seen[c][z])
      <4>1. Delivery(query[c], reader[c][z], returned[c][z], inbox[c][z], results[c], z, seen[c][z])
        BY <1>l, <2>1
      <4>2. CASE z = s
        BY <2>1, <2>2, <4>1, <4>2 DEF Delivery
      <4>3. CASE z # s
        BY <2>2, <4>1, <4>3
      <4> QED BY <4>2, <4>3
    <3> QED BY <1>r, <1>m, <2>1, <3>1 DEF Recs, Snap
  <2>5. ASSUME NEW d \in Command, d # c PROVE Recs(d)' /\ Snap(d)'
    BY <1>o, <2>1, <2>2, <2>5
  <2> QED BY <2>3, <2>4, <2>5
<1>10. ASSUME NEW c \in Command, NEW s \in Shard, Collect(c, s) PROVE Goal
  <2>x. PICK x : x = [shard |-> s, records |-> Head(inbox[c][s])]
    OBVIOUS
  <2>1. /\ exec[c] = "running" /\ inbox[c][s] # <<>>
        /\ results' = [results EXCEPT ![c] = Append(results[c], x)]
        /\ inbox' = [inbox EXCEPT ![c][s] = Tail(inbox[c][s])]
        /\ UNCHANGED <<db, seen, query, client, reply, exec, returned, reader>>
    BY <1>10, <2>x DEF Collect, data, asking
  <2>2. x \in Result /\ results[c] \in Seq(Result) /\ Tail(inbox[c][s]) \in Seq(Records)
    <3>1. inbox[c][s] \in Seq(Records)
      BY <1>t
    <3>2. Head(inbox[c][s]) \in Records /\ Tail(inbox[c][s]) \in Seq(Records)
      BY <2>1, <3>1
    <3> QED BY <1>t, <2>x, <3>2 DEF Result
  <2>3. Append(results[c], x) \in Seq(Result)
    BY <2>2
  <2>4. /\ results' \in [Command -> Seq(Result)] /\ results'[c] = Append(results[c], x)
        /\ inbox' \in [Command -> [Shard -> Seq(Records)]] /\ inbox'[c][s] = Tail(inbox[c][s])
        /\ \A z \in Shard \ {s} : inbox'[c][z] = inbox[c][z]
        /\ \A d \in Command \ {c} : inbox'[d] = inbox[d] /\ results'[d] = results[d]
    BY <1>t, <2>1, <2>2, <2>3
  <2>5. RecordsType'
    BY <1>t, <2>1, <2>4 DEF RecordsType
  <2>6. Recs(c)' /\ Snap(c)'
    <3>1. ASSUME NEW z \in Shard
          PROVE  Delivery(query[c], reader[c][z], returned[c][z], inbox'[c][z], results'[c], z, seen[c][z])
      <4>1. Delivery(query[c], reader[c][z], returned[c][z], inbox[c][z], results[c], z, seen[c][z])
        BY <1>l, <2>1
      <4>2. CASE z = s
        <5>1. Delivery(query[c], reader[c][z], returned[c][z], Tail(inbox[c][z]), Append(results[c], x), z, seen[c][z])
          BY <2>1, <2>2, <2>x, <4>1, <4>2, DeliveryCollects
        <5> QED BY <2>4, <4>2, <5>1
      <4>3. CASE z # s
        <5>1. x.shard # z
          BY <2>x, <4>3
        <5>2. Delivery(query[c], reader[c][z], returned[c][z], inbox[c][z], Append(results[c], x), z, seen[c][z])
          BY <2>2, <4>1, <5>1, DeliveryOther
        <5> QED BY <2>4, <4>3, <5>2
      <4> QED BY <4>2, <4>3
    <3> QED BY <1>r, <1>m, <2>1, <3>1 DEF Recs, Snap
  <2>7. ASSUME NEW d \in Command, d # c PROVE Recs(d)' /\ Snap(d)'
    BY <1>o, <2>1, <2>4, <2>7
  <2> QED BY <2>5, <2>6, <2>7
<1>11. ASSUME NEW c \in Command, Fail(c) PROVE Goal
  BY <1>11, <1>0 DEF Fail, data, asking
<1>12. ASSUME NEW c \in Command, Done(c) PROVE Goal
  <2>1. /\ exec[c] = "running" /\ (errors[c] \/ Collected(c))
        /\ exec' = [exec EXCEPT ![c] = "done"]
        /\ reply' = [reply EXCEPT ![c] = CheckAndReply(c)]
        /\ UNCHANGED <<db, seen, query, client, returned, reader, inbox, results>>
    BY <1>12 DEF Done, data
  <2>2. /\ exec'[c] = "done" /\ reply'[c] = CheckAndReply(c) /\ reply' = [d \in Command |-> reply'[d]]
        /\ \A d \in Command \ {c} : exec'[d] = exec[d] /\ reply'[d] = reply[d]
    BY <1>t, <2>1
  <2>3. RecordsType'
    BY <1>t, <2>1, <2>2 DEF RecordsType
  <2>4. Recs(c)'
    BY <1>m, <2>1, <2>2 DEF Recs
  <2>5. Snap(c)'
    <3>1. CASE errors[c]
      BY <2>2, <3>1 DEF Snap, CheckAndReply
    <3>2. CASE ~errors[c]
      <4>1. reply'[c] = ReplyOf(c)
        BY <2>2, <3>2 DEF CheckAndReply
      <4>2. ASSUME NEW s \in Shard PROVE Snapshot(ReplyOf(c), query[c], s, seen[c][s])
        <5>1. reader[c][s] = "finished" /\ inbox[c][s] = <<>>
          BY <2>1, <3>2 DEF Collected
        <5>2. query[c] \in Query /\ seen[c][s] \subseteq Data
          BY <1>t, <1>m, <2>1
        <5> QED BY <1>l, <2>1, <5>1, <5>2, CollectedSnapshot
      <4> QED BY <2>1, <4>1, <4>2 DEF Snap
    <3> QED BY <3>1, <3>2
  <2>6. ASSUME NEW d \in Command, d # c PROVE Recs(d)' /\ Snap(d)'
    BY <1>r, <2>1, <2>2, <2>6 DEF Recs, Snap
  <2> QED BY <2>3, <2>4, <2>5, <2>6
<1>13. ASSUME NEW c \in Command, Unblock(c) \/ Answer(c) PROVE Goal
  <2>p. PICK p \in {"unblocked", "answered"} : client' = [client EXCEPT ![c] = p]
    BY <1>13 DEF Unblock, Answer
  <2>1. /\ client[c] \in {"blocked", "unblocked"}
        /\ UNCHANGED <<db, seen, query, reply, exec, returned, reader, inbox, results>>
    BY <1>13 DEF Unblock, Answer, data, running
  <2>2. client'[c] = p /\ \A d \in Command \ {c} : client'[d] = client[d]
    BY <1>t, <2>p
  <2>3. RecordsType'
    BY <1>t, <2>1 DEF RecordsType
  <2>4. ASSUME NEW d \in Command PROVE Recs(d)' /\ Snap(d)'
    BY <1>r, <2>1, <2>2, <2>p DEF Recs, Snap
  <2> QED BY <2>3, <2>4
<1>14. ASSUME NEW c \in Command, ExecutionFree(c) PROVE Goal
  <2>1. /\ exec[c] = "done" /\ exec' = [exec EXCEPT ![c] = "freed"]
        /\ UNCHANGED <<db, seen, query, client, reply, returned, reader, inbox, results>>
    BY <1>14 DEF ExecutionFree, data, asking
  <2>2. exec'[c] = "freed" /\ \A d \in Command \ {c} : exec'[d] = exec[d]
    BY <1>t, <2>1
  <2>3. RecordsType'
    BY <1>t, <2>1 DEF RecordsType
  <2>4. ASSUME NEW d \in Command PROVE Recs(d)' /\ Snap(d)'
    BY <1>r, <2>1, <2>2 DEF Recs, Snap
  <2> QED BY <2>3, <2>4
<1>15. ASSUME NEW c \in Command, NEW th \in Thread, FreeTest(c, th) \/ FreeDecrement(c, th) PROVE Goal
  BY <1>15, <1>0 DEF FreeTest, FreeDecrement, data, asking, running
<1>16. CASE UNCHANGED vars
  BY <1>16, <1>0 DEF vars, data, asking, running
<1> QED
  <2> HIDE DEF Goal
  <2>1. ASSUME NEW c \in Command, ExecutionStep(c) PROVE Goal
    BY <2>1, <1>7, <1>8, <1>9, <1>10, <1>12, <1>13, <1>14, <1>15 DEF ExecutionStep
  <2>2. Goal
    BY <2>1, <1>1, <1>2, <1>3, <1>4, <1>5, <1>6, <1>11, <1>16 DEF Next
  <2> QED BY <2>2 DEF Goal

----------------------------------------------------------------------------
(***************************************************************************)
(* Results.                                                                *)
(***************************************************************************)
LEMMA IndStep == IndInv /\ [Next]_vars => IndInv'
<1> SUFFICES ASSUME IndInv, [Next]_vars PROVE IndInv'
  OBVIOUS
<1>1. MemoryType /\ MemoryInv /\ RestType
  BY IndInvParts
<1>2. MemoryType' /\ MemoryInv'
  BY <1>1, MemoryStep
<1>3. RestType'
  BY <1>1, RestStep
<1>4. RecordsType' /\ \A c \in Command : Recs(c)' /\ Snap(c)'
  BY RecordsStep
<1>5. (/\ MemoryType /\ MemoryInv /\ RestType /\ RecordsType
       /\ \A c \in Command : Recs(c) /\ Snap(c))'
  BY <1>2, <1>3, <1>4
<1> QED BY <1>5, IndInvParts, PTL

\* The invariant that all results below rest on: who holds a reference, and where the
\* records of every shard are, in every reachable state.
THEOREM Invariance == Spec => []IndInv
BY IndInit, IndStep, PTL DEF Spec

\* The states of the commands, of their threads and of their executions are as declared:
\* among others no reference count leaves 0..2 (QueryPredicates_ObjectFree,
\* QueryPredicateList_Free).
THEOREM TypeCorrect == Spec => []TypeOK
<1>1. IndInv => TypeOK
  BY DEF IndInv
<1> QED BY <1>1, Invariance, PTL

\* A reply that is not an error has every shard in it exactly once, with the exact answer
\* of a series that the shard had since the command began, for every number of shards,
\* commands and writes (ShardSeriesMapper, ShardMgetMapper, ShardQueryindexMapper,
\* SeriesRecord_New, SeriesRecord_IntoSeries, mget_done, mrange_done).
THEOREM RepliesSnapshots == Spec => []RepliesAreSnapshots
<1>1. IndInv => RepliesAreSnapshots
  BY DEF IndInv
<1> QED BY <1>1, Invariance, PTL

\* No thread uses the arguments of an execution after they were freed, although the list
\* of predicates is counted without atomic operations (QueryPredicates_ObjectFree,
\* QueryPredicateList_Free).
THEOREM NeverUsedAfterFree == Spec => []NoUseAfterFree
<1>1. ASSUME IndInv PROVE NoUseAfterFree
  <2>t. MemoryType /\ MemoryInv
    BY <1>1, IndInvParts
  <2> SUFFICES ASSUME NEW c \in Command
               PROVE  /\ exec[c] \in {"running", "done"} => arg[c] > 0 /\ ~list[c].freed
                      /\ main.cmd = c /\ main.pc \in {"freeExecution", "freeBuilder"} => arg[c] > 0
                      /\ \A th \in Thread : frees[c][th].pc \in {"check", "dec"} => list[c].ref >= 1 /\ ~list[c].freed
    BY DEF NoUseAfterFree
  <2>1. CASE exec[c] = "none"
    <3>1. Unheld(client[c], arg[c], frees[c], At(c))
      BY <2>t, <2>1 DEF MemoryInv, MemoryOf
    <3>2. \A th \in Thread : frees[c][th].pc = "no"
      BY <3>1 DEF Unheld, NotFreeing
    <3>3. main.cmd = c => main.pc = "idle"
      BY <3>1 DEF Unheld, At
    <3> QED BY <2>1, <3>2, <3>3
  <2>2. CASE exec[c] # "none"
    <3>1. query[c] \in Query /\ Held(query[c], exec[c], arg[c], list[c], frees[c], At(c), c, raced)
      BY <2>t, <2>2 DEF MemoryInv, MemoryOf
    <3>2. query[c].kind \in {"mget", "mrange", "queryindex"}
      BY <3>1, QueryAssumption DEF Kind
    <3>3. exec[c] \in {"running", "done"} => arg[c] > 0
      BY <3>1 DEF Held
    <3>4. main.cmd = c /\ main.pc \in {"freeExecution", "freeBuilder"} => arg[c] > 0
      BY <3>1 DEF Held, At, BuilderHolds
    <3>5. arg[c] > 0 => ~list[c].freed
      BY <3>1, <3>2 DEF Held, Sole, Shared
    <3>6. ASSUME NEW th \in Thread, frees[c][th].pc \in {"check", "dec"} PROVE list[c].ref >= 1 /\ ~list[c].freed
      BY <3>1, <3>2, <3>6 DEF Held, Sole, Shared, Thread
    <3> QED BY <3>3, <3>4, <3>5, <3>6
  <2> QED BY <2>1, <2>2
<1> QED BY <1>1, Invariance, PTL

\* What a command that ran allocated is freed when it is over on all threads, unless two
\* threads were between the test and the decrement of QueryPredicateList_Free at once.
THEOREM AllFreed == Spec => []PredicatesFreed
<1>1. ASSUME IndInv PROVE PredicatesFreed
  <2>t. MemoryType /\ MemoryInv
    BY <1>1, IndInvParts
  <2> SUFFICES ASSUME NEW c \in Command, exec[c] = "freed", main.cmd # c,
                      \A th \in Thread : frees[c][th].pc \in {"no", "end"}
               PROVE  arg[c] = 0 /\ (list[c].freed \/ c \in raced)
    BY DEF PredicatesFreed
  <2>1. query[c] \in Query /\ Held(query[c], "freed", arg[c], list[c], frees[c], "idle", c, raced)
    BY <2>t DEF MemoryInv, MemoryOf, At
  <2>2. query[c].kind \in {"mget", "mrange", "queryindex"}
    BY <2>1, QueryAssumption DEF Kind
  <2>3. arg[c] = 0
    BY <2>1 DEF Held, BuilderHolds
  <2>4. frees[c]["arg"].pc = "end"
    BY <2>1, <2>3 DEF Held, Thread
  <2>5. query[c].kind = "mrange" => frees[c]["done"].pc = "end"
    BY <2>1 DEF Held, Thread
  <2>6. query[c].kind = "queryindex" => frees[c]["main"].pc = "end"
    BY <2>1 DEF Held, Thread, ListHeld
  <2> QED BY <2>1, <2>2, <2>3, <2>4, <2>5, <2>6 DEF Held, Sole, Shared
<1> QED BY <1>1, Invariance, PTL
=============================================================================
