------------------------------- MODULE Cluster -------------------------------
(***************************************************************************)
(* TS.MGET, TS.MRANGE and TS.QUERYINDEX in a cluster (libmr_commands.c,    *)
(* libmr_integration.c).  The shard that gets the command blocks its       *)
(* client and hands an execution to LibMR, which lets every shard read its *)
(* series under the Redis lock, collects the records and calls a handler   *)
(* that replies and unblocks the client.  Meanwhile clients write and      *)
(* shards stop.                                                            *)
(*                                                                         *)
(* The main thread and LibMR's threads share the arguments of the          *)
(* execution: queryArg has an atomic reference count, the list of          *)
(* predicates in it a plain one, whose decrement takes two steps here.     *)
(*                                                                         *)
(* LibMR is not in the repository.  It is modelled as the code uses it:    *)
(* a reader is called until it returns NULL, a shard's records arrive in   *)
(* order, an execution that lost a shard ends with an error, late records  *)
(* are dropped, and the handler is called once.                            *)
(***************************************************************************)
EXTENDS Integers, Sequences, FiniteSets, SequencesExt

CONSTANTS
  Shard,      \* the shards, each with one series that may match the filters
  Me,         \* the shard that gets the commands
  Command,    \* commands of clients
  Query,      \* what a command may ask for
  Contents,   \* what a shard's series may be in the beginning
  NoSeries,   \* no series matches
  NotSeries,  \* the index names a key that is not a series any more
  NoReply, Failed, \* a reply that is still missing, an error
  ChunkLen,   \* samples per chunk
  MaxTime,    \* the last timestamp
  MaxWrites,  \* how often the shards' series change
  MaxStops    \* how often a shard stops

Kind == {"mget", "mrange", "queryindex"}
Time == 0..MaxTime

Series == [chunks : Seq(Seq(Time)), open : Time \cup {-1}]

\* Samples are sorted across the chunks, an empty chunk is the only one, and the open
\* bucket is newer than the samples.
WellFormed(v) ==
  /\ v \in Series /\ v.chunks # <<>>
  /\ \A i \in DOMAIN v.chunks : v.chunks[i] = <<>> => Len(v.chunks) = 1
  /\ \A i, j \in DOMAIN v.chunks : \A m \in DOMAIN v.chunks[i], n \in DOMAIN v.chunks[j] :
       i < j \/ (i = j /\ m < n) => v.chunks[i][m] < v.chunks[j][n]
  /\ v.open # -1 => \A i \in DOMAIN v.chunks : \A m \in DOMAIN v.chunks[i] : v.chunks[i][m] < v.open

ASSUME ShardAssumption == Me \in Shard
ASSUME BoundAssumption ==
  MaxTime \in Nat /\ MaxWrites \in Nat /\ MaxStops \in Nat /\ ChunkLen \in Nat \ {0}
ASSUME ContentsAssumption == \A v \in Contents : v \in {NoSeries, NotSeries} \/ WellFormed(v)
ASSUME MarkerAssumption == NoSeries # NotSeries /\ NoSeries \notin Series /\ NotSeries \notin Series
ASSUME QueryAssumption ==
  \A q \in Query : q.kind \in Kind /\ q.start \in Time /\ q.end \in Time /\ q.latest \in BOOLEAN

VARIABLES
  db,       \* per shard, its series: chunks, and the open bucket of its rule
  writes, stops, up,
  main,     \* what the main thread of Me is doing: a command and a place in its handler
  query, client, reply, \* per command; client is its state
  arg,      \* per command, refCount of its queryArg on Me
  list,     \* per command, ref of its predicates on Me, and whether they are freed
  frees,    \* per command and thread, the state of its QueryPredicateList_Free
  exec,     \* per command, the state of the execution
  returned, \* per command and shard, shouldReturnNull of its copy of queryArg
  reader,   \* per command and shard, the state of the reader
  inbox,    \* per command and shard, the records under way to Me
  results,  \* per command, the records collected
  errors,   \* per command, has LibMR reported an error?
  seen,     \* history: per command and shard, the series it had since the command began
  raced     \* history: the commands whose predicates two threads let go at once

data    == <<db, writes, stops, up, seen>>
asking  == <<query, client, reply>>
memory  == <<arg, list, frees, raced>>
running == <<exec, returned, reader, inbox, results, errors>>
vars    == <<data, main, asking, memory, running>>

Thread == {"main", "done", "arg"}
Place  == {"freeExecution", "freeBuilder", "inObjectFree", "builderFreed", "freePredicates"}
Idle   == [cmd |-> "none", pc |-> "idle"]
NotFreeing == [pc |-> "no", read |-> 0]

----------------------------------------------------------------------------
(***************************************************************************)
(* The data.  A series is the sequence of its chunks, each the sequence of *)
(* its timestamps; open is the first timestamp of the bucket its rule is   *)
(* filling, or -1.                                                         *)
(***************************************************************************)
IsSeries(v) == v # NoSeries /\ v # NotSeries
SamplesOf(v) == UNION {Range(v.chunks[i]) : i \in DOMAIN v.chunks}
LastTimestamp(v) == IF SamplesOf(v) = {} THEN 0 ELSE Max(SamplesOf(v))

\* LATEST is ignored unless the bucket is newer than the compacted samples.
Latest(q, v) == IF q.latest /\ v.open >= 0 /\ q.end > LastTimestamp(v) THEN {v.open} \ (q.end + 1 .. MaxTime)
                ELSE {}

Kept(q, chunk) == Last(chunk) >= q.start

\* SeriesRecord_New: the chunks a record takes along, by their places, the open
\* bucket behind them.
RecordChunks(q, v) ==
  LET Ends(i) == \/ v.chunks[i] = <<>>
                 \/ Kept(q, v.chunks[i]) /\ v.chunks[i][1] > q.end
      kept    == {i \in DOMAIN v.chunks : (\A j \in 1..i : ~Ends(j)) /\ Kept(q, v.chunks[i])}
      behind  == {Len(v.chunks) + 1 : t \in Latest(q, v)}
  IN  [i \in kept \cup behind |-> IF i \in kept THEN v.chunks[i] ELSE <<v.open>>]

\* SeriesRecord_IntoSeries files the chunks by their first timestamps; a second chunk
\* with the same one is lost.  Then the range is read from that series.
RangeOfRecord(q, chunks) ==
  LET Filed(i) == \A j \in DOMAIN chunks : j < i => chunks[j][1] # chunks[i][1]
  IN  {t \in UNION {Range(chunks[i]) : i \in {i \in DOMAIN chunks : Filed(i)}} : q.start <= t /\ t <= q.end}

\* ListWithSeriesLastDatapoint.
LastDatapoint(q, v) ==
  IF q.latest /\ v.open >= 0 THEN {v.open}
  ELSE IF SamplesOf(v) = {} THEN {} ELSE {LastTimestamp(v)}

\* The records a shard's reader makes of its series: a list of at most one.
ShardSeriesMapper(q, v)     == IF IsSeries(v) THEN <<RecordChunks(q, v)>> ELSE <<>>
ShardMgetMapper(q, v)       == IF IsSeries(v) THEN <<LastDatapoint(q, v)>> ELSE <<>>
ShardQueryindexMapper(q, v) == IF v = NoSeries THEN <<>> ELSE <<{}>>

Mapper(q, v) == CASE q.kind = "mrange"     -> ShardSeriesMapper(q, v)
                  [] q.kind = "mget"       -> ShardMgetMapper(q, v)
                  [] q.kind = "queryindex" -> ShardQueryindexMapper(q, v)

\* What the handler puts into the reply for a record.
Replied(q, r) == IF q.kind = "mrange" THEN RangeOfRecord(q, r) ELSE r

\* What clients' writes may make of a series.
Appended(v) ==
  LET t == LastTimestamp(v) + 1
      n == Len(v.chunks)
  IN  IF Len(v.chunks[n]) < ChunkLen THEN [v EXCEPT !.chunks[n] = Append(@, t)]
      ELSE [v EXCEPT !.chunks = Append(@, <<t>>)]

Changes(v) ==
  CASE v = NoSeries  -> {[chunks |-> <<<<>>>>, open |-> -1]}
    [] v = NotSeries -> {NoSeries}
    [] OTHER -> {NoSeries, NotSeries, [v EXCEPT !.chunks = <<<<>>>>]}
                  \cup (IF v.open < 0 /\ LastTimestamp(v) < MaxTime THEN {Appended(v)} ELSE {})

----------------------------------------------------------------------------
Init ==
  /\ db \in [Shard -> Contents]
  /\ writes = 0 /\ stops = 0 /\ up = Shard
  /\ main = Idle
  /\ query = [c \in Command |-> NoReply]
  /\ client = [c \in Command |-> "new"]
  /\ reply = [c \in Command |-> NoReply]
  /\ arg = [c \in Command |-> 0]
  /\ list = [c \in Command |-> [ref |-> 0, freed |-> FALSE]]
  /\ frees = [c \in Command |-> [th \in Thread |-> NotFreeing]]
  /\ exec = [c \in Command |-> "none"]
  /\ returned = [c \in Command |-> [s \in Shard |-> FALSE]]
  /\ reader = [c \in Command |-> [s \in Shard |-> "none"]]
  /\ inbox = [c \in Command |-> [s \in Shard |-> <<>>]]
  /\ results = [c \in Command |-> <<>>]
  /\ errors = [c \in Command |-> FALSE]
  /\ seen = [c \in Command |-> [s \in Shard |-> {}]]
  /\ raced = {}

\* The Redis lock of a shard: a command of Me holds that of Me until it returns.
Unlocked(s) == s = Me => main = Idle

\* A command that writes to shard s.
Write(s) ==
  /\ writes < MaxWrites /\ s \in up /\ Unlocked(s)
  /\ \E v \in Changes(db[s]) :
       /\ db' = [db EXCEPT ![s] = v]
       /\ seen' = [c \in Command |-> [seen[c] EXCEPT ![s] = IF exec[c] = "running" THEN @ \cup {v} ELSE @]]
  /\ writes' = writes + 1
  /\ UNCHANGED <<stops, up, main, asking, memory, running>>

\* A shard stops; what it has not sent is lost.  Its data are kept.
Stop(s) ==
  /\ stops < MaxStops /\ s # Me /\ s \in up
  /\ up' = up \ {s}
  /\ stops' = stops + 1
  /\ reader' = [c \in Command |-> [reader[c] EXCEPT ![s] = IF @ = "mapping" THEN "lost" ELSE @]]
  /\ UNCHANGED <<db, writes, seen, main, asking, memory, exec, returned, inbox, results, errors>>

Restart(s) ==
  /\ s \notin up
  /\ up' = up \cup {s}
  /\ UNCHANGED <<db, writes, stops, seen, main, asking, memory, running>>

----------------------------------------------------------------------------
(***************************************************************************)
(* The command handlers, on the main thread.                               *)
(***************************************************************************)

\* Inside MULTI, Lua or where blocking is not allowed.  TS.QUERYINDEX has parsed its
\* predicates by then, and keeps them.
Refuse(c, q) ==
  /\ client[c] = "new" /\ main = Idle
  /\ query' = [query EXCEPT ![c] = q]
  /\ client' = [client EXCEPT ![c] = "answered"]
  /\ reply' = [reply EXCEPT ![c] = Failed]
  /\ list' = [list EXCEPT ![c].ref = IF q.kind = "queryindex" THEN 1 ELSE 0]
  /\ UNCHANGED <<data, main, arg, frees, raced, running>>

\* Mutant: the predicates are handed over without counting the second reference.
RefsMoved(q) == 1

\* Mutant: TS.MGET counts a second reference too, which nobody lets go.
RefsShared(q) == 2

\* Mutant: the reference of the builder is counted as well.
RefsOfBuilder(q) == IF q.kind = "mget" THEN 2 ELSE 3

\* TS.MGET hands its predicates over to queryArg, the others share them with it.
Refs(q) == IF q.kind = "mget" THEN 1 ELSE 2

\* MR_CreateExecution fails: the builder takes queryArg with it.  TS.QUERYINDEX lets go of
\* its own reference as well, TS.MRANGE does not.
CreateFails(c, q) ==
  /\ client[c] = "new" /\ main = Idle
  /\ query' = [query EXCEPT ![c] = q]
  /\ client' = [client EXCEPT ![c] = "answered"]
  /\ reply' = [reply EXCEPT ![c] = Failed]
  /\ list' = [list EXCEPT ![c] = IF q.kind = "mrange" THEN [ref |-> 1, freed |-> FALSE]
                                 ELSE [ref |-> 1, freed |-> TRUE]]
  /\ UNCHANGED <<data, main, arg, frees, raced, running>>

\* The client is blocked and the execution runs; it has its own reference to queryArg.
Run(c, q) ==
  /\ client[c] = "new" /\ main = Idle
  /\ query' = [query EXCEPT ![c] = q]
  /\ client' = [client EXCEPT ![c] = "blocked"]
  /\ arg' = [arg EXCEPT ![c] = 2]
  /\ list' = [list EXCEPT ![c].ref = Refs(q)]
  /\ exec' = [exec EXCEPT ![c] = "running"]
  /\ reader' = [reader EXCEPT ![c] = [s \in Shard |-> "unsent"]]
  /\ seen' = [seen EXCEPT ![c] = [s \in Shard |-> {db[s]}]]
  /\ main' = [cmd |-> c, pc |-> "freeExecution"]
  /\ UNCHANGED <<db, writes, stops, up, reply, frees, raced, returned, inbox, results, errors>>

MainFreeExecution ==
  /\ main.pc = "freeExecution"
  /\ main' = [main EXCEPT !.pc = "freeBuilder"]
  /\ UNCHANGED <<data, asking, memory, running>>

\* QueryPredicates_ObjectFree; the last reference takes the predicates with it.
ObjectFree(c) ==
  /\ arg' = [arg EXCEPT ![c] = @ - 1]
  /\ frees' = IF arg[c] = 1 THEN [frees EXCEPT ![c]["arg"].pc = "check"] ELSE frees

MainFreeBuilder ==
  /\ main.pc = "freeBuilder"
  /\ ObjectFree(main.cmd)
  /\ main' = [main EXCEPT !.pc = IF arg[main.cmd] = 1 THEN "inObjectFree" ELSE "builderFreed"]
  /\ UNCHANGED <<data, asking, list, raced, running>>

\* TS.QUERYINDEX lets go of its predicates, the others return.
MainReturns ==
  /\ \/ main.pc = "builderFreed"
     \/ main.pc = "inObjectFree" /\ frees[main.cmd]["arg"].pc = "end"
  /\ IF query[main.cmd].kind = "queryindex"
     THEN /\ main' = [main EXCEPT !.pc = "freePredicates"]
          /\ frees' = [frees EXCEPT ![main.cmd]["main"].pc = "check"]
     ELSE main' = Idle /\ UNCHANGED frees
  /\ UNCHANGED <<data, asking, arg, list, raced, running>>

MainFreedPredicates ==
  /\ main.pc = "freePredicates" /\ frees[main.cmd]["main"].pc = "end"
  /\ main' = Idle
  /\ UNCHANGED <<data, asking, memory, running>>

----------------------------------------------------------------------------
(***************************************************************************)
(* QueryPredicateList_Free by thread th: the test, then the decrement.     *)
(* The count may be read once for both.                                    *)
(***************************************************************************)
FreeTest(c, th) ==
  /\ frees[c][th].pc = "check"
  /\ IF list[c].ref > 1
     THEN /\ frees' = [frees EXCEPT ![c][th] = [pc |-> "dec", read |-> list[c].ref]]
          /\ UNCHANGED list
     ELSE /\ frees' = [frees EXCEPT ![c][th].pc = "end"]
          /\ list' = [list EXCEPT ![c].freed = TRUE]
  /\ raced' = IF \E other \in Thread \ {th} : frees[c][other].pc = "dec" THEN raced \cup {c} ELSE raced
  /\ UNCHANGED <<data, main, asking, arg, running>>

FreeDecrement(c, th) ==
  /\ frees[c][th].pc = "dec"
  /\ \E r \in {list[c].ref, frees[c][th].read} : list' = [list EXCEPT ![c].ref = r - 1]
  /\ frees' = [frees EXCEPT ![c][th].pc = "end"]
  /\ UNCHANGED <<data, main, asking, arg, raced, running>>

----------------------------------------------------------------------------
(***************************************************************************)
(* The execution, on LibMR's threads.                                      *)
(***************************************************************************)

\* Mutant: a shard's copy of queryArg keeps what shouldReturnNull happens to be.
ArgDeserializeGarbage == BOOLEAN

\* QueryPredicates_ArgDeserialize: shouldReturnNull of a new copy.
ArgDeserialize == {FALSE}

\* The execution reaches shard s; other shards get a copy of queryArg.
Send(c, s) ==
  /\ exec[c] = "running" /\ reader[c][s] = "unsent"
  /\ reader' = [reader EXCEPT ![c][s] = IF s \in up THEN "mapping" ELSE "lost"]
  /\ \E null \in IF s = Me THEN {FALSE} ELSE ArgDeserialize : returned' = [returned EXCEPT ![c][s] = null]
  /\ UNCHANGED <<data, main, asking, memory, exec, inbox, results, errors>>

\* The reader's first call reads the shard under the lock.
Read(c, s) ==
  /\ exec[c] = "running" /\ reader[c][s] = "mapping" /\ s \in up
  /\ ~returned[c][s] /\ Unlocked(s)
  /\ returned' = [returned EXCEPT ![c][s] = TRUE]
  /\ inbox' = [inbox EXCEPT ![c][s] = Append(@, Mapper(query[c], db[s]))]
  /\ UNCHANGED <<data, main, asking, memory, exec, reader, results, errors>>

\* Its second call returns NULL.
ReadEnds(c, s) ==
  /\ exec[c] = "running" /\ reader[c][s] = "mapping" /\ s \in up
  /\ returned[c][s]
  /\ reader' = [reader EXCEPT ![c][s] = "finished"]
  /\ UNCHANGED <<data, main, asking, memory, exec, returned, inbox, results, errors>>

Collect(c, s) ==
  /\ exec[c] = "running" /\ inbox[c][s] # <<>>
  /\ results' = [results EXCEPT ![c] = Append(@, [shard |-> s, records |-> Head(inbox[c][s])])]
  /\ inbox' = [inbox EXCEPT ![c][s] = Tail(@)]
  /\ UNCHANGED <<data, main, asking, memory, exec, returned, reader, errors>>

\* A lost shard is noticed, by the connection or by the timeout of the execution; a slow
\* one may be taken for lost.
Fail(c) ==
  /\ exec[c] = "running" /\ ~errors[c]
  /\ errors' = [errors EXCEPT ![c] = TRUE]
  /\ UNCHANGED <<data, main, asking, memory, exec, returned, reader, inbox, results>>

Collected(c) == \A s \in Shard : reader[c][s] = "finished" /\ inbox[c][s] = <<>>

\* The records of all shards, in the order they came in, each under its shard's key.
ReplyOf(c) ==
  [i \in DOMAIN results[c] |->
    [key    |-> results[c][i].shard,
     values |-> [j \in DOMAIN results[c][i].records |-> Replied(query[c], results[c][i].records[j])]]]

CheckAndReply(c) == IF errors[c] THEN Failed ELSE ReplyOf(c)

\* mget_done and mrange_done begin; the latter lets go of its predicates.
Done(c) ==
  /\ exec[c] = "running" /\ (errors[c] \/ Collected(c))
  /\ exec' = [exec EXCEPT ![c] = "done"]
  /\ reply' = [reply EXCEPT ![c] = CheckAndReply(c)]
  /\ frees' = IF query[c].kind = "mrange" THEN [frees EXCEPT ![c]["done"].pc = "check"] ELSE frees
  /\ UNCHANGED <<data, main, query, client, arg, list, raced, returned, reader, inbox, results, errors>>

\* Mutant: after an error the handler returns without unblocking the client.
UnblockUnlessError(c) ==
  /\ exec[c] = "done" /\ client[c] = "blocked" /\ ~errors[c]
  /\ frees[c]["done"].pc \in {"no", "end"}
  /\ client' = [client EXCEPT ![c] = "unblocked"]
  /\ UNCHANGED <<data, main, query, reply, memory, running>>

\* The end of the handler: RTS_UnblockClient.
Unblock(c) ==
  /\ exec[c] = "done" /\ client[c] = "blocked"
  /\ frees[c]["done"].pc \in {"no", "end"}
  /\ client' = [client EXCEPT ![c] = "unblocked"]
  /\ UNCHANGED <<data, main, query, reply, memory, running>>

\* The main thread sends the reply and frees the context (rts_free_rctx).
Answer(c) ==
  /\ client[c] = "unblocked" /\ main = Idle
  /\ client' = [client EXCEPT ![c] = "answered"]
  /\ UNCHANGED <<data, main, query, reply, memory, running>>

\* LibMR lets go of the execution, once the handler is through and the caller has let go.
ExecutionFree(c) ==
  /\ exec[c] = "done" /\ client[c] \in {"unblocked", "answered"}
  /\ ~(main.cmd = c /\ main.pc = "freeExecution")
  /\ exec' = [exec EXCEPT ![c] = "freed"]
  /\ ObjectFree(c)
  /\ UNCHANGED <<data, main, asking, list, raced, returned, reader, inbox, results, errors>>

----------------------------------------------------------------------------
MainStep == MainFreeExecution \/ MainFreeBuilder \/ MainReturns \/ MainFreedPredicates

ExecutionStep(c) ==
  \/ \E s \in Shard : Send(c, s) \/ Read(c, s) \/ ReadEnds(c, s) \/ Collect(c, s)
  \/ Done(c) \/ Unblock(c) \/ Answer(c) \/ ExecutionFree(c)
  \/ \E th \in Thread : FreeTest(c, th) \/ FreeDecrement(c, th)

Next ==
  \/ \E s \in Shard : Write(s) \/ Stop(s) \/ Restart(s)
  \/ \E c \in Command, q \in Query : Refuse(c, q) \/ CreateFails(c, q) \/ Run(c, q)
  \/ MainStep
  \/ \E c \in Command : ExecutionStep(c) \/ Fail(c)

\* Threads run on; a lost shard is noticed.
LostShard(c) == \E s \in Shard : reader[c][s] = "lost"

Fairness ==
  /\ WF_vars(MainStep)
  /\ \A c \in Command : WF_vars(ExecutionStep(c)) /\ WF_vars(LostShard(c) /\ Fail(c))

Spec == Init /\ [][Next]_vars /\ Fairness

----------------------------------------------------------------------------
(***************************************************************************)
(* Properties.                                                             *)
(***************************************************************************)

TypeOK ==
  /\ writes \in 0..MaxWrites /\ stops \in 0..MaxStops /\ up \subseteq Shard
  /\ main = Idle \/ main \in [cmd : Command, pc : Place]
  /\ client \in [Command -> {"new", "blocked", "unblocked", "answered"}]
  /\ arg \in [Command -> 0..2]
  /\ list \in [Command -> [ref : 0..2, freed : BOOLEAN]]
  /\ frees \in [Command -> [Thread -> [pc : {"no", "check", "dec", "end"}, read : 0..2]]]
  /\ exec \in [Command -> {"none", "running", "done", "freed"}]
  /\ reader \in [Command -> [Shard -> {"none", "unsent", "mapping", "lost", "finished"}]]
  /\ errors \in [Command -> BOOLEAN]

\* What the samples of a series v answer, without chunks, records and threads.  A
\* toTimestamp of 0 is never behind lastTimestamp, so LATEST is ignored then.
ExactAnswer(q, v) ==
  CASE q.kind = "queryindex" -> {{}}
    [] q.kind = "mget"       -> {IF q.latest /\ v.open >= 0 THEN {v.open}
                                 ELSE {t \in SamplesOf(v) : \A u \in SamplesOf(v) : u <= t}}
    [] q.kind = "mrange"     -> {{t \in SamplesOf(v) \cup (IF q.latest /\ q.end > 0 THEN {v.open} ELSE {}) :
                                    q.start <= t /\ t <= q.end}}

Answers(q, v) ==
  IF v = NoSeries \/ (v = NotSeries /\ q.kind # "queryindex") THEN {} ELSE ExactAnswer(q, v)

\* What a reply has of shard s.
PartsOf(r, s) == {i \in DOMAIN r : r[i].key = s}

(***************************************************************************)
(* A reply that is not an error has every shard in it once, with the exact *)
(* answer of the series the shard had at some moment since the command     *)
(* began: no shard is left out or doubled by a retry of the reader, a late *)
(* record or an error (ShardSeriesMapper, ShardMgetMapper,                 *)
(* ShardQueryindexMapper, mget_done, mrange_done).                         *)
(***************************************************************************)
RepliesAreSnapshots ==
  \A c \in Command : reply[c] \notin {NoReply, Failed} =>
    \A s \in Shard :
      \E i \in DOMAIN reply[c], v \in seen[c][s] :
        /\ PartsOf(reply[c], s) = {i} /\ Len(reply[c][i].values) <= 1
        /\ Range(reply[c][i].values) = Answers(query[c], v)

(***************************************************************************)
(* No thread reads the arguments of an execution after they were freed:    *)
(* readers and the serialization while it runs, the main thread until its  *)
(* builder and its list are freed, the handler until it has let go         *)
(* (QueryPredicates_ObjectFree, QueryPredicateList_Free with its assertion *)
(* that the last reference is 1).                                          *)
(***************************************************************************)
NoUseAfterFree ==
  \A c \in Command :
    /\ exec[c] \in {"running", "done"} => arg[c] > 0 /\ ~list[c].freed
    /\ main.cmd = c /\ main.pc \in {"freeExecution", "freeBuilder"} => arg[c] > 0
    /\ \A th \in Thread : frees[c][th].pc \in {"check", "dec"} => list[c].ref >= 1 /\ ~list[c].freed

(***************************************************************************)
(* When a command that ran is over on all threads its predicates are       *)
(* freed, unless two threads were between the test and the decrement of    *)
(* QueryPredicateList_Free at the same time.                               *)
(***************************************************************************)
PredicatesFreed ==
  \A c \in Command :
    /\ exec[c] = "freed" /\ main.cmd # c
    /\ \A th \in Thread : frees[c][th].pc \in {"no", "end"}
    => arg[c] = 0 /\ (list[c].freed \/ c \in raced)

(***************************************************************************)
(* A client that was blocked gets its answer, also when a shard stops in   *)
(* the middle (check_and_reply_on_error, RTS_UnblockClient).               *)
(***************************************************************************)
ClientsAnswered ==
  \A c \in Command : client[c] = "blocked" ~> client[c] = "answered"

=============================================================================
