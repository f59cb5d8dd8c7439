------------------------------ MODULE EventBus ------------------------------
(***************************************************************************)
(* The event stream of ONE run: the counter mm:seq:<run> and the stream    *)
(* mm:events:<run> in Redis, and everybody who writes to them.             *)
(*                                                                         *)
(* Every producer does the same two Redis calls, INCR then XADD, and       *)
(* nothing joins them: another producer may INCR and XADD in between.      *)
(* Five kinds of producer exist:                                           *)
(*   - the worker's coroutine for the run's job, one event at a time;      *)
(*   - one coroutine per fine-tune turn.  The run lock keeps a turn apart  *)
(*     from run_pipeline in one process only, and never from the "error"   *)
(*     main._process emits once it has left the lock: a turn may emit      *)
(*     beside the job's coroutine at any time;                             *)
(*   - the searcher's source coroutines (arXiv, OpenAlex, Crossref, web),  *)
(*     gathered, each of which logs its own failure;                       *)
(*   - the gateway's handler of an LLM call, whose cost accounting comes   *)
(*     before [DONE] is sent to the coroutine that waits for the call;     *)
(*   - one detached gateway task per token delta of an LLM call.           *)
(*                                                                         *)
(* Payloads are dropped; an entry keeps its seq and its kind.  "stage"     *)
(* stands for every event of the pipeline coroutine that ends nothing      *)
(* (stage.start, stage.done, log, agent.output, kernel.* ), "log" for a    *)
(* source's failure log, "finetune" for every event of a turn.  A process  *)
(* that crashes takes no more steps, which a coroutine may do anywhere.    *)
(***************************************************************************)
EXTENDS Naturals, Sequences, FiniteSets

CONSTANTS Tokens,  \* the token tasks that may be spawned, each once
          Sources, \* the source searches gathered by the searcher stage
          Calls,   \* the LLM requests, each the handler that answers it
          Turns,   \* the fine-tune turns of the run
          MaxLen,  \* EVENTS_MAXLEN, the length the stream is trimmed to
          MaxSeq   \* bound on the number of INCRs

Coroutines == {"worker"} \cup Turns

Tasks == Tokens \cup Sources \cup Calls

Nobody == "nobody"

NoCall == "no call"

ASSUME BusAssumption ==
  /\ MaxLen \in Nat \ {0}
  /\ MaxSeq \in Nat
  /\ Tasks \cap (Coroutines \cup {Nobody, NoCall}) = {}
  /\ Turns \cap {"worker", Nobody} = {}
  /\ Tokens \cap Sources = {} /\ Calls \cap (Tokens \cup Sources) = {}

VARIABLES seq,     \* mm:seq:<run>: the last number handed out
          stream,  \* every entry ever XADDed, oldest first
          floor,   \* how many of the oldest entries MAXLEN has rolled off
          held,    \* per producer: the entry it has a number for, not XADDed
          phase,   \* where each coroutine stands
          waits,   \* the call each coroutine waits for
          task     \* per token task, source and call: how far it has got

busVars == <<seq, stream, floor, held, phase, waits, task>>

Producers == Coroutines \cup Tasks

Kinds == {"stage", "error", "done", "finetune", "token", "cost", "log"}

\* `of` is history: the coroutine that goes on only when the entry is on the
\* stream, if there is one.
Entry == [seq : 1..MaxSeq, kind : Kinds, of : Coroutines \cup {Nobody}]

NoEntry == [seq |-> 0, kind |-> "none", of |-> Nobody]

-----------------------------------------------------------------------------
(* The two Redis calls of a producer.                                      *)

\* INCR mm:seq:<run>
IncrSeq(p, kind, w) ==
  /\ held[p] = NoEntry
  /\ seq < MaxSeq
  /\ seq' = seq + 1
  /\ held' = [held EXCEPT ![p] = [seq |-> seq + 1, kind |-> kind, of |-> w]]

\* A number that is read and written back in two calls instead of one INCR.
IncrSeqRacy(p, kind, w) ==
  /\ held[p] = NoEntry
  /\ seq < MaxSeq
  /\ seq' = Len(stream) + 1
  /\ held' = [held EXCEPT ![p] =
                [seq |-> Len(stream) + 1, kind |-> kind, of |-> w]]

\* The number before the increment.
IncrSeqPrior(p, kind, w) ==
  /\ held[p] = NoEntry
  /\ seq < MaxSeq
  /\ seq' = seq + 1
  /\ held' = [held EXCEPT ![p] = [seq |-> seq, kind |-> kind, of |-> w]]

NextSeq(p, kind, w) == IncrSeq(p, kind, w)

\* XADD ... MAXLEN ~ n: approximate trimming may keep more than MaxLen
\* entries but never rolls off one of the MaxLen newest.
Xadd(p) ==
  /\ held[p] # NoEntry
  /\ stream' = Append(stream, held[p])
  /\ held' = [held EXCEPT ![p] = NoEntry]
  /\ floor' \in {k \in floor..Len(stream) :
                   k = floor \/ Len(stream) + 1 - k >= MaxLen}

-----------------------------------------------------------------------------
BusInit ==
  /\ seq = 0
  /\ stream = <<>>
  /\ floor = 0
  /\ held = [p \in Producers |-> NoEntry]
  /\ phase = [w \in Coroutines |-> "run"]
  /\ waits = [w \in Coroutines |-> NoCall]
  /\ task = [t \in Tasks |-> "unspawned"]

\* A coroutine that is at its next emit or call.
Free(w) ==
  /\ phase[w] \in {"run", "erred"}
  /\ waits[w] = NoCall /\ held[w] = NoEntry

\* What a coroutine may emit next.  After an "error" the pipeline may carry on
\* (the exception was swallowed), announce "done", or have died; once its own
\* emit has raised, an "error" (of a turn: finetune.session.error) is left.
Emittable(w) ==
  CASE Free(w)             -> IF w = "worker" THEN {"stage", "error", "done"}
                                              ELSE {"finetune"}
    [] phase[w] = "raised" -> IF w = "worker" THEN {"error"} ELSE {"finetune"}
    [] OTHER               -> {}

\* emit(), first await: draw the number.
EmitReserve(w, kind) ==
  /\ kind \in Emittable(w)
  /\ NextSeq(w, kind, w)
  /\ UNCHANGED <<stream, floor, phase, waits, task>>

\* emit(), second await: the entry is on the stream and emit() returns.
EmitAppend(w) ==
  /\ Xadd(w)
  /\ phase' = [phase EXCEPT ![w] =
                 CASE phase[w] = "raised"     -> "finished"
                   [] held[w].kind = "error"  -> "erred"
                   [] held[w].kind = "done"   -> "finished"
                   [] OTHER                   -> "run"]
  /\ UNCHANGED <<seq, waits, task>>

\* An XADD that raises, executed or not: the exception leaves run_pipeline (or
\* the agent), and main._process (run_finetune) tries one more emit.
EmitRaises(w) ==
  /\ held[w] # NoEntry
  /\ \/ Xadd(w)
     \/ held' = [held EXCEPT ![w] = NoEntry] /\ UNCHANGED <<stream, floor>>
  /\ phase' = [phase EXCEPT ![w] =
                 IF phase[w] = "raised" THEN "finished" ELSE "raised"]
  /\ UNCHANGED <<seq, waits, task>>

\* The pipeline ends without a "done": main._process has emitted the "error"
\* of an exception run_pipeline does not catch.
PipelineDies ==
  /\ phase["worker"] \in {"erred", "raised"}
  /\ held["worker"] = NoEntry /\ waits["worker"] = NoCall
  /\ phase' = [phase EXCEPT !["worker"] = "finished"]
  /\ UNCHANGED <<seq, stream, floor, held, waits, task>>

-----------------------------------------------------------------------------
(* A detached or gathered task that emits one event.                       *)

TaskReserve(t, kind) ==
  /\ task[t] = "spawned"
  /\ NextSeq(t, kind, Nobody)
  /\ task' = [task EXCEPT ![t] = "reserved"]
  /\ UNCHANGED <<stream, floor, phase, waits>>

TaskAppend(t) ==
  /\ task[t] = "reserved"
  /\ Xadd(t)
  /\ task' = [task EXCEPT ![t] = "gone"]
  /\ UNCHANGED <<seq, phase, waits>>

-----------------------------------------------------------------------------
(* The searcher stage: asyncio.gather over the sources, once per run.      *)

StartSearch ==
  /\ Free("worker")
  /\ \A s \in Sources : task[s] = "unspawned"
  /\ Sources # {}
  /\ phase' = [phase EXCEPT !["worker"] = "search"]
  /\ task' = [t \in Tasks |-> IF t \in Sources THEN "spawned" ELSE task[t]]
  /\ UNCHANGED <<seq, stream, floor, held, waits>>

\* A source that answers logs nothing.
SourceAnswers(s) ==
  /\ task[s] = "spawned"
  /\ task' = [task EXCEPT ![s] = "gone"]
  /\ UNCHANGED <<seq, stream, floor, held, phase, waits>>

SourceLogReserve(s) == TaskReserve(s, "log")

SourceLogAppend(s) == TaskAppend(s)

\* The log call itself raises.  gather() hands the first exception to the
\* pipeline at once and leaves the other sources running.
SourceLogRaises(s) ==
  /\ task[s] \in {"spawned", "reserved"}
  /\ held' = [held EXCEPT ![s] = NoEntry]
  /\ task' = [task EXCEPT ![s] = "gone"]
  /\ phase' = [phase EXCEPT !["worker"] = IF @ = "search" THEN "raised" ELSE @]
  /\ UNCHANGED <<seq, stream, floor, waits>>

GatherReturns ==
  /\ phase["worker"] = "search"
  /\ \A s \in Sources : task[s] = "gone"
  /\ phase' = [phase EXCEPT !["worker"] = "run"]
  /\ UNCHANGED <<seq, stream, floor, held, waits, task>>

-----------------------------------------------------------------------------
(* The LLM calls: a coroutine awaits the gateway's SSE response.           *)

BeginCall(w, c) ==
  /\ Free(w)
  /\ task[c] = "unspawned"
  /\ task' = [task EXCEPT ![c] = "open"]
  /\ waits' = [waits EXCEPT ![w] = c]
  /\ UNCHANGED <<seq, stream, floor, held, phase>>

\* A transport failure of the response (the read timeout, a broken connection)
\* at any point of it: the coroutine goes on at once, to its retry log or to
\* an error, and the handler goes on too until it notices.  What the handler
\* still puts on the stream holds nobody back any more.
Abandon(w) ==
  /\ waits[w] # NoCall
  /\ waits' = [waits EXCEPT ![w] = NoCall]
  /\ held' = [held EXCEPT ![waits[w]].of = Nobody]
  /\ UNCHANGED <<seq, stream, floor, phase, task>>

\* A non-empty delta: tokio::spawn(xadd_token) and go on.
SpawnToken(t) ==
  /\ \E c \in Calls : task[c] = "open"
  /\ task[t] = "unspawned"
  /\ task' = [task EXCEPT ![t] = "spawned"]
  /\ UNCHANGED <<seq, stream, floor, held, phase, waits>>

TokenReserve(t) == TaskReserve(t, "token")

TokenAppend(t) == TaskAppend(t)

\* Redis refuses the token: logged at debug level and dropped.
TokenDropped(t) ==
  /\ task[t] \in {"spawned", "reserved"}
  /\ held' = [held EXCEPT ![t] = NoEntry]
  /\ task' = [task EXCEPT ![t] = "gone"]
  /\ UNCHANGED <<seq, stream, floor, phase, waits>>

Waiter(c) ==
  IF \E w \in Coroutines : waits[w] = c
  THEN CHOOSE w \in Coroutines : waits[w] = c
  ELSE Nobody

\* The end of the response releases the coroutine that waits for it.
Released(c) ==
  [w \in Coroutines |-> IF waits[w] = c THEN NoCall ELSE waits[w]]

\* Sending [DONE] as soon as the upstream is exhausted, with the cost
\* accounting left to run on its own.
DoneBeforeCost(c) ==
  /\ task[c] = "open"
  /\ NextSeq(c, "cost", Waiter(c))
  /\ task' = [task EXCEPT ![c] = "reserved"]
  /\ waits' = Released(c)
  /\ UNCHANGED <<stream, floor, phase>>

\* The upstream is exhausted cleanly: account for the cost, [DONE] waits.
UpstreamEnds(c) ==
  /\ task[c] = "open"
  /\ task' = [task EXCEPT ![c] = "costing"]
  /\ UNCHANGED <<seq, stream, floor, held, phase, waits>>

\* An upstream error ends the response, or a handler nobody reads from any
\* more is dropped: no cost event.
UpstreamFails(c) ==
  /\ task[c] = "open"
  /\ task' = [task EXCEPT ![c] = "gone"]
  /\ waits' = Released(c)
  /\ UNCHANGED <<seq, stream, floor, held, phase>>

CostReserve(c) ==
  /\ task[c] = "costing"
  /\ NextSeq(c, "cost", Waiter(c))
  /\ task' = [task EXCEPT ![c] = "reserved"]
  /\ UNCHANGED <<stream, floor, phase, waits>>

\* The cost event is on the stream; [DONE] goes out.
CostAppend(c) ==
  /\ task[c] = "reserved"
  /\ Xadd(c)
  /\ task' = [task EXCEPT ![c] = "gone"]
  /\ waits' = Released(c)
  /\ UNCHANGED <<seq, phase>>

\* A database or Redis error in the cost accounting is logged and [DONE] goes
\* out, or an abandoned handler is dropped in the middle of it.
CostFails(c) ==
  /\ task[c] \in {"costing", "reserved"}
  /\ held' = [held EXCEPT ![c] = NoEntry]
  /\ task' = [task EXCEPT ![c] = "gone"]
  /\ waits' = Released(c)
  /\ UNCHANGED <<seq, stream, floor, phase>>

-----------------------------------------------------------------------------
Emit(w) ==
  \/ \E kind \in Kinds : EmitReserve(w, kind)
  \/ EmitAppend(w)
  \/ EmitRaises(w)
  \/ Abandon(w)
  \/ \E c \in Calls : BeginCall(w, c)

Answer(c) ==
  \/ UpstreamEnds(c)
  \/ UpstreamFails(c)
  \/ CostReserve(c)
  \/ CostAppend(c)
  \/ CostFails(c)

Token(t) ==
  \/ SpawnToken(t)
  \/ TokenReserve(t)
  \/ TokenAppend(t)
  \/ TokenDropped(t)

Source(s) ==
  \/ SourceAnswers(s)
  \/ SourceLogReserve(s)
  \/ SourceLogAppend(s)
  \/ SourceLogRaises(s)

BusNext ==
  \/ \E w \in Coroutines : Emit(w)
  \/ PipelineDies \/ StartSearch \/ GatherReturns
  \/ \E c \in Calls : Answer(c)
  \/ \E t \in Tokens : Token(t)
  \/ \E s \in Sources : Source(s)

BusSpec == BusInit /\ [][BusNext]_busVars

-----------------------------------------------------------------------------
\* Type invariant of the stream, the counter and the producers.
BusTypeOK ==
  /\ seq \in 0..MaxSeq
  /\ stream \in Seq(Entry)
  /\ floor \in 0..Len(stream)
  /\ held \in [Producers -> Entry \cup {NoEntry}]
  /\ phase \in [Coroutines -> {"run", "erred", "raised", "search", "finished"}]
  /\ waits \in [Coroutines -> Calls \cup {NoCall}]
  /\ task \in [Tasks -> {"unspawned", "spawned", "open", "costing",
                         "reserved", "gone"}]

\* No two entries of the stream carry the same seq, however the worker, the
\* turns, the cost accounting and the token tasks interleave.  The audit
\* table's primary key (run_id, seq) with ON CONFLICT DO NOTHING silently loses
\* an event otherwise, and the WebSocket filter drops it.
SeqUnique ==
  \A i, j \in 1..Len(stream) : i # j => stream[i].seq # stream[j].seq

\* What marks the progress of a coroutine is on the stream in the order of its
\* numbers: its own events, each of which it awaits, and the cost of each call
\* it waited for to the end, which is on the stream before it sees [DONE] and
\* emits again.  Nothing orders a token, a source's log, the cost of a call it
\* abandoned, or what another coroutine emits.
MilestonesInOrder ==
  \A i, j \in 1..Len(stream) :
     (i < j /\ stream[i].of = stream[j].of /\ stream[i].of # Nobody)
        => stream[i].seq < stream[j].seq

=============================================================================
