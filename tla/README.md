# Mathodology in TLA+

Mathodology turns the statement of a modelling problem into a paper. A Vue
front end talks to a Rust gateway; Python workers run a pipeline of LLM agents
(analyzer, searcher, modeler, coder, writer, each reviewed by a critic); Redis
carries jobs, events, cancel keys and cost counters between them; Postgres holds
runs, the audit of their events and the cost ledger. Almost everything that can
go wrong goes wrong *between* these parts. The modules here model those
places, TLC checks them on small instances, and TLAPS proves what matters most
for every instance.

Paths below: `worker/` is `apps/agent-worker/src/agent_worker/`, `gateway/` is
`crates/gateway/src/`, `web/` is `apps/web/src/`.

## 1. The system's parts

| part | code | state | operations | talks to |
|---|---|---|---|---|
| run event bus | `worker/events.py`, `gateway/llm/stream.rs`, `gateway/routes/llm.rs`, `gateway/llm/cost.rs` | `mm:seq:<run>`, `mm:events:<run>` | INCR + XADD by the pipeline, fine-tune turns, gathered searches, cost accounting, detached token tasks | read by the run feed and by the audit task |
| run feed | `gateway/routes/ws_run.rs`, `web/api/ws.ts` | `last_id`, `last_seq` of a session; `lastSeq`, `attempts`, `terminal` of the client | hello, XREAD, filter, send, close; reconnect with backoffs | bus, web stores |
| run lifecycle | `gateway/routes/runs.rs`, `gateway/audit.rs`, `worker/cancellation.py`, `worker/main.py`, outcomes of `worker/pipeline.py` | `runs.status`, `events_audit`, `mm:cancel:<run>`, audit tasks in memory | create, cancel, audit, announce an outcome | Postgres, bus, job queue |
| job queue and workers | `gateway/dispatch.rs`, `worker/main.py`, `worker/finetune_main.py` | `mm:jobs`, `mm:finetune`, consumer groups, semaphores, `run_locks` | enqueue, deliver, take a permit and a lock, work, XACK, stop, crash, restart | pipeline, fine-tune session |
| critic review loop | `_review_and_maybe_*` of `worker/pipeline.py`, `worker/cost_tracker.py` | round, verdict, estimate, baseline; `mm:cost:<run>` | review, revise or rerun, budget checks, reminder | LLM gateway, ledger |
| audit gate and shipping | `_run_audit_and_maybe_revise` and the end of `run_pipeline` in `worker/pipeline.py`, `worker/audit.py` | draft, findings; `paper.md`, `paper.meta.json`, `paper.pdf` | audit, revise once, render, write, export | writer, run directory |
| agent call | `worker/agents/base.py`, `worker/gateway_client.py` | attempts of a stream and of a parse, text collected | call, retry, parse, fail | LLM gateway |
| LLM gateway | `gateway/llm/router.rs`, `cache.rs`, `cost.rs`, `routes/llm.rs` | one handler per request; `cost_ledger`, `runs.cost_rmb`, `mm:cost:<run>`; response cache | route with fallbacks, stream, account | providers, bus |
| coder and kernel | `worker/agents/coder.py`, `worker/kernel/manager.py`, `worker/matlab/` | turns, cells, figures, the kernel process, the run directory | turn loop, skill lookups, execute, time out, record, recover figures, shut down | pipeline, bus |
| searcher | `worker/agents/searcher.py`, `worker/tools/`, `worker/compactor.py`, the full-text block of `worker/agents/writer.py` | queries, papers, `papers/NN.md` | refine, gather, fall back, merge, choose, fetch, shorten, show | search services, run directory, writer |
| paper editor | `worker/finetune_main.py`, `worker/agents/paper_editor.py`, `worker/editor_tools/tools.py` | the turn's context, `paper.meta.json`, `paper.md`, notebook, figures | directives, seven tools, closing events | run directory, kernel, bus |
| web stores | `web/stores/run.ts`, `web/stores/finetune.ts`, `web/views/Workbench.vue` | the run store, the chat, the client, requests in flight | open, leave, start, send, handle events | run feed, gateway |
| prompts, skills, HMML, rendering of exports, read-only routes, other views | see `PROJECT.json` | none, or local settings | lookups, rendering, I/O | |

### What is hard about each, and what makes it correct

* **Bus.** Number and entry are two Redis calls, and five kinds of producer
  interleave between them; an XADD may fail after its INCR, and may have been
  executed all the same; a coroutine that gives up a response goes on while the
  gateway's handler still accounts for the cost; `gather()` leaves tasks behind
  when one raises; MAXLEN rolls entries off. Correct: no number is used twice, and
  events that mark the progress of a coroutine are on the stream in the order of
  their numbers.
* **Feed.** Connections break with frames in flight; a hello misses the 200 ms
  wait; the filter compares with the *largest* number seen although the stream
  is not sorted by number. Correct: nothing is shown twice, nothing is lost
  without a reason that can be named, the end of a run reaches the browser.
* **Lifecycle.** `create_run` is three awaits; the audit task has a grace, lives
  in memory and swallows database errors; an error event may come from an
  exception that is caught; a cancel key expires; a check that cannot read the
  key says "not cancelled". Correct: the status moves once to an outcome that
  was announced, can be explained from the audit rows, respects a cancel, and
  is final in bounded time.
* **Queue.** Two loops of a process share locks, processes do not; SIGTERM and
  crashes hit a job at any point; pending entries are never read again.
  Correct: one writer per run directory, no permit lost for good, no job worked on
  twice, no deadlock between semaphores and locks.
* **Review loop.** The budget is checked before a call whose cost is known only
  after it, with a counter other stages share and that may fail to be read or
  written; a revision may fail. Correct: the budget is passed by one call's
  excess at most, by the loop's own spending, verdicts belong to the output
  they are filed with, and the loop ends.
* **Agent call.** Retries of answers around retries of streams around fallback
  models; a handler of the gateway may outlive the request it was for; a
  stream breaks after text was sent; three books without a transaction.
  Correct: what is parsed is one upstream's text, a clean answer is booked
  before the agent goes on, every usable model is asked once before a request
  fails, the call ends.
* **Coder and kernel.** The kernel is a process that goes on with a cell the
  worker has given up; one session object serves the first attempt and the
  reruns; files of every cell end up in one directory, declared or not; a rerun
  may fail half-way. Correct: what is recorded of a cell is its own doing, no
  attempt sees an earlier one's names, no process is left behind, the notebook
  is that of the output kept, the stage ends.
* **Audit gate and shipping.** A finding may be one only the coder could mend; a
  revision may fail, or be worse; three files are written one after the other and
  each may be torn. Correct: a paper the writer could mend is shipped only after it
  was asked, and a good one is not touched.
* **Paper editor.** A turn holds in memory what other steps write to disk; tools
  have several steps and stop half way; a turn ends in two layers that each catch
  some exceptions; a cell given up may draw later. Correct: the files hold one
  paper, and it is the shipped one with its sections; what the worker tells the chat
  of a tool and of a turn is true; every turn ends.
* **Searcher.** Five sources side by side, each answering some queries or none; a
  fallback that must remember what was seen; texts that finish in any order, of
  which the writer gets a list without gaps. Correct: nothing is handed to the model
  twice and no hit is forgotten; a text is shown whole and under its paper; the
  stage ends.
* **Web stores.** One pair of stores for all runs, and sockets, timers, answers and
  animation frames that outlive the page they were for. Correct: a page shows
  nothing of another run. (That a chat does not wait for a turn that is over would be
  correct too; the code's does, section 5.)

## 2. The modules

| module | what it is | reads with |
|---|---|---|
| `EventBus` | counter, stream, and every producer of one run | `worker/events.py:73-108`, `gateway/routes/llm.rs:250-334`, `gateway/llm/cost.rs:45-144`, `worker/agents/searcher.py:210-374` |
| `RunFeed` | one browser following the run; extends `EventBus` by the WebSocket session and its client | `gateway/routes/ws_run.rs`, `web/api/ws.ts` |
| `RunStatus` | abstract: what `runs.status` promises | `gateway/audit.rs:197-271` |
| `RunLifecycle` | gateway, worker and audit task of one run; implements `RunStatus` | `gateway/routes/runs.rs`, `gateway/audit.rs`, `worker/pipeline.py:735-1030` |
| `JobQueue` | both job streams and all worker processes | `worker/main.py`, `worker/finetune_main.py` |
| `ReviewLoop` | the critic's loop over consecutive stages of one pipeline | `worker/pipeline.py:421-672` |
| `LlmCall` | one agent's call: worker, router, stream, bookings | `worker/agents/base.py:94-356`, `worker/gateway_client.py:103-154`, `gateway/llm/router.rs`, `gateway/routes/llm.rs:160-305`, `gateway/llm/cost.rs:45-144` |
| `CoderLoop` | the coder stage: turns, kernel process, MATLAB, run directory, reruns | `worker/agents/coder.py:144-475`, `worker/kernel/manager.py:143-425`, `worker/matlab/session.py:78-147`, `worker/pipeline.py:600-660` |
| `PaperText` | pure: papers, their rendering, the audit's checks, finding and replacing | `worker/audit.py`, `worker/pipeline.py:1102-1202`, `worker/editor_tools/tools.py` |
| `AuditGate` | the end of a pipeline, from the reviewed paper to the files | `worker/pipeline.py:196-371`, `928-1099`, `worker/audit.py` |
| `PaperEditor` | fine-tune turns over the run directory that `AuditGate` leaves, which it extends | `worker/finetune_main.py`, `worker/agents/paper_editor.py`, `worker/editor_tools/tools.py` |
| `Searcher` | the literature of a paper, from the analysis to what the writer is shown | `worker/agents/searcher.py`, `worker/tools/`, `worker/compactor.py`, `worker/agents/writer.py:161-195` |
| `WebStores` | one tab: the Workbench, its stores, clients, requests and chat | `web/stores/`, `web/views/Workbench.vue`, `web/api/ws.ts` |
| `RunFeedProofs`, `RunLifecycleProofs`, `JobQueueProofs`, `SearchAndReviewProofs`, `LlmCallProofs`, `CoderLoopProofs`, `PaperEditorProofs`, `WebStoresProofs` | theorems about the module of that name (`RunFeedProofs`: about `EventBus` too, `PaperEditorProofs`: about `AuditGate`, `SearchAndReviewProofs`: about `ReviewLoop` and `Searcher`), section 4 | |
| `MCEventBus`, `MCJobQueue`, `MCReviewLoop`, `MCLlmCall`, `MCCoderLoop`, `MCPaperEditor`, `MCSearcher` | small instances: symmetry, functions and sequences for the constants | |

`PROJECT.json` gives the source lines of each definition. What follows says what
the state and the steps stand for and where the models stop.

**EventBus.** `seq` and `stream` are the two Redis keys. `stream` keeps every
entry ever added and `floor` says how many of the oldest are gone: MAXLEN with
`~` may keep more than the limit, so `Xadd` may move `floor` to any place that
leaves the newest `MaxLen`. A producer that has drawn a number and not written
its entry has it in `held`. `phase` is where a coroutine stands, the worker's for the
run's job and one per fine-tune turn: `main._process` emits its last `error` outside
the run lock, and locks are per process, so a turn may emit beside the job at any
time. `waits` is the LLM call a coroutine awaits, `task` how far each call's handler,
token task and gathered source has got. A transport failure of a response
(`Abandon`) lets the coroutine go on at once, at whatever await of the cost accounting
the handler has reached. `of` in an entry is history: the coroutine that goes on only
when the entry is on the stream, its own events and the cost of the call it waits for.
Every failure the code handles is an action: `EmitRaises` (one more `error` is tried,
by `main._process` or `run_finetune`), `Abandon`, `UpstreamFails`, `CostFails`,
`TokenDropped`, `SourceLogRaises` (the other sources go on). Payloads are dropped; a
kind stands for all events that are alike in control, `finetune` for every event of a
turn. `AgentEvent` accepts all the kinds used, so its validation never fails. One
assumption: an XADD whose answer is lost was executed before the client's exception or
not at all, and never twice (neither client is given a retry policy).

**RunFeed.** A step is one of the bus's (`Produce`) or of the reader's (`Feed`), which
leaves the bus alone. `Connect` .. `Eof` are the browser's callbacks, `HelloArrives` ..
`XReadFails` the session's loop. The list of entries of one XREAD is
`pos+1..batch`; entries rolled off in between are skipped. `wire` holds frames
on their way; `Drop` loses them and both ends notice. `late` remembers that a
hello carrying a number came after the 200 ms. The browser has one session at a
time; `OpenAgain` stands for a page load.

**RunLifecycle.** `api` walks through `create_run`'s awaits, `pc` through the
pipeline: check, `stage.start`, work, and one of its outcomes. `emit()` is one step
here (its two calls are `EventBus`'s), with the case that the call succeeded and its
reply was lost. Time is a count of ticks since the row was created; the grace of
the audit task and the life of the cancel key are numbers of ticks. `audit`,
`cursor` and `top` are the audit task between two awaits. A job may never be delivered
(`JobNeverDelivered`: it was posted before the group was made, at `$`) or be refused by
`ProblemInput` although the gateway took its payload (`JobRejected`: it is
acknowledged, and nothing is emitted). `faults` collects the
kinds of fault that struck, these two among them, at most `MaxFaults` of them, each as
often as it likes.

**JobQueue.** `given` is the group's last-delivered-id. `at` follows a job from
`posted` through `delivered` (the reply is on its way), `permit`, `lock`, `work`,
`ack` to `over`, or to `stuck` when its process went away. `Start` makes both groups
at `$` if they are not there, so jobs posted earlier are never delivered. A
process that stops cancels its loops and awaits its tasks. Left out: a failing
XACK and a failing XREADGROUP, both logged and retried or dropped by the loop, and
the FIFO order of semaphores and locks (any waiting task may be next).

**ReviewLoop.** Amounts are hundredths of an RMB. A step that calls the LLM pays
any of `CallCosts`; the gateway adds it to `ledger` or fails to (`Pay`); the loop
reads the ledger or gets 0 (`GetTotal`). `report` keeps what
`_critique_requires_revision` looks at. The two loops of the code share the
module: they differ in the estimate and in who revises.

**LlmCall.** The worker's coroutine is `agent`; `Connect` starts a request, the
`Read*` actions are the lines of its response, `TransportFails` any httpx error
that `_stream_with_retry` catches and `TransportRaises` any other. Each request is
a handler in the gateway (`gw`), from `routing` over `streaming` and the awaits of
`record_completion_cost` to `done`. When the worker has walked away, its handler
goes on until `Abandon` drops it at whatever await it has reached; what it sends
is lost. `Attemptable` is `build_chain` and `resolve` at once: a position of the
chain counts if its model is not in the chain already and has an adapter with
credentials. Errors are the four classes that `is_retryable` and the status of the
gateway's answer tell apart. The cost of a call is whether it is booked, in which
of the three books. The text of a chunk is dropped, so whether an answer parses
is free.

**CoderLoop.** `Worker` is the coroutine of `coder.run`, `Kernel` the processes it
started. A process works through `queue`, its requests in the order they were
sent, and what it reports goes to `iopub` while the session is connected to it; a
cell that timed out stays in the queue and may still save, draw and end. The
interrupt sent after a timeout may or may not be heard: a cell may end at any
time, so it adds nothing. `disk` says which cell wrote a figure file last, `late`
which cells were recorded before they were done, `leaked` which processes were
left by a start or a shutdown that failed. The two calls of `_ask_llm`, with its
retry, are one step (`GetDirective`, `AskFails`; `LlmCall` has what happens inside). A
missing MATLAB session is a MATLAB cell that fails. Left out: threads and child
processes of a cell that outlive it, what `final_summary` says, the files other
than figures and the notebook, and whether the critic wants a rerun (`ReviewLoop`
has that).

**PaperText, AuditGate.** A text is a sequence of tokens: a word, a placeholder
`[[FIG:id]]` or a markdown image, since substituting figures, the audit and
`surgical_edit` tell no more apart. A file is missing, torn or whole, and a whole one
says what it was rendered from; `Write` and `WriteFails` are what
`Path.write_text` can do. `Audit` .. `Announce` follow `_run_audit_and_maybe_revise` and
the end of `run_pipeline`. A revision is any paper the writer can come up with. The
captions that hide an image from `audit.py`'s expression are `bracketed`.

**PaperEditor.** `mem`, `cells` and `next` are the `ToolContext`, `pc` the coroutine
between two awaits: asking for a directive, in a tool, between the two files of
`_write_paper_artifacts` (`md`), between two cells (`run`), closing. A tool's early
returns are `Refuse`, its exceptions `Raise`. A turn's kernel starts empty (`env`); `late`
holds cells given up after 60 s, which may draw in this turn or, since no turn shuts
its kernel down, in a later one. `result` is the last `tool_result`, `stage` and `said`
how the agent and the session closed. Three exceptions end a turn past its agent:
`LoadRaises` (a file torn inside a character, before the first directive), `AskRaises`
(an httpx error that `base.py:341-356` does not turn into an `AgentError`) and a tool's
own, among them the one `rerun_cells_from` below minus the number of cells raises after
the notebook was saved (`EditConstantHalfDone`). `cut`, `blank` and `upset` remember the
faults a property must excuse. Queueing and the run lock are `JobQueue`'s; the call of the
model is `LlmCall`'s. Left out: diffs, previews, and the turn's prompt.

**Searcher.** A paper is what identifies it; a DOI has letters and their case, a URL
a page and a tail that `_normalize_url` drops. Each source returns once, with the hits
of any subset of the queries: retries, backoffs and semaphores decide when it does,
not what (the model lets it come at any time). `At` keeps the entries of a list at some
places, in their order: the removal of duplicates, the list of texts and the block shown
to the writer are such lists. The model's choice is any list of the
papers; a critic's revision any list of those, with any list of `Rewrites` for paths: the
answer is parsed as a whole `SearchFindings`, so it may drop a path, repeat it, change
the order or write one that names no file (0). It may write papers of its own as well,
which the model leaves out: their text is nobody's. The block shown to the writer has the files
that could be read. A fetch that is at work goes on when the
stage has failed. `SearcherAssumption` says what each parser can know of a paper. It
shares no name with `ReviewLoop` (`SearchInit`, `SearchNext`, `SearchSpec`): one module proves
about both.

**WebStores.** What a store holds is abstracted to *whose* it is: the run of an event,
of a record, of a chat message. A `RunWsClient` is connecting, open, waiting to
reconnect, closing or ended; all clients ever made stay in `clients`, `ws` is the one the
store can still close. `late` remembers that an answer was used after its page was gone, or
with an earlier one already in the store (the form can be opened, left and opened again
while two POSTs are on their way). Events of a turn go to the open message; those a worker closes a turn with
are of kinds the store has no case for, so nothing but a failed POST or a change of page
ends the waiting of a chat. Any event of the client's run may
come at any time while its socket is open, again after a reconnect (`RunFeed` has the
order and the losses). Left out: the other views, usage and cost, and what is only shown:
whether a socket is connected or will be again, and the state of a tool call.

## 3. What the runs check

| run | instance | states | shows |
|---|---|---|---|
| `MCEventBus` | the job and 1 turn, 2 calls, 1 token task, 2 sources, 3 numbers, stream of 2 | 1.0 M | `SeqUnique`, `MilestonesInOrder` |
| `RunFeed` | the job and 1 turn, 3 numbers, 1 reconnect, 1 fault, 1 reload | 480 k | `DeliveredOnce`, `DoneReachesBrowser` |
| `RunLifecycle` | 2 stages, grace 2, key 2, 3 ticks, 2 kinds of fault | 670 k | `OutcomeAudited`, `EarlyCancelStops`, `RefinesRunStatus`, `SettlesWithinGrace` |
| `JobQueue` | 2 processes, a pipeline and 2 turns of its run, 1 stop, 1 crash | 170 k | `OneWriterPerProcess`, `AtMostOnce`, `NothingLeftBehind`, `TakenIsFinished` |
| `ReviewLoop` | 2 stages of 2 rounds, calls of 0, 14, 60, 1 fault | 1.4 M | `WithinBudget`, `VerdictIsAboutOutput`, `ReviewsEnd` |
| `LlmCall` | 2 answers of 2 streams, a chain of 4 with a repeated and a dead model, 2 chunks, 1 failed booking | 820 k | `TextFromOneStream`, `AnswerIsBooked`, `CallEnds` |
| `CoderLoop` | an attempt of 1 turn, a rerun of 2, 1 name, 1 inline figure, 1 lookup, 2 faults | 1.3 M | `OutputIsOwn`, `KernelIsOwn`, `CoderEnds` |
| `PaperEditor` | 2 drafts, 3 cells (one MATLAB), a turn of 2 directives and one of 1, 1 fault | 790 k | `GateAsksTheWriter`, `PaperIsKept`, `ToldAsItIs`, `TurnEnds` |
| `Searcher` | 2 analyses, 6 papers of which 4 are two in disguise, 3 texts, 1 revision with 4 choices of paths, 1 fault | 1.1 M | `KeptOnce`, `TextsAreOfTheirPapers`, `SearchEnds` |
| `WebStores` | 2 runs, 2 pages, 2 starts, 2 messages, 1 reconnect, 1 drop | 3.8 M | `NothingOfAnotherRun` |
| `RunFeedFinetune`, `SearcherCited` | as small as the case allows | | statements of the repository that do not hold, section 5 |

Every passing run checks its module's type invariant too (`BusTypeOK` for `EventBus`,
`SearchTypeOK` for `Searcher`, else `TypeOK`), and its fairness is stated in the module's
`FairSpec` (`FairSearchSpec`).

**Bounds.** Each is a guard named in its module. Bus: two entries out of order
take two numbers, and a third is for another's between them, or for what follows a number
that was lost; two calls, one for the job and one for the turn, or both for one
that gave up the first; and the stream of two rolls off. Feed: three numbers are
the fewest for an overtaken entry with one behind it, and a turn beside the job is
enough to overtake; one fault separates a
connection that was replayed from one that was not, and a reload adds a client
with an empty memory. Lifecycle: two stages give a check before, between and none
after; two kinds of fault give every pair; three ticks pass the grace of two and
let a key of two expire. Queue: two turns compete for one permit and, with the
pipeline, for one lock; a crash and a stop suffice for a process that is gone
while another goes on. Review loop: two rounds, with calls at the
estimate, far above it and free of charge (a provider without a price). Call:
four requests, so that handlers of two abandoned ones can be at work while a
third is read and a fourth is to come; two chunks, for a second that could
come from elsewhere than the first. Coder: a rerun, for what an
attempt leaves to the next; two turns in it, so that a late cell has a later one
to disturb and a rerun can fail after it recorded a cell; one name and one number
suffice for a file that is overwritten, undeclared or late; two of a death of the
kernel, a start, a shutdown and an emit that fails. Editor: drafts with and without
findings; a second turn, for what the first leaves behind (a half-written paper, a cell
still at work); a constant, a figure that needs it and a MATLAB cell, for reruns in a
kernel that knows nothing. Searcher: two queries of one source that overlap, one
DOI in two spellings, one page under two addresses; three texts are the code's number;
rewritten paths that are none, one that skips a paper, and three in another order of
which one names no file.
Stores: two pages, since every leak is from one page to the next, and two starts, since the
answer to the second may find that of the first in the store; two messages, for a session
that is used again; a third page or second drop is beyond five minutes.

**Deadlock** is not checked: every model stops when its bounded inputs are used
up, as the system rests when no run is going on.

**Fairness.** `RunFeed`: the session's loop and the browser's callbacks keep
running, nothing about producers, faults or a late hello. `RunLifecycle`: each
continuation after an await of `create_run` runs, the worker's coroutine goes on
(every await in it has a timeout), and so does the audit task (a bounded XREAD in
a loop). `JobQueue`: per process, some task that can go on does, and the consume
loops keep reading: one event loop. `ReviewLoop`: the coroutine goes on. `LlmCall`:
the agent's coroutine goes on and so does each handler, since reqwest's timeouts
(5 s to connect, 600 s in all) end an upstream that does not answer. `CoderLoop`: the
coroutine goes on (a cell has 60 s, a shutdown 10 s, a call is `LlmCall`'s); nothing
about the kernel, so `CoderEnds` holds of one that hangs or died as well. `PaperEditor`: the
turn's coroutine goes on, for the same reasons. `Searcher`: the stage goes on and so do
the fetches, every request of which has a timeout. `WebStores` states none: nothing in a
tab has to happen. Faults,
users, stops, time and chunks are never fair.

**Symmetry** is used in `MCEventBus` only, for the calls and the sources: that run has no
temporal property.

## 4. What is proved

Every safety property that a passing run checks is the conclusion of a theorem, and so is the
refinement of `RunStatus`. Each theorem is about every value of the constants that the
module's named assumption allows; the runs are the instances on which the inductive
invariants were looked for and found wrong first.

`RunFeedProofs` begins with the bus, for any token tasks, sources, calls and turns, any
`MaxLen > 0` and any number of INCRs (`BusAssumption`: the kinds of producer are different
things):

* `BusTypeCorrect`: the types. The actions are first reduced to five things they
  can do to Redis (`RedisStep`), so that data and phases are proved apart.
* `SeqsAreUnique`: `SeqUnique` alone is not inductive, since a producer holds a number
  that is not on the stream yet. `Numbered` adds that held numbers differ from
  one another and from those of the stream, and that none exceeds the counter.
* `MilestonesAreInOrder`: `Waiting` adds that a coroutine never has two entries to wait
  for (it holds its own, or the handler of its one call holds the cost), `Calling` that
  who waits for a call is at its work, and `Ahead` that the entry waited for is above
  all of that coroutine's on the stream. This is where awaiting the cost before `[DONE]`
  matters (`DoneBeforeCost` breaks it), and where giving up a response must take the
  coroutine's name off the entry still on its way.

and goes on with its reader, for any reconnects, reloads and faults (`FeedAssumption`).
What the browser was sent and no fault has taken is `Sent == shown \o wire`, and the
invariant is about that:

* `TypeCorrect`, and with it that a session's place never passes the end of the stream.
* `EventsAreDeliveredOnce`: the bus's half is not proved again: a step of the feed is one of the
  bus or leaves it alone (`BusStep`), so the bus's invariant is kept. `FromStream`,
  `SentOnce` and `ToBeSent` say that frames are entries of the stream, none twice, and none of them still ahead of the
  session; that needs `Largest` (a session filters by a number that was shown). That no
  entry was passed over is not inductive, because a connection may break at any
  frame and the client comes back with the largest number it has *read*: `Closed` says that
  whatever stands before a sent entry was sent before it, or is gone, so every prefix of
  `Sent` will do.
* `FeedImplementsBus`: `Spec` implies `BusSpec`: whatever sessions come and go, stream and
  producers do what they do without a reader. `FeedReadsAnOrderedStream` follows: the
  bus's two properties hold of what the sessions read.

`JobQueueProofs`, for any processes, runs, turns, concurrency (0 included), crashes
and stops (`QueueAssumption`), from one inductive invariant
`TypeOK /\ Once /\ Placed /\ Locked`:

* `QueueTypeCorrect`.
* `WorkedOnAtMostOnce`: `Once` says that a job stands once on its stream, beyond
  what was given out as long as it is `posted`, and that it was not started
  before it got to `work`.
* `NothingIsLeftBehind`: `Placed` ties a taken job to a process that is not down.
* `OneWriterInEachProcess`: `Locked` says that who works holds its run's lock in its
  own process. A restart empties the locks; `Placed` is what makes that safe.

`RunLifecycleProofs`, for any number of stages, grace, life of the key and faults
(`LifecycleAssumption`), from `TypeOK /\ OneSettles /\ Logged /\ OutcomeAudited /\ Obeyed`:

* `TypeCorrect`.
* `OutcomeIsAudited`: `Logged` ties the audit rows to the cursor; only a failing INSERT
  leaves one out.
* `EarlyCancelIsObeyed`: `Obeyed` says that as long as a cancel is effective (in time, its
  key alive, every GET answered) a check is still ahead of the pipeline, or the run is
  ending another way.
* `StatusIsRefined`: `Spec` implies `RunStatus`' specification, step by step: the initial
  states map to initial states and every step to a step or a stutter. `OneSettles` is
  what it takes: the audit task is over once the row holds an outcome, so no second event
  can overwrite the first.

`SearchAndReviewProofs` is about both modules of what happens to an output before the next
stage gets it. `ReviewLoop`, for any stages, rounds, estimates, cap and costs
(`ReviewAssumption`: there is a dearest call, or a bound on the excess would say nothing):

* `ReviewTypeCorrect`. The round's bound is stated per `pc`: the counter of the last stage
  stays until the next one begins.
* `BudgetIsKept`: `LedgerIsTrue` (the counter read minus the baseline is what the loop has
  spent) and `RoomForCall` (a call decided on was found to fit) give one call's
  excess at most, without faults.
* `VerdictsFit`: `Verdicts` says of which version the verdict is at each step of the loop.

`Searcher`, for any analyses, refinements, hits, thresholds, limits, revisions and faults
(`SearcherAssumption`):

* What the functions on lists compute is proved first. `At` and `TakeUnique` are recursive
  functions; that such a function exists, and every fact about its values, goes by induction up
  to the length of the list (`RecursionExists`, `UpTo`). The library's induction takes an
  operator, which the provers cannot instantiate: `UpTo` is stated for a *set* of numbers
  instead, and follows from the well-foundedness of strict inclusion on finite sets.
  `AtPicks` says which entries `At` keeps and that they stay in order, `DedupeFacts` that
  nothing is lost and nothing is twice, `TakeUniqueFacts` that what is taken shares no key and
  that what is not taken shares one with something taken.
* `SearchTypeCorrect`: the queries are distinct, at most six, and not empty while sources are
  asked (`BuildQueriesFacts`), also if the analysis has nothing to search for.
* `PapersAreKeptOnce`: at the merge, from `MergeFacts`; nothing later adds a paper.
* `TextsBelong`: `Files` says that each file with a number is whole, and the text of the paper
  of that number as long as no revision changed papers or paths; `NoGapsBefore` that until
  then the paths begin with the numbers of the papers up to the first one without a text;
  `Listed` that a path is a number of a file or none whatever a revision writes, and that a
  file is torn in a stage that failed only; `Phases` what is
  empty when, without which a fetch could find a file of an earlier one.

`LlmCallProofs`, for any chain of models, attempts, parses, chunks and faults
(`CallAssumption`):

* `TypeCorrect`.
* `OneStreamOneAnswer`: `OneText` says that read and unread text is of one stream,
  and of the request that streams; `AskedInOrder` that the models asked are those of the chain
  up to the router's place, once each; `Excused` why an error answer was given. That
  the router's next place is a least number with a property is `LeastExists`, which is taken
  from the well-foundedness of strict inclusion on finite sets, since induction is out of reach.
* `AnswersAreBooked`: `BooksInOrder` follows a handler through the three books, `OverIsLast`
  says that the end of the response comes after them.

`CoderLoopProofs`, for any attempts, turns, names, inline figures and faults
(`CoderAssumption`):

* `TypeCorrect`: that an inline figure has a number left (`RoomIsKept`) takes a count of
  the figures on the channel.
* `KernelOfItsOwn`: `OneSession` ties a session to a process made for its attempt; every other
  process that lives is known to have leaked.
* `OutputOfItsOwn`: requests and messages are of cells that were begun (`InOrder`), a process
  has one request for a cell and none after its `idle` (`AskedOnce`), what still runs is
  waited for or known to be late (`RunsAreAwaited`); `NewFiles`, `Registered` and
  `NotebookInTime` carry that to MATLAB's figures, the recovery of undeclared ones and the
  notebook.

`PaperEditorProofs`, for any drafts, figures, questions, notebooks, turns, edits and faults
(`TextAssumption`, `GateAssumption`, `EditorAssumption`: drafts have the fields of
`agent_io.PaperDraft`, and cells those of a notebook's):

* `TypeCorrect`: the figures shipped stay files whatever the turns do.
* `GateIsKept`: `GateOrder` follows the pipeline through asking and writing, and says what each
  of the three files holds meanwhile.
* `PaperIsOne`: `PaperFiles` says that what a turn holds in memory has the sections of the paper
  shipped, and is in the meta file when `paper.md` is about to be written. The lemmas
  `WithBodyKeepsTitles` and `ReplaceInKeepsTitles` say that an edit keeps the titles
  wherever it is made, `RenderOfBuild` that the meta file renders to the paper it was made from.
* `ChatIsTold`: `Executed` says that, as long as nothing went wrong, every cell of a tool that has
  left the queue has drawn its figure; `NotebookFiles` that queue and cells fit, for which
  every position `rerun_cells_from` can lead to, negative ones included, must be one of the notebook (`RerunFromType`);
  `Closing` what the chat has been told so far, and by which exception a turn without a
  `stage.done` ended.

`WebStoresProofs`, for any runs and lists, backoffs, pages visited, starts, messages and lost
connections (`WebStoresAssumption`):

* `TypeCorrect`.
* `NothingLeaks`: every step of a client (a socket's callback, an event of the run or of a turn)
  is first shown to be a `Delivery`: it puts nothing into the store and the chat but what is
  of its own run, and a client that is `Quiet` puts nothing and stays quiet. The
  invariant then has two parts. `PageStore` holds whatever comes late: a page of a run has a
  store and a closable client of that run, any other page has none. `Own` holds until
  something comes late: every client but that one is quiet, the store holds and awaits
  what is of its run, record and chat are of the page.
  The proof found the model wanting: an answer to a POST /runs that finds an earlier
  one in the store was not counted as late, and with two starts TLC then shows two clients
  feeding one store. One start is too few for that to happen.

**Only model-checked.** Liveness, in every run (`DoneReachesBrowser`, `SettlesWithinGrace`,
`TakenIsFinished`, `ReviewsEnd`, `CallEnds`, `CoderEnds`, `TurnEnds`, `SearchEnds`), is out of
the prover's reach. What recursive library operators compute is not proved either
(`Replace` through `FlattenSeq`, `Total` through a fold; of `FlattenSeq` in `Searcher` only
its type, `FlattenType`); the theorems hold whatever they return.

## 5. Where the repository says otherwise

Each of these is a run whose one property is what the quoted line says.

* `RunFeedFinetune`: `runs.rs:142-144` and `finetune.ts:5` have fine-tune events
  arrive on the run's WebSocket. The session closes at the run's `done` and the
  client does not reconnect after one; they arrive after a reload only.
* `SearcherCited`: `writer.py:192-194` shows a text as "Paper k (cite as
  findings.papers[k-1])". The list of paths has no gap for a paper without a text,
  so every text behind one is shown, and cited, as that of another paper.

These have no run of their own. The modules do what the code does, and the property
named is stated so that it holds all the same:

* `DeliveredOnce`: `ws_run.rs:80` "Skip events already seen by the client" also drops, after a
  reconnect, an entry nobody has seen, when a token task, a log, an abandoned
  call's cost or a turn with a larger number was faster.
* `SettlesWithinGrace`: `main.py:81` has `_process` "emit error on failure, XACK". A payload the
  gateway accepts and `ProblemInput` refuses is acknowledged without an event, since the
  `run_id` is assigned with the problem (`main.py:64-71`, `86-97`), and its row stays
  `queued` for ever; so does that of a run posted before the first worker ever started
  (the group begins at `$`, `main.py:46`).
* `ToldAsItIs`: a turn ends without a `stage.done` of its agent when the exception is none
  `paper_editor.py:199` or `226-229` catches: an httpx error re-raised by
  `base.py:348-356`, or a meta file torn inside a character.
* `OutcomeAudited`, `RefinesRunStatus`: `pipeline.py:466-468` keeps a failed revision
  from sinking the run, but an `error` event has been emitted, and the audit task
  takes it for the outcome.
* `TextFromOneStream`: a stream that breaks in the middle "is retried"
  (`agents/base.py:171-176`). The gateway reports it as an SSE error event, which the
  worker skips; the partial text is taken for the answer, and is not booked.
* `OutputIsOwn`: a failure of the coder is an `AgentError` (`coder.py:6-8`). A cell
  that displays a figure inline has the session save `figures/fig-0.png`
  (`manager.py:350`); the recovery of undeclared figures makes a `Figure` with id
  `fig-0`, which `agent_io.py:391` refuses, and a `ValidationError` leaves `coder.run`
  after all cells ran.
* `PaperIsKept`: `tools.py:101` "mirrors pipeline._render_paper_markdown", but leaves
  placeholders raw and numbers references that bring their number along. Of the
  guard `~blank`: a turn that finds a torn `paper.meta.json` takes it for an empty paper,
  and its first edit writes that over the shipped one.
* `NothingOfAnotherRun`: `Workbench.vue:8-10` "stale state from a previous run doesn't leak
  across". It does through the answers `late` stands for: of a POST /runs that arrives
  after another page was opened (two clients then feed one store, `run.ts:243-244`), or
  fails and marks that page's run failed; of GET /runs/:id, which is not compared with
  the page (`Workbench.vue:78-85`); of POST /finetune, whose message and session go to
  the chat of whatever run is open.

Noted while modelling, without a run: the per-run mutex "guarantees" one writer
(`main.py:183-187`) and "horizontal worker scale works as-is"
(`docs/install/server.md:173`), while the locks are per process: with two
processes a pipeline and a turn of its run write at a time (drop the conjunct on
`owner` from `OneWriterPerProcess` and TLC shows it); the estimates "still in
force as a backstop" (`cost_tracker.py:17-20`) are not consulted when there is a
tracker, whose failed read counts as nothing spent; a rerun that fails keeps "a
notebook + figures" (`pipeline.py:617-620`) of which figures with the same names
are the failed rerun's; a `start()` that raises in `wait_for_ready` leaves its
process running, since `shutdown()` returns early (`manager.py:209-210`,
`StartFails`); a fine-tune turn never shuts its kernel down
(`finetune_main.py:147-148`) and starts a fresh one per turn, so
`edit_constant`'s "persistent kernel" (`tools.py:19-20`) knows no earlier names;
`stream.rs:11-13` has readers sort by number, which neither reader does;
`cancellation.py:11-13` promises the next check finds a cancel, which a failing
GET or an expired key prevents; `main.py:195-196` has the fine-tune semaphore
isolate turns from pipelines, while a turn holding a permit may wait for a
pipeline's lock and keep turns of other runs waiting; `pipeline.py:390-395`
forwards the last critique to the next stage, which an accepted output does not
do; `audit.rs:6` speaks of ten minutes, the default is sixty, and
`dispatch.rs:53` has runs of ninety, whose outcome is never recorded;
`agents/base.py:349-350` takes a 4xx for "our bug", while the gateway answers
400 to a rate limit that outlived its fallbacks (`providers/mod.rs:66-68`).

Of the audit gate and the editor: the revised paper is shipped even if its second
audit is worse (`pipeline.py:346`); a caption with a closing bracket makes the audit
report an embedded figure as an orphan (`audit.py:106`, `149-151`); `edit_constant` saves
the notebook before it looks at `rerun_cells_from`, which may be negative, and runs
MATLAB cells in the Python kernel; the figure counter starts at 0 with each session
(`manager.py:154`), so a turn's `fig-0.png` overwrites the coder's; a tool that
raises leaves its call unanswered; a missing run directory ends a turn without an
event (`finetune_main.py:93`), and the chat waits; `paper.pdf` stays that of the paper
before the edits until it is recompiled.

Of the searcher: arXiv papers never have a DOI and the others never an arXiv id,
so the collapse of a preprint and its published version that `searcher.py:403-407`
describes never happens; a web hit of a scholarly page is kept next to the paper (two
sets of keys); the Chinese query is appended last and cut by `[:5]` (`741-749`); the
compactor's breaker opens at three failures, the last of three papers, and is made
anew by each stage; fetches go on writing after a failing stage.

Of the stores: the worker closes a turn with `finetune.session.done` or
`finetune.session.error` (`finetune_main.py:129`, `137`; `agent_io.py:115-117` and
`test_finetune_main_e2e.py:161-164` agree), the gateway forwards kinds verbatim, and
`finetune.ts:296-331` handles `finetune.done` and `finetune.error`, as its comments
say at lines 7 and 51. So after a POST that succeeded `isRunning` stays true, the
message open and the paper unfetched until the page is left; `WebStores` has no step
that ends the waiting. Events of a turn do not say which message they answer
(`finetune.ts:212`): those of an earlier turn, replayed when a page is opened again, go to
the message that is open now. The close event of an old socket shows the new one as
reconnecting; usage is added up per event (`run.ts:495`), twice after a late hello.

Of HMML, which is not modelled: `vectors.npy` is saved before `meta.json`
(`hmml/service.py:380-391`); a death in between, with as many methods as before, leaves the
vectors of one seed under the hash of another, which the older seed would accept.

## 6. Plan

The modules of section 2 were written in the order they are listed, and cover the
components that keep state. All of their safety properties are proved. What a next step could
take: `ReviewLoop` composed with `LlmCall`, its ledger being what the calls really book; and the
writing to a run directory by two processes (section 5), once the code says which may.

**Not modelled**, and why: the response cache (the buffered path that consults it has no
client in the repository) and the provider adapters (wire formats, no state); prompts,
skills, few-shot examples, the chart catalogue and HMML (text that is looked up; one
cache file, above); the rendering of exports; read-only routes, authentication and
configuration (each request reads and answers); the other views and the settings.
