------------------------------ MODULE WebStores ------------------------------
(***************************************************************************)
(* One browser tab: the Workbench view, its two Pinia stores (run and      *)
(* finetune), and the RunWsClients the run store opens.                    *)
(*                                                                         *)
(* There is one store of each kind for all runs.  Answers to POST /runs,   *)
(* POST /finetune and GET /runs/:id, frames, close events, timers and the  *)
(* next animation frame come when they come; the user opens other runs     *)
(* meanwhile.  What the stores hold is abstracted to whose it is.  What a  *)
(* connection delivers and in which order is RunFeed's subject: here it is *)
(* any event of its run, and again after a reconnect.                      *)
(***************************************************************************)
EXTENDS Naturals, Sequences

CONSTANTS
    Runs, Listed,   \* all runs, those that exist when the tab is opened
    NoRun,
    MaxAttempts,    \* RECONNECT_BACKOFFS_MS.length
    MaxVisits,      \* bounds: pages visited,
    MaxStarts,      \*   runs started,
    MaxTurns,       \*   messages sent in the chat,
    MaxDrops        \*   connections lost after they were open

ASSUME WebStoresAssumption ==
    /\ Listed \subseteq Runs /\ Runs \cap {NoRun, "form", "away"} = {}
    /\ {MaxAttempts, MaxVisits, MaxStarts, MaxTurns, MaxDrops} \subseteq Nat

VARIABLES
    page,       \* a run, the "form" of a new one, or "away" from the Workbench
    exists,     \* runs the gateway knows
    starts,     \* POST /runs on their way to the gateway
    created,    \* runs made by those whose answer is on its way
    gets,       \* runs whose GET is in flight
    record,     \* the run runRecord is of
    store,      \* the run store
    pending,    \* runs with tokens that wait for the next animation frame
    clients,    \* every RunWsClient so far
    ws,         \* the number of the one the store can close, 0 if none
    chat,       \* the finetune store
    turns,      \* every POST /finetune so far
    late,       \* history: an answer was used although its page was gone
    bounds

server == <<exists, turns>>
posts == <<starts, created>>
requests == <<posts, gets>>
vars == <<page, server, requests, record, store, pending, clients, ws, chat, late, bounds>>

EmptyStore == [runId |-> NoRun, status |-> "idle", holds |-> {}]
EmptyChat == [session |-> NoRun, messages |-> <<>>, isRunning |-> FALSE]

Terminal == {"done", "failed", "cancelled"}

Init ==
    /\ page = "away" /\ exists = Listed
    /\ starts = 0 /\ created = {} /\ gets = {} /\ record = NoRun
    /\ store = EmptyStore /\ pending = {}
    /\ clients = <<>> /\ ws = 0
    /\ chat = EmptyChat /\ turns = <<>>
    /\ late = FALSE
    /\ bounds = [visits |-> 0, starts |-> 0, drops |-> 0]

Within(bound, max) == bounds[bound] < max /\ bounds' = [bounds EXCEPT ![bound] = @ + 1]

-----------------------------------------------------------------------------
(* RunWsClient.                                                            *)

NewClient(run) == [run |-> run, sock |-> "connecting", attempts |-> 0,
                   closedByUser |-> FALSE, terminal |-> FALSE]

\* close() before the flag was thought of: a client between two attempts goes on.
CloseSocket(c) ==
    IF clients[c].sock \in {"connecting", "open"}
    THEN [clients EXCEPT ![c].sock = "closing"] ELSE clients

Close(c) ==
    IF clients[c].sock \in {"connecting", "open"}
    THEN [clients EXCEPT ![c].closedByUser = TRUE, ![c].sock = "closing"]
    ELSE [clients EXCEPT ![c].closedByUser = TRUE]

\* run.reset()
Reset ==
    /\ store' = EmptyStore /\ pending' = {}
    /\ ws' = 0
    /\ clients' = IF ws = 0 THEN clients ELSE Close(ws)

\* reset(), then openWs(run).
ResetAndOpen(run) ==
    /\ store' = [EmptyStore EXCEPT !.runId = run, !.status = "running"]
    /\ pending' = {}
    /\ clients' = Append(IF ws = 0 THEN clients ELSE Close(ws), NewClient(run))
    /\ ws' = Len(clients')

Client(c, sock) == c \in DOMAIN clients /\ clients[c].sock = sock

\* The store's onOpen.  That it is connected, or will be again, is only shown:
\* the flags, all that onClose writes, are left out.
OnOpen == [store EXCEPT !.status = IF @ = "queued" THEN "running" ELSE @]

Opened(c) ==
    /\ Client(c, "connecting")
    /\ clients' = [clients EXCEPT ![c].sock = "open", ![c].attempts = 0]
    /\ store' = OnOpen
    /\ UNCHANGED <<page, server, requests, record, pending, ws, chat, late, bounds>>

\* One backoff too many.
BrokenOnceMore(c) ==
    /\ clients' = IF clients[c].terminal \/ clients[c].attempts > MaxAttempts
                  THEN [clients EXCEPT ![c].sock = "ended"]
                  ELSE [clients EXCEPT ![c].sock = "backoff", ![c].attempts = @ + 1]
    /\ UNCHANGED <<page, server, requests, record, store, pending, ws, chat, late>>

\* onclose of a client nobody closed, with a code other than 1000.
Broken(c) ==
    /\ clients' = IF clients[c].terminal \/ clients[c].attempts = MaxAttempts
                  THEN [clients EXCEPT ![c].sock = "ended"]
                  ELSE [clients EXCEPT ![c].sock = "backoff", ![c].attempts = @ + 1]
    /\ UNCHANGED <<page, server, requests, record, store, pending, ws, chat, late>>

ConnectFails(c) == Client(c, "connecting") /\ Broken(c) /\ UNCHANGED bounds

Drop(c) == Client(c, "open") /\ Within("drops", MaxDrops) /\ Broken(c)

\* setTimeout: connect() looks again whether it is still wanted.
ConnectAgain(c) ==
    /\ Client(c, "backoff")
    /\ clients' = IF clients[c].closedByUser \/ clients[c].terminal
                  THEN [clients EXCEPT ![c].sock = "ended"]
                  ELSE [clients EXCEPT ![c].sock = "connecting"]
    /\ UNCHANGED <<page, server, requests, record, store, pending, ws, chat, late, bounds>>

\* The close event of a socket the user closed.
ClosedByUser(c) ==
    /\ Client(c, "closing")
    /\ clients' = [clients EXCEPT ![c].sock = "ended"]
    /\ UNCHANGED <<page, server, requests, record, store, pending, ws, chat, late, bounds>>

\* The session ends after the done, with code 1000.
ClosedByServer(c) ==
    /\ Client(c, "open") /\ clients[c].terminal
    /\ clients' = [clients EXCEPT ![c].sock = "ended"]
    /\ UNCHANGED <<page, server, requests, record, store, pending, ws, chat, late, bounds>>

-----------------------------------------------------------------------------
(* handleEvent of the run store.  Nothing looks at the event's run_id.     *)

Frame(c) == Client(c, "open") /\ ~clients[c].terminal

Token(c) ==
    /\ Frame(c)
    /\ pending' = pending \cup {clients[c].run}
    /\ UNCHANGED <<page, server, requests, record, store, clients, ws, chat, late, bounds>>

\* The animation frame: what is pending goes to the store, whoever owns it now.
Flush ==
    /\ pending # {} /\ pending' = {}
    /\ store' = [store EXCEPT !.holds = @ \cup pending]
    /\ UNCHANGED <<page, server, requests, record, clients, ws, chat, late, bounds>>

\* Drops the pending tokens of its agent, the only ones or not.
StageStart(c) ==
    /\ Frame(c)
    /\ pending' \in {pending, pending \ {clients[c].run}}
    /\ store' = [store EXCEPT !.holds = @ \cup {clients[c].run},
                              !.status = IF @ = "queued" THEN "running" ELSE @]
    /\ UNCHANGED <<page, server, requests, record, clients, ws, chat, late, bounds>>

\* log, cost, agent.output, kernel.stdout, kernel.figure, stage.done.
Other(c) ==
    /\ Frame(c)
    /\ store' = [store EXCEPT !.holds = @ \cup {clients[c].run}]
    /\ UNCHANGED <<page, server, requests, record, pending, clients, ws, chat, late, bounds>>

ErrorEvent(c) ==
    /\ Frame(c)
    /\ store' = [store EXCEPT !.holds = @ \cup {clients[c].run}, !.status = "failed"]
    /\ UNCHANGED <<page, server, requests, record, pending, clients, ws, chat, late, bounds>>

Done(c) ==
    /\ Frame(c)
    /\ clients' = [clients EXCEPT ![c].terminal = TRUE]
    /\ \E status \in Terminal :
          store' = [store EXCEPT !.holds = @ \cup {clients[c].run}, !.status = status]
    /\ UNCHANGED <<page, server, requests, record, pending, ws, chat, late, bounds>>

-----------------------------------------------------------------------------
(* The Workbench.                                                          *)

\* The route changes to a run: the watcher, and loadRunRecord.
OpenRun(run) ==
    /\ run \in exists /\ run # page
    /\ Within("visits", MaxVisits)
    /\ page' = run
    /\ gets' = gets \cup {run}
    /\ IF store.runId # run
       THEN ResetAndOpen(run) /\ chat' = EmptyChat /\ record' = NoRun
       ELSE UNCHANGED <<store, pending, clients, ws, chat, record>>
    /\ UNCHANGED <<server, posts, late>>

\* To the form, or away: what the Workbench has asked for comes too late for the
\* next one.
LeaveRun(to) ==
    /\ to \in {"form", "away"} /\ page # to
    /\ to = "form" => Within("visits", MaxVisits)
    /\ to = "away" => UNCHANGED bounds
    /\ page' = to
    /\ Reset /\ chat' = EmptyChat /\ record' = NoRun
    /\ gets' = IF to = "away" THEN {} ELSE gets
    /\ UNCHANGED <<server, posts, late>>

\* The answer to a GET, of whatever run it is, or its failure.
RecordArrives(run) ==
    /\ run \in gets /\ gets' = gets \ {run}
    /\ record' \in {run, NoRun}
    /\ late' = (late \/ run # page)
    /\ UNCHANGED <<page, server, posts, store, pending, clients, ws, chat, bounds>>

\* onStart and startRun up to the await.  The form disables itself while queued.
StartRun ==
    /\ page = "form" /\ store.status \notin {"queued", "running"}
    /\ Within("starts", MaxStarts)
    /\ starts' = starts + 1
    /\ store' = [EmptyStore EXCEPT !.status = "queued"] /\ pending' = {}
    /\ ws' = 0 /\ clients' = IF ws = 0 THEN clients ELSE Close(ws)
    /\ UNCHANGED <<page, server, created, gets, record, chat, late>>

\* create_run: the run is there, for the list as well, before the tab is told.
CreateRun(run) ==
    /\ starts > 0 /\ starts' = starts - 1
    /\ run \in Runs \ exists /\ exists' = exists \cup {run}
    /\ created' = created \cup {run}
    /\ UNCHANGED <<page, turns, gets, record, store, pending, clients, ws, chat, late,
                   bounds>>

\* The answer is put into the store, the client next to the one there may be,
\* and the router goes to the new run: the watcher finds it in the store.  A
\* store with a run or an error in it has had an answer since the form was
\* opened: one of the two was for an earlier form.
RunCreated(run) ==
    /\ run \in created /\ created' = created \ {run}
    /\ late' = (late \/ store.runId # NoRun \/ store.status = "failed")
    /\ store' = [store EXCEPT !.runId = run]
    /\ clients' = Append(clients, NewClient(run)) /\ ws' = Len(clients')
    /\ page' = run
    /\ gets' = IF page = run THEN gets ELSE gets \cup {run}
    /\ UNCHANGED <<server, starts, record, pending, chat, bounds>>

\* An error, or no answer although the run was created.
StartFails ==
    /\ \/ starts > 0 /\ starts' = starts - 1 /\ UNCHANGED created
       \/ \E run \in created : created' = created \ {run} /\ UNCHANGED starts
    /\ late' = (late \/ store.runId # NoRun)
    /\ store' = [store EXCEPT !.status = "failed", !.holds = @ \cup {NoRun}]
    /\ UNCHANGED <<page, server, gets, record, pending, clients, ws, chat, bounds>>

-----------------------------------------------------------------------------
(* The chat.                                                               *)

\* send() up to the await.
Send ==
    /\ page \in Runs /\ ~chat.isRunning
    /\ Len(turns) < MaxTurns
    /\ turns' = Append(turns, [run |-> page, session |-> chat.session, is |-> "posted",
                               answered |-> FALSE])
    /\ chat' = [chat EXCEPT !.isRunning = TRUE]
    /\ UNCHANGED <<page, exists, requests, record, store, pending, clients, ws, late, bounds>>

\* The gateway has queued the job; a worker may be faster than the answer.
TurnQueued(i) ==
    /\ i \in DOMAIN turns /\ turns[i].is = "posted" /\ ~turns[i].answered
    /\ turns' = [turns EXCEPT ![i].is = "queued"]
    /\ UNCHANGED <<page, exists, requests, record, store, pending, clients, ws, chat, late,
                   bounds>>

Answered(i) ==
    /\ i \in DOMAIN turns /\ ~turns[i].answered
    /\ turns' = [turns EXCEPT ![i].answered = TRUE]
    /\ late' = (late \/ page # turns[i].run)
    /\ UNCHANGED <<page, exists, requests, record, store, pending, clients, ws, bounds>>

\* The assistant's message to a turn; `holds` is whose events it was given.
Assistant(i, done) == [run |-> turns[i].run, done |-> done, holds |-> {}]

\* The message the events of the turn go to is there from now on.
SendReturns(i) ==
    /\ Answered(i) /\ turns[i].is = "queued"
    /\ chat' = [chat EXCEPT
          !.session = IF turns[i].session = NoRun THEN turns[i].run ELSE turns[i].session,
          !.messages = Append(@, Assistant(i, FALSE))]

\* An error, or no answer although the job was queued.
SendFails(i) ==
    /\ Answered(i)
    /\ chat' = [chat EXCEPT !.messages = Append(@, Assistant(i, TRUE)), !.isRunning = FALSE]

\* The latest message that is not done.
ActiveAssistant(m) ==
    /\ m \in DOMAIN chat.messages /\ ~chat.messages[m].done
    /\ \A n \in DOMAIN chat.messages : n > m => chat.messages[n].done

\* An event of turn i, a tool_call or a tool_result, new or replayed, comes in over
\* client c.  It goes to the active message, whichever turn's that is, and is lost
\* if there is none.  Nothing is done with finetune.session.start, .done and
\* .error: the cases of finetune.done and finetune.error, which alone would end the
\* waiting, are for kinds no worker sends.
ChatFrame(c, i) ==
    /\ Frame(c) /\ i \in DOMAIN turns /\ turns[i].is = "queued"
    /\ turns[i].run = clients[c].run
    /\ \E m \in DOMAIN chat.messages :
          /\ ActiveAssistant(m)
          /\ chat' = [chat EXCEPT !.messages[m].holds = @ \cup {turns[i].run}]
    /\ UNCHANGED <<page, server, requests, record, store, pending, clients, ws, late, bounds>>

-----------------------------------------------------------------------------

ClientStep(c) ==
    \/ Opened(c) \/ ConnectFails(c) \/ Drop(c) \/ ConnectAgain(c)
    \/ ClosedByUser(c) \/ ClosedByServer(c)
    \/ Token(c) \/ StageStart(c) \/ Other(c) \/ ErrorEvent(c) \/ Done(c)
    \/ \E i \in DOMAIN turns : ChatFrame(c, i)

User == (\E run \in Runs : OpenRun(run)) \/ LeaveRun("form") \/ LeaveRun("away")
           \/ StartRun \/ Send

Answers ==
    \/ \E run \in Runs : RecordArrives(run) \/ CreateRun(run) \/ RunCreated(run)
    \/ StartFails
    \/ \E i \in DOMAIN turns : TurnQueued(i) \/ SendReturns(i) \/ SendFails(i)

Next == User \/ Answers \/ Flush \/ \E c \in DOMAIN clients : ClientStep(c)

Spec == Init /\ [][Next]_vars

-----------------------------------------------------------------------------
(* Properties.                                                             *)

TypeOK ==
    /\ page \in Runs \cup {"form", "away"} /\ Listed \subseteq exists
    /\ starts \in 0 .. MaxStarts /\ created \cup gets \subseteq exists
    /\ record \in exists \cup {NoRun}
    /\ store.runId \in exists \cup {NoRun}
    /\ store.status \in {"idle", "queued", "running"} \cup Terminal
    /\ store.holds \subseteq exists \cup {NoRun} /\ pending \subseteq exists
    /\ ws \in 0 .. Len(clients)
    /\ page \in Runs <=> ws # 0
    /\ \A c \in DOMAIN clients :
          /\ clients[c].sock \in {"connecting", "open", "backoff", "closing", "ended"}
          /\ clients[c].attempts \in 0 .. MaxAttempts
    /\ chat.session \in Runs \cup {NoRun} /\ chat.isRunning \in BOOLEAN

\* Workbench.vue:8-10, "stale state from a previous run doesn't leak across": as
\* long as no answer is used after its page was gone, events, unflushed tokens,
\* the record, the chat, what is shown in it and its session are of the page's
\* run.  Sockets, timers and animation frames that outlive their page do no harm.
NothingOfAnotherRun ==
    late \/
    /\ page \in Runs => store.runId = page
    /\ store.holds \cup pending \subseteq {store.runId}
    /\ {record, chat.session} \subseteq {page, NoRun}
    /\ \A m \in DOMAIN chat.messages :
          chat.messages[m].run = page /\ chat.messages[m].holds \subseteq {page}
=============================================================================
