------------------------------- MODULE LlmCall -------------------------------
(***************************************************************************)
(* One agent's call of an LLM, from the prompt to a parsed output: the     *)
(* worker's retries, the gateway's router with its fallback models, the    *)
(* SSE stream between them, and the three places a call's cost is booked.  *)
(*                                                                         *)
(* The worker retries a stream that fails or stays empty, and asks again   *)
(* for an answer it cannot parse.  Each request is a process of its own in *)
(* the gateway: one the worker has walked away from may go on until hyper  *)
(* notices the closed connection.  The text of a chunk is dropped; it      *)
(* keeps the request and the model it came from.                           *)
(***************************************************************************)
EXTENDS Naturals, Sequences, FiniteSets

CONSTANTS Models,      \* the names of models
          Primary,     \* the model the agent asks for
          Fallback,    \* router.fallback, in order
          Usable,      \* models with an adapter that has credentials
          MaxAttempts, \* BACKOFFS: streams tried per answer
          MaxParses,   \* answers asked for
          MaxChunks,   \* bound on the chunks with text a response holds
          MaxFaults    \* bound on the bookings that fail

Chain == <<Primary>> \o Fallback

ASSUME CallAssumption ==
  /\ Primary \in Models /\ Fallback \in Seq(Models) /\ Usable \subseteq Models
  /\ MaxAttempts \in Nat \ {0}
  /\ MaxParses \in Nat \ {0}
  /\ MaxChunks \in Nat
  /\ MaxFaults \in Nat

VARIABLES agent,   \* where the agent stands
          parses,  \* answers that could not be parsed
          attempt, \* streams tried for this answer
          req,     \* the current request, counted from 1
          parts,   \* the text collected from its response
          wire,    \* what its response still holds for the worker
          gw,      \* per request: where the gateway's handler stands
          at,      \* per request: the last position of Chain tried, 0 when
                   \* the router is not, or no longer, at work on it
          err,     \* the current request: last_err of the router
          tried,   \* history, the current request: the models asked, in order
          ended,   \* history: the requests whose upstream ended cleanly
          row, total, mirror, \* requests booked in cost_ledger,
                              \* runs.cost_rmb and mm:cost:<run>
          faults   \* bookings that failed

workerVars == <<agent, parses, attempt, req, parts>>
routeVars  == <<at, err, tried>>
histVars   == <<err, tried>>
bookVars   == <<row, total, mirror, faults>>
vars == <<workerVars, wire, gw, routeVars, ended, bookVars>>

Requests == 1..(MaxParses * MaxAttempts)

-----------------------------------------------------------------------------
(* The router.                                                             *)

\* build_chain drops a model that is in the chain already.
Repeated(i) == \E j \in 1..(i - 1) : Chain[j] = Chain[i]

\* resolve finds an adapter with credentials.
Attemptable(i) == ~ Repeated(i) /\ Chain[i] \in Usable

Left(r) == {i \in 1..Len(Chain) : i > at[r] /\ Attemptable(i)}

First(S) == CHOOSE i \in S : \A j \in S : i <= j

\* What an attempt fails with before its stream starts: network, timeout or a
\* 5xx that is retryable; 408, 425 or 429; any other 4xx; anything else.
Errors == {"unavailable", "limited", "refused", "broken"}

Retryable(e) == e \in {"unavailable", "limited"}

\* The status of the gateway's answer: 400, or 500 (no adapter at all too).
StatusOf(e) == IF e \in {"limited", "refused"} THEN "client" ELSE "server"

Frame(kind) == [kind |-> kind, req |-> 0, model |-> Primary]

Text(r) == [kind |-> "text", req |-> r, model |-> Chain[at[r]]]

Frames == {Frame(k) : k \in {"client", "server", "error", "over"}}
          \cup [kind : {"text"}, req : Requests, model : Models]

-----------------------------------------------------------------------------
Init ==
  /\ agent = "call" /\ parses = 0 /\ attempt = 1 /\ req = 0
  /\ parts = <<>> /\ wire = <<>>
  /\ gw = [r \in Requests |-> "idle"]
  /\ at = [r \in Requests |-> 0]
  /\ err = "none" /\ tried = <<>>
  /\ ended = {}
  /\ row = {} /\ total = {} /\ mirror = {} /\ faults = 0

-----------------------------------------------------------------------------
(* The worker: BaseAgent.run over _stream_with_retry over                  *)
(* stream_completion.                                                      *)

ByWorker == UNCHANGED <<routeVars, ended, bookVars>>

NewRequest ==
  /\ agent' = "read"
  /\ req' = req + 1
  /\ wire' = <<>> /\ err' = "none" /\ tried' = <<>>
  /\ gw' = [gw EXCEPT ![req + 1] = "routing"]
  /\ UNCHANGED <<parses, attempt, at, ended, bookVars>>

\* POST /llm/chat/completions, with parts = [].
Connect ==
  /\ agent = "call"
  /\ NewRequest
  /\ parts' = <<>>

\* One backoff too many.
TryOnceMore ==
  IF attempt <= MaxAttempts
  THEN agent' = "call" /\ attempt' = attempt + 1
  ELSE agent' = "failed" /\ attempt' = attempt

\* The next attempt after its backoff, or AgentError.
TryAgain ==
  IF attempt < MaxAttempts
  THEN agent' = "call" /\ attempt' = attempt + 1
  ELSE agent' = "failed" /\ attempt' = attempt

\* ConnectError, PoolTimeout; RemoteProtocolError or ReadTimeout while it
\* waits for the status or reads the stream.
TransportFails ==
  /\ agent \in {"call", "read"}
  /\ TryAgain
  /\ wire' = <<>>
  /\ UNCHANGED <<parses, req, parts, gw>> /\ ByWorker

\* Any other httpx error is not caught here.
TransportRaises ==
  /\ agent \in {"call", "read"}
  /\ agent' = "raised"
  /\ wire' = <<>>
  /\ UNCHANGED <<parses, attempt, req, parts, gw>> /\ ByWorker

Reads(kind) ==
  /\ agent = "read" /\ wire # <<>>
  /\ Head(wire).kind = kind
  /\ wire' = Tail(wire)
  /\ UNCHANGED <<parses, req, gw>> /\ ByWorker

\* raise_for_status: a 4xx is raised, a 5xx tried again.
ReadClientError == Reads("client") /\ agent' = "raised" /\ UNCHANGED <<attempt, parts>>

ReadServerError == Reads("server") /\ TryAgain /\ UNCHANGED parts

ReadText ==
  /\ Reads("text")
  /\ parts' = Append(parts, Head(wire))
  /\ UNCHANGED <<agent, attempt>>

\* The error event has no choices: skipped like a keep-alive.
ReadErrorEvent == Reads("error") /\ UNCHANGED <<agent, attempt, parts>>

\* A reader that waits for text when the response had none.
ReadOverWaits ==
  /\ Reads("over")
  /\ agent' = IF parts = <<>> THEN "read" ELSE "parse"
  /\ UNCHANGED <<attempt, parts>>

\* [DONE] or the end of the body.
ReadOver ==
  /\ Reads("over")
  /\ IF parts = <<>> THEN TryAgain
     ELSE agent' = "parse" /\ UNCHANGED attempt
  /\ UNCHANGED parts

\* _parse_output: an output, a further question, or the error event and
\* AgentError.
Parse ==
  /\ agent = "parse"
  /\ \/ agent' = "output" /\ UNCHANGED <<parses, attempt>>
     \/ /\ parses' = parses + 1
        /\ IF parses' < MaxParses THEN agent' = "call" /\ attempt' = 1
           ELSE agent' = "unparseable" /\ UNCHANGED attempt
  /\ UNCHANGED <<req, parts, wire, gw>> /\ ByWorker

-----------------------------------------------------------------------------
(* The gateway: stream_with_fallback, then build_forward_stream.           *)

Current(r) == r = req /\ agent = "read"

\* What is sent to a worker that has gone is lost.
Send(r, frames) == wire' = IF Current(r) THEN wire \o frames ELSE wire

Moves(r, phase) == gw' = [gw EXCEPT ![r] = phase]

\* The handler is done with its upstream.
Leaves(r, phase) == Moves(r, phase) /\ at' = [at EXCEPT ![r] = 0]

Ask(r) ==
  /\ gw[r] = "routing" /\ Left(r) # {}
  /\ tried' = IF Current(r) THEN Append(tried, Chain[First(Left(r))]) ELSE tried
  /\ UNCHANGED <<workerVars, ended, bookVars>>

UpstreamOpens(r) ==
  /\ Ask(r)
  /\ at' = [at EXCEPT ![r] = First(Left(r))]
  /\ Moves(r, "streaming")
  /\ UNCHANGED <<err, wire>>

UpstreamFails(r) ==
  /\ Ask(r)
  /\ \E e \in Errors :
       /\ err' = IF Current(r) THEN e ELSE err
       /\ IF Retryable(e)
          THEN at' = [at EXCEPT ![r] = First(Left(r))] /\ UNCHANGED <<gw, wire>>
          ELSE Leaves(r, "done") /\ Send(r, <<Frame(StatusOf(e))>>)

\* The chain is used up: last_err, or no adapter supports the model.
ChainEnds(r) ==
  /\ gw[r] = "routing" /\ Left(r) = {}
  /\ Leaves(r, "done")
  /\ Send(r, <<Frame(StatusOf(err))>>)
  /\ UNCHANGED <<workerVars, histVars, ended, bookVars>>

\* A chunk with text; what comes for a worker that has gone changes nothing.
Forward(r) ==
  /\ gw[r] = "streaming" /\ Current(r)
  /\ Len(parts) + Len(wire) < MaxChunks
  /\ Send(r, <<Text(r)>>)
  /\ UNCHANGED <<workerVars, gw, routeVars, ended, bookVars>>

\* A stream that breaks is taken up by the next model of the chain.
BreakFallsBack(r) ==
  /\ gw[r] = "streaming"
  /\ Moves(r, "routing")
  /\ UNCHANGED <<workerVars, wire, routeVars, ended, bookVars>>

\* An error in the middle of the stream: an error event ends the response,
\* and nothing is booked.
UpstreamBreaks(r) ==
  /\ gw[r] = "streaming"
  /\ Leaves(r, "done")
  /\ Send(r, <<Frame("error"), Frame("over")>>)
  /\ UNCHANGED <<workerVars, histVars, ended, bookVars>>

\* The end of the response goes out before the cost is accounted for.
EndsUnbooked(r) ==
  /\ gw[r] = "streaming"
  /\ Leaves(r, "insert")
  /\ ended' = ended \cup {r}
  /\ Send(r, <<Frame("over")>>)
  /\ UNCHANGED <<workerVars, histVars, bookVars>>

\* The upstream is exhausted cleanly.
UpstreamEnds(r) ==
  /\ gw[r] = "streaming"
  /\ Leaves(r, "insert")
  /\ ended' = ended \cup {r}
  /\ UNCHANGED <<workerVars, wire, histVars, bookVars>>

-----------------------------------------------------------------------------
(* record_completion_cost: four awaits, then [DONE].                       *)

Booking == UNCHANGED <<workerVars, routeVars, ended>>

InsertRow(r) ==
  /\ gw[r] = "insert"
  /\ row' = row \cup {r}
  /\ Moves(r, "update")
  /\ Booking /\ UNCHANGED <<wire, total, mirror, faults>>

UpdateRun(r) ==
  /\ gw[r] = "update"
  /\ total' = total \cup {r}
  /\ Moves(r, "incr")
  /\ Booking /\ UNCHANGED <<wire, row, mirror, faults>>

IncrMirror(r) ==
  /\ gw[r] = "incr"
  /\ mirror' = mirror \cup {r}
  /\ Moves(r, "event")
  /\ Booking /\ UNCHANGED <<wire, row, total, faults>>

CostEvent(r) ==
  /\ gw[r] = "event"
  /\ Moves(r, "done")
  /\ Send(r, <<Frame("over")>>)
  /\ Booking /\ UNCHANGED bookVars

\* An await fails: the result of INCRBYFLOAT is ignored, any other error ends
\* the accounting and is logged; [DONE] goes out all the same.
BookingFails(r) ==
  /\ gw[r] \in {"insert", "update", "incr", "event"}
  /\ faults < MaxFaults
  /\ faults' = faults + 1
  /\ IF gw[r] = "incr"
     THEN Moves(r, "event") /\ UNCHANGED wire
     ELSE Moves(r, "done") /\ Send(r, <<Frame("over")>>)
  /\ Booking /\ UNCHANGED <<row, total, mirror>>

\* The connection of a worker that has gone is closed: the handler's future is
\* dropped at whatever await it has reached.
Abandon(r) ==
  /\ gw[r] \notin {"idle", "done"} /\ ~ Current(r)
  /\ Leaves(r, "done")
  /\ UNCHANGED <<workerVars, wire, histVars, ended, bookVars>>

-----------------------------------------------------------------------------
Book(r) == InsertRow(r) \/ UpdateRun(r) \/ IncrMirror(r) \/ CostEvent(r)

Handle(r) == \/ UpstreamOpens(r) \/ UpstreamFails(r) \/ ChainEnds(r)
             \/ UpstreamBreaks(r) \/ UpstreamEnds(r) \/ Book(r)

Read == \/ ReadClientError \/ ReadServerError \/ ReadText \/ ReadErrorEvent
        \/ ReadOver

Agent == Connect \/ Read \/ Parse

Next == \/ Agent \/ TransportFails \/ TransportRaises
        \/ \E r \in Requests : Handle(r) \/ Forward(r) \/ BookingFails(r)
                               \/ Abandon(r)

Spec == Init /\ [][Next]_vars

\* The coroutine goes on, and so does every handler: reqwest's timeouts end an
\* upstream that does not answer.
FairSpec == Spec /\ WF_vars(Agent) /\ \A r \in Requests : WF_vars(Handle(r))

-----------------------------------------------------------------------------
\* Type invariant of the agent, its response, the handlers and the books.
TypeOK ==
  /\ agent \in {"call", "read", "parse", "output", "unparseable", "failed",
                "raised"}
  /\ parses \in 0..MaxParses /\ attempt \in 1..MaxAttempts
  /\ req \in 0..(parses * MaxAttempts + attempt)
  /\ parts \in Seq(Frames) /\ wire \in Seq(Frames)
  /\ gw \in [Requests -> {"idle", "routing", "streaming", "insert", "update",
                          "incr", "event", "done"}]
  /\ at \in [Requests -> 0..Len(Chain)]
  /\ err \in Errors \cup {"none"}
  /\ tried \in Seq(Models)
  /\ ended \subseteq Requests
  /\ row \subseteq ended /\ total \subseteq row /\ mirror \subseteq total
  /\ faults \in 0..MaxFaults

\* The text that is parsed comes from one upstream stream: no retry of the
\* worker and no fallback of the router splices two answers together.
NotSpliced ==
  \A i, j \in 1..Len(parts) : parts[i] = parts[j]

\* When the worker goes on with an answer whose stream ended cleanly, its cost
\* is in all three books, unless a booking failed: what the next budget check
\* reads from mm:cost includes it, whatever was retried before.
AnswerIsBooked ==
  (agent \in {"parse", "output"} /\ req \in ended /\ faults = 0)
     => req \in row \cap total \cap mirror

\* A request asks no model twice, and fails only after an error that is not
\* retryable or after every model that could be asked was.
Asked == {tried[i] : i \in 1..Len(tried)}

FallbackIsExhausted ==
  /\ Cardinality(Asked) = Len(tried)
  /\ (wire # <<>> /\ Head(wire).kind \in {"client", "server"})
       => \/ err \in Errors /\ ~ Retryable(err)
          \/ {Chain[i] : i \in 1..Len(Chain)} \cap Usable \subseteq Asked

\* However often worker and router try again, one stream of one model makes the
\* answer, and a call is given up only when nobody is left to be asked.
TextFromOneStream == NotSpliced /\ FallbackIsExhausted

\* Every call ends: no pattern of failing connections, empty streams, models
\* and answers that do not parse keeps an agent going for ever.
CallEnds == <>(agent \in {"output", "unparseable", "failed", "raised"})

=============================================================================
