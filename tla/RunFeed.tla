------------------------------ MODULE RunFeed ------------------------------
(***************************************************************************)
(* One browser following one run: the gateway's WebSocket session tails    *)
(* the run's stream, the browser's RunWsClient reconnects and asks for a   *)
(* replay from the largest seq it has seen.                                *)
(*                                                                         *)
(* The stream and its producers are EventBus; this module adds its reader. *)
(* A session reads every entry the stream still has, from the oldest, and  *)
(* forwards those with a seq above the number of the client's hello frame. *)
(***************************************************************************)
EXTENDS EventBus

CONSTANTS MaxAttempts, \* RECONNECT_BACKOFFS_MS.length
          MaxFaults,   \* bound on the connections lost after they were open
          MaxLoads     \* bound on the times the user opens the run again

ASSUME FeedAssumption ==
  /\ MaxAttempts \in Nat
  /\ MaxFaults \in Nat
  /\ MaxLoads \in Nat

VARIABLES conn,     \* the RunWsClient: "waiting" to connect, "open", "ended"
          attempts, \* reconnects since the last successful open
          lastSeq,  \* the largest seq received
          terminal, \* a "done" was received
          shown,    \* what this client handed to onEvent, in order
          late,     \* history: one of its hellos with lastSeq > 0 came late
          session,  \* the gateway's end: "none", "hello" or "tail"
          from,     \* last_seq of the session: what the client has seen
          pos,      \* last_id: index of the last entry taken off the batch
          batch,    \* index of the last entry of the last XREAD
          wire,     \* frames on their way to the browser
          faults,   \* connections lost so far
          loads     \* times the run was opened again

client  == <<conn, attempts, lastSeq, terminal, shown>>
gateway == <<session, from, pos, batch>>
bounds  == <<faults, loads>>
feed    == <<client, late, gateway, wire, bounds>>
vars    == <<busVars, feed>>

CloseFrame == NoEntry

Greater(m, n) == IF m >= n THEN m ELSE n

SeenIn(entries, e) == \E i \in 1..Len(entries) : entries[i] = e

-----------------------------------------------------------------------------
Init ==
  /\ BusInit
  /\ conn = "waiting" /\ attempts = 0 /\ lastSeq = 0 /\ terminal = FALSE
  /\ shown = <<>> /\ late = FALSE
  /\ session = "none" /\ from = 0 /\ pos = 0 /\ batch = 0
  /\ wire = <<>> /\ faults = 0 /\ loads = 0

\* The upgrade succeeds: onopen resets attempts and sends the hello frame,
\* which carries lastSeq as it is now; the session waits 200 ms for it.
Connect ==
  /\ conn = "waiting"
  /\ conn' = "open"
  /\ attempts' = 0
  /\ session' = "hello"
  /\ from' = 0 /\ pos' = 0 /\ batch' = 0 /\ wire' = <<>>
  /\ UNCHANGED <<lastSeq, terminal, shown, late, bounds>>

\* One backoff too many.
RetryOnceMore ==
  IF terminal \/ attempts > MaxAttempts
  THEN conn' = "ended" /\ UNCHANGED attempts
  ELSE conn' = "waiting" /\ attempts' = attempts + 1

\* onclose with a code other than 1000: no retry after a "done" or when the
\* backoffs are used up.
Retry ==
  IF terminal \/ attempts >= MaxAttempts
  THEN conn' = "ended" /\ UNCHANGED attempts
  ELSE conn' = "waiting" /\ attempts' = attempts + 1

ConnectFails ==
  /\ conn = "waiting"
  /\ Retry
  /\ UNCHANGED <<lastSeq, terminal, shown, late, gateway, wire, bounds>>

\* A client that asks for the next seq it wants, filtered as if it had it.
HelloAsksNext ==
  /\ session = "hello"
  /\ session' = "tail"
  /\ from' = lastSeq + 1
  /\ UNCHANGED <<client, late, pos, batch, wire, bounds>>

HelloArrives ==
  /\ session = "hello"
  /\ session' = "tail"
  /\ from' = lastSeq
  /\ UNCHANGED <<client, late, pos, batch, wire, bounds>>

\* 200 ms pass first: the session replays from 0 and ignores the hello later.
HelloTimesOut ==
  /\ session = "hello"
  /\ session' = "tail"
  /\ late' = (late \/ lastSeq > 0)
  /\ UNCHANGED <<client, from, pos, batch, wire, bounds>>

\* A session that replays what is there and never waits for more.
ReplayOnly ==
  /\ session = "tail"
  /\ batch = 0
  /\ batch' = Len(stream)
  /\ batch' > batch
  /\ pos' = Greater(pos, floor)
  /\ UNCHANGED <<client, late, session, from, wire, bounds>>

\* XREAD from last_id: everything newer that MAXLEN has not rolled off.
XRead ==
  /\ session = "tail"
  /\ pos = batch
  /\ batch' = Len(stream)
  /\ batch' > batch
  /\ pos' = Greater(pos, floor)
  /\ UNCHANGED <<client, late, session, from, wire, bounds>>

\* Skip events already seen by the client.
Unseen(e) == e.seq > from

\* The next entry of the batch: filtered out or sent.
Forward ==
  /\ session = "tail"
  /\ pos < batch
  /\ pos' = pos + 1
  /\ LET e == stream[pos + 1] IN
       IF ~ Unseen(e) THEN UNCHANGED <<session, wire>>
       ELSE IF e.kind = "done"
         THEN session' = "none" /\ wire' = Append(Append(wire, e), CloseFrame)
         ELSE session' = session /\ wire' = Append(wire, e)
  /\ UNCHANGED <<client, late, from, batch, bounds>>

\* onmessage: lastSeq is the largest seq so far, "done" makes it terminal.
ReceiveEvent ==
  /\ conn = "open" /\ wire # <<>> /\ Head(wire) # CloseFrame
  /\ lastSeq' = Greater(lastSeq, Head(wire).seq)
  /\ terminal' = (terminal \/ Head(wire).kind = "done")
  /\ shown' = Append(shown, Head(wire))
  /\ wire' = Tail(wire)
  /\ UNCHANGED <<conn, attempts, late, gateway, bounds>>

\* onclose with code 1000: no reconnect.
ReceiveClose ==
  /\ conn = "open" /\ wire # <<>> /\ Head(wire) = CloseFrame
  /\ conn' = "ended"
  /\ wire' = <<>>
  /\ UNCHANGED <<attempts, lastSeq, terminal, shown, late, gateway, bounds>>

\* The connection breaks: the frames in flight are lost and both ends notice.
Drop ==
  /\ conn = "open"
  /\ faults < MaxFaults
  /\ faults' = faults + 1
  /\ Retry
  /\ session' = "none"
  /\ wire' = <<>>
  /\ UNCHANGED <<lastSeq, terminal, shown, late, from, pos, batch, loads>>

\* XREAD fails: the session ends without a Close frame, after what it sent.
XReadFails ==
  /\ session = "tail"
  /\ pos = batch
  /\ faults < MaxFaults
  /\ faults' = faults + 1
  /\ session' = "none"
  /\ UNCHANGED <<client, late, from, pos, batch, wire, loads>>

\* The browser has drained the frames of a session that just ended.
Eof ==
  /\ conn = "open" /\ session = "none" /\ wire = <<>>
  /\ Retry
  /\ UNCHANGED <<lastSeq, terminal, shown, late, gateway, wire, bounds>>

\* The user opens the run again (a page load, the route): a new RunWsClient.
OpenAgain ==
  /\ conn = "ended"
  /\ loads < MaxLoads
  /\ loads' = loads + 1
  /\ conn' = "waiting" /\ attempts' = 0 /\ lastSeq' = 0 /\ terminal' = FALSE
  /\ shown' = <<>> /\ late' = FALSE
  /\ session' = "none" /\ wire' = <<>>
  /\ UNCHANGED <<from, pos, batch, faults>>

-----------------------------------------------------------------------------
Gateway == HelloArrives \/ HelloTimesOut \/ XRead \/ Forward \/ XReadFails

Browser == \/ Connect \/ ConnectFails \/ ReceiveEvent \/ ReceiveClose
           \/ Drop \/ Eof \/ OpenAgain

Feed == (Gateway \/ Browser) /\ UNCHANGED busVars

Produce == BusNext /\ UNCHANGED feed

Next == Feed \/ Produce

Spec == Init /\ [][Next]_vars

\* The session's loop and the browser's event loop keep running.  Nothing is
\* assumed of the producers, the faults, a late hello or the user.
Serve == (HelloArrives \/ XRead \/ Forward) /\ UNCHANGED busVars

Follow == (Connect \/ ReceiveEvent \/ ReceiveClose \/ Eof) /\ UNCHANGED busVars

FairSpec == Spec /\ WF_vars(Serve) /\ WF_vars(Follow)

-----------------------------------------------------------------------------
\* Type invariant of the reader; the stream's is EventBus's.
TypeOK ==
  /\ conn \in {"waiting", "open", "ended"}
  /\ attempts \in 0..MaxAttempts
  /\ lastSeq \in 0..MaxSeq
  /\ terminal \in BOOLEAN /\ late \in BOOLEAN
  /\ shown \in Seq(Entry)
  /\ session \in {"none", "hello", "tail"}
  /\ from \in 0..MaxSeq
  /\ pos \in 0..batch /\ batch \in 0..Len(stream)
  /\ wire \in Seq(Entry \cup {CloseFrame})
  /\ faults \in 0..MaxFaults /\ loads \in 0..MaxLoads

\* A client is handed no event twice, over all its reconnects, unless one of
\* its hello frames missed the gateway's 200 ms: the largest seq it has seen
\* is at least that of everything it was handed.
NoReplayUnlessLate ==
  late \/ \A i, j \in 1..Len(shown) : i # j => shown[i] # shown[j]

\* What an open session has passed over without the client seeing it is one
\* of two things: rolled off by MAXLEN, or overtaken on the stream by an entry
\* with a larger seq.  Nothing else is lost, whatever breaks and reconnects.
Overtaken(i) ==
  i <= Len(stream) /\ \E j \in 1..(i - 1) : stream[j].seq > stream[i].seq

Delivered(i) ==
  i <= Len(stream) /\ (SeenIn(shown, stream[i]) \/ SeenIn(wire, stream[i]))

LossOnlyIfOvertaken ==
  (conn = "open" /\ session = "tail") =>
    \A i \in 1..pos : Delivered(i) \/ Overtaken(i) \/ i <= floor

\* What reaches the browser: each event once, and all of them.
DeliveredOnce == NoReplayUnlessLate /\ LossOnlyIfOvertaken

\* Once "done" is on the stream the browser ends: it has the "done", or it has
\* used up its reconnects, or the "done" was overtaken or rolled off.
DoneAt(i) == i <= Len(stream) /\ stream[i].kind = "done"

DoneReachesBrowser ==
  \A i \in 1..MaxSeq :
    DoneAt(i) ~> (conn = "ended" \/ terminal \/ Overtaken(i) \/ i <= floor)

\* crates/gateway/src/routes/runs.rs:142-144, fine-tune "events stream back on
\* the same mm:events:<run_id> channel", and apps/web/src/stores/finetune.ts:5
\* "the worker emits events on the same WebSocket as the main run": a finetune
\* event on the stream is handed to a browser that has the run open and has not
\* used up its reconnects.
FinetuneReachesBrowser ==
  \A i \in 1..MaxSeq :
    (i <= Len(stream) /\ stream[i].kind = "finetune")
       ~> (Delivered(i) \/ i <= floor \/ (conn = "ended" /\ ~ terminal))

=============================================================================
