------------------------- MODULE WebStoresProofs -------------------------
(***************************************************************************)
(* Proofs about WebStores, for any runs, reconnects, pages visited, runs   *)
(* started, messages and lost connections: the types, and what the stores  *)
(* hold unless an answer is late.                                          *)
(*                                                                         *)
(* That the stores hold nothing of another run is not inductive: it has to *)
(* be known that no client but the page's can still deliver (Own), and     *)
(* what the page, the store and its client have to do with each other,     *)
(* which no late answer can change (PageStore).                            *)
(***************************************************************************)
EXTENDS WebStores, TLAPS

Sock == {"connecting", "open", "backoff", "closing", "ended"}

ClientRec == [run : Runs, sock : Sock, attempts : 0 .. MaxAttempts,
              closedByUser : BOOLEAN, terminal : BOOLEAN]

Status == {"idle", "queued", "running"} \cup Terminal

StoreRec == [runId : Runs \cup {NoRun}, status : Status, holds : SUBSET (Runs \cup {NoRun})]

Message == [run : Runs, done : BOOLEAN, holds : SUBSET Runs]

ChatRec == [session : Runs \cup {NoRun}, messages : Seq(Message), isRunning : BOOLEAN]

Turn == [run : Runs, session : Runs \cup {NoRun}, is : {"posted", "queued"},
         answered : BOOLEAN]

Types ==
    /\ page \in Runs \cup {"form", "away"} /\ exists \subseteq Runs
    /\ starts \in Nat
    /\ record \in Runs \cup {NoRun}
    /\ store \in StoreRec /\ clients \in Seq(ClientRec) /\ ws \in 0 .. Len(clients)
    /\ chat \in ChatRec /\ turns \in Seq(Turn)
    /\ late \in BOOLEAN
    /\ bounds \in [visits : Nat, starts : 0 .. MaxStarts, drops : Nat]

\* All a tab knows are runs the gateway knows.
Known ==
    /\ Listed \subseteq exists
    /\ created \cup gets \subseteq exists
    /\ page \in Runs => page \in exists
    /\ record \in exists \cup {NoRun}
    /\ store.holds \subseteq exists \cup {NoRun} /\ pending \subseteq exists
    /\ \A c \in DOMAIN clients : clients[c].run \in exists

\* Whatever answer came late: the store and the client it can close are of the
\* page's run, and there is none of them on a page of no run.
PageStore ==
    /\ page \in Runs => ws # 0 /\ store.runId = page /\ clients[ws].run = page
    /\ page \notin Runs => ws = 0 /\ store.runId = NoRun

\* A client that will deliver nothing more, nor reconnect.
Quiet(client) ==
    \/ client.sock \in {"closing", "ended"}
    \/ client.sock = "backoff" /\ (client.closedByUser \/ client.terminal)

Own ==
    /\ \A c \in DOMAIN clients : c # ws => Quiet(clients[c])
    /\ store.holds \cup pending \subseteq {store.runId}
    /\ store.runId = NoRun => store.holds = {} \/ store.status = "failed"
    /\ {record, chat.session} \subseteq {page, NoRun}
    /\ \A m \in DOMAIN chat.messages :
          chat.messages[m].run = page /\ chat.messages[m].holds \subseteq {page}
    /\ \A i \in DOMAIN turns : turns[i].session \in {turns[i].run, NoRun}

IInv == /\ Types /\ Known /\ PageStore /\ starts <= bounds.starts
        /\ (late \/ Own)

-----------------------------------------------------------------------------
(* Sequences whose elements change one at a time.                          *)

LEMMA ReplaceOne ==
    ASSUME NEW S, NEW s \in Seq(S), NEW n \in 1 .. Len(s), NEW r \in S
    PROVE  /\ [s EXCEPT ![n] = r] \in Seq(S)
           /\ Len([s EXCEPT ![n] = r]) = Len(s)
           /\ [s EXCEPT ![n] = r][n] = r
           /\ \A m \in 1 .. Len(s) : m # n => [s EXCEPT ![n] = r][m] = s[m]
OBVIOUS

LEMMA AppendOne ==
    ASSUME NEW S, NEW s \in Seq(S), NEW r \in S
    PROVE  /\ Append(s, r) \in Seq(S) /\ Len(Append(s, r)) = Len(s) + 1
           /\ Append(s, r)[Len(s) + 1] = r
           /\ \A m \in 1 .. Len(s) : Append(s, r)[m] = s[m]
           /\ Len(s) \in Nat /\ Len(s) + 1 \notin 1 .. Len(s)
           /\ \A m \in 1 .. Len(Append(s, r)) : m \in 1 .. Len(s) \/ m = Len(s) + 1
OBVIOUS

LEMMA DomainOfSeq ==
    ASSUME NEW S, NEW s \in Seq(S)
    PROVE  DOMAIN s = 1 .. Len(s) /\ \A n \in DOMAIN s : s[n] \in S
OBVIOUS

LEMMA WithinFacts ==
    ASSUME Types, NEW max \in Nat
    PROVE  /\ Within("visits", max) \/ Within("drops", max) =>
                bounds' \in [visits : Nat, starts : 0 .. MaxStarts, drops : Nat]
                  /\ bounds'.starts = bounds.starts
           /\ Within("starts", MaxStarts) =>
                bounds' \in [visits : Nat, starts : 0 .. MaxStarts, drops : Nat]
                  /\ bounds'.starts = bounds.starts + 1
BY WebStoresAssumption DEF Types, Within

-----------------------------------------------------------------------------
(* What a step of a client does, whatever it is: it delivers something of  *)
(* its run, if it is one that can, and nothing else comes in.              *)

SocketStep(c) ==
    \E r \in ClientRec :
        /\ clients' = [clients EXCEPT ![c] = r]
        /\ r.run = clients[c].run /\ (Quiet(clients[c]) => Quiet(r))

StoreStep(c) ==
    /\ store' \in StoreRec /\ store'.runId = store.runId
    /\ pending' \subseteq pending \cup {clients[c].run}
    /\ store'.holds \subseteq store.holds \cup {clients[c].run}
    /\ Quiet(clients[c]) => /\ pending' = pending /\ store'.holds = store.holds
                            /\ store'.status = store.status

ChatStep(c) ==
    /\ chat' \in ChatRec /\ chat'.session = chat.session
    /\ Len(chat'.messages) = Len(chat.messages)
    /\ \A m \in DOMAIN chat.messages :
          /\ chat'.messages[m].run = chat.messages[m].run
          /\ chat'.messages[m].holds \subseteq chat.messages[m].holds \cup {clients[c].run}
          /\ Quiet(clients[c]) => chat'.messages[m].holds = chat.messages[m].holds

Delivery(c) ==
    /\ SocketStep(c) /\ StoreStep(c) /\ ChatStep(c)
    /\ UNCHANGED <<page, exists, starts, created, gets, record, ws, turns, late>>
    /\ bounds' \in [visits : Nat, starts : 0 .. MaxStarts, drops : Nat]
    /\ bounds'.starts = bounds.starts

LEMMA SameSocket ==
    ASSUME Types, NEW c \in DOMAIN clients, clients' = clients PROVE SocketStep(c)
<1>1. clients[c] \in ClientRec /\ clients = [clients EXCEPT ![c] = clients[c]]
    BY DEF Types
<1>2. QED
    BY <1>1 DEF SocketStep

LEMMA SameStore ==
    ASSUME Types, NEW c \in DOMAIN clients, UNCHANGED <<store, pending>> PROVE StoreStep(c)
BY DEF StoreStep, Types

LEMMA SameChat ==
    ASSUME Types, NEW c \in DOMAIN clients, UNCHANGED chat PROVE ChatStep(c)
BY DEF ChatStep, Types

LEMMA OnOpenFacts ==
    ASSUME Types
    PROVE  OnOpen \in StoreRec /\ OnOpen.runId = store.runId /\ OnOpen.holds = store.holds
BY DEF Types, OnOpen, StoreRec, Status

LEMMA SocketActions ==
    ASSUME Types, NEW c \in DOMAIN clients,
           Opened(c) \/ ConnectFails(c) \/ Drop(c) \/ ConnectAgain(c)
             \/ ClosedByUser(c) \/ ClosedByServer(c)
    PROVE  Delivery(c)
<1> DEFINE old == clients[c]
<1>1. old \in ClientRec /\ clients \in Seq(ClientRec)
    BY DEF Types
<1>2. UNCHANGED <<page, exists, turns, starts, created, gets, record, pending, ws, chat, late>>
    BY DEF Opened, ConnectFails, Drop, Broken, ConnectAgain, ClosedByUser, ClosedByServer,
           server, requests, posts
<1>3. ChatStep(c)
    BY <1>2, SameChat
<1>4. /\ bounds' \in [visits : Nat, starts : 0 .. MaxStarts, drops : Nat]
      /\ bounds'.starts = bounds.starts
    BY WithinFacts, WebStoresAssumption
       DEF Types, Opened, ConnectFails, Drop, ConnectAgain, ClosedByUser, ClosedByServer
<1>5. StoreStep(c)
    <2>1. CASE store' = OnOpen /\ ~ Quiet(clients[c])
        BY <1>2, <2>1, OnOpenFacts DEF StoreStep
    <2>2. CASE store' = store
        BY <1>2, <2>2, SameStore
    <2>3. Opened(c) => store' = OnOpen /\ ~ Quiet(clients[c])
        BY DEF Opened, Client, Quiet
    <2>4. QED
        BY <2>1, <2>2, <2>3
           DEF ConnectFails, Drop, Broken, ConnectAgain, ClosedByUser, ClosedByServer
<1>6. SocketStep(c)
    <2>1. CASE Opened(c)
        <3> DEFINE r == [old EXCEPT !.sock = "open", !.attempts = 0]
        <3>1. clients' = [clients EXCEPT ![c] = r]
            BY <2>1 DEF Opened
        <3>2. r \in ClientRec /\ r.run = old.run /\ ~ Quiet(old)
            BY <1>1, <2>1, WebStoresAssumption
               DEF Opened, Client, Quiet, ClientRec, Sock
        <3>3. QED
            BY <3>1, <3>2 DEF SocketStep
    <2>2. CASE ConnectFails(c) \/ Drop(c)
        <3>1. Broken(c) /\ ~ Quiet(old)
            BY <2>2 DEF ConnectFails, Drop, Client, Quiet
        <3>2. CASE old.terminal \/ old.attempts = MaxAttempts
            <4> DEFINE r == [old EXCEPT !.sock = "ended"]
            <4>1. clients' = [clients EXCEPT ![c] = r]
                BY <3>1, <3>2 DEF Broken
            <4>2. r \in ClientRec /\ r.run = old.run
                BY <1>1 DEF ClientRec, Sock
            <4>3. QED
                BY <3>1, <4>1, <4>2 DEF SocketStep
        <3>3. CASE ~ (old.terminal \/ old.attempts = MaxAttempts)
            <4> DEFINE r == [old EXCEPT !.sock = "backoff", !.attempts = @ + 1]
            <4>1. clients' = [clients EXCEPT ![c] = r]
                BY <3>1, <3>3 DEF Broken
            <4>2. old.attempts + 1 \in 0 .. MaxAttempts
                BY <1>1, <3>3, WebStoresAssumption DEF ClientRec
            <4>3. r \in ClientRec /\ r.run = old.run
                BY <1>1, <4>2 DEF ClientRec, Sock
            <4>4. QED
                BY <3>1, <4>1, <4>3 DEF SocketStep
        <3>4. QED
            BY <3>2, <3>3
    <2>3. CASE ConnectAgain(c) /\ ~ Quiet(old)
        <3> DEFINE r == [old EXCEPT !.sock = "connecting"]
        <3>1. clients' = [clients EXCEPT ![c] = r]
            BY <2>3 DEF ConnectAgain, Client, Quiet
        <3>2. r \in ClientRec /\ r.run = old.run
            BY <1>1 DEF ClientRec, Sock
        <3>3. QED
            BY <2>3, <3>1, <3>2 DEF SocketStep
    <2>4. CASE (ConnectAgain(c) /\ Quiet(old)) \/ ClosedByUser(c) \/ ClosedByServer(c)
        <3> DEFINE r == [old EXCEPT !.sock = "ended"]
        <3>1. clients' = [clients EXCEPT ![c] = r]
            BY <2>4 DEF ConnectAgain, ClosedByUser, ClosedByServer, Client, Quiet
        <3>2. r \in ClientRec /\ r.run = old.run /\ Quiet(r)
            BY <1>1 DEF ClientRec, Sock, Quiet
        <3>3. QED
            BY <3>1, <3>2 DEF SocketStep
    <2>5. QED
        BY <2>1, <2>2, <2>3, <2>4
<1>7. QED
    BY <1>2, <1>3, <1>4, <1>5, <1>6 DEF Delivery

LEMMA EventActions ==
    ASSUME Types, NEW c \in DOMAIN clients,
           Token(c) \/ StageStart(c) \/ Other(c) \/ ErrorEvent(c) \/ Done(c)
    PROVE  Delivery(c)
<1> DEFINE old == clients[c]
<1>1. /\ old \in ClientRec /\ clients \in Seq(ClientRec) /\ ~ Quiet(old)
      /\ store \in StoreRec /\ old.run \in Runs
    <2>1. Frame(c)
        BY DEF Token, StageStart, Other, ErrorEvent, Done
    <2>2. old.sock = "open" /\ ~ Quiet(old)
        BY <2>1 DEF Frame, Client, Quiet
    <2>3. old \in ClientRec /\ clients \in Seq(ClientRec) /\ store \in StoreRec
        BY DEF Types
    <2>4. QED
        BY <2>2, <2>3 DEF ClientRec
<1>2. UNCHANGED <<page, exists, turns, starts, created, gets, record, ws, chat, late,
                  bounds>>
    BY DEF Token, StageStart, Other, ErrorEvent, Done, server, requests, posts
<1>3. ChatStep(c)
    BY <1>2, SameChat
<1>4. bounds' \in [visits : Nat, starts : 0 .. MaxStarts, drops : Nat]
    BY <1>2 DEF Types
<1>5. StoreStep(c)
    <2>1. pending' \subseteq pending \cup {old.run}
        BY DEF Token, StageStart, Other, ErrorEvent, Done
    <2>2. /\ store' \in StoreRec /\ store'.runId = store.runId
          /\ store'.holds \subseteq store.holds \cup {old.run}
        <3>1. CASE Token(c)
            BY <1>1, <3>1 DEF Token
        <3>2. CASE StageStart(c)
            BY <1>1, <3>2 DEF StageStart, StoreRec, Status
        <3>3. CASE Other(c)
            BY <1>1, <3>3 DEF Other, StoreRec
        <3>4. CASE ErrorEvent(c)
            BY <1>1, <3>4 DEF ErrorEvent, StoreRec, Status, Terminal
        <3>5. CASE Done(c)
            <4>1. PICK status \in Terminal :
                        store' = [store EXCEPT !.holds = @ \cup {old.run}, !.status = status]
                BY <3>5 DEF Done
            <4>2. QED
                BY <1>1, <4>1 DEF StoreRec, Status
        <3>6. QED
            BY <3>1, <3>2, <3>3, <3>4, <3>5
    <2>3. QED
        BY <1>1, <2>1, <2>2 DEF StoreStep
<1>6. SocketStep(c)
    <2>1. CASE Done(c)
        <3> DEFINE r == [old EXCEPT !.terminal = TRUE]
        <3>1. clients' = [clients EXCEPT ![c] = r]
            BY <2>1 DEF Done
        <3>2. r \in ClientRec /\ r.run = old.run
            BY <1>1 DEF ClientRec
        <3>3. QED
            BY <1>1, <3>1, <3>2 DEF SocketStep
    <2>2. CASE clients' = clients
        BY <2>2, SameSocket
    <2>3. QED
        BY <2>1, <2>2 DEF Token, StageStart, Other, ErrorEvent
<1>7. QED
    BY <1>2, <1>3, <1>4, <1>5, <1>6 DEF Delivery

LEMMA ChatActions ==
    ASSUME Types, NEW c \in DOMAIN clients, NEW i \in DOMAIN turns, ChatFrame(c, i)
    PROVE  Delivery(c)
<1> DEFINE old == chat.messages
<1>1. UNCHANGED <<page, exists, turns, starts, created, gets, record, store, pending, clients,
                  ws, late, bounds>>
    BY DEF ChatFrame, server, requests, posts
<1>2. SocketStep(c) /\ StoreStep(c)
    BY <1>1, SameSocket, SameStore
<1>3. chat \in ChatRec /\ old \in Seq(Message) /\ turns[i] \in Turn
    BY DEF Types, ChatRec
<1>4. turns[i].run = clients[c].run /\ ~ Quiet(clients[c]) /\ turns[i].run \in Runs
    BY <1>3 DEF ChatFrame, Frame, Client, Quiet, Turn
<1>5. ChatStep(c)
    <2>1. PICK m \in DOMAIN old :
                chat' = [chat EXCEPT !.messages[m].holds = @ \cup {turns[i].run}]
        BY DEF ChatFrame
    <2> DEFINE given == [old[m] EXCEPT !.holds = @ \cup {turns[i].run}]
               new == [old EXCEPT ![m] = given]
    <2>2. DOMAIN old = 1 .. Len(old) /\ old[m] \in Message
        BY <1>3, DomainOfSeq
    <2>3. given \in Message /\ given.run = old[m].run
          /\ given.holds = old[m].holds \cup {turns[i].run}
        BY <1>4, <2>2 DEF Message
    <2>4. chat' = [chat EXCEPT !.messages = new]
        BY <1>3, <2>1 DEF ChatRec
    <2> HIDE DEF given
    <2>5. /\ new \in Seq(Message) /\ Len(new) = Len(old) /\ new[m] = given
          /\ \A n \in 1 .. Len(old) : n # m => new[n] = old[n]
        BY <1>3, <2>2, <2>3, ReplaceOne
    <2> HIDE DEF new
    <2>6. chat' \in ChatRec /\ chat'.messages = new /\ chat'.session = chat.session
        BY <1>3, <2>4, <2>5 DEF ChatRec
    <2>7. \A n \in DOMAIN old :
              new[n].run = old[n].run /\ new[n].holds \subseteq old[n].holds \cup {clients[c].run}
        BY <1>4, <2>2, <2>3, <2>5
    <2>8. QED
        BY <1>4, <2>5, <2>6, <2>7 DEF ChatStep
<1>6. /\ bounds' \in [visits : Nat, starts : 0 .. MaxStarts, drops : Nat]
      /\ bounds'.starts = bounds.starts
    BY <1>1 DEF Types
<1>7. QED
    BY <1>1, <1>2, <1>5, <1>6 DEF Delivery

\* Replacing one client by one of the same run that is no noisier.
LEMMA SocketStepFacts ==
    ASSUME Types, NEW c \in DOMAIN clients, SocketStep(c)
    PROVE  /\ clients' \in Seq(ClientRec) /\ Len(clients') = Len(clients)
           /\ DOMAIN clients' = DOMAIN clients
           /\ \A d \in DOMAIN clients :
                 clients'[d].run = clients[d].run
                   /\ (Quiet(clients[d]) => Quiet(clients'[d]))
<1>1. PICK r \in ClientRec :
            /\ clients' = [clients EXCEPT ![c] = r]
            /\ r.run = clients[c].run /\ (Quiet(clients[c]) => Quiet(r))
    BY DEF SocketStep
<1>2. clients \in Seq(ClientRec) /\ DOMAIN clients = 1 .. Len(clients)
    BY DEF Types
<1>3. /\ clients' \in Seq(ClientRec) /\ Len(clients') = Len(clients) /\ clients'[c] = r
      /\ \A d \in 1 .. Len(clients) : d # c => clients'[d] = clients[d]
    BY <1>1, <1>2, ReplaceOne
<1>4. DOMAIN clients' = 1 .. Len(clients)
    BY <1>3
<1>5. QED
    BY <1>1, <1>2, <1>3, <1>4

LEMMA DeliveryKeeps ==
    ASSUME IInv, NEW c \in DOMAIN clients, Delivery(c)
    PROVE  IInv'
<1>1. Types /\ Known /\ PageStore /\ (late \/ Own) /\ starts <= bounds.starts
    BY DEF IInv
<1>2. UNCHANGED <<page, exists, starts, created, gets, record, ws, turns, late>>
    BY DEF Delivery
<1>3. /\ clients' \in Seq(ClientRec) /\ Len(clients') = Len(clients)
      /\ DOMAIN clients' = DOMAIN clients
      /\ \A d \in DOMAIN clients :
            clients'[d].run = clients[d].run /\ (Quiet(clients[d]) => Quiet(clients'[d]))
    BY <1>1, SocketStepFacts DEF Delivery
<1>4. StoreStep(c) /\ ChatStep(c)
    BY DEF Delivery
<1>5. /\ chat.messages \in Seq(Message) /\ chat'.messages \in Seq(Message)
      /\ DOMAIN chat'.messages = DOMAIN chat.messages
    BY <1>1, <1>4 DEF ChatStep, ChatRec, Types
<1>6. Types'
    <2>1. ws' \in 0 .. Len(clients')
        BY <1>1, <1>2, <1>3 DEF Types
    <2>2. store' \in StoreRec /\ chat' \in ChatRec
        BY <1>4 DEF StoreStep, ChatStep
    <2>3. bounds' \in [visits : Nat, starts : 0 .. MaxStarts, drops : Nat]
        BY DEF Delivery
    <2>4. QED
        BY <1>1, <1>2, <1>3, <2>1, <2>2, <2>3 DEF Types
<1>7. Known'
    <2>1. clients[c].run \in exists
        BY <1>1 DEF Known
    <2>2. /\ store'.holds \subseteq exists' \cup {NoRun} /\ pending' \subseteq exists'
        BY <1>1, <1>2, <1>4, <2>1 DEF Known, StoreStep
    <2>3. created' \cup gets' \subseteq exists'
        BY <1>1, <1>2, <1>4 DEF Known, ChatStep
    <2>4. \A d \in DOMAIN clients' : clients'[d].run \in exists'
        BY <1>1, <1>2, <1>3 DEF Known
    <2>5. QED
        BY <1>1, <1>2, <2>2, <2>3, <2>4 DEF Known
<1>8. PageStore'
    <2>1. store'.runId = store.runId
        BY <1>4 DEF StoreStep
    <2>2. page \in Runs => ws \in DOMAIN clients
        BY <1>1 DEF PageStore, Types
    <2>3. QED
        BY <1>1, <1>2, <1>3, <2>1, <2>2 DEF PageStore
<1>9. ASSUME Own PROVE Own'
    <2>1. \A d \in DOMAIN clients' : d # ws' => Quiet(clients'[d])
        BY <1>2, <1>3, <1>9 DEF Own
    \* A client that can deliver is the page's.
    <2>2. Quiet(clients[c]) \/ clients[c].run = store.runId
        <3>1. ASSUME ~ Quiet(clients[c]) PROVE clients[c].run = store.runId
            <4>1. c = ws /\ c # 0
                BY <1>1, <1>9, <3>1 DEF Own, Types
            <4>2. QED
                BY <1>1, <4>1 DEF PageStore
        <3>2. QED
            BY <3>1
    <2>3. store'.runId = store.runId
        BY <1>4 DEF StoreStep
    <2>4. store'.holds \cup pending' \subseteq {store'.runId}
        BY <1>4, <1>9, <2>2, <2>3 DEF Own, StoreStep
    <2>5. store'.runId = NoRun => store'.holds = {} \/ store'.status = "failed"
        <3>1. CASE Quiet(clients[c])
            BY <1>4, <1>9, <2>3, <3>1 DEF Own, StoreStep
        <3>2. CASE clients[c].run = store.runId
            <4>1. clients[c] \in ClientRec
                BY <1>1 DEF Types
            <4>2. clients[c].run # NoRun
                BY <4>1, WebStoresAssumption DEF ClientRec
            <4>3. QED
                BY <2>3, <3>2, <4>2
        <3>3. QED
            BY <2>2, <3>1, <3>2
    <2>6. {record', chat'.session} \subseteq {page', NoRun}
        BY <1>2, <1>4, <1>9 DEF Own, ChatStep
    <2>7. \A m \in DOMAIN chat'.messages :
              chat'.messages[m].run = page' /\ chat'.messages[m].holds \subseteq {page'}
        <3>1. TAKE m \in DOMAIN chat'.messages
        <3>2. m \in DOMAIN chat.messages /\ chat.messages[m].run = page
              /\ chat.messages[m].holds \subseteq {page} /\ chat.messages[m] \in Message
            BY <1>5, <1>9, DomainOfSeq DEF Own
        <3>3. page \in Runs
            BY <3>2 DEF Message
        <3>4. Quiet(clients[c]) \/ clients[c].run = page
            BY <1>1, <2>2, <3>3 DEF PageStore
        <3>5. QED
            BY <1>2, <1>4, <3>2, <3>4 DEF ChatStep
    <2>8. \A i \in DOMAIN turns' : turns'[i].session \in {turns'[i].run, NoRun}
        BY <1>2, <1>9 DEF Own
    <2>9. QED
        BY <2>1, <2>4, <2>5, <2>6, <2>7, <2>8 DEF Own
<1>10. starts' <= bounds'.starts
    BY <1>1, <1>2 DEF Delivery
<1>11. QED
    BY <1>1, <1>2, <1>6, <1>7, <1>8, <1>9, <1>10 DEF IInv

\* What the animation frame moves was the store's already.
LEMMA FlushKeeps == ASSUME IInv, Flush PROVE IInv'
<1>1. /\ store' = [store EXCEPT !.holds = @ \cup pending] /\ pending' = {} /\ pending # {}
      /\ UNCHANGED <<page, exists, turns, starts, created, gets, record, clients, ws, chat,
                     late, bounds>>
    BY DEF Flush, server, requests, posts
<1>2. /\ store \in StoreRec /\ store'.runId = store.runId /\ store'.status = store.status
      /\ store'.holds = store.holds \cup pending
    BY <1>1 DEF IInv, Types, StoreRec
<1>3. pending \subseteq Runs
    BY DEF IInv, Known, Types
<1>4. store' \in StoreRec
    BY <1>1, <1>2, <1>3 DEF StoreRec
<1>5. Types' /\ Known' /\ PageStore' /\ starts' <= bounds'.starts
    <2>1. Types'
        BY <1>1, <1>4 DEF IInv, Types
    <2>2. Known'
        BY <1>1, <1>2 DEF IInv, Known
    <2>3. PageStore'
        BY <1>1, <1>2 DEF IInv, PageStore
    <2>4. QED
        BY <1>1, <2>1, <2>2, <2>3 DEF IInv
<1>6. ASSUME Own PROVE Own'
    <2>1. store.runId # NoRun
        BY <1>1, <1>3, <1>6, WebStoresAssumption DEF Own
    <2>2. store'.holds \cup pending' \subseteq {store'.runId}
        BY <1>1, <1>2, <1>6 DEF Own
    <2>3. QED
        BY <1>1, <1>2, <1>6, <2>1, <2>2 DEF Own
<1>7. QED
    BY <1>1, <1>5, <1>6 DEF IInv

-----------------------------------------------------------------------------
(* The page is left: its client is closed, whatever it was doing.          *)

Left == IF ws = 0 THEN clients ELSE Close(ws)

LEMMA CloseFacts ==
    ASSUME Types, NEW w \in 1 .. Len(clients)
    PROVE  /\ Close(w) \in Seq(ClientRec) /\ Len(Close(w)) = Len(clients)
           /\ Quiet(Close(w)[w]) /\ Close(w)[w].run = clients[w].run
           /\ \A c \in 1 .. Len(clients) : c # w => Close(w)[c] = clients[c]
<1> DEFINE old == clients[w]
           r == IF old.sock \in {"connecting", "open"}
                THEN [old EXCEPT !.closedByUser = TRUE, !.sock = "closing"]
                ELSE [old EXCEPT !.closedByUser = TRUE]
<1>1. old \in ClientRec /\ clients \in Seq(ClientRec)
    BY DEF Types
<1>2. Close(w) = [clients EXCEPT ![w] = r]
    BY <1>1 DEF Close
<1>3. r \in ClientRec /\ r.run = old.run
    BY <1>1 DEF ClientRec, Sock
<1>4. Quiet(r)
    BY <1>1 DEF ClientRec, Sock, Quiet
<1> HIDE DEF r, old
<1>5. QED
    BY <1>1, <1>2, <1>3, <1>4, ReplaceOne DEF old

LEMMA LeftFacts ==
    ASSUME Types
    PROVE  /\ Left \in Seq(ClientRec) /\ Len(Left) = Len(clients)
           /\ \A c \in 1 .. Len(clients) : Left[c].run = clients[c].run
           /\ (\A c \in DOMAIN clients : c # ws => Quiet(clients[c]))
                => \A c \in 1 .. Len(clients) : Quiet(Left[c])
<1>1. clients \in Seq(ClientRec) /\ DOMAIN clients = 1 .. Len(clients)
    BY DEF Types
<1>2. CASE ws = 0
    BY <1>1, <1>2 DEF Left
<1>3. CASE ws # 0
    <2>1. ws \in 1 .. Len(clients)
        BY <1>3 DEF Types
    <2>2. QED
        BY <1>1, <1>3, <2>1, CloseFacts DEF Left
<1>4. QED
    BY <1>2, <1>3

\* A new client, of a run that is known, is the one the store can close.
LEMMA NewClientFacts ==
    ASSUME NEW s \in Seq(ClientRec), NEW run \in Runs
    PROVE  LET t == Append(s, NewClient(run)) IN
           /\ t \in Seq(ClientRec) /\ Len(t) \in 1 .. Len(t) /\ t[Len(t)].run = run
           /\ Len(t) = Len(s) + 1 /\ DOMAIN t = 1 .. Len(t)
           /\ \A c \in DOMAIN t : c # Len(t) => c \in 1 .. Len(s) /\ t[c] = s[c]
<1> DEFINE r == NewClient(run)
           t == Append(s, r)
<1>1. r \in ClientRec /\ r.run = run
    BY WebStoresAssumption DEF NewClient, ClientRec, Sock
<1> HIDE DEF r
<1>2. /\ t \in Seq(ClientRec) /\ Len(t) = Len(s) + 1 /\ t[Len(s) + 1] = r
      /\ \A c \in 1 .. Len(s) : t[c] = s[c]
      /\ Len(s) \in Nat
    BY <1>1, AppendOne
<1>3. DOMAIN t = 1 .. Len(t)
    BY <1>2
<1> HIDE DEF t
<1>4. /\ Len(t) \in 1 .. Len(t) /\ t[Len(t)] = r
      /\ \A c \in 1 .. Len(t) : c # Len(t) => c \in 1 .. Len(s)
    BY <1>2
<1>5. QED
    BY <1>1, <1>2, <1>3, <1>4 DEF r, t

EmptyRecs ==
    /\ EmptyStore \in StoreRec /\ EmptyStore.runId = NoRun /\ EmptyStore.holds = {}
    /\ EmptyChat \in ChatRec /\ EmptyChat.session = NoRun /\ EmptyChat.messages = <<>>
    /\ EmptyChat.isRunning = FALSE

LEMMA EmptyFacts == EmptyRecs
<1>1. <<>> \in Seq(Message)
    OBVIOUS
<1>2. QED
    BY <1>1 DEF EmptyRecs, EmptyStore, EmptyChat, StoreRec, ChatRec, Status

LEMMA LeaveRunKeeps ==
    ASSUME IInv, NEW to \in {"form", "away"}, LeaveRun(to) PROVE IInv'
<1>1. /\ page' = to /\ store' = EmptyStore /\ pending' = {} /\ ws' = 0 /\ clients' = Left
      /\ chat' = EmptyChat /\ record' = NoRun /\ gets' \subseteq gets
      /\ UNCHANGED <<exists, turns, starts, created, late>>
    BY DEF LeaveRun, Reset, Left, server, posts
<1>2. Types /\ Known
    BY DEF IInv
<1>3. /\ bounds' \in [visits : Nat, starts : 0 .. MaxStarts, drops : Nat]
      /\ bounds'.starts = bounds.starts
    BY <1>2, WithinFacts, WebStoresAssumption DEF LeaveRun, Types
<1>4. to \notin Runs
    BY WebStoresAssumption
<1>5. /\ clients' \in Seq(ClientRec) /\ Len(clients') = Len(clients)
      /\ DOMAIN clients' = 1 .. Len(clients) /\ DOMAIN clients = 1 .. Len(clients)
      /\ Len(clients) \in Nat
    BY <1>1, <1>2, LeftFacts DEF Types
<1>6. Types'
    BY <1>1, <1>2, <1>3, <1>5, EmptyFacts DEF Types, EmptyRecs
<1>7. Known'
    <2>1. \A c \in DOMAIN clients' : clients'[c].run \in exists'
        BY <1>1, <1>2, <1>5, LeftFacts DEF Known
    <2>2. QED
        BY <1>1, <1>2, <1>4, <2>1, EmptyFacts DEF Known, EmptyRecs
<1>8. PageStore'
    BY <1>1, <1>2, <1>4, EmptyFacts DEF PageStore, EmptyRecs
<1>9. ASSUME Own PROVE Own'
    <2>1. \A c \in DOMAIN clients' : Quiet(clients'[c])
        BY <1>1, <1>2, <1>5, <1>9, LeftFacts DEF Own
    <2>2. \A i \in DOMAIN turns' : turns'[i].session \in {turns'[i].run, NoRun}
        BY <1>1, <1>9 DEF Own
    <2>3. QED
        BY <1>1, <2>1, <2>2, EmptyFacts DEF Own, EmptyRecs
<1>10. QED
    BY <1>1, <1>3, <1>6, <1>7, <1>8, <1>9 DEF IInv

\* A run that is opened is not in the store: PageStore.  So all begins anew.
LEMMA OpenRunKeeps ==
    ASSUME IInv, NEW run \in Runs, OpenRun(run) PROVE IInv'
<1> DEFINE new == [EmptyStore EXCEPT !.runId = run, !.status = "running"]
<1>1. Types /\ Known /\ run \in exists
    BY DEF IInv, OpenRun
<1>2. store.runId # run
    <2>1. run # page /\ run # NoRun
        BY WebStoresAssumption DEF OpenRun
    <2>2. QED
        BY <2>1 DEF IInv, PageStore
<1>3. /\ page' = run /\ store' = new /\ pending' = {} /\ clients' = Append(Left, NewClient(run))
      /\ ws' = Len(clients') /\ chat' = EmptyChat /\ record' = NoRun /\ gets' = gets \cup {run}
      /\ UNCHANGED <<exists, turns, starts, created, late>>
    BY <1>2 DEF OpenRun, ResetAndOpen, Left, server, posts
<1>4. /\ bounds' \in [visits : Nat, starts : 0 .. MaxStarts, drops : Nat]
      /\ bounds'.starts = bounds.starts
    BY <1>1, WithinFacts, WebStoresAssumption DEF OpenRun
<1>5. new \in StoreRec /\ new.runId = run /\ new.holds = {}
    BY EmptyFacts DEF EmptyRecs, StoreRec, Status
<1> HIDE DEF new
<1>6. Left \in Seq(ClientRec) /\ Len(Left) = Len(clients) /\ DOMAIN clients = 1 .. Len(clients)
    BY <1>1, LeftFacts DEF Types
<1>7. /\ clients' \in Seq(ClientRec) /\ ws' \in 1 .. Len(clients') /\ clients'[ws'].run = run
      /\ DOMAIN clients' = 1 .. Len(clients')
      /\ \A c \in DOMAIN clients' : c # ws' => c \in 1 .. Len(clients) /\ clients'[c] = Left[c]
    BY <1>3, <1>6, NewClientFacts
<1>8. Types'
    <2>1. ws' \in 0 .. Len(clients')
        BY <1>7
    <2>2. QED
        BY <1>1, <1>3, <1>4, <1>5, <1>7, <2>1, EmptyFacts DEF Types, EmptyRecs
<1>9. Known'
    <2>1. \A c \in DOMAIN clients' : clients'[c].run \in exists'
        <3>1. TAKE c \in DOMAIN clients'
        <3>2. CASE c = ws'
            BY <1>1, <1>3, <1>7, <3>2
        <3>3. CASE c # ws'
            BY <1>1, <1>3, <1>6, <1>7, <3>3, LeftFacts DEF Known
        <3>4. QED
            BY <3>2, <3>3
    <2>2. QED
        BY <1>1, <1>3, <1>5, <2>1 DEF Known
<1>10. PageStore'
    <2>1. ws' # 0
        BY <1>7
    <2>2. QED
        BY <1>1, <1>3, <1>5, <1>7, <2>1, EmptyFacts
           DEF PageStore, EmptyRecs
<1>11. ASSUME Own PROVE Own'
    <2>1. \A c \in DOMAIN clients' : c # ws' => Quiet(clients'[c])
        BY <1>1, <1>7, <1>11, LeftFacts DEF Own
    <2>2. \A i \in DOMAIN turns' : turns'[i].session \in {turns'[i].run, NoRun}
        BY <1>3, <1>11 DEF Own
    <2>3. QED
        BY <1>3, <1>5, <2>1, <2>2, EmptyFacts, WebStoresAssumption DEF Own, EmptyRecs
<1>12. QED
    BY <1>3, <1>4, <1>8, <1>9, <1>10, <1>11 DEF IInv

LEMMA StartRunKeeps == ASSUME IInv, StartRun PROVE IInv'
<1> DEFINE new == [EmptyStore EXCEPT !.status = "queued"]
<1>1. Types /\ Known /\ PageStore /\ page = "form" /\ "form" \notin Runs
    BY WebStoresAssumption DEF IInv, StartRun
<1>2. /\ store' = new /\ pending' = {} /\ ws' = 0 /\ clients' = clients /\ starts' = starts + 1
      /\ UNCHANGED <<page, exists, turns, created, gets, record, chat, late>>
    BY <1>1 DEF StartRun, server, PageStore
<1>3. /\ bounds' \in [visits : Nat, starts : 0 .. MaxStarts, drops : Nat]
      /\ bounds'.starts = bounds.starts + 1
    BY <1>1, WithinFacts, WebStoresAssumption DEF StartRun
<1>4. new \in StoreRec /\ new.runId = NoRun /\ new.holds = {}
    BY EmptyFacts DEF EmptyRecs, StoreRec, Status
<1> HIDE DEF new
<1>5. Types'
    <2>1. starts' \in Nat /\ ws' \in 0 .. Len(clients')
        BY <1>1, <1>2 DEF Types
    <2>2. QED
        BY <1>1, <1>2, <1>3, <1>4, <2>1 DEF Types
<1>6. Known' /\ PageStore'
    BY <1>1, <1>2, <1>4 DEF Known, PageStore
<1>7. ASSUME Own PROVE Own'
    BY <1>1, <1>2, <1>4, <1>7 DEF Own, PageStore
<1>8. starts' <= bounds'.starts
    <2>1. starts \in Nat /\ bounds.starts \in Nat /\ starts <= bounds.starts
        BY WebStoresAssumption DEF IInv, Types
    <2>2. QED
        BY <1>2, <1>3, <2>1
<1>9. QED
    BY <1>2, <1>5, <1>6, <1>7, <1>8 DEF IInv

-----------------------------------------------------------------------------
(* Answers.                                                                *)

LEMMA RecordArrivesKeeps ==
    ASSUME IInv, NEW run \in Runs, RecordArrives(run) PROVE IInv'
<1>1. /\ gets' \subseteq gets /\ record' \in {run, NoRun} /\ run \in exists
      /\ UNCHANGED <<page, exists, turns, starts, created, store, pending, clients, ws, chat,
                     bounds>>
    BY DEF RecordArrives, server, posts, IInv, Known
<1>2. late' \in BOOLEAN /\ (late => late') /\ (~ late' => run = page)
    BY Zenon DEF RecordArrives, IInv, Types
<1>3. Types' /\ Known' /\ PageStore'
    <2>1. Types'
        BY <1>1, <1>2 DEF IInv, Types
    <2>2. Known' /\ PageStore'
        BY <1>1 DEF IInv, Known, PageStore
    <2>3. QED
        BY <2>1, <2>2
<1>4. ASSUME Own, ~ late' PROVE Own'
    BY <1>1, <1>2, <1>4 DEF Own
<1>5. QED
    BY <1>1, <1>2, <1>3, <1>4 DEF IInv

LEMMA CreateRunKeeps ==
    ASSUME IInv, NEW run \in Runs, CreateRun(run) PROVE IInv'
<1>1. /\ exists' = exists \cup {run} /\ created' = created \cup {run}
      /\ starts > 0 /\ starts' = starts - 1
      /\ UNCHANGED <<page, turns, gets, record, store, pending, clients, ws, chat, late, bounds>>
    BY DEF CreateRun
<1>2. starts' \in Nat /\ starts' <= bounds'.starts
    <2>1. starts \in Nat /\ bounds.starts \in Nat /\ starts <= bounds.starts
        BY WebStoresAssumption DEF IInv, Types
    <2>2. QED
        BY <1>1, <2>1
<1>3. Types' /\ Known' /\ PageStore'
    <2>1. Types'
        BY <1>1, <1>2 DEF IInv, Types
    <2>2. Known' /\ PageStore'
        BY <1>1 DEF IInv, Known, PageStore
    <2>3. QED
        BY <2>1, <2>2
<1>4. ASSUME Own PROVE Own'
    BY <1>1, <1>4 DEF Own
<1>5. QED
    BY <1>1, <1>2, <1>3, <1>4 DEF IInv

\* Unless it is late, the answer finds an empty store, and all clients quiet.
LEMMA RunCreatedKeeps ==
    ASSUME IInv, NEW run \in Runs, RunCreated(run) PROVE IInv'
<1>1. /\ run \in exists /\ created' \subseteq created /\ gets' \subseteq gets \cup {run}
      /\ store' = [store EXCEPT !.runId = run] /\ page' = run
      /\ clients' = Append(clients, NewClient(run)) /\ ws' = Len(clients')
      /\ UNCHANGED <<exists, turns, starts, record, pending, chat, bounds>>
    BY DEF RunCreated, server, IInv, Known
<1>2. late' \in BOOLEAN /\ (late => late')
      /\ (~ late' => store.runId = NoRun /\ store.status # "failed")
    BY Zenon DEF RunCreated, IInv, Types
<1>3. Types /\ Known /\ PageStore /\ clients \in Seq(ClientRec)
      /\ DOMAIN clients = 1 .. Len(clients)
    BY DEF IInv, Types
<1>4. /\ clients' \in Seq(ClientRec) /\ ws' \in 1 .. Len(clients') /\ clients'[ws'].run = run
      /\ DOMAIN clients' = 1 .. Len(clients')
      /\ \A c \in DOMAIN clients' : c # ws' => c \in DOMAIN clients /\ clients'[c] = clients[c]
    BY <1>1, <1>3, NewClientFacts
<1>5. store' \in StoreRec /\ store'.runId = run /\ store'.holds = store.holds
    BY <1>1, <1>3 DEF Types, StoreRec
<1>6. Types'
    <2>1. ws' \in 0 .. Len(clients')
        BY <1>4
    <2>2. QED
        BY <1>1, <1>2, <1>3, <1>4, <1>5, <2>1 DEF Types
<1>7. Known'
    <2>1. \A c \in DOMAIN clients' : clients'[c].run \in exists'
        BY <1>1, <1>3, <1>4 DEF Known
    <2>2. QED
        BY <1>1, <1>3, <1>5, <2>1 DEF Known
<1>8. PageStore'
    <2>1. ws' # 0
        BY <1>4
    <2>2. QED
        BY <1>1, <1>4, <1>5, <2>1 DEF PageStore
<1>9. ~ late' => page \notin Runs /\ ws = 0
    BY <1>2, <1>3, WebStoresAssumption DEF PageStore
<1>10. ASSUME Own, ~ late'
       PROVE  /\ store.holds = {} /\ pending = {} /\ record = NoRun /\ chat.session = NoRun
              /\ DOMAIN chat.messages = {}
    <2>1. store.holds = {}
        BY <1>2, <1>10 DEF Own
    <2>2. pending = {}
        <3>1. pending \subseteq Runs /\ pending \subseteq {NoRun}
            BY <1>2, <1>3, <1>10 DEF Own, Known, Types
        <3>2. QED
            BY <3>1, WebStoresAssumption
    <2>3. record = NoRun /\ chat.session = NoRun
        BY <1>3, <1>9, <1>10 DEF Own, Types, ChatRec
    <2>4. \A m \in DOMAIN chat.messages : chat.messages[m] \in Message
        BY <1>3 DEF Types, ChatRec
    <2>5. DOMAIN chat.messages = {}
        BY <1>9, <1>10, <2>4 DEF Own, Message
    <2>6. QED
        BY <2>1, <2>2, <2>3, <2>5
<1>11. ASSUME Own, ~ late' PROVE Own'
    <2>1. \A c \in DOMAIN clients' : c # ws' => Quiet(clients'[c])
        <3>1. \A c \in DOMAIN clients : c # 0
            BY <1>3
        <3>2. \A c \in DOMAIN clients : Quiet(clients[c])
            BY <1>9, <1>11, <3>1 DEF Own
        <3>3. QED
            BY <1>4, <3>2
    <2>2. \A i \in DOMAIN turns' : turns'[i].session \in {turns'[i].run, NoRun}
        BY <1>1, <1>11 DEF Own
    <2>3. store'.holds = {} /\ pending' = {} /\ record' = NoRun /\ chat'.session = NoRun
          /\ DOMAIN chat'.messages = {} /\ store'.runId # NoRun
        BY <1>1, <1>5, <1>10, <1>11, WebStoresAssumption
    <2>4. QED
        BY <2>1, <2>2, <2>3 DEF Own
<1>12. QED
    BY <1>1, <1>2, <1>3, <1>6, <1>7, <1>8, <1>11 DEF IInv

LEMMA StartFailsKeeps == ASSUME IInv, StartFails PROVE IInv'
<1>1. /\ created' \subseteq created
      /\ store' = [store EXCEPT !.status = "failed", !.holds = @ \cup {NoRun}]
      /\ UNCHANGED <<page, exists, turns, gets, record, pending, clients, ws, chat, bounds>>
    BY DEF StartFails, server
<1>2. late' \in BOOLEAN /\ (late => late') /\ (~ late' => store.runId = NoRun)
    BY Zenon DEF StartFails, IInv, Types
<1>3. starts' \in Nat /\ starts' <= bounds'.starts
    <2>1. starts \in Nat /\ bounds.starts \in Nat /\ starts <= bounds.starts
        BY WebStoresAssumption DEF IInv, Types
    <2>2. (starts > 0 /\ starts' = starts - 1) \/ starts' = starts
        BY DEF StartFails
    <2>3. QED
        BY <1>1, <2>1, <2>2
<1>4. /\ store' \in StoreRec /\ store'.runId = store.runId /\ store'.status = "failed"
      /\ store'.holds = store.holds \cup {NoRun}
    BY <1>1 DEF IInv, Types, StoreRec, Status, Terminal
<1>5. Types' /\ Known' /\ PageStore'
    <2>1. Types'
        BY <1>1, <1>2, <1>3, <1>4 DEF IInv, Types
    <2>2. Known' /\ PageStore'
        BY <1>1, <1>4 DEF IInv, Known, PageStore
    <2>3. QED
        BY <2>1, <2>2
<1>6. ASSUME Own, ~ late' PROVE Own'
    BY <1>1, <1>2, <1>4, <1>6 DEF Own
<1>7. QED
    BY <1>1, <1>2, <1>3, <1>5, <1>6 DEF IInv

-----------------------------------------------------------------------------
(* The chat.                                                               *)

LEMMA SendKeeps == ASSUME IInv, Send PROVE IInv'
<1> DEFINE turn == [run |-> page, session |-> chat.session, is |-> "posted", answered |-> FALSE]
<1>1. /\ turns' = Append(turns, turn) /\ page \in Runs /\ ~ chat.isRunning
      /\ chat' = [chat EXCEPT !.isRunning = TRUE]
      /\ UNCHANGED <<page, exists, starts, created, gets, record, store, pending, clients, ws,
                     late, bounds>>
    BY DEF Send, requests, posts
<1>2. chat \in ChatRec /\ turns \in Seq(Turn) /\ DOMAIN turns = 1 .. Len(turns)
    BY DEF IInv, Types
<1>3. turn \in Turn /\ turn.run = page /\ turn.session = chat.session
    BY <1>1, <1>2 DEF Turn, ChatRec
<1> HIDE DEF turn
<1>4. /\ turns' \in Seq(Turn) /\ Len(turns') = Len(turns) + 1
      /\ turns'[Len(turns) + 1] = turn
      /\ \A i \in 1 .. Len(turns) : turns'[i] = turns[i]
      /\ Len(turns) + 1 \notin 1 .. Len(turns)
      /\ \A i \in 1 .. Len(turns') : i \in 1 .. Len(turns) \/ i = Len(turns) + 1
    BY <1>1, <1>2, <1>3, AppendOne
<1>5. DOMAIN turns' = 1 .. Len(turns') /\ DOMAIN turns \subseteq DOMAIN turns'
    BY <1>2, <1>4
<1>6. /\ chat' \in ChatRec /\ chat'.session = chat.session
      /\ chat'.messages = chat.messages
    BY <1>1, <1>2 DEF ChatRec
<1>7. Types' /\ Known' /\ PageStore'
    <2>1. Types'
        BY <1>1, <1>4, <1>6 DEF IInv, Types
    <2>2. Known' /\ PageStore'
        BY <1>1 DEF IInv, Known, PageStore
    <2>3. QED
        BY <2>1, <2>2
<1>8. ASSUME Own PROVE Own'
    <2>1. chat.session \in {page, NoRun}
        BY <1>8 DEF Own
    <2>2. \A i \in DOMAIN turns' : turns'[i].session \in {turns'[i].run, NoRun}
        BY <1>2, <1>3, <1>4, <1>5, <1>8, <2>1 DEF Own
    <2>3. QED
        BY <1>1, <1>6, <1>8, <2>2 DEF Own
<1>9. QED
    BY <1>1, <1>7, <1>8 DEF IInv

\* A step of turn i leaves it the run and the session it was sent with.
TurnStep(i) ==
    \E t \in Turn :
        turns' = [turns EXCEPT ![i] = t] /\ t.run = turns[i].run /\ t.session = turns[i].session

LEMMA TurnStepFacts ==
    ASSUME Types, NEW i \in DOMAIN turns, TurnStep(i)
    PROVE  /\ turns' \in Seq(Turn) /\ Len(turns') = Len(turns) /\ DOMAIN turns' = DOMAIN turns
           /\ \A j \in DOMAIN turns :
                 turns'[j].run = turns[j].run /\ turns'[j].session = turns[j].session
<1>1. PICK t \in Turn :
            /\ turns' = [turns EXCEPT ![i] = t]
            /\ t.run = turns[i].run /\ t.session = turns[i].session
    BY DEF TurnStep
<1>2. turns \in Seq(Turn) /\ DOMAIN turns = 1 .. Len(turns)
    BY DEF Types
<1>3. /\ turns' \in Seq(Turn) /\ Len(turns') = Len(turns) /\ turns'[i] = t
      /\ \A j \in 1 .. Len(turns) : j # i => turns'[j] = turns[j]
    BY <1>1, <1>2, ReplaceOne
<1>4. DOMAIN turns' = 1 .. Len(turns)
    BY <1>3
<1>5. QED
    BY <1>1, <1>2, <1>3, <1>4

LEMMA TurnQueuedKeeps ==
    ASSUME IInv, NEW i \in DOMAIN turns, TurnQueued(i) PROVE IInv'
<1> DEFINE t == [turns[i] EXCEPT !.is = "queued"]
<1>1. /\ turns' = [turns EXCEPT ![i] = t]
      /\ UNCHANGED <<page, exists, starts, created, gets, record, store, pending, clients, ws,
                     chat, late, bounds>>
    BY DEF TurnQueued, requests, posts
<1>2. TurnStep(i)
    <2>1. turns[i] \in Turn
        BY DEF IInv, Types
    <2>2. t \in Turn /\ t.run = turns[i].run /\ t.session = turns[i].session
        BY <2>1 DEF Turn
    <2>3. QED
        BY <1>1, <2>2 DEF TurnStep
<1>3. /\ turns' \in Seq(Turn) /\ DOMAIN turns' = DOMAIN turns
      /\ \A j \in DOMAIN turns :
            turns'[j].run = turns[j].run /\ turns'[j].session = turns[j].session
    BY <1>2, TurnStepFacts DEF IInv
<1>4. Types' /\ Known' /\ PageStore'
    <2>1. Types'
        BY <1>1, <1>3 DEF IInv, Types
    <2>2. Known' /\ PageStore'
        BY <1>1 DEF IInv, Known, PageStore
    <2>3. QED
        BY <2>1, <2>2
<1>5. ASSUME Own PROVE Own'
    BY <1>1, <1>3, <1>5 DEF Own
<1>6. QED
    BY <1>1, <1>4, <1>5 DEF IInv

\* What both answers to a message do to its turn and to the chat.
LEMMA AnsweredKeeps ==
    ASSUME IInv, NEW i \in DOMAIN turns, Answered(i),
           chat' \in ChatRec,
           chat'.session \in {chat.session, turns[i].run, turns[i].session},
           NEW d \in BOOLEAN,
           chat'.messages = Append(chat.messages, Assistant(i, d))
    PROVE  IInv'
<1> DEFINE t == [turns[i] EXCEPT !.answered = TRUE]
           message == Assistant(i, d)
<1>1. /\ turns' = [turns EXCEPT ![i] = t]
      /\ UNCHANGED <<page, exists, starts, created, gets, record, store, pending, clients, ws,
                     bounds>>
    BY DEF Answered, requests, posts
<1>2. late' \in BOOLEAN /\ (late => late') /\ (~ late' => page = turns[i].run)
    BY Zenon DEF Answered, IInv, Types
<1>3. turns[i] \in Turn
    BY DEF IInv, Types
<1>4. TurnStep(i)
    <2>1. t \in Turn /\ t.run = turns[i].run /\ t.session = turns[i].session
        BY <1>3 DEF Turn
    <2>2. QED
        BY <1>1, <2>1 DEF TurnStep
<1>5. /\ turns' \in Seq(Turn) /\ DOMAIN turns' = DOMAIN turns
      /\ \A j \in DOMAIN turns :
            turns'[j].run = turns[j].run /\ turns'[j].session = turns[j].session
    BY <1>4, TurnStepFacts DEF IInv
<1>6. Types' /\ Known' /\ PageStore'
    <2>1. Types'
        BY <1>1, <1>2, <1>5 DEF IInv, Types
    <2>2. Known' /\ PageStore'
        BY <1>1 DEF IInv, Known, PageStore
    <2>3. QED
        BY <2>1, <2>2
<1>7. ASSUME Own, ~ late' PROVE Own'
    <2>1. turns[i].session \in {page, NoRun} /\ chat.session \in {page, NoRun}
        BY <1>2, <1>7 DEF Own
    <2>2. {record', chat'.session} \subseteq {page', NoRun}
        BY <1>1, <1>2, <1>7, <2>1 DEF Own
    <2>3. message \in Message /\ message.run = page /\ message.holds = {}
        BY <1>2, <1>3, <1>7 DEF Message, Turn, Assistant
    <2>4. chat.messages \in Seq(Message) /\ DOMAIN chat.messages = 1 .. Len(chat.messages)
        BY DEF IInv, Types, ChatRec
    <2> HIDE DEF message
    <2>5. chat'.messages = Append(chat.messages, message)
        BY DEF message
    <2>6. \A m \in DOMAIN chat'.messages :
              chat'.messages[m].run = page' /\ chat'.messages[m].holds \subseteq {page'}
        <3>1. /\ chat'.messages \in Seq(Message)
              /\ chat'.messages[Len(chat.messages) + 1] = message
              /\ \A m \in 1 .. Len(chat.messages) : chat'.messages[m] = chat.messages[m]
              /\ \A m \in 1 .. Len(chat'.messages) :
                    m \in 1 .. Len(chat.messages) \/ m = Len(chat.messages) + 1
            BY <2>3, <2>4, <2>5, AppendOne
        <3>2. DOMAIN chat'.messages = 1 .. Len(chat'.messages)
            BY <3>1
        <3>3. QED
            BY <1>1, <1>7, <2>3, <2>4, <3>1, <3>2 DEF Own
    <2>7. \A j \in DOMAIN turns' : turns'[j].session \in {turns'[j].run, NoRun}
        BY <1>5, <1>7 DEF Own
    <2>8. QED
        BY <1>1, <1>7, <2>2, <2>6, <2>7 DEF Own
<1>8. QED
    BY <1>1, <1>2, <1>6, <1>7 DEF IInv

LEMMA AnswersKeep ==
    ASSUME IInv, NEW i \in DOMAIN turns, SendReturns(i) \/ SendFails(i) PROVE IInv'
<1>1. chat \in ChatRec /\ chat.messages \in Seq(Message) /\ turns[i] \in Turn
    BY DEF IInv, Types, ChatRec
<1>2. ASSUME NEW d \in BOOLEAN
      PROVE  Append(chat.messages, Assistant(i, d)) \in Seq(Message)
    <2>1. Assistant(i, d) \in Message
        BY <1>1 DEF Message, Turn, Assistant
    <2>2. QED
        BY <1>1, <2>1, AppendOne
<1>3. CASE SendReturns(i)
    <2> DEFINE new == Append(chat.messages, Assistant(i, FALSE))
               session == IF turns[i].session = NoRun THEN turns[i].run ELSE turns[i].session
    <2>1. chat' = [chat EXCEPT !.session = session, !.messages = new]
        BY <1>3 DEF SendReturns
    <2>2. new \in Seq(Message) /\ session \in Runs \cup {NoRun}
        BY <1>1, <1>2 DEF Turn
    <2>3. session \in {turns[i].run, turns[i].session}
        OBVIOUS
    <2> HIDE DEF new, session
    <2>4. /\ chat' \in ChatRec /\ chat'.messages = new /\ chat'.session = session
        BY <1>1, <2>1, <2>2 DEF ChatRec
    <2>5. Answered(i)
        BY <1>3 DEF SendReturns, Answered
    <2>6. chat'.messages = Append(chat.messages, Assistant(i, FALSE))
        BY <2>4 DEF new
    <2>7. QED
        BY <2>3, <2>4, <2>5, <2>6, AnsweredKeeps
<1>4. CASE SendFails(i)
    <2> DEFINE new == Append(chat.messages, Assistant(i, TRUE))
    <2>1. chat' = [chat EXCEPT !.messages = new, !.isRunning = FALSE]
        BY <1>4 DEF SendFails
    <2>2. new \in Seq(Message)
        BY <1>2
    <2> HIDE DEF new
    <2>3. /\ chat' \in ChatRec /\ chat'.messages = new /\ chat'.session = chat.session
        BY <1>1, <2>1, <2>2 DEF ChatRec
    <2>4. Answered(i)
        BY <1>4 DEF SendFails, Answered
    <2>5. chat'.messages = Append(chat.messages, Assistant(i, TRUE))
        BY <2>3 DEF new
    <2>6. QED
        BY <2>3, <2>4, <2>5, AnsweredKeeps
<1>5. QED
    BY <1>3, <1>4

-----------------------------------------------------------------------------

LEMMA InitInv == Init => IInv
<1> SUFFICES ASSUME Init PROVE IInv
    OBVIOUS
<1>1. /\ <<>> \in Seq(ClientRec) /\ <<>> \in Seq(Turn) /\ Len(<<>>) = 0
      /\ DOMAIN <<>> = {}
    OBVIOUS
<1>2. 0 \in 0 .. MaxStarts /\ Listed \subseteq Runs
    BY WebStoresAssumption
<1>3. bounds \in [visits : Nat, starts : 0 .. MaxStarts, drops : Nat] /\ bounds.starts = 0
    BY <1>2 DEF Init
<1>4. Types
    <2>1. clients \in Seq(ClientRec) /\ turns \in Seq(Turn) /\ ws \in 0 .. Len(clients)
        BY <1>1 DEF Init
    <2>2. store \in StoreRec /\ chat \in ChatRec
        BY EmptyFacts DEF Init, EmptyRecs
    <2>3. QED
        BY <1>2, <1>3, <2>1, <2>2 DEF Init, Types
<1>5. Known /\ PageStore /\ Own
    BY <1>1, <1>2, EmptyFacts, WebStoresAssumption
       DEF Init, Known, PageStore, Own, EmptyRecs
<1>6. QED
    BY <1>3, <1>4, <1>5 DEF Init, IInv

LEMMA RestKeeps == ASSUME IInv, UNCHANGED vars PROVE IInv'
<1>1. UNCHANGED <<page, exists, turns, starts, created, gets, record, store, pending, clients,
                  ws, chat, late, bounds>>
    BY DEF vars, server, requests, posts
<1>2. Types' /\ Known' /\ PageStore'
    BY <1>1 DEF IInv, Types, Known, PageStore
<1>3. Own => Own'
    BY <1>1 DEF IInv, Own
<1>4. QED
    BY <1>1, <1>2, <1>3 DEF IInv

LEMMA IInvStep == IInv /\ [Next]_vars => IInv'
<1> SUFFICES ASSUME IInv, [Next]_vars PROVE IInv'
    OBVIOUS
<1>1. CASE User
    BY <1>1, OpenRunKeeps, LeaveRunKeeps, StartRunKeeps, SendKeeps DEF User
<1>2. CASE Answers
    BY <1>2, RecordArrivesKeeps, CreateRunKeeps, RunCreatedKeeps, StartFailsKeeps,
       TurnQueuedKeeps, AnswersKeep DEF Answers
<1>3. CASE Flush
    BY <1>3, FlushKeeps
<1>4. ASSUME NEW c \in DOMAIN clients, ClientStep(c) PROVE IInv'
    <2>1. Types
        BY DEF IInv
    <2>2. Delivery(c)
        BY <1>4, <2>1, SocketActions, EventActions, ChatActions DEF ClientStep
    <2>3. QED
        BY <2>2, DeliveryKeeps
<1>5. CASE UNCHANGED vars
    BY <1>5, RestKeeps
<1>6. QED
    BY <1>1, <1>2, <1>3, <1>4, <1>5 DEF Next

\* What a tab may do, with any number of pages, starts, messages and lost
\* connections, keeps the inductive invariant.
THEOREM InvHolds == Spec => []IInv
BY InitInv, IInvStep, PTL DEF Spec

\* The store's client is there exactly while the Workbench shows a run, and a
\* tab knows of no run, page, record or event, that the gateway does not know
\* (run.ts, finetune.ts, Workbench.vue, ws.ts).
THEOREM TypeCorrect == Spec => []TypeOK
<1>1. IInv => TypeOK
    <2> SUFFICES ASSUME IInv PROVE TypeOK
        OBVIOUS
    <2>1. starts \in 0 .. MaxStarts
        <3>1. starts \in Nat /\ bounds.starts \in 0 .. MaxStarts /\ starts <= bounds.starts
            BY DEF IInv, Types
        <3>2. QED
            BY <3>1, WebStoresAssumption
    <2>2. /\ page \in Runs \cup {"form", "away"} /\ Listed \subseteq exists
          /\ created \cup gets \subseteq exists /\ record \in exists \cup {NoRun}
          /\ store.holds \subseteq exists \cup {NoRun} /\ pending \subseteq exists
        BY DEF IInv, Types, Known
    <2>3. store.runId \in exists \cup {NoRun} /\ (page \in Runs <=> ws # 0)
        BY DEF IInv, Known, PageStore
    <2>4. /\ store.status \in {"idle", "queued", "running"} \cup Terminal
          /\ chat.session \in Runs \cup {NoRun} /\ chat.isRunning \in BOOLEAN
          /\ ws \in 0 .. Len(clients)
        BY DEF IInv, Types, StoreRec, Status, ChatRec
    <2>5. \A c \in DOMAIN clients :
              /\ clients[c].sock \in {"connecting", "open", "backoff", "closing", "ended"}
              /\ clients[c].attempts \in 0 .. MaxAttempts
        <3>1. \A c \in DOMAIN clients : clients[c] \in ClientRec
            BY DEF IInv, Types
        <3>2. QED
            BY <3>1 DEF ClientRec, Sock
    <2>6. QED
        BY <2>1, <2>2, <2>3, <2>4, <2>5 DEF TypeOK
<1>2. QED
    BY InvHolds, <1>1, PTL

\* Unless an answer is used after its page was gone, what the stores hold is
\* the page's: events and unflushed tokens, the record, the chat and its
\* session (Workbench.vue:8-10), whatever sockets, reconnect timers and
\* animation frames have outlived the pages before.
THEOREM NothingLeaks == Spec => []NothingOfAnotherRun
<1>1. IInv => NothingOfAnotherRun
    BY DEF IInv, Own, PageStore, NothingOfAnotherRun
<1>2. QED
    BY InvHolds, <1>1, PTL
=============================================================================
