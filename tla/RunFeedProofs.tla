--------------------------- MODULE RunFeedProofs ---------------------------
(***************************************************************************)
(* Proofs about EventBus and about RunFeed, which adds its reader, for any *)
(* tokens, sources, calls, turns, stream length, number of INCRs,          *)
(* reconnects and lost connections.                                        *)
(*                                                                         *)
(* First the bus: its types, the uniqueness of the seqs and the order of   *)
(* the milestones.  Neither safety property is inductive: both speak of    *)
(* the stream only, and an entry is numbered one step, and any number of   *)
(* steps of others, before it gets there.  Numbered and Ahead add what     *)
(* holds of the entries still held; Waiting and Calling say why a coroutine *)
(* has one of them at most to wait for.                                    *)
(*                                                                         *)
(* Then the feed: the types, and what reaches the browser: each event      *)
(* once, and all of them but those with a reason to be missing.  Its steps *)
(* are steps of the bus, or leave the bus alone: what holds of the bus on  *)
(* its own holds of the whole.                                             *)
(***************************************************************************)
EXTENDS RunFeed, SequenceTheorems, TLAPS

\* The numbers on the stream and in the producers' hands are all different,
\* and none is ahead of the counter.
Numbered ==
  /\ \A i \in DOMAIN stream : stream[i].seq <= seq
  /\ \A p \in Producers : held[p].seq <= seq
  /\ SeqUnique
  /\ \A p \in Producers, i \in DOMAIN stream :
       held[p] # NoEntry => held[p].seq # stream[i].seq
  /\ \A p, q \in Producers :
       (p # q /\ held[p] # NoEntry) => held[p].seq # held[q].seq

\* The entry a coroutine waits for is its own, or the cost of the call it
\* waits for, which no other coroutine waits for and which is still going on.
Waiting ==
  /\ \A w \in Coroutines :
       held[w] # NoEntry => held[w].of = w /\ waits[w] = NoCall
  /\ \A c \in Calls :
       /\ held[c].of \in Coroutines => waits[held[c].of] = c
       /\ held[c] # NoEntry => task[c] = "reserved"
  /\ \A t \in Tokens \cup Sources : held[t].of = Nobody
  /\ \A w \in Coroutines : waits[w] \in Calls =>
       /\ task[waits[w]] \in {"open", "costing", "reserved"}
       /\ \A x \in Coroutines : waits[x] = waits[w] => x = w

\* A coroutine that waits for a call is at its work.
Calling ==
  \A w \in Coroutines : waits[w] \in Calls => phase[w] \in {"run", "erred"}

\* The entry a coroutine waits for is ahead of all of its that are out.
Ahead ==
  \A p \in Producers, i \in DOMAIN stream :
    (held[p] # NoEntry /\ held[p].of # Nobody /\ stream[i].of = held[p].of)
      => stream[i].seq < held[p].seq

BusIInv ==
  BusTypeOK /\ Numbered /\ Calling /\ Waiting /\ Ahead /\ MilestonesInOrder

-----------------------------------------------------------------------------
(* What a step does to the counter, the stream and the held entries: one   *)
(* producer reserves, appends or gives up, a waiter leaves, or nothing     *)
(* happens to them.                                                        *)

Reserves(p, kind, w) == NextSeq(p, kind, w) /\ UNCHANGED <<stream, floor>>

Appends(p) == Xadd(p) /\ UNCHANGED seq

GivesUp(p) ==
  held' = [held EXCEPT ![p] = NoEntry] /\ UNCHANGED <<seq, stream, floor>>

Leaves(p) ==
  held' = [held EXCEPT ![p].of = Nobody] /\ UNCHANGED <<seq, stream, floor>>

Rests == UNCHANGED <<seq, stream, floor, held>>

RedisStep ==
  \/ \E p \in Producers, kind \in Kinds, w \in Coroutines \cup {Nobody} :
       Reserves(p, kind, w)
  \/ \E p \in Producers : Appends(p) \/ GivesUp(p) \/ Leaves(p)
  \/ Rests

LEMMA Apart ==
  /\ Producers = Coroutines \cup Tokens \cup Sources \cup Calls
  /\ Tasks = Tokens \cup Sources \cup Calls
  /\ Coroutines \cap Tasks = {} /\ Calls \cap (Tokens \cup Sources) = {}
  /\ Nobody \notin Coroutines /\ NoCall \notin Calls /\ "worker" \in Coroutines
  BY BusAssumption DEF Producers, Tasks, Coroutines, Nobody

LEMMA WaiterType ==
  ASSUME NEW c \in Calls
  PROVE  \/ /\ Waiter(c) \in Coroutines /\ waits[Waiter(c)] = c
         \/ /\ Waiter(c) = Nobody
            /\ \A w \in Coroutines : waits[w] # c
  BY DEF Waiter

\* Every step of every producer is one of them.
LEMMA StepKinds == ASSUME BusTypeOK, [BusNext]_busVars PROVE RedisStep
<1> USE DEF RedisStep, Reserves, Appends, GivesUp, Leaves, Rests
<1>k. {"token", "cost", "log"} \subseteq Kinds
  BY DEF Kinds
<1>1. ASSUME NEW w \in Coroutines, Emit(w) PROVE RedisStep
  <2>1. w \in Producers
    BY Apart
  <2>2. ASSUME NEW kind \in Kinds, EmitReserve(w, kind) PROVE RedisStep
    BY <2>1, <2>2 DEF EmitReserve
  <2>3. CASE EmitAppend(w)
    BY <2>1, <2>3 DEF EmitAppend
  <2>4. CASE EmitRaises(w)
    BY <2>1, <2>4 DEF EmitRaises
  <2>5. ASSUME Abandon(w) PROVE RedisStep
    <3>1. waits[w] \in Producers
      BY <2>5, Apart DEF Abandon, BusTypeOK
    <3>2. QED
      BY <2>5, <3>1 DEF Abandon
  <2>6. ASSUME NEW c \in Calls, BeginCall(w, c) PROVE RedisStep
    BY <2>6 DEF BeginCall
  <2>7. QED
    BY <1>1, <2>2, <2>3, <2>4, <2>5, <2>6 DEF Emit
<1>2. CASE PipelineDies \/ StartSearch \/ GatherReturns
  BY <1>2 DEF PipelineDies, StartSearch, GatherReturns
<1>3. ASSUME NEW c \in Calls, Answer(c) PROVE RedisStep
  <2>1. c \in Producers /\ Waiter(c) \in Coroutines \cup {Nobody}
    BY Apart, WaiterType
  <2>2. QED
    BY <1>3, <1>k, <2>1 DEF Answer, UpstreamEnds, UpstreamFails, CostReserve,
          CostAppend, CostFails
<1>4. ASSUME NEW t \in Tokens, Token(t) PROVE RedisStep
  <2>1. t \in Producers
    BY Apart
  <2>2. QED
    BY <1>4, <1>k, <2>1 DEF Token, SpawnToken, TokenReserve, TokenAppend,
          TokenDropped, TaskReserve, TaskAppend
<1>5. ASSUME NEW s \in Sources, Source(s) PROVE RedisStep
  <2>1. s \in Producers
    BY Apart
  <2>2. QED
    BY <1>5, <1>k, <2>1 DEF Source, SourceAnswers, SourceLogReserve,
          SourceLogAppend, SourceLogRaises, TaskReserve, TaskAppend
<1>6. CASE UNCHANGED busVars
  BY <1>6 DEF busVars
<1>7. QED
  BY <1>1, <1>2, <1>3, <1>4, <1>5, <1>6 DEF BusNext

-----------------------------------------------------------------------------
(* Type correctness.                                                       *)

StreamTypeOK ==
  /\ seq \in 0..MaxSeq
  /\ stream \in Seq(Entry)
  /\ floor \in 0..Len(stream)
  /\ held \in [Producers -> Entry \cup {NoEntry}]

PhaseTypeOK ==
  /\ phase \in [Coroutines -> {"run", "erred", "raised", "search", "finished"}]
  /\ waits \in [Coroutines -> Calls \cup {NoCall}]
  /\ task \in [Tasks -> {"unspawned", "spawned", "open", "costing",
                         "reserved", "gone"}]

LEMMA TypeParts == BusTypeOK <=> StreamTypeOK /\ PhaseTypeOK
  BY DEF BusTypeOK, StreamTypeOK, PhaseTypeOK

LEMMA NoEntryIsNone ==
  /\ NoEntry \notin Entry /\ NoEntry.seq = 0 /\ NoEntry.of = Nobody
  /\ \A e \in Entry : e.seq \in Nat /\ e.seq # 0
  BY BusAssumption DEF NoEntry, Entry

LEMMA BusInitType == BusInit => BusTypeOK
  BY BusAssumption DEF BusInit, BusTypeOK

\* An entry nobody waits for any more keeps its number.
LEMMA Left ==
  ASSUME StreamTypeOK, NEW p \in Producers, Leaves(p)
  PROVE  /\ held' \in [Producers -> Entry \cup {NoEntry}]
         /\ \A q \in Producers \ {p} : held'[q] = held[q]
         /\ held'[p].of = Nobody
         /\ \A q \in Producers : /\ held'[q].seq = held[q].seq
                                 /\ held'[q] = NoEntry <=> held[q] = NoEntry
<1>1. held[p] \in Entry \cup {NoEntry}
  BY DEF StreamTypeOK
<1>2. /\ held'[p] = [held[p] EXCEPT !.of = Nobody]
      /\ \A q \in Producers \ {p} : held'[q] = held[q]
  BY DEF StreamTypeOK, Leaves
<1>3. CASE held[p] = NoEntry
  <2>1. held'[p] = NoEntry
    BY <1>2, <1>3 DEF NoEntry
  <2>2. QED
    BY <1>2, <1>3, <2>1, NoEntryIsNone DEF StreamTypeOK, Leaves
<1>4. CASE held[p] \in Entry
  <2>1. /\ held'[p] \in Entry /\ held'[p].seq = held[p].seq
        /\ held'[p].of = Nobody
    BY <1>2, <1>4 DEF Entry
  <2>2. QED
    BY <1>2, <1>4, <2>1, NoEntryIsNone DEF StreamTypeOK, Leaves
<1>5. QED
  BY <1>1, <1>3, <1>4

LEMMA StreamTypeStep == ASSUME StreamTypeOK, RedisStep PROVE StreamTypeOK'
<1> USE BusAssumption DEF StreamTypeOK
<1>1. ASSUME NEW p \in Producers, NEW kind \in Kinds,
             NEW w \in Coroutines \cup {Nobody}, Reserves(p, kind, w)
      PROVE StreamTypeOK'
  <2>1. [seq |-> seq + 1, kind |-> kind, of |-> w] \in Entry
    BY <1>1 DEF Reserves, NextSeq, IncrSeq, Entry
  <2>2. QED
    BY <1>1, <2>1 DEF Reserves, NextSeq, IncrSeq
<1>2. ASSUME NEW p \in Producers, Appends(p) PROVE StreamTypeOK'
  <2>1. held[p] \in Entry
    BY <1>2 DEF Appends, Xadd
  <2>2. stream' \in Seq(Entry) /\ Len(stream') = Len(stream) + 1
    BY <1>2, <2>1 DEF Appends, Xadd
  <2>3. floor' \in 0..Len(stream')
    BY <1>2, <2>2 DEF Appends, Xadd
  <2>4. QED
    BY <1>2, <2>2, <2>3 DEF Appends, Xadd
<1>3. ASSUME NEW p \in Producers, GivesUp(p) PROVE StreamTypeOK'
  BY <1>3 DEF GivesUp
<1>4. ASSUME NEW p \in Producers, Leaves(p) PROVE StreamTypeOK'
  BY <1>4, Left DEF Leaves
<1>5. CASE Rests
  BY <1>5 DEF Rests
<1>6. QED
  BY <1>1, <1>2, <1>3, <1>4, <1>5 DEF RedisStep

LEMMA PhaseTypeStep == ASSUME PhaseTypeOK, [BusNext]_busVars PROVE PhaseTypeOK'
<1> USE DEF PhaseTypeOK
<1>1. ASSUME NEW w \in Coroutines, Emit(w) PROVE PhaseTypeOK'
  <2>1. ASSUME NEW kind \in Kinds, EmitReserve(w, kind) PROVE PhaseTypeOK'
    BY <2>1 DEF EmitReserve
  <2>2. CASE EmitAppend(w)
    BY <2>2 DEF EmitAppend
  <2>3. CASE EmitRaises(w)
    BY <2>3 DEF EmitRaises
  <2>4. CASE Abandon(w)
    BY <2>4 DEF Abandon
  <2>5. ASSUME NEW c \in Calls, BeginCall(w, c) PROVE PhaseTypeOK'
    BY <2>5 DEF BeginCall
  <2>6. QED
    BY <1>1, <2>1, <2>2, <2>3, <2>4, <2>5 DEF Emit
<1>2. CASE PipelineDies \/ StartSearch \/ GatherReturns
  BY <1>2 DEF PipelineDies, StartSearch, GatherReturns
<1>3. ASSUME NEW c \in Calls, Answer(c) PROVE PhaseTypeOK'
  <2>1. Released(c) \in [Coroutines -> Calls \cup {NoCall}]
    BY DEF Released
  <2>2. QED
    BY <1>3, <2>1 DEF Answer, UpstreamEnds, UpstreamFails, CostReserve,
          CostAppend, CostFails
<1>4. ASSUME NEW t \in Tokens, Token(t) PROVE PhaseTypeOK'
  BY <1>4 DEF Token, SpawnToken, TokenReserve, TokenAppend, TokenDropped,
              TaskReserve, TaskAppend
<1>5. ASSUME NEW s \in Sources, Source(s) PROVE PhaseTypeOK'
  BY <1>5 DEF Source, SourceAnswers, SourceLogReserve, SourceLogAppend,
              SourceLogRaises, TaskReserve, TaskAppend
<1>6. CASE UNCHANGED busVars
  BY <1>6 DEF busVars
<1>7. QED
  BY <1>1, <1>2, <1>3, <1>4, <1>5, <1>6 DEF BusNext

LEMMA BusTypeStep == BusTypeOK /\ [BusNext]_busVars => BusTypeOK'
  BY StepKinds, TypeParts, StreamTypeStep, PhaseTypeStep
     DEF BusTypeOK, StreamTypeOK, PhaseTypeOK

\* The counter, the stream, the producers and the tasks stay what they are:
\* EventBus has no step that leaves its types.
THEOREM BusTypeCorrect == BusSpec => []BusTypeOK
  BY BusInitType, BusTypeStep, PTL DEF BusSpec

-----------------------------------------------------------------------------
(* The numbers.                                                            *)

LEMMA InitNumbered == BusInit => Numbered
  BY DEF BusInit, Numbered, SeqUnique, NoEntry

\* What Append does to the stream, in the terms of the proofs below.
LEMMA Appended ==
  ASSUME StreamTypeOK, NEW p \in Producers, Appends(p)
  PROVE  /\ held[p] \in Entry
         /\ DOMAIN stream' = 1..Len(stream) + 1
         /\ DOMAIN stream = 1..Len(stream) /\ Len(stream) \in Nat
         /\ \A i \in DOMAIN stream : stream'[i] = stream[i]
         /\ stream'[Len(stream) + 1] = held[p]
         /\ held' = [held EXCEPT ![p] = NoEntry] /\ seq' = seq
<1>1. held[p] \in Entry
  BY DEF StreamTypeOK, Appends, Xadd
<1>2. stream' = Append(stream, held[p]) /\ stream \in Seq(Entry)
  BY DEF StreamTypeOK, Appends, Xadd
<1>3. QED
  BY <1>1, <1>2 DEF Appends, Xadd

LEMMA NumberedStep ==
  ASSUME StreamTypeOK, Numbered, RedisStep PROVE Numbered'
<1> USE DEF Numbered, SeqUnique
<1>e. /\ NoEntry.seq = 0
      /\ \A e \in Entry : e.seq \in Nat /\ e.seq # 0
  BY BusAssumption DEF NoEntry, Entry
<1>s. /\ seq \in Nat /\ held \in [Producers -> Entry \cup {NoEntry}]
      /\ stream \in Seq(Entry)
  BY BusAssumption DEF StreamTypeOK
<1>t. /\ \A p \in Producers : held[p].seq \in Nat
      /\ \A i \in DOMAIN stream : stream[i].seq \in Nat
      /\ DOMAIN stream = 1..Len(stream)
      /\ seq \in Nat /\ held \in [Producers -> Entry \cup {NoEntry}]
  BY <1>e, <1>s
<1>z. \A p \in Producers : held[p] # NoEntry => held[p].seq # 0
  BY <1>e, <1>s
<1>1. ASSUME NEW p \in Producers, NEW kind \in Kinds,
             NEW w \in Coroutines \cup {Nobody}, Reserves(p, kind, w)
      PROVE Numbered'
  <2>1. /\ held' = [held EXCEPT ![p] = [seq |-> seq + 1, kind |-> kind, of |-> w]]
        /\ seq' = seq + 1 /\ stream' = stream
    BY <1>1 DEF Reserves, NextSeq, IncrSeq
  <2>2. /\ held'[p].seq = seq + 1
        /\ \A q \in Producers \ {p} : held'[q] = held[q]
    BY <2>1, <1>t
  <2>3. QED
    BY <2>1, <2>2, <1>t
<1>2. ASSUME NEW p \in Producers, Appends(p) PROVE Numbered'
  <2>1. held'[p] = NoEntry /\ held'[p].seq = 0
        /\ held[p] # NoEntry
        /\ \A q \in Producers \ {p} : held'[q] = held[q]
    BY <1>2, <1>t DEF Appends, Xadd, NoEntry
  <2>2. \A i \in DOMAIN stream' :
          i \notin DOMAIN stream => stream'[i] = held[p]
    BY <1>2, Appended
  <2>3. \A i, j \in DOMAIN stream' :
          i # j => stream'[i].seq # stream'[j].seq
    BY <1>2, <1>t, <2>1, <2>2, Appended
  <2>4. \A i \in DOMAIN stream' : stream'[i].seq <= seq
    BY <1>2, <1>t, <2>2, Appended
  <2>5. \A q \in Producers, i \in DOMAIN stream' :
          held'[q] # NoEntry => held'[q].seq # stream'[i].seq
    BY <1>2, <1>t, <2>1, <2>2, Appended
  <2>6. DOMAIN stream' = 1..Len(stream')
    BY <1>2, StreamTypeStep DEF RedisStep, StreamTypeOK
  <2>7. \A q, r \in Producers :
          (q # r /\ held'[q] # NoEntry) => held'[q].seq # held'[r].seq
    BY <1>t, <1>z, <2>1
  <2>8. \A q \in Producers : held'[q].seq <= seq'
    BY <1>2, <1>t, <2>1 DEF Appends
  <2>9. seq' = seq
    BY <1>2 DEF Appends
  <2>10. QED
    BY <2>3, <2>4, <2>5, <2>6, <2>7, <2>8, <2>9
<1>3. ASSUME NEW p \in Producers, GivesUp(p) PROVE Numbered'
  <2>1. held'[p] = NoEntry /\ held'[p].seq = 0
        /\ \A q \in Producers \ {p} : held'[q] = held[q]
    BY <1>3, <1>t DEF GivesUp, NoEntry
  <2>2. \A q, r \in Producers :
          (q # r /\ held'[q] # NoEntry) => held'[q].seq # held'[r].seq
    BY <1>t, <1>z, <2>1
  <2>3. QED
    BY <1>3, <1>t, <2>1, <2>2 DEF GivesUp
<1>4. ASSUME NEW p \in Producers, Leaves(p) PROVE Numbered'
  <2>1. /\ \A q \in Producers : /\ held'[q].seq = held[q].seq
                                /\ held'[q] = NoEntry <=> held[q] = NoEntry
        /\ UNCHANGED <<seq, stream>>
    BY <1>4, Left DEF Leaves
  <2>2. QED
    BY <2>1
<1>5. CASE Rests
  BY <1>5 DEF Rests
<1>6. QED
  BY <1>1, <1>2, <1>3, <1>4, <1>5 DEF RedisStep

\* No seq is ever on the stream twice: INCR hands each number to one
\* producer, and that producer puts it on the stream once, however many
\* producers there are and however their two calls interleave.
THEOREM SeqsAreUnique == BusSpec => []SeqUnique
<1>1. BusInit => BusTypeOK /\ Numbered
  BY BusInitType, InitNumbered
<1>2. BusTypeOK /\ Numbered /\ [BusNext]_busVars => (BusTypeOK /\ Numbered)'
  BY BusTypeStep, StepKinds, NumberedStep, TypeParts
<1>3. BusTypeOK /\ Numbered => SeqUnique
  BY DEF Numbered
<1>4. QED
  BY <1>1, <1>2, <1>3, PTL DEF BusSpec

-----------------------------------------------------------------------------
(* The order.                                                              *)

\* A coroutine waits for one entry at most: this is where awaiting one's own
\* XADD, and [DONE] waiting for the cost, matter.
LEMMA OneInHand ==
  ASSUME StreamTypeOK, Waiting, NEW p \in Producers, NEW q \in Producers,
         held[p] # NoEntry, held[p].of # Nobody, held[q] # NoEntry,
         held[q].of = held[p].of
  PROVE  p = q
<1> DEFINE w == held[p].of
<1>1. w \in Coroutines
  BY DEF StreamTypeOK, Entry
<1>2. ASSUME NEW r \in Producers, held[r] # NoEntry, held[r].of = w
      PROVE  (r = w /\ waits[w] = NoCall) \/ (r \in Calls /\ waits[w] = r)
  BY <1>1, <1>2, Apart DEF Waiting
<1>3. QED
  BY <1>2, Apart

LEMMA InitOrdered == BusInit => Calling /\ Waiting /\ Ahead /\ MilestonesInOrder
  BY Apart, NoEntryIsNone
     DEF BusInit, Calling, Waiting, Ahead, MilestonesInOrder

LEMMA CallingStep ==
  ASSUME BusTypeOK, Calling, Waiting, [BusNext]_busVars PROVE Calling'
<1> USE Apart DEF Calling
<1>h. /\ phase \in [Coroutines -> {"run", "erred", "raised", "search", "finished"}]
      /\ waits \in [Coroutines -> Calls \cup {NoCall}]
  BY DEF BusTypeOK
<1>1. ASSUME NEW w \in Coroutines, Emit(w) PROVE Calling'
  <2>1. ASSUME EmitAppend(w) \/ EmitRaises(w) PROVE Calling'
    <3>1. /\ waits[w] = NoCall /\ waits' = waits
          /\ \A x \in Coroutines \ {w} : phase'[x] = phase[x]
      BY <1>h, <2>1 DEF EmitAppend, EmitRaises, Xadd, Waiting
    <3>2. QED
      BY <3>1
  <2>2. QED
    BY <1>1, <1>h, <2>1 DEF Emit, EmitReserve, Abandon, BeginCall, Free
<1>2. CASE PipelineDies \/ StartSearch \/ GatherReturns
  BY <1>2, <1>h DEF PipelineDies, StartSearch, GatherReturns, Free
<1>3. ASSUME NEW c \in Calls, Answer(c) PROVE Calling'
  <2>1. waits' = waits \/ waits' = Released(c)
    BY <1>3 DEF Answer, UpstreamEnds, UpstreamFails, CostReserve, CostAppend,
          CostFails
  <2>2. phase' = phase
    BY <1>3 DEF Answer, UpstreamEnds, UpstreamFails, CostReserve, CostAppend,
          CostFails
  <2>3. QED
    BY <2>1, <2>2 DEF Released
<1>4. ASSUME NEW t \in Tokens, Token(t) PROVE Calling'
  BY <1>4 DEF Token, SpawnToken, TokenReserve, TokenAppend, TokenDropped,
              TaskReserve, TaskAppend
<1>5. ASSUME NEW s \in Sources, Source(s) PROVE Calling'
  BY <1>5, <1>h DEF Source, SourceAnswers, SourceLogReserve, SourceLogAppend,
     SourceLogRaises, TaskReserve, TaskAppend
<1>6. CASE UNCHANGED busVars
  BY <1>6 DEF busVars
<1>7. QED
  BY <1>1, <1>2, <1>3, <1>4, <1>5, <1>6 DEF BusNext

\* Nothing that Waiting speaks of changes.
LEMMA WaitingKept ==
  ASSUME Waiting, UNCHANGED <<held, waits>>,
         \A c \in Calls : task'[c] = task[c]
  PROVE  Waiting'
  BY DEF Waiting

LEMMA WaitingEmit ==
  ASSUME BusTypeOK, Calling, Waiting, NEW w \in Coroutines, Emit(w)
  PROVE  Waiting'
<1> USE Apart DEF Waiting
<1>h. /\ held \in [Producers -> Entry \cup {NoEntry}]
      /\ waits \in [Coroutines -> Calls \cup {NoCall}]
      /\ task \in [Tasks -> {"unspawned", "spawned", "open", "costing",
                             "reserved", "gone"}]
      /\ NoEntry.of = Nobody /\ Coroutines \subseteq Producers
      /\ Calls \subseteq Producers \ Coroutines
      /\ Tokens \cup Sources \subseteq Producers \ Coroutines
  BY NoEntryIsNone DEF BusTypeOK
<1>1. ASSUME NEW kind \in Kinds, EmitReserve(w, kind) PROVE Waiting'
  <2>1. waits[w] = NoCall
    BY <1>1, <1>h DEF EmitReserve, Emittable, Free, Calling
  <2>2. QED
    BY <1>1, <1>h, <2>1 DEF EmitReserve, NextSeq, IncrSeq
<1>2. ASSUME EmitAppend(w) \/ EmitRaises(w) PROVE Waiting'
  <2>1. held' = [held EXCEPT ![w] = NoEntry] /\ UNCHANGED <<waits, task>>
    BY <1>2 DEF EmitAppend, EmitRaises, Xadd
  <2>2. QED
    BY <1>h, <2>1
<1>3. ASSUME Abandon(w) PROVE Waiting'
  <2> DEFINE c == waits[w]
  <2>1. /\ c \in Calls /\ waits' = [waits EXCEPT ![w] = NoCall]
        /\ held' = [held EXCEPT ![c].of = Nobody] /\ task' = task
    BY <1>3, <1>h DEF Abandon
  <2>2. /\ held'[c].of = Nobody
        /\ held'[c] = NoEntry <=> held[c] = NoEntry
        /\ \A q \in Producers \ {c} : held'[q] = held[q]
    BY <1>3, <1>h, <2>1, Left, TypeParts DEF Leaves, Abandon
  <2>3. \A x \in Coroutines : held'[x] # NoEntry =>
          held'[x].of = x /\ waits'[x] = NoCall
    BY <1>h, <2>1, <2>2
  <2>4. \A d \in Calls : /\ held'[d].of \in Coroutines => waits'[held'[d].of] = d
                         /\ held'[d] # NoEntry => task'[d] = "reserved"
    BY <1>h, <2>1, <2>2
  <2>5. QED
    BY <1>h, <2>1, <2>2, <2>3, <2>4
<1>4. ASSUME NEW c \in Calls, BeginCall(w, c) PROVE Waiting'
  <2>1. /\ waits' = [waits EXCEPT ![w] = c] /\ task' = [task EXCEPT ![c] = "open"]
        /\ task[c] = "unspawned" /\ held' = held
        /\ held[w] = NoEntry /\ waits[w] = NoCall
    BY <1>4 DEF BeginCall, Free
  <2>2. held[c] = NoEntry /\ \A x \in Coroutines : waits[x] # c
    BY <2>1
  <2>3. \A x \in Coroutines : held'[x] # NoEntry =>
          held'[x].of = x /\ waits'[x] = NoCall
    BY <1>h, <2>1
  <2>4. \A d \in Calls : held'[d].of \in Coroutines => waits'[held'[d].of] = d
    BY <1>h, <2>1, <2>2
  <2>5. \A d \in Calls : held'[d] # NoEntry => task'[d] = "reserved"
    BY <1>h, <2>1, <2>2
  <2>6. \A x \in Coroutines : waits'[x] \in Calls =>
          /\ task'[waits'[x]] \in {"open", "costing", "reserved"}
          /\ \A y \in Coroutines : waits'[y] = waits'[x] => y = x
    BY <1>h, <2>1, <2>2
  <2>7. QED
    BY <1>h, <2>1, <2>3, <2>4, <2>5, <2>6
<1>5. QED
  BY <1>1, <1>2, <1>3, <1>4 DEF Emit

LEMMA WaitingAnswer ==
  ASSUME BusTypeOK, Waiting, NEW c \in Calls, Answer(c) PROVE Waiting'
<1> USE Apart DEF Waiting
<1>h. /\ held \in [Producers -> Entry \cup {NoEntry}]
      /\ waits \in [Coroutines -> Calls \cup {NoCall}]
      /\ task \in [Tasks -> {"unspawned", "spawned", "open", "costing",
                             "reserved", "gone"}]
      /\ NoEntry.of = Nobody /\ Coroutines \subseteq Producers
      /\ Calls \subseteq Producers \ Coroutines
      /\ Tokens \cup Sources \subseteq Producers \ Calls
      /\ Calls \subseteq Tasks
  BY NoEntryIsNone DEF BusTypeOK
\* The call is over, and whoever waited for it goes on.
<1>1. ASSUME waits' = Released(c), task' = [task EXCEPT ![c] = "gone"],
             \/ held' = [held EXCEPT ![c] = NoEntry]
             \/ held' = held /\ held[c] = NoEntry
      PROVE Waiting'
  <2>1. /\ \A x \in Coroutines : /\ waits[x] = c => waits'[x] = NoCall
                                 /\ waits[x] # c => waits'[x] = waits[x]
        /\ held'[c] = NoEntry
        /\ \A q \in Producers \ {c} : held'[q] = held[q]
    BY <1>1, <1>h DEF Released
  <2>2. \A x \in Coroutines : held'[x] # NoEntry =>
          held'[x].of = x /\ waits'[x] = NoCall
    BY <1>h, <2>1
  <2>3. \A d \in Calls : /\ held'[d].of \in Coroutines => waits'[held'[d].of] = d
                         /\ held'[d] # NoEntry => task'[d] = "reserved"
    BY <1>1, <1>h, <2>1
  <2>4. \A x \in Coroutines : waits'[x] \in Calls =>
          /\ task'[waits'[x]] \in {"open", "costing", "reserved"}
          /\ \A y \in Coroutines : waits'[y] = waits'[x] => y = x
    BY <1>1, <1>h, <2>1
  <2>5. QED
    BY <1>h, <2>1, <2>2, <2>3, <2>4
<1>2. CASE UpstreamEnds(c)
  BY <1>2, <1>h DEF UpstreamEnds
<1>3. ASSUME UpstreamFails(c) PROVE Waiting'
  <2>1. held[c] = NoEntry
    BY <1>3 DEF UpstreamFails
  <2>2. QED
    BY <1>1, <1>3, <2>1 DEF UpstreamFails
<1>4. ASSUME CostReserve(c) PROVE Waiting'
  <2>1. /\ held' = [held EXCEPT ![c] = [seq |-> seq + 1, kind |-> "cost",
                                        of |-> Waiter(c)]]
        /\ task' = [task EXCEPT ![c] = "reserved"] /\ waits' = waits
    BY <1>4 DEF CostReserve, NextSeq, IncrSeq
  <2>2. held'[c].of \in Coroutines => waits'[held'[c].of] = c
    BY <1>h, <2>1, WaiterType
  <2>3. /\ task'[c] = "reserved"
        /\ \A q \in Producers \ {c} : held'[q] = held[q]
        /\ \A d \in Calls \ {c} : task'[d] = task[d]
    BY <1>h, <2>1
  <2>4. QED
    BY <1>h, <2>1, <2>2, <2>3
<1>5. CASE CostAppend(c) \/ CostFails(c)
  BY <1>1, <1>5 DEF CostAppend, CostFails, Xadd
<1>6. QED
  BY <1>2, <1>3, <1>4, <1>5 DEF Answer

LEMMA WaitingTask ==
  ASSUME BusTypeOK, Waiting,
         \/ \E t \in Tokens : Token(t)
         \/ \E s \in Sources : Source(s)
  PROVE  Waiting'
<1> USE Apart
<1>h. /\ held \in [Producers -> Entry \cup {NoEntry}]
      /\ task \in [Tasks -> {"unspawned", "spawned", "open", "costing",
                             "reserved", "gone"}]
      /\ NoEntry.of = Nobody
  BY NoEntryIsNone DEF BusTypeOK
<1>1. ASSUME NEW t \in Tokens \cup Sources, waits' = waits,
             task' = task \/ \E x : task' = [task EXCEPT ![t] = x],
             \/ held' = held
             \/ held' = [held EXCEPT ![t] = NoEntry]
             \/ \E kind \in Kinds : NextSeq(t, kind, Nobody)
      PROVE Waiting'
  <2>1. \A q \in Producers \ {t} : held'[q] = held[q]
    BY <1>1, <1>h DEF NextSeq, IncrSeq
  <2>2. held'[t] = held[t] \/ held'[t].of = Nobody
    BY <1>1, <1>h DEF NextSeq, IncrSeq
  <2>3. \A c \in Calls : task'[c] = task[c]
    BY <1>1, <1>h
  <2>4. t \notin Coroutines /\ t \notin Calls
    BY <1>1
  <2>5. QED
    BY <1>1, <2>1, <2>2, <2>3, <2>4 DEF Waiting
<1>k. {"token", "log"} \subseteq Kinds
  BY DEF Kinds
<1>2. ASSUME NEW t \in Tokens, Token(t) PROVE Waiting'
  BY <1>1, <1>2, <1>k DEF Token, SpawnToken, TokenReserve, TokenAppend,
     TokenDropped, TaskReserve, TaskAppend, Xadd
<1>3. ASSUME NEW s \in Sources, Source(s) PROVE Waiting'
  BY <1>1, <1>3, <1>k DEF Source, SourceAnswers, SourceLogReserve,
     SourceLogAppend, SourceLogRaises, TaskReserve, TaskAppend, Xadd
<1>4. QED
  BY <1>2, <1>3

LEMMA WaitingStep ==
  ASSUME BusTypeOK, Calling, Waiting, [BusNext]_busVars PROVE Waiting'
<1>1. ASSUME PipelineDies \/ StartSearch \/ GatherReturns PROVE Waiting'
  <2>1. \A c \in Calls : task'[c] = task[c]
    BY <1>1, Apart DEF BusTypeOK, PipelineDies, StartSearch, GatherReturns
  <2>2. QED
    BY <1>1, <2>1, WaitingKept DEF PipelineDies, StartSearch, GatherReturns
<1>2. CASE UNCHANGED busVars
  BY <1>2, WaitingKept DEF busVars
<1>3. QED
  BY <1>1, <1>2, WaitingEmit, WaitingAnswer, WaitingTask DEF BusNext

LEMMA AheadStep ==
  ASSUME StreamTypeOK, Numbered, Waiting, Ahead, MilestonesInOrder, RedisStep
  PROVE  MilestonesInOrder' /\ Ahead'
<1> USE DEF Numbered, Ahead
<1>s. /\ seq \in Nat /\ held \in [Producers -> Entry \cup {NoEntry}]
      /\ stream \in Seq(Entry)
      /\ \A e \in Entry : e.seq \in Nat
  BY BusAssumption DEF StreamTypeOK, Entry
<1>t. /\ seq \in Nat /\ held \in [Producers -> Entry \cup {NoEntry}]
      /\ \A i \in DOMAIN stream : stream[i].seq \in Nat
      /\ DOMAIN stream = 1..Len(stream) /\ Len(stream) \in Nat
  BY <1>s
<1>1. ASSUME NEW p \in Producers, NEW kind \in Kinds,
             NEW w \in Coroutines \cup {Nobody}, Reserves(p, kind, w)
      PROVE MilestonesInOrder' /\ Ahead'
  <2>1. /\ stream' = stream
        /\ held'[p].seq = seq + 1
        /\ \A q \in Producers \ {p} : held'[q] = held[q]
    BY <1>1, <1>t DEF Reserves, NextSeq, IncrSeq
  <2>2. MilestonesInOrder'
    BY <2>1 DEF MilestonesInOrder
  <2>3. Ahead'
    BY <1>t, <2>1
  <2>4. QED
    BY <2>2, <2>3
<1>2. ASSUME NEW p \in Producers, Appends(p)
      PROVE MilestonesInOrder' /\ Ahead'
  <2>1. /\ held'[p] = NoEntry /\ held[p] # NoEntry
        /\ \A q \in Producers \ {p} : held'[q] = held[q]
    BY <1>2, <1>t DEF Appends, Xadd
  <2>2. \A i \in DOMAIN stream' :
          \/ i \in DOMAIN stream /\ stream'[i] = stream[i]
          \/ i = Len(stream) + 1 /\ stream'[i] = held[p]
    BY <1>2, <1>t, Appended
  <2>3. DOMAIN stream' = 1..Len(stream')
    BY <1>2, StreamTypeStep DEF RedisStep, StreamTypeOK
  <2>4. ASSUME NEW q \in Producers, NEW i \in DOMAIN stream', held'[q] # NoEntry,
               held'[q].of # Nobody, stream'[i].of = held'[q].of
        PROVE  stream'[i].seq < held'[q].seq
    <3>1. q # p /\ held'[q] = held[q]
      BY <2>1, <2>4
    <3>2. CASE i \in DOMAIN stream /\ stream'[i] = stream[i]
      BY <2>4, <3>1, <3>2
    <3>3. CASE stream'[i] = held[p]
      BY <2>1, <2>4, <3>1, <3>3, OneInHand
    <3>4. QED
      BY <2>2, <3>2, <3>3
  <2>5. ASSUME NEW i \in 1..Len(stream'), NEW j \in 1..Len(stream'), i < j,
               stream'[i].of = stream'[j].of, stream'[i].of # Nobody
        PROVE  stream'[i].seq < stream'[j].seq
    <3>1. i \in DOMAIN stream /\ stream'[i] = stream[i]
      <4>1. i # Len(stream) + 1
        BY <1>t, <2>2, <2>3, <2>5
      <4>2. QED
        BY <2>2, <2>3, <4>1
    <3>2. CASE j \in DOMAIN stream /\ stream'[j] = stream[j]
      BY <1>t, <2>5, <3>1, <3>2 DEF MilestonesInOrder
    <3>3. CASE stream'[j] = held[p]
      BY <2>1, <2>5, <3>1, <3>3
    <3>4. QED
      BY <2>2, <2>3, <3>2, <3>3
  <2>6. QED
    BY <2>4, <2>5 DEF MilestonesInOrder
<1>3. ASSUME NEW p \in Producers, GivesUp(p) \/ Leaves(p)
      PROVE MilestonesInOrder' /\ Ahead'
  <2>1. /\ stream' = stream
        /\ \A q \in Producers : \/ held'[q] = held[q] \/ held'[q] = NoEntry
                                \/ held'[q].of = Nobody
    BY <1>3, <1>t, Left DEF GivesUp, Leaves
  <2>2. MilestonesInOrder'
    BY <2>1 DEF MilestonesInOrder
  <2>3. Ahead'
    BY <1>t, <2>1
  <2>4. QED
    BY <2>2, <2>3
<1>4. ASSUME Rests PROVE MilestonesInOrder' /\ Ahead'
  BY <1>4 DEF Rests, MilestonesInOrder
<1>5. QED
  BY <1>1, <1>2, <1>3, <1>4 DEF RedisStep

LEMMA BusIInvStep == BusIInv /\ [BusNext]_busVars => BusIInv'
<1> SUFFICES ASSUME BusIInv, [BusNext]_busVars PROVE BusIInv'
  OBVIOUS
<1>1. BusTypeOK' /\ StreamTypeOK /\ RedisStep
  BY BusTypeStep, TypeParts, StepKinds DEF BusIInv
<1>2. Numbered'
  BY <1>1, NumberedStep DEF BusIInv
<1>3. MilestonesInOrder' /\ Ahead'
  BY <1>1, AheadStep DEF BusIInv
<1>4. Calling' /\ Waiting'
  BY CallingStep, WaitingStep DEF BusIInv
<1>5. QED
  BY <1>1, <1>2, <1>3, <1>4 DEF BusIInv

\* The events of a coroutine, and the cost of each call it waited for to the
\* end, reach the stream in the order of their numbers, whatever the other
\* coroutines, abandoned calls, tokens and sources put between: a coroutine
\* awaits each XADD before its next INCR, and an LLM call returns to it only
\* when the call's cost event is on the stream.
THEOREM MilestonesAreInOrder == BusSpec => []MilestonesInOrder
<1>1. BusInit => BusIInv
  BY BusInitType, InitNumbered, InitOrdered DEF BusIInv
<1>2. BusIInv => MilestonesInOrder
  BY DEF BusIInv
<1>3. QED
  BY <1>1, <1>2, BusIInvStep, PTL DEF BusSpec

-----------------------------------------------------------------------------
(* The feed.  Of the bus it takes that the stream grows at its end, that   *)
(* no number is on it twice, and that floor moves forward only.            *)

BusInv == BusTypeOK /\ Numbered

\* What the client was sent and no fault has taken: read or on its way.
Sent == shown \o wire

\* A session exists while the connection is open; it has sent nothing before
\* the hello, and the Close frame is the last thing it sends.
Sessions ==
  /\ conn # "open" => session = "none" /\ wire = <<>>
  /\ session = "hello" => wire = <<>> /\ from = 0 /\ pos = 0 /\ batch = 0
  /\ session # "none" => \A n \in 1..Len(wire) : wire[n] # CloseFrame

\* lastSeq is the largest number shown, and a session filters by 0 or by a
\* number that was shown.
Largest ==
  /\ \A n \in 1..Len(shown) : shown[n].seq <= lastSeq
  /\ lastSeq = 0 \/ \E n \in 1..Len(shown) : shown[n].seq = lastSeq
  /\ session = "tail" => from = 0 \/ \E n \in 1..Len(shown) : shown[n].seq = from

FromStream ==
  \A n \in 1..Len(Sent) :
    Sent[n] = CloseFrame \/ \E k \in 1..Len(stream) : Sent[n] = stream[k]

\* Nothing was sent twice, and nothing that was sent is still to be forwarded.
SentOnce == ~ late => \A m, n \in 1..Len(Sent) : m # n => Sent[m] # Sent[n]

ToBeSent ==
  ~ late /\ session = "tail" =>
    \A k \in (pos + 1)..Len(stream) :
      Unseen(stream[k]) => \A n \in 1..Len(Sent) : Sent[n] # stream[k]

Gone(i) == Overtaken(i) \/ i <= floor

\* What stands before an entry on the stream was sent before it, or is gone:
\* so it does not matter at which frame a connection breaks.
Closed ==
  \A n \in 1..Len(Sent), j \in 1..Len(stream) : Sent[n] = stream[j] =>
    \A i \in 1..(j - 1) : Gone(i) \/ \E m \in 1..(n - 1) : Sent[m] = stream[i]

PassedOver ==
  session = "tail" =>
    \A i \in 1..pos : Gone(i) \/ \E n \in 1..Len(Sent) : Sent[n] = stream[i]

IInv == /\ TypeOK /\ BusInv /\ Sessions /\ Largest /\ FromStream
        /\ SentOnce /\ ToBeSent /\ Closed /\ PassedOver

-----------------------------------------------------------------------------
(* The stream.                                                             *)

Streams(s, f) ==
  /\ s \in Seq(Entry) /\ f \in 0..Len(s)
  /\ \A i, j \in 1..Len(s) : i # j => s[i].seq # s[j].seq

LEMMA BusFacts ==
  ASSUME BusInv PROVE Streams(stream, floor)
BY DEF BusInv, Streams, BusTypeOK, Numbered, SeqUnique

\* The stream keeps what it has and may get one entry more.
Grows ==
  /\ Len(stream') \in {Len(stream), Len(stream) + 1}
  /\ \A i \in 1..Len(stream) : stream'[i] = stream[i]
  /\ floor' \in floor..Len(stream')

LEMMA InitBus == ASSUME Init PROVE BusInv
BY BusInitType, InitNumbered DEF Init, BusInv

LEMMA BusStep ==
  ASSUME BusInv, BusNext PROVE BusInv' /\ Grows
<1>1. StreamTypeOK /\ Numbered /\ RedisStep
  BY TypeParts, StepKinds DEF BusInv
<1>2. BusInv'
  BY <1>1, BusTypeStep, NumberedStep DEF BusInv
<1>3. ASSUME NEW p \in Producers, Appends(p) PROVE Grows
  <2>1. /\ stream' = Append(stream, held[p]) /\ held[p] \in Entry
        /\ floor' \in floor..Len(stream)
    BY <1>1, <1>3 DEF Appends, Xadd, StreamTypeOK
  <2>2. stream \in Seq(Entry) /\ floor \in Nat /\ Len(stream) \in Nat
    BY <1>1 DEF StreamTypeOK
  <2>3. QED
    BY <2>1, <2>2 DEF Grows
<1>4. ASSUME UNCHANGED <<stream, floor>> PROVE Grows
  BY <1>1, <1>4 DEF Grows, StreamTypeOK
<1>5. QED
  BY <1>1, <1>2, <1>3, <1>4 DEF RedisStep, Reserves, GivesUp, Leaves, Rests

-----------------------------------------------------------------------------
(* What was sent.                                                          *)

Frame == Entry \cup {CloseFrame}

LEMMA SentFacts ==
  ASSUME NEW s \in Seq(Entry), NEW w \in Seq(Frame)
  PROVE  /\ s \o w \in Seq(Frame) /\ Len(s \o w) = Len(s) + Len(w)
         /\ Len(s) \in Nat /\ Len(w) \in Nat
         /\ \A n \in 1..Len(s) : (s \o w)[n] = s[n]
         /\ \A n \in 1..Len(w) : (s \o w)[Len(s) + n] = w[n]
         /\ s \o <<>> = s
BY DEF Frame

\* A frame is received: it was sent before and after.
LEMMA ReceivedIsSent ==
  ASSUME NEW s \in Seq(Entry), NEW w \in Seq(Frame), w # <<>>
  PROVE  Append(s, Head(w)) \o Tail(w) = s \o w
BY DEF Frame

\* A frame is sent.
LEMMA SentMore ==
  ASSUME NEW s \in Seq(Entry), NEW w \in Seq(Frame), NEW e \in Frame
  PROVE  s \o Append(w, e) = Append(s \o w, e)
BY DEF Frame

LEMMA EntryFacts ==
  /\ CloseFrame \notin Entry /\ CloseFrame.seq = 0
  /\ \A e \in Entry : e.seq \in Nat /\ e.seq > 0 /\ e.seq <= MaxSeq
  /\ MaxSeq \in Nat
BY BusAssumption DEF CloseFrame, NoEntry, Entry
-----------------------------------------------------------------------------
(* The reader's types, its sessions and its largest number.                *)

LEMMA InitReader == Init => IInv
<1> SUFFICES ASSUME Init PROVE IInv
  OBVIOUS
<1>1. BusInv
  BY InitBus
<1>2. shown = <<>> /\ wire = <<>> /\ stream = <<>> /\ Sent = <<>>
  BY DEF Init, BusInit, Sent
<1>3. TypeOK
  <2>1. Len(stream) = 0 /\ <<>> \in Seq(Entry) /\ <<>> \in Seq(Entry \cup {CloseFrame})
    BY <1>2
  <2>2. 0 \in 0..0 /\ 0 \in 0..MaxSeq /\ 0 \in 0..MaxAttempts /\ 0 \in 0..MaxFaults
        /\ 0 \in 0..MaxLoads
    BY BusAssumption, FeedAssumption, EntryFacts
  <2>3. QED
    BY <1>2, <2>1, <2>2 DEF Init, TypeOK
<1>4. Sessions /\ Largest /\ FromStream /\ SentOnce /\ ToBeSent /\ Closed /\ PassedOver
  BY <1>2 DEF Init, Sessions, Largest, FromStream, SentOnce,
                  ToBeSent, Closed, PassedOver
<1>5. QED
  BY <1>1, <1>3, <1>4 DEF IInv

LEMMA RetryType ==
  ASSUME TypeOK, Retry PROVE conn' \in {"waiting", "ended"} /\ attempts' \in 0..MaxAttempts
BY FeedAssumption DEF Retry, TypeOK

LEMMA TypeStep ==
  ASSUME TypeOK, BusInv, Feed PROVE TypeOK'
<1> USE BusAssumption, FeedAssumption, EntryFacts DEF TypeOK, client, gateway, bounds, busVars
<1>s. stream' = stream /\ floor' = floor /\ floor \in 0..Len(stream) /\ stream \in Seq(Entry)
  BY BusFacts DEF Feed, Streams
<1>1. CASE Connect
  BY <1>1, <1>s DEF Connect
<1>2. CASE ConnectFails \/ Eof \/ Drop
  <2>1. conn' \in {"waiting", "open", "ended"} /\ attempts' \in 0..MaxAttempts
    BY <1>2, RetryType DEF ConnectFails, Eof, Drop
  <2>2. /\ session' \in {"none", session} /\ wire' \in {<<>>, wire}
        /\ faults' \in 0..MaxFaults
    BY <1>2 DEF ConnectFails, Eof, Drop
  <2>3. UNCHANGED <<lastSeq, terminal, shown, late, from, pos, batch, loads>>
    BY <1>2 DEF ConnectFails, Eof, Drop
  <2>4. session' \in {"none", "hello", "tail"}
    BY <2>2
  <2>5. wire' = <<>> \/ wire' = wire
    BY <2>2
  <2>6. <<>> \in Seq(Entry \cup {CloseFrame}) /\ wire \in Seq(Entry \cup {CloseFrame})
    OBVIOUS
  <2>7. wire' \in Seq(Entry \cup {CloseFrame})
    BY <2>5, <2>6
  <2>8. QED
    BY <1>s, <2>1, <2>2, <2>3, <2>4, <2>7
<1>3. CASE HelloArrives \/ HelloTimesOut \/ XReadFails
  <2>1. session' \in {"none", "tail"} /\ faults' \in 0..MaxFaults
    BY <1>3 DEF HelloArrives, HelloTimesOut, XReadFails
  <2>b. late' \in BOOLEAN
    BY <1>3, Zenon DEF HelloArrives, HelloTimesOut, XReadFails
  <2>2. from' \in {from, lastSeq}
    BY <1>3 DEF HelloArrives, HelloTimesOut, XReadFails
  <2>3. UNCHANGED <<conn, attempts, lastSeq, terminal, shown, pos, batch, wire, loads>>
    BY <1>3 DEF HelloArrives, HelloTimesOut, XReadFails
  <2>4. QED
    BY <1>s, <2>1, <2>b, <2>2, <2>3
<1>4. CASE XRead
  BY <1>4, <1>s DEF XRead, Greater
<1>5. CASE Forward
  <2>1. pos + 1 \in 1..Len(stream) /\ stream[pos + 1] \in Entry
    BY <1>5, <1>s DEF Forward
  <2>2. wire' \in Seq(Entry \cup {CloseFrame})
    <3> DEFINE e == stream[pos + 1]
    <3>1. wire' \in {wire, Append(wire, e), Append(Append(wire, e), CloseFrame)}
      BY <1>5 DEF Forward
    <3>2. e \in Entry \cup {CloseFrame} /\ CloseFrame \in Entry \cup {CloseFrame}
      BY <2>1
    <3> HIDE DEF e
    <3>3. Append(wire, e) \in Seq(Entry \cup {CloseFrame})
      BY <3>2
    <3>4. Append(Append(wire, e), CloseFrame) \in Seq(Entry \cup {CloseFrame})
      BY <3>2, <3>3
    <3>5. QED
      BY <3>1, <3>3, <3>4
  <2>3. session' \in {"none", "tail"} /\ pos' \in 0..batch
    BY <1>5, <2>1 DEF Forward
  <2>4. QED
    BY <1>5, <1>s, <2>2, <2>3 DEF Forward
<1>6. CASE ReceiveEvent
  <2>1. Head(wire) \in Entry /\ Tail(wire) \in Seq(Entry \cup {CloseFrame})
    BY <1>6 DEF ReceiveEvent
  <2>2. lastSeq' \in 0..MaxSeq
    BY <1>6, <2>1 DEF ReceiveEvent, Greater
  <2>3. QED
    BY <1>6, <1>s, <2>1, <2>2 DEF ReceiveEvent
<1>7. CASE ReceiveClose
  BY <1>7, <1>s DEF ReceiveClose
<1>8. CASE OpenAgain
  <2>1. /\ conn' = "waiting" /\ session' = "none" /\ shown' = <<>> /\ wire' = <<>>
        /\ lastSeq' = 0 /\ attempts' = 0 /\ loads' \in 0..MaxLoads
        /\ UNCHANGED <<from, pos, batch, faults>>
    BY <1>8 DEF OpenAgain
  <2>b. late' \in BOOLEAN /\ terminal' \in BOOLEAN
    BY <1>8 DEF OpenAgain
  <2>2. QED
    BY <1>s, <2>1, <2>b
<1>9. QED
  BY <1>1, <1>2, <1>3, <1>4, <1>5, <1>6, <1>7, <1>8 DEF Feed, Gateway, Browser

LEMMA SessionsStep ==
  ASSUME TypeOK, BusInv, Sessions, Feed PROVE Sessions'
<1> USE DEF TypeOK, Sessions, client, gateway, bounds
<1>1. CASE Connect \/ ConnectFails \/ Drop \/ Eof \/ OpenAgain
  BY <1>1 DEF Connect, ConnectFails, Drop, Eof, OpenAgain, Retry
<1>2. CASE HelloArrives \/ HelloTimesOut \/ XReadFails \/ XRead
  BY <1>2 DEF HelloArrives, HelloTimesOut, XReadFails, XRead
<1>3. CASE Forward
  <2>1. pos + 1 \in 1..Len(stream) /\ stream[pos + 1] \in Entry
    BY <1>3, BusFacts DEF Forward, Streams
  <2>2. session' # "none" => wire' \in {wire, Append(wire, stream[pos + 1])}
    BY <1>3 DEF Forward
  <2>3. stream[pos + 1] # CloseFrame
    BY <2>1, EntryFacts
  <2>4. conn' = conn /\ session = "tail" /\ session' \in {"none", "tail"}
    BY <1>3 DEF Forward
  <2>5. session' # "none" => \A n \in 1..Len(wire') : wire'[n] # CloseFrame
    <3>1. CASE wire' = wire
      BY <2>4, <3>1
    <3>2. CASE wire' = Append(wire, stream[pos + 1])
      <4>1. /\ Len(wire') = Len(wire) + 1 /\ wire'[Len(wire) + 1] = stream[pos + 1]
            /\ \A n \in 1..Len(wire) : wire'[n] = wire[n]
        BY <2>1, <3>2
      <4>2. QED
        BY <2>3, <2>4, <4>1
    <3>3. QED
      BY <2>2, <3>1, <3>2
  <2>6. QED
    BY <2>4, <2>5
<1>4. CASE ReceiveEvent
  BY <1>4 DEF ReceiveEvent
<1>5. CASE ReceiveClose
  BY <1>5 DEF ReceiveClose
<1>6. QED
  BY <1>1, <1>2, <1>3, <1>4, <1>5 DEF Feed, Gateway, Browser

LEMMA LargestStep ==
  ASSUME TypeOK, BusInv, Sessions, Largest, Feed PROVE Largest'
<1> USE DEF TypeOK, Sessions, Largest, client, gateway, bounds
<1>1. CASE Connect \/ ConnectFails \/ Drop \/ Eof \/ OpenAgain \/ ReceiveClose
  BY <1>1 DEF Connect, ConnectFails, Drop, Eof, OpenAgain, ReceiveClose
<1>2. CASE HelloArrives \/ HelloTimesOut \/ XReadFails \/ XRead
  BY <1>2 DEF HelloArrives, HelloTimesOut, XReadFails, XRead
<1>3. CASE Forward
  BY <1>3 DEF Forward
<1>4. CASE ReceiveEvent
  <2> DEFINE e == Head(wire)
             k == Len(shown) + 1
  <2>1. e \in Entry /\ e.seq \in Nat /\ lastSeq \in Nat
    BY <1>4, EntryFacts DEF ReceiveEvent
  <2>2. /\ Len(shown') = k /\ k \in Nat
        /\ \A n \in 1..Len(shown) : shown'[n] = shown[n] /\ shown[n] \in Entry
        /\ shown'[k] = e
    BY <1>4, <2>1 DEF ReceiveEvent
  <2>3. /\ lastSeq' \in {lastSeq, e.seq} /\ lastSeq <= lastSeq' /\ e.seq <= lastSeq'
    BY <1>4, <2>1 DEF ReceiveEvent, Greater
  <2>4. \A n \in 1..Len(shown) : shown[n].seq \in Nat
    BY <2>2, EntryFacts
  <2>5. \A n \in 1..Len(shown') : n \in 1..Len(shown) \/ n = k
    BY <2>2
  <2>6. \A n \in 1..Len(shown') : shown'[n].seq <= lastSeq'
    <3>1. \A n \in 1..Len(shown) : shown'[n].seq <= lastSeq'
      <4>1. TAKE n \in 1..Len(shown)
      <4>2. shown[n].seq <= lastSeq /\ shown[n].seq \in Nat
        BY <2>4
      <4>3. lastSeq' \in Nat
        BY <2>1, <2>3
      <4>4. shown[n].seq <= lastSeq'
        BY <2>1, <2>3, <4>2, <4>3
      <4>5. QED
        BY <2>2, <4>4
    <3>2. shown'[k].seq <= lastSeq'
      BY <2>2, <2>3
    <3>3. QED
      BY <2>5, <3>1, <3>2
  <2>7. 1..Len(shown) \subseteq 1..Len(shown') /\ k \in 1..Len(shown')
    BY <2>2
  <2>8. lastSeq' = 0 \/ \E n \in 1..Len(shown') : shown'[n].seq = lastSeq'
    BY <2>2, <2>3, <2>7
  <2>9. session' = session /\ from' = from
    BY <1>4 DEF ReceiveEvent
  <2>10. session' = "tail" => from' = 0 \/ \E n \in 1..Len(shown') : shown'[n].seq = from'
    BY <2>2, <2>7, <2>9
  <2>11. QED
    BY <2>6, <2>8, <2>10
<1>5. QED
  BY <1>1, <1>2, <1>3, <1>4 DEF Feed, Gateway, Browser
-----------------------------------------------------------------------------
(* What a step of the reader does to what was sent: it sends the next      *)
(* entry, with the Close frame behind it or not, or keeps a beginning.     *)

Keeps ==
  /\ Len(Sent') <= Len(Sent)
  /\ \A n \in 1..Len(Sent') : Sent'[n] = Sent[n]

Sends ==
  /\ Len(Sent') \in {Len(Sent) + 1, Len(Sent) + 2}
  /\ \A n \in 1..Len(Sent) : Sent'[n] = Sent[n]
  /\ Sent'[Len(Sent) + 1] = stream[pos + 1]
  /\ Len(Sent') = Len(Sent) + 2 => session' = "none" /\ Sent'[Len(Sent) + 2] = CloseFrame

LEMMA SentType ==
  ASSUME TypeOK
  PROVE  /\ Sent \in Seq(Frame) /\ Len(Sent) \in Nat
         /\ Len(Sent) = Len(shown) + Len(wire)
         /\ Len(shown) \in Nat /\ Len(wire) \in Nat
         /\ \A n \in 1..Len(shown) : Sent[n] = shown[n]
BY SentFacts DEF TypeOK, Frame, Sent

LEMMA ForwardKinds ==
  ASSUME TypeOK, BusInv, Forward
  PROVE  /\ pos + 1 \in 1..Len(stream) /\ stream[pos + 1] \in Entry
         /\ pos' = pos + 1 /\ shown' = shown /\ UNCHANGED <<late, from, conn>>
         /\ session = "tail" /\ session' \in {"none", "tail"}
         /\ \/ ~ Unseen(stream[pos + 1]) /\ Sent' = Sent
            \/ Unseen(stream[pos + 1]) /\ Sends
<1> DEFINE e == stream[pos + 1]
<1>1. pos + 1 \in 1..Len(stream) /\ e \in Entry
  BY BusFacts DEF Forward, TypeOK, Streams
<1>2. /\ pos' = pos + 1 /\ shown' = shown /\ UNCHANGED <<late, from, conn>>
      /\ session = "tail" /\ session' \in {"none", "tail"}
  BY DEF Forward, client
<1>3. \/ ~ Unseen(e) /\ wire' = wire
      \/ Unseen(e) /\ wire' = Append(wire, e)
      \/ Unseen(e) /\ session' = "none" /\ wire' = Append(Append(wire, e), CloseFrame)
  BY DEF Forward
<1>4. e \in Frame /\ CloseFrame \in Frame /\ shown \in Seq(Entry) /\ wire \in Seq(Frame)
  BY <1>1 DEF Frame, TypeOK
<1> HIDE DEF e
<1>5. CASE ~ Unseen(e) /\ wire' = wire
  BY <1>1, <1>2, <1>5 DEF Sent, e
<1>6. CASE Unseen(e) /\ wire' = Append(wire, e)
  <2>1. Sent' = Append(Sent, e)
    BY <1>2, <1>4, <1>6, SentMore DEF Sent
  <2>2. Sent \in Seq(Frame)
    BY SentType
  <2>3. Len(Sent') = Len(Sent) + 1 /\ Sent'[Len(Sent) + 1] = e
        /\ \A n \in 1..Len(Sent) : Sent'[n] = Sent[n]
    BY <1>4, <2>1, <2>2
  <2>4. Len(Sent) \in Nat
    BY SentType
  <2>5. Sends
    BY <2>3, <2>4 DEF Sends, e
  <2>6. QED
    BY <1>1, <1>2, <1>6, <2>5 DEF e
<1>7. CASE session' = "none" /\ Unseen(e) /\ wire' = Append(Append(wire, e), CloseFrame)
  <2>1. Append(wire, e) \in Seq(Frame)
    BY <1>4
  <2>2. Sent' = Append(Append(Sent, e), CloseFrame)
    BY <1>2, <1>4, <1>7, <2>1, SentMore DEF Sent
  <2>3. Sent \in Seq(Frame) /\ Len(Sent) \in Nat
    BY SentType
  <2>4. Append(Sent, e) \in Seq(Frame) /\ Len(Append(Sent, e)) = Len(Sent) + 1
        /\ \A n \in 1..Len(Sent) : Append(Sent, e)[n] = Sent[n]
        /\ Append(Sent, e)[Len(Sent) + 1] = e
    BY <1>4, <2>3
  <2>5. Len(Sent') = Len(Sent) + 2 /\ Sent'[Len(Sent) + 2] = CloseFrame
        /\ \A n \in 1..Len(Sent) + 1 : Sent'[n] = Append(Sent, e)[n]
    <3> DEFINE q == Append(Sent, e)
    <3>1. q \in Seq(Frame) /\ Len(q) = Len(Sent) + 1 /\ Sent' = Append(q, CloseFrame)
      BY <2>2, <2>4
    <3> HIDE DEF q
    <3>2. Len(Sent') = Len(q) + 1 /\ Sent'[Len(q) + 1] = CloseFrame
          /\ \A n \in 1..Len(q) : Sent'[n] = q[n]
      BY <1>4, <3>1
    <3>3. Len(q) + 1 = Len(Sent) + 2
      BY <2>3, <3>1
    <3>4. QED
      BY <3>1, <3>2, <3>3 DEF q
  <2>6. Sends
    <3>1. Len(Sent) + 1 \in 1..Len(Sent) + 1 /\ 1..Len(Sent) \subseteq 1..Len(Sent) + 1
      BY <2>3
    <3>2. \A n \in 1..Len(Sent) : Sent'[n] = Sent[n]
      BY <2>4, <2>5, <3>1
    <3>3. Sent'[Len(Sent) + 1] = e
      BY <2>4, <2>5, <3>1
    <3>4. session' = "none"
      BY <1>7
    <3>5. QED
      BY <2>5, <3>2, <3>3, <3>4 DEF Sends, e
  <2>7. QED
    BY <1>1, <1>2, <1>7, <2>6 DEF e
<1>8. QED
  BY <1>1, <1>2, <1>3, <1>5, <1>6, <1>7 DEF e

LEMMA OtherKinds ==
  ASSUME TypeOK, Sessions, Feed, ~ Forward
  PROVE  /\ Keeps /\ UNCHANGED <<stream, floor>>
         /\ session' = "tail" =>
              \/ session = "hello" /\ Sent' = Sent
              \/ session = "tail" /\ Sent' = Sent /\ pos <= pos'
                   /\ UNCHANGED <<late, from>>
         /\ ~ late' /\ Sent' # <<>> => ~ late
<1> USE DEF TypeOK, client, gateway, bounds, busVars
<1>s. /\ UNCHANGED <<stream, floor>> /\ Sent = shown \o wire /\ Sent' = shown' \o wire'
      /\ shown \in Seq(Entry) /\ wire \in Seq(Frame)
  BY DEF Feed, Sent, Frame
<1>c. ASSUME shown' = shown, wire' = <<>> PROVE Keeps
  <2>1. Sent' = shown
    BY <1>s, <1>c, SentFacts
  <2>2. QED
    BY <2>1, SentType DEF Keeps
<1>k. ASSUME Sent' = Sent PROVE Keeps
  BY <1>k, SentType DEF Keeps
<1>1. CASE Connect \/ Drop \/ ReceiveClose
  <2>1. shown' = shown /\ wire' = <<>> /\ late' = late /\ session' # "tail"
    BY <1>1 DEF Connect, Drop, ReceiveClose, Sessions
  <2>2. QED
    BY <1>s, <1>c, <2>1
<1>2. CASE ConnectFails \/ Eof \/ XReadFails
  <2>1. Sent' = Sent /\ late' = late /\ session' # "tail"
    BY <1>2 DEF ConnectFails, Eof, XReadFails, Sessions, Sent
  <2>2. QED
    BY <1>s, <1>k, <2>1
<1>3. CASE HelloArrives \/ HelloTimesOut
  <2>1. Sent' = Sent /\ session = "hello" /\ late => late'
    BY <1>3 DEF HelloArrives, HelloTimesOut, Sent
  <2>2. QED
    BY <1>s, <1>k, <1>3, <2>1 DEF HelloArrives, HelloTimesOut, Sent
<1>4. CASE XRead
  <2>1. Sent' = Sent /\ UNCHANGED <<late, from>> /\ session = "tail"
    BY <1>4 DEF XRead, Sent
  <2>2. pos <= pos'
    BY <1>4 DEF XRead, Greater
  <2>3. QED
    BY <1>s, <1>k, <2>1, <2>2
<1>5. CASE ReceiveEvent
  <2>1. Sent' = Sent
    BY <1>5, <1>s, ReceivedIsSent DEF ReceiveEvent
  <2>2. UNCHANGED <<late, from, session, pos>>
    BY <1>5 DEF ReceiveEvent
  <2>3. pos <= pos'
    BY <2>2
  <2>4. QED
    BY <1>s, <1>k, <2>1, <2>2, <2>3
<1>6. CASE OpenAgain
  <2>1. Sent' = <<>> /\ session' = "none"
    BY <1>6, <1>s DEF OpenAgain
  <2>2. Keeps
    BY <2>1, SentType DEF Keeps
  <2>3. QED
    BY <1>s, <2>1, <2>2
<1>7. QED
  BY <1>1, <1>2, <1>3, <1>4, <1>5, <1>6 DEF Feed, Gateway, Browser
LEMMA LaterPlace ==
  ASSUME NEW p \in Nat, NEW q \in Nat, p <= q, NEW l \in Nat, NEW k \in (q + 1)..l
  PROVE  k \in (p + 1)..l
OBVIOUS

\* Whatever prefix a step keeps, it is as good as the whole.
LEMMA KeepsStep ==
  ASSUME TypeOK, FromStream, SentOnce, Closed, Keeps, UNCHANGED <<stream, floor>>,
         ~ late' /\ Sent' # <<>> => ~ late
  PROVE  FromStream' /\ SentOnce' /\ Closed'
<1>1. /\ Len(Sent) \in Nat /\ Len(Sent') <= Len(Sent)
      /\ \A n \in 1..Len(Sent') : n \in 1..Len(Sent) /\ Sent'[n] = Sent[n]
  BY SentType DEF Keeps
<1>2. FromStream'
  BY <1>1 DEF FromStream, CloseFrame
<1>3. SentOnce'
  <2>1. SUFFICES ASSUME ~ late', NEW m \in 1..Len(Sent'), NEW n \in 1..Len(Sent'), m # n
                 PROVE Sent'[m] # Sent'[n]
    BY DEF SentOnce
  <2>2. Sent' # <<>>
    BY <2>1
  <2>3. QED
    BY <1>1, <2>1, <2>2 DEF SentOnce
<1>4. Closed'
  <2>1. SUFFICES ASSUME NEW n \in 1..Len(Sent'), NEW j \in 1..Len(stream),
                        Sent'[n] = stream[j], NEW i \in 1..(j - 1), ~ Gone(i)
                 PROVE \E m \in 1..(n - 1) : Sent'[m] = stream[i]
    BY DEF Closed, Gone, Overtaken
  <2>2. PICK m \in 1..(n - 1) : Sent[m] = stream[i]
    BY <1>1, <2>1 DEF Closed
  <2>3. m \in 1..Len(Sent') /\ Sent'[m] = Sent[m]
    BY <1>1
  <2>4. QED
    BY <2>2, <2>3
<1>5. QED
  BY <1>2, <1>3, <1>4

LEMMA OtherStep ==
  ASSUME IInv, Feed, ~ Forward
  PROVE  (FromStream /\ SentOnce /\ ToBeSent /\ Closed /\ PassedOver)'
<1> USE DEF IInv
<1>k. /\ Keeps /\ stream' = stream /\ floor' = floor
      /\ session' = "tail" =>
              \/ session = "hello" /\ Sent' = Sent
              \/ session = "tail" /\ Sent' = Sent /\ pos <= pos'
                   /\ late' = late /\ from' = from
      /\ ~ late' /\ Sent' # <<>> => ~ late
  BY OtherKinds
<1>1. FromStream' /\ SentOnce' /\ Closed'
  BY <1>k, KeepsStep
<1>s. Streams(stream, floor)
  BY BusFacts
<1>2. ASSUME session = "hello", session' = "tail" PROVE ToBeSent' /\ PassedOver'
  <2>1. HelloArrives \/ HelloTimesOut
    BY <1>2 DEF Feed, Gateway, Browser, XRead, Forward, XReadFails, Connect, ConnectFails,
                ReceiveEvent, ReceiveClose, Drop, Eof, OpenAgain, gateway, Sessions
  <2>2. pos' = 0 /\ Sent' = Sent /\ Sent = shown /\ shown \in Seq(Entry)
    <3>1. wire = <<>> /\ pos = 0 /\ shown \in Seq(Entry)
      BY <1>2 DEF Sessions, TypeOK
    <3>2. pos' = pos
      BY <2>1 DEF HelloArrives, HelloTimesOut
    <3>3. Sent = shown
      BY <3>1 DEF Sent
    <3>4. QED
      BY <1>k, <1>2, <3>1, <3>2, <3>3
  <2>3. PassedOver'
    BY <2>2 DEF PassedOver
  <2>4. ASSUME ~ late', NEW k \in 1..Len(stream), stream[k].seq > from',
               NEW n \in 1..Len(Sent')
        PROVE  Sent'[n] # stream[k]
    <3>1. shown[n] \in Entry /\ shown[n].seq > 0 /\ shown[n].seq <= lastSeq
          /\ lastSeq \in Nat /\ shown[n].seq \in Nat
      BY <2>2, <2>4, EntryFacts DEF Largest, TypeOK
    <3>2. CASE HelloArrives
      <4>1. from' = lastSeq
        BY <3>2 DEF HelloArrives
      <4>2. stream[k].seq \in Nat
        BY <1>s, EntryFacts DEF Streams
      <4>3. shown[n].seq # stream[k].seq
        BY <2>4, <3>1, <4>1, <4>2
      <4>4. QED
        BY <2>2, <4>3
    <3>3. CASE HelloTimesOut
      <4>1. ~ (lastSeq > 0)
        BY <2>4, <3>3, Zenon DEF HelloTimesOut
      <4>2. QED
        BY <3>1, <4>1
    <3>4. QED
      BY <2>1, <3>2, <3>3
  <2>5. ToBeSent'
    BY <1>k, <2>2, <2>4 DEF ToBeSent, Unseen
  <2>6. QED
    BY <2>3, <2>5
<1>3. ASSUME session = "tail", session' = "tail" PROVE ToBeSent' /\ PassedOver'
  <2>1. /\ Sent' = Sent /\ pos <= pos' /\ late' = late /\ from' = from
        /\ pos \in Nat /\ pos' \in Nat
    <3>1. TypeOK'
      BY TypeStep
    <3>2. QED
      BY <1>k, <1>3, <3>1 DEF TypeOK
  <2>2. ToBeSent'
    <3>1. SUFFICES ASSUME ~ late', NEW k \in (pos' + 1)..Len(stream), stream[k].seq > from,
                          NEW n \in 1..Len(Sent)
                   PROVE  Sent[n] # stream[k]
      BY <1>k, <2>1 DEF ToBeSent, Unseen
    <3>2. ~ late
      BY <2>1, <3>1
    <3>3. k \in (pos + 1)..Len(stream)
      <4>1. Len(stream) \in Nat
        BY <1>s DEF Streams
      <4>2. QED
        BY <2>1, <4>1, LaterPlace
    <3>4. QED
      BY <1>3, <3>1, <3>2, <3>3 DEF ToBeSent, Unseen
  <2>3. CASE XRead
    <3>1. ASSUME NEW i \in 1..pos' PROVE i \in 1..pos \/ Gone(i)
      BY <1>s, <2>1, <2>3 DEF XRead, Greater, Gone, Streams
    <3>2. \A i \in 1..pos' : Gone(i) \/ \E n \in 1..Len(Sent) : Sent[n] = stream[i]
      BY <1>3, <3>1 DEF PassedOver
    <3>3. QED
      BY <1>k, <2>1, <2>2, <3>2 DEF PassedOver, Gone, Overtaken
  <2>4. CASE ~ XRead
    <3>1. pos' = pos
      BY <1>3, <2>4 DEF Feed, Gateway, Browser, HelloArrives, HelloTimesOut, XReadFails,
           Connect, ConnectFails, ReceiveEvent, ReceiveClose, Drop, Eof, OpenAgain, gateway
    <3>2. QED
      BY <1>k, <1>3, <2>1, <2>2, <3>1 DEF PassedOver, Gone, Overtaken
  <2>5. QED
    BY <2>3, <2>4
<1>4. session' # "tail" => ToBeSent' /\ PassedOver'
  BY DEF ToBeSent, PassedOver
<1>5. QED
  BY <1>k, <1>1, <1>2, <1>3, <1>4
\* An entry that the filter drops was shown, or was overtaken, or stands before
\* one that was shown.
LEMMA FilteredIsExcused ==
  ASSUME IInv, Forward, ~ Unseen(stream[pos + 1])
  PROVE  Gone(pos + 1) \/ \E n \in 1..Len(Sent) : Sent[n] = stream[pos + 1]
<1> USE DEF IInv
<1> DEFINE i == pos + 1
<1>1. i \in 1..Len(stream) /\ session = "tail" /\ Streams(stream, floor)
  BY ForwardKinds, BusFacts
<1>2. /\ stream[i] \in Entry /\ stream[i].seq \in Nat /\ stream[i].seq > 0
      /\ stream[i].seq <= from /\ from \in Nat
  <2>1. stream[i] \in Entry /\ from \in Nat
    BY <1>1, EntryFacts DEF Streams, TypeOK
  <2>2. stream[i].seq \in Nat /\ stream[i].seq > 0
    BY <2>1, EntryFacts
  <2>3. ~ (stream[i].seq > from)
    BY DEF Unseen
  <2>4. QED
    BY <2>1, <2>2, <2>3
<1>3. PICK n \in 1..Len(shown) : shown[n].seq = from
  BY <1>1, <1>2 DEF Largest
<1>4. n \in 1..Len(Sent) /\ Sent[n] = shown[n] /\ shown[n] \in Entry
  BY SentType DEF TypeOK
<1>5. PICK j \in 1..Len(stream) : Sent[n] = stream[j]
  BY <1>4, EntryFacts DEF FromStream
<1>6. stream[j].seq = from
  BY <1>3, <1>4, <1>5
<1> HIDE DEF i
<1>7. i \in Nat /\ j \in Nat
  BY <1>1, <1>5
<1>8. CASE i = j
  BY <1>4, <1>5, <1>8 DEF i
<1>9. CASE j < i
  <2>1. stream[j].seq # stream[i].seq
    BY <1>1, <1>7, <1>9 DEF Streams
  <2>2. stream[j].seq > stream[i].seq
    BY <1>2, <1>6, <2>1 DEF i
  <2>3. j \in 1..(i - 1) /\ i <= Len(stream)
    BY <1>1, <1>5, <1>7, <1>9
  <2>4. Overtaken(i)
    BY <2>2, <2>3 DEF Overtaken
  <2>5. QED
    BY <2>4 DEF Gone, i
<1>10. CASE i < j
  <2>1. i \in 1..(j - 1)
    BY <1>1, <1>7, <1>10
  <2>2. Gone(i) \/ \E m \in 1..(n - 1) : Sent[m] = stream[i]
    BY <1>4, <1>5, <2>1 DEF Closed
  <2>3. 1..(n - 1) \subseteq 1..Len(Sent)
    BY <1>4, SentType
  <2>4. QED
    BY <2>2, <2>3 DEF i
<1>11. QED
  BY <1>7, <1>8, <1>9, <1>10

LEMMA SkipStep ==
  ASSUME IInv, Forward, UNCHANGED busVars, ~ Unseen(stream[pos + 1])
  PROVE  (FromStream /\ SentOnce /\ ToBeSent /\ Closed /\ PassedOver)'
<1> USE DEF IInv
<1>1. /\ pos' = pos + 1 /\ late' = late /\ from' = from /\ Sent' = Sent
      /\ session = "tail" /\ UNCHANGED <<stream, floor>> /\ pos \in Nat
  BY ForwardKinds DEF busVars, TypeOK
<1>2. Keeps
  BY <1>1, SentType DEF Keeps
<1>3. FromStream' /\ SentOnce' /\ Closed'
  BY <1>1, <1>2, KeepsStep
<1>4. ToBeSent'
  <2>1. SUFFICES ASSUME ~ late', NEW k \in (pos' + 1)..Len(stream), stream[k].seq > from,
                        NEW n \in 1..Len(Sent)
                 PROVE  Sent[n] # stream[k]
    BY <1>1 DEF ToBeSent, Unseen
  <2>2. ~ late /\ k \in (pos + 1)..Len(stream)
    BY <1>1, <2>1
  <2>3. QED
    BY <1>1, <2>1, <2>2 DEF ToBeSent, Unseen
<1>5. PassedOver'
  <2>1. ASSUME NEW i \in 1..pos'
        PROVE  Gone(i) \/ \E n \in 1..Len(Sent) : Sent[n] = stream[i]
    <3>1. i \in 1..pos \/ i = pos + 1
      BY <1>1
    <3>2. QED
      BY <1>1, <3>1, FilteredIsExcused DEF PassedOver
  <2>2. QED
    BY <1>1, <2>1 DEF PassedOver, Gone, Overtaken
<1>6. QED
  BY <1>3, <1>4, <1>5

LEMMA SendStep ==
  ASSUME IInv, Forward, UNCHANGED busVars, Unseen(stream[pos + 1])
  PROVE  (FromStream /\ SentOnce /\ ToBeSent /\ Closed /\ PassedOver)'
<1> USE DEF IInv
<1> DEFINE i == pos + 1
           l == Len(Sent)
<1>1. /\ pos' = i /\ late' = late /\ from' = from /\ session = "tail"
      /\ UNCHANGED <<stream, floor>> /\ pos \in Nat
      /\ i \in 1..Len(stream) /\ stream[i] \in Entry /\ Unseen(stream[i])
  BY ForwardKinds DEF busVars, TypeOK
<1>2. /\ Len(Sent') \in {l + 1, l + 2} /\ l \in Nat
      /\ \A n \in 1..l : Sent'[n] = Sent[n]
      /\ Sent'[l + 1] = stream[i]
      /\ Len(Sent') = l + 2 => session' = "none" /\ Sent'[l + 2] = CloseFrame
  <2>1. Sends
    BY ForwardKinds, SentType DEF Sends, Frame
  <2>2. QED
    BY <2>1, SentType DEF Sends
<1>3. \A n \in 1..Len(Sent') : n \in 1..l \/ n = l + 1 \/ (n = l + 2 /\ Len(Sent') = l + 2)
  BY <1>2
<1>4. 1..l \subseteq 1..Len(Sent') /\ l + 1 \in 1..Len(Sent') /\ l + 1 \notin 1..l
  BY <1>2
<1>5. Streams(stream, floor) /\ stream[i] # CloseFrame
  BY <1>1, BusFacts, EntryFacts
<1> HIDE DEF i, l
<1>c. \A n \in 1..l : Sent[n] # CloseFrame
  <2>1. TAKE n \in 1..l
  <2>2. /\ n \in 1..(Len(shown) + Len(wire)) /\ Len(shown) \in Nat /\ Len(wire) \in Nat
        /\ shown \in Seq(Entry) /\ wire \in Seq(Frame)
    BY SentType DEF l, TypeOK, Frame
  <2>3. CASE n <= Len(shown)
    <3>1. Sent[n] = shown[n] /\ shown[n] \in Entry
      BY <2>2, <2>3, SentType
    <3>2. QED
      BY <3>1, EntryFacts
  <2>4. CASE n > Len(shown)
    <3> DEFINE w == n - Len(shown)
    <3>1. w \in 1..Len(wire) /\ n = Len(shown) + w
      BY <2>2, <2>4
    <3>2. Sent[n] = wire[w]
      BY <2>2, <3>1, SentFacts DEF Sent
    <3>3. QED
      BY <1>1, <3>1, <3>2 DEF Sessions
  <2>5. QED
    BY <2>2, <2>3, <2>4
<1>6. FromStream'
  <2>1. \A n \in 1..l : Sent'[n] = CloseFrame \/ \E k \in 1..Len(stream) : Sent'[n] = stream[k]
    BY <1>2 DEF FromStream, l
  <2>2. QED
    BY <1>1, <1>2, <1>3, <2>1 DEF FromStream, CloseFrame
<1>7. SentOnce'
  <2>1. SUFFICES ASSUME ~ late PROVE \A m, n \in 1..Len(Sent') : m # n => Sent'[m] # Sent'[n]
    BY <1>1 DEF SentOnce
  <2>2. \A m, n \in 1..l : m # n => Sent[m] # Sent[n]
    BY <2>1 DEF SentOnce, l
  <2>3. i \in (pos + 1)..Len(stream)
    BY <1>1 DEF i
  <2>4. \A n \in 1..l : Sent[n] # stream[i]
    BY <1>1, <2>1, <2>3 DEF ToBeSent, l
  <2>5. ASSUME NEW m \in 1..Len(Sent'), NEW n \in 1..Len(Sent'), m # n
        PROVE  Sent'[m] # Sent'[n]
    <3>1. CASE m \in 1..l /\ n \in 1..l
      BY <1>2, <2>2, <2>5, <3>1
    <3>2. CASE m = l + 1 /\ n \in 1..l
      BY <1>2, <2>4, <3>2
    <3>3. CASE n = l + 1 /\ m \in 1..l
      BY <1>2, <2>4, <3>3
    <3>4. CASE n = l + 2 /\ Len(Sent') = l + 2
      <4>1. m \in 1..l \/ m = l + 1
        BY <1>3, <2>5, <3>4
      <4>2. QED
        BY <1>2, <1>5, <1>c, <3>4, <4>1
    <3>5. CASE m = l + 2 /\ Len(Sent') = l + 2
      <4>1. n \in 1..l \/ n = l + 1
        BY <1>3, <2>5, <3>5
      <4>2. QED
        BY <1>2, <1>5, <1>c, <3>5, <4>1
    <3>6. QED
      BY <1>3, <2>5, <3>1, <3>2, <3>3, <3>4, <3>5
  <2>6. QED
    BY <2>5
<1>8. ToBeSent'
  <2>1. SUFFICES ASSUME ~ late, session' = "tail", NEW k \in (i + 1)..Len(stream),
                        stream[k].seq > from, NEW n \in 1..Len(Sent')
                 PROVE  Sent'[n] # stream[k]
    BY <1>1 DEF ToBeSent, Unseen
  <2>2. k \in (pos + 1)..Len(stream) /\ k \in 1..Len(stream) /\ k # i
    BY <1>1, <2>1 DEF i
  <2>3. n \in 1..l \/ n = l + 1
    BY <1>2, <1>3, <2>1
  <2>4. CASE n \in 1..l
    BY <1>1, <1>2, <2>1, <2>2, <2>4 DEF ToBeSent, Unseen, l
  <2>5. CASE n = l + 1
    BY <1>1, <1>2, <1>5, <2>2, <2>5 DEF Streams
  <2>6. QED
    BY <2>3, <2>4, <2>5
<1>9. Closed'
  <2>1. SUFFICES ASSUME NEW n \in 1..Len(Sent'), NEW j \in 1..Len(stream),
                        Sent'[n] = stream[j], NEW h \in 1..(j - 1), ~ Gone(h)
                 PROVE \E m \in 1..(n - 1) : Sent'[m] = stream[h]
    BY <1>1 DEF Closed, Gone, Overtaken
  <2>2. CASE n \in 1..l
    <3>1. PICK m \in 1..(n - 1) : Sent[m] = stream[h]
      BY <1>2, <2>1, <2>2 DEF Closed, l
    <3>2. m \in 1..l
      BY <1>2, <2>2
    <3>3. QED
      BY <1>2, <3>1, <3>2
  <2>3. CASE n = l + 1
    <3>1. stream[i] = stream[j]
      BY <1>2, <2>1, <2>3
    <3>2. i = j
      BY <1>1, <1>5, <3>1 DEF Streams
    <3>3. h \in 1..pos
      BY <1>1, <3>2 DEF i
    <3>4. PICK m \in 1..l : Sent[m] = stream[h]
      BY <1>1, <2>1, <3>3 DEF PassedOver, l
    <3>5. m \in 1..(n - 1) /\ Sent'[m] = Sent[m]
      BY <1>2, <2>3
    <3>6. QED
      BY <3>4, <3>5
  <2>4. CASE n = l + 2 /\ Len(Sent') = l + 2
    <3>1. stream[j] = CloseFrame /\ stream[j] \in Entry
      BY <1>2, <1>5, <2>1, <2>4 DEF Streams
    <3>2. QED
      BY <3>1, EntryFacts
  <2>5. QED
    BY <1>3, <2>2, <2>3, <2>4
<1>10. PassedOver'
  <2>1. ASSUME NEW h \in 1..i, ~ Gone(h) PROVE \E n \in 1..Len(Sent') : Sent'[n] = stream[h]
    <3>1. CASE h = i
      BY <1>2, <1>4, <3>1
    <3>2. CASE h # i
      <4>1. h \in 1..pos
        BY <1>1, <3>2 DEF i
      <4>2. PICK n \in 1..l : Sent[n] = stream[h]
        BY <1>1, <2>1, <4>1 DEF PassedOver, l
      <4>3. QED
        BY <1>2, <1>4, <4>2
    <3>3. QED
      BY <3>1, <3>2
  <2>2. QED
    BY <1>1, <2>1 DEF PassedOver, Gone, Overtaken
<1>11. QED
  BY <1>6, <1>7, <1>8, <1>9, <1>10
LEMMA FeedStep == ASSUME IInv, Feed PROVE IInv'
<1>1. TypeOK' /\ Sessions' /\ Largest'
  BY TypeStep, SessionsStep, LargestStep DEF IInv
<1>2. BusInv'
  BY DEF IInv, Feed, busVars, BusInv, BusTypeOK, Numbered, SeqUnique
<1>3. (FromStream /\ SentOnce /\ ToBeSent /\ Closed /\ PassedOver)'
  BY OtherStep, SkipStep, SendStep DEF Feed
<1>4. QED
  BY <1>1, <1>2, <1>3 DEF IInv

-----------------------------------------------------------------------------
(* A producer's step: the stream grows under the reader.                   *)

LEMMA ProduceStep == ASSUME IInv, Produce PROVE IInv'
<1> USE DEF IInv
<1>1. BusInv' /\ Grows /\ Streams(stream, floor) /\ Streams(stream', floor')
  <2>1. BusInv' /\ Grows
    BY BusStep DEF Produce
  <2>2. Streams(stream', floor')
    BY <2>1 DEF BusInv, Streams, BusTypeOK, Numbered, SeqUnique
  <2>3. QED
    BY <2>1, <2>2, BusFacts
<1>2. /\ UNCHANGED <<conn, attempts, lastSeq, terminal, shown, late, session, from, pos,
                     batch, wire, faults, loads>>
      /\ Sent' = Sent
  BY DEF Produce, feed, client, gateway, bounds, Sent
<1> DEFINE l == Len(stream)
<1>3. /\ l \in Nat /\ Len(stream') \in {l, l + 1} /\ 1..l \subseteq 1..Len(stream')
      /\ \A i \in 1..l : stream'[i] = stream[i]
      /\ \A i \in 1..Len(stream') : i \in 1..l \/ (i = l + 1 /\ Len(stream') = l + 1)
      /\ floor \in Nat /\ floor' \in Nat /\ floor <= floor'
  BY <1>1 DEF Grows, Streams
<1> HIDE DEF l
<1>4. TypeOK'
  <2>1. batch' \in 0..Len(stream')
    BY <1>2, <1>3 DEF TypeOK, l
  <2>2. QED
    BY <1>2, <2>1 DEF TypeOK
<1>5. Sessions' /\ Largest'
  BY <1>2 DEF Sessions, Largest, CloseFrame
<1>6. FromStream'
  BY <1>2, <1>3 DEF FromStream, CloseFrame, l
<1>7. SentOnce'
  BY <1>2 DEF SentOnce
\* The new entry has a number of its own, so it was not sent.
<1>8. ASSUME Len(stream') = l + 1, NEW n \in 1..Len(Sent) PROVE Sent[n] # stream'[l + 1]
  <2>1. stream'[l + 1] \in Entry
    BY <1>1, <1>3, <1>8 DEF Streams
  <2>2. CASE Sent[n] = CloseFrame
    BY <2>1, <2>2, EntryFacts
  <2>3. CASE \E k \in 1..l : Sent[n] = stream[k]
    <3>1. PICK k \in 1..l : Sent[n] = stream[k]
      BY <2>3
    <3>2. k # l + 1 /\ k \in 1..Len(stream') /\ l + 1 \in 1..Len(stream')
      BY <1>3, <1>8
    <3>3. stream'[k].seq # stream'[l + 1].seq
      BY <1>1, <3>2 DEF Streams
    <3>4. QED
      BY <1>3, <3>1, <3>3
  <2>4. QED
    BY <2>2, <2>3 DEF FromStream, l
<1>9. ToBeSent'
  <2>1. SUFFICES ASSUME ~ late, session = "tail", NEW k \in (pos + 1)..Len(stream'),
                        stream'[k].seq > from, NEW n \in 1..Len(Sent)
                 PROVE  Sent[n] # stream'[k]
    BY <1>2 DEF ToBeSent, Unseen
  <2>2. pos \in Nat /\ k \in 1..Len(stream')
    BY <1>3, <2>1 DEF TypeOK
  <2>3. CASE k \in 1..l
    <3>1. k \in (pos + 1)..l /\ stream'[k] = stream[k]
      BY <1>3, <2>2, <2>3
    <3>2. QED
      BY <2>1, <3>1 DEF ToBeSent, Unseen, l
  <2>4. CASE k = l + 1 /\ Len(stream') = l + 1
    BY <1>8, <2>4
  <2>5. QED
    BY <1>3, <2>2, <2>3, <2>4
<1>10. ASSUME NEW i \in 1..l, Gone(i) PROVE Gone(i)'
  <2>1. CASE i <= floor
    BY <1>3, <2>1 DEF Gone
  <2>2. CASE Overtaken(i)
    <3>1. PICK j \in 1..(i - 1) : stream[j].seq > stream[i].seq
      BY <2>2 DEF Overtaken
    <3>2. j \in 1..l /\ stream'[j] = stream[j] /\ stream'[i] = stream[i] /\ i <= Len(stream')
      BY <1>3
    <3>3. Overtaken(i)'
      BY <3>1, <3>2 DEF Overtaken
    <3>4. QED
      BY <3>3 DEF Gone
  <2>3. QED
    BY <1>10, <2>1, <2>2 DEF Gone
<1>11. Closed'
  <2>1. SUFFICES ASSUME NEW n \in 1..Len(Sent), NEW j \in 1..Len(stream'),
                        Sent[n] = stream'[j], NEW i \in 1..(j - 1), ~ Gone(i)'
                 PROVE \E m \in 1..(n - 1) : Sent[m] = stream'[i]
    BY <1>2 DEF Closed
  <2>2. j \in 1..l
    BY <1>3, <1>8, <2>1
  <2>3. i \in 1..l /\ stream'[i] = stream[i] /\ stream'[j] = stream[j]
    BY <1>3, <2>2
  <2>4. ~ Gone(i)
    BY <1>10, <2>1, <2>3
  <2>5. QED
    BY <2>1, <2>2, <2>3, <2>4 DEF Closed, l
<1>12. PassedOver'
  <2>1. ASSUME session = "tail", NEW i \in 1..pos, ~ Gone(i)'
        PROVE  \E n \in 1..Len(Sent) : Sent[n] = stream'[i]
    <3>1. i \in 1..l /\ stream'[i] = stream[i]
      BY <1>3 DEF TypeOK, l
    <3>2. ~ Gone(i)
      BY <1>10, <2>1, <3>1
    <3>3. QED
      BY <2>1, <3>1, <3>2 DEF PassedOver
  <2>2. QED
    BY <1>2, <2>1 DEF PassedOver
<1>13. QED
  BY <1>1, <1>4, <1>5, <1>6, <1>7, <1>9, <1>11, <1>12

LEMMA RestStep == ASSUME IInv, UNCHANGED vars PROVE IInv'
<1>1. BusInv'
  BY DEF IInv, vars, busVars, BusInv, BusTypeOK, Numbered, SeqUnique
<1>2. Sent' = Sent
  BY DEF vars, feed, client, Sent
<1>3. QED
  BY <1>1, <1>2 DEF IInv, vars, busVars, feed, client, gateway, bounds, TypeOK, Sessions, Largest,
       FromStream, SentOnce, ToBeSent, Closed, PassedOver, Gone, Overtaken, Unseen, CloseFrame

-----------------------------------------------------------------------------
\* The inductive invariant holds for all producers, faults and reconnects.
THEOREM InvHolds == Spec => []IInv
<1>1. IInv /\ [Next]_vars => IInv'
  BY FeedStep, ProduceStep, RestStep DEF Next
<1>2. QED
  BY InitReader, <1>1, PTL DEF Spec

\* The session, the client and what travels between them keep their types; a
\* session never reads beyond the stream (ws_run.rs, ws.ts).
THEOREM TypeCorrect == Spec => []TypeOK
<1>1. IInv => TypeOK
  BY DEF IInv
<1>2. QED
  BY InvHolds, <1>1, PTL

\* Each event reaches the browser once, unless a hello was late, and all of
\* them do but those that rolled off or were overtaken: wherever connections
\* break, and whatever the producers do meanwhile.
THEOREM EventsAreDeliveredOnce == Spec => []DeliveredOnce
<1>1. IInv => NoReplayUnlessLate
  <2> SUFFICES ASSUME IInv, ~ late, NEW i \in 1..Len(shown), NEW j \in 1..Len(shown), i # j
               PROVE  shown[i] # shown[j]
    BY DEF NoReplayUnlessLate
  <2>1. i \in 1..Len(Sent) /\ j \in 1..Len(Sent) /\ Sent[i] = shown[i] /\ Sent[j] = shown[j]
    BY SentType DEF IInv
  <2>2. QED
    BY <2>1 DEF IInv, SentOnce
<1>2. IInv => LossOnlyIfOvertaken
  <2> SUFFICES ASSUME IInv, session = "tail", NEW i \in 1..pos, ~ Gone(i)
               PROVE  Delivered(i)
    BY DEF LossOnlyIfOvertaken, Gone
  <2>1. PICK n \in 1..Len(Sent) : Sent[n] = stream[i]
    BY DEF IInv, PassedOver
  <2>2. i <= Len(stream)
    BY BusFacts DEF IInv, TypeOK, Streams
  <2>3. /\ n \in 1..(Len(shown) + Len(wire)) /\ Len(shown) \in Nat /\ Len(wire) \in Nat
        /\ shown \in Seq(Entry) /\ wire \in Seq(Frame)
    BY SentType DEF IInv, TypeOK, Frame
  <2>4. CASE n <= Len(shown)
    BY <2>1, <2>2, <2>3, <2>4, SentType DEF IInv, Delivered, SeenIn
  <2>5. CASE n > Len(shown)
    <3> DEFINE w == n - Len(shown)
    <3>1. w \in 1..Len(wire) /\ n = Len(shown) + w
      BY <2>3, <2>5
    <3>2. Sent[n] = wire[w]
      BY <2>3, <3>1, SentFacts DEF Sent
    <3>3. QED
      BY <2>1, <2>2, <3>1, <3>2 DEF Delivered, SeenIn
  <2>6. QED
    BY <2>3, <2>4, <2>5
<1>3. IInv => DeliveredOnce
  BY <1>1, <1>2 DEF DeliveredOnce
<1>4. QED
  BY InvHolds, <1>3, PTL

-----------------------------------------------------------------------------
\* The reader only reads (XREAD, ws_run.rs:66-83): with any number of sessions
\* come and gone, the stream and its producers do what they do without one.
THEOREM FeedImplementsBus == Spec => BusSpec
<1>1. Init => BusInit
  BY DEF Init
<1>2. [Next]_vars => [BusNext]_busVars
  BY DEF Next, Feed, Produce, vars
<1>3. QED
  BY <1>1, <1>2, PTL DEF Spec, BusSpec

\* What a session sends is therefore numbered without repetition, and what
\* marks a run's progress is sent in the order of its numbers.
COROLLARY FeedReadsAnOrderedStream == Spec => [](SeqUnique /\ MilestonesInOrder)
BY FeedImplementsBus, SeqsAreUnique, MilestonesAreInOrder, PTL
=============================================================================
