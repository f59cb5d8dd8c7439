---------------------------- MODULE LlmCallProofs ----------------------------
(***************************************************************************)
(* Proofs about LlmCall, for any chain of models and any number of         *)
(* attempts, answers, chunks and failing bookings: the types, an answer    *)
(* that comes from one stream after every model that could be asked was,   *)
(* and an answer that is booked before the agent goes on with it.          *)
(***************************************************************************)
EXTENDS LlmCall, FiniteSetTheorems, WellFoundedInduction, TLAPS

Elems(s) == {s[i] : i \in 1..Len(s)}

\* The text of the current answer, read and unread.
Held == {f \in Elems(parts) \cup Elems(wire) : f.kind = "text"}

\* There is a request left for an agent that still asks, and the handlers of
\* the requests to come have not been called.
RequestsLeft ==
  /\ agent \in {"call", "read", "parse", "output"} => parses < MaxParses
  /\ agent = "call" => req < parses * MaxAttempts + attempt
  /\ agent \in {"read", "parse", "output"} => req > 0
  /\ \A r \in Requests : r > req => gw[r] = "idle"

\* The router's place in the chain.
Places ==
  \A r \in Requests :
    /\ gw[r] = "streaming" => at[r] > 0
    /\ gw[r] \notin {"routing", "streaming"} => at[r] = 0

\* Nothing is sent while the router looks for a model, and one stream fills
\* the response.
OneText ==
  /\ \A f \in Elems(parts) : f.kind = "text"
  /\ \A f, g \in Held : f = g
  /\ agent = "read" /\ gw[req] = "routing" => parts = <<>> /\ wire = <<>>
  /\ agent = "read" /\ gw[req] = "streaming" => \A f \in Held : f = Text(req)

\* The models asked are those of the chain up to the router's place, once each.
AskedInOrder ==
  /\ IsFiniteSet(Asked) /\ Cardinality(Asked) = Len(tried)
  /\ agent = "read" /\ gw[req] = "routing" =>
       /\ \A m \in Asked : \E k \in 1..at[req] : Chain[k] = m
       /\ \A k \in 1..at[req] : Attemptable(k) => Chain[k] \in Asked

\* What an answer of 4xx or 5xx is given for.
Excuse == \/ err \in Errors /\ ~ Retryable(err)
          \/ {Chain[i] : i \in 1..Len(Chain)} \cap Usable \subseteq Asked

Excused == \A f \in Elems(wire) : f.kind \in {"client", "server"} => Excuse

\* How far the booking of a request has come.
BooksInOrder ==
  \A r \in Requests :
    /\ gw[r] \in {"idle", "routing", "streaming"} => r \notin ended
    /\ gw[r] \in {"insert", "update", "incr", "event"} => r \in ended
    /\ gw[r] \in {"update", "incr", "event"} => r \in row
    /\ gw[r] \in {"incr", "event"} => r \in total
    /\ gw[r] = "event" /\ faults = 0 => r \in mirror

\* The response is over, or was.
Answered == \/ agent \in {"parse", "output"}
            \/ agent = "read" /\ \E f \in Elems(wire) : f.kind = "over"

\* The end of the response is sent when the handler is done with the books.
OverIsLast ==
  Answered =>
    /\ gw[req] = "done"
    /\ faults = 0 /\ req \in ended => req \in row \cap total \cap mirror

IInv == /\ TypeOK /\ RequestsLeft /\ Places /\ OneText /\ AskedInOrder /\ Excused
        /\ BooksInOrder /\ OverIsLast

-----------------------------------------------------------------------------
(* Lemmas about numbers, sequences and the chain.                          *)

LEMMA LeastExists ==
  ASSUME NEW S \in SUBSET Nat, S # {}
  PROVE  \E i \in S : \A j \in S : i <= j
<1> DEFINE T == {1..i : i \in S}
<1>1. T # {} /\ T \subseteq FiniteSubsetsOf(Nat)
  <2>1. \A i \in S : IsFiniteSet(1..i) /\ 1..i \subseteq Nat
    <3>1. TAKE i \in S
    <3>2. i \in Int /\ 1 \in Int
      OBVIOUS
    <3>3. IsFiniteSet(1..i)
      BY <3>2, FS_Interval
    <3>4. QED
      BY <3>3
  <2>2. QED
    BY <2>1 DEF FiniteSubsetsOf
<1>2. PICK x \in T : \A y \in T : ~(<<y, x>> \in StrictSubsetOrdering(Nat))
  BY <1>1, WFMin, FS_StrictSubsetOrderingWellFounded
<1>3. PICK i \in S : x = 1..i
  OBVIOUS
<1>4. ASSUME NEW j \in S PROVE i <= j
  <2>1. ~(<<1..j, 1..i>> \in StrictSubsetOrdering(Nat))
    BY <1>2, <1>3
  <2>2. SUFFICES ASSUME j < i PROVE FALSE
    OBVIOUS
  <2>3. 1..j \subseteq 1..i /\ i \in 1..i /\ i \notin 1..j
    BY <2>2
  <2>4. 1..j \in FiniteSubsetsOf(Nat) /\ 1..i \in FiniteSubsetsOf(Nat)
    BY <1>1
  <2>5. QED
    BY <2>1, <2>3, <2>4 DEF StrictSubsetOrdering
<1>5. QED
  BY <1>4

\* All the attempts at one answer fit before the next one's.
LEMMA AttemptsFit ==
  ASSUME NEW p \in Nat, NEW q \in Nat, NEW m \in Nat, p < q
  PROVE  p * m \in Nat /\ q * m \in Nat /\ (p + 1) * m = p * m + m
         /\ p * m + m <= q * m
<1> DEFINE d == q - (p + 1)
<1>1. d \in Nat /\ q = p + 1 + d
  OBVIOUS
<1>2. q * m = p * m + m + d * m
  BY <1>1, Z3
<1>3. d * m \in Nat /\ p * m \in Nat
  BY <1>1, Z3
<1>4. QED
  BY <1>2, <1>3, Z3

\* What was within a bound stays within one that grows.
LEMMA RoomStays ==
  ASSUME NEW n \in Nat, NEW base \in Nat, NEW a \in Nat, NEW b \in Nat,
         n <= base + a, a <= b
  PROVE  /\ n \in 0..(base + b)
         /\ a < b => n < base + b
OBVIOUS

LEMMA RoomGrows ==
  ASSUME NEW n \in Nat, NEW base \in Nat, NEW a \in Nat, NEW b \in Nat,
         NEW m \in Nat, n <= base + a, a <= m, b > 0
  PROVE  n \in 0..(base + m + b) /\ n < base + m + b
OBVIOUS

LEMMA ElemsOfNothing == Elems(<<>>) = {}
BY DEF Elems

LEMMA ElemsOfConcat ==
  ASSUME NEW S, NEW s \in Seq(S), NEW t \in Seq(S)
  PROVE  s \o t \in Seq(S) /\ Elems(s \o t) = Elems(s) \cup Elems(t)
<1>1. /\ s \o t \in Seq(S) /\ Len(s \o t) = Len(s) + Len(t)
      /\ \A i \in 1..Len(s) : (s \o t)[i] = s[i]
      /\ \A i \in 1..Len(t) : (s \o t)[Len(s) + i] = t[i]
  OBVIOUS
<1>2. Len(s) \in Nat /\ Len(t) \in Nat
  OBVIOUS
<1>3. \A i \in 1..(Len(s) + Len(t)) :
        \/ i \in 1..Len(s)
        \/ \E j \in 1..Len(t) : i = Len(s) + j
  <2>1. ASSUME NEW i \in 1..(Len(s) + Len(t)), i \notin 1..Len(s)
        PROVE  i - Len(s) \in 1..Len(t) /\ i = Len(s) + (i - Len(s))
    BY <1>2, <2>1
  <2>2. QED
    BY <2>1
<1>4. \A x \in Elems(s \o t) : x \in Elems(s) \cup Elems(t)
  <2>1. TAKE x \in Elems(s \o t)
  <2>2. PICK i \in 1..(Len(s) + Len(t)) : x = (s \o t)[i]
    BY <1>1 DEF Elems
  <2>3. CASE i \in 1..Len(s)
    BY <1>1, <2>2, <2>3 DEF Elems
  <2>4. CASE \E j \in 1..Len(t) : i = Len(s) + j
    BY <1>1, <2>2, <2>4 DEF Elems
  <2>5. QED
    BY <1>3, <2>3, <2>4
<1>5. \A x \in Elems(s) : x \in Elems(s \o t)
  BY <1>1, <1>2 DEF Elems
<1>6. \A x \in Elems(t) : x \in Elems(s \o t)
  <2>1. \A j \in 1..Len(t) : Len(s) + j \in 1..(Len(s) + Len(t))
    BY <1>2
  <2>2. QED
    BY <1>1, <2>1 DEF Elems
<1>7. QED
  BY <1>1, <1>4, <1>5, <1>6

LEMMA ElemsOfOne ==
  ASSUME NEW x PROVE Elems(<<x>>) = {x}
BY DEF Elems

LEMMA ElemsOfTwo ==
  ASSUME NEW x, NEW y PROVE Elems(<<x, y>>) = {x, y}
<1>1. Len(<<x, y>>) = 2 /\ 1..2 = {1, 2}
  OBVIOUS
<1>2. QED
  BY <1>1 DEF Elems

LEMMA ElemsOfAppend ==
  ASSUME NEW S, NEW s \in Seq(S), NEW x \in S
  PROVE  /\ Append(s, x) \in Seq(S) /\ Len(Append(s, x)) = Len(s) + 1
         /\ Elems(Append(s, x)) = Elems(s) \cup {x}
<1>1. Append(s, x) = s \o <<x>> /\ <<x>> \in Seq(S)
  OBVIOUS
<1>2. Len(Append(s, x)) = Len(s) + 1
  OBVIOUS
<1>3. Elems(s \o <<x>>) = Elems(s) \cup Elems(<<x>>)
  BY <1>1, ElemsOfConcat
<1>4. QED
  BY <1>1, <1>2, <1>3, ElemsOfOne

LEMMA ElemsOfHeadTail ==
  ASSUME NEW S, NEW s \in Seq(S), s # <<>>
  PROVE  /\ Head(s) \in Elems(s) /\ Head(s) \in S
         /\ Tail(s) \in Seq(S) /\ Elems(Tail(s)) \subseteq Elems(s)
<1>1. /\ Len(s) \in Nat /\ Len(s) > 0 /\ Head(s) = s[1]
      /\ Tail(s) \in Seq(S) /\ Len(Tail(s)) = Len(s) - 1
      /\ \A i \in 1..Len(Tail(s)) : Tail(s)[i] = s[i + 1]
  OBVIOUS
<1>2. 1 \in 1..Len(s) /\ s[1] \in S
  BY <1>1
<1>3. \A i \in 1..Len(Tail(s)) : i + 1 \in 1..Len(s)
  BY <1>1
<1>4. QED
  BY <1>1, <1>2, <1>3 DEF Elems

LEMMA ChainFacts ==
  /\ Chain \in Seq(Models) /\ Len(Chain) \in Nat
  /\ \A i \in 1..Len(Chain) : Chain[i] \in Models
<1>1. <<Primary>> \in Seq(Models) /\ Fallback \in Seq(Models)
  BY CallAssumption
<1>2. Chain \in Seq(Models)
  BY <1>1 DEF Chain
<1>3. QED
  BY <1>2

\* The router goes on at the first model that is left.
LEMMA FirstIsLeft ==
  ASSUME TypeOK, NEW r \in Requests, Left(r) # {}
  PROVE  /\ First(Left(r)) \in 1..Len(Chain) /\ First(Left(r)) > at[r]
         /\ Attemptable(First(Left(r)))
         /\ \A k \in 1..Len(Chain) :
              k > at[r] /\ Attemptable(k) => First(Left(r)) <= k
<1>1. Left(r) \in SUBSET Nat
  BY ChainFacts DEF Left
<1>2. \E i \in Left(r) : \A j \in Left(r) : i <= j
  BY <1>1, LeastExists
<1>3. First(Left(r)) \in Left(r) /\ \A j \in Left(r) : First(Left(r)) <= j
  BY <1>2 DEF First
<1>4. QED
  BY <1>3 DEF Left

\* A model with credentials is asked where it stands first in the chain.
LEMMA FirstPlace ==
  ASSUME NEW i \in 1..Len(Chain), Chain[i] \in Usable
  PROVE  \E k \in 1..Len(Chain) : Attemptable(k) /\ Chain[k] = Chain[i]
<1> DEFINE S == {k \in 1..Len(Chain) : Chain[k] = Chain[i]}
<1>1. S \in SUBSET Nat /\ i \in S
  BY ChainFacts
<1>2. PICK k \in S : \A j \in S : k <= j
  BY <1>1, LeastExists
<1>3. k \in 1..Len(Chain) /\ Chain[k] = Chain[i]
  OBVIOUS
<1>4. ~ Repeated(k)
  <2>1. SUFFICES ASSUME NEW j \in 1..(k - 1), Chain[j] = Chain[k] PROVE FALSE
    BY DEF Repeated
  <2>2. j \in 1..Len(Chain) /\ j < k
    BY <1>3, ChainFacts
  <2>3. QED
    BY <1>2, <1>3, <2>1, <2>2
<1>5. QED
  BY <1>3, <1>4 DEF Attemptable

LEMMA FramesFacts ==
  /\ \A k \in {"client", "server", "error", "over"} :
       Frame(k) \in Frames /\ Frame(k).kind = k
  /\ \A e : Frame(StatusOf(e)) \in Frames
            /\ Frame(StatusOf(e)).kind \in {"client", "server"}
BY DEF Frames, Frame, StatusOf

LEMMA TextFacts ==
  ASSUME TypeOK, NEW r \in Requests, at[r] > 0
  PROVE  Text(r) \in Frames /\ Text(r).kind = "text"
<1>1. at[r] \in 1..Len(Chain)
  BY ChainFacts DEF TypeOK
<1>2. Chain[at[r]] \in Models
  BY <1>1, ChainFacts
<1>3. QED
  BY <1>2 DEF Text, Frames

\* The current request, and the next one, are within the bound.
LEMMA RequestInRange ==
  ASSUME TypeOK, RequestsLeft
  PROVE  /\ agent \in {"read", "parse", "output"} => req \in Requests
         /\ agent = "call" => req + 1 \in Requests
<1>1. /\ MaxParses \in Nat /\ MaxAttempts \in Nat /\ parses \in Nat
      /\ attempt \in Nat /\ attempt <= MaxAttempts /\ req \in Nat
  BY CallAssumption DEF TypeOK
<1>2. SUFFICES ASSUME agent \in {"call", "read", "parse", "output"}
      PROVE  /\ agent \in {"read", "parse", "output"} => req \in Requests
             /\ agent = "call" => req + 1 \in Requests
  OBVIOUS
<1>3. parses < MaxParses
  BY <1>2 DEF RequestsLeft
<1>4. /\ parses * MaxAttempts \in Nat /\ MaxParses * MaxAttempts \in Nat
      /\ parses * MaxAttempts + MaxAttempts <= MaxParses * MaxAttempts
  BY <1>1, <1>3, AttemptsFit
<1>5. req <= parses * MaxAttempts + attempt
  BY <1>1, <1>4 DEF TypeOK
<1>6. CASE agent = "call"
  <2>1. req < parses * MaxAttempts + attempt
    BY <1>6 DEF RequestsLeft
  <2>2. req + 1 \in Requests
    BY <1>1, <1>4, <2>1 DEF Requests
  <2>3. QED
    BY <1>6, <2>2
<1>7. CASE agent \in {"read", "parse", "output"}
  <2>1. req > 0
    BY <1>7 DEF RequestsLeft
  <2>2. QED
    BY <1>1, <1>4, <1>5, <1>7, <2>1 DEF Requests
<1>8. QED
  BY <1>2, <1>6, <1>7

-----------------------------------------------------------------------------
(* What the steps of the worker and of the gateway share.                  *)

LEMMA ReadsFacts ==
  ASSUME TypeOK, NEW kind, Reads(kind)
  PROVE  /\ agent = "read" /\ wire # <<>>
         /\ Head(wire) \in Elems(wire) /\ Head(wire) \in Frames
         /\ Head(wire).kind = kind
         /\ wire' = Tail(wire) /\ wire' \in Seq(Frames)
         /\ Elems(wire') \subseteq Elems(wire)
         /\ UNCHANGED <<parses, req, gw, at, err, tried, ended, row, total,
                        mirror, faults>>
<1>1. wire \in Seq(Frames) /\ wire # <<>>
  BY DEF TypeOK, Reads
<1>2. QED
  BY <1>1, ElemsOfHeadTail DEF Reads, ByWorker, routeVars, bookVars

\* What a step of the worker leaves alone.
HandlersWait == UNCHANGED <<req, gw, at, err, tried, ended, row, total, mirror, faults>>

LEMMA TryAgainFacts ==
  ASSUME TypeOK, RequestsLeft, agent \in {"call", "read"}, TryAgain
  PROVE  /\ agent' \in {"call", "failed"} /\ attempt' \in 1..MaxAttempts
         /\ agent' = "call" => attempt' = attempt + 1
         /\ attempt' >= attempt
BY CallAssumption DEF TryAgain, TypeOK

\* A step of the worker other than its next request.
LEMMA WorkerFacts ==
  ASSUME TypeOK, RequestsLeft, Read \/ Parse \/ TransportFails \/ TransportRaises
  PROVE  /\ HandlersWait
         /\ wire' \in Seq(Frames) /\ Elems(wire') \subseteq Elems(wire)
         /\ parts' \in Seq(Frames)
         /\ \/ parts' = parts
            \/ /\ wire # <<>>
               /\ Elems(parts') \subseteq
                    Elems(parts) \cup {f \in Elems(wire) : f.kind = "text"}
         /\ agent' = "read" => agent = "read" /\ (wire = <<>> => wire' = <<>>)
         /\ agent' \in {"parse", "output"} => Answered
         /\ agent' \in {"call", "read", "parse", "output", "unparseable",
                        "failed", "raised"}
         /\ \/ /\ parses' = parses /\ attempt' \in 1..MaxAttempts
               /\ attempt' >= attempt
               /\ agent' = "call" =>
                    agent \in {"call", "read"} /\ attempt' = attempt + 1
               /\ agent' \in {"read", "parse", "output"} => agent \in {"read", "parse"}
            \/ /\ agent = "parse" /\ parses' = parses + 1
               /\ agent' = "call" => parses' < MaxParses /\ attempt' = 1
               /\ agent' \in {"call", "unparseable"}
               /\ agent' = "unparseable" => attempt' = attempt
<1> USE DEF HandlersWait
<1>1. wire \in Seq(Frames) /\ parts \in Seq(Frames) /\ attempt \in 1..MaxAttempts
      /\ parses \in Nat /\ MaxAttempts \in Nat
  BY CallAssumption DEF TypeOK
<1>2. CASE TransportFails
  <2>1. /\ agent \in {"call", "read"} /\ TryAgain /\ wire' = <<>>
        /\ UNCHANGED <<parses, parts>> /\ HandlersWait
    BY <1>2 DEF TransportFails, ByWorker, routeVars, bookVars
  <2>2. wire' \in Seq(Frames) /\ Elems(wire') = {}
    BY <2>1, ElemsOfNothing
  <2>3. QED
    BY <1>1, <2>1, <2>2, TryAgainFacts
<1>3. CASE TransportRaises
  <2>1. /\ agent' = "raised" /\ wire' = <<>>
        /\ UNCHANGED <<parses, parts, attempt>> /\ HandlersWait
    BY <1>3 DEF TransportRaises, ByWorker, routeVars, bookVars
  <2>2. wire' \in Seq(Frames) /\ Elems(wire') = {}
    BY <2>1, ElemsOfNothing
  <2>3. QED
    BY <1>1, <2>1, <2>2
<1>4. CASE ReadClientError
  BY <1>1, <1>4, ReadsFacts DEF ReadClientError
<1>5. CASE ReadServerError
  <2>1. TryAgain /\ Reads("server") /\ UNCHANGED parts
    BY <1>5 DEF ReadServerError
  <2>2. agent = "read"
    BY <2>1, ReadsFacts
  <2>3. QED
    BY <1>1, <2>1, <2>2, ReadsFacts, TryAgainFacts
<1>6. CASE ReadText
  <2>1. Reads("text") /\ parts' = Append(parts, Head(wire)) /\ UNCHANGED <<agent, attempt>>
    BY <1>6 DEF ReadText
  <2>2. /\ agent = "read" /\ wire # <<>> /\ Head(wire) \in Elems(wire)
        /\ Head(wire) \in Frames /\ Head(wire).kind = "text"
    BY <2>1, ReadsFacts
  <2>3. parts' \in Seq(Frames) /\ Elems(parts') = Elems(parts) \cup {Head(wire)}
    BY <1>1, <2>1, <2>2, ElemsOfAppend
  <2>4. QED
    BY <1>1, <2>1, <2>2, <2>3, ReadsFacts
<1>7. CASE ReadErrorEvent
  BY <1>1, <1>7, ReadsFacts DEF ReadErrorEvent
<1>8. CASE ReadOver
  <2>1. Reads("over") /\ UNCHANGED parts
        /\ \/ TryAgain
           \/ agent' = "parse" /\ UNCHANGED attempt
    BY <1>8 DEF ReadOver
  <2>2. /\ agent = "read" /\ wire # <<>> /\ Head(wire) \in Elems(wire)
        /\ Head(wire).kind = "over"
    BY <2>1, ReadsFacts
  <2>3. Answered
    BY <2>2 DEF Answered
  <2>4. QED
    BY <1>1, <2>1, <2>2, <2>3, ReadsFacts, TryAgainFacts
<1>9. CASE Parse
  <2>1. /\ agent = "parse" /\ UNCHANGED <<wire, parts>> /\ HandlersWait
        /\ \/ agent' = "output" /\ UNCHANGED <<parses, attempt>>
           \/ /\ parses' = parses + 1
              /\ \/ parses' < MaxParses /\ agent' = "call" /\ attempt' = 1
                 \/ agent' = "unparseable" /\ UNCHANGED attempt
    BY <1>9 DEF Parse, ByWorker, routeVars, bookVars
  <2>2. Answered
    BY <2>1 DEF Answered
  <2>3. QED
    BY <1>1, <2>1, <2>2
<1>10. QED
  BY <1>2, <1>3, <1>4, <1>5, <1>6, <1>7, <1>8, <1>9 DEF Read

LEMMA SendFacts ==
  ASSUME TypeOK, NEW r, NEW fs \in Seq(Frames), Send(r, fs)
  PROVE  /\ wire' \in Seq(Frames)
         /\ Current(r) => Elems(wire') = Elems(wire) \cup Elems(fs)
         /\ ~ Current(r) => wire' = wire
<1>1. wire \in Seq(Frames)
  BY DEF TypeOK
<1>2. QED
  BY <1>1, ElemsOfConcat DEF Send

LEMMA AskFacts ==
  ASSUME TypeOK, NEW r \in Requests, Ask(r)
  PROVE  LET i == First(Left(r)) IN
         /\ gw[r] = "routing" /\ UNCHANGED <<workerVars, ended, bookVars>>
         /\ i \in 1..Len(Chain) /\ i > at[r] /\ Attemptable(i) /\ Chain[i] \in Models
         /\ \A k \in 1..i : k > at[r] /\ Attemptable(k) => k = i
         /\ tried' \in Seq(Models)
         /\ Current(r) => /\ Len(tried') = Len(tried) + 1
                          /\ Elems(tried') = Elems(tried) \cup {Chain[i]}
         /\ ~ Current(r) => tried' = tried
<1> DEFINE i == First(Left(r))
<1>1. Left(r) # {} /\ gw[r] = "routing" /\ UNCHANGED <<workerVars, ended, bookVars>>
      /\ tried' = IF Current(r) THEN Append(tried, Chain[i]) ELSE tried
  BY DEF Ask
<1>2. /\ i \in 1..Len(Chain) /\ i > at[r] /\ Attemptable(i)
      /\ \A k \in 1..Len(Chain) : k > at[r] /\ Attemptable(k) => i <= k
  BY <1>1, FirstIsLeft
<1>3. Chain[i] \in Models
  BY <1>2, ChainFacts
<1>4. tried \in Seq(Models)
  BY DEF TypeOK
<1>5. /\ Append(tried, Chain[i]) \in Seq(Models)
      /\ Len(Append(tried, Chain[i])) = Len(tried) + 1
      /\ Elems(Append(tried, Chain[i])) = Elems(tried) \cup {Chain[i]}
  BY <1>3, <1>4, ElemsOfAppend
<1>6. \A k \in 1..i : k > at[r] /\ Attemptable(k) => k = i
  BY <1>2, ChainFacts
<1>7. QED
  BY <1>1, <1>2, <1>3, <1>4, <1>5, <1>6

Phases == {"idle", "routing", "streaming", "insert", "update", "incr", "event",
           "done"}

Handles(r) == Handle(r) \/ Forward(r) \/ BookingFails(r) \/ Abandon(r)

\* A step of one handler.
LEMMA HandlerFacts ==
  ASSUME TypeOK, Places, NEW r \in Requests, Handles(r)
  PROVE  /\ UNCHANGED workerVars
         /\ gw[r] \notin {"idle", "done"} /\ gw'[r] # "idle"
         /\ gw' \in [Requests -> Phases] /\ at' \in [Requests -> 0..Len(Chain)]
         /\ \A q \in Requests : q # r => gw'[q] = gw[q] /\ at'[q] = at[q]
         /\ gw'[r] = "streaming" => at'[r] > 0
         /\ gw'[r] \notin {"routing", "streaming"} => at'[r] = 0
         /\ wire' \in Seq(Frames) /\ tried' \in Seq(Models)
         /\ err' \in Errors \cup {"none"}
         /\ ~ Current(r) => UNCHANGED <<wire, err, tried>>
<1>1. /\ wire \in Seq(Frames) /\ tried \in Seq(Models) /\ err \in Errors \cup {"none"}
      /\ gw \in [Requests -> Phases] /\ at \in [Requests -> 0..Len(Chain)]
      /\ Len(Chain) \in Nat
  BY ChainFacts DEF TypeOK, Phases
<1>2. /\ gw[r] = "streaming" => at[r] > 0
      /\ gw[r] \notin {"routing", "streaming"} => at[r] = 0
  BY DEF Places
<1>3. ASSUME NEW phase \in Phases, Moves(r, phase)
      PROVE  /\ gw' \in [Requests -> Phases] /\ gw'[r] = phase
             /\ \A q \in Requests : q # r => gw'[q] = gw[q]
  BY <1>1, <1>3 DEF Moves
<1>4. ASSUME NEW phase \in Phases, Leaves(r, phase)
      PROVE  /\ gw' \in [Requests -> Phases] /\ gw'[r] = phase
             /\ at' \in [Requests -> 0..Len(Chain)] /\ at'[r] = 0
             /\ \A q \in Requests : q # r => gw'[q] = gw[q] /\ at'[q] = at[q]
  BY <1>1, <1>4 DEF Leaves, Moves
<1>5. ASSUME NEW i \in 1..Len(Chain), at' = [at EXCEPT ![r] = i]
      PROVE  /\ at' \in [Requests -> 0..Len(Chain)] /\ at'[r] > 0
             /\ \A q \in Requests : q # r => at'[q] = at[q]
  BY <1>1, <1>5
<1>6. "done" \in Phases /\ "insert" \in Phases /\ "streaming" \in Phases
      /\ "update" \in Phases /\ "incr" \in Phases /\ "event" \in Phases
  BY DEF Phases
<1>7. CASE UpstreamOpens(r)
  <2>1. /\ Ask(r) /\ at' = [at EXCEPT ![r] = First(Left(r))]
        /\ Moves(r, "streaming") /\ UNCHANGED <<err, wire>>
    BY <1>7 DEF UpstreamOpens
  <2>2. QED
    BY <1>1, <1>3, <1>5, <1>6, <2>1, AskFacts
<1>8. CASE UpstreamFails(r)
  <2>1. PICK e \in Errors :
          /\ err' = IF Current(r) THEN e ELSE err
          /\ IF Retryable(e)
             THEN at' = [at EXCEPT ![r] = First(Left(r))] /\ UNCHANGED <<gw, wire>>
             ELSE Leaves(r, "done") /\ Send(r, <<Frame(StatusOf(e))>>)
    BY <1>8 DEF UpstreamFails
  <2>2. Ask(r)
    BY <1>8 DEF UpstreamFails
  <2>3. CASE Retryable(e)
    BY <1>1, <1>5, <2>1, <2>2, <2>3, AskFacts
  <2>4. CASE ~ Retryable(e)
    <3>1. <<Frame(StatusOf(e))>> \in Seq(Frames)
      BY FramesFacts
    <3>2. Leaves(r, "done") /\ Send(r, <<Frame(StatusOf(e))>>)
      BY <2>1, <2>4
    <3>3. wire' \in Seq(Frames) /\ (~ Current(r) => wire' = wire)
      BY <3>1, <3>2, SendFacts
    <3>4. QED
      BY <1>1, <1>4, <1>6, <2>1, <2>2, <3>2, <3>3, AskFacts
  <2>5. QED
    BY <2>3, <2>4
<1>9. CASE ChainEnds(r)
  <2>1. <<Frame(StatusOf(err))>> \in Seq(Frames)
    BY FramesFacts
  <2>2. /\ gw[r] = "routing" /\ Leaves(r, "done") /\ Send(r, <<Frame(StatusOf(err))>>)
        /\ UNCHANGED <<workerVars, err, tried>>
    BY <1>9 DEF ChainEnds, histVars
  <2>3. wire' \in Seq(Frames) /\ (~ Current(r) => wire' = wire)
    BY <2>1, <2>2, SendFacts
  <2>4. QED
    BY <1>1, <1>4, <1>6, <2>2, <2>3
<1>10. CASE Forward(r)
  <2>1. /\ gw[r] = "streaming" /\ Send(r, <<Text(r)>>)
        /\ UNCHANGED <<workerVars, gw, at, err, tried>>
    BY <1>10 DEF Forward, routeVars
  <2>2. <<Text(r)>> \in Seq(Frames)
    BY <1>2, <2>1, TextFacts
  <2>3. wire' \in Seq(Frames) /\ (~ Current(r) => wire' = wire)
    BY <2>1, <2>2, SendFacts
  <2>4. QED
    BY <1>1, <1>2, <2>1, <2>3
<1>11. CASE UpstreamBreaks(r)
  <2>1. <<Frame("error"), Frame("over")>> \in Seq(Frames)
    <3>1. Frame("error") \in Frames /\ Frame("over") \in Frames
      BY FramesFacts
    <3>2. QED
      BY <3>1
  <2>2. /\ gw[r] = "streaming" /\ Leaves(r, "done")
        /\ Send(r, <<Frame("error"), Frame("over")>>)
        /\ UNCHANGED <<workerVars, err, tried>>
    BY <1>11 DEF UpstreamBreaks, histVars
  <2>3. wire' \in Seq(Frames) /\ (~ Current(r) => wire' = wire)
    BY <2>1, <2>2, SendFacts
  <2>4. QED
    BY <1>1, <1>4, <1>6, <2>2, <2>3
<1>12. CASE UpstreamEnds(r)
  <2>1. /\ gw[r] = "streaming" /\ Leaves(r, "insert")
        /\ UNCHANGED <<workerVars, wire, err, tried>>
    BY <1>12 DEF UpstreamEnds, histVars
  <2>2. QED
    BY <1>1, <1>4, <1>6, <2>1
<1>13. CASE InsertRow(r) \/ UpdateRun(r) \/ IncrMirror(r)
  <2>1. /\ gw[r] \in {"insert", "update", "incr"}
        /\ Moves(r, "update") \/ Moves(r, "incr") \/ Moves(r, "event")
        /\ UNCHANGED <<workerVars, wire, at, err, tried>>
    BY <1>13 DEF InsertRow, UpdateRun, IncrMirror, Booking, routeVars
  <2>2. PICK phase \in {"update", "incr", "event"} : Moves(r, phase)
    BY <2>1
  <2>3. /\ gw' \in [Requests -> Phases] /\ gw'[r] = phase
        /\ \A q \in Requests : q # r => gw'[q] = gw[q]
    BY <1>3, <1>6, <2>2
  <2>4. QED
    BY <1>1, <1>2, <2>1, <2>3
<1>14. CASE CostEvent(r) \/ BookingFails(r)
  <2>1. /\ gw[r] \in {"insert", "update", "incr", "event"}
        /\ \/ Moves(r, "event") /\ UNCHANGED wire
           \/ Moves(r, "done") /\ Send(r, <<Frame("over")>>)
        /\ UNCHANGED <<workerVars, at, err, tried>>
    BY <1>14 DEF CostEvent, BookingFails, Booking, routeVars
  <2>2. <<Frame("over")>> \in Seq(Frames)
    BY FramesFacts
  <2>3. wire' \in Seq(Frames) /\ (~ Current(r) => wire' = wire)
    BY <1>1, <2>1, <2>2, SendFacts
  <2>4. PICK phase \in {"event", "done"} : Moves(r, phase)
    BY <2>1
  <2>5. /\ gw' \in [Requests -> Phases] /\ gw'[r] = phase
        /\ \A q \in Requests : q # r => gw'[q] = gw[q]
    BY <1>3, <1>6, <2>4
  <2>6. QED
    BY <1>1, <1>2, <2>1, <2>3, <2>5
<1>15. CASE Abandon(r)
  <2>1. /\ gw[r] \notin {"idle", "done"} /\ Leaves(r, "done")
        /\ UNCHANGED <<workerVars, wire, err, tried>>
    BY <1>15 DEF Abandon, histVars
  <2>2. QED
    BY <1>1, <1>4, <1>6, <2>1
<1>16. QED
  BY <1>7, <1>8, <1>9, <1>10, <1>11, <1>12, <1>13, <1>14, <1>15 DEF Handles, Handle, Book

\* The books after a step of one handler.
Books == /\ ended \subseteq Requests
         /\ row \subseteq ended /\ total \subseteq row /\ mirror \subseteq total
         /\ faults \in 0..MaxFaults

LEMMA BooksOfHandler ==
  ASSUME TypeOK, Places, BooksInOrder, NEW r \in Requests, Handles(r)
  PROVE  /\ BooksInOrder' /\ Books'
         /\ row \subseteq row' /\ total \subseteq total' /\ mirror \subseteq mirror'
         /\ faults' = 0 => faults = 0
         /\ ended' \ ended \subseteq {r}
<1> USE DEF BooksInOrder, Books
<1>1. /\ gw \in [Requests -> Phases] /\ Books /\ MaxFaults \in Nat
      /\ gw' \in [Requests -> Phases]
      /\ \A q \in Requests : q # r => gw'[q] = gw[q]
  BY CallAssumption, HandlerFacts DEF TypeOK, Phases
<1>2. \A phase : Moves(r, phase) => gw'[r] = phase
  BY <1>1 DEF Moves
<1>3. CASE /\ gw[r] \in {"routing", "streaming"}
           /\ gw'[r] \in {"routing", "streaming", "done"}
           /\ UNCHANGED <<ended, bookVars>>
  BY <1>1, <1>3 DEF bookVars
<1>4. CASE UpstreamOpens(r) \/ UpstreamFails(r) \/ ChainEnds(r) \/ UpstreamBreaks(r)
           \/ Forward(r)
  <2>1. /\ gw[r] \in {"routing", "streaming"} /\ UNCHANGED <<ended, bookVars>>
        /\ \/ Moves(r, "streaming") \/ Moves(r, "done") \/ gw' = gw
    BY <1>4 DEF UpstreamOpens, UpstreamFails, ChainEnds, UpstreamBreaks, Forward,
                Ask, Leaves
  <2>2. gw'[r] \in {"routing", "streaming", "done"}
    BY <1>2, <2>1
  <2>3. QED
    BY <1>3, <2>1, <2>2
<1>5. CASE UpstreamEnds(r)
  <2>1. /\ Moves(r, "insert") /\ ended' = ended \cup {r} /\ UNCHANGED bookVars
    BY <1>5 DEF UpstreamEnds, Leaves
  <2>2. gw'[r] = "insert"
    BY <1>2, <2>1
  <2>3. QED
    BY <1>1, <2>1, <2>2 DEF bookVars
<1>6. CASE InsertRow(r)
  <2>1. /\ gw[r] = "insert" /\ Moves(r, "update") /\ row' = row \cup {r}
        /\ UNCHANGED <<ended, total, mirror, faults>>
    BY <1>6 DEF InsertRow, Booking
  <2>2. gw'[r] = "update"
    BY <1>2, <2>1
  <2>3. QED
    BY <1>1, <2>1, <2>2
<1>7. CASE UpdateRun(r)
  <2>1. /\ gw[r] = "update" /\ Moves(r, "incr") /\ total' = total \cup {r}
        /\ UNCHANGED <<ended, row, mirror, faults>>
    BY <1>7 DEF UpdateRun, Booking
  <2>2. gw'[r] = "incr"
    BY <1>2, <2>1
  <2>3. QED
    BY <1>1, <2>1, <2>2
<1>8. CASE IncrMirror(r)
  <2>1. /\ gw[r] = "incr" /\ Moves(r, "event") /\ mirror' = mirror \cup {r}
        /\ UNCHANGED <<ended, row, total, faults>>
    BY <1>8 DEF IncrMirror, Booking
  <2>2. gw'[r] = "event"
    BY <1>2, <2>1
  <2>3. QED
    BY <1>1, <2>1, <2>2
<1>9. CASE CostEvent(r)
  <2>1. gw[r] = "event" /\ Moves(r, "done") /\ UNCHANGED <<ended, bookVars>>
    BY <1>9 DEF CostEvent, Booking
  <2>2. gw'[r] = "done"
    BY <1>2, <2>1
  <2>3. QED
    BY <1>1, <2>1, <2>2 DEF bookVars
<1>10. CASE BookingFails(r)
  <2>1. /\ gw[r] \in {"insert", "update", "incr", "event"}
        /\ faults < MaxFaults /\ faults' = faults + 1
        /\ UNCHANGED <<ended, row, total, mirror>>
        /\ \/ gw[r] = "incr" /\ Moves(r, "event")
           \/ Moves(r, "done")
    BY <1>10 DEF BookingFails, Booking
  <2>2. \/ gw'[r] = "done"
        \/ gw[r] = "incr" /\ gw'[r] = "event"
    BY <1>2, <2>1
  <2>3. faults' \in 0..MaxFaults /\ faults' # 0
    BY <1>1, <2>1
  <2>4. QED
    BY <1>1, <2>1, <2>2, <2>3
<1>11. CASE Abandon(r)
  <2>1. Moves(r, "done") /\ UNCHANGED <<ended, bookVars>>
    BY <1>11 DEF Abandon, Leaves
  <2>2. gw'[r] = "done"
    BY <1>2, <2>1
  <2>3. QED
    BY <1>1, <2>1, <2>2 DEF bookVars
<1>12. QED
  BY <1>4, <1>5, <1>6, <1>7, <1>8, <1>9, <1>10, <1>11 DEF Handles, Handle, Book

\* The next request, that nothing has been done for yet.
LEMMA ConnectFacts ==
  ASSUME TypeOK, RequestsLeft, Places, Connect
  PROVE  /\ agent = "call" /\ agent' = "read" /\ req' = req + 1
         /\ req' \in Requests /\ req' > 0
         /\ parts' = <<>> /\ wire' = <<>> /\ err' = "none" /\ tried' = <<>>
         /\ gw[req'] = "idle" /\ at[req'] = 0
         /\ gw' = [gw EXCEPT ![req'] = "routing"]
         /\ UNCHANGED <<parses, attempt, at, ended, row, total, mirror, faults>>
<1>1. agent = "call" /\ req' = req + 1 /\ req \in Nat
  <2>1. CallAssumption!1 /\ parses \in Nat /\ attempt \in Nat
    BY CallAssumption DEF TypeOK
  <2>2. QED
    BY <2>1 DEF Connect, NewRequest, TypeOK
<1>2. req' \in Requests
  BY <1>1, RequestInRange
<1>3. gw[req'] = "idle" /\ at[req'] = 0
  BY <1>1, <1>2 DEF RequestsLeft, Places
<1>4. QED
  BY <1>1, <1>2, <1>3 DEF Connect, NewRequest, bookVars

LEMMA NextCases ==
  [Next]_vars => \/ Connect
                 \/ Read \/ Parse \/ TransportFails \/ TransportRaises
                 \/ \E r \in Requests : Handles(r)
                 \/ UNCHANGED vars
BY DEF Next, Agent, Handles

-----------------------------------------------------------------------------
LEMMA TypeStep ==
  ASSUME TypeOK, RequestsLeft, Places, BooksInOrder, [Next]_vars
  PROVE  TypeOK' /\ RequestsLeft' /\ Places' /\ BooksInOrder'
<1>1. /\ MaxParses \in Nat /\ MaxAttempts \in Nat /\ parses \in 0..MaxParses
      /\ attempt \in 1..MaxAttempts /\ req \in Nat
      /\ gw \in [Requests -> Phases] /\ at \in [Requests -> 0..Len(Chain)]
      /\ Requests \subseteq Nat
  <2>1. MaxParses \in Nat /\ MaxAttempts \in Nat
    BY CallAssumption
  <2>2. parses * MaxAttempts \in Nat
    BY <2>1, Z3 DEF TypeOK
  <2>3. QED
    BY <2>1, <2>2 DEF TypeOK, Phases, Requests
<1>2. CASE Connect
  <2>1. /\ gw' \in [Requests -> Phases] /\ gw'[req'] = "routing"
        /\ \A q \in Requests : q # req' => gw'[q] = gw[q]
    BY <1>1, <1>2, ConnectFacts DEF Phases
  <2>2. req' \in 0..(parses' * MaxAttempts + attempt')
    <3>1. parses * MaxAttempts \in Nat
      BY <1>1, Z3
    <3>2. /\ req < parses * MaxAttempts + attempt
          /\ req' = req + 1 /\ parses' = parses /\ attempt' = attempt
      BY <1>2, ConnectFacts DEF RequestsLeft
    <3>3. QED
      BY <1>1, <3>1, <3>2
  <2>3. TypeOK'
    <3>1. parts' \in Seq(Frames) /\ wire' \in Seq(Frames) /\ tried' \in Seq(Models)
      BY <1>2, ConnectFacts
    <3>2. agent' = "read" /\ err' = "none"
          /\ UNCHANGED <<parses, attempt, at, ended, row, total, mirror, faults>>
      BY <1>2, ConnectFacts
    <3>3. QED
      BY <2>1, <2>2, <3>1, <3>2 DEF TypeOK, Phases
  <2>4. RequestsLeft'
    BY <1>1, <1>2, <2>1, ConnectFacts DEF RequestsLeft
  <2>5. Places'
    BY <1>2, <2>1, ConnectFacts DEF Places
  <2>6. BooksInOrder'
    BY <1>2, <2>1, ConnectFacts DEF BooksInOrder
  <2>7. QED
    BY <2>3, <2>4, <2>5, <2>6
<1>3. CASE Read \/ Parse \/ TransportFails \/ TransportRaises
  <2>1. HandlersWait
    BY <1>3, WorkerFacts
  <2>2. attempt' \in 1..MaxAttempts /\ parses' \in 0..MaxParses
    <3>1. agent = "parse" => parses < MaxParses
      BY DEF RequestsLeft
    <3>2. attempt' \in 1..MaxAttempts \/ attempt' = 1 \/ attempt' = attempt
      BY <1>3, WorkerFacts
    <3>3. \/ parses' = parses
          \/ agent = "parse" /\ parses' = parses + 1
      BY <1>3, WorkerFacts
    <3>4. QED
      BY <1>1, <3>1, <3>2, <3>3
  <2>3. /\ req' \in 0..(parses' * MaxAttempts + attempt')
        /\ agent' = "call" => req' < parses' * MaxAttempts + attempt'
    <3>1. parses * MaxAttempts \in Nat
      BY <1>1, Z3
    <3>2. PICK p \in Nat : p = parses * MaxAttempts
      BY <3>1
    <3>3. req <= p + attempt /\ req' = req
      BY <1>1, <2>1, <3>2 DEF TypeOK, HandlersWait
    <3>4. CASE /\ parses' = parses /\ attempt' >= attempt
               /\ agent' = "call" => attempt' = attempt + 1
      <4>1. parses' * MaxAttempts = p
        BY <3>2, <3>4
      <4>2. /\ req' \in 0..(p + attempt')
            /\ agent' = "call" => req' < p + attempt'
        <5>1. attempt \in Nat /\ attempt' \in Nat /\ req' \in Nat
          BY <1>1, <2>2, <3>3
        <5>2. req' <= p + attempt /\ attempt <= attempt'
          BY <1>1, <2>2, <3>3, <3>4
        <5>3. agent' = "call" => attempt < attempt'
          BY <3>4, <5>1
        <5>4. QED
          BY <5>1, <5>2, <5>3, RoomStays
      <4>3. QED
        BY <4>1, <4>2
    <3>5. CASE /\ agent = "parse" /\ parses' = parses + 1
               /\ agent' = "call" => attempt' = 1
      <4>1. (parses + 1) * MaxAttempts = parses * MaxAttempts + MaxAttempts
        <5>1. parses < parses + 1 /\ parses \in Nat /\ parses + 1 \in Nat
          BY <1>1
        <5>2. QED
          BY <1>1, <5>1, AttemptsFit
      <4>2. parses' * MaxAttempts = p + MaxAttempts
        BY <3>2, <3>5, <4>1
      <4>3. /\ req' \in 0..(p + MaxAttempts + attempt')
            /\ agent' = "call" => req' < p + MaxAttempts + attempt'
        <5>1. attempt \in Nat /\ attempt' \in Nat /\ req' \in Nat
          BY <1>1, <2>2, <3>3
        <5>2. req' <= p + attempt /\ attempt <= MaxAttempts /\ attempt' > 0
          BY <1>1, <2>2, <3>3
        <5>3. QED
          BY <1>1, <5>1, <5>2, RoomGrows
      <4>4. QED
        BY <4>2, <4>3
    <3>6. QED
      BY <1>3, <3>4, <3>5, WorkerFacts
  <2>4. TypeOK'
    <3>1. /\ agent' \in {"call", "read", "parse", "output", "unparseable",
                         "failed", "raised"}
          /\ wire' \in Seq(Frames) /\ parts' \in Seq(Frames)
      BY <1>3, WorkerFacts
    <3>2. QED
      BY <2>1, <2>2, <2>3, <3>1 DEF TypeOK, HandlersWait
  <2>5. RequestsLeft'
    <3>1. /\ agent' \in {"call", "read", "parse", "output"} => parses' < MaxParses
          /\ agent' \in {"read", "parse", "output"} => agent \in {"read", "parse"}
      BY <1>3, WorkerFacts DEF RequestsLeft
    <3>2. QED
      BY <2>1, <2>3, <3>1 DEF RequestsLeft, HandlersWait
  <2>6. Places' /\ BooksInOrder'
    BY <2>1 DEF Places, BooksInOrder, HandlersWait
  <2>7. QED
    BY <2>4, <2>5, <2>6
<1>4. CASE \E r \in Requests : Handles(r)
  <2>1. PICK r \in Requests : Handles(r)
    BY <1>4
  <2>2. BooksInOrder' /\ Books'
    BY <2>1, BooksOfHandler
  <2>3. /\ UNCHANGED <<agent, parses, attempt, req, parts>>
        /\ gw' \in [Requests -> Phases] /\ at' \in [Requests -> 0..Len(Chain)]
        /\ wire' \in Seq(Frames) /\ tried' \in Seq(Models)
        /\ err' \in Errors \cup {"none"}
    BY <2>1, HandlerFacts DEF workerVars
  <2>4. TypeOK'
    BY <2>2, <2>3 DEF TypeOK, Books, Phases
  <2>5. /\ gw[r] # "idle" /\ gw'[r] # "idle"
        /\ \A q \in Requests : q # r => gw'[q] = gw[q] /\ at'[q] = at[q]
        /\ gw'[r] = "streaming" => at'[r] > 0
        /\ gw'[r] \notin {"routing", "streaming"} => at'[r] = 0
    BY <2>1, HandlerFacts
  <2>6. RequestsLeft'
    BY <2>3, <2>5 DEF RequestsLeft
  <2>7. Places'
    BY <2>5 DEF Places
  <2>8. QED
    BY <2>2, <2>4, <2>6, <2>7
<1>5. CASE UNCHANGED vars
  BY <1>5 DEF vars, workerVars, routeVars, bookVars, TypeOK, RequestsLeft, Places,
              BooksInOrder
<1>6. QED
  BY <1>2, <1>3, <1>4, <1>5, NextCases

-----------------------------------------------------------------------------
(* The response of the current request.                                    *)

\* What the handler of the current request does to it.
LEMMA SentFacts ==
  ASSUME TypeOK, Places, NEW r \in Requests, Handles(r), Current(r)
  PROVE  \/ /\ Ask(r) /\ wire' = wire
            /\ \/ gw'[r] = "streaming"
               \/ gw'[r] = "routing" /\ at'[r] = First(Left(r))
         \/ /\ gw[r] = "routing" /\ gw'[r] = "done"
            /\ \E f : /\ f.kind \in {"client", "server"}
                      /\ Elems(wire') = Elems(wire) \cup {f}
            /\ \/ Ask(r) /\ err' \in Errors /\ ~ Retryable(err')
               \/ Left(r) = {} /\ UNCHANGED <<err, tried>>
         \/ /\ gw[r] = "streaming" /\ gw'[r] = "streaming" /\ at' = at
            /\ Elems(wire') = Elems(wire) \cup {Text(r)}
            /\ UNCHANGED <<err, tried>>
         \/ /\ gw[r] = "streaming" /\ gw'[r] = "done" /\ UNCHANGED <<err, tried, ended>>
            /\ Elems(wire') = Elems(wire) \cup {Frame("error"), Frame("over")}
         \/ /\ gw'[r] \in {"insert", "update", "incr", "event"} /\ wire' = wire
            /\ UNCHANGED <<err, tried>>
         \/ /\ gw[r] \in {"insert", "update", "incr", "event"} /\ gw'[r] = "done"
            /\ Elems(wire') = Elems(wire) \cup {Frame("over")}
            /\ faults' = 0 => gw[r] = "event" /\ UNCHANGED bookVars
            /\ UNCHANGED <<err, tried, ended>>
<1>1. /\ gw \in [Requests -> Phases] /\ at \in [Requests -> 0..Len(Chain)]
      /\ \A phase : Moves(r, phase) => gw'[r] = phase
  BY DEF TypeOK, Phases, Moves
<1>2. CASE UpstreamOpens(r)
  BY <1>1, <1>2 DEF UpstreamOpens
<1>3. CASE UpstreamFails(r)
  <2>1. PICK e \in Errors :
          /\ err' = e
          /\ IF Retryable(e)
             THEN at' = [at EXCEPT ![r] = First(Left(r))] /\ UNCHANGED <<gw, wire>>
             ELSE Leaves(r, "done") /\ Send(r, <<Frame(StatusOf(e))>>)
    BY <1>3 DEF UpstreamFails
  <2>2. Ask(r) /\ gw[r] = "routing"
    BY <1>3 DEF UpstreamFails, Ask
  <2>3. CASE Retryable(e)
    BY <1>1, <2>1, <2>2, <2>3
  <2>4. CASE ~ Retryable(e)
    <3>1. <<Frame(StatusOf(e))>> \in Seq(Frames)
      BY FramesFacts
    <3>2. Moves(r, "done") /\ Send(r, <<Frame(StatusOf(e))>>)
      BY <2>1, <2>4 DEF Leaves
    <3>3. Elems(wire') = Elems(wire) \cup {Frame(StatusOf(e))}
      BY <3>1, <3>2, SendFacts, ElemsOfOne
    <3>4. QED
      BY <1>1, <2>1, <2>2, <2>4, <3>2, <3>3, FramesFacts
  <2>5. QED
    BY <2>3, <2>4
<1>4. CASE ChainEnds(r)
  <2>1. <<Frame(StatusOf(err))>> \in Seq(Frames)
    BY FramesFacts
  <2>2. /\ gw[r] = "routing" /\ Moves(r, "done") /\ Send(r, <<Frame(StatusOf(err))>>)
        /\ Left(r) = {} /\ UNCHANGED <<err, tried>>
    BY <1>4 DEF ChainEnds, histVars, Leaves
  <2>3. Elems(wire') = Elems(wire) \cup {Frame(StatusOf(err))}
    BY <2>1, <2>2, SendFacts, ElemsOfOne
  <2>4. QED
    BY <1>1, <2>2, <2>3, FramesFacts
<1>5. CASE Forward(r)
  <2>1. /\ gw[r] = "streaming" /\ Send(r, <<Text(r)>>)
        /\ UNCHANGED <<gw, at, err, tried>>
    BY <1>5 DEF Forward, routeVars
  <2>2. <<Text(r)>> \in Seq(Frames)
    BY <2>1, TextFacts DEF Places
  <2>3. Elems(wire') = Elems(wire) \cup {Text(r)}
    BY <2>1, <2>2, SendFacts, ElemsOfOne
  <2>4. QED
    BY <2>1, <2>3
<1>6. CASE UpstreamBreaks(r)
  <2>1. <<Frame("error"), Frame("over")>> \in Seq(Frames)
    <3>1. Frame("error") \in Frames /\ Frame("over") \in Frames
      BY FramesFacts
    <3>2. QED
      BY <3>1
  <2>2. /\ gw[r] = "streaming" /\ Moves(r, "done")
        /\ Send(r, <<Frame("error"), Frame("over")>>)
        /\ UNCHANGED <<err, tried, ended>>
    BY <1>6 DEF UpstreamBreaks, histVars, Leaves
  <2>3. Elems(wire') = Elems(wire) \cup {Frame("error"), Frame("over")}
    BY <2>1, <2>2, SendFacts, ElemsOfTwo
  <2>4. QED
    BY <1>1, <2>2, <2>3
<1>7. CASE UpstreamEnds(r)
  BY <1>1, <1>7 DEF UpstreamEnds, histVars, Leaves
<1>8. CASE InsertRow(r) \/ UpdateRun(r) \/ IncrMirror(r)
  BY <1>1, <1>8 DEF InsertRow, UpdateRun, IncrMirror, Booking, routeVars
<1>9. ASSUME gw[r] \in {"insert", "update", "incr", "event"},
             Moves(r, "done"), Send(r, <<Frame("over")>>)
      PROVE  gw'[r] = "done" /\ Elems(wire') = Elems(wire) \cup {Frame("over")}
  <2>1. <<Frame("over")>> \in Seq(Frames)
    BY FramesFacts
  <2>2. QED
    BY <1>1, <1>9, <2>1, SendFacts, ElemsOfOne
<1>10. CASE CostEvent(r)
  <2>1. /\ gw[r] = "event" /\ Moves(r, "done") /\ Send(r, <<Frame("over")>>)
        /\ UNCHANGED <<err, tried, ended, bookVars>>
    BY <1>10 DEF CostEvent, Booking, routeVars
  <2>2. QED
    BY <1>9, <2>1
<1>11. CASE BookingFails(r)
  <2>1. /\ gw[r] \in {"insert", "update", "incr", "event"} /\ faults' = faults + 1
        /\ \/ Moves(r, "event") /\ wire' = wire
           \/ Moves(r, "done") /\ Send(r, <<Frame("over")>>)
        /\ UNCHANGED <<err, tried, ended>>
    BY <1>11 DEF BookingFails, Booking, routeVars
  <2>2. faults' # 0
    BY <2>1 DEF TypeOK
  <2>3. CASE Moves(r, "event") /\ wire' = wire
    BY <1>1, <2>1, <2>3
  <2>4. CASE Moves(r, "done") /\ Send(r, <<Frame("over")>>)
    BY <1>9, <2>1, <2>2, <2>4
  <2>5. QED
    BY <2>1, <2>3, <2>4
<1>12. CASE Abandon(r)
  BY <1>12 DEF Abandon
<1>13. QED
  BY <1>2, <1>3, <1>4, <1>5, <1>6, <1>7, <1>8, <1>10, <1>11, <1>12
     DEF Handles, Handle, Book

\* A handler of another request leaves the current one alone.
LEMMA OthersWait ==
  ASSUME TypeOK, RequestsLeft, Places, NEW r \in Requests, Handles(r),
         ~ Current(r)
  PROVE  /\ UNCHANGED <<agent, req, parts, wire, err, tried>>
         /\ agent = "read" => gw'[req] = gw[req] /\ at'[req] = at[req]
<1>1. UNCHANGED <<agent, req, parts, wire, err, tried>>
  BY HandlerFacts DEF workerVars
<1>2. agent = "read" => req \in Requests /\ r # req
  BY RequestInRange DEF Current
<1>3. QED
  BY <1>1, <1>2, HandlerFacts

\* One stream fills the response.
LEMMA OneTextStep ==
  ASSUME TypeOK, RequestsLeft, Places, OneText, [Next]_vars
  PROVE  OneText'
<1>1. CASE Connect
  <2>1. /\ parts' = <<>> /\ wire' = <<>> /\ req' \in Requests
        /\ gw' = [gw EXCEPT ![req'] = "routing"]
    BY <1>1, ConnectFacts
  <2>2. Elems(parts') = {} /\ Elems(wire') = {}
    BY <2>1, ElemsOfNothing
  <2>3. gw'[req'] = "routing"
    BY <2>1 DEF TypeOK
  <2>4. Held' = {}
    BY <2>2 DEF Held, Elems
  <2>5. \A f \in Elems(parts)' : f.kind = "text"
    BY <2>2 DEF Elems
  <2>6. QED
    BY <2>1, <2>3, <2>4, <2>5 DEF OneText
<1>2. CASE Read \/ Parse \/ TransportFails \/ TransportRaises
  <2>1. /\ UNCHANGED <<req, gw, at>>
        /\ Elems(wire') \subseteq Elems(wire)
        /\ Elems(parts') \subseteq Elems(parts) \cup {f \in Elems(wire) : f.kind = "text"}
        /\ agent' = "read" => agent = "read" /\ (wire = <<>> => wire' = <<>> /\ parts' = parts)
    BY <1>2, WorkerFacts DEF HandlersWait
  <2>2. Held' = {f \in Elems(parts') \cup Elems(wire') : f.kind = "text"}
    BY DEF Held, Elems
  <2>3. Held' \subseteq Held
    BY <2>1, <2>2 DEF Held
  <2>4. \A f \in Elems(parts') : f.kind = "text"
    BY <2>1 DEF OneText
  <2>5. (\A f \in Elems(parts) : f.kind = "text")'
    BY <2>4 DEF Elems
  <2>6. Text(req)' = Text(req)
    BY <2>1 DEF Text
  <2>7. QED
    BY <2>1, <2>3, <2>5, <2>6 DEF OneText
<1>3. CASE \E r \in Requests : Handles(r)
  <2>1. PICK r \in Requests : Handles(r)
    BY <1>3
  <2>2. UNCHANGED <<agent, req, parts>>
    BY <2>1, HandlerFacts DEF workerVars
  <2>3. Held' = {f \in Elems(parts) \cup Elems(wire') : f.kind = "text"}
    BY <2>2 DEF Held, Elems
  <2>4. (\A f \in Elems(parts) : f.kind = "text")'
    BY <2>2 DEF OneText, Elems
  <2>5. CASE ~ Current(r)
    <3>1. /\ wire' = wire
          /\ agent = "read" => gw'[req] = gw[req] /\ at'[req] = at[req]
      BY <2>1, <2>5, OthersWait
    <3>2. Held' = Held
      BY <2>3, <3>1 DEF Held
    <3>3. agent = "read" => Text(req)' = Text(req)
      BY <2>2, <3>1 DEF Text
    <3>4. QED
      BY <2>2, <2>4, <3>1, <3>2, <3>3 DEF OneText
  <2>6. CASE Current(r)
    <3>1. r = req /\ agent = "read"
      BY <2>6 DEF Current
    <3>2. gw[r] = "routing" => parts = <<>> /\ wire = <<>>
      BY <3>1 DEF OneText
    <3>3. gw[r] = "streaming" => \A f \in Held : f = Text(r)
      BY <3>1 DEF OneText
    <3>4. CASE Ask(r) /\ wire' = wire
      <4>1. parts' = <<>> /\ wire' = <<>>
        BY <2>2, <3>2, <3>4 DEF Ask
      <4>2. Held' = {}
        BY <2>2, <2>3, <4>1, ElemsOfNothing
      <4>3. QED
        BY <2>4, <4>1, <4>2 DEF OneText
    <3>5. ASSUME NEW S, gw'[r] \notin {"routing", "streaming"},
                 Elems(wire') = Elems(wire) \cup S, \A f \in S : f.kind # "text"
          PROVE  OneText'
      <4>1. Held' = Held
        BY <2>3, <3>5 DEF Held
      <4>2. QED
        BY <2>2, <2>4, <3>1, <3>5, <4>1 DEF OneText
    <3>6. CASE /\ gw[r] = "streaming" /\ gw'[r] = "streaming" /\ at' = at
               /\ Elems(wire') = Elems(wire) \cup {Text(r)}
      <4>1. \A f \in Held' : f = Text(r)
        BY <2>3, <3>3, <3>6 DEF Held
      <4>2. Text(req)' = Text(r)
        BY <2>2, <3>1, <3>6 DEF Text
      <4>3. QED
        BY <2>2, <2>4, <3>1, <3>6, <4>1, <4>2 DEF OneText
    <3>7. \/ Ask(r) /\ wire' = wire
          \/ /\ gw'[r] = "done"
             /\ \E f : /\ f.kind \in {"client", "server"}
                       /\ Elems(wire') = Elems(wire) \cup {f}
          \/ /\ gw[r] = "streaming" /\ gw'[r] = "streaming" /\ at' = at
             /\ Elems(wire') = Elems(wire) \cup {Text(r)}
          \/ /\ gw'[r] = "done"
             /\ Elems(wire') = Elems(wire) \cup {Frame("error"), Frame("over")}
          \/ gw'[r] \in {"insert", "update", "incr", "event"} /\ wire' = wire
          \/ gw'[r] = "done" /\ Elems(wire') = Elems(wire) \cup {Frame("over")}
      BY <2>1, <2>6, SentFacts
    <3>8. CASE /\ gw'[r] = "done"
               /\ \E f : /\ f.kind \in {"client", "server"}
                         /\ Elems(wire') = Elems(wire) \cup {f}
      <4>1. PICK f : f.kind \in {"client", "server"} /\ Elems(wire') = Elems(wire) \cup {f}
        BY <3>8
      <4>2. \A g \in {f} : g.kind # "text"
        BY <4>1
      <4>3. QED
        BY <3>5, <3>8, <4>1, <4>2
    <3>9. CASE /\ gw'[r] = "done"
               /\ Elems(wire') = Elems(wire) \cup {Frame("error"), Frame("over")}
      <4>1. \A g \in {Frame("error"), Frame("over")} : g.kind # "text"
        BY FramesFacts
      <4>2. /\ gw'[r] \notin {"routing", "streaming"}
            /\ Elems(wire') = Elems(wire) \cup {Frame("error"), Frame("over")}
        BY <3>9
      <4>3. QED
        BY <3>5, <4>1, <4>2, Zenon
    <3>10. CASE gw'[r] \in {"insert", "update", "incr", "event"} /\ wire' = wire
      <4>1. gw'[r] \notin {"routing", "streaming"}
        BY <3>10
      <4>2. Held' = Held
        BY <2>3, <3>10 DEF Held
      <4>3. QED
        BY <2>2, <2>4, <3>1, <4>1, <4>2 DEF OneText
    <3>11. CASE gw'[r] = "done" /\ Elems(wire') = Elems(wire) \cup {Frame("over")}
      <4>1. Frame("over").kind # "text"
        BY FramesFacts
      <4>2. Held' = Held
        BY <2>3, <3>11, <4>1 DEF Held
      <4>3. gw'[r] \notin {"routing", "streaming"}
        BY <3>11
      <4>4. QED
        BY <2>2, <2>4, <3>1, <4>2, <4>3 DEF OneText
    <3>12. QED
      BY <3>4, <3>6, <3>7, <3>8, <3>9, <3>10, <3>11
  <2>7. QED
    BY <2>5, <2>6
<1>4. CASE UNCHANGED vars
  BY <1>4 DEF vars, workerVars, routeVars, OneText, Held, Text
<1>5. QED
  BY <1>1, <1>2, <1>3, <1>4, NextCases

\* The models asked are those up to the router's place, once each, and an
\* answer of 4xx or 5xx has its reason.
LEMMA AskedStep ==
  ASSUME TypeOK, RequestsLeft, Places, OneText, AskedInOrder, Excused, [Next]_vars
  PROVE  AskedInOrder' /\ Excused'
<1>1. Asked = Elems(tried) /\ Asked' = Elems(tried')
  BY DEF Asked, Elems
<1>2. ASSUME UNCHANGED <<err, tried>>, Elems(wire') \subseteq Elems(wire)
      PROVE  Excused'
  BY <1>2 DEF Excused, Excuse, Asked, Elems, Retryable
<1>3. CASE Connect
  <2>1. /\ wire' = <<>> /\ tried' = <<>> /\ req' \in Requests
        /\ at[req'] = 0 /\ at' = at
    BY <1>3, ConnectFacts
  <2>2. Elems(wire') = {} /\ Elems(tried') = {}
    BY <2>1, ElemsOfNothing
  <2>3. IsFiniteSet(Asked') /\ Cardinality(Asked') = Len(tried')
    BY <1>1, <2>1, <2>2, FS_EmptySet
  <2>4. AskedInOrder'
    BY <1>1, <2>1, <2>2, <2>3 DEF AskedInOrder
  <2>5. Excused'
    BY <2>2 DEF Excused, Elems
  <2>6. QED
    BY <2>4, <2>5
<1>4. CASE Read \/ Parse \/ TransportFails \/ TransportRaises
  <2>1. /\ UNCHANGED <<req, gw, at, err, tried>>
        /\ Elems(wire') \subseteq Elems(wire)
        /\ agent' = "read" => agent = "read"
    BY <1>4, WorkerFacts DEF HandlersWait
  <2>2. AskedInOrder'
    BY <2>1 DEF AskedInOrder, Asked
  <2>3. QED
    BY <1>2, <2>1, <2>2
<1>5. CASE \E r \in Requests : Handles(r)
  <2>1. PICK r \in Requests : Handles(r)
    BY <1>5
  <2>2. UNCHANGED <<agent, req, parts>>
    BY <2>1, HandlerFacts DEF workerVars
  <2>3. CASE ~ Current(r)
    <3>1. /\ wire' = wire /\ UNCHANGED <<err, tried>>
          /\ agent = "read" => gw'[req] = gw[req] /\ at'[req] = at[req]
      BY <2>1, <2>3, OthersWait
    <3>2. AskedInOrder'
      BY <2>2, <3>1 DEF AskedInOrder, Asked
    <3>3. QED
      BY <1>2, <3>1, <3>2
  <2>4. CASE Current(r)
    <3>1. r = req /\ agent = "read"
      BY <2>4 DEF Current
    <3>2. gw[r] = "routing" => Elems(wire) = {}
      BY <3>1, ElemsOfNothing DEF OneText
    <3>3. /\ IsFiniteSet(Asked) /\ Cardinality(Asked) = Len(tried)
          /\ gw[r] = "routing" =>
               /\ \A m \in Asked : \E k \in 1..at[r] : Chain[k] = m
               /\ \A k \in 1..at[r] : Attemptable(k) => Chain[k] \in Asked
      BY <3>1 DEF AskedInOrder
    <3>4. ASSUME Ask(r)
          PROVE  LET i == First(Left(r)) IN
                 /\ IsFiniteSet(Asked') /\ Cardinality(Asked') = Len(tried')
                 /\ \A m \in Asked' : \E k \in 1..i : Chain[k] = m
                 /\ \A k \in 1..i : Attemptable(k) => Chain[k] \in Asked'
      <4> DEFINE i == First(Left(r))
      <4>1. /\ gw[r] = "routing" /\ i \in 1..Len(Chain) /\ i > at[r] /\ Attemptable(i)
            /\ \A k \in 1..i : k > at[r] /\ Attemptable(k) => k = i
            /\ Len(tried') = Len(tried) + 1
            /\ Elems(tried') = Elems(tried) \cup {Chain[i]}
        BY <2>4, <3>4, AskFacts
      <4>2. Asked' = Asked \cup {Chain[i]}
        BY <1>1, <4>1
      <4>3. i \in Nat /\ at[r] \in Nat
        BY <4>1, ChainFacts DEF TypeOK
      <4> HIDE DEF i
      <4>4. Chain[i] \notin Asked
        <5>1. SUFFICES ASSUME Chain[i] \in Asked PROVE FALSE
          OBVIOUS
        <5>2. PICK k \in 1..at[r] : Chain[k] = Chain[i]
          BY <3>3, <4>1, <5>1
        <5>3. k \in 1..(i - 1)
          BY <4>1, <4>3
        <5>4. Repeated(i)
          BY <5>2, <5>3 DEF Repeated
        <5>5. QED
          BY <4>1, <5>4 DEF Attemptable
      <4>5. IsFiniteSet(Asked') /\ Cardinality(Asked') = Cardinality(Asked) + 1
        BY <3>3, <4>2, <4>4, FS_AddElement
      <4>6. \A m \in Asked' : \E k \in 1..i : Chain[k] = m
        <5>1. TAKE m \in Asked'
        <5>2. CASE m \in Asked
          <6>1. PICK k \in 1..at[r] : Chain[k] = m
            BY <3>3, <4>1, <5>2
          <6>2. k \in 1..i
            BY <4>1, <4>3
          <6>3. QED
            BY <6>1, <6>2
        <5>3. CASE m = Chain[i]
          <6>1. i \in 1..i
            BY <4>1, <4>3
          <6>2. QED
            BY <5>3, <6>1
        <5>4. QED
          BY <4>2, <5>2, <5>3
      <4>7. \A k \in 1..i : Attemptable(k) => Chain[k] \in Asked'
        <5>1. SUFFICES ASSUME NEW k \in 1..i, Attemptable(k)
              PROVE  Chain[k] \in Asked'
          OBVIOUS
        <5>2. CASE k > at[r]
          BY <4>1, <4>2, <5>1, <5>2
        <5>3. CASE ~ (k > at[r])
          <6>1. k \in 1..at[r]
            BY <4>3, <5>3
          <6>2. QED
            BY <3>3, <4>1, <4>2, <5>1, <6>1
        <5>4. QED
          BY <5>2, <5>3
      <4>8. QED
        BY <3>3, <4>1, <4>5, <4>6, <4>7 DEF i
    <3>5. CASE /\ Ask(r) /\ wire' = wire
               /\ \/ gw'[r] = "streaming"
                  \/ gw'[r] = "routing" /\ at'[r] = First(Left(r))
      <4>1. gw[r] = "routing"
        BY <3>5 DEF Ask
      <4>2. Elems(wire)' = {}
        BY <3>2, <3>5, <4>1 DEF Elems
      <4>3. Excused'
        BY <4>2 DEF Excused
      <4>4. AskedInOrder'
        BY <2>2, <3>1, <3>4, <3>5 DEF AskedInOrder
      <4>5. QED
        BY <4>3, <4>4
    <3>6. CASE /\ gw'[r] = "done" /\ Ask(r) /\ err' \in Errors /\ ~ Retryable(err')
      <4>1. AskedInOrder'
        BY <2>2, <3>1, <3>4, <3>6 DEF AskedInOrder
      <4>2. (~ Retryable(err))'
        BY <3>6 DEF Retryable
      <4>3. Excused'
        BY <3>6, <4>2 DEF Excused, Excuse
      <4>4. QED
        BY <4>1, <4>3
    <3>7. CASE /\ gw[r] = "routing" /\ gw'[r] = "done" /\ Left(r) = {}
               /\ UNCHANGED <<err, tried>>
      <4>1. AskedInOrder'
        BY <2>2, <3>1, <3>7 DEF AskedInOrder, Asked
      <4>2. {Chain[i] : i \in 1..Len(Chain)} \cap Usable \subseteq Asked
        <5>1. SUFFICES ASSUME NEW i \in 1..Len(Chain), Chain[i] \in Usable
              PROVE  Chain[i] \in Asked
          OBVIOUS
        <5>2. PICK k \in 1..Len(Chain) : Attemptable(k) /\ Chain[k] = Chain[i]
          BY <5>1, FirstPlace
        <5>3. ~ (k > at[r])
          BY <3>7, <5>2 DEF Left
        <5>4. k \in 1..at[r]
          BY <5>3, ChainFacts DEF TypeOK
        <5>5. QED
          BY <3>3, <3>7, <5>2, <5>4
      <4>3. Excused'
        BY <1>1, <3>7, <4>2 DEF Excused, Excuse, Asked
      <4>4. QED
        BY <4>1, <4>3
    <3>8. ASSUME NEW S, gw'[r] # "routing", UNCHANGED <<err, tried>>,
                 Elems(wire') = Elems(wire) \cup S,
                 \A f \in S : f.kind \notin {"client", "server"}
          PROVE  AskedInOrder' /\ Excused'
      <4>1. AskedInOrder'
        BY <2>2, <3>1, <3>8 DEF AskedInOrder, Asked
      <4>2. Excuse' <=> Excuse
        BY <3>8 DEF Excuse, Asked, Retryable
      <4>3. \A f \in Elems(wire') : f.kind \in {"client", "server"} => f \in Elems(wire)
        BY <3>8
      <4>4. Excused'
        BY <4>2, <4>3 DEF Excused, Elems
      <4>5. QED
        BY <4>1, <4>4
    <3>9. CASE /\ gw'[r] = "streaming" /\ UNCHANGED <<err, tried>>
               /\ Elems(wire') = Elems(wire) \cup {Text(r)}
      <4>1. \A f \in {Text(r)} : f.kind \notin {"client", "server"}
        BY DEF Text
      <4>2. QED
        BY <3>8, <3>9, <4>1
    <3>10. CASE /\ gw'[r] = "done" /\ UNCHANGED <<err, tried>>
                /\ Elems(wire') = Elems(wire) \cup {Frame("error"), Frame("over")}
      <4>1. \A f \in {Frame("error"), Frame("over")} : f.kind \notin {"client", "server"}
        BY FramesFacts
      <4>2. QED
        BY <3>8, <3>10, <4>1
    <3>11. CASE /\ gw'[r] \in {"insert", "update", "incr", "event"} /\ wire' = wire
                /\ UNCHANGED <<err, tried>>
      <4>1. gw'[r] # "routing"
        BY <3>11
      <4>2. AskedInOrder'
        BY <2>2, <3>1, <3>11, <4>1 DEF AskedInOrder, Asked
      <4>3. Excused'
        BY <1>2, <3>11
      <4>4. QED
        BY <4>2, <4>3
    <3>12. CASE /\ gw'[r] = "done" /\ UNCHANGED <<err, tried>>
                /\ Elems(wire') = Elems(wire) \cup {Frame("over")}
      <4>1. \A f \in {Frame("over")} : f.kind \notin {"client", "server"}
        BY FramesFacts
      <4>2. QED
        BY <3>8, <3>12, <4>1
    <3>13. QED
      BY <2>1, <2>4, <3>5, <3>6, <3>7, <3>9, <3>10, <3>11, <3>12, SentFacts
  <2>5. QED
    BY <2>3, <2>4
<1>6. CASE UNCHANGED vars
  <2>1. UNCHANGED <<agent, req, wire, gw, at, err, tried>>
    BY <1>6 DEF vars, workerVars, routeVars
  <2>2. AskedInOrder'
    BY <2>1 DEF AskedInOrder, Asked
  <2>3. QED
    BY <1>2, <2>1, <2>2
<1>7. QED
  BY <1>3, <1>4, <1>5, <1>6, NextCases

\* The end of the response follows the booking.
LEMMA OverStep ==
  ASSUME TypeOK, RequestsLeft, Places, BooksInOrder, OverIsLast, [Next]_vars
  PROVE  OverIsLast'
<1>1. SUFFICES ASSUME Answered' PROVE OverIsLast'
  BY DEF OverIsLast
<1>2. CASE Connect
  <2>1. agent' = "read" /\ wire' = <<>>
    BY <1>2, ConnectFacts
  <2>2. Elems(wire)' = {}
    BY <2>1, ElemsOfNothing DEF Elems
  <2>3. QED
    BY <1>1, <2>1, <2>2 DEF Answered
<1>3. CASE Read \/ Parse \/ TransportFails \/ TransportRaises
  <2>1. /\ HandlersWait /\ Elems(wire') \subseteq Elems(wire)
        /\ agent' = "read" => agent = "read"
        /\ agent' \in {"parse", "output"} => Answered
    BY <1>3, WorkerFacts
  <2>2. Elems(wire)' = Elems(wire')
    BY DEF Elems
  <2>3. Answered
    BY <1>1, <2>1, <2>2 DEF Answered
  <2>4. QED
    BY <2>1, <2>3 DEF OverIsLast, HandlersWait
<1>4. CASE \E r \in Requests : Handles(r)
  <2>1. PICK r \in Requests : Handles(r)
    BY <1>4
  <2>2. /\ UNCHANGED <<agent, req>> /\ gw[r] # "done"
        /\ \A q \in Requests : q # r => gw'[q] = gw[q]
    BY <2>1, HandlerFacts DEF workerVars
  <2>3. /\ row \subseteq row' /\ total \subseteq total' /\ mirror \subseteq mirror'
        /\ faults' = 0 => faults = 0
        /\ ended' \ ended \subseteq {r}
    BY <2>1, BooksOfHandler
  <2>4. agent \in {"read", "parse", "output"}
    BY <1>1, <2>2 DEF Answered
  <2>5. req \in Requests
    BY <2>4, RequestInRange
  <2>6. Elems(wire)' = Elems(wire')
    BY DEF Elems
  <2>7. CASE Answered
    <3>1. gw[req] = "done" /\ r # req
      BY <2>2, <2>7 DEF OverIsLast
    <3>2. QED
      BY <2>2, <2>3, <2>5, <2>7, <3>1 DEF OverIsLast
  <2>8. CASE ~ Answered
    <3>1. agent = "read" /\ \E f \in Elems(wire') : f.kind = "over"
      BY <1>1, <2>2, <2>6, <2>8 DEF Answered
    <3>2. \A f \in Elems(wire) : f.kind # "over"
      BY <2>8, <3>1 DEF Answered
    <3>3. Current(r)
      BY <2>1, <3>1, <3>2, HandlerFacts
    <3>4. r = req
      BY <3>3 DEF Current
    <3>5. CASE gw[r] = "streaming" /\ gw'[r] = "done" /\ UNCHANGED ended
      <4>1. req \notin ended'
        BY <2>5, <3>4, <3>5 DEF BooksInOrder
      <4>2. QED
        BY <2>2, <3>4, <3>5, <4>1 DEF OverIsLast
    <3>6. CASE /\ gw'[r] = "done"
               /\ faults' = 0 => gw[r] = "event" /\ UNCHANGED bookVars
      <4>1. faults' = 0 => req \in row' \cap total' \cap mirror'
        BY <2>3, <2>5, <3>4, <3>6 DEF BooksInOrder, bookVars
      <4>2. QED
        BY <2>2, <3>4, <3>6, <4>1 DEF OverIsLast
    <3>7. /\ wire' # wire
          /\ ~ \E f : /\ f.kind \in {"client", "server"}
                      /\ Elems(wire') = Elems(wire) \cup {f}
          /\ Elems(wire') # Elems(wire) \cup {Text(r)}
      <4>1. \A f : f.kind \in {"client", "server", "text"}
                     => Elems(wire') # Elems(wire) \cup {f}
        BY <3>1, <3>2
      <4>2. Text(r).kind = "text"
        BY DEF Text
      <4>3. QED
        BY <3>1, <3>2, <4>1, <4>2
    <3>8. QED
      BY <2>1, <3>3, <3>5, <3>6, <3>7, SentFacts
  <2>9. QED
    BY <2>7, <2>8
<1>5. CASE UNCHANGED vars
  BY <1>1, <1>5 DEF vars, workerVars, routeVars, bookVars, OverIsLast, Answered, Elems
<1>6. QED
  BY <1>2, <1>3, <1>4, <1>5, NextCases

-----------------------------------------------------------------------------
LEMMA InvInit == Init => IInv
<1> SUFFICES ASSUME Init PROVE IInv
  OBVIOUS
<1>1. MaxParses \in Nat \ {0} /\ MaxAttempts \in Nat \ {0} /\ MaxFaults \in Nat
  BY CallAssumption
<1>2. Elems(parts) = {} /\ Elems(wire) = {} /\ Asked = {}
  BY ElemsOfNothing DEF Init, Asked
<1>3. TypeOK
  <2>1. 0 * MaxAttempts = 0
    BY <1>1, Z3
  <2>2. /\ parts \in Seq(Frames) /\ wire \in Seq(Frames) /\ tried \in Seq(Models)
        /\ req \in 0..(parses * MaxAttempts + attempt)
        /\ parses \in 0..MaxParses /\ attempt \in 1..MaxAttempts
    BY <1>1, <2>1 DEF Init
  <2>3. at \in [Requests -> 0..Len(Chain)]
    BY ChainFacts DEF Init
  <2>4. QED
    BY <1>1, <2>2, <2>3 DEF Init, TypeOK
<1>4. RequestsLeft
  <2>1. 0 * MaxAttempts = 0
    BY <1>1, Z3
  <2>2. req < parses * MaxAttempts + attempt /\ parses < MaxParses
    BY <1>1, <2>1 DEF Init
  <2>3. QED
    BY <2>2 DEF Init, RequestsLeft
<1>5. AskedInOrder
  BY <1>2, FS_EmptySet DEF Init, AskedInOrder
<1>6. Places /\ OneText /\ Excused /\ BooksInOrder /\ OverIsLast
  BY <1>2 DEF Init, Places, OneText, Held, Excused, BooksInOrder, OverIsLast, Answered
<1>7. QED
  BY <1>3, <1>4, <1>5, <1>6 DEF IInv

LEMMA InvStep == IInv /\ [Next]_vars => IInv'
BY TypeStep, OneTextStep, AskedStep, OverStep DEF IInv

\* The inductive invariant of an agent's call, its requests and its books.
THEOREM InvHolds == Spec => []IInv
BY InvInit, InvStep, PTL DEF Spec

\* TypeOK holds: an agent makes no more requests than MaxParses * MaxAttempts,
\* and a call is in a book only after it is in the one before.
THEOREM TypeCorrect == Spec => []TypeOK
<1>1. IInv => TypeOK
  BY DEF IInv
<1>2. QED
  BY InvHolds, <1>1, PTL

\* One stream of one model makes the answer, no model is asked twice for a
\* request, and it fails only when nobody is left to be asked: for every chain,
\* with repeated models and models without credentials (stream_with_fallback,
\* build_chain, _stream_with_retry).
THEOREM OneStreamOneAnswer == Spec => []TextFromOneStream
<1>1. IInv => TextFromOneStream
  <2>1. SUFFICES ASSUME IInv PROVE TextFromOneStream
    OBVIOUS
  <2>2. \A i \in 1..Len(parts) : parts[i] \in Held
    BY <2>1 DEF IInv, OneText, Held, Elems
  <2>3. NotSpliced
    BY <2>1, <2>2 DEF NotSpliced, IInv, OneText
  <2>4. wire # <<>> => Head(wire) \in Elems(wire)
    BY <2>1, ElemsOfHeadTail DEF IInv, TypeOK
  <2>5. FallbackIsExhausted
    BY <2>1, <2>4 DEF FallbackIsExhausted, IInv, AskedInOrder, Excused, Excuse
  <2>6. QED
    BY <2>3, <2>5 DEF TextFromOneStream
<1>2. QED
  BY InvHolds, <1>1, PTL

\* When the agent goes on with an answer whose stream ended cleanly, its cost
\* is in all three books unless a booking failed: whatever was retried and
\* abandoned before (record_completion_cost before [DONE]).
THEOREM AnswersAreBooked == Spec => []AnswerIsBooked
<1>1. IInv => AnswerIsBooked
  BY DEF IInv, OverIsLast, Answered, AnswerIsBooked
<1>2. QED
  BY InvHolds, <1>1, PTL
=============================================================================
