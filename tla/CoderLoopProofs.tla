-------------------------- MODULE CoderLoopProofs --------------------------
(***************************************************************************)
(* Proofs about CoderLoop, for any number of attempts, turns, figures and  *)
(* faults: the types, a kernel process for each attempt alone, and output, *)
(* notebook and figures that are the attempt's own.                        *)
(***************************************************************************)
EXTENDS CoderLoop, FiniteSetTheorems, SequenceTheorems, TLAPS

Cells   == Attempts \X Nat
Request == [of : Cells, drew : BOOLEAN]
Message == [of : Cells, kind : {"figure", "error", "idle"}]

\* The types of what TypeOK leaves open.
Shapes ==
  /\ cell \in [error : BOOLEAN, figs : SUBSET Figures, from : SUBSET (Cells \cup {NoCell})]
  /\ queue \in [Attempts -> Seq(Request)]
  /\ iopub \in Seq(Message)
  /\ disk \in [Figures -> Cells \cup {NoCell}]
  /\ late \subseteq Cells
  /\ output \in [attempt : 0..MaxAttempts, made : [Figures -> Cells \cup {NoCell}]]

\* Room is kept for the figures the worker has not read yet.
RoomIsKept == figIndex + Pending <= MaxInline

Asking  == {"begin", "ask", "dispatch"}
AtWork  == {"ask", "dispatch", "running", "matlab", "record", "notebook",
            "recover", "report", "shutdown"}

\* The session has a process while coder.run is in its try, and it is the
\* attempt's own; every other process that lives is known to have leaked.
OneSession ==
  /\ pc \in AtWork => started /\ km = attempt
  /\ pc \notin AtWork => ~ started /\ km = 0
  /\ procs \subseteq leaked \cup {km}

\* outcome is set on the way into the shutdown.
OutcomeInTime ==
  /\ pc \in AtWork \ {"shutdown"} \/ pc = "begin" => outcome = "none"
  /\ pc = "shutdown" => outcome # "none"
  /\ pc = "review" => outcome = "returned"
  /\ pc = "matlab" => directive.matlab

\* No request, and no message, is of a cell that is still to come.
Issued(c) == \/ c[1] < attempt
             \/ c[1] = attempt /\ c[2] < turn
             \/ c = Current /\ pc \notin Asking

InOrder ==
  /\ \A p \in Attempts : \A n \in DOMAIN queue[p] :
        queue[p][n].of[1] = p /\ Issued(queue[p][n].of)
  /\ \A n \in DOMAIN iopub : Issued(iopub[n].of)

\* A process has one request for a cell, and none once it has said idle.
AskedOnce ==
  /\ \A p \in Attempts : \A m, n \in DOMAIN queue[p] :
        queue[p][m].of = queue[p][n].of => m = n
  /\ \A i \in DOMAIN iopub : iopub[i].kind = "idle" =>
        \A p \in Attempts : \A n \in DOMAIN queue[p] : queue[p][n].of # iopub[i].of

\* What still runs in a kernel is the cell the worker waits for, or late,
\* unless the run has failed.
Awaited(c) == c \in late \/ (pc = "running" /\ c = Current) \/ outcome = "raised"

RunsAreAwaited ==
  \A p \in Attempts : \A n \in DOMAIN queue[p] : Awaited(queue[p][n].of)

\* The files that appeared since MATLAB started are its own, or late.
NewFiles ==
  pc = "matlab" => \A f \in OnDisk \ before : disk[f] \in {Current} \cup late

\* From the recovery on, only what comes late is not registered.
Registered ==
  pc = "report" \/ (pc \in {"shutdown", "review"} /\ outcome = "returned") =>
    \A f \in OnDisk : f \in figures \cup paths \/ disk[f] \in late

\* notebook.ipynb is of the output at hand until the attempt writes its own.
NotebookInTime ==
  /\ pc \in {"recover", "report"} => notebook = attempt
  /\ pc = "shutdown" /\ outcome = "returned" => notebook = attempt
  /\ pc \in {"begin", "ask", "dispatch", "running", "matlab", "record", "notebook"}
       => notebook = output.attempt
  /\ pc = "shutdown" /\ outcome = "agent_error" => notebook = output.attempt
  /\ pc \in {"review", "settled"} => notebook = output.attempt

KernelInv == OneSession /\ OutcomeInTime /\ InOrder /\ AskedOnce /\ RunsAreAwaited

IInv == /\ TypeOK /\ Shapes /\ RoomIsKept /\ KernelInv
        /\ CellOutputIsOwn /\ NewFiles /\ Registered /\ NotebookInTime

-----------------------------------------------------------------------------
(* Figures on the channel.                                                 *)

Drawn(s) == {n \in DOMAIN s : s[n].kind = "figure"}

LEMMA DrawnIsFinite ==
  ASSUME NEW s \in Seq(Message)
  PROVE  IsFiniteSet(Drawn(s)) /\ Cardinality(Drawn(s)) \in Nat
<1>1. Drawn(s) \in SUBSET (1..Len(s)) /\ Len(s) \in Nat
  BY DEF Drawn
<1>2. IsFiniteSet(1..Len(s))
  BY <1>1, FS_Interval
<1>3. QED
  BY <1>1, <1>2, FS_Subset, FS_CardinalityType

\* The first message is taken off: the others move up by one place.
LEMMA DrawnOfTail ==
  ASSUME NEW s \in Seq(Message), s # <<>>
  PROVE  Cardinality(Drawn(s)) = Cardinality(Drawn(Tail(s)))
                                 + (IF Head(s).kind = "figure" THEN 1 ELSE 0)
<1> DEFINE S == Drawn(s)
           T == Drawn(Tail(s))
           f == [n \in T |-> n + 1]
<1>1. /\ Tail(s) \in Seq(Message) /\ Len(s) \in Nat \ {0} /\ Len(Tail(s)) = Len(s) - 1
      /\ \A n \in 1..Len(Tail(s)) : Tail(s)[n] = s[n + 1]
      /\ Head(s) = s[1] /\ DOMAIN s = 1..Len(s) /\ DOMAIN Tail(s) = 1..Len(Tail(s))
  OBVIOUS
<1>2. f \in [T -> S \ {1}]
  BY <1>1 DEF Drawn
<1>3. \A m, n \in T : f[m] = f[n] => m = n
  BY <1>1 DEF Drawn
<1>4. \A m \in S \ {1} : \E n \in T : f[n] = m
  <2>1. SUFFICES ASSUME NEW m \in S \ {1} PROVE m - 1 \in T /\ f[m - 1] = m
    BY <2>1
  <2>2. m \in 2..Len(s) /\ s[m].kind = "figure"
    BY <1>1 DEF Drawn
  <2>3. m - 1 \in 1..Len(Tail(s)) /\ Tail(s)[m - 1] = s[m]
    BY <1>1, <2>2
  <2>4. m - 1 \in T
    BY <1>1, <2>2, <2>3 DEF Drawn
  <2>5. QED
    BY <2>2, <2>4
<1>5. f \in Bijection(T, S \ {1})
  <2>1. f \in Injection(T, S \ {1})
    BY <1>2, <1>3 DEF Injection, IsInjective
  <2>2. f \in Surjection(T, S \ {1})
    BY <1>2, <1>4 DEF Surjection
  <2>3. QED
    BY <2>1, <2>2 DEF Bijection
<1>6. Cardinality(S \ {1}) = Cardinality(T)
  BY <1>1, <1>5, DrawnIsFinite, FS_Bijection DEF ExistsBijection
<1>7. Cardinality(S \ {1}) = IF 1 \in S THEN Cardinality(S) - 1 ELSE Cardinality(S)
  BY DrawnIsFinite, FS_RemoveElement
<1>8. 1 \in S <=> Head(s).kind = "figure"
  BY <1>1 DEF Drawn
<1>9. QED
  BY <1>6, <1>7, <1>8, DrawnIsFinite

\* A figure is one more, and the messages that end a cell are none.
LEMMA DrawnOfAppend ==
  ASSUME NEW s \in Seq(Message), NEW m \in Message
  PROVE  Cardinality(Drawn(Append(s, m))) = Cardinality(Drawn(s))
                                 + (IF m.kind = "figure" THEN 1 ELSE 0)
<1>1. /\ DOMAIN s = 1..Len(s) /\ DOMAIN Append(s, m) = 1..Len(s) + 1 /\ Len(s) \in Nat
      /\ \A n \in 1..Len(s) : Append(s, m)[n] = s[n]
      /\ Append(s, m)[Len(s) + 1] = m
  OBVIOUS
<1>2. Drawn(Append(s, m)) = Drawn(s) \cup (IF m.kind = "figure" THEN {Len(s) + 1} ELSE {})
  BY <1>1 DEF Drawn
<1>3. Len(s) + 1 \notin Drawn(s)
  BY <1>1 DEF Drawn
<1>4. IsFiniteSet(Drawn(s)) /\ Cardinality(Drawn(s)) \in Nat
  BY DrawnIsFinite
<1>5. Cardinality(Drawn(s) \cup {Len(s) + 1}) = Cardinality(Drawn(s)) + 1
  BY <1>3, <1>4, FS_AddElement
<1>6. CASE m.kind = "figure"
  BY <1>2, <1>5, <1>6
<1>7. CASE m.kind # "figure"
  <2>1. Drawn(Append(s, m)) = Drawn(s)
    BY <1>2, <1>7
  <2>2. QED
    BY <1>4, <1>7, <2>1
<1>8. QED
  BY <1>6, <1>7

-----------------------------------------------------------------------------
(* Types.                                                                  *)

\* What the figure number has left is enough for a figure that is read.
LEMMA RoomForHead ==
  ASSUME TypeOK, Shapes, RoomIsKept, iopub # <<>>
  PROVE  /\ Head(iopub) \in Message /\ Tail(iopub) \in Seq(Message)
         /\ Head(iopub).kind = "figure" =>
               figIndex \in Figures /\ figIndex + 1 \in 0..MaxInline
         /\ figIndex + (IF Head(iopub).kind = "figure" THEN 1 ELSE 0)
               + Cardinality(Drawn(Tail(iopub))) <= MaxInline
<1>1. Head(iopub) \in Message /\ Tail(iopub) \in Seq(Message)
  BY DEF Shapes
<1>2. Pending = Cardinality(Drawn(iopub))
  BY DEF Pending, Drawn
<1>3. Pending = Cardinality(Drawn(Tail(iopub)))
                + (IF Head(iopub).kind = "figure" THEN 1 ELSE 0)
  BY <1>2, DrawnOfTail DEF Shapes
<1>4. Cardinality(Drawn(Tail(iopub))) \in Nat
  BY <1>1, DrawnIsFinite
<1>5. figIndex \in Nat /\ MaxInline \in Nat /\ figIndex + Pending <= MaxInline
  BY CoderAssumption DEF TypeOK, RoomIsKept
<1>6. QED
  BY <1>1, <1>3, <1>4, <1>5 DEF Figures

LEMMA CurrentIsCell == TypeOK => Current \in Cells /\ Attempts \subseteq Nat
BY CoderAssumption DEF TypeOK, Current, Cells, Attempts

LEMMA RoomOfEmpty ==
  ASSUME TypeOK, iopub' = <<>>, UNCHANGED figIndex
  PROVE  RoomIsKept'
<1>1. {n \in DOMAIN iopub' : iopub'[n].kind = "figure"} = {}
  OBVIOUS
<1>2. Pending' = 0
  BY <1>1, FS_EmptySet DEF Pending
<1>3. QED
  BY <1>2, CoderAssumption DEF RoomIsKept, TypeOK

LEMMA RoomStays ==
  ASSUME RoomIsKept, UNCHANGED <<iopub, figIndex>>
  PROVE  RoomIsKept'
BY DEF RoomIsKept, Pending

\* The steps that touch neither the kernel processes, the channel nor files.
AgentStep ==
  \/ GetDirective \/ LookUpSkill \/ AskFails \/ TimesOut \/ ReadFails
  \/ MatlabStarts \/ MatlabEnds \/ Record \/ WriteNotebook \/ RecoverFigures
  \/ Report \/ EmitRaises \/ Accept \/ Rerun

LEMMA TypesOfAgentStep ==
  ASSUME TypeOK, Shapes, AgentStep
  PROVE  TypeOK' /\ Shapes'
<1> USE CoderAssumption DEF TypeOK, Shapes, turnVars, resultVars, sessionVars,
        kernelVars, fileVars, histVars
<1>1. CASE GetDirective
  BY <1>1 DEF GetDirective
<1>2. CASE LookUpSkill
  BY <1>2 DEF LookUpSkill
<1>3. CASE AskFails \/ WriteNotebook \/ Report \/ Accept
  <2>1. attempt \in 0..MaxAttempts
    BY DEF Attempts
  <2>2. CASE AskFails \/ Report
    BY <2>2 DEF AskFails, Report
  <2>3. CASE WriteNotebook
    BY <2>1, <2>3 DEF WriteNotebook
  <2>4. CASE Accept
    BY <2>4 DEF Accept
  <2>5. QED
    BY <1>3, <2>2, <2>3, <2>4
<1>4. CASE TimesOut \/ ReadFails
  BY <1>4, CurrentIsCell DEF TimesOut, ReadFails, NoResult
<1>5. CASE MatlabStarts
  BY <1>5 DEF MatlabStarts, NoResult, OnDisk
<1>6. CASE MatlabEnds
  BY <1>6 DEF MatlabEnds, OnDisk
<1>7. CASE Record
  <2>1. MaxTurns[attempt] \in Nat \ {0} /\ turn \in Nat
    BY DEF Attempts
  <2>2. turn' \in 0..(MaxTurns[attempt] - 1) /\ pc' \in {"notebook", "ask"}
    BY <1>7, <2>1 DEF Record, RecordCell
  <2>3. paths' \subseteq Figures
    BY <1>7 DEF Record, RecordCell
  <2>4. figures' \subseteq Names
    BY <1>7 DEF Record, RecordCell, Directive
  <2>5. QED
    BY <1>7, <2>2, <2>3, <2>4 DEF Record, RecordCell
<1>8. CASE RecoverFigures
  BY <1>8 DEF RecoverFigures, OnDisk
<1>9. CASE EmitRaises
  BY <1>9 DEF EmitRaises, Fault
<1>10. CASE Rerun
  BY <1>10 DEF Rerun, Attempts
<1>11. QED
  BY <1>1, <1>2, <1>3, <1>4, <1>5, <1>6, <1>7, <1>8, <1>9, <1>10 DEF AgentStep

Idle(c)   == [of |-> c, kind |-> "idle"]
Broken(c) == [of |-> c, kind |-> "error"]

\* A process that ends a cell says idle, after an error or without.
LEMMA EndIsPublished ==
  ASSUME Shapes, NEW p \in Attempts, KernelEnds(p)
  PROVE  LET c == Head(queue[p]).of IN
         /\ queue[p] # <<>> /\ c \in Cells
         /\ queue' = [queue EXCEPT ![p] = Tail(queue[p])]
         /\ iopub' \in {iopub, Append(iopub, Idle(c)),
                        Append(Append(iopub, Broken(c)), Idle(c))}
<1> DEFINE c == Head(queue[p]).of
<1>1. queue[p] # <<>> /\ queue[p] \in Seq(Request) /\ Head(queue[p]) \in Request
  BY DEF Shapes, KernelEnds
<1>2. c \in Cells /\ queue' = [queue EXCEPT ![p] = Tail(queue[p])]
  BY <1>1 DEF Request, KernelEnds
<1>0. iopub \in Seq(Message) /\ Idle(c) \in Message /\ Broken(c) \in Message
  BY <1>2 DEF Shapes, Message, Idle, Broken
<1>3. PICK kinds \in {<<"idle">>, <<"error", "idle">>} :
        Publish(p, [n \in DOMAIN kinds |-> [of |-> c, kind |-> kinds[n]]])
  BY DEF KernelEnds
<1>4. CASE kinds = <<"idle">>
  <2>1. [n \in DOMAIN kinds |-> [of |-> c, kind |-> kinds[n]]] = <<Idle(c)>>
    BY <1>4 DEF Idle
  <2>2. Append(iopub, Idle(c)) = iopub \o <<Idle(c)>>
    BY <1>0, AppendIsConcat
  <2>3. QED
    BY <1>1, <1>2, <1>3, <2>1, <2>2 DEF Publish
<1>5. CASE kinds = <<"error", "idle">>
  <2>1. [n \in DOMAIN kinds |-> [of |-> c, kind |-> kinds[n]]] = <<Broken(c), Idle(c)>>
    BY <1>5 DEF Idle, Broken
  <2>2. Append(Append(iopub, Broken(c)), Idle(c)) = iopub \o <<Broken(c), Idle(c)>>
    BY <1>0
  <2>3. QED
    BY <1>1, <1>2, <1>3, <2>1, <2>2 DEF Publish
<1>6. QED
  BY <1>4, <1>5

LEMMA DrawIsPublished ==
  ASSUME Shapes, NEW p \in Attempts, KernelDraws(p)
  PROVE  LET head == Head(queue[p])
             fig  == [of |-> head.of, kind |-> "figure"]
         IN  /\ queue[p] # <<>> /\ head \in Request /\ fig \in Message
             /\ queue' = [queue EXCEPT ![p] = <<[head EXCEPT !.drew = TRUE]>>
                                              \o Tail(queue[p])]
             /\ iopub' \in {iopub, Append(iopub, fig)}
<1>1. queue[p] # <<>> /\ queue[p] \in Seq(Request) /\ Head(queue[p]) \in Request
  BY DEF Shapes, KernelDraws
<1>2. [of |-> Head(queue[p]).of, kind |-> "figure"] \in Message
  BY <1>1 DEF Request, Message
<1>3. QED
  BY <1>1, <1>2 DEF KernelDraws, Publish, Shapes

LEMMA TypesOfKernel ==
  ASSUME TypeOK, Shapes, NEW p \in Attempts,
         KernelSaves(p) \/ KernelDraws(p) \/ KernelEnds(p) \/ KernelDies(p)
  PROVE  TypeOK' /\ Shapes'
<1> USE DEF TypeOK, turnVars, resultVars, sessionVars, kernelVars, fileVars, histVars
<1>1. CASE KernelSaves(p)
  <2>1. Head(queue[p]).of \in Cells
    <3>1. queue[p] \in Seq(Request) /\ queue[p] # <<>>
      BY <1>1 DEF KernelSaves, Shapes
    <3>2. Head(queue[p]) \in Request
      BY <3>1
    <3>3. QED
      BY <3>2 DEF Request
  <2>2. QED
    BY <1>1, <2>1 DEF KernelSaves, Shapes
<1>2. CASE KernelDraws(p)
  <2>1. queue' \in [Attempts -> Seq(Request)]
    <3>0. /\ queue[p] \in Seq(Request) /\ queue[p] # <<>> /\ Head(queue[p]) \in Request
          /\ queue \in [Attempts -> Seq(Request)]
          /\ queue' = [queue EXCEPT ![p] = <<[Head(queue[p]) EXCEPT !.drew = TRUE]>>
                                            \o Tail(queue[p])]
      BY <1>2, DrawIsPublished DEF Shapes
    <3>1. [Head(queue[p]) EXCEPT !.drew = TRUE] \in Request
      BY <3>0 DEF Request
    <3>2. <<[Head(queue[p]) EXCEPT !.drew = TRUE]>> \o Tail(queue[p]) \in Seq(Request)
      BY <3>0, <3>1
    <3>3. QED
      BY <3>0, <3>2
  <2>2. iopub' \in Seq(Message)
    <3>1. iopub \in Seq(Message)
      BY DEF Shapes
    <3>2. PICK m \in Message : iopub' \in {iopub, Append(iopub, m)}
      BY <1>2, DrawIsPublished
    <3>3. Append(iopub, m) \in Seq(Message)
      BY <3>1, <3>2
    <3>4. QED
      BY <3>1, <3>2, <3>3
  <2>3. QED
    BY <1>2, <2>1, <2>2 DEF KernelDraws, Shapes
<1>3. CASE KernelEnds(p)
  <2>1. queue' \in [Attempts -> Seq(Request)]
    <3>1. queue[p] \in Seq(Request) /\ queue \in [Attempts -> Seq(Request)]
      BY DEF Shapes
    <3>2. queue[p] # <<>> /\ queue' = [queue EXCEPT ![p] = Tail(queue[p])]
      BY <1>3, EndIsPublished
    <3>3. Tail(queue[p]) \in Seq(Request)
      BY <3>1, <3>2
    <3>4. QED
      BY <3>1, <3>2, <3>3
  <2>2. iopub' \in Seq(Message)
    <3>1. iopub \in Seq(Message)
      BY DEF Shapes
    <3>2. PICK a \in Message, b \in Message :
            iopub' \in {iopub, Append(iopub, a), Append(Append(iopub, b), a)}
      <4>1. Head(queue[p]).of \in Cells
        BY <1>3, EndIsPublished
      <4>2. Idle(Head(queue[p]).of) \in Message /\ Broken(Head(queue[p]).of) \in Message
        BY <4>1 DEF Message, Idle, Broken
      <4>3. QED
        BY <1>3, <4>2, EndIsPublished
    <3>3. Append(iopub, a) \in Seq(Message) /\ Append(iopub, b) \in Seq(Message)
      BY <3>1, <3>2
    <3>4. Append(Append(iopub, b), a) \in Seq(Message)
      BY <3>2, <3>3
    <3>5. QED
      BY <3>1, <3>2, <3>3, <3>4
  <2>3. QED
    BY <1>3, <2>1, <2>2 DEF KernelEnds, Shapes
<1>4. CASE KernelDies(p)
  BY <1>4, CoderAssumption DEF KernelDies, Fault, Shapes
<1>5. QED
  BY <1>1, <1>2, <1>3, <1>4

LEMMA TypesOfSession ==
  ASSUME TypeOK, Shapes, RoomIsKept, OneSession,
         \/ StartKernel \/ StartFails \/ Execute \/ ReadMessage
         \/ Shutdown \/ ShutdownFails \/ MatlabSaves
  PROVE  TypeOK' /\ Shapes'
<1> USE DEF turnVars, resultVars, sessionVars, kernelVars, fileVars, histVars
<1>0. /\ attempt \in Attempts /\ attempt \in 0..MaxAttempts /\ MaxAttempts \in Nat
      /\ Names \subseteq Figures /\ 0 \in 0..MaxAttempts
  BY CoderAssumption DEF TypeOK, Attempts, Figures
<1>1. CASE StartKernel \/ StartFails
  <2>1. iopub' \in Seq(Message)
    <3>1. iopub' = iopub \/ iopub' = <<>>
      BY <1>1 DEF StartKernel, StartFails
    <3>2. iopub \in Seq(Message) /\ <<>> \in Seq(Message)
      BY DEF Shapes
    <3>3. QED
      BY <3>1, <3>2
  <2>2. /\ procs' \subseteq Attempts /\ leaked' \subseteq Attempts
        /\ started' \in BOOLEAN /\ km' \in 0..MaxAttempts /\ faults' \in 0..MaxFaults
    <3>1. CASE StartKernel
      BY <1>0, <3>1 DEF StartKernel, TypeOK
    <3>2. CASE StartFails
      BY <1>0, <3>2, CoderAssumption DEF StartFails, Fault, TypeOK
    <3>3. QED
      BY <1>1, <3>1, <3>2
  <2>3. /\ pc' \in {"ask", "failed"} /\ outcome' \in {outcome, "raised"}
        /\ UNCHANGED <<turnVars, cell, resultVars, queue, fileVars, notebook, output, late>>
    BY <1>1 DEF StartKernel, StartFails
  <2>4. QED
    BY <1>0, <2>1, <2>2, <2>3 DEF Shapes, TypeOK
<1>2. CASE Execute
  <2>1. [of |-> Current, drew |-> FALSE] \in Request
    BY CurrentIsCell DEF Request
  <2>2. queue' \in [Attempts -> Seq(Request)]
    <3>1. queue \in [Attempts -> Seq(Request)]
      BY DEF Shapes
    <3>2. km \in procs => km \in Attempts /\ Append(queue[km], [of |-> Current, drew |-> FALSE])
                                              \in Seq(Request)
      BY <2>1, <3>1 DEF TypeOK
    <3>3. QED
      BY <1>2, <3>1, <3>2 DEF Execute
  <2>3. cell' = NoResult /\ NoResult \in [error : BOOLEAN, figs : SUBSET Figures,
                                          from : SUBSET (Cells \cup {NoCell})]
    BY <1>2 DEF Execute, NoResult
  <2>4. QED
    BY <1>2, <2>2, <2>3 DEF Execute, Shapes, TypeOK
<1>3. CASE ReadMessage
  <2>1. iopub # <<>>
    BY <1>3 DEF ReadMessage
  <2>2. Head(iopub) \in Message /\ iopub' \in Seq(Message)
    BY <1>3, <2>1, RoomForHead DEF ReadMessage
  <2>3. CASE ~ IsOurs(Head(iopub))
    BY <1>3, <2>2, <2>3 DEF ReadMessage, Shapes, TypeOK
  <2>4. CASE IsOurs(Head(iopub))
    <3>0. /\ cell \in [error : BOOLEAN, figs : SUBSET Figures,
                       from : SUBSET (Cells \cup {NoCell})]
          /\ disk \in [Figures -> Cells \cup {NoCell}] /\ figIndex \in 0..MaxInline
          /\ Head(iopub).of \in Cells
          /\ Head(iopub).kind = "figure" => figIndex \in Figures /\ figIndex + 1 \in 0..MaxInline
      BY <2>1, <2>2, RoomForHead DEF Shapes, TypeOK, Message
    <3>1. cell' \in [error : BOOLEAN, figs : SUBSET Figures,
                     from : SUBSET (Cells \cup {NoCell})]
      <4> DEFINE m == Head(iopub)
                 figs == IF m.kind = "figure" THEN {figIndex} ELSE {}
      <4>1. cell' = [error |-> cell.error \/ m.kind = "error",
                     figs |-> cell.figs \cup figs, from |-> cell.from \cup {m.of}]
        BY <1>3, <2>4 DEF ReadMessage
      <4>2. figs \subseteq Figures /\ {m.of} \subseteq Cells
        BY <3>0
      <4>3. cell.figs \cup figs \in SUBSET Figures
        BY <3>0, <4>2
      <4>4. cell.from \cup {m.of} \in SUBSET (Cells \cup {NoCell})
        BY <3>0, <4>2
      <4>5. (cell.error \/ m.kind = "error") \in BOOLEAN
        OBVIOUS
      <4> HIDE DEF m, figs
      <4>6. QED
        BY <4>1, <4>3, <4>4, <4>5
    <3>2. disk' \in [Figures -> Cells \cup {NoCell}] /\ figIndex' \in 0..MaxInline
      BY <1>3, <2>4, <3>0 DEF ReadMessage
    <3>3. pc' \in {"running", "record"}
      BY <1>3, <2>4 DEF ReadMessage
    <3>4. QED
      BY <1>3, <2>2, <3>1, <3>2, <3>3 DEF ReadMessage, Shapes, TypeOK
  <2>5. QED
    BY <2>3, <2>4
<1>4. CASE Shutdown \/ ShutdownFails
  <2>1. pc = "shutdown" /\ km = attempt
    BY <1>4 DEF Shutdown, ShutdownFails, OneSession, AtWork
  <2>2. pc' \in {"review", "settled", "failed"}
    BY <1>4 DEF Shutdown, ShutdownFails, Leave
  <2>3. output' \in [attempt : 0..MaxAttempts, made : [Figures -> Cells \cup {NoCell}]]
    <3>1. /\ disk \in [Figures -> Cells \cup {NoCell}]
          /\ output \in [attempt : 0..MaxAttempts, made : [Figures -> Cells \cup {NoCell}]]
      BY DEF Shapes
    <3>2. QED
      BY <1>0, <1>4, <3>1 DEF Shutdown, ShutdownFails, Leave
  <2>4. /\ km' = 0 /\ iopub' = <<>> /\ started' = FALSE
        /\ UNCHANGED <<outcome, turnVars, cell, resultVars, fileVars, notebook, late>>
    BY <1>4 DEF Shutdown, ShutdownFails, Forget
  <2>5. /\ procs' \subseteq procs /\ queue' \in [Attempts -> Seq(Request)]
        /\ leaked' \subseteq leaked \cup {km} /\ faults' \in 0..MaxFaults
    <3>1. queue \in [Attempts -> Seq(Request)] /\ <<>> \in Seq(Request)
      BY DEF Shapes
    <3>2. queue' = queue \/ queue' = [queue EXCEPT ![km] = <<>>]
      BY <1>4 DEF Shutdown, ShutdownFails
    <3>3. queue' \in [Attempts -> Seq(Request)]
      BY <1>0, <2>1, <3>1, <3>2
    <3>4. QED
      BY <1>4, <3>3, CoderAssumption DEF Shutdown, ShutdownFails, Fault, TypeOK
  <2>6. iopub' \in Seq(Message)
    BY <2>4
  <2>7. QED
    BY <1>0, <2>1, <2>2, <2>3, <2>4, <2>5, <2>6 DEF Shapes, TypeOK
<1>5. CASE MatlabSaves
  <2>1. disk' \in [Figures -> Cells \cup {NoCell}]
    BY <1>0, <1>5, CurrentIsCell DEF MatlabSaves, Shapes
  <2>2. QED
    BY <1>5, <2>1 DEF MatlabSaves, Shapes, TypeOK
<1>6. QED
  BY <1>1, <1>2, <1>3, <1>4, <1>5

LEMMA PendingIsDrawn == Pending = Cardinality(Drawn(iopub))
BY DEF Pending, Drawn

LEMMA RoomStep ==
  ASSUME TypeOK, Shapes, RoomIsKept, [Next]_vars
  PROVE  RoomIsKept'
<1> USE DEF fileVars, kernelVars, sessionVars
<1>0. iopub \in Seq(Message) /\ figIndex \in Nat /\ MaxInline \in Nat
  BY CoderAssumption DEF Shapes, TypeOK
<1>1. CASE AgentStep
  BY <1>1, RoomStays DEF AgentStep, GetDirective, LookUpSkill, AskFails, TimesOut,
     ReadFails, MatlabStarts, MatlabEnds, Record, RecordCell, WriteNotebook,
     RecoverFigures, Report, EmitRaises, Accept, Rerun
<1>2. CASE Execute \/ StartFails \/ MatlabSaves
  BY <1>2, RoomStays DEF Execute, StartFails, MatlabSaves
<1>3. CASE StartKernel
  BY <1>3, RoomStays, RoomOfEmpty DEF StartKernel
<1>4. CASE Shutdown \/ ShutdownFails
  BY <1>4, RoomOfEmpty DEF Shutdown, ShutdownFails, Forget
<1>5. CASE ReadMessage
  <2>1. iopub # <<>> /\ iopub' = Tail(iopub)
    BY <1>5 DEF ReadMessage
  <2>2. \/ figIndex' = figIndex
        \/ Head(iopub).kind = "figure" /\ figIndex' = figIndex + 1
    <3>1. CASE IsOurs(Head(iopub)) /\ Head(iopub).kind = "figure"
      BY <1>5, <3>1 DEF ReadMessage
    <3>2. CASE IsOurs(Head(iopub)) /\ Head(iopub).kind # "figure"
      <4>1. UNCHANGED fileVars
        BY <1>5, <3>2 DEF ReadMessage
      <4>2. QED
        BY <4>1
    <3>3. CASE ~ IsOurs(Head(iopub))
      <4>1. UNCHANGED fileVars
        BY <1>5, <3>3 DEF ReadMessage
      <4>2. QED
        BY <4>1
    <3>4. QED
      BY <3>1, <3>2, <3>3
  <2>3. Pending' = Cardinality(Drawn(Tail(iopub)))
    BY <2>1, PendingIsDrawn DEF Pending, Drawn
  <2>4. Cardinality(Drawn(Tail(iopub))) \in Nat
    <3>1. Tail(iopub) \in Seq(Message)
      BY <1>0, <2>1
    <3>2. QED
      BY <3>1, DrawnIsFinite
  <2>5. QED
    BY <1>0, <2>1, <2>2, <2>3, <2>4, RoomForHead DEF RoomIsKept
<1>6. ASSUME NEW p \in Attempts, KernelSaves(p) \/ KernelDies(p)
      PROVE  RoomIsKept'
  BY <1>6, RoomStays DEF KernelSaves, KernelDies
<1>7. ASSUME NEW p \in Attempts, KernelDraws(p)
      PROVE  RoomIsKept'
  <2>1. PICK m \in Message : m.kind = "figure" /\ iopub' \in {iopub, Append(iopub, m)}
    BY <1>7, DrawIsPublished
  <2>2. figIndex + Pending < MaxInline /\ UNCHANGED figIndex
    BY <1>7 DEF KernelDraws
  <2>3. Pending' = Cardinality(Drawn(iopub'))
    BY PendingIsDrawn DEF Pending, Drawn
  <2>4. Cardinality(Drawn(Append(iopub, m))) = Cardinality(Drawn(iopub)) + 1
    BY <1>0, <2>1, DrawnOfAppend
  <2>5. Cardinality(Drawn(iopub)) \in Nat
    BY <1>0, DrawnIsFinite
  <2>6. Pending = Cardinality(Drawn(iopub)) /\ Pending' \in {Pending, Pending + 1}
    BY <2>1, <2>3, <2>4, PendingIsDrawn
  <2>7. QED
    BY <1>0, <2>2, <2>5, <2>6 DEF RoomIsKept
<1>8. ASSUME NEW p \in Attempts, KernelEnds(p)
      PROVE  RoomIsKept'
  <2>1. PICK a \in Message, b \in Message :
          /\ a.kind # "figure" /\ b.kind # "figure"
          /\ iopub' \in {iopub, Append(iopub, a), Append(Append(iopub, b), a)}
    <3>1. Head(queue[p]).of \in Cells
      BY <1>8, EndIsPublished
    <3>2. /\ Idle(Head(queue[p]).of) \in Message /\ Broken(Head(queue[p]).of) \in Message
          /\ Idle(Head(queue[p]).of).kind # "figure" /\ Broken(Head(queue[p]).of).kind # "figure"
      BY <3>1 DEF Message, Idle, Broken
    <3>3. QED
      BY <1>8, <3>2, EndIsPublished
  <2>2. Append(iopub, b) \in Seq(Message)
    BY <1>0
  <2>3. Cardinality(Drawn(iopub)) \in Nat
    BY <1>0, DrawnIsFinite
  <2>4. Cardinality(Drawn(Append(iopub, a))) = Cardinality(Drawn(iopub))
    BY <1>0, <2>1, <2>3, DrawnOfAppend
  <2>5. Cardinality(Drawn(Append(Append(iopub, b), a))) = Cardinality(Drawn(iopub))
    <3>1. Cardinality(Drawn(Append(iopub, b))) = Cardinality(Drawn(iopub))
      BY <1>0, <2>1, <2>3, DrawnOfAppend
    <3>2. QED
      <4>1. Cardinality(Drawn(Append(Append(iopub, b), a))) = Cardinality(Drawn(Append(iopub, b))) + 0
        BY <2>1, <2>2, DrawnOfAppend
      <4>2. QED
        BY <2>3, <3>1, <4>1
  <2>6. UNCHANGED figIndex /\ Pending' = Cardinality(Drawn(iopub'))
    BY <1>8, PendingIsDrawn DEF KernelEnds, Pending, Drawn
  <2>7. QED
    BY <1>0, <2>1, <2>4, <2>5, <2>6, PendingIsDrawn DEF RoomIsKept
<1>9. CASE UNCHANGED vars
  BY <1>9, RoomStays DEF vars
<1>10. QED
  BY <1>1, <1>2, <1>3, <1>4, <1>5, <1>6, <1>7, <1>8, <1>9
  DEF Next, Worker, Kernel, AgentStep

LEMMA TypesStep ==
  ASSUME TypeOK, Shapes, RoomIsKept, OneSession, [Next]_vars
  PROVE  TypeOK' /\ Shapes'
<1>1. CASE UNCHANGED vars
  BY <1>1 DEF vars, turnVars, resultVars, sessionVars, kernelVars, fileVars,
              histVars, TypeOK, Shapes
<1>2. CASE Next
  BY <1>2, TypesOfAgentStep, TypesOfKernel, TypesOfSession
  DEF Next, Worker, Kernel, AgentStep
<1>3. QED
  BY <1>1, <1>2

-----------------------------------------------------------------------------
(* One kernel process for each attempt.                                    *)

\* The shape of a step: where coder.run goes, and what it does to its session.
LEMMA SessionStep ==
  ASSUME TypeOK, OneSession, OutcomeInTime, [Next]_vars
  PROVE  OneSession' /\ OutcomeInTime'
<1> USE DEF OneSession, OutcomeInTime, AtWork, sessionVars, turnVars, kernelVars,
            histVars
<1>1. CASE GetDirective \/ LookUpSkill \/ AskFails
  BY <1>1 DEF GetDirective, LookUpSkill, AskFails
<1>2. CASE TimesOut \/ ReadFails \/ MatlabStarts \/ MatlabEnds
  BY <1>2 DEF TimesOut, ReadFails, MatlabStarts, MatlabEnds
<1>3. CASE Record \/ WriteNotebook \/ RecoverFigures \/ Report
  BY <1>3 DEF Record, RecordCell, WriteNotebook, RecoverFigures, Report
<1>4. CASE EmitRaises \/ Accept \/ Rerun
  BY <1>4 DEF EmitRaises, Accept, Rerun
<1>5. CASE StartKernel \/ StartFails
  <2>1. CASE StartKernel
    <3>1. pc = "begin" /\ ~ started /\ pc' = "ask"
      BY <2>1 DEF StartKernel
    <3>2. procs' = procs \cup {attempt} /\ km' = attempt /\ started' = TRUE
      BY <2>1, <3>1 DEF StartKernel
    <3>3. UNCHANGED <<attempt, leaked, outcome, directive>> /\ km = 0 /\ procs \subseteq leaked \cup {0}
      BY <2>1, <3>1 DEF StartKernel
    <3>4. 0 \notin procs
      BY DEF TypeOK, Attempts
    <3>5. QED
      BY <3>1, <3>2, <3>3, <3>4
  <2>2. CASE StartFails
    <3>1. PICK spawned \in SUBSET {attempt} :
            procs' = procs \cup spawned /\ leaked' = leaked \cup spawned
      BY <2>2 DEF StartFails
    <3>2. pc = "begin" /\ pc' = "failed" /\ UNCHANGED <<started, km, directive>>
      BY <2>2 DEF StartFails
    <3>3. QED
      BY <3>1, <3>2
  <2>3. QED
    BY <1>5, <2>1, <2>2
<1>6. CASE Execute \/ ReadMessage \/ MatlabSaves
  BY <1>6 DEF Execute, ReadMessage, MatlabSaves
<1>7. CASE Shutdown \/ ShutdownFails
  <2>1. pc = "shutdown" /\ started' = FALSE /\ km' = 0 /\ UNCHANGED outcome
    BY <1>7 DEF Shutdown, ShutdownFails, Forget
  <2>2. pc' \in {"review", "settled", "failed"} /\ (pc' = "review" => outcome = "returned")
    BY <1>7 DEF Shutdown, ShutdownFails, Leave
  <2>3. procs' \subseteq leaked'
    BY <1>7 DEF Shutdown, ShutdownFails
  <2>4. QED
    BY <2>1, <2>2, <2>3
<1>8. CASE Kernel
  BY <1>8 DEF Kernel, KernelSaves, KernelDraws, KernelEnds, KernelDies
<1>9. CASE UNCHANGED vars
  BY <1>9 DEF vars
<1>10. QED
  BY <1>1, <1>2, <1>3, <1>4, <1>5, <1>6, <1>7, <1>8, <1>9 DEF Next, Worker

-----------------------------------------------------------------------------
(* Requests and messages: which cells they are of.                         *)

\* What a step makes of the requests of process p.
SameCells(p) == /\ DOMAIN queue'[p] = DOMAIN queue[p]
                /\ \A n \in DOMAIN queue[p] : queue'[p][n].of = queue[p][n].of

OneDone(p) == queue[p] # <<>> /\ queue'[p] = Tail(queue[p])

OneMore(p) == /\ pc = "dispatch" /\ pc' = "running" /\ p = attempt
              /\ UNCHANGED <<attempt, turn, iopub>>
              /\ queue'[p] = Append(queue[p], [of |-> Current, drew |-> FALSE])

LEMMA QueueMoves ==
  ASSUME TypeOK, Shapes, OneSession, [Next]_vars, NEW p \in Attempts
  PROVE  SameCells(p) \/ queue'[p] = <<>> \/ OneDone(p) \/ OneMore(p)
<1>0. /\ queue \in [Attempts -> Seq(Request)] /\ queue[p] \in Seq(Request)
      /\ procs \subseteq Attempts
  BY DEF Shapes, TypeOK
<1>1. CASE UNCHANGED queue
  BY <1>1 DEF SameCells
<1>2. CASE Execute
  <2>1. km = attempt /\ pc = "dispatch" /\ pc' = "running" /\ UNCHANGED <<turnVars, iopub>>
    BY <1>2 DEF Execute, OneSession, AtWork
  <2>2. queue' = queue \/ queue' = [queue EXCEPT ![km] =
                             Append(@, [of |-> Current, drew |-> FALSE])]
    BY <1>2 DEF Execute
  <2>3. CASE p = km
    BY <1>0, <1>1, <2>1, <2>2, <2>3 DEF OneMore, turnVars
  <2>4. CASE p # km
    BY <1>0, <2>2, <2>4 DEF SameCells
  <2>5. QED
    BY <2>3, <2>4
<1>3. CASE Shutdown
  BY <1>0, <1>3 DEF Shutdown, SameCells
<1>4. ASSUME NEW q \in Attempts, KernelDraws(q)
      PROVE  SameCells(p)
  <2>1. /\ queue' = [queue EXCEPT ![q] = <<[Head(queue[q]) EXCEPT !.drew = TRUE]>>
                                              \o Tail(queue[q])]
        /\ queue[q] # <<>> /\ queue[q] \in Seq(Request) /\ Head(queue[q]) \in Request
    BY <1>0, <1>4, DrawIsPublished
  <2>2. CASE p = q
    <3> DEFINE new == [Head(queue[q]) EXCEPT !.drew = TRUE]
    <3>1. new \in Request /\ new.of = Head(queue[q]).of
      BY <2>1 DEF Request
    <3> HIDE DEF new
    <3>2. /\ Tail(queue[q]) \in Seq(Request) /\ Len(Tail(queue[q])) = Len(queue[q]) - 1
          /\ \A i \in 1..Len(Tail(queue[q])) : Tail(queue[q])[i] = queue[q][i + 1]
          /\ Len(queue[q]) \in Nat \ {0} /\ Head(queue[q]) = queue[q][1]
      BY <2>1
    <3>3. <<new>> \in Seq(Request) /\ Len(<<new>>) = 1 /\ <<new>>[1] = new
      BY <3>1
    <3>4. /\ Len(<<new>> \o Tail(queue[q])) = Len(queue[q])
          /\ \A i \in 1..Len(queue[q]) : (<<new>> \o Tail(queue[q]))[i] =
                                         IF i <= 1 THEN <<new>>[i] ELSE Tail(queue[q])[i - 1]
          /\ <<new>> \o Tail(queue[q]) \in Seq(Request)
      BY <3>2, <3>3, ConcatProperties
    <3>5. queue'[p] = <<new>> \o Tail(queue[q])
      BY <1>0, <2>1, <2>2 DEF new
    <3>6. ASSUME NEW n \in 1..Len(queue[q])
          PROVE  queue'[p][n].of = queue[q][n].of
      <4>1. CASE n = 1
        BY <3>1, <3>2, <3>3, <3>4, <3>5, <4>1
      <4>2. CASE n # 1
        BY <3>2, <3>4, <3>5, <4>2
      <4>3. QED
        BY <4>1, <4>2
    <3>7. DOMAIN queue'[p] = 1..Len(queue[q]) /\ DOMAIN queue[q] = 1..Len(queue[q])
      BY <2>1, <3>4, <3>5
    <3>8. QED
      BY <2>2, <3>6, <3>7 DEF SameCells
  <2>3. CASE p # q
    BY <1>0, <2>1, <2>3 DEF SameCells
  <2>4. QED
    BY <2>2, <2>3
<1>5. ASSUME NEW q \in Attempts, KernelEnds(q)
      PROVE  SameCells(p) \/ OneDone(p)
  BY <1>0, <1>5, EndIsPublished DEF SameCells, OneDone
<1>6. ASSUME NEW q \in Attempts, KernelDies(q)
      PROVE  SameCells(p) \/ queue'[p] = <<>>
  BY <1>0, <1>6 DEF KernelDies, SameCells
<1>7. CASE AgentStep \/ StartKernel \/ StartFails \/ ReadMessage \/ ShutdownFails
           \/ MatlabSaves \/ (\E q \in Attempts : KernelSaves(q)) \/ UNCHANGED vars
  BY <1>1, <1>7 DEF AgentStep, GetDirective, LookUpSkill, AskFails, TimesOut,
     ReadFails, MatlabStarts, MatlabEnds, Record, RecordCell, WriteNotebook,
     RecoverFigures, Report, EmitRaises, Accept, Rerun, StartKernel, StartFails,
     ReadMessage, ShutdownFails, MatlabSaves, KernelSaves, vars, kernelVars
<1>8. QED
  BY <1>2, <1>3, <1>4, <1>5, <1>6, <1>7 DEF Next, Worker, Kernel, AgentStep

\* A message on the channel was there, or is of the cell a process runs; when
\* it says idle, the process is through with the cell.
LEMMA ChannelMoves ==
  ASSUME TypeOK, Shapes, [Next]_vars, NEW n \in DOMAIN iopub'
  PROVE  \/ \E m \in DOMAIN iopub : iopub'[n] = iopub[m]
         \/ \E p \in Attempts : /\ queue[p] # <<>> /\ iopub'[n].of = Head(queue[p]).of
                                /\ iopub'[n].kind = "idle" =>
                                      queue' = [queue EXCEPT ![p] = Tail(queue[p])]
<1>0. iopub \in Seq(Message)
  BY DEF Shapes
<1>1. CASE iopub' = iopub \/ iopub' = <<>>
  BY <1>1
<1>2. CASE ReadMessage
  <2>1. iopub # <<>> /\ iopub' = Tail(iopub)
    BY <1>2 DEF ReadMessage
  <2>2. n + 1 \in DOMAIN iopub /\ iopub'[n] = iopub[n + 1]
    BY <1>0, <2>1
  <2>3. QED
    BY <2>2
<1>3. ASSUME NEW p \in Attempts, KernelDraws(p)
      PROVE  \/ \E m \in DOMAIN iopub : iopub'[n] = iopub[m]
             \/ iopub'[n].of = Head(queue[p]).of /\ iopub'[n].kind = "figure"
  <2> DEFINE fig == [of |-> Head(queue[p]).of, kind |-> "figure"]
  <2>1. iopub' = iopub \/ iopub' = Append(iopub, fig)
    BY <1>3, DrawIsPublished
  <2>2. fig.of = Head(queue[p]).of /\ fig.kind = "figure"
    OBVIOUS
  <2> HIDE DEF fig
  <2>3. CASE iopub' = Append(iopub, fig)
    <3>1. n \in DOMAIN iopub \/ n = Len(iopub) + 1
      BY <1>0, <2>3
    <3>2. n \in DOMAIN iopub => iopub'[n] = iopub[n]
      BY <1>0, <2>3
    <3>3. n = Len(iopub) + 1 => iopub'[n] = fig
      BY <1>0, <2>3
    <3>4. QED
      BY <2>2, <3>1, <3>2, <3>3
  <2>4. QED
    BY <1>1, <2>1, <2>3
<1>4. ASSUME NEW p \in Attempts, KernelEnds(p)
      PROVE  \/ \E m \in DOMAIN iopub : iopub'[n] = iopub[m]
             \/ iopub'[n].of = Head(queue[p]).of
  <2> DEFINE c == Head(queue[p]).of
  <2>1. /\ c \in Cells
        /\ iopub' \in {iopub, Append(iopub, Idle(c)),
                        Append(Append(iopub, Broken(c)), Idle(c))}
    BY <1>4, EndIsPublished
  <2>2. /\ Idle(c).of = c /\ Broken(c).of = c
        /\ Idle(c) \in Message /\ Broken(c) \in Message
    BY <2>1 DEF Idle, Broken, Message
  <2>3. CASE iopub' = Append(iopub, Idle(c))
    <3>1. n \in DOMAIN iopub \/ n = Len(iopub) + 1
      BY <1>0, <2>3
    <3>2. n \in DOMAIN iopub => iopub'[n] = iopub[n]
      BY <1>0, <2>3
    <3>3. n = Len(iopub) + 1 => iopub'[n] = Idle(c)
      BY <1>0, <2>3
    <3>4. QED
      BY <2>2, <3>1, <3>2, <3>3
  <2>4. CASE iopub' = Append(Append(iopub, Broken(c)), Idle(c))
    <3>1. Append(iopub, Broken(c)) \in Seq(Message)
      BY <1>0, <2>2
    <3>2. n \in DOMAIN iopub \/ n = Len(iopub) + 1 \/ n = Len(iopub) + 2
      BY <1>0, <2>4, <3>1
    <3>3. n \in DOMAIN iopub => iopub'[n] = iopub[n]
      BY <1>0, <2>4, <3>1
    <3>4. n = Len(iopub) + 1 => iopub'[n] = Broken(c)
      BY <1>0, <2>2, <2>4, <3>1
    <3>5. n = Len(iopub) + 2 => iopub'[n] = Idle(c)
      BY <1>0, <2>4, <3>1
    <3>6. QED
      BY <2>2, <3>2, <3>3, <3>4, <3>5
  <2>5. QED
    BY <1>1, <2>1, <2>3, <2>4
<1>5. CASE AgentStep \/ StartKernel \/ StartFails \/ Execute \/ Shutdown \/ ShutdownFails
           \/ MatlabSaves \/ (\E q \in Attempts : KernelSaves(q) \/ KernelDies(q))
           \/ UNCHANGED vars
  BY <1>1, <1>5 DEF AgentStep, GetDirective, LookUpSkill, AskFails, TimesOut,
     ReadFails, MatlabStarts, MatlabEnds, Record, RecordCell, WriteNotebook,
     RecoverFigures, Report, EmitRaises, Accept, Rerun, StartKernel, StartFails,
     Execute, Shutdown, ShutdownFails, Forget, MatlabSaves, KernelSaves, KernelDies,
     vars
<1>6. CASE \E p \in Attempts : KernelDraws(p)
  BY <1>3, <1>6, DrawIsPublished
<1>7. CASE \E p \in Attempts : KernelEnds(p)
  BY <1>4, <1>7, EndIsPublished
<1>8. QED
  BY <1>2, <1>5, <1>6, <1>7 DEF Next, Worker, Kernel, AgentStep

\* The turns go on: what was issued stays issued.
LEMMA IssuedStays ==
  ASSUME TypeOK, [Next]_vars, NEW c \in Cells, Issued(c)
  PROVE  Issued(c)'
<1> USE DEF turnVars
<1>0. c[1] \in Nat /\ c[2] \in Nat /\ attempt \in Nat /\ turn \in Nat
  BY CurrentIsCell, CoderAssumption DEF Cells, Attempts, TypeOK
<1>1. CASE Record
  <2>1. pc = "record" /\ attempt' = attempt
    BY <1>1 DEF Record, RecordCell
  <2>2. \/ pc' = "notebook" /\ turn' = turn
        \/ pc' = "ask" /\ turn' = turn + 1
    BY <1>1 DEF Record, RecordCell
  <2>3. QED
    BY <1>0, <2>1, <2>2 DEF Issued, Current, Asking
<1>2. CASE Rerun
  <2>1. attempt' = attempt + 1
    BY <1>2 DEF Rerun
  <2>2. c[1] <= attempt
    BY <1>0 DEF Issued, Current
  <2>3. QED
    BY <1>0, <2>1, <2>2 DEF Issued
<1>3. CASE ~ Record /\ ~ Rerun
  <2>1. UNCHANGED <<attempt, turn>>
    BY <1>3 DEF Next, Worker, Kernel, GetDirective, LookUpSkill, AskFails, TimesOut,
       ReadFails, MatlabStarts, MatlabEnds, WriteNotebook,
       RecoverFigures, Report, EmitRaises, Accept, StartKernel, StartFails,
       ReadMessage, Execute, Shutdown, ShutdownFails, MatlabSaves, KernelSaves,
       KernelDraws, KernelEnds, KernelDies, vars
  <2>2. pc \notin Asking => pc' \notin Asking
    BY <1>3 DEF Next, Worker, Kernel, GetDirective, LookUpSkill, AskFails, TimesOut,
       ReadFails, MatlabStarts, MatlabEnds, WriteNotebook,
       RecoverFigures, Report, EmitRaises, Accept, StartKernel, StartFails,
       ReadMessage, Execute, Shutdown, ShutdownFails, Leave, MatlabSaves, KernelSaves,
       KernelDraws, KernelEnds, KernelDies, vars, Asking
  <2>3. QED
    BY <2>1, <2>2 DEF Issued, Current
<1>4. QED
  BY <1>1, <1>2, <1>3

\* The cells of the requests, before and after a step.
LEMMA RequestsAreCells ==
  ASSUME Shapes, NEW p \in Attempts
  PROVE  /\ queue[p] \in Seq(Request) /\ DOMAIN queue[p] = 1..Len(queue[p])
         /\ Len(queue[p]) \in Nat
         /\ \A n \in DOMAIN queue[p] : queue[p][n].of \in Cells
         /\ queue[p] # <<>> => /\ Head(queue[p]) = queue[p][1] /\ 1 \in DOMAIN queue[p]
                               /\ DOMAIN Tail(queue[p]) = 1..(Len(queue[p]) - 1)
                               /\ \A n \in 1..(Len(queue[p]) - 1) :
                                     /\ Tail(queue[p])[n] = queue[p][n + 1]
                                     /\ n + 1 \in DOMAIN queue[p]
<1>1. queue[p] \in Seq(Request)
  BY DEF Shapes
<1>2. \A n \in DOMAIN queue[p] : queue[p][n] \in Request
  BY <1>1
<1>3. \A n \in DOMAIN queue[p] : queue[p][n].of \in Cells
  BY <1>2 DEF Request
<1>4. QED
  BY <1>1, <1>3

\* A request after the step was there, or it is the one just sent.
LEMMA RequestMoves ==
  ASSUME TypeOK, Shapes, OneSession, [Next]_vars,
         NEW p \in Attempts, NEW n \in DOMAIN queue'[p]
  PROVE  \/ \E m \in DOMAIN queue[p] : queue'[p][n].of = queue[p][m].of
         \/ OneMore(p) /\ queue'[p][n].of = Current
<1>1. CASE SameCells(p)
  BY <1>1 DEF SameCells
<1>2. CASE queue'[p] = <<>>
  BY <1>2
<1>3. CASE OneDone(p)
  <2>1. n \in 1..(Len(queue[p]) - 1) /\ queue'[p][n] = queue[p][n + 1]
        /\ n + 1 \in DOMAIN queue[p]
    BY <1>3, RequestsAreCells DEF OneDone
  <2>2. QED
    BY <2>1
<1>4. CASE OneMore(p)
  <2> DEFINE new == [of |-> Current, drew |-> FALSE]
  <2>1. queue'[p] = Append(queue[p], new) /\ new.of = Current
    BY <1>4 DEF OneMore
  <2> HIDE DEF new
  <2>2. queue[p] \in Seq(Request)
    BY RequestsAreCells
  <2>3. n \in DOMAIN queue[p] \/ n = Len(queue[p]) + 1
    BY <2>1, <2>2
  <2>4. n \in DOMAIN queue[p] => queue'[p][n] = queue[p][n]
    BY <2>1, <2>2
  <2>5. n = Len(queue[p]) + 1 => queue'[p][n] = new
    BY <2>1, <2>2
  <2>6. QED
    BY <1>4, <2>1, <2>3, <2>4, <2>5
<1>5. QED
  BY <1>1, <1>2, <1>3, <1>4, QueueMoves

LEMMA InOrderStep ==
  ASSUME TypeOK, Shapes, OneSession, InOrder, [Next]_vars
  PROVE  InOrder'
<1>1. \A c \in Cells : Issued(c) => Issued(c)'
  BY IssuedStays
<1>2. ASSUME NEW p \in Attempts, NEW n \in DOMAIN queue'[p]
      PROVE  queue'[p][n].of[1] = p /\ Issued(queue[p][n].of)'
  <2>1. CASE \E m \in DOMAIN queue[p] : queue'[p][n].of = queue[p][m].of
    <3>1. PICK m \in DOMAIN queue[p] : queue'[p][n].of = queue[p][m].of
      BY <2>1
    <3>2. /\ queue[p][m].of \in Cells /\ queue[p][m].of[1] = p
          /\ Issued(queue[p][m].of)
      BY RequestsAreCells DEF InOrder
    <3>3. QED
      BY <1>1, <3>1, <3>2 DEF Issued, Current
  <2>2. CASE OneMore(p) /\ queue'[p][n].of = Current
    BY <2>2 DEF OneMore, Issued, Current, Asking
  <2>3. QED
    BY <2>1, <2>2, RequestMoves
<1>3. ASSUME NEW n \in DOMAIN iopub'
      PROVE  Issued(iopub[n].of)'
  <2>1. PICK c \in Cells : iopub'[n].of = c /\ Issued(c)
    <3>1. CASE \E m \in DOMAIN iopub : iopub'[n] = iopub[m]
      <4>1. PICK m \in DOMAIN iopub : iopub'[n] = iopub[m]
        BY <3>1
      <4>2. iopub[m] \in Message
        BY DEF Shapes
      <4>3. iopub[m].of \in Cells /\ Issued(iopub[m].of)
        BY <4>2 DEF Message, InOrder
      <4>4. QED
        BY <4>1, <4>3
    <3>2. CASE \E p \in Attempts : queue[p] # <<>> /\ iopub'[n].of = Head(queue[p]).of
      <4>1. PICK p \in Attempts : queue[p] # <<>> /\ iopub'[n].of = Head(queue[p]).of
        BY <3>2
      <4>2. Head(queue[p]).of \in Cells /\ Issued(Head(queue[p]).of)
        BY <4>1, RequestsAreCells DEF InOrder
      <4>3. QED
        BY <4>1, <4>2
    <3>3. QED
      BY <3>1, <3>2, ChannelMoves
  <2>2. QED
    BY <1>1, <2>1 DEF Issued, Current
<1>4. QED
  BY <1>2, <1>3 DEF InOrder

LEMMA AskedOnceStep ==
  ASSUME TypeOK, Shapes, OneSession, InOrder, AskedOnce, [Next]_vars
  PROVE  AskedOnce'
<1>0. pc = "dispatch" => ~ Issued(Current)
  BY CoderAssumption DEF Issued, Current, Asking, TypeOK, Attempts
<1>1. ASSUME NEW p \in Attempts, NEW m \in DOMAIN queue'[p], NEW n \in DOMAIN queue'[p],
             queue'[p][m].of = queue'[p][n].of
      PROVE  m = n
  <2>1. CASE SameCells(p)
    BY <1>1, <2>1 DEF SameCells, AskedOnce
  <2>2. CASE queue'[p] = <<>>
    BY <2>2
  <2>3. CASE OneDone(p)
    <3>1. /\ m \in 1..(Len(queue[p]) - 1) /\ queue'[p][m] = queue[p][m + 1]
          /\ n \in 1..(Len(queue[p]) - 1) /\ queue'[p][n] = queue[p][n + 1]
          /\ m + 1 \in DOMAIN queue[p] /\ n + 1 \in DOMAIN queue[p]
      BY <2>3, RequestsAreCells DEF OneDone
    <3>2. m + 1 = n + 1
      BY <1>1, <3>1 DEF AskedOnce
    <3>3. QED
      BY <3>1, <3>2
  <2>4. CASE OneMore(p)
    <3> DEFINE new == [of |-> Current, drew |-> FALSE]
    <3>1. queue'[p] = Append(queue[p], new) /\ new.of = Current /\ pc = "dispatch"
      BY <2>4 DEF OneMore
    <3> HIDE DEF new
    <3>2. queue[p] \in Seq(Request)
      BY RequestsAreCells
    <3>3. \A i \in DOMAIN queue'[p] :
             \/ i \in DOMAIN queue[p] /\ queue'[p][i] = queue[p][i]
             \/ i = Len(queue[p]) + 1 /\ queue'[p][i] = new
      BY <3>1, <3>2
    <3>4. \A i \in DOMAIN queue[p] : queue[p][i].of # Current
      BY <1>0, <3>1 DEF InOrder
    <3>5. QED
      BY <1>1, <3>1, <3>3, <3>4 DEF AskedOnce
  <2>5. QED
    BY <2>1, <2>2, <2>3, <2>4, QueueMoves
<1>2. ASSUME NEW i \in DOMAIN iopub', iopub'[i].kind = "idle",
             NEW p \in Attempts, NEW n \in DOMAIN queue'[p],
             queue'[p][n].of = iopub'[i].of
      PROVE  FALSE
  <2>1. CASE \E j \in DOMAIN iopub : iopub'[i] = iopub[j]
    <3>1. PICK j \in DOMAIN iopub : iopub'[i] = iopub[j]
      BY <2>1
    <3>2. \A m \in DOMAIN queue[p] : queue[p][m].of # iopub[j].of
      BY <1>2, <3>1 DEF AskedOnce
    <3>3. OneMore(p) /\ iopub[j].of = Current
      BY <1>2, <3>1, <3>2, RequestMoves
    <3>4. Issued(iopub[j].of)
      BY DEF InOrder
    <3>5. QED
      BY <1>0, <3>3, <3>4 DEF OneMore
  <2>2. CASE ~ \E j \in DOMAIN iopub : iopub'[i] = iopub[j]
    <3>1. PICK q \in Attempts : /\ queue[q] # <<>> /\ iopub'[i].of = Head(queue[q]).of
                                /\ queue' = [queue EXCEPT ![q] = Tail(queue[q])]
      BY <1>2, <2>2, ChannelMoves
    <3>2. Head(queue[q]) = queue[q][1] /\ 1 \in DOMAIN queue[q]
      BY <3>1, RequestsAreCells
    <3>3. CASE p = q
      <4>1. n \in 1..(Len(queue[p]) - 1) /\ queue'[p][n] = queue[p][n + 1]
            /\ n + 1 \in DOMAIN queue[p]
        BY <3>1, <3>3, RequestsAreCells DEF Shapes
      <4>2. n + 1 = 1
        BY <1>2, <3>1, <3>2, <3>3, <4>1 DEF AskedOnce
      <4>3. QED
        BY <4>1, <4>2
    <3>4. CASE p # q
      <4>1. queue'[p] = queue[p]
        BY <3>1, <3>4 DEF Shapes
      <4>2. queue[p][n].of[1] = p /\ queue[q][1].of[1] = q
        BY <3>2, <4>1 DEF InOrder
      <4>3. QED
        BY <1>2, <3>1, <3>2, <3>4, <4>1, <4>2
    <3>5. QED
      BY <3>3, <3>4
  <2>3. QED
    BY <2>1, <2>2
<1>3. QED
  BY <1>1, <1>2 DEF AskedOnce

\* The worker goes on waiting for a cell, gives it up, or reads its idle.
LEMMA AwaitedStays ==
  ASSUME OutcomeInTime, [Next]_vars, NEW c, Awaited(c),
         ~ (ReadMessage /\ pc' = "record")
  PROVE  Awaited(c)'
<1> USE DEF turnVars, histVars
<1>1. late \subseteq late'
  BY DEF Next, Worker, Kernel, GetDirective, LookUpSkill, AskFails, TimesOut,
     ReadFails, MatlabStarts, MatlabEnds, Record, RecordCell, WriteNotebook,
     RecoverFigures, Report, EmitRaises, Accept, Rerun, StartKernel, StartFails,
     ReadMessage, Execute, Shutdown, ShutdownFails, MatlabSaves, KernelSaves,
     KernelDraws, KernelEnds, KernelDies, vars
<1>2. outcome = "raised" => outcome' = "raised"
  BY DEF OutcomeInTime, AtWork, Next, Worker, Kernel, GetDirective, LookUpSkill, AskFails, TimesOut,
     ReadFails, MatlabStarts, MatlabEnds, Record, RecordCell, WriteNotebook,
     RecoverFigures, Report, EmitRaises, Accept, Rerun, StartKernel, StartFails,
     ReadMessage, Execute, Shutdown, ShutdownFails, MatlabSaves, KernelSaves,
     KernelDraws, KernelEnds, KernelDies, vars
<1>3. ASSUME pc = "running", c = Current
      PROVE  Awaited(c)'
  <2>1. CASE ReadMessage
    <3>1. pc' \in {"running", "record"} /\ UNCHANGED <<attempt, turn>>
      BY <1>3, <2>1 DEF ReadMessage
    <3>2. QED
      BY <1>3, <2>1, <3>1 DEF Awaited, Current
  <2>2. CASE TimesOut \/ ReadFails
    BY <1>3, <2>2 DEF TimesOut, ReadFails, Awaited, Current
  <2>3. CASE EmitRaises
    BY <2>3 DEF EmitRaises, Awaited
  <2>4. CASE ~ (ReadMessage \/ TimesOut \/ ReadFails \/ EmitRaises)
    <3>1. UNCHANGED <<pc, attempt, turn>>
      BY <1>3, <2>4 DEF Next, Worker, Kernel, GetDirective, LookUpSkill, AskFails,
         MatlabStarts, MatlabEnds, Record, RecordCell, WriteNotebook,
         RecoverFigures, Report, Accept, Rerun, StartKernel, StartFails,
         Execute, Shutdown, ShutdownFails, MatlabSaves, KernelSaves,
         KernelDraws, KernelEnds, KernelDies, vars
    <3>2. QED
      BY <1>3, <3>1 DEF Awaited, Current
  <2>5. QED
    BY <2>1, <2>2, <2>3, <2>4
<1>4. QED
  BY <1>1, <1>2, <1>3 DEF Awaited

LEMMA RunsAreAwaitedStep ==
  ASSUME TypeOK, Shapes, OneSession, OutcomeInTime, InOrder, AskedOnce,
         RunsAreAwaited, [Next]_vars
  PROVE  RunsAreAwaited'
<1> SUFFICES ASSUME NEW p \in Attempts, NEW n \in DOMAIN queue'[p]
             PROVE  Awaited(queue[p][n].of)'
  BY DEF RunsAreAwaited
<1>1. CASE OneMore(p) /\ queue'[p][n].of = Current
  BY <1>1 DEF OneMore, Awaited, Current
<1>2. CASE \E m \in DOMAIN queue[p] : queue'[p][n].of = queue[p][m].of
  <2>1. PICK m \in DOMAIN queue[p] : queue'[p][n].of = queue[p][m].of
    BY <1>2
  <2>2. PICK c \in Cells : c = queue[p][m].of /\ Awaited(c)
    BY RequestsAreCells DEF RunsAreAwaited
  <2>3. CASE ~ (ReadMessage /\ pc' = "record")
    <3>1. Awaited(c)'
      BY <2>2, <2>3, AwaitedStays
    <3>2. QED
      BY <2>1, <2>2, <3>1 DEF Awaited, Current
  <2>4. CASE ReadMessage /\ pc' = "record"
    <3>1. /\ iopub # <<>> /\ Head(iopub).kind = "idle" /\ Head(iopub).of = Current
          /\ UNCHANGED <<late, outcome>>
      BY <2>4 DEF ReadMessage, IsOurs, histVars
    <3>2. 1 \in DOMAIN iopub /\ Head(iopub) = iopub[1]
      BY <3>1 DEF Shapes
    <3>3. c # Current
      BY <2>2, <3>1, <3>2 DEF AskedOnce
    <3>4. QED
      BY <2>1, <2>2, <3>1, <3>3 DEF Awaited
  <2>5. QED
    BY <2>3, <2>4
<1>3. QED
  BY <1>1, <1>2, RequestMoves

-----------------------------------------------------------------------------
(* What an attempt hands over.                                             *)

LEMMA CellOutputStep ==
  ASSUME TypeOK, OutcomeInTime, CellOutputIsOwn, NewFiles, [Next]_vars
  PROVE  CellOutputIsOwn'
<1> USE DEF CellOutputIsOwn, turnVars, histVars
<1>1. CASE Execute
  BY <1>1 DEF Execute, NoResult
<1>2. CASE ReadMessage
  <2>1. pc = "running" /\ UNCHANGED <<late, Current, directive>>
    BY <1>2 DEF ReadMessage, Current
  <2>2. cell'.from \subseteq cell.from \cup {Current}
    <3>1. CASE IsOurs(Head(iopub))
      BY <1>2, <3>1 DEF ReadMessage, IsOurs
    <3>2. CASE ~ IsOurs(Head(iopub))
      BY <1>2, <3>2 DEF ReadMessage
    <3>3. QED
      BY <3>1, <3>2
  <2>3. QED
    BY <2>1, <2>2
<1>3. CASE TimesOut \/ ReadFails
  <2>1. cell' = [NoResult EXCEPT !.error = TRUE] \/ cell' = cell
    BY <1>3 DEF TimesOut, ReadFails
  <2>2. pc = "running" /\ late \subseteq late' /\ UNCHANGED <<Current, directive>>
    BY <1>3 DEF TimesOut, ReadFails, Current
  <2>3. cell'.from \subseteq cell.from
    BY <2>1 DEF NoResult
  <2>4. QED
    BY <2>2, <2>3
<1>4. CASE MatlabEnds
  <2>1. pc = "matlab" /\ UNCHANGED <<late, Current, directive>>
    BY <1>4 DEF MatlabEnds, Current
  <2>2. cell'.from = {disk[f] : f \in OnDisk \ before}
    BY <1>4 DEF MatlabEnds
  <2>3. directive.matlab
    BY <2>1 DEF OutcomeInTime
  <2>4. QED
    BY <2>1, <2>2, <2>3 DEF NewFiles
<1>5. CASE ~ (Execute \/ ReadMessage \/ TimesOut \/ ReadFails \/ MatlabEnds)
  <2>1. \/ pc' \notin {"running", "record"}
        \/ UNCHANGED <<pc, cell, attempt, turn, directive, late>>
    BY <1>5 DEF Next, Worker, Kernel, GetDirective, LookUpSkill, AskFails,
       MatlabStarts, Record, RecordCell, WriteNotebook,
       RecoverFigures, Report, EmitRaises, Accept, Rerun, StartKernel, StartFails,
       Shutdown, ShutdownFails, Leave, MatlabSaves, KernelSaves,
       KernelDraws, KernelEnds, KernelDies, vars
  <2>2. QED
    BY <2>1 DEF Current
<1>6. QED
  BY <1>1, <1>2, <1>3, <1>4, <1>5

\* A file after a step holds what it held, or a cell that is allowed to write.
LEMMA FileMoves ==
  ASSUME TypeOK, Shapes, OutcomeInTime, RunsAreAwaited, [Next]_vars, NEW f \in Figures
  PROVE  \/ disk'[f] = disk[f]
         \/ pc = "running"
         \/ pc = "matlab" /\ pc' = "matlab" /\ disk'[f] = Current
         \/ disk'[f] \in late \/ outcome = "raised"
<1> USE DEF fileVars
<1>0. disk \in [Figures -> Cells \cup {NoCell}]
  BY DEF Shapes
<1>1. CASE UNCHANGED disk
  BY <1>1
<1>2. CASE ReadMessage
  BY <1>2 DEF ReadMessage
<1>3. CASE MatlabSaves
  BY <1>0, <1>3 DEF MatlabSaves
<1>4. ASSUME NEW p \in Attempts, KernelSaves(p)
      PROVE  disk'[f] = disk[f] \/ Awaited(disk'[f])
  <2>1. queue[p] # <<>> /\ Awaited(Head(queue[p]).of)
    BY <1>4, RequestsAreCells DEF KernelSaves, RunsAreAwaited
  <2>2. disk'[f] = disk[f] \/ disk'[f] = Head(queue[p]).of
    BY <1>0, <1>4 DEF KernelSaves
  <2>3. QED
    BY <2>1, <2>2
<1>5. CASE ~ (ReadMessage \/ MatlabSaves \/ (\E p \in Attempts : KernelSaves(p)))
  BY <1>1, <1>5 DEF Next, Worker, Kernel, GetDirective, LookUpSkill, AskFails, TimesOut,
     ReadFails, MatlabStarts, MatlabEnds, Record, RecordCell, WriteNotebook,
     RecoverFigures, Report, EmitRaises, Accept, Rerun, StartKernel, StartFails,
     Execute, Shutdown, ShutdownFails, KernelDraws, KernelEnds, KernelDies, vars
<1>6. QED
  BY <1>2, <1>3, <1>4, <1>5 DEF Awaited

LEMMA NewFilesStep ==
  ASSUME TypeOK, Shapes, OutcomeInTime, RunsAreAwaited, NewFiles, [Next]_vars
  PROVE  NewFiles'
<1> SUFFICES ASSUME pc' = "matlab", NEW f \in Figures,
                    disk'[f] # NoCell, f \notin before'
             PROVE  disk'[f] = Current' \/ disk'[f] \in late'
  BY DEF NewFiles, OnDisk
<1>1. CASE MatlabStarts
  BY <1>1 DEF MatlabStarts, OnDisk, fileVars
<1>2. CASE ~ MatlabStarts
  <2>1. pc = "matlab" /\ UNCHANGED <<attempt, turn, late, before>>
    BY <1>2 DEF Next, Worker, Kernel, GetDirective, LookUpSkill, AskFails, TimesOut,
       ReadFails, MatlabEnds, Record, RecordCell, WriteNotebook,
       RecoverFigures, Report, EmitRaises, Accept, Rerun, StartKernel, StartFails,
       ReadMessage, Execute, Shutdown, ShutdownFails, Leave, MatlabSaves, KernelSaves,
       KernelDraws, KernelEnds, KernelDies, vars, turnVars, resultVars, histVars
  <2>2. outcome = "none"
    BY <2>1 DEF OutcomeInTime, AtWork
  <2>3. CASE disk'[f] = disk[f]
    BY <2>1, <2>3 DEF NewFiles, OnDisk, Current
  <2>4. CASE disk'[f] # disk[f]
    BY <2>1, <2>2, <2>4, FileMoves DEF Current
  <2>5. QED
    BY <2>3, <2>4
<1>3. QED
  BY <1>1, <1>2

\* The coder is through with its cells and reports, or has reported.
Reporting == pc = "report" \/ (pc \in {"shutdown", "review"} /\ outcome = "returned")

LEMMA RegisteredStep ==
  ASSUME TypeOK, Shapes, OutcomeInTime, RunsAreAwaited, Registered, [Next]_vars
  PROVE  Registered'
<1> SUFFICES ASSUME Reporting', NEW f \in Figures, disk'[f] # NoCell
             PROVE  f \in figures' \cup paths' \/ disk'[f] \in late'
  BY DEF Registered, Reporting, OnDisk
<1>1. CASE RecoverFigures
  BY <1>1 DEF RecoverFigures, Reporting, OnDisk, fileVars
<1>2. CASE ~ RecoverFigures
  <2>1. Reporting /\ UNCHANGED <<figures, paths, late>>
    BY <1>2 DEF Reporting, OutcomeInTime, AtWork, Next, Worker, Kernel,
       GetDirective, LookUpSkill, AskFails, TimesOut,
       ReadFails, MatlabStarts, MatlabEnds, Record, RecordCell, WriteNotebook,
       Report, EmitRaises, Accept, Rerun, StartKernel, StartFails,
       ReadMessage, Execute, Shutdown, ShutdownFails, Leave, MatlabSaves, KernelSaves,
       KernelDraws, KernelEnds, KernelDies, vars, resultVars, histVars
  <2>2. outcome # "raised" /\ pc \notin {"running", "matlab"}
    BY <2>1 DEF Reporting, OutcomeInTime, AtWork
  <2>3. CASE disk'[f] = disk[f]
    BY <2>1, <2>3 DEF Registered, Reporting, OnDisk
  <2>4. CASE disk'[f] # disk[f]
    BY <2>1, <2>2, <2>4, FileMoves
  <2>5. QED
    BY <2>3, <2>4
<1>3. QED
  BY <1>1, <1>2

LEMMA NotebookStep ==
  ASSUME TypeOK, OutcomeInTime, NotebookInTime, [Next]_vars
  PROVE  NotebookInTime'
<1> USE DEF NotebookInTime, OutcomeInTime, AtWork, turnVars
<1>1. CASE Shutdown \/ ShutdownFails
  <2>1. Leave /\ pc = "shutdown" /\ UNCHANGED <<outcome, attempt, notebook>>
    BY <1>1 DEF Shutdown, ShutdownFails
  <2>2. CASE outcome = "returned"
    BY <2>1, <2>2 DEF Leave
  <2>3. CASE outcome # "returned"
    BY <2>1, <2>3 DEF Leave
  <2>4. QED
    BY <2>2, <2>3
<1>2. CASE WriteNotebook \/ RecoverFigures \/ Report
  BY <1>2 DEF WriteNotebook, RecoverFigures, Report
<1>3. CASE AskFails \/ EmitRaises \/ StartFails
  BY <1>3 DEF AskFails, EmitRaises, StartFails
<1>4. CASE Accept \/ Rerun
  BY <1>4 DEF Accept, Rerun
<1>5. CASE StartKernel \/ GetDirective \/ LookUpSkill \/ Execute \/ TimesOut \/ ReadFails
           \/ MatlabStarts \/ MatlabEnds \/ Record
  BY <1>5 DEF StartKernel, GetDirective, LookUpSkill, Execute, TimesOut, ReadFails,
     MatlabStarts, MatlabEnds, Record, RecordCell
<1>6. CASE ReadMessage \/ MatlabSaves \/ Kernel \/ UNCHANGED vars
  BY <1>6 DEF ReadMessage, MatlabSaves, Kernel, KernelSaves, KernelDraws, KernelEnds,
     KernelDies, vars
<1>7. QED
  BY <1>1, <1>2, <1>3, <1>4, <1>5, <1>6 DEF Next, Worker

-----------------------------------------------------------------------------
(* The theorems.                                                           *)

LEMMA InvInit == Init => IInv
<1> SUFFICES ASSUME Init PROVE IInv
  OBVIOUS
<1> USE CoderAssumption DEF Init
<1>1. queue = [p \in Attempts |-> <<>>] /\ iopub = <<>> /\ disk = [f \in Figures |-> NoCell]
  OBVIOUS
<1>2. Shapes
  BY <1>1 DEF Shapes, NoResult, NoOutput
<1>3. TypeOK
  <2>1. attempt \in Attempts /\ turn \in 0..(MaxTurns[attempt] - 1) /\ lookups \in 0..SkillBudget
    <3>1. 1 \in 1..MaxAttempts /\ MaxTurns[1] \in Nat \ {0}
      OBVIOUS
    <3>2. QED
      BY <3>1 DEF Attempts
  <2>2. directive \in Directive
    BY DEF NoDirective, Directive
  <2>3. cell.error \in BOOLEAN /\ cell.figs \subseteq Figures
    BY DEF NoResult
  <2>4. /\ km \in 0..MaxAttempts /\ figIndex \in 0..MaxInline /\ faults \in 0..MaxFaults
        /\ notebook \in 0..MaxAttempts /\ output.attempt \in 0..MaxAttempts
    BY DEF NoOutput
  <2>5. QED
    BY <2>1, <2>2, <2>3, <2>4 DEF TypeOK
<1>4. RoomIsKept
  <2>1. {n \in DOMAIN iopub : iopub[n].kind = "figure"} = {}
    OBVIOUS
  <2>2. Pending = 0
    BY <2>1, FS_EmptySet DEF Pending
  <2>3. QED
    BY <2>2 DEF RoomIsKept
<1>5. KernelInv
  BY <1>1 DEF KernelInv, OneSession, OutcomeInTime, InOrder, AskedOnce, RunsAreAwaited,
     AtWork
<1>6. CellOutputIsOwn /\ NewFiles /\ Registered /\ NotebookInTime
  BY DEF CellOutputIsOwn, NewFiles, Registered, NotebookInTime, NoOutput
<1>7. QED
  BY <1>2, <1>3, <1>4, <1>5, <1>6 DEF IInv

LEMMA InvStep == IInv /\ [Next]_vars => IInv'
<1> SUFFICES ASSUME IInv, [Next]_vars PROVE IInv'
  OBVIOUS
<1> USE DEF IInv, KernelInv
<1>1. TypeOK' /\ Shapes' /\ RoomIsKept'
  BY TypesStep, RoomStep
<1>2. OneSession' /\ OutcomeInTime'
  BY SessionStep
<1>3. InOrder' /\ AskedOnce' /\ RunsAreAwaited'
  BY InOrderStep, AskedOnceStep, RunsAreAwaitedStep
<1>4. CellOutputIsOwn' /\ NewFiles'
  BY CellOutputStep, NewFilesStep
<1>5. Registered' /\ NotebookInTime'
  BY RegisteredStep, NotebookStep
<1>6. QED
  BY <1>1, <1>2, <1>3, <1>4, <1>5

\* The inductive invariant holds in every state of every behaviour.
THEOREM InvHolds == Spec => []IInv
BY InvInit, InvStep, PTL DEF Spec

\* Types, and with them the room for figures: what the kernel has displayed and
\* the worker has not read yet still gets a number within the bound.
THEOREM TypeCorrect == Spec => []TypeOK
<1>1. IInv => TypeOK
  BY DEF IInv
<1>2. QED
  BY <1>1, InvHolds, PTL

\* No attempt runs code in a process of another attempt, and none leaves its
\* process behind unless its start or its shutdown failed.
THEOREM KernelOfItsOwn == Spec => []KernelIsOwn
<1>1. IInv => KernelIsOwn
  <2> SUFFICES ASSUME IInv PROVE KernelIsOwn
    OBVIOUS
  <2> USE DEF IInv, KernelInv
  <2>1. FreshKernel
    BY DEF FreshKernel, InOrder, TypeOK
  <2>2. 0 \notin procs
    BY DEF TypeOK, Attempts
  <2>3. KernelsAreDown
    BY <2>2 DEF KernelsAreDown, OneSession, AtWork
  <2>4. QED
    BY <2>1, <2>3 DEF KernelIsOwn
<1>2. QED
  BY <1>1, InvHolds, PTL

\* The output of a cell, the notebook and the figures that an attempt hands
\* over are its own, but for what cells given up write late.
THEOREM OutputOfItsOwn == Spec => []OutputIsOwn
<1>1. IInv => OutputIsOwn
  BY DEF IInv, KernelInv, OutputIsOwn, NotebookIsOfOutput, NotebookInTime,
     OrphansAreLate, Registered, OutcomeInTime
<1>2. QED
  BY <1>1, InvHolds, PTL
=============================================================================
