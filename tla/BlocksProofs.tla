---------------------------- MODULE BlocksProofs ----------------------------
(***************************************************************************)
(* What matched blocks get from the tracer, for every number of threads,    *)
(* traces and spans: the proofs of the properties of Blocks.                *)
(***************************************************************************)
EXTENDS Blocks, TracerProofs

-----------------------------------------------------------------------------
(* Matched blocks are one client of the tracer *)

Outside == sending = [c \in Ctx |-> None]

\* What a block or a job does to the tracer is a call that the client is free
\* to make.
LEMMA BlockIsCall ==
  ASSUME HeapOK, RefsOK, blocks \in [Ctx -> Seq(1..Len(spans))], NEW c \in Ctx,
         Enter(c) \/ EnterTrace(c) \/ Exit(c) \/ ExitGenerator(c) \/ Decorate(c) \/ RunJob(c)
  PROVE  Call(c) /\ UNCHANGED sending
  <1>1. CASE Enter(c)
    BY <1>1 DEF Enter, Call, NewEvent, StartTrace, StartSpan
  <1>2. CASE EnterTrace(c)
    BY <1>2 DEF EnterTrace, Call, StartTrace
  <1>3. ASSUME NEW s \in 1..Len(spans), NEW o \in Outcomes, Close(c, s, o), UNCHANGED <<sending, decorated>>
        PROVE  Call(c) /\ UNCHANGED sending
    BY <1>3 DEF Close, Call, Finish
  <1>4. CASE Exit(c)
    <2>1. Last(blocks[c]) \in 1..Len(spans)
      BY <1>4, SeqFront DEF Exit
    <2> QED
      BY <1>3, <1>4, <2>1 DEF Exit
  <1>5. CASE ExitGenerator(c)
    <2>1. \A i \in 1..(Len(blocks[c]) - 1) : blocks[c][i] \in 1..Len(spans)
      BY ElementOfSeq, LenProperties
    <2> QED
      BY <1>3, <1>5, <2>1 DEF ExitGenerator
  <1>6. CASE Decorate(c)
    BY <1>6 DEF Decorate, TracedThread, Call
  <1>7. CASE RunJob(c)
    BY <1>7 DEF RunJob, RunDecorated, Call
  <1> QED
    BY <1>1, <1>2, <1>4, <1>5, <1>6, <1>7

\* Every step of the matched client is a step of the tracer.
LEMMA BlocksStepIsTracerStep ==
  ASSUME HeapOK, RefsOK, blocks \in [Ctx -> Seq(1..Len(spans))], Outside, [BlocksNext]_allVars
  PROVE  [Next]_vars /\ Outside'
  <1>1. ASSUME NEW c \in Ctx, Call(c), UNCHANGED sending
        PROVE  [Next]_vars /\ Outside'
    BY <1>1 DEF Outside, Next, Acts
  <1>2. ASSUME UNCHANGED vars
        PROVE  [Next]_vars /\ Outside'
    BY <1>2 DEF vars, Outside
  <1> QED
    BY <1>1, <1>2, BlockIsCall DEF BlocksNext, EndJob, allVars
-----------------------------------------------------------------------------
(* Entering and leaving, as far as the client's own records go *)

ClientOK ==
  /\ blocks \in [Ctx -> Seq(1..Len(spans))]
  /\ base \in [Ctx -> Seq(1..Len(spans))]
  /\ running \in [Ctx -> BOOLEAN]

\* A block is entered: a span is made for it.
Entered(c) ==
  /\ Len(spans') = Len(spans) + 1
  /\ sent' = Append(sent, 0)
  /\ blocks' = [blocks EXCEPT ![c] = Append(@, NewSpan)]

\* The i-th block of c is left: its span may go out.
Left(c, i) ==
  /\ UNCHANGED spans
  /\ \E o \in Outcomes : Emit(blocks[c][i], o)
  /\ blocks' = [blocks EXCEPT ![c] = RemoveAt(@, i)]

\* A block is left by closing its span, whichever of the open blocks it is.
LEMMA BlockLeft ==
  ASSUME ClientOK, NEW c \in Ctx, Exit(c) \/ ExitGenerator(c)
  PROVE  \E i \in 1..Len(blocks[c]), o \in Outcomes : Close(c, blocks[c][i], o) /\ Left(c, i)
  <1>1. CASE Exit(c)
    <2>1. PICK st \in Seq(1..Len(spans)) : st = blocks[c]
      BY DEF ClientOK
    <2>2. Len(st) \in 1..Len(st) /\ Last(st) = st[Len(st)] /\ Front(st) = RemoveAt(st, Len(st))
      BY <1>1, <2>1, FrontRemoves DEF Exit
    <2>3. PICK o \in Outcomes : Close(c, st[Len(st)], o)
      BY <1>1, <2>1, <2>2 DEF Exit
    <2>4. Left(c, Len(st))
      BY <1>1, <2>1, <2>2, <2>3 DEF Exit, Left, Close, FinishSpan, FinishTrace
    <2> QED
      BY <2>1, <2>2, <2>3, <2>4
  <1>2. CASE ExitGenerator(c)
    <2>1. PICK i \in 1..(Len(blocks[c]) - 1) :
            /\ \E o \in Outcomes : Close(c, blocks[c][i], o)
            /\ blocks' = [blocks EXCEPT ![c] = RemoveAt(@, i)]
      BY <1>2 DEF ExitGenerator
    <2>2. i \in 1..Len(blocks[c])
      BY LenProperties DEF ClientOK
    <2>3. Left(c, i)
      BY <2>1 DEF Left, Close, FinishSpan, FinishTrace
    <2> QED
      BY <2>1, <2>2, <2>3
  <1> QED
    BY <1>1, <1>2

\* What each step of the matched client does to its own variables.
LEMMA ClientSteps ==
  ASSUME HeapOK, RefsOK, ClientOK, [BlocksNext]_allVars
  PROVE  \/ \E c \in Ctx : Entered(c)
         \/ \E c \in Ctx : \E i \in 1..Len(blocks[c]) : Left(c, i)
         \/ UNCHANGED <<spans, sent, blocks>>
  <1>1. ASSUME NEW id, NEW parent, NEW root, NEW type, PushSpan(id, parent, root, type)
        PROVE  Len(spans') = Len(spans) + 1 /\ sent' = Append(sent, 0)
    BY <1>1 DEF PushSpan, HeapOK
  <1>2. ASSUME NEW c \in Ctx, Enter(c)
        PROVE  Entered(c)
    BY <1>1, <1>2 DEF Enter, NewEvent, StartTrace, StartSpan, Entered
  <1>3. ASSUME NEW c \in Ctx, EnterTrace(c)
        PROVE  Entered(c)
    <2>1. Append(<<>>, NewSpan) = <<NewSpan>>
      OBVIOUS
    <2>2. Len(spans') = Len(spans) + 1 /\ sent' = Append(sent, 0)
      BY <1>1, <1>3 DEF EnterTrace, StartTrace
    <2>3. blocks[c] = <<>> /\ blocks' = [blocks EXCEPT ![c] = <<NewSpan>>]
      BY <1>3 DEF EnterTrace
    <2> QED
      BY <2>1, <2>2, <2>3 DEF Entered
  <1>4. ASSUME NEW c \in Ctx, Exit(c) \/ ExitGenerator(c)
        PROVE  \E i \in 1..Len(blocks[c]) : Left(c, i)
    BY <1>4, BlockLeft
  <1>6. ASSUME NEW c \in Ctx, Decorate(c) \/ RunJob(c) \/ EndJob(c)
        PROVE  UNCHANGED <<spans, sent, blocks>>
    BY <1>6 DEF Decorate, TracedThread, RunJob, RunDecorated, EndJob, vars, clientVars
  <1>7. ASSUME UNCHANGED allVars
        PROVE  UNCHANGED <<spans, sent, blocks>>
    BY <1>7 DEF allVars, vars, clientVars
  <1> QED
    BY <1>2, <1>3, <1>4, <1>6, <1>7 DEF BlocksNext

-----------------------------------------------------------------------------
(* Every event goes out once *)

Holds(c, s) == \E i \in 1..Len(blocks[c]) : blocks[c][i] = s

\* No span belongs to two blocks.
OpenOnce ==
  \A c, d \in Ctx : \A i \in 1..Len(blocks[c]), j \in 1..Len(blocks[d]) :
    blocks[c][i] = blocks[d][j] => c = d /\ i = j

Allowed == IF Outcomes = {"sent"} THEN {1} ELSE {0, 1}

EventsOK ==
  \A s \in 1..Len(spans) :
    /\ (\E c \in Ctx : Holds(c, s)) => sent[s] = 0
    /\ (~ \E c \in Ctx : Holds(c, s)) => sent[s] \in Allowed

\* SentOnce, read span by span.
LEMMA EventsOKIsSentOnce ==
  ASSUME HeapOK, ClientOK
  PROVE  EventsOK <=> SentOnce
  <1>1. DOMAIN spans = 1..Len(spans)
    BY LenProperties DEF HeapOK
  <1>2. \A c \in Ctx : DOMAIN blocks[c] = 1..Len(blocks[c])
    BY LenProperties DEF ClientOK
  <1>3. \A c \in Ctx : \A s : s \in ToSet(blocks[c]) <=> Holds(c, s)
    BY <1>2 DEF ToSet, Holds
  <1> QED
    BY <1>1, <1>3 DEF EventsOK, SentOnce, Allowed

\* What entering does to the records.
LEMMA EnteredBlocks ==
  ASSUME HeapOK, ClientOK, NEW c \in Ctx, Entered(c)
  PROVE  /\ blocks' \in [Ctx -> Seq(1..Len(spans'))]
         /\ Len(blocks'[c]) = Len(blocks[c]) + 1 /\ Len(blocks[c]) \in Nat
         /\ \A i \in 1..Len(blocks[c]) : blocks'[c][i] = blocks[c][i]
         /\ blocks'[c][Len(blocks[c]) + 1] = Len(spans) + 1
         /\ \A d \in Ctx \ {c} : blocks'[d] = blocks[d]
  <1>1. PICK m \in Nat : m = Len(spans)
    BY LenProperties DEF HeapOK
  <1>2. Len(spans') = m + 1 /\ NewSpan = m + 1 /\ 1..m \subseteq 1..(m + 1) /\ m + 1 \in 1..(m + 1)
    BY <1>1 DEF Entered, NewSpan
  <1>3. \A d \in Ctx : blocks[d] \in Seq(1..(m + 1))
    BY <1>1, <1>2, SeqMonotonic DEF ClientOK
  <1>4. /\ Append(blocks[c], m + 1) \in Seq(1..(m + 1))
        /\ Len(Append(blocks[c], m + 1)) = Len(blocks[c]) + 1
        /\ \A i \in 1..Len(blocks[c]) : Append(blocks[c], m + 1)[i] = blocks[c][i]
        /\ Append(blocks[c], m + 1)[Len(blocks[c]) + 1] = m + 1
    BY <1>2, <1>3, SeqAppend
  <1>5. blocks' = [blocks EXCEPT ![c] = Append(blocks[c], m + 1)]
    BY <1>2 DEF Entered
  <1>6. Len(blocks[c]) \in Nat
    BY LenProperties DEF ClientOK
  <1> QED
    BY <1>1, <1>2, <1>3, <1>4, <1>5, <1>6 DEF ClientOK

\* What leaving does to them.
LEMMA LeftBlocks ==
  ASSUME HeapOK, ClientOK, NEW c \in Ctx, NEW i \in 1..Len(blocks[c]), Left(c, i)
  PROVE  /\ blocks' \in [Ctx -> Seq(1..Len(spans'))]
         /\ Len(blocks'[c]) = Len(blocks[c]) - 1 /\ Len(blocks[c]) \in Nat \ {0}
         /\ \A j \in 1..(Len(blocks[c]) - 1) : blocks'[c][j] = blocks[c][IF j < i THEN j ELSE j + 1]
         /\ \A d \in Ctx \ {c} : blocks'[d] = blocks[d]
         /\ blocks[c][i] \in 1..Len(spans)
  <1>1. /\ RemoveAt(blocks[c], i) \in Seq(1..Len(spans))
        /\ Len(RemoveAt(blocks[c], i)) = Len(blocks[c]) - 1
        /\ \A j \in 1..(Len(blocks[c]) - 1) :
             RemoveAt(blocks[c], i)[j] = blocks[c][IF j < i THEN j ELSE j + 1]
    BY SeqRemoveAt DEF ClientOK
  <1>2. blocks' = [blocks EXCEPT ![c] = RemoveAt(blocks[c], i)] /\ UNCHANGED spans
    BY DEF Left
  <1>3. Len(blocks[c]) \in Nat \ {0} /\ blocks[c][i] \in 1..Len(spans)
    BY LenProperties, ElementOfSeq DEF ClientOK
  <1> QED
    BY <1>1, <1>2, <1>3 DEF ClientOK

\* A block that is entered holds the new span, besides what was held.
LEMMA HoldsEntered ==
  ASSUME HeapOK, ClientOK, NEW c \in Ctx, Entered(c)
  PROVE  /\ \A s : s = Len(spans) + 1 => Holds(c, s)'
         /\ \A d \in Ctx, s \in 1..Len(spans) : Holds(d, s)' <=> Holds(d, s)
  <1>1. PICK m \in Nat : m = Len(spans)
    BY LenProperties DEF HeapOK
  <1>2. /\ Len(blocks'[c]) = Len(blocks[c]) + 1 /\ Len(blocks[c]) \in Nat
        /\ \A i \in 1..Len(blocks[c]) : blocks'[c][i] = blocks[c][i]
        /\ blocks'[c][Len(blocks[c]) + 1] = m + 1
        /\ \A d \in Ctx \ {c} : blocks'[d] = blocks[d]
    BY <1>1, EnteredBlocks
  <1>3. Len(blocks[c]) + 1 \in 1..Len(blocks'[c])
    BY <1>2
  <1>4. \E i \in 1..Len(blocks'[c]) : blocks'[c][i] = m + 1
    BY <1>2, <1>3
  <1>5. \A d \in Ctx \ {c} : \A s : Holds(d, s)' <=> Holds(d, s)
    BY <1>2 DEF Holds
  <1>6. ASSUME NEW s \in 1..m, Holds(c, s)' PROVE Holds(c, s)
    <2>1. PICK k \in 1..Len(blocks'[c]) : blocks'[c][k] = s
      BY <1>6 DEF Holds
    <2>2. s # m + 1
      BY <1>1
    <2>3. k \in 1..Len(blocks[c])
      BY <1>2, <2>1, <2>2
    <2> QED
      BY <1>2, <2>1, <2>3 DEF Holds
  <1>7. ASSUME NEW s \in 1..m, Holds(c, s) PROVE Holds(c, s)'
    <2>1. PICK k \in 1..Len(blocks[c]) : blocks[c][k] = s
      BY <1>7 DEF Holds
    <2>2. k \in 1..Len(blocks'[c]) /\ blocks'[c][k] = s
      BY <1>2, <2>1
    <2> QED
      BY <2>2 DEF Holds
  <1>8. \A d \in Ctx, s \in 1..m : Holds(d, s)' <=> Holds(d, s)
    BY <1>5, <1>6, <1>7
  <1>9. \A s : s = m + 1 => Holds(c, s)'
    BY <1>4 DEF Holds
  <1> QED
    BY <1>1, <1>8, <1>9

\* A block that is entered adds a span whose event is not out.
LEMMA EventsEnter ==
  ASSUME HeapOK, ClientOK, OpenOnce, EventsOK, NEW c \in Ctx, Entered(c)
  PROVE  OpenOnce' /\ EventsOK'
  <1>1. PICK m \in Nat : m = Len(spans)
    BY LenProperties DEF HeapOK
  <1>2. /\ blocks' \in [Ctx -> Seq(1..Len(spans'))]
        /\ Len(blocks'[c]) = Len(blocks[c]) + 1 /\ Len(blocks[c]) \in Nat
        /\ \A i \in 1..Len(blocks[c]) : blocks'[c][i] = blocks[c][i]
        /\ blocks'[c][Len(blocks[c]) + 1] = m + 1
        /\ \A d \in Ctx \ {c} : blocks'[d] = blocks[d]
    BY <1>1, EnteredBlocks
  <1>3. \A d \in Ctx : \A i \in 1..Len(blocks[d]) : blocks[d][i] \in 1..m
    BY <1>1, ElementOfSeq DEF ClientOK
  <1>4. /\ sent'[m + 1] = 0
        /\ \A s \in 1..m : sent'[s] = sent[s]
    BY <1>1, SeqAppend DEF Entered, HeapOK
  <1>5. OpenOnce'
    <2> SUFFICES ASSUME NEW d \in Ctx, NEW e \in Ctx, NEW i \in 1..Len(blocks'[d]), NEW j \in 1..Len(blocks'[e]),
                        blocks'[d][i] = blocks'[e][j]
                 PROVE  d = e /\ i = j
      BY DEF OpenOnce
    <2>1. \A f \in Ctx : \A k \in 1..Len(blocks'[f]) :
            \/ k \in 1..Len(blocks[f]) /\ blocks'[f][k] = blocks[f][k]
            \/ f = c /\ k = Len(blocks[c]) + 1 /\ blocks'[f][k] = m + 1
      <3> SUFFICES ASSUME NEW f \in Ctx, NEW k \in 1..Len(blocks'[f])
                   PROVE  \/ k \in 1..Len(blocks[f]) /\ blocks'[f][k] = blocks[f][k]
                          \/ f = c /\ k = Len(blocks[c]) + 1 /\ blocks'[f][k] = m + 1
        OBVIOUS
      <3>1. CASE f = c
        <4>1. k \in 1..Len(blocks[c]) \/ k = Len(blocks[c]) + 1
          <5>1. k \in 1..Len(blocks'[c])
            BY <3>1
          <5>2. Len(blocks'[c]) = Len(blocks[c]) + 1 /\ Len(blocks[c]) \in Nat
            BY <1>2
          <5> QED
            BY <5>1, <5>2
        <4> QED
          BY <1>2, <3>1, <4>1
      <3>2. CASE f # c
        BY <1>2, <3>2
      <3> QED
        BY <3>1, <3>2
    <2>2. m + 1 \notin 1..m
      BY <1>1
    <2> QED
      BY <1>3, <2>1, <2>2 DEF OpenOnce
  <1>6. EventsOK'
    <2> SUFFICES ASSUME NEW s \in 1..(m + 1)
                 PROVE  /\ (\E d \in Ctx : Holds(d, s)') => sent'[s] = 0
                        /\ (~ \E d \in Ctx : Holds(d, s)') => sent'[s] \in Allowed
      BY <1>1 DEF EventsOK, Entered, Allowed
    <2>1. CASE s = m + 1
      <3>1. Holds(c, s)'
        BY <1>2, <2>1 DEF Holds
      <3> QED
        BY <1>4, <2>1, <3>1
    <2>2. CASE s \in 1..m
      <3>1. \A d \in Ctx : Holds(d, s)' <=> Holds(d, s)
        BY <1>1, <2>2, HoldsEntered
      <3> QED
        BY <1>1, <1>4, <2>2, <3>1 DEF EventsOK
    <2> QED
      BY <2>1, <2>2
  <1> QED
    BY <1>5, <1>6

\* Where an element of a sequence was before the i-th was removed from it.
OldIndex(own, i, h) == IF own /\ ~(h < i) THEN h + 1 ELSE h

\* A block that is left is the only one that held its span.
LEMMA HoldsLeft ==
  ASSUME HeapOK, ClientOK, OpenOnce, NEW c \in Ctx, NEW i \in 1..Len(blocks[c]), Left(c, i)
  PROVE  \A d \in Ctx : \A s : Holds(d, s)' <=> Holds(d, s) /\ s # blocks[c][i]
  <1>0. PICK x : x = blocks[c][i]
    OBVIOUS
  <1>1. /\ Len(blocks'[c]) = Len(blocks[c]) - 1 /\ Len(blocks[c]) \in Nat \ {0}
        /\ \A j \in 1..(Len(blocks[c]) - 1) : blocks'[c][j] = blocks[c][IF j < i THEN j ELSE j + 1]
        /\ \A d \in Ctx \ {c} : blocks'[d] = blocks[d]
    BY LeftBlocks
  <1>3. \A d \in Ctx : \A s : Holds(d, s)' <=> Holds(d, s) /\ s # x
    <2>1. \A d \in Ctx \ {c} : \A s : Holds(d, s)' <=> Holds(d, s) /\ s # x
      <3>1. \A d \in Ctx \ {c} : \A s : Holds(d, s) => s # x
        BY <1>0 DEF Holds, OpenOnce
      <3> QED
        BY <1>1, <3>1 DEF Holds
    <2>2. \A s : Holds(c, s)' => Holds(c, s) /\ s # x
      <3> SUFFICES ASSUME NEW j \in 1..(Len(blocks[c]) - 1)
                   PROVE  Holds(c, blocks'[c][j]) /\ blocks'[c][j] # x
        BY <1>1 DEF Holds
      <3>1. /\ (IF j < i THEN j ELSE j + 1) \in 1..Len(blocks[c])
            /\ (IF j < i THEN j ELSE j + 1) # i
        BY <1>1
      <3> QED
        BY <1>0, <1>1, <3>1 DEF Holds, OpenOnce
    <2>3. \A s : Holds(c, s) /\ s # x => Holds(c, s)'
      <3> SUFFICES ASSUME NEW j \in 1..Len(blocks[c]), j # i
                   PROVE  \E k \in 1..Len(blocks'[c]) : blocks'[c][k] = blocks[c][j]
        BY <1>0 DEF Holds
      <3>1. CASE j < i
        <4>1. j \in 1..(Len(blocks[c]) - 1)
          BY <1>1, <3>1
        <4> QED
          BY <1>1, <3>1, <4>1
      <3>2. CASE ~(j < i)
        <4>1. j - 1 \in 1..(Len(blocks[c]) - 1) /\ ~(j - 1 < i) /\ (j - 1) + 1 = j
          BY <1>1, <3>2
        <4> QED
          BY <1>1, <4>1
      <3> QED
        BY <3>1, <3>2
    <2> QED
      BY <2>1, <2>2, <2>3
  <1> QED
    BY <1>0, <1>3

\* A block that is left sends its own event and no other.
LEMMA EventsLeave ==
  ASSUME HeapOK, ClientOK, OpenOnce, EventsOK, NEW c \in Ctx, NEW i \in 1..Len(blocks[c]), Left(c, i)
  PROVE  OpenOnce' /\ EventsOK'
  <1>0. PICK x : x = blocks[c][i]
    OBVIOUS
  <1>1. /\ Len(blocks'[c]) = Len(blocks[c]) - 1 /\ Len(blocks[c]) \in Nat \ {0}
        /\ \A j \in 1..(Len(blocks[c]) - 1) : blocks'[c][j] = blocks[c][IF j < i THEN j ELSE j + 1]
        /\ \A d \in Ctx \ {c} : blocks'[d] = blocks[d]
        /\ x \in 1..Len(spans) /\ UNCHANGED spans
    BY <1>0, LeftBlocks DEF Left
  <1>2. OpenOnce'
    <2> SUFFICES ASSUME NEW d \in Ctx, NEW e \in Ctx, NEW j \in 1..Len(blocks'[d]), NEW k \in 1..Len(blocks'[e]),
                        blocks'[d][j] = blocks'[e][k]
                 PROVE  d = e /\ j = k
      BY DEF OpenOnce
    <2>1. ASSUME NEW f \in Ctx, NEW h \in 1..Len(blocks'[f])
          PROVE  OldIndex(f = c, i, h) \in 1..Len(blocks[f]) /\ blocks'[f][h] = blocks[f][OldIndex(f = c, i, h)]
      <3>1. CASE f = c
        <4>1. h \in 1..(Len(blocks[c]) - 1)
          BY <1>1, <3>1
        <4>2. blocks'[c][h] = blocks[c][IF h < i THEN h ELSE h + 1]
          BY <1>1, <4>1
        <4> QED
          BY <1>1, <3>1, <4>1, <4>2 DEF OldIndex
      <3>2. CASE f # c
        BY <1>1, <3>2 DEF OldIndex
      <3> QED
        BY <3>1, <3>2
    <2>2. d = e /\ OldIndex(d = c, i, j) = OldIndex(e = c, i, k)
      <3>1. PICK p \in 1..Len(blocks[d]) : p = OldIndex(d = c, i, j) /\ blocks'[d][j] = blocks[d][p]
        BY <2>1
      <3>2. PICK q \in 1..Len(blocks[e]) : q = OldIndex(e = c, i, k) /\ blocks'[e][k] = blocks[e][q]
        BY <2>1
      <3>3. blocks[d][p] = blocks[e][q]
        BY <3>1, <3>2
      <3>4. d = e /\ p = q
        BY <3>3 DEF OpenOnce
      <3> QED
        BY <3>1, <3>2, <3>4
    <2>3. j \in Int /\ k \in Int
      BY <1>1, LenProperties DEF ClientOK
    <2> QED
      BY <2>2, <2>3 DEF OldIndex
  <1>3. \A d \in Ctx : \A s : Holds(d, s)' <=> Holds(d, s) /\ s # x
    BY <1>0, HoldsLeft
  <1>4. EventsOK'
    <2>1. PICK o \in Outcomes : Emit(x, o)
      BY <1>0 DEF Left
    <2>2. sent[x] = 0 /\ x \in DOMAIN sent
      BY <1>0, <1>1, LenProperties DEF EventsOK, Holds, HeapOK
    <2>3. /\ sent'[x] \in Allowed
          /\ \A s \in 1..Len(spans) : s # x => sent'[s] = sent[s]
      <3>1. CASE o = "sent"
        BY <2>1, <2>2, <3>1 DEF Emit, Allowed
      <3>2. CASE o # "sent"
        BY <2>1, <2>2, <3>2 DEF Emit, Allowed
      <3> QED
        BY <3>1, <3>2
    <2>4. ~ \E d \in Ctx : Holds(d, x)'
      BY <1>3
    <2> SUFFICES ASSUME NEW s \in 1..Len(spans)
                 PROVE  /\ (\E d \in Ctx : Holds(d, s)') => sent'[s] = 0
                        /\ (~ \E d \in Ctx : Holds(d, s)') => sent'[s] \in Allowed
      BY <1>1 DEF EventsOK, Allowed
    <2>5. CASE s = x
      BY <2>3, <2>4, <2>5
    <2>6. CASE s # x
      BY <1>3, <2>3, <2>6 DEF EventsOK
    <2> QED
      BY <2>5, <2>6
  <1> QED
    BY <1>2, <1>4

\* The client variables keep their types.
LEMMA ClientTypeStep ==
  ASSUME HeapOK, RefsOK, ClientOK, [BlocksNext]_allVars
  PROVE  ClientOK'
  <1>1. Len(spans) \in Nat /\ Len(spans') \in Nat /\ Len(spans) <= Len(spans')
        /\ blocks' \in [Ctx -> Seq(1..Len(spans'))]
    <2>1. Len(spans) \in Nat
      BY LenProperties DEF HeapOK
    <2>2. Len(spans') = Len(spans) \/ Len(spans') = Len(spans) + 1
      BY ClientSteps DEF Entered, Left
    <2>3. blocks' \in [Ctx -> Seq(1..Len(spans'))]
      <3>1. ASSUME NEW c \in Ctx, Entered(c)
            PROVE  blocks' \in [Ctx -> Seq(1..Len(spans'))]
        BY <3>1, EnteredBlocks
      <3>2. ASSUME NEW c \in Ctx, NEW i \in 1..Len(blocks[c]), Left(c, i)
            PROVE  blocks' \in [Ctx -> Seq(1..Len(spans'))]
        BY <3>2, LeftBlocks
      <3>3. ASSUME UNCHANGED <<spans, sent, blocks>>
            PROVE  blocks' \in [Ctx -> Seq(1..Len(spans'))]
        BY <3>3 DEF ClientOK
      <3> QED
        BY <3>1, <3>2, <3>3, ClientSteps
    <2> QED
      BY <2>1, <2>2, <2>3
  <1>2. [Ctx -> Seq(1..Len(spans))] \subseteq [Ctx -> Seq(1..Len(spans'))]
    <2>1. 1..Len(spans) \subseteq 1..Len(spans')
      BY <1>1
    <2>2. Seq(1..Len(spans)) \subseteq Seq(1..Len(spans'))
      BY <2>1, SeqMonotonic
    <2> QED
      BY <2>2
  <1>3. base' \in [Ctx -> Seq(1..Len(spans))]
    <2>1. ASSUME NEW c \in Ctx, RunJob(c)
          PROVE  base' \in [Ctx -> Seq(1..Len(spans))]
      <3>1. PICK t \in decorated : base' = [base EXCEPT ![c] = traces[t].stack]
        BY <2>1 DEF RunJob
      <3>2. traces[t].stack \in Seq(1..Len(spans))
        BY TraceType DEF RefsOK
      <3> QED
        BY <3>1, <3>2 DEF ClientOK
    <2>2. ASSUME NEW c \in Ctx, EnterTrace(c)
          PROVE  base' \in [Ctx -> Seq(1..Len(spans))]
      BY <2>2, EmptySeq DEF EnterTrace, ClientOK
    <2>3. ASSUME UNCHANGED base
          PROVE  base' \in [Ctx -> Seq(1..Len(spans))]
      BY <2>3 DEF ClientOK
    <2> QED
      BY <2>1, <2>2, <2>3
         DEF BlocksNext, Enter, Exit, ExitGenerator, Decorate, EndJob, clientVars, allVars
  <1>4. running' \in [Ctx -> BOOLEAN]
    BY DEF BlocksNext, Enter, EnterTrace, Exit, ExitGenerator, Decorate, RunJob, EndJob, clientVars, allVars, ClientOK
  <1> QED
    BY <1>1, <1>2, <1>3, <1>4 DEF ClientOK

EventsInv == HeapOK /\ RefsOK /\ ClientOK /\ Outside /\ OpenOnce /\ EventsOK

\* The invariant about events holds before anything is traced.
LEMMA EventsInvInit == BlocksInit => EventsInv
  BY TypeInit, LenProperties, EmptySeq
     DEF BlocksInit, Init, EventsInv, ClientOK, Outside, OpenOnce, EventsOK

\* Every step of the matched client keeps the invariant about events.
LEMMA EventsInvStep == EventsInv /\ [BlocksNext]_allVars => EventsInv' /\ [Next]_vars
  <1> SUFFICES ASSUME EventsInv, [BlocksNext]_allVars
               PROVE  EventsInv' /\ [Next]_vars
    OBVIOUS
  <1> USE DEF EventsInv
  <1>1. [Next]_vars /\ Outside'
    BY BlocksStepIsTracerStep DEF ClientOK
  <1>2. HeapOK' /\ RefsOK' /\ ClientOK'
    BY <1>1, TypeStep, ClientTypeStep
  <1>3. OpenOnce' /\ EventsOK'
    <2>1. ASSUME UNCHANGED <<spans, sent, blocks>>
          PROVE  OpenOnce' /\ EventsOK'
      BY <2>1 DEF OpenOnce, EventsOK, Holds, Allowed
    <2> QED
      BY <2>1, ClientSteps, EventsEnter, EventsLeave
  <1> QED
    BY <1>1, <1>2, <1>3

\* The state of the matched client always has the shape BlocksTypeOK gives it.
THEOREM BlocksTypeCorrect == BlocksSpec => []BlocksTypeOK
  <1>1. EventsInv => BlocksTypeOK
    BY TypeOKParts DEF EventsInv, ClientOK, BlocksTypeOK
  <1> QED
    BY <1>1, EventsInvInit, EventsInvStep, PTL DEF BlocksSpec

\* Whatever the order in which blocks are left, and however many threads run
\* one decorated function, an open block's event is not out and a closed one's
\* went out once, or was dropped where sampling may drop it.
THEOREM SentOnceCorrect == BlocksSpec => []SentOnce
  <1>1. EventsInv => SentOnce
    BY EventsOKIsSentOnce DEF EventsInv
  <1> QED
    BY <1>1, EventsInvInit, EventsInvStep, PTL DEF BlocksSpec

-----------------------------------------------------------------------------
(* What matched blocks do to the paths *)

\* The path of a context; all of this is for functions that run once and blocks
\* that are left innermost first.
Path(c) == IF current[c] = None THEN <<>> ELSE Stack(c)

Handed == {traces[t].stack : t \in decorated}

BalancedInv ==
  \A c \in Ctx : Path(c) = base[c] \o blocks[c] /\ (current[c] # None => Path(c) # <<>>)

\* No copy is made of a stack that is empty.
JobsOK == <<>> \notin Handed

MatchedInv == EventsInv /\ PathsOK /\ PrivateInv /\ BalancedInv /\ JobsOK

RootOf(id, p) ==
  [trace |-> id, parent |-> p, root |-> TRUE, type |-> IF p = None THEN "root" ELSE "subroot"]

ChildOf(s) == [trace |-> spans[s].trace, parent |-> s, root |-> FALSE, type |-> "child"]

Opened(c, n, outer) ==
  /\ spans' = Append(spans, n)
  /\ sent' = Append(sent, 0)
  /\ blocks' = [blocks EXCEPT ![c] = Append(@, NewSpan)]
  /\ Path(c)' = Append(outer, NewSpan)
  /\ Handed' = Handed

Begins(c) ==
  /\ blocks[c] = <<>>
  /\ base'[c] = <<>>
  /\ \E id \in CallerId \cup {NewTrace}, p \in Parents : Opened(c, RootOf(id, p), <<>>)

Deepens(c) ==
  /\ Path(c) # <<>>
  /\ base'[c] = base[c]
  /\ Opened(c, ChildOf(Last(Path(c))), Path(c))

Closes(c) ==
  /\ blocks[c] # <<>>
  /\ Last(Path(c)) = Last(blocks[c])
  /\ \E o \in Outcomes : Emit(Last(Path(c)), o)
  /\ blocks' = [blocks EXCEPT ![c] = Front(@)]
  /\ Path(c)' = Front(Path(c))
  /\ current'[c] # None => Path(c)' # <<>>
  /\ base'[c] = base[c]
  /\ Handed' = Handed
  /\ UNCHANGED spans

Gives(c) ==
  /\ Path(c) # <<>>
  /\ Handed' = Handed \cup {Path(c)}
  /\ Path(c)' = Path(c)
  /\ base'[c] = base[c]
  /\ UNCHANGED <<spans, sent, blocks>>

Takes(c) ==
  /\ blocks[c] = <<>>
  /\ Path(c)' \in Handed
  /\ base'[c] = Path(c)'
  /\ Handed \ {Path(c)'} \subseteq Handed' /\ Handed' \subseteq Handed
  /\ UNCHANGED <<spans, sent, blocks>>

OthersSame(c) ==
  \A d \in Ctx \ {c} :
    /\ Path(d)' = Path(d)
    /\ current'[d] = current[d]
    /\ base'[d] = base[d]

\* The path of a context is a sequence of spans that exist.
LEMMA PathType ==
  ASSUME HeapOK, RefsOK, NEW c \in Ctx
  PROVE  /\ Path(c) \in Seq(1..Len(spans))
         /\ current[c] # None => current[c] \in 1..Len(traces)
  <1>1. current[c] # None => current[c] \in 1..Len(traces)
    BY LenProperties DEF HeapOK, RefsOK, None
  <1> QED
    BY <1>1, TraceType, EmptySeq DEF Path, Stack

\* The end of a path.
LEMMA PathEnd ==
  ASSUME HeapOK, RefsOK, PathsOK, NEW c \in Ctx, Path(c) # <<>>
  PROVE  /\ current[c] \in 1..Len(traces) /\ current[c] # None /\ Stack(c) = Path(c)
         /\ Last(Path(c)) \in 1..Len(spans)
         /\ spans[Last(Path(c))].trace = traces[current[c]].id
         /\ spans[Last(Path(c))].root <=> Len(Path(c)) = 1
         /\ ActiveSpan(c) = Last(Path(c))
  <1>1. current[c] # None /\ Stack(c) = Path(c)
    BY DEF Path
  <1>2. current[c] \in 1..Len(traces) /\ Path(c) \in Seq(1..Len(spans))
    BY <1>1, PathType
  <1>3. PathOK(Path(c), traces[current[c]].id, spans)
    BY <1>1, <1>2 DEF PathsOK, Stack
  <1>4. PICK st \in Seq(1..Len(spans)) : st = Path(c)
    BY <1>2
  <1>5. st # <<>> /\ Len(st) \in Nat \ {0} /\ Last(st) = st[Len(st)] /\ Last(st) \in 1..Len(spans)
    BY <1>4, SeqFront
  <1>6. PathOK(st, traces[current[c]].id, spans)
    BY <1>3, <1>4
  <1>7. spans[Last(st)].trace = traces[current[c]].id /\ (spans[Last(st)].root <=> Len(st) = 1)
    <2>1. Len(st) \in 1..Len(st)
      BY <1>5
    <2>2. /\ spans[st[Len(st)]].trace = traces[current[c]].id
          /\ spans[st[Len(st)]].root <=> (Len(st) = 1)
      BY <1>6, <2>1, Zenon DEF PathOK
    <2> QED
      BY <1>5, <2>2, Zenon
  <1> QED
    BY <1>1, <1>2, <1>4, <1>5, <1>7 DEF ActiveSpan

\* No step of a context reaches the paths of the others.
LEMMA PathsApart ==
  ASSUME HeapOK, RefsOK, PrivateInv, ClientOK, Outside, NEW c \in Ctx,
         Enter(c) \/ EnterTrace(c) \/ Exit(c) \/ Decorate(c) \/ RunJob(c)
  PROVE  OthersSame(c)
  <1>1. Call(c) /\ sending[c] = None
    BY BlockIsCall DEF ClientOK, Outside
  <1>2. OthersKept(c)
    BY <1>1, StepKeeps DEF Acts
  <1>3. \A d \in Ctx \ {c} : base'[d] = base[d]
    BY DEF Enter, EnterTrace, Exit, Decorate, RunJob, clientVars, ClientOK
  <1> QED
    BY <1>2, <1>3 DEF OthersKept, OthersSame, Path, Stack

\* ... nor do the changes a context makes to its own Trace reach the copies
\* that wait in decorated functions.
LEMMA HandedKept ==
  ASSUME HeapOK, RefsOK, PrivateInv, UNCHANGED decorated,
         \A t \in decorated : traces'[t].stack = traces[t].stack
  PROVE  Handed' = Handed
  BY DEF Handed

\* A block is entered where nothing of the thread's is open.
LEMMA EnterTraceBegins ==
  ASSUME MatchedInv, NEW c \in Ctx, NEW id \in CallerId \cup {None}, NEW p \in Parents,
         StartTrace(c, id, p), blocks[c] = <<>>, base'[c] = <<>>,
         blocks' = [blocks EXCEPT ![c] = Append(@, NewSpan)]
  PROVE  Begins(c)
  <1> USE DEF MatchedInv, EventsInv
  <1> DEFINE tid == IF id = None THEN NewTrace ELSE id
  <1>1. tid \in CallerId \cup {NewTrace}
    OBVIOUS
  <1>2. /\ Len(traces) \in Nat /\ NewTrace = Len(traces) + 1
        /\ traces'[NewTrace] = [id |-> tid, stack |-> <<NewSpan>>]
        /\ \A u \in 1..Len(traces) : traces'[u] = traces[u]
    <2>1. traces' = Append(traces, [id |-> tid, stack |-> <<NewSpan>>])
      BY DEF StartTrace
    <2> HIDE DEF tid
    <2> QED
      BY <2>1, TraceAppended DEF NewTrace
  <1>3. current'[c] = NewTrace /\ NewTrace # None
    BY <1>2 DEF StartTrace, RefsOK, None
  <1>4. Path(c)' = Append(<<>>, NewSpan)
    BY <1>2, <1>3 DEF Path, Stack
  <1>5. Handed' = Handed
    BY <1>2, HandedKept DEF RefsOK, StartTrace
  <1>6. spans' = Append(spans, RootOf(tid, p)) /\ sent' = Append(sent, 0)
    BY DEF StartTrace, PushSpan, RootOf
  <1>7. Opened(c, RootOf(tid, p), <<>>)
    BY <1>4, <1>5, <1>6 DEF Opened
  <1> HIDE DEF tid
  <1> QED
    BY <1>1, <1>7 DEF Begins

\* A block is entered inside another.
LEMMA StartSpanDeepens ==
  ASSUME MatchedInv, NEW c \in Ctx, StartSpan(c, None), UNCHANGED base,
         blocks' = [blocks EXCEPT ![c] = Append(@, NewSpan)]
  PROVE  Deepens(c)
  <1> USE DEF MatchedInv, EventsInv
  <1>1. Path(c) # <<>>
    BY DEF BalancedInv, StartSpan
  <1>2. /\ current[c] \in 1..Len(traces) /\ current[c] # None /\ Stack(c) = Path(c)
        /\ spans[Last(Path(c))].trace = traces[current[c]].id
        /\ ActiveSpan(c) = Last(Path(c))
    BY <1>1, PathEnd
  <1>3. PICK st : st = Append(Stack(c), NewSpan)
    OBVIOUS
  <1>4. /\ traces'[current[c]].stack = st
        /\ \A u \in 1..Len(traces) : u # current[c] => traces'[u] = traces[u]
    <2>1. traces' = [traces EXCEPT ![current[c]].stack = st]
      BY <1>3 DEF StartSpan, Stack
    <2> QED
      BY <1>2, <2>1, StackReplaced
  <1>5. Path(c)' = Append(Path(c), NewSpan)
    BY <1>2, <1>3, <1>4 DEF Path, Stack, StartSpan
  <1>6. Handed' = Handed
    <2>1. current[c] \notin decorated
      BY <1>2 DEF PrivateInv
    <2> QED
      BY <1>4, <2>1, HandedKept DEF RefsOK, StartSpan
  <1>7. spans' = Append(spans, ChildOf(Last(Path(c)))) /\ sent' = Append(sent, 0)
    BY <1>1, <1>2 DEF StartSpan, PushSpan, ChildOf
  <1> QED
    BY <1>1, <1>5, <1>6, <1>7 DEF Deepens, Opened

\* Entering a block begins a trace or deepens the path the thread is on.
LEMMA EnterOpens ==
  ASSUME MatchedInv, NEW c \in Ctx, Enter(c)
  PROVE  Begins(c) \/ Deepens(c)
  <1>1. CASE current[c] # None
    BY <1>1, StartSpanDeepens DEF Enter, NewEvent
  <1>2. CASE current[c] = None
    <2>1. base[c] = <<>> /\ blocks[c] = <<>>
      BY <1>2, ConcatEmpty DEF MatchedInv, EventsInv, ClientOK, BalancedInv, Path
    <2>2. None \in Parents /\ None \in CallerId \cup {None}
      BY DEF Parents
    <2> QED
      BY <1>2, <2>1, <2>2, EnterTraceBegins DEF Enter, NewEvent
  <1> QED
    BY <1>1, <1>2

\* A block is left: its span is at the end of the path, and a root is alone.
LEMMA ExitCloses ==
  ASSUME MatchedInv, NEW c \in Ctx, Exit(c)
  PROVE  Closes(c)
  <1> USE DEF MatchedInv, EventsInv
  <1>1. base[c] \o blocks[c] # <<>> /\ Last(base[c] \o blocks[c]) = Last(blocks[c])
    <2>1. base[c] \in Seq(1..Len(spans)) /\ blocks[c] \in Seq(1..Len(spans)) /\ blocks[c] # <<>>
      BY DEF Exit, ClientOK
    <2> QED
      BY <2>1, ConcatFront
  <1>2. Path(c) # <<>> /\ Last(Path(c)) = Last(blocks[c])
    BY <1>1 DEF BalancedInv
  <1>3. PICK s : s = Last(Path(c))
    OBVIOUS
  <1>4. /\ current[c] \in 1..Len(traces) /\ current[c] # None /\ Stack(c) = Path(c)
        /\ spans[s].trace = traces[current[c]].id
        /\ spans[s].root <=> Len(Path(c)) = 1
    BY <1>2, <1>3, PathEnd
  <1>5. PICK o \in Outcomes : Close(c, s, o)
    BY <1>2, <1>3 DEF Exit
  <1>6. IsInnermost(c, s) /\ o # "raised"
    BY <1>2, <1>3, <1>4, BlocksAssumption DEF IsInnermost
  <1>7. /\ Emit(s, o) /\ UNCHANGED spans
        /\ traces' = [traces EXCEPT ![current[c]].stack = Front(@)]
        /\ current' = IF spans[s].root THEN [current EXCEPT ![c] = None] ELSE current
    BY <1>5, <1>6 DEF Close, FinishSpan, FinishTrace, Pop
  <1>8. /\ traces'[current[c]].stack = Front(Path(c))
        /\ \A u \in 1..Len(traces) : u # current[c] => traces'[u] = traces[u]
    <2>1. traces' = [traces EXCEPT ![current[c]].stack = Front(Path(c))]
      BY <1>4, <1>7 DEF Stack
    <2> QED
      BY <1>4, <2>1, StackReplaced
  <1>9. Path(c)' = Front(Path(c)) /\ (current'[c] # None => Path(c)' # <<>>)
    <2>1. PICK st \in Seq(1..Len(spans)) : st = Path(c)
      BY PathType
    <2>2. /\ Len(st) \in Nat \ {0} /\ Front(st) \in Seq(1..Len(spans)) /\ Len(Front(st)) = Len(st) - 1
      BY <1>2, <2>1, SeqFront
    <2>3. Front(st) = <<>> <=> Len(st) = 1
      <3>1. PICK f \in Seq(1..Len(spans)), k \in Nat \ {0} : f = Front(st) /\ k = Len(st) /\ Len(f) = k - 1
        BY <2>2
      <3>2. f = <<>> <=> Len(f) = 0
        BY EmptySeq
      <3>3. f = <<>> <=> k = 1
        BY <3>1, <3>2
      <3> QED
        BY <3>1, <3>3, Zenon
    <2>4. CASE spans[s].root
      BY <1>4, <1>7, <2>1, <2>3, <2>4 DEF Path, RefsOK
    <2>5. CASE ~spans[s].root
      BY <1>4, <1>7, <1>8, <2>1, <2>3, <2>5 DEF Path, Stack
    <2> QED
      BY <2>4, <2>5
  <1>10. Handed' = Handed
    <2>1. current[c] \notin decorated
      BY <1>4 DEF PrivateInv
    <2> QED
      BY <1>8, <2>1, HandedKept DEF RefsOK, Exit
  <1> QED
    BY <1>2, <1>3, <1>7, <1>9, <1>10 DEF Closes, Exit

\* traced_thread gives away a copy of the path.
LEMMA DecorateGives ==
  ASSUME MatchedInv, NEW c \in Ctx, Decorate(c)
  PROVE  Gives(c)
  <1> USE DEF MatchedInv, EventsInv
  <1>1. current[c] \in 1..Len(traces) /\ current[c] # None /\ Path(c) = Stack(c) /\ Path(c) # <<>>
    BY PathType DEF Decorate, TracedThread, BalancedInv, Path
  <1>2. /\ Len(traces) \in Nat /\ NewTrace = Len(traces) + 1
        /\ traces'[NewTrace] = CopyOf(current[c])
        /\ \A u \in 1..Len(traces) : traces'[u] = traces[u]
    BY TraceAppended DEF NewTrace, Decorate, TracedThread
  <1>3. traces'[NewTrace].stack = Path(c)
    BY <1>1, <1>2 DEF CopyOf, Stack
  <1>4. Handed' = Handed \cup {Path(c)}
    <2>1. decorated' = decorated \cup {NewTrace}
      BY DEF Decorate, TracedThread
    <2>2. \A t \in decorated : traces'[t].stack = traces[t].stack
      BY <1>2 DEF RefsOK
    <2> QED
      BY <1>3, <2>1, <2>2 DEF Handed
  <1>5. Path(c)' = Path(c)
    BY <1>1, <1>2 DEF Path, Stack, Decorate, TracedThread
  <1> QED
    BY <1>1, <1>4, <1>5 DEF Gives, Decorate, TracedThread, clientVars

\* A decorated function takes over the path that it was given.
LEMMA RunJobTakes ==
  ASSUME MatchedInv, ~Reuse, NEW c \in Ctx, RunJob(c)
  PROVE  Takes(c)
  <1> USE DEF MatchedInv, EventsInv
  <1>1. PICK t \in decorated : RunDecorated(c, t) /\ base' = [base EXCEPT ![c] = traces[t].stack]
    BY DEF RunJob
  <1>2. current'[c] = t /\ t # None /\ decorated' = decorated \ {t} /\ UNCHANGED <<traces, spans, sent>>
    BY <1>1, LenProperties DEF RunDecorated, RefsOK, HeapOK, None
  <1>3. Path(c)' = traces[t].stack
    BY <1>2 DEF Path, Stack
  <1>4. Handed \ {traces[t].stack} \subseteq Handed' /\ Handed' \subseteq Handed
    BY <1>2 DEF Handed
  <1>5. base'[c] = traces[t].stack
    BY <1>1 DEF ClientOK
  <1> QED
    BY <1>2, <1>3, <1>4, <1>5 DEF Takes, RunJob, Handed

\* Every step, as the paths see it.
Stays ==
  /\ UNCHANGED <<spans, sent, blocks, base>>
  /\ \A c \in Ctx : Path(c)' = Path(c) /\ current'[c] = current[c]
  /\ Handed' = Handed

\* A step of the matched client has one of six effects on the paths.
LEMMA MatchedSteps ==
  ASSUME MatchedInv, ~Reuse, ~Generators, [BlocksNext]_allVars
  PROVE  \/ \E c \in Ctx : OthersSame(c) /\ (Begins(c) \/ Deepens(c) \/ Closes(c) \/ Gives(c) \/ Takes(c))
         \/ Stays
  <1> USE DEF MatchedInv, EventsInv
  <1>1. ASSUME NEW c \in Ctx, Enter(c) \/ EnterTrace(c) \/ Exit(c) \/ Decorate(c) \/ RunJob(c)
        PROVE  OthersSame(c) /\ (Begins(c) \/ Deepens(c) \/ Closes(c) \/ Gives(c) \/ Takes(c))
    <2>1. OthersSame(c)
      BY <1>1, PathsApart
    <2>2. CASE EnterTrace(c)
      <3>1. Append(<<>>, NewSpan) = <<NewSpan>>
        OBVIOUS
      <3>2. /\ blocks[c] = <<>> /\ base'[c] = <<>>
            /\ blocks' = [blocks EXCEPT ![c] = Append(@, NewSpan)]
        BY <2>2, <3>1 DEF EnterTrace, ClientOK
      <3>3. PICK id \in CallerId \cup {None}, p \in Parents : StartTrace(c, id, p)
        BY <2>2 DEF EnterTrace
      <3> QED
        BY <2>1, <3>2, <3>3, EnterTraceBegins
    <2> QED
      BY <1>1, <2>1, <2>2, EnterOpens, ExitCloses, DecorateGives, RunJobTakes
  <1>2. ASSUME UNCHANGED <<vars, blocks, base>>
        PROVE  Stays
    BY <1>2 DEF vars, Stays, Path, Stack, Handed
  <1> QED
    BY <1>1, <1>2 DEF BlocksNext, ExitGenerator, EndJob, allVars, clientVars

\* The steps keep the balance.
LEMMA BalancedStep ==
  ASSUME MatchedInv, ~Reuse, ~Generators, [BlocksNext]_allVars
  PROVE  BalancedInv' /\ JobsOK'
  <1> USE DEF MatchedInv, EventsInv
  <1>1. CASE Stays
    BY <1>1 DEF Stays, BalancedInv, JobsOK
  <1>2. ASSUME NEW c \in Ctx, OthersSame(c),
               Begins(c) \/ Deepens(c) \/ Closes(c) \/ Gives(c) \/ Takes(c)
        PROVE  BalancedInv' /\ JobsOK'
    <2>1. ASSUME NEW d \in Ctx \ {c}
          PROVE  Path(d)' = base'[d] \o blocks'[d] /\ (current'[d] # None => Path(d)' # <<>>)
      <3>1. blocks'[d] = blocks[d]
        BY <1>2 DEF Begins, Deepens, Opened, Closes, Gives, Takes, ClientOK
      <3> QED
        BY <1>2, <3>1 DEF OthersSame, BalancedInv
    <2>2. /\ NewSpan \in 1..(Len(spans) + 1)
          /\ base[c] \in Seq(1..(Len(spans) + 1)) /\ blocks[c] \in Seq(1..(Len(spans) + 1))
          /\ Path(c) \in Seq(1..(Len(spans) + 1))
          /\ base[c] \in Seq(1..Len(spans)) /\ blocks[c] \in Seq(1..Len(spans))
      <3>1. Len(spans) \in Nat /\ 1..Len(spans) \subseteq 1..(Len(spans) + 1)
        BY LenProperties DEF HeapOK
      <3> QED
        BY <3>1, SeqMonotonic, PathType DEF NewSpan, ClientOK
    <2>3. CASE Begins(c)
      <3>1. Path(c)' = Append(<<>>, NewSpan) /\ base'[c] = <<>> /\ blocks'[c] = Append(<<>>, NewSpan)
            /\ Handed' = Handed
        BY <2>3 DEF Begins, Opened, ClientOK
      <3>2. <<>> \o Append(<<>>, NewSpan) = Append(<<>>, NewSpan) /\ Append(<<>>, NewSpan) # <<>>
        OBVIOUS
      <3> QED
        BY <2>1, <3>1, <3>2 DEF BalancedInv, JobsOK
    <2>4. CASE Deepens(c)
      <3>1. Path(c)' = Append(Path(c), NewSpan) /\ base'[c] = base[c] /\ blocks'[c] = Append(blocks[c], NewSpan)
            /\ Handed' = Handed
        BY <2>4 DEF Deepens, Opened, ClientOK
      <3>2. Append(base[c] \o blocks[c], NewSpan) = base[c] \o Append(blocks[c], NewSpan)
        <4>1. PICK n, b, k, S : n = NewSpan /\ b = base[c] /\ k = blocks[c] /\ S = 1..(Len(spans) + 1)
          OBVIOUS
        <4>2. n \in S /\ b \in Seq(S) /\ k \in Seq(S)
          BY <2>2, <4>1
        <4>3. Append(b \o k, n) = b \o Append(k, n)
          BY <4>2
        <4> QED
          BY <4>1, <4>3
      <3>3. Append(Path(c), NewSpan) # <<>>
        <4>1. Len(Append(Path(c), NewSpan)) = Len(Path(c)) + 1 /\ Len(Path(c)) \in Nat
          BY <2>2, SeqAppend, LenProperties
        <4> QED
          BY <4>1
      <3> QED
        BY <2>1, <3>1, <3>2, <3>3 DEF BalancedInv, JobsOK
    <2>5. CASE Closes(c)
      <3>1. Path(c)' = Front(base[c] \o blocks[c]) /\ base'[c] = base[c] /\ blocks'[c] = Front(blocks[c])
            /\ (current'[c] # None => Path(c)' # <<>>) /\ Handed' = Handed
        BY <2>5 DEF Closes, ClientOK, BalancedInv
      <3>2. Front(base[c] \o blocks[c]) = base[c] \o Front(blocks[c])
        BY <2>2, <2>5, ConcatFront DEF Closes
      <3> QED
        BY <2>1, <3>1, <3>2 DEF BalancedInv, JobsOK
    <2>6. CASE Gives(c)
      <3>1. current'[c] # None => Path(c)' # <<>>
        BY <2>6 DEF Gives
      <3>2. Path(c)' = base'[c] \o blocks'[c] /\ <<>> \notin Handed'
        BY <2>6 DEF Gives, BalancedInv, JobsOK
      <3> QED
        BY <2>1, <3>1, <3>2 DEF BalancedInv, JobsOK
    <2>7. CASE Takes(c)
      <3>1. Path(c)' \in Handed /\ base'[c] = Path(c)' /\ blocks'[c] = <<>> /\ Handed' \subseteq Handed
        BY <2>7 DEF Takes
      <3>2. Path(c)' \in Seq(1..Len(spans))
        BY <3>1, TraceType DEF Handed, RefsOK
      <3>3. Path(c)' = base'[c] \o blocks'[c]
        BY <3>1, <3>2, ConcatEmptySeq
      <3> QED
        BY <2>1, <3>1, <3>3 DEF BalancedInv, JobsOK
    <2> QED
      BY <1>2, <2>3, <2>4, <2>5, <2>6, <2>7
  <1> QED
    BY <1>1, <1>2, MatchedSteps

\* The inductive invariant of the matched client.
LEMMA MatchedCorrect ==
  ASSUME ~Reuse, ~Generators
  PROVE  BlocksSpec => []MatchedInv
  <1>1. BlocksInit => MatchedInv
    <2> SUFFICES ASSUME BlocksInit PROVE MatchedInv
      OBVIOUS
    <2>1. EventsInv
      BY EventsInvInit
    <2>2. PathsOK /\ PrivateInv /\ JobsOK
      BY LenProperties DEF BlocksInit, Init, PathsOK, PrivateInv, JobsOK, Handed
    <2>3. BalancedInv
      <3>1. <<>> \o <<>> = <<>>
        OBVIOUS
      <3> QED
        BY <3>1 DEF BlocksInit, Init, BalancedInv, Path
    <2> QED
      BY <2>1, <2>2, <2>3 DEF MatchedInv
  <1>2. MatchedInv /\ [BlocksNext]_allVars => MatchedInv'
    BY EventsInvStep, PathStep, PrivateStep, BalancedStep DEF MatchedInv, EventsInv
  <1> QED
    BY <1>1, <1>2, PTL DEF BlocksSpec

\* With functions that run once and blocks left innermost first, the stack
\* behind `_trace` is always what was taken over with the job and then the
\* blocks that are open, and without a trace no block is open.
THEOREM BalancedCorrect == BlocksSpec => []Balanced
  <1>1. CASE ~Reuse /\ ~Generators
    <2>1. MatchedInv => Balanced
      <3> SUFFICES ASSUME MatchedInv, NEW c \in Ctx
                   PROVE  IF current[c] = None
                          THEN blocks[c] = <<>> /\ base[c] = <<>>
                          ELSE Stack(c) = base[c] \o blocks[c] /\ Stack(c) # <<>>
        BY DEF Balanced
      <3>1. CASE current[c] = None
        BY <3>1, ConcatEmpty DEF MatchedInv, EventsInv, ClientOK, BalancedInv, Path
      <3>2. CASE current[c] # None
        BY <3>2 DEF MatchedInv, BalancedInv, Path
      <3> QED
        BY <3>1, <3>2
    <2> QED
      BY <1>1, <2>1, MatchedCorrect, PTL
  <1>2. CASE ~(~Reuse /\ ~Generators)
    <2>1. Balanced
      BY <1>2 DEF Balanced
    <2> QED
      BY <2>1, PTL
  <1> QED
    BY <1>1, <1>2

-----------------------------------------------------------------------------
(* Parents, trees, and the forest of SpanTree *)

\* The span that a step makes is the last one.
LEMMA SpanMade ==
  ASSUME HeapOK, NEW n, spans' = Append(spans, n)
  PROVE  spans' # <<>> /\ Last(spans') = n
  <1>1. PICK sp \in Seq(SpanSet(Len(traces), Len(spans))) : sp = spans
    BY DEF HeapOK
  <1>2. Append(sp, n) # <<>> /\ Last(Append(sp, n)) = n
    BY LastPushed
  <1> QED
    BY <1>1, <1>2

\* How many blocks a context has open.
LEMMA OpenCount ==
  ASSUME MatchedInv, NEW c \in Ctx
  PROVE  /\ Len(blocks[c]) \in Nat
         /\ Begins(c) \/ Deepens(c) => Len(blocks'[c]) = Len(blocks[c]) + 1
         /\ Closes(c) => Len(blocks'[c]) = Len(blocks[c]) - 1 /\ Len(blocks[c]) > 0
         /\ Gives(c) \/ Takes(c) => blocks' = blocks
         /\ Begins(c) \/ Deepens(c) \/ Closes(c) =>
              /\ \A d \in Ctx \ {c} : blocks'[d] = blocks[d]
  <1> USE DEF MatchedInv, EventsInv, ClientOK
  <1>1. Len(blocks[c]) \in Nat
    BY LenProperties
  <1>2. ASSUME Begins(c) \/ Deepens(c)
        PROVE  Len(blocks'[c]) = Len(blocks[c]) + 1 /\ \A d \in Ctx \ {c} : blocks'[d] = blocks[d]
    BY <1>2, LastAppended DEF Begins, Deepens, Opened
  <1>3. ASSUME Closes(c)
        PROVE  /\ Len(blocks'[c]) = Len(blocks[c]) - 1 /\ Len(blocks[c]) > 0
               /\ \A d \in Ctx \ {c} : blocks'[d] = blocks[d]
    <2>1. blocks'[c] = Front(blocks[c]) /\ blocks[c] \in Seq(1..Len(spans)) /\ blocks[c] # <<>>
      BY <1>3 DEF Closes
    <2>2. PICK st \in Seq(1..Len(spans)) : st = blocks[c]
      BY <2>1
    <2>3. Len(st) \in Nat \ {0} /\ Len(Front(st)) = Len(st) - 1
      BY <2>1, <2>2, SeqFront
    <2>4. \A d \in Ctx \ {c} : blocks'[d] = blocks[d]
      BY <1>3 DEF Closes
    <2> QED
      BY <2>1, <2>2, <2>3, <2>4
  <1> QED
    BY <1>1, <1>2, <1>3 DEF Gives, Takes

\* Opening a block inside others makes its span a child of the innermost one's,
\* counting those of the thread that decorated the function that runs.
THEOREM ParentRunningCorrect ==
  ASSUME ~Reuse, ~Generators
  PROVE  BlocksSpec => ParentRunning
  <1> DEFINE Hung == \A c \in Ctx :
               Len(blocks'[c]) > Len(blocks[c]) /\ Around(c) # <<>> /\ ~Last(spans').root
                 => Last(spans').parent = Last(Around(c))
  <1>1. MatchedInv /\ [BlocksNext]_allVars => [Hung]_allVars
    <2> SUFFICES ASSUME MatchedInv, [BlocksNext]_allVars, NEW d \in Ctx,
                        Len(blocks'[d]) > Len(blocks[d]), ~Last(spans').root
                 PROVE  Last(spans').parent = Last(Around(d))
      OBVIOUS
    <2>1. PICK c \in Ctx : Begins(c) \/ Deepens(c) \/ Closes(c) \/ Gives(c) \/ Takes(c)
      BY MatchedSteps, OpenCount DEF Stays
    <2>2. c = d /\ (Begins(c) \/ Deepens(c))
      BY <2>1, OpenCount
    <2>3. ASSUME Begins(c) PROVE FALSE
      <3>1. PICK id, p : spans' = Append(spans, RootOf(id, p))
        BY <2>3 DEF Begins, Opened
      <3>2. Last(spans') = RootOf(id, p)
        BY <3>1, SpanMade DEF MatchedInv, EventsInv
      <3> QED
        BY <3>2 DEF RootOf
    <2>4. Last(spans') = ChildOf(Last(Path(c)))
      BY <2>2, <2>3, SpanMade DEF Deepens, Opened, MatchedInv, EventsInv
    <2>5. Around(c) = Path(c)
      BY DEF Around, MatchedInv, BalancedInv
    <2> QED
      BY <2>2, <2>4, <2>5 DEF ChildOf
  <1> QED
    BY <1>1, MatchedCorrect, PTL DEF BlocksSpec, ParentRunning

TreeInv ==
  \A s \in 1..Len(spans) :
    /\ spans[s].root <=> spans[s].type # "child"
    /\ ~spans[s].root =>
         spans[s].parent \in 1..(s - 1) /\ spans[spans[s].parent].trace = spans[s].trace
    /\ spans[s].root /\ spans[s].trace \notin CallerId =>
         \A u \in 1..Len(spans) : spans[u].root /\ spans[u].trace = spans[s].trace => u = s

\* No span made so far is in a trace that is still to be made.
LEMMA NewTraceFresh ==
  ASSUME HeapOK
  PROVE  /\ NewTrace \notin CallerId
         /\ \A s \in 1..Len(spans) : spans[s].trace # NewTrace
  <1>1. \A s \in 1..Len(spans) : spans[s].trace \in CallerId \cup (1..Len(traces))
    <2>1. \A s \in 1..Len(spans) : spans[s] \in SpanSet(Len(traces), Len(spans))
      BY ElementOfSeq DEF HeapOK
    <2> QED
      BY <2>1 DEF SpanSet
  <1>2. Len(traces) \in Nat /\ NewTrace = Len(traces) + 1
    BY LenProperties DEF HeapOK, NewTrace
  <1> QED
    BY <1>1, <1>2, TracerAssumption

\* Every step of the matched client keeps the spans a forest.
LEMMA TreeStep ==
  ASSUME MatchedInv, TreeInv, ~Reuse, ~Generators, [BlocksNext]_allVars
  PROVE  TreeInv'
  <1> USE DEF MatchedInv, EventsInv
  <1>1. CASE UNCHANGED spans
    BY <1>1 DEF TreeInv
  <1>2. ASSUME NEW n, spans' = Append(spans, n),
               \/ n = ChildOf(n.parent) /\ n.parent \in 1..Len(spans)
               \/ \E id \in CallerId \cup {NewTrace}, p \in Parents : n = RootOf(id, p)
        PROVE  TreeInv'
    <2>1. PICK m \in Nat : m = Len(spans)
      BY LenProperties DEF HeapOK
    <2>2. /\ Len(spans') = m + 1 /\ spans'[m + 1] = n
          /\ \A s \in 1..m : spans'[s] = spans[s]
      BY <1>2, <2>1, LastAppended DEF HeapOK
    <2>3. CASE n = ChildOf(n.parent) /\ n.parent \in 1..Len(spans)
      <3>1. /\ n.root = FALSE /\ n.type = "child" /\ n.parent \in 1..m
            /\ n.trace = spans[n.parent].trace
        BY <2>1, <2>3 DEF ChildOf
      <3> SUFFICES ASSUME NEW s \in 1..(m + 1)
                   PROVE  /\ spans'[s].root <=> spans'[s].type # "child"
                          /\ ~spans'[s].root =>
                               /\ spans'[s].parent \in 1..(s - 1)
                               /\ spans'[spans'[s].parent].trace = spans'[s].trace
                          /\ spans'[s].root /\ spans'[s].trace \notin CallerId =>
                               \A u \in 1..(m + 1) :
                                 spans'[u].root /\ spans'[u].trace = spans'[s].trace => u = s
        BY <2>1, <2>2 DEF TreeInv
      <3>2. CASE s = m + 1
        BY <2>1, <2>2, <3>1, <3>2
      <3>3. CASE s \in 1..m
        <4>1. /\ spans[s].root <=> spans[s].type # "child"
              /\ ~spans[s].root =>
                   spans[s].parent \in 1..(s - 1) /\ spans[spans[s].parent].trace = spans[s].trace
              /\ spans[s].root /\ spans[s].trace \notin CallerId =>
                   \A u \in 1..m : spans[u].root /\ spans[u].trace = spans[s].trace => u = s
          BY <2>1, <3>3 DEF TreeInv
        <4>2. spans'[s] = spans[s]
          BY <2>2, <3>3
        <4>3. spans'[s].root /\ spans'[s].trace \notin CallerId =>
                \A u \in 1..(m + 1) : spans'[u].root /\ spans'[u].trace = spans'[s].trace => u = s
          <5> SUFFICES ASSUME spans[s].root, spans[s].trace \notin CallerId,
                              NEW u \in 1..(m + 1), spans'[u].root, spans'[u].trace = spans[s].trace
                       PROVE  u = s
            BY <4>2
          <5>1. u \in 1..m
            BY <2>1, <2>2, <3>1
          <5> QED
            BY <2>2, <4>1, <5>1
        <4>4. ~spans'[s].root =>
                spans'[s].parent \in 1..(s - 1) /\ spans'[spans'[s].parent].trace = spans'[s].trace
          <5> SUFFICES ASSUME ~spans[s].root
                       PROVE  /\ spans[s].parent \in 1..(s - 1)
                              /\ spans'[spans[s].parent].trace = spans[s].trace
            BY <4>2
          <5>1. spans[s].parent \in 1..(s - 1) /\ spans[s].parent \in 1..m
            BY <2>1, <3>3, <4>1
          <5> QED
            BY <2>2, <4>1, <5>1
        <4> QED
          BY <4>1, <4>2, <4>3, <4>4
      <3> QED
        BY <2>1, <3>2, <3>3
    <2>4. ASSUME NEW id \in CallerId \cup {NewTrace}, NEW p \in Parents, n = RootOf(id, p)
          PROVE  TreeInv'
      <3>1. n.root = TRUE /\ n.type # "child" /\ n.trace = id
        BY <2>4 DEF RootOf
      <3>2. n.trace \notin CallerId => \A s \in 1..m : spans[s].trace # n.trace
        BY <2>1, <3>1, NewTraceFresh
      <3> SUFFICES ASSUME NEW s \in 1..(m + 1)
                   PROVE  /\ spans'[s].root <=> spans'[s].type # "child"
                          /\ ~spans'[s].root =>
                               /\ spans'[s].parent \in 1..(s - 1)
                               /\ spans'[spans'[s].parent].trace = spans'[s].trace
                          /\ spans'[s].root /\ spans'[s].trace \notin CallerId =>
                               \A u \in 1..(m + 1) :
                                 spans'[u].root /\ spans'[u].trace = spans'[s].trace => u = s
        BY <2>1, <2>2 DEF TreeInv
      <3>3. CASE s = m + 1
        BY <2>1, <2>2, <3>1, <3>2, <3>3
      <3>4. CASE s \in 1..m
        BY <2>1, <2>2, <3>1, <3>2, <3>4 DEF TreeInv
      <3> QED
        BY <2>1, <3>3, <3>4
    <2> QED
      BY <1>2, <2>3, <2>4
  <1>3. ASSUME NEW c \in Ctx, Begins(c)
        PROVE  TreeInv'
    BY <1>2, <1>3 DEF Begins, Opened
  <1>4. ASSUME NEW c \in Ctx, Deepens(c)
        PROVE  TreeInv'
    <2>1. Last(Path(c)) \in 1..Len(spans)
      BY <1>4, PathEnd DEF Deepens
    <2>2. ChildOf(Last(Path(c))).parent = Last(Path(c))
      BY DEF ChildOf
    <2> QED
      BY <1>2, <1>4, <2>1, <2>2 DEF Deepens, Opened
  <1> QED
    BY <1>1, <1>3, <1>4, MatchedSteps DEF Closes, Gives, Takes, Stays

\* The spans of matched blocks are trees with the parents that were running,
\* and every trace the beeline names has one root.
THEOREM SpansFormTreesCorrect == BlocksSpec => []SpansFormTrees
  <1>1. CASE ~Reuse /\ ~Generators
    <2>1. BlocksInit => TreeInv
      BY LenProperties DEF BlocksInit, Init, TreeInv
    <2>2. MatchedInv /\ TreeInv /\ [BlocksNext]_allVars => TreeInv'
      BY <1>1, TreeStep
    <2>3. MatchedInv /\ TreeInv => SpansFormTrees
      <3> SUFFICES ASSUME MatchedInv, TreeInv PROVE SpansFormTrees
        OBVIOUS
      <3>1. DOMAIN spans = 1..Len(spans)
        BY LenProperties DEF MatchedInv, EventsInv, HeapOK
      <3> QED
        BY <3>1, Zenon DEF TreeInv, SpansFormTrees
    <2> QED
      BY <1>1, <2>1, <2>2, <2>3, MatchedCorrect, PTL DEF BlocksSpec
  <1>2. CASE ~(~Reuse /\ ~Generators)
    <2>1. SpansFormTrees
      BY <1>2 DEF SpansFormTrees
    <2> QED
      BY <2>1, PTL
  <1> QED
    BY <1>1, <1>2

\* What SpanTree sees of a state.
TreePath == [c \in Ctx |-> Path(c)]
TreeOwn == [c \in Ctx |-> Len(blocks[c])]

\* A step of c moves c's path and nobody else's.
LEMMA TreePathStep ==
  ASSUME MatchedInv, NEW c \in Ctx, OthersSame(c)
  PROVE  TreePath' = [TreePath EXCEPT ![c] = Path(c)']
  BY DEF OthersSame, TreePath

\* How the count of open blocks, as SpanTree sees it, follows the blocks.
LEMMA TreeOwnStep ==
  ASSUME MatchedInv, NEW c \in Ctx, \A d \in Ctx \ {c} : blocks'[d] = blocks[d]
  PROVE  TreeOwn' = [TreeOwn EXCEPT ![c] = Len(blocks'[c])]
  BY DEF TreeOwn

\* A trace that begins is a StartTree of SpanTree.
LEMMA BeginsStartsTree ==
  ASSUME MatchedInv, NEW c \in Ctx, OthersSame(c), Begins(c)
  PROVE  Tree!StartTree(c)
  <1> USE DEF MatchedInv, EventsInv
  <1>1. PICK id \in CallerId \cup {NewTrace}, p \in Parents : Opened(c, RootOf(id, p), <<>>)
    BY DEF Begins
  <1>2. PICK n : n = RootOf(id, p)
    OBVIOUS
  <1>3. spans' = Append(spans, n) /\ sent' = Append(sent, 0) /\ Handed' = Handed
    BY <1>1, <1>2 DEF Opened
  <1>4. spans' # <<>> /\ Last(spans') = n
    BY <1>3, SpanMade
  <1>5. TreePath' = [TreePath EXCEPT ![c] = Append(<<>>, Len(spans) + 1)]
    BY <1>1, TreePathStep DEF Opened, NewSpan
  <1>6. TreeOwn' = [TreeOwn EXCEPT ![c] = 1] /\ TreeOwn[c] = 0
    <2>1. Len(blocks[c]) = 0 /\ Len(blocks'[c]) = Len(blocks[c]) + 1
      BY OpenCount DEF Begins
    <2> QED
      BY <2>1, OpenCount, TreeOwnStep DEF TreeOwn
  <1>7. n.trace \in CallerId \/ \A s \in DOMAIN spans : spans[s].trace # n.trace
    <2>1. DOMAIN spans = 1..Len(spans) /\ n.trace = id
      BY <1>2, LenProperties DEF HeapOK, RootOf
    <2> QED
      BY <2>1, NewTraceFresh
  <1>8. /\ n.parent \in {None, Remote}
        /\ n = [trace |-> n.trace, parent |-> n.parent, root |-> TRUE,
                type |-> IF n.parent = None THEN "root" ELSE "subroot"]
    BY <1>2 DEF RootOf, Parents
  <1> QED
    BY <1>3, <1>4, <1>5, <1>6, <1>7, <1>8
       DEF Tree!StartTree, Tree!FreshOrCallers, Tree!Opens, TreePath, TreeOwn, Path, Handed, Tree!Last, Last

\* A block entered inside another is a Grow of SpanTree.
LEMMA DeepensGrows ==
  ASSUME MatchedInv, NEW c \in Ctx, OthersSame(c), Deepens(c)
  PROVE  Tree!Grow(c)
  <1> USE DEF MatchedInv, EventsInv
  <1>1. Path(c) # <<>> /\ Opened(c, ChildOf(Last(Path(c))), Path(c))
    BY DEF Deepens
  <1>2. TreePath' = [TreePath EXCEPT ![c] = Append(Path(c), Len(spans) + 1)] /\ TreePath[c] = Path(c)
    BY <1>1, TreePathStep DEF Opened, NewSpan, TreePath
  <1>3. TreeOwn' = [TreeOwn EXCEPT ![c] = @ + 1]
    BY OpenCount, TreeOwnStep DEF TreeOwn
  <1>4. /\ spans' = Append(spans, ChildOf(Last(Path(c))))
        /\ sent' = Append(sent, 0) /\ Handed' = Handed
    BY <1>1 DEF Opened
  <1> QED
    BY <1>1, <1>2, <1>3, <1>4
       DEF Tree!Grow, Tree!Opens, ChildOf, TreePath, TreeOwn, Path, Handed, Tree!Last, Last

\* A block that is left is a Leave of SpanTree.
LEMMA ClosesLeaves ==
  ASSUME MatchedInv, NEW c \in Ctx, OthersSame(c), Closes(c)
  PROVE  Tree!Leave(c)
  <1> USE DEF MatchedInv, EventsInv
  <1>1. PICK s : s = Last(Path(c))
    OBVIOUS
  <1>2. TreePath' = [TreePath EXCEPT ![c] = Tree!Front(TreePath[c])] /\ Tree!Last(TreePath[c]) = s
    <2>1. TreePath' = [TreePath EXCEPT ![c] = Front(Path(c))] /\ TreePath[c] = Path(c)
      BY TreePathStep DEF Closes, TreePath
    <2>2. Tree!Front(TreePath[c]) = Front(TreePath[c]) /\ Tree!Last(TreePath[c]) = Last(TreePath[c])
      BY DEF Tree!Front, Front, Tree!Last, Last
    <2> QED
      BY <1>1, <2>1, <2>2, Zenon
  <1>3. TreeOwn' = [TreeOwn EXCEPT ![c] = @ - 1] /\ TreeOwn[c] > 0
    BY OpenCount, TreeOwnStep DEF TreeOwn
  <1>4. sent[s] = 0
    <2>1. PICK st \in Seq(1..Len(spans)) : st = blocks[c]
      BY DEF ClientOK
    <2>2. Len(st) \in 1..Len(st) /\ Last(st) = st[Len(st)] /\ Last(st) \in 1..Len(spans)
      BY <2>1, FrontRemoves, SeqFront DEF Closes
    <2>3. Holds(c, s) /\ s \in 1..Len(spans)
      BY <1>1, <2>1, <2>2 DEF Closes, Holds
    <2> QED
      BY <2>3 DEF EventsOK
  <1>5. sent' \in {sent, [sent EXCEPT ![s] = 1]}
    BY <1>1, <1>4 DEF Closes, Emit
  <1>6. UNCHANGED spans /\ Handed' = Handed
    BY DEF Closes
  <1> QED
    BY <1>2, <1>3, <1>4, <1>5, <1>6 DEF Tree!Leave, TreePath, TreeOwn, Path, Handed

\* Decorating a function is a HandOver of SpanTree.
LEMMA GivesHandsOver ==
  ASSUME MatchedInv, NEW c \in Ctx, OthersSame(c), Gives(c)
  PROVE  Tree!HandOver(c)
  <1>1. TreePath' = TreePath /\ TreePath[c] = Path(c)
    BY DEF OthersSame, Gives, TreePath
  <1>2. TreeOwn' = TreeOwn
    BY DEF Gives, TreeOwn
  <1> QED
    BY <1>1, <1>2 DEF Gives, Tree!HandOver, TreePath, TreeOwn, Path, Handed

\* Running it is a TakeOver of SpanTree.
LEMMA TakesTakesOver ==
  ASSUME MatchedInv, NEW c \in Ctx, OthersSame(c), Takes(c)
  PROVE  Tree!TakeOver(c)
  <1>1. TreePath' = [TreePath EXCEPT ![c] = Path(c)'] /\ TreePath'[c] = Path(c)'
    BY TreePathStep DEF TreePath
  <1>2. TreeOwn' = TreeOwn /\ TreeOwn[c] = 0
    BY DEF Takes, TreeOwn
  <1> QED
    BY <1>1, <1>2 DEF Takes, Tree!TakeOver, TreePath, TreeOwn, Path, Handed

\* The mutable Trace objects that contexts refer to, share no part of and copy
\* for their threads implement the forest in which every context has a path of
\* its own as a value: each call is a step of SpanTree, or none.
THEOREM GrowsTreesCorrect ==
  ASSUME ~Reuse, ~Generators
  PROVE  BlocksSpec => GrowsTrees
  <1>1. BlocksInit => Tree!TreeInit
    BY DEF BlocksInit, Init, Tree!TreeInit
  <1>2. MatchedInv /\ [BlocksNext]_allVars => [Tree!TreeNext]_(Tree!treeVars)
    <2> SUFFICES ASSUME MatchedInv, [BlocksNext]_allVars
                 PROVE  [Tree!TreeNext]_(Tree!treeVars)
      OBVIOUS
    <2>1. CASE Stays
      <3>1. TreePath' = TreePath /\ TreeOwn' = TreeOwn /\ Handed' = Handed /\ UNCHANGED <<spans, sent>>
        BY <2>1 DEF Stays, TreePath, TreeOwn
      <3> QED
        BY <3>1 DEF Tree!treeVars, TreePath, TreeOwn, Path, Handed
    <2>2. ASSUME NEW c \in Ctx, OthersSame(c),
                 Begins(c) \/ Deepens(c) \/ Closes(c) \/ Gives(c) \/ Takes(c)
          PROVE  Tree!TreeNext
      BY <2>2, BeginsStartsTree, DeepensGrows, ClosesLeaves, GivesHandsOver, TakesTakesOver DEF Tree!TreeNext
    <2> QED
      BY <2>1, <2>2, MatchedSteps
  <1> QED
    BY <1>1, <1>2, MatchedCorrect, PTL DEF BlocksSpec, GrowsTrees, Tree!TreeSpec

-----------------------------------------------------------------------------
(* What is left when no block is: blocks that are left in any order, and    *)
(* functions that run more than once                                        *)

\* Another context, or the next run of a decorated function, has the same Trace.
Shared(c) == current[c] \in decorated \/ \E d \in Ctx \ {c} : current[d] = current[c]

\* Where a thread works on no job's trace, the block of a root is still open.
RootsOpen ==
  \A c \in Ctx : current[c] # None /\ base[c] = <<>> =>
    \E s \in 1..Len(spans) : Holds(c, s) /\ spans[s].root

\* No stack that is in use, or will be, is empty,
StacksUsed ==
  /\ \A c \in Ctx : current[c] # None => traces[current[c]].stack # <<>>
  /\ \A t \in decorated : traces[t].stack # <<>>

\* and the span at the bottom of a shared one is of no block of those who share it.
BottomsKept ==
  \A c \in Ctx : current[c] # None /\ Shared(c) => ~Holds(c, traces[current[c]].stack[1])

LeftInv == RootsOpen /\ StacksUsed /\ BottomsKept

\* What a step leaves of the Traces that are in use.
SameBottom(t) == traces'[t].stack # <<>> /\ traces'[t].stack[1] = traces[t].stack[1]

\* A push, and a pop that leaves something, do not reach the bottom of a stack.
LEMMA BottomStays ==
  ASSUME NEW S, NEW st \in Seq(S), st # <<>>
  PROVE  /\ \A e : Append(st, e) # <<>> /\ Append(st, e)[1] = st[1]
         /\ Len(st) # 1 => Front(st) # <<>> /\ Front(st)[1] = st[1]
         /\ st[1] \in S
  <1>1. Len(st) \in Nat \ {0} /\ 1 \in 1..Len(st)
    BY EmptySeq, LenProperties
  <1>2. \A e : Append(st, e) # <<>> /\ Append(st, e)[1] = st[1]
    BY <1>1, LastAppended
  <1>3. ASSUME Len(st) # 1
        PROVE  Front(st) # <<>> /\ Front(st)[1] = st[1]
    <2>1. /\ Front(st) \in Seq(S) /\ Len(Front(st)) = Len(st) - 1
          /\ \A i \in 1..(Len(st) - 1) : Front(st)[i] = st[i]
      BY SeqFront
    <2>2. PICK k \in Nat \ {0} : k = Len(st)
      BY <1>1
    <2>3. 1 \in 1..(k - 1) /\ k - 1 # 0
      BY <1>3, <2>2
    <2> QED
      BY <2>1, <2>2, <2>3, EmptySeq
  <1>4. st[1] \in S
    BY <1>1, ElementOfSeq
  <1> QED
    BY <1>2, <1>3, <1>4

\* A trace that begins in a block is its thread's own, and the block has its root.
LEMMA StartTraceLeft ==
  ASSUME EventsInv, LeftInv, NEW c \in Ctx, NEW id, NEW p, StartTrace(c, id, p), Entered(c),
         base' = base \/ base' = [base EXCEPT ![c] = <<>>]
  PROVE  LeftInv'
  <1> USE DEF EventsInv
  <1>1. PICK n \in Nat : n = Len(traces)
    BY LenProperties DEF HeapOK
  <1>2. PICK m \in Nat : m = Len(spans)
    BY LenProperties DEF HeapOK
  <1>3. /\ traces'[n + 1].stack = <<m + 1>>
        /\ \A t \in 1..n : traces'[t] = traces[t]
    <2>1. PICK i : traces' = Append(traces, [id |-> i, stack |-> <<m + 1>>])
      BY <1>2 DEF StartTrace, NewSpan
    <2>2. PICK new : new = [id |-> i, stack |-> <<m + 1>>]
      OBVIOUS
    <2>3. new.stack = <<m + 1>> /\ traces' = Append(traces, new)
      BY <2>1, <2>2
    <2> QED
      BY <1>1, <2>3, TraceAppended
  <1>4. /\ Len(spans') = m + 1 /\ spans'[m + 1].root
        /\ \A s \in 1..m : spans'[s] = spans[s]
    <2>1. PICK new : spans' = Append(spans, new) /\ new.root
      BY DEF StartTrace, PushSpan
    <2> QED
      BY <1>2, <2>1, LastAppended DEF HeapOK
  <1>5. /\ current' = [current EXCEPT ![c] = n + 1] /\ UNCHANGED decorated
        /\ current'[c] = n + 1
        /\ \A d \in Ctx \ {c} : current'[d] = current[d]
        /\ \A d \in Ctx : current[d] # n + 1
        /\ n + 1 \notin decorated /\ decorated \subseteq 1..n
        /\ \A d \in Ctx : current[d] # None => current[d] \in 1..n
    BY <1>1 DEF StartTrace, NewTrace, RefsOK, None
  <1>6. \A d \in Ctx \ {c} : base'[d] = base[d]
    BY DEF ClientOK
  <1>7. /\ \A s : s = m + 1 => Holds(c, s)'
        /\ \A d \in Ctx, s \in 1..m : Holds(d, s)' <=> Holds(d, s)
    BY <1>2, HoldsEntered
  <1>8. RootsOpen'
    <2>1. ASSUME NEW d \in Ctx, current'[d] # None, base'[d] = <<>>
          PROVE  \E s \in 1..(m + 1) : Holds(d, s)' /\ spans'[s].root
      <3>1. CASE d = c
        BY <1>4, <1>7, <3>1
      <3>2. CASE d # c
        <4>1. PICK s \in 1..m : Holds(d, s) /\ spans[s].root
          BY <1>2, <1>5, <1>6, <2>1, <3>2 DEF RootsOpen, LeftInv
        <4> QED
          BY <1>4, <1>7, <4>1
      <3> QED
        BY <3>1, <3>2
    <2> QED
      BY <1>4, <2>1 DEF RootsOpen
  <1>9. StacksUsed'
    <2>1. \A t \in 1..n : traces[t].stack # <<>> => traces'[t].stack # <<>>
      BY <1>3
    <2>2. traces'[n + 1].stack # <<>>
      BY <1>3
    <2> QED
      BY <1>5, <2>1, <2>2 DEF StacksUsed, LeftInv
  <1>10. BottomsKept'
    <2> SUFFICES ASSUME NEW d \in Ctx, current'[d] # None, Shared(d)'
                 PROVE  ~Holds(d, traces[current[d]].stack[1])'
      BY DEF BottomsKept
    <2>1. d # c /\ Shared(d) /\ current[d] # None
      BY <1>5 DEF Shared
    <2>2. PICK s : s = traces[current[d]].stack[1]
      OBVIOUS
    <2>3. ~Holds(d, s) /\ s \in 1..m
      <3>1. traces[current[d]].stack # <<>> /\ traces[current[d]].stack \in Seq(1..m)
        BY <1>1, <1>2, <1>5, <2>1, TraceType DEF LeftInv, StacksUsed
      <3>2. s \in 1..m
        BY <2>2, <3>1, BottomStays
      <3> QED
        BY <2>1, <2>2, <3>2 DEF LeftInv, BottomsKept
    <2>4. ~Holds(d, s)'
      BY <1>7, <2>3
    <2>5. traces'[current'[d]].stack[1] = s
      BY <1>3, <1>5, <2>1, <2>2
    <2> QED
      BY <2>4, <2>5 DEF Holds
  <1> QED
    BY <1>8, <1>9, <1>10 DEF LeftInv

\* A step that leaves every Trace its bottom, and adds to what a block holds
\* only the new span, keeps what LeftInv says of stacks.
LEMMA BottomsStay ==
  ASSUME EventsInv, LeftInv, Len(traces') >= Len(traces),
         \A t \in 1..Len(traces) : traces[t].stack # <<>> => SameBottom(t),
         \A d \in Ctx : current'[d] # None => current'[d] = current[d],
         decorated' = decorated,
         \A d \in Ctx, s \in 1..Len(spans) : Holds(d, s)' => Holds(d, s)
  PROVE  StacksUsed' /\ BottomsKept'
  <1> USE DEF EventsInv
  <1>1. \A d \in Ctx : current[d] # None => current[d] \in 1..Len(traces) /\ traces[current[d]].stack # <<>>
    BY LenProperties DEF HeapOK, RefsOK, None, LeftInv, StacksUsed
  <1>2. \A t \in decorated : t \in 1..Len(traces) /\ traces[t].stack # <<>>
    BY DEF RefsOK, LeftInv, StacksUsed
  <1>3. StacksUsed'
    BY <1>1, <1>2 DEF StacksUsed, SameBottom
  <1>4. BottomsKept'
    <2> SUFFICES ASSUME NEW d \in Ctx, current'[d] # None, Shared(d)'
                 PROVE  ~Holds(d, traces[current[d]].stack[1])'
      BY DEF BottomsKept
    <2>1. current'[d] = current[d] /\ current[d] # None /\ Shared(d)
      BY DEF Shared
    <2>2. PICK s : s = traces[current[d]].stack[1]
      OBVIOUS
    <2>3. s \in 1..Len(spans) /\ ~Holds(d, s)
      <3>1. s \in 1..Len(spans)
        BY <1>1, <2>1, <2>2, TraceType, BottomStays
      <3> QED
        BY <2>1, <2>2, <3>1 DEF LeftInv, BottomsKept
    <2>4. traces'[current'[d]].stack[1] = s
      BY <1>1, <2>1, <2>2 DEF SameBottom
    <2>5. ~Holds(d, s)'
      BY <2>3
    <2> QED
      BY <2>4, <2>5 DEF Holds
  <1> QED
    BY <1>3, <1>4

\* A block that is entered in a trace goes on top of its stack.
LEMMA StartSpanLeft ==
  ASSUME EventsInv, LeftInv, NEW c \in Ctx, StartSpan(c, None), Entered(c), base' = base
  PROVE  LeftInv'
  <1> USE DEF EventsInv
  <1>1. PICK t \in 1..Len(traces) : t = current[c]
    BY LenProperties DEF HeapOK, RefsOK, StartSpan, None
  <1>2. traces[t].stack \in Seq(1..Len(spans)) /\ traces[t].stack # <<>>
    BY <1>1, TraceType DEF LeftInv, StacksUsed, StartSpan
  <1>3. PICK st : st = Append(traces[t].stack, NewSpan)
    OBVIOUS
  <1>4. /\ Len(traces') = Len(traces) /\ traces'[t].stack = st
        /\ \A u \in 1..Len(traces) : u # t => traces'[u] = traces[u]
    <2>1. traces' = [traces EXCEPT ![t].stack = st]
      BY <1>1, <1>3 DEF StartSpan
    <2> QED
      BY <2>1, StackReplaced
  <1>5. st # <<>> /\ st[1] = traces[t].stack[1]
    BY <1>2, <1>3, BottomStays
  <1>6. \A u \in 1..Len(traces) : traces[u].stack # <<>> => SameBottom(u)
    BY <1>4, <1>5 DEF SameBottom
  <1>7. current' = current /\ decorated' = decorated
    BY DEF StartSpan
  <1>8. \A d \in Ctx, s \in 1..Len(spans) : Holds(d, s)' <=> Holds(d, s)
    BY HoldsEntered
  <1>9. StacksUsed' /\ BottomsKept'
    <2>1. Len(traces') >= Len(traces)
      BY <1>4, LenProperties DEF HeapOK
    <2> QED
      BY <1>6, <1>7, <1>8, <2>1, BottomsStay DEF LeftInv
  <1>10. RootsOpen'
    <2>1. /\ 1..Len(spans) \subseteq 1..Len(spans')
          /\ \A s \in 1..Len(spans) : spans'[s] = spans[s]
      <3>1. PICK new : spans' = Append(spans, new)
        BY DEF StartSpan, PushSpan
      <3>2. Len(spans') = Len(spans) + 1 /\ Len(spans) \in Nat
        BY LenProperties DEF Entered, HeapOK
      <3> QED
        BY <3>1, <3>2, LastAppended DEF HeapOK
    <2> QED
      BY <1>7, <1>8, <2>1 DEF LeftInv, RootsOpen
  <1> QED
    BY <1>9, <1>10 DEF LeftInv

\* A block that is left: a root takes the trace with it, any other span leaves
\* the bottom of the stack where it is.
LEMMA CloseLeft ==
  ASSUME EventsInv, PathsOK, LeftInv, NEW c \in Ctx, NEW i \in 1..Len(blocks[c]), NEW o \in Outcomes,
         Close(c, blocks[c][i], o), Left(c, i), decorated' = decorated, base' = base
  PROVE  LeftInv'
  <1> USE DEF EventsInv
  <1>1. PICK x \in 1..Len(spans) : x = blocks[c][i]
    BY ElementOfSeq DEF ClientOK
  <1>2. Holds(c, x) /\ \A d \in Ctx : \A s : Holds(d, s)' <=> Holds(d, s) /\ s # x
    <2>1. \A d \in Ctx : \A s : Holds(d, s)' <=> Holds(d, s) /\ s # x
      BY <1>1, HoldsLeft
    <2> QED
      BY <1>1, <2>1 DEF Holds
  <1>3. o # "raised"
    BY BlocksAssumption
  <1>4. Pop(c, x) /\ UNCHANGED spans /\ current' = [current EXCEPT ![c] = IF spans[x].root THEN None ELSE @]
    <2>1. CASE spans[x].root
      BY <1>1, <1>3, <2>1 DEF Close, FinishTrace
    <2>2. CASE ~spans[x].root
      <3>1. current' = current
        BY <1>1, <1>3, <2>2 DEF Close, FinishSpan
      <3>2. current = [current EXCEPT ![c] = current[c]]
        BY DEF RefsOK
      <3> QED
        BY <1>1, <1>3, <2>2, <3>1, <3>2 DEF Close, FinishSpan
    <2> QED
      BY <2>1, <2>2
  <1>5. /\ \A d \in Ctx \ {c} : current'[d] = current[d]
        /\ current'[c] = IF spans[x].root THEN None ELSE current[c]
    BY <1>4 DEF RefsOK
  <1>6. RootsOpen'
    <2> SUFFICES ASSUME NEW d \in Ctx, current'[d] # None, base[d] = <<>>
                 PROVE  \E s \in 1..Len(spans) : Holds(d, s)' /\ spans[s].root
      BY <1>4 DEF RootsOpen
    <2>1. current[d] # None /\ (d = c => ~spans[x].root)
      BY <1>5
    <2>2. PICK s \in 1..Len(spans) : Holds(d, s) /\ spans[s].root
      BY <2>1 DEF LeftInv, RootsOpen
    <2>3. s # x
      <3>1. CASE d = c
        BY <2>1, <2>2, <3>1
      <3>2. CASE d # c
        BY <1>1, <2>2, <3>2 DEF OpenOnce, Holds
      <3> QED
        BY <3>1, <3>2
    <2> QED
      BY <1>2, <2>2, <2>3
  <1>7. StacksUsed' /\ BottomsKept'
    <2>1. CASE UNCHANGED traces
      <3>1. \A t \in 1..Len(traces) : traces[t].stack # <<>> => SameBottom(t)
        BY <2>1 DEF SameBottom
      <3>2. Len(traces') >= Len(traces)
        BY <2>1, LenProperties DEF HeapOK
      <3> QED
        BY <1>2, <1>5, <3>1, <3>2, BottomsStay
    <2>2. CASE IsInnermost(c, x) /\ traces' = [traces EXCEPT ![current[c]].stack = Front(@)]
      <3>1. PICK t \in 1..Len(traces) : t = current[c]
        BY <2>2, LenProperties DEF HeapOK, RefsOK, IsInnermost, None
      <3>2. PICK st \in Seq(1..Len(spans)) : st = traces[t].stack
        BY <3>1, TraceType
      <3>3. st # <<>> /\ Last(st) = x /\ Last(st) = st[Len(st)] /\ Len(st) \in Nat \ {0}
        BY <2>2, <3>1, <3>2, SeqFront DEF IsInnermost, Stack
      <3>4. spans[x].root <=> Len(st) = 1
        <4>1. PathOK(st, traces[t].id, spans)
          BY <3>1, <3>2 DEF PathsOK
        <4>2. Len(st) \in 1..Len(st) /\ st[Len(st)] = x
          BY <3>3
        <4> QED
          BY <4>1, <4>2, Zenon DEF PathOK
      <3>5. PICK front : front = Front(st)
        OBVIOUS
      <3>6. /\ Len(traces') = Len(traces) /\ traces'[t].stack = front
            /\ \A u \in 1..Len(traces) : u # t => traces'[u] = traces[u]
        <4>1. traces' = [traces EXCEPT ![t].stack = front]
          BY <2>2, <3>1, <3>2, <3>5
        <4> QED
          BY <4>1, StackReplaced
      <3>7. CASE ~spans[x].root
        <4>1. front # <<>> /\ front[1] = st[1]
          BY <3>3, <3>4, <3>5, <3>7, BottomStays
        <4>2. \A u \in 1..Len(traces) : traces[u].stack # <<>> => SameBottom(u)
          BY <3>2, <3>6, <4>1 DEF SameBottom
        <4>3. Len(traces') >= Len(traces)
          BY <3>6, LenProperties DEF HeapOK
        <4> QED
          BY <1>2, <1>5, <4>2, <4>3, BottomsStay
      <3>8. CASE spans[x].root
        <4>1. ~Shared(c)
          <5>1. st[1] = x
            BY <3>3, <3>4, <3>8
          <5>2. current[c] # None
            BY <2>2 DEF IsInnermost
          <5> QED
            BY <1>2, <3>1, <3>2, <5>1, <5>2 DEF LeftInv, BottomsKept
        <4>2. current'[c] = None
          BY <1>5, <3>8
        <4>3. \A d \in Ctx : current'[d] # None => current'[d] = current[d] /\ current[d] # t
          BY <1>5, <3>1, <4>1, <4>2 DEF Shared
        <4>4. \A u \in decorated : u # t
          BY <3>1, <4>1 DEF Shared
        <4>5. \A d \in Ctx : current[d] # None => current[d] \in 1..Len(traces)
          BY LenProperties DEF HeapOK, RefsOK, None
        <4>6. StacksUsed'
          BY <3>6, <4>3, <4>4, <4>5 DEF StacksUsed, LeftInv, RefsOK
        <4>7. BottomsKept'
          <5> SUFFICES ASSUME NEW d \in Ctx, current'[d] # None, Shared(d)'
                       PROVE  ~Holds(d, traces[current[d]].stack[1])'
            BY DEF BottomsKept
          <5>1. current'[d] = current[d] /\ current[d] # None /\ Shared(d)
            BY <4>3 DEF Shared
          <5>2. ~Holds(d, traces[current[d]].stack[1])
            BY <5>1 DEF LeftInv, BottomsKept
          <5>3. traces'[current'[d]] = traces[current[d]]
            BY <3>6, <4>3, <4>5, <5>1
          <5>4. PICK s : s = traces[current[d]].stack[1]
            OBVIOUS
          <5>5. ~Holds(d, s)' /\ traces'[current'[d]].stack[1] = s
            BY <1>2, <5>2, <5>3, <5>4
          <5> QED
            BY <5>5 DEF Holds
        <4> QED
          BY <4>6, <4>7
      <3> QED
        BY <3>7, <3>8
    <2> QED
      BY <1>4, <2>1, <2>2 DEF Pop
  <1> QED
    BY <1>6, <1>7 DEF LeftInv

\* A copy for a decorated function has the bottom of its original, and is nobody's yet.
LEMMA DecorateLeft ==
  ASSUME EventsInv, LeftInv, NEW c \in Ctx, Decorate(c)
  PROVE  LeftInv'
  <1> USE DEF EventsInv
  <1>1. PICK n \in Nat : n = Len(traces)
    BY LenProperties DEF HeapOK
  <1>2. current[c] # None /\ UNCHANGED <<current, spans, blocks, base>> /\ decorated' = decorated \cup {n + 1}
    BY <1>1 DEF Decorate, TracedThread, clientVars, NewTrace
  <1>3. /\ \A d \in Ctx : current[d] # None => current[d] \in 1..n
        /\ decorated \subseteq 1..n
    BY <1>1 DEF RefsOK, None
  <1>4. /\ traces'[n + 1].stack = traces[current[c]].stack
        /\ \A u \in 1..n : traces'[u] = traces[u]
    <2>1. PICK new : new = CopyOf(current[c])
      OBVIOUS
    <2>2. new.stack = traces[current[c]].stack /\ traces' = Append(traces, new)
      BY <2>1 DEF Decorate, TracedThread, CopyOf
    <2> QED
      BY <1>1, <2>2, TraceAppended
  <1>5. RootsOpen'
    BY <1>2 DEF LeftInv, RootsOpen, Holds
  <1>6. StacksUsed'
    BY <1>2, <1>3, <1>4 DEF LeftInv, StacksUsed
  <1>7. BottomsKept'
    <2> SUFFICES ASSUME NEW d \in Ctx, current'[d] # None, Shared(d)'
                 PROVE  ~Holds(d, traces[current[d]].stack[1])'
      BY DEF BottomsKept
    <2>1. current[d] # None /\ current[d] \in 1..n /\ Shared(d)
      BY <1>2, <1>3 DEF Shared
    <2>2. traces'[current'[d]] = traces[current[d]]
      BY <1>2, <1>4, <2>1
    <2>3. ~Holds(d, traces[current[d]].stack[1])
      BY <2>1 DEF LeftInv, BottomsKept
    <2> QED
      BY <1>2, <2>2, <2>3 DEF Holds
  <1> QED
    BY <1>5, <1>6, <1>7 DEF LeftInv

\* A thread that takes a job has no block open, and takes over a stack that is not empty.
LEMMA RunJobLeft ==
  ASSUME EventsInv, LeftInv, NEW c \in Ctx, RunJob(c)
  PROVE  LeftInv'
  <1> USE DEF EventsInv
  <1>1. PICK t \in decorated : RunDecorated(c, t) /\ base' = [base EXCEPT ![c] = traces[t].stack]
    BY DEF RunJob
  <1>2. /\ blocks[c] = <<>> /\ UNCHANGED <<blocks, traces, spans>> /\ decorated' \subseteq decorated
        /\ current'[c] = t /\ base'[c] = traces[t].stack
        /\ \A d \in Ctx \ {c} : current'[d] = current[d] /\ base'[d] = base[d]
    BY <1>1 DEF RunJob, RunDecorated, RefsOK, ClientOK
  <1>3. \A s : ~Holds(c, s)
    <2>1. Len(blocks[c]) = 0
      BY <1>2
    <2> QED
      BY <2>1 DEF Holds
  <1>4. \A d \in Ctx : \A s : Holds(d, s)' <=> Holds(d, s)
    BY <1>2 DEF Holds
  <1>5. traces[t].stack # <<>>
    BY DEF LeftInv, StacksUsed
  <1>6. RootsOpen'
    BY <1>2, <1>4, <1>5 DEF LeftInv, RootsOpen
  <1>7. StacksUsed'
    BY <1>2, <1>5 DEF LeftInv, StacksUsed
  <1>8. BottomsKept'
    <2> SUFFICES ASSUME NEW d \in Ctx, current'[d] # None, Shared(d)'
                 PROVE  ~Holds(d, traces[current[d]].stack[1])'
      BY DEF BottomsKept
    <2>1. CASE d = c
      <3>1. \A s : ~Holds(c, s)'
        BY <1>3, <1>4
      <3> QED
        BY <2>1, <3>1 DEF Holds
    <2>2. CASE d # c
      <3>1. current[d] # None /\ Shared(d) /\ current'[d] = current[d]
        BY <1>2, <2>2 DEF Shared
      <3>2. ~Holds(d, traces[current[d]].stack[1])
        BY <3>1 DEF LeftInv, BottomsKept
      <3> QED
        BY <1>2, <3>1, <3>2 DEF Holds
    <2> QED
      BY <2>1, <2>2
  <1> QED
    BY <1>6, <1>7, <1>8 DEF LeftInv

\* Every step of the matched client keeps what it has open in sight of its trace.
LEMMA LeftStep ==
  ASSUME EventsInv, PathsOK, LeftInv, [BlocksNext]_allVars
  PROVE  LeftInv'
  <1>1. ASSUME NEW id, NEW parent, NEW root, NEW type, PushSpan(id, parent, root, type)
        PROVE  Len(spans') = Len(spans) + 1 /\ sent' = Append(sent, 0)
    BY <1>1 DEF PushSpan, EventsInv, HeapOK
  <1>2. ASSUME NEW c \in Ctx, Enter(c)
        PROVE  LeftInv'
    <2>1. Entered(c) /\ base' = base
      BY <1>1, <1>2 DEF Enter, NewEvent, StartTrace, StartSpan, Entered
    <2> QED
      BY <1>2, <2>1, StartTraceLeft, StartSpanLeft DEF Enter, NewEvent
  <1>3. ASSUME NEW c \in Ctx, EnterTrace(c)
        PROVE  LeftInv'
    <2>1. PICK id, p : StartTrace(c, id, p)
      BY <1>3 DEF EnterTrace
    <2>2. Entered(c)
      <3>1. Append(<<>>, NewSpan) = <<NewSpan>>
        OBVIOUS
      <3>2. Len(spans') = Len(spans) + 1 /\ sent' = Append(sent, 0)
        BY <1>1, <2>1 DEF StartTrace
      <3>3. blocks[c] = <<>> /\ blocks' = [blocks EXCEPT ![c] = <<NewSpan>>]
        BY <1>3 DEF EnterTrace
      <3> QED
        BY <3>1, <3>2, <3>3 DEF Entered
    <2>3. base' = [base EXCEPT ![c] = <<>>]
      BY <1>3 DEF EnterTrace
    <2> QED
      BY <2>1, <2>2, <2>3, StartTraceLeft
  <1>4. ASSUME NEW c \in Ctx, Exit(c) \/ ExitGenerator(c)
        PROVE  LeftInv'
    <2>1. PICK i \in 1..Len(blocks[c]), o \in Outcomes : Close(c, blocks[c][i], o) /\ Left(c, i)
      BY <1>4, BlockLeft DEF EventsInv
    <2>2. decorated' = decorated /\ base' = base
      BY <1>4 DEF Exit, ExitGenerator
    <2> QED
      BY <2>1, <2>2, CloseLeft
  <1>5. ASSUME UNCHANGED <<vars, blocks, base>>
        PROVE  LeftInv'
    <2>1. RootsOpen'
      BY <1>5 DEF vars, LeftInv, RootsOpen, Holds
    <2>2. StacksUsed'
      BY <1>5 DEF vars, LeftInv, StacksUsed
    <2>3. BottomsKept'
      BY <1>5 DEF vars, LeftInv, BottomsKept, Shared, Holds
    <2> QED
      BY <2>1, <2>2, <2>3 DEF LeftInv
  <1> QED
    BY <1>2, <1>3, <1>4, <1>5, DecorateLeft, RunJobLeft DEF BlocksNext, EndJob, allVars, clientVars

\* A thread that has left its blocks, in whatever order, and works on no job's
\* trace has none, also when decorated functions run more than once.
THEOREM NoTraceLeftCorrect == BlocksSpec => []NoTraceLeft
  <1> DEFINE Inv == EventsInv /\ PathsOK /\ LeftInv
  <1>1. BlocksInit => Inv
    BY EventsInvInit, LenProperties
       DEF BlocksInit, Init, PathsOK, LeftInv, RootsOpen, StacksUsed, BottomsKept
  <1>2. Inv /\ [BlocksNext]_allVars => Inv'
    BY EventsInvStep, PathStep, LeftStep DEF EventsInv
  <1>3. Inv => NoTraceLeft
    <2> SUFFICES ASSUME Inv, NEW c \in Ctx, blocks[c] = <<>>, base[c] = <<>>, current[c] # None
                 PROVE  FALSE
      BY DEF NoTraceLeft
    <2>1. \A s : ~Holds(c, s)
      <3>1. Len(blocks[c]) = 0
        OBVIOUS
      <3> QED
        BY <3>1 DEF Holds
    <2> QED
      BY <2>1 DEF LeftInv, RootsOpen
  <1> QED
    BY <1>1, <1>2, <1>3, PTL DEF BlocksSpec

=============================================================================
