-------------------------- MODULE MiddlewareProofs --------------------------
(***************************************************************************)
(* What the middleware keeps for every number of threads, requests and     *)
(* spans: it is a client of the tracer, so that the theorems about the     *)
(* tracer hold under each framework, and requests do not mix.              *)
(***************************************************************************)
EXTENDS Middleware, TracerProofs

-----------------------------------------------------------------------------
(* The shape of the state *)

JobSet(n) ==
  [phase : Phases, root : 0..n, header : Headers, runs : 0..2,
   open : Seq(1..n), querying : BOOLEAN, tidy : BOOLEAN]

ShapeOK ==
  /\ framework \in Frameworks
  /\ job \in [Ctx -> JobSet(Len(spans))]
  /\ dbspan \in [Ctx -> 0..Len(spans)]
  /\ made \in Seq(0..Len(spans)) /\ Len(made) = Len(spans)
  /\ flushed \in Seq(0..2) /\ Len(flushed) <= Len(spans)

\* A request that runs has a root; a query belongs to a request that runs, and that
\* of Django has a block; and no middleware calls send_all.
Fit(j) ==
  /\ j.phase \in {"app", "streaming", "late"} => j.root # None
  /\ j.querying => j.phase \in {"app", "streaming", "late"}
  /\ framework = "django" /\ j.querying => j.open # <<>>

JobsOK ==
  /\ \A c \in Ctx : Fit(job[c])
  /\ sending = [c \in Ctx |-> None]

MiddlewareInv == HeapOK /\ RefsOK /\ ShapeOK /\ JobsOK

\* A step opens a span, or it leaves the spans as they are.
SpanOpened ==
  /\ Len(spans) \in Nat /\ Len(spans') = Len(spans) + 1 /\ Len(sent') = Len(sent) + 1
SpansKept ==
  /\ UNCHANGED spans /\ Len(sent') = Len(sent) /\ sent' \in Seq(0..2)

\* start_trace makes one span.
LEMMA StartTraceOpens ==
  ASSUME HeapOK, NEW c \in Ctx, NEW id, NEW p, StartTrace(c, id, p)
  PROVE  SpanOpened
  BY LenProperties DEF HeapOK, StartTrace, PushSpan, SpanOpened

\* start_span makes one span.
LEMMA StartSpanOpens ==
  ASSUME HeapOK, NEW c \in Ctx, NEW p, StartSpan(c, p)
  PROVE  SpanOpened
  BY LenProperties DEF HeapOK, StartSpan, PushSpan, SpanOpened

\* new_event makes one span, of a new trace or of the active one.
LEMMA NewEventOpens ==
  ASSUME HeapOK, NEW c \in Ctx, NewEvent(c)
  PROVE  SpanOpened
  BY StartTraceOpens, StartSpanOpens DEF NewEvent

\* To finish a span or a trace makes none.
LEMMA FinishLeavesSpans ==
  ASSUME HeapOK, RefsOK, NEW c \in Ctx, NEW s \in 1..Len(spans), NEW o \in Outcomes,
         FinishSpan(c, s, o) \/ FinishTrace(c, s, o)
  PROVE  SpansKept
  <1>1. HeapOK' /\ UNCHANGED spans
    BY CloseType
  <1>2. sent' \in Seq(0..2) /\ Len(sent') = Len(spans') /\ Len(sent) = Len(spans)
    BY <1>1 DEF HeapOK
  <1>3. spans' = spans
    BY <1>1
  <1>4. Len(sent') = Len(sent)
    BY <1>2, <1>3
  <1> QED
    BY <1>2, <1>3, <1>4 DEF SpansKept

-----------------------------------------------------------------------------
(* The middleware is a client *)

\* The calls that the middleware makes are calls that the tracer allows.
LEMMA ClosesAreCalls ==
  ASSUME NEW c \in Ctx, NEW s \in 1..Len(spans), NEW o \in Outcomes, UNCHANGED <<sending, decorated>>,
         Close(c, s, o) \/ FinishSpan(c, s, o) \/ FinishTrace(c, s, o)
  PROVE  Call(c)
  BY DEF Close, Call, Finish

\* The start of a request is a call of start_trace.
LEMMA ArriveIsCall ==
  ASSUME NEW c \in Ctx, NEW h \in Headers, NEW n, Arrive(c, h, n)
  PROVE  Call(c) /\ UNCHANGED sending
  <1>1. h[1] \in CallerId \cup {None} /\ h[2] \in Parents
    BY DEF Headers, Parents
  <1> QED
    BY <1>1 DEF Arrive, Call, StartTrace

\* The spans that the actions finish are spans that were made.
LEMMA OpenIsSpan ==
  ASSUME MiddlewareInv, NEW c \in Ctx, job[c].open # <<>>
  PROVE  Last(job[c].open) \in 1..Len(spans) /\ Front(job[c].open) \in Seq(1..Len(spans))
  <1>1. job[c].open \in Seq(1..Len(spans))
    BY DEF MiddlewareInv, ShapeOK, JobSet
  <1> QED
    BY <1>1, SeqFront

\* A request that runs has a root that was made.
LEMMA RootIsSpan ==
  ASSUME MiddlewareInv, NEW c \in Ctx, job[c].phase \in {"app", "streaming", "late"}
  PROVE  job[c].root \in 1..Len(spans)
  <1>1. job[c].root \in 0..Len(spans) /\ job[c].root # None /\ Len(spans) \in Nat
    BY LenProperties DEF MiddlewareInv, ShapeOK, JobsOK, Fit, JobSet, HeapOK
  <1> QED
    BY <1>1 DEF None

\* What a step of a thread does to the tracer: one call, or nothing.
LEMMA StepIsCall ==
  ASSUME MiddlewareInv, NEW c \in Ctx, Step(c)
  PROVE  UNCHANGED sending /\ (Call(c) \/ UNCHANGED vars)
  <1> USE DEF Quiet
  <1>1. CASE Request(c)
    BY <1>1, ArriveIsCall DEF Request
  <1>2. CASE BlockEnter(c) \/ DjangoQueryStart(c)
    BY <1>2 DEF BlockEnter, DjangoQueryStart, Call, NewEvent, StartTrace, StartSpan
  <1>3. CASE FlaskQueryStart(c)
    BY <1>3 DEF FlaskQueryStart, Call, StartSpan, Parents, vars
  <1>4. CASE DjangoStream(c) \/ DjangoStreamLost(c) \/ WsgiRaise(c) \/ BodyEnd(c) \/ LambdaFlush(c)
    BY <1>4 DEF DjangoStream, DjangoStreamLost, WsgiRaise, BodyEnd, LambdaFlush, vars
  <1>5. CASE DjangoAgain(c)
    <2>1. job[c].header \in Headers
      BY DEF MiddlewareInv, ShapeOK, JobSet
    <2> QED
      BY <1>5, <2>1, ArriveIsCall DEF DjangoAgain
  <1>6. CASE LambdaBadEvent(c)
    BY <1>6 DEF LambdaBadEvent, DropTrace, Call, vars
  <1>7. ASSUME NEW o \in Outcomes, Finishing(c, o)
        PROVE  UNCHANGED sending /\ (Call(c) \/ UNCHANGED vars)
    <2>1. CASE BlockExit(c, o)
      BY <2>1, OpenIsSpan, ClosesAreCalls DEF BlockExit
    <2>2. CASE DjangoQueryEnd(c, o)
      <3>1. job[c].open # <<>>
        BY <2>2 DEF DjangoQueryEnd, MiddlewareInv, JobsOK, Fit
      <3> QED
        BY <2>2, <3>1, OpenIsSpan, ClosesAreCalls DEF DjangoQueryEnd
    <2>3. CASE FlaskQueryEnd(c, o)
      <3>1. dbspan[c] \in 0..Len(spans) /\ Len(spans) \in Nat
        BY LenProperties DEF MiddlewareInv, ShapeOK, HeapOK
      <3>2. CASE dbspan[c] = None
        BY <2>3, <3>2 DEF FlaskQueryEnd, vars
      <3>3. CASE dbspan[c] # None
        <4>1. dbspan[c] \in 1..Len(spans)
          BY <3>1, <3>3 DEF None
        <4> QED
          BY <2>3, <3>3, <4>1, ClosesAreCalls DEF FlaskQueryEnd
      <3> QED
        BY <3>2, <3>3
    <2>4. CASE DjangoAnswer(c, o) \/ DjangoStreamEnd(c, o) \/ LambdaReturn(c, o)
      <3>1. FinishTrace(c, job[c].root, o) /\ UNCHANGED <<sending, decorated>>
        BY <2>4 DEF DjangoAnswer, DjangoStreamEnd, LambdaReturn, FinishRoot
      <3>2. job[c].root \in 1..Len(spans)
        BY <2>4, RootIsSpan DEF DjangoAnswer, DjangoStreamEnd, LambdaReturn, Ready
      <3> QED
        BY <3>1, <3>2, ClosesAreCalls
    <2>5. CASE FlaskTeardown(c, o)
      <3>1. CASE ActiveSpan(c) = None
        BY <2>5, <3>1 DEF FlaskTeardown, vars
      <3>2. CASE ActiveSpan(c) # None
        BY <2>5, <3>2 DEF FlaskTeardown, SendEvent, Call
      <3> QED
        BY <3>1, <3>2
    <2>6. CASE WsgiAnswer(c, o)
      <3>1. job[c].root \in 1..Len(spans)
        BY <2>6, RootIsSpan DEF WsgiAnswer, Ready
      <3> QED
        BY <2>6, <3>1, ClosesAreCalls DEF WsgiAnswer
    <2> QED
      BY <1>7, <2>1, <2>2, <2>3, <2>4, <2>5, <2>6 DEF Finishing
  <1> QED
    BY <1>1, <1>2, <1>3, <1>4, <1>5, <1>6, <1>7 DEF Step

\* A step of a middleware is a step of the tracer, or none.
LEMMA StepIsTracerStep ==
  ASSUME MiddlewareInv, [MiddlewareNext]_mvars
  PROVE  [Next]_vars /\ UNCHANGED sending
  <1>1. CASE UNCHANGED mvars
    BY <1>1 DEF mvars, vars
  <1>2. ASSUME NEW c \in Ctx, Step(c)
        PROVE  [Next]_vars /\ UNCHANGED sending
    BY <1>2, StepIsCall DEF Next, Acts, MiddlewareInv, JobsOK
  <1> QED
    BY <1>1, <1>2 DEF MiddlewareNext

-----------------------------------------------------------------------------
(* The shape is kept *)

\* No request runs before the first.
LEMMA ShapeInit == MiddlewareInit => MiddlewareInv
  <1> SUFFICES ASSUME MiddlewareInit PROVE MiddlewareInv
    OBVIOUS
  <1>1. HeapOK /\ RefsOK
    BY TypeInit DEF MiddlewareInit
  <1>2. spans = <<>> /\ sent = <<>> /\ sending = [c \in Ctx |-> None] /\ Len(spans) = 0
    BY DEF MiddlewareInit, Init
  <1>3. Job("idle", None, <<None, None>>, 0) \in JobSet(0)
    BY DEF Job, JobSet, Phases, Headers, None
  <1>4. ShapeOK
    BY <1>2, <1>3 DEF MiddlewareInit, ShapeOK, None
  <1>5. JobsOK
    BY <1>2 DEF MiddlewareInit, JobsOK, Fit, Job
  <1> QED
    BY <1>1, <1>4, <1>5 DEF MiddlewareInv

\* What fits the spans there are fits one more.
LEMMA JobSetGrows == MiddlewareInv => JobSet(Len(spans)) \subseteq JobSet(Len(spans) + 1)
  BY LenProperties DEF JobSet, MiddlewareInv, HeapOK

\* The record of one thread changes.
LEMMA JobMoves ==
  ASSUME MiddlewareInv, NEW c \in Ctx, NEW S, JobSet(Len(spans)) \subseteq S, NEW j \in S,
         job' = [job EXCEPT ![c] = j]
  PROVE  job' \in [Ctx -> S]
  BY DEF MiddlewareInv, ShapeOK

\* The record of one thread changes to one that fits.
LEMMA JobsMove ==
  ASSUME MiddlewareInv, NEW c \in Ctx, NEW j, Fit(j), UNCHANGED <<framework, sending>>,
         job' = [job EXCEPT ![c] = j]
  PROVE  JobsOK'
  BY DEF MiddlewareInv, ShapeOK, JobsOK, Fit

\* A step that leaves the spans.
LEMMA ShapeKept ==
  ASSUME MiddlewareInv, SpansKept, UNCHANGED <<framework, made>>, NEW c \in Ctx,
         NEW j \in JobSet(Len(spans)), Fit(j), UNCHANGED sending, job' = [job EXCEPT ![c] = j],
         NEW s \in 0..Len(spans), dbspan' = dbspan \/ dbspan' = [dbspan EXCEPT ![c] = s],
         flushed' \in {flushed, sent}
  PROVE  ShapeOK' /\ JobsOK'
  <1>1. Len(spans) \in Nat /\ sent \in Seq(0..2) /\ Len(sent) = Len(spans)
    BY LenProperties DEF MiddlewareInv, HeapOK
  <1>2. job' \in [Ctx -> JobSet(Len(spans))]
    BY JobMoves
  <1>3. dbspan' \in [Ctx -> 0..Len(spans)]
    BY DEF MiddlewareInv, ShapeOK
  <1>4. flushed' \in Seq(0..2) /\ Len(flushed') <= Len(spans)
    BY <1>1 DEF MiddlewareInv, ShapeOK
  <1>5. spans' = spans
    BY DEF SpansKept
  <1>6. made' \in Seq(0..Len(spans)) /\ Len(made') = Len(spans)
    BY DEF MiddlewareInv, ShapeOK
  <1>7. framework' \in Frameworks
    BY DEF MiddlewareInv, ShapeOK
  <1>8. ShapeOK'
    BY <1>2, <1>3, <1>4, <1>5, <1>6, <1>7 DEF ShapeOK
  <1> QED
    BY <1>8, JobsMove

\* A step that opens a span.
LEMMA ShapeOpened ==
  ASSUME MiddlewareInv, SpanOpened, UNCHANGED <<framework, flushed>>, NEW c \in Ctx,
         NEW j \in JobSet(Len(spans) + 1), Fit(j), UNCHANGED sending, job' = [job EXCEPT ![c] = j],
         NEW s \in 0..(Len(spans) + 1), dbspan' = dbspan \/ dbspan' = [dbspan EXCEPT ![c] = s],
         NEW m \in 0..(Len(spans) + 1), made' = Append(made, m)
  PROVE  ShapeOK' /\ JobsOK'
  <1>1. Len(spans) \in Nat /\ Len(spans') = Len(spans) + 1
    BY DEF SpanOpened
  <1>2. job' \in [Ctx -> JobSet(Len(spans) + 1)]
    BY JobSetGrows, JobMoves
  <1>3. made \in Seq(0..Len(spans')) /\ Len(made) = Len(spans)
    BY <1>1 DEF MiddlewareInv, ShapeOK
  <1>4. made' \in Seq(0..Len(spans')) /\ Len(made') = Len(spans')
    BY <1>1, <1>3, SeqAppend
  <1>5. dbspan' \in [Ctx -> 0..Len(spans')]
    BY <1>1 DEF MiddlewareInv, ShapeOK
  <1>6. flushed' \in Seq(0..2) /\ Len(flushed') <= Len(spans')
    BY <1>1, LenProperties DEF MiddlewareInv, ShapeOK
  <1>8. ShapeOK'
    BY <1>1, <1>2, <1>4, <1>5, <1>6 DEF MiddlewareInv, ShapeOK
  <1> QED
    BY <1>8, JobsMove

\* The record of a thread after a request, a block or a phase.
LEMMA NewJob ==
  ASSUME NEW n \in Nat, NEW phase \in Phases, NEW root \in 0..n, NEW h \in Headers, NEW runs \in 0..2
  PROVE  Job(phase, root, h, runs) \in JobSet(n)
  BY DEF Job, JobSet

\* The record of a thread that opened or closed blocks.
LEMMA ChangedJob ==
  ASSUME NEW n \in Nat, NEW j \in JobSet(n), NEW phase \in Phases, NEW op \in Seq(1..n),
         NEW t \in BOOLEAN
  PROVE  [j EXCEPT !.phase = phase, !.open = op, !.tidy = t] \in JobSet(n)
  BY DEF JobSet

\* A thread that leaves its phase keeps its root, and what it had open fits as before.
LEMMA LeaveMoves ==
  ASSUME MiddlewareInv, NEW c \in Ctx, NEW phase \in Phases, NEW ok \in BOOLEAN, Leave(c, phase, ok)
  PROVE  \E j \in JobSet(Len(spans)) :
           /\ job' = [job EXCEPT ![c] = j]
           /\ j.phase = phase /\ j.root = job[c].root /\ j.querying = job[c].querying
           /\ j.open = IF phase = "idle" THEN <<>> ELSE job[c].open
  <1> DEFINE j == [job[c] EXCEPT !.phase = phase, !.open = IF phase = "idle" THEN <<>> ELSE @, !.tidy = @ /\ ok]
  <1>1. job[c] \in JobSet(Len(spans)) /\ job \in [Ctx -> JobSet(Len(spans))]
    BY DEF MiddlewareInv, ShapeOK
  <1>2. j \in JobSet(Len(spans))
    <2>1. (job[c].tidy /\ ok) \in BOOLEAN
      OBVIOUS
    <2>2. job[c].open \in Seq(1..Len(spans)) /\ <<>> \in Seq(1..Len(spans))
      BY <1>1 DEF JobSet
    <2>3. (IF phase = "idle" THEN <<>> ELSE job[c].open) \in Seq(1..Len(spans))
      BY <2>2
    <2>4. Len(spans) \in Nat
      BY LenProperties DEF MiddlewareInv, HeapOK
    <2> QED
      BY <1>1, <2>1, <2>3, <2>4, ChangedJob
  <1>3. job' = [job EXCEPT ![c] = j]
    BY <1>1 DEF Leave, JobSet
  <1>4. j.phase = phase /\ j.root = job[c].root /\ j.querying = job[c].querying
        /\ j.open = IF phase = "idle" THEN <<>> ELSE job[c].open
    BY <1>1 DEF JobSet
  <1> QED
    BY <1>2, <1>3, <1>4

\* A thread that leaves a phase outside a query.
LEMMA Leaving ==
  ASSUME MiddlewareInv, NEW c \in Ctx, NEW phase \in Phases, NEW ok \in BOOLEAN, Leave(c, phase, ok),
         phase \in {"app", "streaming", "late"} => job[c].phase \in {"app", "streaming", "late"},
         ~job[c].querying, SpansKept, UNCHANGED <<framework, sending, made, dbspan>>,
         flushed' \in {flushed, sent}
  PROVE  ShapeOK' /\ JobsOK'
  <1>1. Fit(job[c]) /\ dbspan[c] \in 0..Len(spans)
    BY DEF MiddlewareInv, ShapeOK, JobsOK
  <1>2. PICK j \in JobSet(Len(spans)) :
           /\ job' = [job EXCEPT ![c] = j]
           /\ j.phase = phase /\ j.root = job[c].root /\ j.querying = job[c].querying
           /\ j.open = IF phase = "idle" THEN <<>> ELSE job[c].open
    BY LeaveMoves
  <1>3. Fit(j)
    BY <1>1, <1>2 DEF Fit
  <1> QED
    BY <1>1, <1>2, <1>3, ShapeKept

\* A span that is finished is a span that stays.
LEMMA ClosesKeep ==
  ASSUME MiddlewareInv, NEW c \in Ctx, NEW s \in 1..Len(spans), NEW o \in Outcomes,
         Close(c, s, o) \/ FinishSpan(c, s, o) \/ FinishTrace(c, s, o)
  PROVE  SpansKept
  BY FinishLeavesSpans DEF Close, MiddlewareInv

\* The actions that move a thread to its next phase.
LEMMA PhaseStep ==
  ASSUME MiddlewareInv, NEW c \in Ctx,
         DjangoStream(c) \/ DjangoStreamLost(c) \/ WsgiRaise(c) \/ BodyEnd(c) \/ LambdaFlush(c)
  PROVE  ShapeOK' /\ JobsOK'
  <1>1. UNCHANGED vars => SpansKept /\ UNCHANGED sending
    BY DEF vars, SpansKept, MiddlewareInv, HeapOK
  <1>2. Done(c) \in BOOLEAN /\ Fit(job[c]) /\ job[c].querying \in BOOLEAN
    BY DEF Done, MiddlewareInv, JobsOK, ShapeOK, JobSet
  <1>3. CASE DjangoStream(c)
    <2>1. Leave(c, "streaming", TRUE) /\ ~job[c].querying /\ job[c].phase = "app"
          /\ UNCHANGED vars /\ UNCHANGED <<framework, dbspan, made, flushed>>
      BY <1>3 DEF DjangoStream, Ready, Running
    <2> QED
      BY <1>1, <2>1, Leaving DEF Phases
  <1>4. CASE DjangoStreamLost(c) \/ WsgiRaise(c)
    <2>1. Leave(c, "idle", FALSE) /\ ~job[c].querying
          /\ UNCHANGED vars /\ UNCHANGED <<framework, dbspan, made, flushed>>
      BY <1>4 DEF DjangoStreamLost, WsgiRaise, Ready, Running
    <2> QED
      BY <1>1, <2>1, Leaving DEF Phases
  <1>5. CASE BodyEnd(c)
    <2>1. Leave(c, "idle", Done(c)) /\ ~job[c].querying
          /\ UNCHANGED vars /\ UNCHANGED <<framework, dbspan, made, flushed>>
      BY <1>5 DEF BodyEnd, Running
    <2> QED
      BY <1>1, <1>2, <2>1, Leaving DEF Phases
  <1>6. CASE LambdaFlush(c)
    <2>1. Leave(c, "idle", TRUE) /\ ~job[c].querying
          /\ UNCHANGED vars /\ UNCHANGED <<framework, dbspan, made>> /\ flushed' = sent
      BY <1>2, <1>6 DEF LambdaFlush, Fit
    <2> QED
      BY <1>1, <2>1, Leaving DEF Phases
  <1> QED
    BY <1>3, <1>4, <1>5, <1>6

\* The record of a thread after a finish with outcome o.
LEMMA EndedJob ==
  ASSUME NEW n \in Nat, NEW j \in JobSet(n), NEW op \in Seq(1..n), NEW o
  PROVE  /\ [j EXCEPT !.open = op, !.tidy = @ /\ o = "sent"] \in JobSet(n)
         /\ [j EXCEPT !.open = op, !.querying = FALSE, !.tidy = @ /\ o = "sent"] \in JobSet(n)
         /\ [j EXCEPT !.querying = FALSE, !.tidy = @ /\ o = "sent"] \in JobSet(n)
  <1> DEFINE t == j.tidy /\ o = "sent"
  <1>1. t \in BOOLEAN /\ FALSE \in BOOLEAN
    OBVIOUS
  <1> HIDE DEF t
  <1>2. /\ [j EXCEPT !.open = op, !.tidy = t] \in JobSet(n)
        /\ [j EXCEPT !.open = op, !.querying = FALSE, !.tidy = t] \in JobSet(n)
        /\ [j EXCEPT !.querying = FALSE, !.tidy = t] \in JobSet(n)
    BY <1>1 DEF JobSet
  <1> QED
    BY <1>2 DEF t

\* The actions that finish a span, or an event without one.
LEMMA FinishingStep ==
  ASSUME MiddlewareInv, NEW c \in Ctx, NEW o \in Outcomes, Finishing(c, o)
  PROVE  ShapeOK' /\ JobsOK'
  <1> DEFINE n == Len(spans)
  <1>1. n \in Nat /\ job \in [Ctx -> JobSet(n)] /\ job[c] \in JobSet(n) /\ dbspan[c] \in 0..n /\ Fit(job[c])
    BY LenProperties DEF MiddlewareInv, HeapOK, ShapeOK, JobsOK
  <1>2. Done(c) \in BOOLEAN /\ (job[c].tidy /\ o = "sent") \in BOOLEAN /\ (Done(c) /\ o = "sent") \in BOOLEAN
        /\ (job[c].phase = "app" /\ o = "sent") \in BOOLEAN /\ TRUE \in BOOLEAN /\ FALSE \in BOOLEAN
    BY DEF Done
  <1>3. UNCHANGED <<current, traces, spans, sent>> => SpansKept
    BY DEF SpansKept, MiddlewareInv, HeapOK
  <1>4. CASE BlockExit(c, o)
    <2> DEFINE j == [job[c] EXCEPT !.open = Front(@), !.tidy = @ /\ o = "sent"]
    <2>1. ~job[c].querying /\ job[c].open # <<>> /\ Close(c, Last(job[c].open), o) /\ Quiet
          /\ UNCHANGED <<dbspan, made, flushed>>
      BY <1>4 DEF BlockExit, Running
    <2>2. Last(job[c].open) \in 1..n /\ Front(job[c].open) \in Seq(1..n)
      BY <2>1, OpenIsSpan
    <2>3. SpansKept
      BY <2>1, <2>2, ClosesKeep
    <2>4. j \in JobSet(n)
      BY <1>1, <2>2, EndedJob
    <2>5. job' = [job EXCEPT ![c] = j]
      BY <1>1, <1>4 DEF BlockExit, JobSet
    <2>6. Fit(j)
      BY <1>1, <2>1 DEF Fit, JobSet
    <2> QED
      BY <1>1, <2>1, <2>3, <2>4, <2>5, <2>6, ShapeKept DEF Quiet
  <1>5. CASE DjangoQueryEnd(c, o)
    <2> DEFINE j == [job[c] EXCEPT !.open = Front(@), !.querying = FALSE, !.tidy = @ /\ o = "sent"]
    <2>1. job[c].open # <<>> /\ Close(c, Last(job[c].open), o) /\ Quiet
          /\ UNCHANGED <<dbspan, made, flushed>>
      BY <1>1, <1>5 DEF DjangoQueryEnd, Fit
    <2>2. Last(job[c].open) \in 1..n /\ Front(job[c].open) \in Seq(1..n)
      BY <2>1, OpenIsSpan
    <2>3. SpansKept
      BY <2>1, <2>2, ClosesKeep
    <2>4. j \in JobSet(n)
      BY <1>1, <2>2, EndedJob
    <2>5. job' = [job EXCEPT ![c] = j]
      BY <1>1, <1>5 DEF DjangoQueryEnd, JobSet
    <2>6. Fit(j)
      BY <1>1, <2>1 DEF Fit, JobSet
    <2> QED
      BY <1>1, <2>1, <2>3, <2>4, <2>5, <2>6, ShapeKept DEF Quiet
  <1>6. CASE FlaskQueryEnd(c, o)
    <2> DEFINE j == [job[c] EXCEPT !.querying = FALSE, !.tidy = @ /\ o = "sent"]
    <2>1. Quiet /\ UNCHANGED <<made, flushed>>
      BY <1>6 DEF FlaskQueryEnd
    <2>2. SpansKept
      <3>1. CASE dbspan[c] = None
        BY <1>3, <1>6, <3>1 DEF FlaskQueryEnd
      <3>2. CASE dbspan[c] # None
        <4>1. dbspan[c] \in 1..n
          BY <1>1, <3>2 DEF None
        <4> QED
          BY <1>6, <3>2, <4>1, ClosesKeep DEF FlaskQueryEnd
      <3> QED
        BY <3>1, <3>2
    <2>3. PICK s \in 0..n : dbspan' = [dbspan EXCEPT ![c] = s]
      <3>1. dbspan' = [dbspan EXCEPT ![c] = IF o = "raised" THEN @ ELSE None]
        BY <1>6 DEF FlaskQueryEnd
      <3>2. (IF o = "raised" THEN dbspan[c] ELSE None) \in 0..n
        BY <1>1 DEF None
      <3> QED
        BY <3>1, <3>2
    <2>4. j \in JobSet(n)
      <3>1. job[c].open \in Seq(1..n)
        BY <1>1 DEF JobSet
      <3> QED
        BY <1>1, <3>1, EndedJob
    <2>5. job' = [job EXCEPT ![c] = j]
      BY <1>1, <1>6 DEF FlaskQueryEnd, JobSet
    <2>6. Fit(j)
      BY <1>1 DEF Fit, JobSet
    <2> QED
      BY <2>1, <2>2, <2>3, <2>4, <2>5, <2>6, ShapeKept DEF Quiet
  <1>7. ASSUME NEW next \in Phases, NEW ok \in BOOLEAN, FinishRoot(c, o, next, ok), ~job[c].querying,
               job[c].phase \in {"app", "streaming", "late"}
        PROVE  ShapeOK' /\ JobsOK'
    <2> DEFINE phase == IF o = "raised" THEN "idle" ELSE next
    <2>1. FinishTrace(c, job[c].root, o) /\ Leave(c, phase, ok /\ o = "sent") /\ Quiet
          /\ UNCHANGED <<dbspan, made, flushed>>
      BY <1>7 DEF FinishRoot
    <2>2. phase \in Phases /\ (ok /\ o = "sent") \in BOOLEAN
      BY DEF Phases
    <2>3. SpansKept
      BY <1>7, <2>1, RootIsSpan, ClosesKeep
    <2> HIDE DEF phase
    <2> QED
      BY <1>7, <2>1, <2>2, <2>3, Leaving DEF Quiet
  <1>8. CASE DjangoAnswer(c, o) \/ DjangoStreamEnd(c, o)
    BY <1>2, <1>7, <1>8 DEF DjangoAnswer, DjangoStreamEnd, Ready, Running, Phases
  <1>9. CASE LambdaReturn(c, o)
    BY <1>2, <1>7, <1>9 DEF LambdaReturn, Ready, Running, Phases
  <1>10. CASE FlaskTeardown(c, o)
    <2>1. Leave(c, "late", Done(c) /\ o = "sent") /\ Quiet /\ UNCHANGED <<dbspan, made, flushed>>
          /\ ~job[c].querying /\ job[c].phase = "app"
      BY <1>10 DEF FlaskTeardown, Ready, Running
    <2>2. SpansKept
      <3>1. CASE ActiveSpan(c) = None
        BY <1>3, <1>10, <3>1 DEF FlaskTeardown
      <3>2. CASE ActiveSpan(c) # None
        <4>1. ActiveSpan(c) \in 1..n
          BY <1>1, <3>2, ActiveSpanType DEF MiddlewareInv, None
        <4> QED
          BY <1>10, <3>2, <4>1, ClosesKeep DEF FlaskTeardown
      <3> QED
        BY <3>1, <3>2
    <2> QED
      BY <1>2, <2>1, <2>2, Leaving DEF Quiet, Phases
  <1>11. CASE WsgiAnswer(c, o)
    <2> DEFINE phase == IF o = "raised" THEN job[c].phase ELSE "late"
    <2>1. Leave(c, phase, job[c].phase = "app" /\ o = "sent") /\ Quiet /\ UNCHANGED <<dbspan, made, flushed>>
          /\ ~job[c].querying /\ job[c].phase \in {"app", "late"} /\ FinishTrace(c, job[c].root, o)
      BY <1>11 DEF WsgiAnswer, Ready, Running
    <2>2. SpansKept
      BY <2>1, RootIsSpan, ClosesKeep
    <2>3. phase \in Phases
      BY <2>1 DEF Phases
    <2> HIDE DEF phase
    <2> QED
      BY <1>2, <2>1, <2>2, <2>3, Leaving DEF Quiet
  <1> QED
    BY <1>4, <1>5, <1>6, <1>8, <1>9, <1>10, <1>11 DEF Finishing

\* An event that cannot be read leaves the spans.
LEMMA BadEventStep ==
  ASSUME MiddlewareInv, NEW c \in Ctx, LambdaBadEvent(c)
  PROVE  ShapeOK' /\ JobsOK'
  <1> DEFINE j == Job("flushing", None, <<None, None>>, 1)
  <1>1. Len(spans) \in Nat /\ dbspan[c] \in 0..Len(spans)
    BY LenProperties DEF MiddlewareInv, HeapOK, ShapeOK
  <1>2. j \in JobSet(Len(spans))
    BY <1>1, NewJob DEF Headers, Phases, None
  <1>3. Fit(j)
    BY DEF Fit, Job
  <1>4. SpansKept /\ UNCHANGED sending
    BY DEF LambdaBadEvent, DropTrace, vars, SpansKept, MiddlewareInv, HeapOK
  <1> QED
    BY <1>1, <1>2, <1>3, <1>4, ShapeKept DEF LambdaBadEvent

\* The record of a thread after it has begun a block or a query.
LEMMA BegunJob ==
  ASSUME NEW n \in Nat, NEW j \in JobSet(n), NEW op \in Seq(1..n)
  PROVE  /\ [j EXCEPT !.open = op] \in JobSet(n)
         /\ [j EXCEPT !.open = op, !.querying = TRUE] \in JobSet(n)
         /\ [j EXCEPT !.querying = TRUE] \in JobSet(n)
  BY DEF JobSet

\* The actions that open a span: a request, a block, a query.
LEMMA ArriveStep ==
  ASSUME MiddlewareInv, NEW c \in Ctx, NEW h \in Headers, NEW runs \in 0..2, Arrive(c, h, runs)
  PROVE  ShapeOK' /\ JobsOK'
  <1> DEFINE n == Len(spans)
             j == Job("app", NewSpan, h, runs)
  <1>1. n \in Nat /\ NewSpan = n + 1 /\ dbspan[c] \in 0..n
    BY LenProperties DEF MiddlewareInv, HeapOK, ShapeOK, NewSpan
  <1>2. j \in JobSet(n + 1)
    BY <1>1, NewJob DEF Phases
  <1>3. Fit(j)
    BY <1>1 DEF Fit, Job, None
  <1>4. SpanOpened /\ UNCHANGED sending
    BY StartTraceOpens, ArriveIsCall DEF Arrive, MiddlewareInv
  <1>5. UNCHANGED <<framework, dbspan, flushed>> /\ NewSpan \in 0..(n + 1) /\ made' = Append(made, NewSpan)
        /\ job' = [job EXCEPT ![c] = j] /\ dbspan[c] \in 0..(n + 1)
    BY <1>1 DEF Arrive
  <1> HIDE DEF j
  <1> QED
    BY <1>2, <1>3, <1>4, <1>5, ShapeOpened

\* A block or a query of Django is entered.
LEMMA BlockStep ==
  ASSUME MiddlewareInv, NEW c \in Ctx, BlockEnter(c) \/ DjangoQueryStart(c)
  PROVE  ShapeOK' /\ JobsOK'
  <1> DEFINE n == Len(spans)
             op == Append(job[c].open, NewSpan)
  <1>1. n \in Nat /\ NewSpan = n + 1 /\ dbspan[c] \in 0..n /\ n + 1 \in Nat
        /\ job[c] \in JobSet(n + 1) /\ job[c] \in JobSet(n) /\ Fit(job[c])
    BY LenProperties, JobSetGrows DEF MiddlewareInv, HeapOK, ShapeOK, JobsOK, NewSpan
  <1>2. job[c].open \in Seq(1..(n + 1)) /\ job[c].root \in 0..n
    BY <1>1 DEF JobSet
  <1>3. op \in Seq(1..(n + 1)) /\ op # <<>>
    <2>1. NewSpan \in 1..(n + 1)
      BY <1>1
    <2>2. op \in Seq(1..(n + 1)) /\ Len(op) = Len(job[c].open) + 1 /\ Len(job[c].open) \in Nat
      BY <1>2, <2>1, SeqAppend, LenProperties
    <2>3. op # <<>>
      BY <2>2, EmptySeq
    <2> QED
      BY <2>2, <2>3
  <1>4. Owner(c) \in 0..(n + 1) /\ dbspan[c] \in 0..(n + 1)
    BY <1>1, <1>2 DEF Owner, None
  <1>5. NewEvent(c) /\ made' = Append(made, Owner(c)) /\ UNCHANGED <<framework, dbspan, flushed>>
        /\ ~job[c].querying
    BY DEF BlockEnter, DjangoQueryStart, Running, Opens
  <1>6. SpanOpened /\ UNCHANGED sending
    BY <1>5, NewEventOpens, StepIsCall DEF Step, MiddlewareInv
  <1>7. CASE BlockEnter(c)
    <2> DEFINE j == [job[c] EXCEPT !.open = op]
    <2>1. j \in JobSet(n + 1)
      BY <1>1, <1>3, BegunJob
    <2>2. job' = [job EXCEPT ![c] = j]
      BY <1>7 DEF BlockEnter, MiddlewareInv, ShapeOK
    <2>3. Fit(j)
      BY <1>1, <1>3 DEF Fit, JobSet
    <2> HIDE DEF j
    <2> QED
      BY <1>4, <1>5, <1>6, <2>1, <2>2, <2>3, ShapeOpened
  <1>8. CASE DjangoQueryStart(c)
    <2> DEFINE j == [job[c] EXCEPT !.open = op, !.querying = TRUE]
    <2>1. j \in JobSet(n + 1)
      BY <1>1, <1>3, BegunJob
    <2>2. job' = [job EXCEPT ![c] = j]
      BY <1>1, <1>8 DEF DjangoQueryStart, MiddlewareInv, ShapeOK, JobSet
    <2>3. job[c].phase \in {"app", "streaming", "late"}
      BY <1>1, <1>8 DEF DjangoQueryStart, Running, JobSet, Phases
    <2>4. Fit(j)
      BY <1>1, <1>3, <2>3 DEF Fit, JobSet
    <2> HIDE DEF j
    <2> QED
      BY <1>4, <1>5, <1>6, <2>1, <2>2, <2>4, ShapeOpened
  <1> QED
    BY <1>7, <1>8

\* A query of flask opens a span if the thread has a trace.
LEMMA FlaskStep ==
  ASSUME MiddlewareInv, NEW c \in Ctx, FlaskQueryStart(c)
  PROVE  ShapeOK' /\ JobsOK'
  <1> DEFINE n == Len(spans)
             j == [job[c] EXCEPT !.querying = TRUE]
             s == IF current[c] = None THEN None ELSE NewSpan
  <1>1. n \in Nat /\ NewSpan = n + 1 /\ n + 1 \in Nat
        /\ job[c] \in JobSet(n + 1) /\ job[c] \in JobSet(n) /\ Fit(job[c])
    BY LenProperties, JobSetGrows DEF MiddlewareInv, HeapOK, ShapeOK, JobsOK, NewSpan
  <1>2. /\ job[c].open \in Seq(1..(n + 1)) /\ job[c].open \in Seq(1..n)
        /\ job[c].root \in 0..n
    BY <1>1 DEF JobSet
  <1>3. j \in JobSet(n + 1) /\ j \in JobSet(n)
    BY <1>1, <1>2, BegunJob
  <1>4. job' = [job EXCEPT ![c] = j] /\ dbspan' = [dbspan EXCEPT ![c] = s]
        /\ UNCHANGED <<framework, flushed>> /\ framework = "flask" /\ UNCHANGED sending
    BY StepIsCall DEF FlaskQueryStart, Step
  <1>5. job[c].phase \in {"app", "streaming", "late"}
    BY <1>1 DEF FlaskQueryStart, Running, JobSet, Phases
  <1>6. Fit(j)
    BY <1>1, <1>4, <1>5 DEF Fit, JobSet
  <1>7. CASE current[c] = None
    <2>1. UNCHANGED <<vars, made>> /\ s \in 0..n
      BY <1>1, <1>7 DEF FlaskQueryStart, None
    <2>2. SpansKept
      BY <2>1 DEF SpansKept, vars, MiddlewareInv, HeapOK
    <2> HIDE DEF j, s
    <2> QED
      BY <1>3, <1>4, <1>6, <2>1, <2>2, ShapeKept
  <1>8. CASE current[c] # None
    <2>1. StartSpan(c, None) /\ made' = Append(made, Owner(c))
      BY <1>8 DEF FlaskQueryStart, Opens
    <2>2. s \in 0..(n + 1) /\ Owner(c) \in 0..(n + 1)
      BY <1>1, <1>2, <1>8 DEF Owner, None
    <2>3. SpanOpened
      BY <2>1, StartSpanOpens DEF MiddlewareInv
    <2> HIDE DEF j, s
    <2> QED
      BY <1>3, <1>4, <1>6, <2>1, <2>2, <2>3, ShapeOpened
  <1> QED
    BY <1>7, <1>8

-----------------------------------------------------------------------------
(* The theorems *)

\* Every step of the middleware keeps the invariant.
LEMMA MiddlewareInvStep == MiddlewareInv /\ [MiddlewareNext]_mvars => MiddlewareInv'
  <1> SUFFICES ASSUME MiddlewareInv, [MiddlewareNext]_mvars PROVE MiddlewareInv'
    OBVIOUS
  <1>1. HeapOK' /\ RefsOK'
    BY StepIsTracerStep, TypeStep DEF MiddlewareInv
  <1>2. ASSUME NEW c \in Ctx, Step(c)
        PROVE  ShapeOK' /\ JobsOK'
    <2>1. CASE Request(c)
      BY <2>1, ArriveStep DEF Request
    <2>2. CASE DjangoAgain(c)
      <3>1. job[c].header \in Headers
        BY DEF MiddlewareInv, ShapeOK, JobSet
      <3> QED
        BY <2>2, <3>1, ArriveStep DEF DjangoAgain
    <2> QED
      BY <1>2, <2>1, <2>2, BlockStep, FlaskStep, PhaseStep, BadEventStep, FinishingStep DEF Step
  <1>3. CASE UNCHANGED mvars
    <2>1. UNCHANGED <<spans, sending, framework, job, dbspan, made, flushed>>
      BY <1>3 DEF mvars
    <2>2. ShapeOK' /\ JobsOK'
      BY <2>1 DEF MiddlewareInv, ShapeOK, JobsOK, Fit
    <2> QED
      BY <1>1, <2>2 DEF MiddlewareInv
  <1> QED
    BY <1>1, <1>2, <1>3 DEF MiddlewareNext, MiddlewareInv

\* The invariant holds at all times.
LEMMA MiddlewareInvCorrect == MiddlewareSpec => []MiddlewareInv
  BY ShapeInit, MiddlewareInvStep, PTL DEF MiddlewareSpec

\* The records of the requests, `state.span` and the history variables are well formed
\* for every number of threads, requests and spans.
THEOREM MiddlewareTypeCorrect == MiddlewareSpec => []MiddlewareTypeOK
  <1>1. MiddlewareInv => MiddlewareTypeOK
    BY DEF MiddlewareInv, ShapeOK, MiddlewareTypeOK, JobSet
  <1> QED
    BY <1>1, MiddlewareInvCorrect, PTL

-----------------------------------------------------------------------------
(* Requests do not mix *)

Live(c) == job[c].phase \in {"app", "streaming", "late"}

\* All that is on the stack of a thread that works on a request was made for it.
StackOwned(c) ==
  Live(c) /\ current[c] # None =>
    \A i \in 1..Len(Stack(c)) : made[Stack(c)[i]] = job[c].root

OwnedInv == OwnTree /\ \A c \in Ctx : StackOwned(c)

TreeInv == MiddlewareInv /\ PrivateInv /\ OwnedInv

\* What a finish leaves of the stack of its thread.
Trimmed(c) ==
  current'[c] # None =>
    /\ current'[c] = current[c]
    /\ Len(Stack(c)') <= Len(Stack(c))
    /\ \A i \in 1..Len(Stack(c)') : Stack(c)'[i] = Stack(c)[i]

\* A step of a request that opens nothing: at most it leaves the request.
Closing(c) ==
  /\ UNCHANGED <<spans, made>>
  /\ Live(c)' => Live(c) /\ job'[c].root = job[c].root
  /\ Trimmed(c)

\* The stack of a thread that has a trace.
LEMMA StackOfType ==
  ASSUME HeapOK, RefsOK, NEW c \in Ctx, current[c] # None
  PROVE  current[c] \in 1..Len(traces) /\ Stack(c) \in Seq(1..Len(spans)) /\ Len(Stack(c)) \in Nat
  <1>1. current[c] \in 1..Len(traces)
    BY LenProperties DEF HeapOK, RefsOK, None
  <1> QED
    BY <1>1, TraceType, LenProperties DEF Stack

\* finish_span and finish_trace shorten the stack or leave it.
LEMMA FinishTrims ==
  ASSUME HeapOK, RefsOK, NEW c \in Ctx, NEW s, NEW o,
         FinishSpan(c, s, o) \/ FinishTrace(c, s, o)
  PROVE  Trimmed(c)
  <1> SUFFICES ASSUME current'[c] # None
               PROVE  /\ current'[c] = current[c]
                      /\ Len(Stack(c)') <= Len(Stack(c))
                      /\ \A i \in 1..Len(Stack(c)') : Stack(c)'[i] = Stack(c)[i]
    BY DEF Trimmed
  <1>1. current'[c] = current[c] /\ (UNCHANGED traces \/ Pop(c, s))
    BY DEF FinishSpan, FinishTrace, RefsOK
  <1>2. current[c] # None
    BY <1>1
  <1>3. current[c] \in 1..Len(traces) /\ Stack(c) \in Seq(1..Len(spans)) /\ Len(Stack(c)) \in Nat
    BY <1>2, StackOfType
  <1>4. CASE traces' = traces
    BY <1>1, <1>3, <1>4 DEF Stack
  <1>5. CASE IsInnermost(c, s) /\ traces' = [traces EXCEPT ![current[c]].stack = Front(@)]
    <2>1. Stack(c)' = Front(Stack(c))
      BY <1>1, <1>3, <1>5, StackReplaced DEF Stack, HeapOK
    <2>2. Stack(c) # <<>>
      BY <1>5 DEF IsInnermost
    <2>3. /\ Len(Front(Stack(c))) <= Len(Stack(c))
          /\ \A i \in 1..Len(Front(Stack(c))) : Front(Stack(c))[i] = Stack(c)[i]
      <3> DEFINE st == Stack(c)
      <3>1. st \in Seq(1..Len(spans)) /\ st # <<>>
        BY <1>3, <2>2
      <3> HIDE DEF st
      <3>2. /\ Len(st) \in Nat \ {0} /\ Len(Front(st)) = Len(st) - 1
            /\ \A i \in 1..(Len(st) - 1) : Front(st)[i] = st[i]
        BY <3>1, SeqFront
      <3>3. Len(Front(st)) <= Len(st) /\ \A i \in 1..Len(Front(st)) : Front(st)[i] = st[i]
        BY <3>2
      <3> QED
        BY <3>3 DEF st
    <2> QED
      BY <1>1, <2>1, <2>3
  <1> QED
    BY <1>1, <1>4, <1>5 DEF Pop

\* Nothing moves for the other threads.
LEMMA JobsKept ==
  ASSUME MiddlewareInv, NEW c \in Ctx, Step(c)
  PROVE  \A d \in Ctx \ {c} : job'[d] = job[d]
  BY DEF MiddlewareInv, ShapeOK, Step, Finishing, Request, Arrive, BlockEnter, BlockExit, DjangoQueryStart,
     DjangoQueryEnd, FlaskQueryStart, FlaskQueryEnd, FinishRoot, DjangoAnswer, DjangoStream, DjangoStreamEnd,
     DjangoStreamLost, DjangoAgain, FlaskTeardown, WsgiAnswer, WsgiRaise, BodyEnd, LambdaReturn,
     LambdaBadEvent, LambdaFlush, Leave

\* A thread that leaves its phase keeps its root.
LEMMA LeaveKeeps ==
  ASSUME MiddlewareInv, NEW c \in Ctx, NEW phase, NEW ok, Leave(c, phase, ok),
         phase \in {"app", "streaming", "late"} => Live(c)
  PROVE  Live(c)' => Live(c) /\ job'[c].root = job[c].root
  BY DEF Leave, Live, MiddlewareInv, ShapeOK, JobSet

\* A step that changes nothing of the tracer.
LEMMA NothingTrims ==
  ASSUME HeapOK, RefsOK, NEW c \in Ctx, UNCHANGED <<current, traces>>
  PROVE  Trimmed(c)
  BY StackOfType DEF Trimmed, Stack

\* Every action opens nothing, or takes a request, or opens one span under the
\* active one.
Opening(c) ==
  /\ job[c].phase # "flushing"
  /\ NewEvent(c) \/ StartSpan(c, None)
  /\ made' = Append(made, Owner(c))
  /\ job'[c].phase = job[c].phase /\ job'[c].root = job[c].root

\* The steps that finish spans only trim the stack of their thread.
LEMMA ClosingStep ==
  ASSUME MiddlewareInv, NEW c \in Ctx,
         \/ \E o \in Outcomes : Finishing(c, o)
         \/ DjangoStream(c) \/ DjangoStreamLost(c) \/ WsgiRaise(c) \/ BodyEnd(c)
         \/ LambdaBadEvent(c) \/ LambdaFlush(c)
  PROVE  Closing(c)
  <1> USE DEF Quiet
  <1>1. HeapOK /\ RefsOK /\ job \in [Ctx -> JobSet(Len(spans))]
    BY DEF MiddlewareInv, ShapeOK
  <1>2. ASSUME UNCHANGED vars PROVE UNCHANGED spans /\ Trimmed(c)
    BY <1>1, <1>2, NothingTrims DEF vars
  <1>3. CASE DjangoStream(c) \/ DjangoStreamLost(c) \/ WsgiRaise(c) \/ BodyEnd(c) \/ LambdaFlush(c)
    <2>1. \/ Leave(c, "streaming", TRUE) /\ Live(c)
          \/ Leave(c, "idle", FALSE) \/ Leave(c, "idle", TRUE) \/ Leave(c, "idle", Done(c))
      BY <1>3 DEF DjangoStream, DjangoStreamLost, WsgiRaise, BodyEnd, LambdaFlush, Ready, Live
    <2>2. UNCHANGED vars /\ UNCHANGED made
      BY <1>3 DEF DjangoStream, DjangoStreamLost, WsgiRaise, BodyEnd, LambdaFlush
    <2>3. Live(c)' => Live(c) /\ job'[c].root = job[c].root
      BY <2>1, LeaveKeeps
    <2> QED
      BY <1>2, <2>2, <2>3 DEF Closing
  <1>4. CASE LambdaBadEvent(c)
    <2>1. ~Live(c)'
      BY <1>1, <1>4 DEF LambdaBadEvent, Live, Job
    <2>2. UNCHANGED <<spans, made>>
      BY <1>4 DEF LambdaBadEvent, DropTrace, vars
    <2>3. CASE UNCHANGED vars
      BY <1>2, <2>1, <2>2, <2>3 DEF Closing
    <2>4. CASE DropTrace(c)
      BY <1>1, <2>1, <2>2, <2>4 DEF Closing, Trimmed, DropTrace, RefsOK
    <2> QED
      BY <1>4, <2>3, <2>4 DEF LambdaBadEvent
  <1>5. ASSUME NEW o \in Outcomes, Finishing(c, o) PROVE Closing(c)
    <2>1. ASSUME NEW s, Close(c, s, o) \/ FinishSpan(c, s, o) \/ FinishTrace(c, s, o)
          PROVE  UNCHANGED spans /\ Trimmed(c)
      BY <1>1, <2>1, FinishTrims DEF Close, FinishSpan, FinishTrace
    <2>2. CASE BlockExit(c, o) \/ DjangoQueryEnd(c, o)
      <3>1. job'[c].phase = job[c].phase /\ job'[c].root = job[c].root /\ UNCHANGED made
        BY <1>1, <2>2 DEF BlockExit, DjangoQueryEnd, JobSet
      <3> QED
        BY <2>1, <2>2, <3>1 DEF BlockExit, DjangoQueryEnd, Closing, Live
    <2>3. CASE FlaskQueryEnd(c, o)
      <3>1. job'[c].phase = job[c].phase /\ job'[c].root = job[c].root /\ UNCHANGED made
        BY <1>1, <2>3 DEF FlaskQueryEnd, JobSet
      <3>2. UNCHANGED spans /\ Trimmed(c)
        BY <1>1, <2>1, <2>3, NothingTrims DEF FlaskQueryEnd
      <3> QED
        BY <3>1, <3>2 DEF Closing, Live
    <2>4. ASSUME NEW next, NEW ok, FinishRoot(c, o, next, ok), Live(c) PROVE Closing(c)
      <3>1. UNCHANGED spans /\ Trimmed(c) /\ UNCHANGED made
        BY <2>1, <2>4 DEF FinishRoot
      <3>2. Live(c)' => Live(c) /\ job'[c].root = job[c].root
        BY <2>4, LeaveKeeps DEF FinishRoot
      <3> QED
        BY <3>1, <3>2 DEF Closing
    <2>5. CASE DjangoAnswer(c, o) \/ DjangoStreamEnd(c, o) \/ LambdaReturn(c, o)
      BY <2>4, <2>5 DEF DjangoAnswer, DjangoStreamEnd, LambdaReturn, Ready, Live
    <2>6. CASE FlaskTeardown(c, o)
      <3>1. UNCHANGED <<spans, made>> /\ Trimmed(c)
        BY <1>1, <2>1, <2>6, NothingTrims DEF FlaskTeardown
      <3>2. Live(c)' => Live(c) /\ job'[c].root = job[c].root
        BY <2>6, LeaveKeeps DEF FlaskTeardown, Ready, Live
      <3> QED
        BY <3>1, <3>2 DEF Closing
    <2>7. CASE WsgiAnswer(c, o)
      <3>1. UNCHANGED <<spans, made>> /\ Trimmed(c)
        BY <2>1, <2>7 DEF WsgiAnswer
      <3>2. Live(c)' => Live(c) /\ job'[c].root = job[c].root
        BY <2>7, LeaveKeeps DEF WsgiAnswer, Ready, Live
      <3> QED
        BY <3>1, <3>2 DEF Closing
    <2> QED
      BY <1>5, <2>2, <2>3, <2>5, <2>6, <2>7 DEF Finishing
  <1> QED
    BY <1>3, <1>4, <1>5

\* The steps that open a span put it under the active one of their thread, or do nothing.
LEMMA OpeningStep ==
  ASSUME MiddlewareInv, NEW c \in Ctx,
         BlockEnter(c) \/ DjangoQueryStart(c) \/ FlaskQueryStart(c)
  PROVE  Opening(c) \/ Closing(c)
  <1>1. HeapOK /\ RefsOK /\ job \in [Ctx -> JobSet(Len(spans))]
    BY DEF MiddlewareInv, ShapeOK
  <1>2. job'[c].phase = job[c].phase /\ job'[c].root = job[c].root /\ job[c].phase # "flushing"
    BY <1>1 DEF BlockEnter, DjangoQueryStart, FlaskQueryStart, Running, JobSet
  <1>3. CASE BlockEnter(c) \/ DjangoQueryStart(c) \/ current[c] # None
    BY <1>2, <1>3 DEF BlockEnter, DjangoQueryStart, FlaskQueryStart, Opens, Opening
  <1>4. CASE FlaskQueryStart(c) /\ current[c] = None
    BY <1>1, <1>2, <1>4, NothingTrims DEF FlaskQueryStart, Closing, Live, vars
  <1> QED
    BY <1>3, <1>4

\* The other threads keep what they own.
LEMMA OthersOwn ==
  ASSUME TreeInv, NEW c \in Ctx, OthersKept(c), \A d \in Ctx \ {c} : job'[d] = job[d],
         \A s \in 1..Len(spans) : made'[s] = made[s]
  PROVE  \A d \in Ctx \ {c} : StackOwned(d)'
  <1> SUFFICES ASSUME NEW d \in Ctx \ {c}, Live(d)', current'[d] # None,
                      NEW i \in 1..Len(Stack(d)')
               PROVE  made'[Stack(d)'[i]] = job'[d].root
    BY DEF StackOwned
  <1>1. Live(d) /\ current[d] # None /\ job'[d].root = job[d].root /\ Stack(d)' = Stack(d)
    BY DEF Live, OthersKept, Stack
  <1>2. Stack(d) \in Seq(1..Len(spans)) /\ i \in 1..Len(Stack(d))
    BY <1>1, StackOfType DEF TreeInv, MiddlewareInv
  <1>3. Stack(d)[i] \in 1..Len(spans)
    BY <1>2, ElementOfSeq
  <1> QED
    BY <1>1, <1>2, <1>3 DEF TreeInv, OwnedInv, StackOwned

\* A stack that is only trimmed keeps its owner.
LEMMA ClosingOwns ==
  ASSUME TreeInv, NEW c \in Ctx, Closing(c), OthersKept(c), \A d \in Ctx \ {c} : job'[d] = job[d]
  PROVE  OwnedInv'
  <1>1. OwnTree'
    BY DEF Closing, TreeInv, OwnedInv, OwnTree
  <1>2. \A d \in Ctx \ {c} : StackOwned(d)'
    BY OthersOwn DEF Closing
  <1>3. StackOwned(c)'
    <2> SUFFICES ASSUME Live(c)', current'[c] # None, NEW i \in 1..Len(Stack(c)')
                 PROVE  made'[Stack(c)'[i]] = job'[c].root
      BY DEF StackOwned
    <2>1. Live(c) /\ job'[c].root = job[c].root /\ made' = made /\ current'[c] = current[c]
          /\ Len(Stack(c)') <= Len(Stack(c)) /\ Stack(c)'[i] = Stack(c)[i]
      BY DEF Closing, Trimmed
    <2>2. i \in 1..Len(Stack(c))
      <3>1. current[c] # None
        BY <2>1
      <3>2. Len(Stack(c)) \in Nat
        BY <3>1, StackOfType DEF TreeInv, MiddlewareInv
      <3>3. i \in Nat /\ 1 <= i /\ i <= Len(Stack(c)')
        <4>1. Stack(c)' = traces'[current'[c]].stack
          BY DEF Stack
        <4> QED
          OBVIOUS
      <3> QED
        BY <2>1, <3>2, <3>3
    <2> QED
      BY <2>1, <2>2 DEF TreeInv, OwnedInv, StackOwned
  <1> QED
    BY <1>1, <1>2, <1>3 DEF OwnedInv

\* What a new span is, and what it leaves of the spans before it.
LEMMA SpanAppended ==
  ASSUME MiddlewareInv, NEW x, spans' = Append(spans, x), NEW m, made' = Append(made, m)
  PROVE  /\ DOMAIN spans' = 1..(Len(spans) + 1) /\ DOMAIN spans = 1..Len(spans) /\ Len(spans) \in Nat
         /\ spans'[Len(spans) + 1] = x /\ made'[Len(spans) + 1] = m
         /\ \A s \in 1..Len(spans) : spans'[s] = spans[s] /\ made'[s] = made[s]
  <1>1. spans \in Seq(SpanSet(Len(traces), Len(spans)) \cup {x}) /\ x \in SpanSet(Len(traces), Len(spans)) \cup {x}
    BY SeqMonotonic DEF MiddlewareInv, HeapOK
  <1>2. made \in Seq((0..Len(spans)) \cup {m}) /\ m \in (0..Len(spans)) \cup {m} /\ Len(made) = Len(spans)
    BY SeqMonotonic DEF MiddlewareInv, ShapeOK
  <1>3. DOMAIN spans = 1..Len(spans) /\ Len(spans) \in Nat
    BY LenProperties DEF MiddlewareInv, HeapOK
  <1>4. /\ spans' \in Seq(SpanSet(Len(traces), Len(spans)) \cup {x}) /\ Len(spans') = Len(spans) + 1
        /\ \A i \in 1..Len(spans) : spans'[i] = spans[i]
        /\ spans'[Len(spans) + 1] = x
    BY <1>1, SeqAppend
  <1>5. /\ \A i \in 1..Len(spans) : made'[i] = made[i]
        /\ made'[Len(spans) + 1] = m
    BY <1>2, SeqAppend
  <1> QED
    BY <1>3, <1>4, <1>5, LenProperties

\* The tree of a request keeps its owner when a span is added whose parent, if it
\* is a span of this process, has the owner of the span.
LEMMA SpanJoins ==
  ASSUME TreeInv, NEW x, spans' = Append(spans, x), NEW m, made' = Append(made, m),
         m # None /\ x.parent \in 1..(Len(spans) + 1) =>
           x.parent \in 1..Len(spans) /\ made[x.parent] = m
  PROVE  OwnTree'
  <1> DEFINE n == Len(spans)
  <1>1. /\ DOMAIN spans' = 1..(n + 1) /\ DOMAIN spans = 1..n /\ n \in Nat
        /\ spans'[n + 1] = x /\ made'[n + 1] = m
        /\ \A s \in 1..n : spans'[s] = spans[s] /\ made'[s] = made[s]
    BY SpanAppended DEF TreeInv
  <1> SUFFICES ASSUME NEW s \in 1..(n + 1), made'[s] # None, spans'[s].parent \in 1..(n + 1)
               PROVE  made'[spans'[s].parent] = made'[s]
    BY <1>1 DEF OwnTree
  <1>2. CASE s \in 1..n
    <2>1. spans[s].parent \in (0..n) \cup {Remote}
      <3>1. spans[s] \in SpanSet(Len(traces), n)
        BY <1>2, ElementOfSeq DEF TreeInv, MiddlewareInv, HeapOK
      <3> QED
        BY <3>1 DEF SpanSet
    <2>2. spans[s].parent \in 1..n
      BY <1>1, <1>2, <2>1, TracerAssumption
    <2> QED
      BY <1>1, <1>2, <2>2 DEF TreeInv, OwnedInv, OwnTree
  <1>3. CASE s = n + 1
    BY <1>1, <1>3
  <1>4. s \in 1..n \/ s = n + 1
    BY <1>1
  <1> QED
    BY <1>2, <1>3, <1>4

\* A new trace belongs to the request that starts it, whatever was open before.
LEMMA StartTraceOwns ==
  ASSUME TreeInv, NEW c \in Ctx, NEW id, NEW p \in {None, Remote}, StartTrace(c, id, p), OthersKept(c),
         \A d \in Ctx \ {c} : job'[d] = job[d], NEW m, made' = Append(made, m),
         Live(c)' => job'[c].root = m
  PROVE  OwnedInv'
  <1> DEFINE n == Len(spans)
  <1>1. PICK x : spans' = Append(spans, x) /\ x.parent = p
    BY DEF StartTrace, PushSpan
  <1>2. /\ n \in Nat /\ made'[n + 1] = m
        /\ \A s \in 1..n : made'[s] = made[s]
    BY <1>1, SpanAppended DEF TreeInv
  <1>3. p \notin 1..(n + 1)
    BY <1>2, TracerAssumption DEF None
  <1>4. OwnTree'
    BY <1>1, <1>3, SpanJoins
  <1>5. \A d \in Ctx \ {c} : StackOwned(d)'
    BY <1>2, OthersOwn
  <1>6. StackOwned(c)'
    <2>1. current'[c] = Len(traces) + 1
      BY DEF StartTrace, NewTrace, TreeInv, MiddlewareInv, RefsOK
    <2>2. PICK t : traces' = Append(traces, t) /\ t.stack = <<n + 1>>
      BY DEF StartTrace, NewSpan
    <2>3. traces'[Len(traces) + 1] = t
      BY <2>2, TraceAppended DEF TreeInv, MiddlewareInv
    <2>4. Stack(c)' = <<n + 1>>
      BY <2>1, <2>2, <2>3 DEF Stack
    <2>5. \A i \in 1..Len(<<n + 1>>) : <<n + 1>>[i] = n + 1
      BY <1>2
    <2>6. Live(c)' => \A i \in 1..Len(Stack(c)') : made'[Stack(c)'[i]] = job'[c].root
      BY <1>2, <2>4, <2>5
    <2> QED
      BY <2>6 DEF StackOwned
  <1> QED
    BY <1>4, <1>5, <1>6 DEF OwnedInv

\* A span under the active one belongs to the owner of the stack.
LEMMA StartSpanOwns ==
  ASSUME TreeInv, NEW c \in Ctx, StartSpan(c, None), OthersKept(c),
         \A d \in Ctx \ {c} : job'[d] = job[d], made' = Append(made, Owner(c)),
         job[c].phase # "flushing", job'[c].phase = job[c].phase, job'[c].root = job[c].root
  PROVE  OwnedInv'
  <1> DEFINE n == Len(spans)
             st == traces[current[c]].stack
  <1>1. current[c] # None /\ HeapOK /\ RefsOK
    BY DEF StartSpan, TreeInv, MiddlewareInv
  <1>2. current[c] \in 1..Len(traces) /\ st \in Seq(1..n) /\ Len(st) \in Nat
    BY <1>1, StackOfType DEF Stack
  <1>3. PICK x : spans' = Append(spans, x) /\ x.parent = ActiveSpan(c)
    BY DEF StartSpan, PushSpan
  <1>4. /\ n \in Nat /\ made'[n + 1] = Owner(c)
        /\ \A s \in 1..n : made'[s] = made[s]
    BY <1>3, SpanAppended DEF TreeInv
  <1>5. job[c].phase = "idle" \/ Live(c)
    BY DEF TreeInv, MiddlewareInv, ShapeOK, JobSet, Phases, Live
  <1>6. Live(c) => \A i \in 1..Len(st) : made[st[i]] = job[c].root
    BY <1>1 DEF TreeInv, OwnedInv, StackOwned, Stack
  <1>7. Owner(c) # None => Live(c) /\ Owner(c) = job[c].root
    BY <1>5 DEF Owner
  <1>8. ActiveSpan(c) = None \/ (ActiveSpan(c) \in 1..n /\ \E i \in 1..Len(st) : ActiveSpan(c) = st[i])
    <2>1. CASE st = <<>>
      BY <2>1 DEF ActiveSpan, Stack
    <2>2. CASE st # <<>>
      <3>1. ActiveSpan(c) = Last(st)
        BY <1>1, <2>2 DEF ActiveSpan, Stack
      <3> HIDE DEF st
      <3>2. Len(st) \in Nat \ {0} /\ Last(st) = st[Len(st)] /\ Last(st) \in 1..n
        BY <1>2, <2>2, SeqFront
      <3>3. Len(st) \in 1..Len(st)
        BY <3>2
      <3> QED
        BY <3>1, <3>2, <3>3
    <2> QED
      BY <2>1, <2>2
  <1>9. OwnTree'
    <2>1. Owner(c) # None /\ x.parent \in 1..(n + 1) => x.parent \in 1..n /\ made[x.parent] = Owner(c)
      BY <1>3, <1>4, <1>6, <1>7, <1>8 DEF None
    <2> QED
      BY <1>3, <2>1, SpanJoins
  <1>10. \A d \in Ctx \ {c} : StackOwned(d)'
    BY <1>4, OthersOwn
  <1>11. StackOwned(c)'
    <2>1. traces' = [traces EXCEPT ![current[c]].stack = Append(st, n + 1)] /\ current' = current
      BY DEF StartSpan, NewSpan
    <2>2. Stack(c)' = Append(st, n + 1)
      BY <1>1, <1>2, <2>1, StackReplaced DEF Stack
    <2> SUFFICES ASSUME Live(c), NEW i \in 1..Len(Append(st, n + 1))
                 PROVE  made'[Append(st, n + 1)[i]] = job[c].root
      BY <2>2 DEF StackOwned, Live
    <2>3. Owner(c) = job[c].root
      BY DEF Owner, Live
    <2> HIDE DEF st
    <2>4. /\ Len(Append(st, n + 1)) = Len(st) + 1
          /\ \A k \in 1..Len(st) : Append(st, n + 1)[k] = st[k]
          /\ Append(st, n + 1)[Len(st) + 1] = n + 1
      <3>1. st \in Seq(1..(n + 1)) /\ n + 1 \in 1..(n + 1)
        <4>1. 1..n \subseteq 1..(n + 1)
          BY <1>4
        <4> QED
          BY <1>2, <1>4, <4>1, SeqMonotonic
      <3> QED
        BY <3>1, SeqAppend
    <2>5. CASE i \in 1..Len(st)
      <3>1. st[i] \in 1..n
        BY <1>2, <2>5, ElementOfSeq
      <3> QED
        BY <1>4, <1>6, <2>4, <2>5, <3>1
    <2>6. CASE i = Len(st) + 1
      BY <1>4, <2>3, <2>4, <2>6
    <2>7. i \in 1..Len(st) \/ i = Len(st) + 1
      BY <1>2, <2>4
    <2> QED
      BY <2>5, <2>6, <2>7
  <1> QED
    BY <1>9, <1>10, <1>11 DEF OwnedInv

\* A new request owns what its thread works on.
LEMMA ArriveOwns ==
  ASSUME TreeInv, NEW c \in Ctx, NEW h \in Headers, NEW n, Arrive(c, h, n), OthersKept(c),
         \A d \in Ctx \ {c} : job'[d] = job[d]
  PROVE  OwnedInv'
  <1>1. h[2] \in {None, Remote}
    BY DEF Headers
  <1>2. job'[c].root = NewSpan
    BY DEF Arrive, Job, TreeInv, MiddlewareInv, ShapeOK
  <1> QED
    BY <1>1, <1>2, StartTraceOwns DEF Arrive

\* Every step keeps the spans of a thread those of its request.
LEMMA OwnedStep == TreeInv /\ [MiddlewareNext]_mvars => OwnedInv'
  <1>1. ASSUME TreeInv, NEW c \in Ctx, Step(c)
        PROVE  OwnedInv'
    <2>1. MiddlewareInv /\ \A d \in Ctx \ {c} : job'[d] = job[d]
      BY <1>1, JobsKept DEF TreeInv
    <2>2. OthersKept(c)
      <3>1. CASE Call(c)
        BY <1>1, <3>1, StepKeeps DEF Acts, TreeInv, MiddlewareInv, JobsOK
      <3>2. CASE UNCHANGED vars
        BY <3>2 DEF OthersKept, vars
      <3> QED
        BY <1>1, <2>1, <3>1, <3>2, StepIsCall
    <2>3. CASE Closing(c)
      BY <1>1, <2>1, <2>2, <2>3, ClosingOwns
    <2>4. CASE Opening(c)
      <3>1. CASE StartSpan(c, None)
        BY <1>1, <2>1, <2>2, <2>4, <3>1, StartSpanOwns DEF Opening
      <3>2. CASE StartTrace(c, None, None)
        <4>1. Live(c)' => job'[c].root = Owner(c)
          BY <2>4 DEF Live, Opening, Owner
        <4> QED
          BY <1>1, <2>1, <2>2, <2>4, <3>2, <4>1, StartTraceOwns DEF Opening
      <3> QED
        BY <2>4, <3>1, <3>2 DEF Opening, NewEvent
    <2>5. CASE Request(c)
      BY <1>1, <2>1, <2>2, <2>5, ArriveOwns DEF Request
    <2>6. CASE DjangoAgain(c)
      <3>1. job[c].header \in Headers
        BY <2>1 DEF MiddlewareInv, ShapeOK, JobSet
      <3> QED
        BY <1>1, <2>1, <2>2, <2>6, <3>1, ArriveOwns DEF DjangoAgain
    <2> QED
      BY <1>1, <2>1, <2>3, <2>4, <2>5, <2>6, ClosingStep, OpeningStep DEF Step
  <1>2. TreeInv /\ UNCHANGED mvars => OwnedInv'
    BY DEF mvars, TreeInv, OwnedInv, OwnTree, StackOwned, Live, Stack
  <1> QED
    BY <1>1, <1>2 DEF MiddlewareNext

\* Whatever the applications leave open and whichever hook raises, the spans of one
\* request never hang under those of another, for every number of threads.
THEOREM RequestsApart == MiddlewareSpec => []OwnTree
  <1>1. MiddlewareInit => TreeInv
    <2> SUFFICES ASSUME MiddlewareInit PROVE TreeInv
      OBVIOUS
    <2>1. MiddlewareInv
      BY ShapeInit
    <2>2. current = [c \in Ctx |-> None] /\ spans = <<>>
      BY DEF MiddlewareInit, Init
    <2>3. PrivateInv /\ OwnedInv
      BY <2>2 DEF PrivateInv, OwnedInv, OwnTree, StackOwned
    <2> QED
      BY <2>1, <2>3 DEF TreeInv
  <1>2. TreeInv /\ [MiddlewareNext]_mvars => TreeInv'
    <2>1. TreeInv /\ [MiddlewareNext]_mvars => PrivateInv'
      BY StepIsTracerStep, PrivateStep, MiddlewareAssumption DEF TreeInv, MiddlewareInv
    <2> QED
      BY <2>1, MiddlewareInvStep, OwnedStep DEF TreeInv
  <1>3. TreeInv => OwnTree
    BY DEF TreeInv, OwnedInv
  <1> QED
    BY <1>1, <1>2, <1>3, PTL DEF MiddlewareSpec
=============================================================================
