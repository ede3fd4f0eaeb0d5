---------------------------- MODULE ReportProofs ----------------------------
(***************************************************************************)
(* What a request reports, for every number of threads, requests and spans: *)
(* as long as it is tidy its stack is what it has open, each of its spans   *)
(* is sent once, and, tidy or not, its root is sent last.                   *)
(***************************************************************************)
EXTENDS MiddlewareProofs

-----------------------------------------------------------------------------
(* What a step does to the request of its thread *)

\* What only some frameworks have.
FrameInv ==
  \A c \in Ctx :
    /\ dbspan[c] # None => framework = "flask"
    /\ job[c].phase = "flushing" => framework = "lambda"
    /\ job[c].phase = "late" => framework \in {"flask", "wsgi"}

\* A request, or the second run of a view, starts a trace of its own.
Arrives(c) ==
  /\ \E h \in Headers : StartTrace(c, h[1], h[2])
  /\ made' = Append(made, NewSpan)
  /\ job'[c].phase = "app" /\ job'[c].root = NewSpan /\ job'[c].open = <<>> /\ ~job'[c].querying
  /\ UNCHANGED <<framework, dbspan, flushed>>

SamePhase(c) == job'[c].phase = job[c].phase /\ job'[c].root = job[c].root

\* A block is entered, that of a query of Django included.
Enters(c) ==
  /\ job[c].phase # "flushing" /\ ~job[c].querying
  /\ NewEvent(c)
  /\ made' = Append(made, Owner(c))
  /\ SamePhase(c) /\ job'[c].tidy = job[c].tidy
  /\ job'[c].open = Append(job[c].open, NewSpan)
  /\ job'[c].querying => framework = "django"
  /\ UNCHANGED <<framework, dbspan, flushed>>

\* A query of flask makes a span,
Asks(c) ==
  /\ Live(c) /\ framework = "flask" /\ ~job[c].querying
  /\ StartSpan(c, None)
  /\ made' = Append(made, Owner(c))
  /\ SamePhase(c) /\ job'[c].tidy = job[c].tidy /\ job'[c].open = job[c].open
  /\ job'[c].querying
  /\ dbspan' = [dbspan EXCEPT ![c] = NewSpan]
  /\ UNCHANGED <<framework, flushed>>

\* or, where the thread has no trace, none.
AsksInVain(c) ==
  /\ Live(c) /\ framework = "flask" /\ ~job[c].querying
  /\ UNCHANGED vars /\ UNCHANGED made
  /\ SamePhase(c) /\ job'[c].tidy = job[c].tidy /\ job'[c].open = job[c].open
  /\ dbspan' = [dbspan EXCEPT ![c] = None]
  /\ UNCHANGED <<framework, flushed>>

\* The innermost block is left.
Leaves(c, o) ==
  /\ job[c].phase # "flushing" /\ (job[c].querying => framework = "django")
  /\ job[c].open # <<>>
  /\ Close(c, Last(job[c].open), o)
  /\ SamePhase(c) /\ job'[c].open = Front(job[c].open) /\ ~job'[c].querying
  /\ job'[c].tidy => job[c].tidy /\ o = "sent"
  /\ UNCHANGED <<framework, dbspan, made, flushed>>

\* A query of flask ends, or is reported as failed once more.
Replies(c, o) ==
  /\ Live(c) /\ framework = "flask"
  /\ IF dbspan[c] = None THEN UNCHANGED <<current, traces, spans, sent>> ELSE FinishSpan(c, dbspan[c], o)
  /\ dbspan' = [dbspan EXCEPT ![c] = IF o = "raised" THEN @ ELSE None]
  /\ SamePhase(c) /\ job'[c].open = job[c].open /\ ~job'[c].querying
  /\ job'[c].tidy => job[c].tidy /\ o = "sent"
  /\ UNCHANGED <<framework, made, flushed>>

KeepsOrDrops(c) ==
  /\ job'[c].root = job[c].root
  /\ job'[c].open = IF job'[c].phase = "idle" THEN <<>> ELSE job[c].open
  /\ job'[c].querying = job[c].querying

\* The root of the request is finished.
Ends(c, o) ==
  /\ Live(c) /\ ~job[c].querying /\ framework # "flask"
  /\ FinishTrace(c, job[c].root, o)
  /\ KeepsOrDrops(c)
  /\ framework # "wsgi" => job'[c].phase \in {"idle", "flushing"}
  /\ framework = "wsgi" => Live(c)'
  /\ job'[c].phase = "flushing" => framework = "lambda"
  /\ job'[c].tidy =>
       /\ job[c].tidy /\ o = "sent" /\ Traced(c) /\ ~Traced(c)'
       /\ framework # "wsgi" => job[c].open = <<>>
       /\ framework = "lambda" => job'[c].phase # "idle"
  /\ UNCHANGED <<framework, dbspan, made, flushed>>

\* The teardown of flask finishes the active span, if there is one.
TearsDown(c, o) ==
  /\ framework = "flask" /\ job[c].phase = "app" /\ ~job[c].querying
  /\ IF ActiveSpan(c) = None THEN UNCHANGED <<current, traces, spans, sent>>
                             ELSE Close(c, ActiveSpan(c), o)
  /\ job'[c].phase = "late" /\ KeepsOrDrops(c)
  /\ job'[c].tidy => job[c].tidy /\ o = "sent" /\ job[c].open = <<>>
  /\ UNCHANGED <<framework, dbspan, made, flushed>>

\* The thread goes on without a call to the tracer.
Moves(c) ==
  /\ UNCHANGED vars /\ UNCHANGED <<framework, dbspan, made>>
  /\ KeepsOrDrops(c) /\ ~job[c].querying
  /\ job'[c].tidy => job[c].tidy
  /\ \/ job[c].phase = "app" /\ job'[c].phase = "streaming" /\ flushed' = flushed
     \/ /\ job'[c].phase = "idle"
        /\ \/ flushed' = flushed /\ (job'[c].tidy => job[c].phase = "late" /\ job[c].open = <<>>)
           \/ flushed' = sent /\ job[c].phase = "flushing"

\* An event that nobody can read ends what the thread had.
Refuses(c) ==
  /\ framework = "lambda" /\ job[c].open = <<>>
  /\ current' = [current EXCEPT ![c] = None]
  /\ job'[c].phase = "flushing" /\ job'[c].root = None /\ job'[c].open = <<>> /\ ~job'[c].querying
  /\ UNCHANGED <<traces, spans, sent, framework, dbspan, made, flushed>>

Effect(c) ==
  \/ Arrives(c) \/ Enters(c) \/ Asks(c) \/ AsksInVain(c)
  \/ \E o \in Outcomes : Leaves(c, o) \/ Replies(c, o) \/ Ends(c, o) \/ TearsDown(c, o)
  \/ Moves(c) \/ Refuses(c)

\* The record of a thread that leaves its phase.
LEMMA LeaveFields ==
  ASSUME MiddlewareInv, NEW c \in Ctx, NEW phase, NEW ok, Leave(c, phase, ok)
  PROVE  /\ job'[c].phase = phase /\ KeepsOrDrops(c)
         /\ job'[c].tidy = (job[c].tidy /\ ok)
  BY DEF MiddlewareInv, ShapeOK, JobSet, Leave, KeepsOrDrops

\* The steps that begin something.
LEMMA BeginEffects ==
  ASSUME MiddlewareInv, NEW c \in Ctx,
         Request(c) \/ DjangoAgain(c) \/ BlockEnter(c) \/ DjangoQueryStart(c) \/ FlaskQueryStart(c)
  PROVE  Effect(c)
  <1>1. job \in [Ctx -> JobSet(Len(spans))] /\ job[c] \in JobSet(Len(spans)) /\ Fit(job[c])
    BY DEF MiddlewareInv, ShapeOK, JobsOK
  <1>2. ASSUME NEW h \in Headers, NEW n, Arrive(c, h, n)
        PROVE  Arrives(c)
    BY <1>1, <1>2 DEF Arrive, Arrives, Job
  <1>3. CASE Request(c) \/ DjangoAgain(c)
    BY <1>1, <1>2, <1>3 DEF Request, DjangoAgain, JobSet, Effect
  <1>4. CASE BlockEnter(c)
    BY <1>1, <1>4 DEF BlockEnter, Running, Opens, Enters, SamePhase, JobSet, Effect
  <1>5. CASE DjangoQueryStart(c)
    BY <1>1, <1>5 DEF DjangoQueryStart, Running, Opens, Enters, SamePhase, JobSet, Effect
  <1>6. CASE FlaskQueryStart(c)
    <2>1. /\ Live(c) /\ framework = "flask" /\ ~job[c].querying
          /\ SamePhase(c) /\ job'[c].tidy = job[c].tidy /\ job'[c].open = job[c].open /\ job'[c].querying
          /\ UNCHANGED <<framework, flushed>>
      BY <1>1, <1>6 DEF FlaskQueryStart, Running, Live, SamePhase, JobSet, Phases
    <2>2. CASE current[c] = None
      BY <1>6, <2>1, <2>2 DEF FlaskQueryStart, AsksInVain, Effect
    <2>3. CASE current[c] # None
      BY <1>6, <2>1, <2>3 DEF FlaskQueryStart, Opens, Asks, Effect
    <2> QED
      BY <2>2, <2>3
  <1> QED
    BY <1>3, <1>4, <1>5, <1>6

\* The steps that end something.
LEMMA FinishEffects ==
  ASSUME MiddlewareInv, FrameInv, NEW c \in Ctx, NEW o \in Outcomes, Finishing(c, o)
  PROVE  Effect(c)
  <1>1. job \in [Ctx -> JobSet(Len(spans))] /\ job[c] \in JobSet(Len(spans)) /\ Fit(job[c])
    BY DEF MiddlewareInv, ShapeOK, JobsOK
  <1>2. CASE BlockExit(c, o)
    <2>1. Leaves(c, o)
      BY <1>1, <1>2 DEF BlockExit, Running, Quiet, Leaves, SamePhase, JobSet
    <2> QED
      BY <2>1 DEF Effect
  <1>3. CASE DjangoQueryEnd(c, o)
    <2>1. job[c].open # <<>> /\ job[c].phase # "flushing"
      BY <1>1, <1>3 DEF DjangoQueryEnd, Fit
    <2>2. Leaves(c, o)
      BY <1>1, <1>3, <2>1 DEF DjangoQueryEnd, Quiet, Leaves, SamePhase, JobSet
    <2> QED
      BY <2>2 DEF Effect
  <1>4. CASE FlaskQueryEnd(c, o)
    <2>1. /\ framework = "flask" /\ (job[c].querying \/ dbspan[c] # None) /\ job[c].phase # "idle"
          /\ SamePhase(c) /\ job'[c].open = job[c].open /\ ~job'[c].querying
          /\ job'[c].tidy => job[c].tidy /\ o = "sent"
          /\ UNCHANGED <<framework, made, flushed>>
      BY <1>1, <1>4 DEF FlaskQueryEnd, Quiet, SamePhase, JobSet
    <2>2. Live(c)
      BY <1>1, <2>1 DEF FrameInv, Live, JobSet, Phases
    <2>3. Replies(c, o)
      BY <1>4, <2>1, <2>2 DEF FlaskQueryEnd, Replies
    <2> QED
      BY <2>3 DEF Effect
  <1>5. ASSUME NEW next, NEW ok, FinishRoot(c, o, next, ok), Live(c), Traced(c), ~job[c].querying,
               framework \in {"django", "lambda"}, next = IF framework = "django" THEN "idle" ELSE "flushing",
               ok => job[c].open = <<>>
        PROVE  Effect(c)
    <2>1. /\ FinishTrace(c, job[c].root, o)
          /\ Leave(c, IF o = "raised" THEN "idle" ELSE next, ok /\ o = "sent")
          /\ UNCHANGED <<framework, dbspan, made, flushed>>
      BY <1>5 DEF FinishRoot, Quiet
    <2>2. /\ job'[c].phase = IF o = "raised" THEN "idle" ELSE next
          /\ KeepsOrDrops(c)
          /\ job'[c].tidy = (job[c].tidy /\ (ok /\ o = "sent"))
      BY <2>1, LeaveFields
    <2>3. Ends(c, o)
      BY <1>5, <2>1, <2>2 DEF Ends, Traced
    <2> QED
      BY <2>3 DEF Effect
  <1>6. CASE DjangoAnswer(c, o) \/ DjangoStreamEnd(c, o) \/ LambdaReturn(c, o)
    BY <1>5, <1>6 DEF DjangoAnswer, DjangoStreamEnd, LambdaReturn, Ready, Running, Live, Traced, Done
  <1>7. CASE FlaskTeardown(c, o)
    <2>1. /\ job'[c].phase = "late" /\ KeepsOrDrops(c)
          /\ job'[c].tidy = (job[c].tidy /\ (Done(c) /\ o = "sent"))
      BY <1>7, LeaveFields DEF FlaskTeardown
    <2>2. TearsDown(c, o)
      BY <1>7, <2>1 DEF FlaskTeardown, Ready, Running, Quiet, Done, TearsDown
    <2> QED
      BY <2>2 DEF Effect
  <1>8. CASE WsgiAnswer(c, o)
    <2>1. /\ job'[c].phase = IF o = "raised" THEN job[c].phase ELSE "late"
          /\ KeepsOrDrops(c)
          /\ job'[c].tidy = (job[c].tidy /\ (job[c].phase = "app" /\ o = "sent"))
      BY <1>8, LeaveFields DEF WsgiAnswer
    <2>2. framework = "wsgi" /\ job[c].phase \in {"app", "late"} /\ ~job[c].querying
      BY <1>8 DEF WsgiAnswer, Ready, Running
    <2>3. Ends(c, o)
      BY <1>8, <2>1, <2>2 DEF WsgiAnswer, Quiet, Ends, Live, Traced
    <2> QED
      BY <2>3 DEF Effect
  <1> QED
    BY <1>2, <1>3, <1>4, <1>6, <1>7, <1>8 DEF Finishing

\* Every step of a thread has one of these effects.
LEMMA StepEffects ==
  ASSUME MiddlewareInv, FrameInv, NEW c \in Ctx, Step(c)
  PROVE  Effect(c)
  <1>1. job \in [Ctx -> JobSet(Len(spans))] /\ Fit(job[c])
    BY DEF MiddlewareInv, ShapeOK, JobsOK
  <1>2. CASE DjangoStream(c) \/ DjangoStreamLost(c) \/ WsgiRaise(c) \/ BodyEnd(c)
    <2>1. PICK phase, ok :
            /\ Leave(c, phase, ok)
            /\ \/ job[c].phase = "app" /\ phase = "streaming"
               \/ phase = "idle" /\ (ok => job[c].phase = "late" /\ job[c].open = <<>>)
      BY <1>2 DEF DjangoStream, DjangoStreamLost, WsgiRaise, BodyEnd, Ready, Done
    <2>2. UNCHANGED vars /\ UNCHANGED <<framework, dbspan, made, flushed>> /\ ~job[c].querying
      BY <1>2 DEF DjangoStream, DjangoStreamLost, WsgiRaise, BodyEnd, Ready, Running
    <2>3. job'[c].phase = phase /\ KeepsOrDrops(c) /\ job'[c].tidy = (job[c].tidy /\ ok)
      BY <2>1, LeaveFields
    <2>4. Moves(c)
      BY <2>1, <2>2, <2>3 DEF Moves
    <2> QED
      BY <2>4 DEF Effect
  <1>3. CASE LambdaFlush(c)
    <2>1. job'[c].phase = "idle" /\ KeepsOrDrops(c) /\ job'[c].tidy = (job[c].tidy /\ TRUE)
      BY <1>3, LeaveFields DEF LambdaFlush
    <2>2. ~job[c].querying
      BY <1>1, <1>3 DEF LambdaFlush, Fit
    <2>3. Moves(c)
      BY <1>3, <2>1, <2>2 DEF LambdaFlush, Moves
    <2> QED
      BY <2>3 DEF Effect
  <1>4. CASE LambdaBadEvent(c)
    <2>1. job'[c].phase = "flushing" /\ job'[c].root = None /\ job'[c].open = <<>> /\ ~job'[c].querying
      BY <1>1, <1>4 DEF LambdaBadEvent, Job
    <2>2. current' = [current EXCEPT ![c] = None] /\ UNCHANGED <<traces, spans, sent>>
      <3>1. CASE DropTrace(c)
        BY <3>1 DEF DropTrace
      <3>2. CASE current[c] = None /\ UNCHANGED vars
        BY <3>2 DEF vars, MiddlewareInv, RefsOK
      <3> QED
        BY <1>4, <3>1, <3>2 DEF LambdaBadEvent
    <2>3. Refuses(c)
      BY <1>4, <2>1, <2>2 DEF LambdaBadEvent, Done, Refuses
    <2> QED
      BY <2>3 DEF Effect
  <1> QED
    BY <1>2, <1>3, <1>4, BeginEffects, FinishEffects DEF Step

\* Nothing moves for the other threads.
LEMMA EffectsApart ==
  ASSUME MiddlewareInv, NEW c \in Ctx, Effect(c)
  PROVE  framework' = framework /\ \A d \in Ctx \ {c} : dbspan'[d] = dbspan[d]
  <1>1. dbspan \in [Ctx -> 0..Len(spans)]
    BY DEF MiddlewareInv, ShapeOK
  <1> QED
    BY <1>1 DEF Effect, Arrives, Enters, Asks, AsksInVain, Leaves, Replies, Ends, TearsDown, Moves, Refuses

\* What a framework does not have it does not get.
LEMMA FrameStep ==
  ASSUME MiddlewareInv, FrameInv, NEW c \in Ctx, Effect(c), \A d \in Ctx \ {c} : job'[d] = job[d]
  PROVE  FrameInv'
  <1>1. framework' = framework /\ \A d \in Ctx \ {c} : dbspan'[d] = dbspan[d]
    BY EffectsApart
  <1>2. dbspan'[c] # None => framework = "flask"
    <2>1. dbspan \in [Ctx -> 0..Len(spans)]
      BY DEF MiddlewareInv, ShapeOK
    <2> QED
      BY <2>1 DEF FrameInv, Effect, Arrives, Enters, Asks, AsksInVain, Leaves, Replies, Ends, TearsDown, Moves, Refuses
  <1>3. /\ job'[c].phase = "flushing" => framework = "lambda"
        /\ job'[c].phase = "late" => framework \in {"flask", "wsgi"}
    <2>1. CASE SamePhase(c)
      BY <2>1 DEF SamePhase, FrameInv
    <2>2. CASE Arrives(c) \/ Moves(c) \/ Refuses(c)
      BY <2>2 DEF Arrives, Moves, Refuses, FrameInv
    <2>3. ASSUME NEW o \in Outcomes, Ends(c, o) \/ TearsDown(c, o)
          PROVE  /\ job'[c].phase = "flushing" => framework = "lambda"
                 /\ job'[c].phase = "late" => framework \in {"flask", "wsgi"}
      <3>1. framework \in Frameworks
        BY DEF MiddlewareInv, ShapeOK
      <3> QED
        BY <2>3, <3>1, MiddlewareAssumption DEF Ends, TearsDown, FrameInv
    <2> QED
      BY <2>1, <2>2, <2>3 DEF Effect, Enters, Asks, AsksInVain, Leaves, Replies
  <1> QED
    BY <1>1, <1>2, <1>3 DEF FrameInv

-----------------------------------------------------------------------------
(* What a step does to the stack of its thread *)

Path(c) == IF current[c] = None THEN <<>> ELSE Stack(c)

\* A thread that has a trace has a span of it.
Open(c) == current[c] # None => Path(c) # <<>>

\* A stack is a sequence of spans.
LEMMA PathType ==
  ASSUME HeapOK, RefsOK, NEW c \in Ctx
  PROVE  Path(c) \in Seq(1..Len(spans))
  <1>1. <<>> \in Seq(1..Len(spans))
    OBVIOUS
  <1> QED
    BY <1>1, StackOfType DEF Path

\* A trace begins with its root.
LEMMA StartTracePath ==
  ASSUME HeapOK, RefsOK, NEW c \in Ctx, NEW id, NEW p, StartTrace(c, id, p)
  PROVE  Path(c)' = <<NewSpan>> /\ Open(c)'
  <1>1. current'[c] = Len(traces) + 1
    BY DEF StartTrace, NewTrace, RefsOK
  <1>2. PICK t : traces' = Append(traces, t) /\ t.stack = <<NewSpan>>
    BY DEF StartTrace
  <1>3. traces'[Len(traces) + 1] = t /\ Len(traces) \in Nat
    BY <1>2, TraceAppended
  <1>4. current'[c] # None /\ Stack(c)' = <<NewSpan>>
    BY <1>1, <1>2, <1>3 DEF Stack, None
  <1>5. <<NewSpan>> # <<>>
    OBVIOUS
  <1> QED
    BY <1>4, <1>5 DEF Path, Open

\* A span goes on the stack.
LEMMA StartSpanPath ==
  ASSUME HeapOK, RefsOK, NEW c \in Ctx, NEW p, StartSpan(c, p)
  PROVE  Path(c)' = Append(Path(c), NewSpan) /\ Open(c)'
  <1>1. current[c] # None /\ current' = current /\ Stack(c) \in Seq(1..Len(spans)) /\ current[c] \in 1..Len(traces)
    BY StackOfType DEF StartSpan
  <1>2. PICK st : st = Append(Stack(c), NewSpan)
    OBVIOUS
  <1>3. traces' = [traces EXCEPT ![current[c]].stack = st]
    BY <1>2 DEF StartSpan, Stack
  <1>4. Stack(c)' = st
    BY <1>1, <1>3, StackReplaced DEF Stack
  <1>5. st # <<>>
    BY <1>1, <1>2, LastAppended
  <1> QED
    BY <1>1, <1>2, <1>4, <1>5 DEF Path, Open

\* So does the first span of a thread that had no trace.
LEMMA NewEventPath ==
  ASSUME HeapOK, RefsOK, NEW c \in Ctx, NewEvent(c)
  PROVE  Path(c)' = Append(Path(c), NewSpan) /\ Open(c)'
  <1>1. CASE current[c] # None
    BY <1>1, StartSpanPath DEF NewEvent
  <1>2. CASE current[c] = None
    <2>1. Path(c)' = <<NewSpan>> /\ Open(c)'
      BY <1>2, StartTracePath DEF NewEvent
    <2>2. Append(<<>>, NewSpan) = <<NewSpan>>
      OBVIOUS
    <2> QED
      BY <1>2, <2>1, <2>2 DEF Path
  <1> QED
    BY <1>1, <1>2

\* finish_span takes the innermost span from the stack and no other.
LEMMA FinishSpanPath ==
  ASSUME HeapOK, RefsOK, NEW c \in Ctx, NEW s, NEW o, FinishSpan(c, s, o)
  PROVE  /\ current' = current
         /\ Path(c)' = IF o # "raised" /\ IsInnermost(c, s) THEN Front(Path(c)) ELSE Path(c)
  <1>1. current' = current
    BY DEF FinishSpan
  <1>2. CASE current[c] = None
    BY <1>1, <1>2 DEF Path, IsInnermost
  <1>3. CASE current[c] # None
    <2>1. current[c] \in 1..Len(traces)
      BY <1>3, StackOfType
    <2>2. CASE o # "raised" /\ IsInnermost(c, s)
      <3>1. PICK st : st = Front(Stack(c))
        OBVIOUS
      <3>2. traces' = [traces EXCEPT ![current[c]].stack = st]
        BY <2>2, <3>1 DEF FinishSpan, Pop, Stack
      <3>3. Stack(c)' = st
        BY <1>1, <2>1, <3>2, StackReplaced DEF Stack
      <3> QED
        BY <1>1, <1>3, <2>2, <3>1, <3>3 DEF Path
    <2>3. CASE ~(o # "raised" /\ IsInnermost(c, s))
      BY <1>1, <1>3, <2>3 DEF FinishSpan, Pop, Path, Stack
    <2> QED
      BY <2>2, <2>3
  <1> QED
    BY <1>1, <1>2, <1>3

\* finish_trace leaves no trace.
LEMMA FinishTracePath ==
  ASSUME HeapOK, RefsOK, NEW c \in Ctx, NEW s, NEW o, FinishTrace(c, s, o), o # "raised"
  PROVE  Path(c)' = <<>> /\ Open(c)'
  <1>1. current'[c] = None
    BY DEF FinishTrace, RefsOK
  <1> QED
    BY <1>1 DEF Path, Open

\* The innermost span of a stack is of the trace, and it is a root when it is alone.
LEMMA InnermostOf ==
  ASSUME HeapOK, RefsOK, PathsOK, NEW c \in Ctx, Path(c) # <<>>
  PROVE  /\ current[c] # None /\ Path(c) = Stack(c)
         /\ Last(Path(c)) \in 1..Len(spans) /\ IsInnermost(c, Last(Path(c)))
         /\ spans[Last(Path(c))].root <=> Front(Path(c)) = <<>>
  <1>1. current[c] # None /\ Path(c) = Stack(c)
    BY DEF Path
  <1>2. PICK st \in Seq(1..Len(spans)) : st = Stack(c) /\ st # <<>>
    BY <1>1, PathType
  <1>3. /\ Len(st) \in Nat \ {0} /\ Front(st) \in Seq(1..Len(spans)) /\ Len(Front(st)) = Len(st) - 1
        /\ Last(st) = st[Len(st)] /\ Last(st) \in 1..Len(spans)
    BY <1>2, SeqFront
  <1>4. current[c] \in 1..Len(traces)
    BY <1>1, StackOfType
  <1>5. PathOK(traces[current[c]].stack, traces[current[c]].id, spans)
    BY <1>4 DEF PathsOK
  <1>6. PathOK(st, traces[current[c]].id, spans)
    BY <1>2, <1>5 DEF Stack
  <1>7. spans[st[Len(st)]].trace = traces[current[c]].id /\ (spans[st[Len(st)]].root <=> (Len(st) = 1))
    <2>1. Len(st) \in 1..Len(st)
      BY <1>3
    <2> QED
      BY <1>6, <2>1 DEF PathOK
  <1>8. Len(st) = 1 <=> Front(st) = <<>>
    BY <1>3
  <1> QED
    BY <1>1, <1>2, <1>3, <1>7, <1>8 DEF IsInnermost, Stack

\* The innermost span is closed.
LEMMA ClosePath ==
  ASSUME HeapOK, RefsOK, PathsOK, NEW c \in Ctx, NEW o, o # "raised",
         Path(c) # <<>>, Close(c, Last(Path(c)), o)
  PROVE  Path(c)' = Front(Path(c)) /\ Open(c)'
  <1> DEFINE x == Last(Path(c))
  <1>1. IsInnermost(c, x) /\ (spans[x].root <=> Front(Path(c)) = <<>>)
    BY InnermostOf
  <1>2. CASE spans[x].root
    BY <1>1, <1>2, FinishTracePath DEF Close
  <1>3. CASE ~spans[x].root
    <2>1. Path(c)' = Front(Path(c))
      BY <1>1, <1>3, FinishSpanPath DEF Close
    <2> QED
      BY <1>1, <1>3, <2>1 DEF Open
  <1> QED
    BY <1>2, <1>3

\* A span is closed where there is no stack.
LEMMA CloseNothing ==
  ASSUME HeapOK, RefsOK, NEW c \in Ctx, NEW s, NEW o, Close(c, s, o), current[c] = None
  PROVE  Path(c)' = <<>> /\ Open(c)'
  <1>1. current'[c] = None
    BY DEF Close, FinishSpan, FinishTrace, RefsOK
  <1> QED
    BY <1>1 DEF Path, Open

-----------------------------------------------------------------------------
(* The stack of a tidy request *)

Base(c) == IF Traced(c) THEN <<job[c].root>> ELSE <<>>
Begun(c) == Base(c) \o job[c].open

AnsweredLate(c) == framework = "wsgi" /\ job[c].phase = "late"
Querying(c) == framework = "flask" /\ job[c].querying /\ dbspan[c] # None

\* Once a wsgi application has answered, its stack holds only the blocks that it
\* entered since, the innermost of those that it has open.
Matches(c) ==
  IF AnsweredLate(c) THEN \E pre \in Seq(Nat) : job[c].open = pre \o Path(c)
                     ELSE Path(c) = Begun(c) \o Query(c)

\* A thread has a trace only with a span on it, so that the span of a query is never
\* the last; and what a hook that raised has left in `state.span` is of an earlier request.
TidyOK(c) ==
  job[c].tidy =>
    /\ Open(c) /\ Matches(c)
    /\ job[c].phase = "flushing" => job[c].open = <<>>
    /\ Querying(c) => Begun(c) # <<>>
    /\ Live(c) /\ ~job[c].querying /\ dbspan[c] # None => made[dbspan[c]] # job[c].root

TidyInv == \A c \in Ctx : TidyOK(c)

\* Nothing is added by an empty sequence.
LEMMA ConcatNothing ==
  ASSUME NEW S, NEW s \in Seq(S)
  PROVE  s \o <<>> = s /\ <<>> \o s = s /\ (\A e \in S : Append(s, e) = s \o <<e>>)
  <1>1. s \o <<>> = s /\ <<>> \o s = s /\ <<>> \in Seq(S)
    OBVIOUS
  <1>2. ASSUME NEW e \in S PROVE Append(s, e) = s \o <<e>>
    <2>1. Append(<<>>, e) = <<e>>
      OBVIOUS
    <2>2. Append(s, e) = s \o Append(<<>>, e)
      BY <1>1, ConcatAppend
    <2> QED
      BY <2>1, <2>2
  <1> QED
    BY <1>1, <1>2

\* What the record of a thread holds.
LEMMA JobTypes ==
  ASSUME MiddlewareInv, NEW c \in Ctx
  PROVE  /\ Len(spans) \in Nat /\ 1..Len(spans) \subseteq Nat
         /\ job[c] \in JobSet(Len(spans)) /\ Fit(job[c])
         /\ job[c].open \in Seq(1..Len(spans)) /\ job[c].open \in Seq(Nat)
         /\ job[c].root \in 0..Len(spans) /\ dbspan[c] \in 0..Len(spans)
         /\ Path(c) \in Seq(1..Len(spans)) /\ Path(c) \in Seq(Nat)
  <1>1. Len(spans) \in Nat
    BY LenProperties DEF MiddlewareInv, HeapOK
  <1>2. job[c] \in JobSet(Len(spans)) /\ Fit(job[c]) /\ dbspan[c] \in 0..Len(spans)
    BY DEF MiddlewareInv, ShapeOK, JobsOK
  <1>3. 1..Len(spans) \subseteq Nat
    BY <1>1
  <1>4. \A s \in Seq(1..Len(spans)) : s \in Seq(Nat)
    BY <1>3, SeqMonotonic
  <1>5. Path(c) \in Seq(1..Len(spans))
    BY PathType DEF MiddlewareInv
  <1> QED
    BY <1>1, <1>2, <1>3, <1>4, <1>5 DEF JobSet

\* What a request has begun is a sequence, and without a query it is all there is.
LEMMA BegunType ==
  ASSUME MiddlewareInv, NEW c \in Ctx
  PROVE  /\ Base(c) \in Seq(Nat) /\ Begun(c) \in Seq(Nat)
         /\ Begun(c) \o <<>> = Begun(c)
         /\ ~Querying(c) => Query(c) = <<>>
         /\ Querying(c) => Query(c) = <<dbspan[c]>>
  <1>1. job[c].root \in Nat /\ job[c].open \in Seq(Nat)
    <2>1. \A k \in 0..Len(spans) : k \in Nat
      BY JobTypes
    <2> QED
      BY <2>1, JobTypes
  <1>2. Base(c) \in Seq(Nat)
    BY <1>1 DEF Base
  <1>3. Begun(c) \in Seq(Nat)
    BY <1>1, <1>2 DEF Begun
  <1>4. Begun(c) \o <<>> = Begun(c)
    BY <1>3, ConcatNothing
  <1> QED
    BY <1>2, <1>3, <1>4 DEF Query, Querying

\* What a request has begun is what it had begun, with one block more or less.
LEMMA BegunChanges ==
  ASSUME MiddlewareInv, NEW c \in Ctx, SamePhase(c)
  PROVE  /\ job'[c].open = job[c].open => Begun(c)' = Begun(c)
         /\ job'[c].open = Append(job[c].open, NewSpan) => Begun(c)' = Append(Begun(c), NewSpan)
         /\ job[c].open # <<>> /\ job'[c].open = Front(job[c].open) =>
              /\ Begun(c) # <<>> /\ Last(Begun(c)) = Last(job[c].open) /\ Begun(c)' = Front(Begun(c))
  <1>1. Base(c)' = Base(c)
    BY DEF Base, SamePhase, Traced
  <1>2. PICK b \in Seq(Nat) : b = Base(c)
    BY BegunType
  <1>3. PICK op \in Seq(Nat) : op = job[c].open
    BY JobTypes
  <1>4. Begun(c) = b \o op /\ Begun(c)' = b \o job'[c].open /\ Begun(c) \in Seq(Nat)
    BY <1>1, <1>2, <1>3, BegunType DEF Begun
  <1>5. NewSpan \in Nat
    BY JobTypes DEF NewSpan
  <1>6. Append(b \o op, NewSpan) = b \o Append(op, NewSpan)
    <2>1. PICK w \in Seq(Nat) : w = b \o op
      BY <1>4
    <2>2. Append(w, NewSpan) = b \o Append(op, NewSpan)
      BY <1>5, <2>1, ConcatAppend
    <2> QED
      BY <2>1, <2>2
  <1>7. op # <<>> => b \o op # <<>> /\ Last(b \o op) = Last(op) /\ Front(b \o op) = b \o Front(op)
    BY <1>2, <1>3, ConcatFront
  <1> QED
    BY <1>3, <1>4, <1>6, <1>7

\* All that the steps of a tidy request start from.
ReportInv == TreeInv /\ PathsOK /\ FrameInv /\ TidyInv

\* What the lemmas below need of the invariant.
LEMMA ReportParts ==
  ASSUME ReportInv, NEW c \in Ctx
  PROVE  /\ MiddlewareInv /\ HeapOK /\ RefsOK /\ PathsOK /\ FrameInv /\ TidyOK(c)
         /\ DOMAIN made = 1..Len(spans)
  BY LenProperties DEF ReportInv, TreeInv, MiddlewareInv, TidyInv, ShapeOK

\* A request begins tidy.
LEMMA ArrivesTidy ==
  ASSUME ReportInv, NEW c \in Ctx, Arrives(c)
  PROVE  TidyOK(c)'
  <1>1. MiddlewareInv /\ HeapOK /\ RefsOK /\ NewSpan \in Nat
    BY ReportParts, JobTypes DEF NewSpan
  <1>2. Path(c)' = <<NewSpan>> /\ Open(c)'
    BY <1>1, StartTracePath DEF Arrives
  <1>3. PICK n \in Nat : n = NewSpan
    BY <1>1
  <1>4. Begun(c)' = <<n>> \o <<>> /\ Query(c)' = <<>> /\ ~Querying(c)' /\ ~AnsweredLate(c)'
    BY <1>3 DEF Arrives, Begun, Base, Traced, Query, Querying, AnsweredLate
  <1>5. <<n>> \o <<>> = <<n>> /\ <<n>> \in Seq(Nat)
    BY <1>3, ConcatNothing
  <1>6. Matches(c)'
    BY <1>2, <1>3, <1>4, <1>5 DEF Matches
  <1>7. dbspan'[c] # None => made'[dbspan'[c]] # job'[c].root
    <2>1. dbspan[c] \in 0..Len(spans) /\ Len(spans) \in Nat /\ made \in Seq(0..Len(spans)) /\ Len(made) = Len(spans)
      BY <1>1, JobTypes DEF MiddlewareInv, ShapeOK
    <2>2. PICK s : s = dbspan[c]
      OBVIOUS
    <2>3. s \in 1..Len(spans) => made'[s] = made[s] /\ made[s] \in 0..Len(spans)
      <3>1. made \in Seq(0..(Len(spans) + 1)) /\ NewSpan \in 0..(Len(spans) + 1)
        <4>1. 0..Len(spans) \subseteq 0..(Len(spans) + 1)
          BY <2>1
        <4> QED
          BY <2>1, <4>1, SeqMonotonic DEF NewSpan
      <3>2. made' = Append(made, NewSpan)
        BY DEF Arrives
      <3> QED
        BY <2>1, <3>1, <3>2, SeqAppend, ElementOfSeq
    <2>4. s # None => s \in 1..Len(spans)
      BY <2>1, <2>2 DEF None
    <2>5. dbspan'[c] = s /\ job'[c].root = Len(spans) + 1
      BY <2>2 DEF Arrives, NewSpan
    <2> QED
      BY <2>1, <2>3, <2>4, <2>5
  <1>8. job'[c].phase = "app"
    BY DEF Arrives
  <1> QED
    BY <1>2, <1>4, <1>6, <1>7, <1>8 DEF TidyOK

\* A step that makes spans leaves those before it.
LEMMA MadeGrows ==
  ASSUME MiddlewareInv, NEW m \in 0..(Len(spans) + 1), made' = Append(made, m)
  PROVE  /\ \A s \in 1..Len(spans) : made'[s] = made[s] /\ made[s] \in 0..Len(spans)
         /\ made'[Len(spans) + 1] = m
  <1>1. Len(spans) \in Nat /\ made \in Seq(0..Len(spans)) /\ Len(made) = Len(spans)
    BY LenProperties DEF MiddlewareInv, ShapeOK, HeapOK
  <1>2. made \in Seq(0..(Len(spans) + 1))
    <2>1. 0..Len(spans) \subseteq 0..(Len(spans) + 1)
      BY <1>1
    <2> QED
      BY <1>1, <2>1, SeqMonotonic
  <1> QED
    BY <1>1, <1>2, SeqAppend, ElementOfSeq

\* A block is entered on the stack and among what is open.
LEMMA EntersTidy ==
  ASSUME ReportInv, NEW c \in Ctx, Enters(c), job'[c].tidy
  PROVE  TidyOK(c)'
  <1>1. MiddlewareInv /\ HeapOK /\ RefsOK /\ NewSpan \in Nat /\ job[c].tidy
    BY ReportParts, JobTypes DEF NewSpan, Enters
  <1>2. Path(c)' = Append(Path(c), NewSpan) /\ Open(c)'
    BY <1>1, NewEventPath DEF Enters
  <1>3. Matches(c) /\ framework' = framework /\ dbspan' = dbspan /\ SamePhase(c)
    BY <1>1, ReportParts DEF TidyOK, Enters
  <1>4. Begun(c)' = Append(Begun(c), NewSpan)
    BY <1>1, <1>3, BegunChanges DEF Enters
  <1>5. ~Querying(c) /\ ~Querying(c)' /\ Query(c)' = <<>>
    BY <1>3 DEF Enters, Querying, Query
  <1>6. ASSUME ~AnsweredLate(c) PROVE Matches(c)'
    <2>1. Path(c) = Begun(c)
      BY <1>1, <1>3, <1>5, <1>6, BegunType DEF Matches
    <2>2. PICK w \in Seq(Nat) : w = Append(Begun(c), NewSpan)
      BY <1>1, BegunType, SeqAppend
    <2>3. w \o <<>> = w
      BY <2>2, ConcatNothing
    <2>4. Path(c)' = Begun(c)' \o Query(c)'
      BY <1>2, <1>4, <1>5, <2>1, <2>2, <2>3
    <2>5. ~AnsweredLate(c)'
      BY <1>3, <1>6 DEF AnsweredLate, SamePhase
    <2> QED
      BY <2>4, <2>5 DEF Matches
  <1>7. ASSUME AnsweredLate(c) PROVE Matches(c)'
    <2>1. PICK pre \in Seq(Nat) : job[c].open = pre \o Path(c)
      BY <1>3, <1>7 DEF Matches
    <2>2. PICK p \in Seq(Nat) : p = Path(c)
      BY <1>1, JobTypes
    <2>3. PICK w \in Seq(Nat) : w = job[c].open
      BY <1>1, JobTypes
    <2>4. Append(w, NewSpan) = pre \o Append(p, NewSpan)
      BY <1>1, <2>1, <2>2, <2>3, ConcatAppend
    <2>5. job'[c].open = pre \o Path(c)'
      BY <1>2, <2>2, <2>3, <2>4 DEF Enters
    <2>6. AnsweredLate(c)'
      BY <1>3, <1>7 DEF AnsweredLate, SamePhase
    <2> QED
      BY <2>5, <2>6 DEF Matches
  <1>8. Matches(c)'
    BY <1>6, <1>7
  <1>9. Live(c)' /\ ~job'[c].querying /\ dbspan'[c] # None => made'[dbspan'[c]] # job'[c].root
    <2> SUFFICES ASSUME Live(c)', ~job'[c].querying, dbspan'[c] # None
                 PROVE  made'[dbspan'[c]] # job'[c].root
      OBVIOUS
    <2>1. PICK s : s = dbspan[c]
      OBVIOUS
    <2>2. s \in 1..Len(spans) /\ Owner(c) \in 0..(Len(spans) + 1)
      BY <1>1, <1>3, <2>1, JobTypes DEF None, Owner
    <2>3. made'[s] = made[s]
      BY <1>1, <2>2, MadeGrows DEF Enters
    <2>4. made[s] # job[c].root
      BY <1>1, <1>3, <2>1, ReportParts DEF TidyOK, Live, SamePhase, Enters
    <2> QED
      BY <1>3, <2>1, <2>3, <2>4 DEF SamePhase
  <1>10. job'[c].phase # "flushing"
    BY <1>3 DEF SamePhase, Enters
  <1> QED
    BY <1>2, <1>5, <1>8, <1>9, <1>10 DEF TidyOK

\* The span of a query goes on top.
LEMMA AsksTidy ==
  ASSUME ReportInv, NEW c \in Ctx, Asks(c) \/ AsksInVain(c), job'[c].tidy
  PROVE  TidyOK(c)'
  <1>1. MiddlewareInv /\ HeapOK /\ RefsOK /\ NewSpan \in Nat /\ NewSpan # None
    BY ReportParts, JobTypes DEF NewSpan, None
  <1> dbspan \in [Ctx -> 0..Len(spans)] /\ job[c].tidy
    BY <1>1 DEF Asks, AsksInVain, MiddlewareInv, ShapeOK
  <1>2. /\ Matches(c) /\ Open(c) /\ framework' = framework /\ framework = "flask" /\ SamePhase(c)
        /\ ~job[c].querying /\ Live(c)
    BY <1>1, ReportParts DEF TidyOK, Asks, AsksInVain
  <1>3. Begun(c)' = Begun(c) /\ ~AnsweredLate(c) /\ ~AnsweredLate(c)'
    BY <1>1, <1>2, BegunChanges DEF Asks, AsksInVain, AnsweredLate
  <1>4. Path(c) = Begun(c)
    BY <1>1, <1>2, <1>3, BegunType DEF Matches, Querying
  <1>5. job'[c].phase # "flushing"
    BY <1>2 DEF SamePhase, Live
  <1>6. CASE Asks(c)
    <2>1. Path(c)' = Append(Path(c), NewSpan) /\ Open(c)'
      BY <1>1, <1>6, StartSpanPath DEF Asks
    <2>2. Query(c)' = <<NewSpan>>
      BY <1>1, <1>2, <1>6 DEF Asks, Query, None
    <2>3. PICK b \in Seq(Nat) : b = Begun(c)
      BY <1>1, BegunType
    <2>4. Append(b, NewSpan) = b \o <<NewSpan>>
      BY <1>1, <2>3, ConcatNothing
    <2>5. Matches(c)'
      BY <1>3, <1>4, <2>1, <2>2, <2>3, <2>4 DEF Matches
    <2>6. Begun(c) # <<>>
      BY <1>2, <1>4, <1>6 DEF Asks, StartSpan, Open
    <2> QED
      BY <1>3, <1>5, <1>6, <2>1, <2>5, <2>6 DEF TidyOK, Asks
  <1>7. CASE AsksInVain(c)
    <2>1. Path(c)' = Path(c) /\ Open(c)'
      BY <1>2, <1>7 DEF AsksInVain, vars, Path, Open, Stack
    <2>2. Query(c)' = <<>> /\ dbspan'[c] = None
      BY <1>1, <1>7 DEF AsksInVain, Query
    <2>3. Begun(c) \o <<>> = Begun(c)
      BY <1>1, BegunType
    <2>4. Matches(c)'
      BY <1>3, <1>4, <2>1, <2>2, <2>3 DEF Matches
    <2> QED
      BY <1>5, <2>1, <2>2, <2>4 DEF TidyOK, Querying
  <1> QED
    BY <1>6, <1>7

\* A block is left by the stack as it is by the request.
LEMMA LeavesTidy ==
  ASSUME ReportInv, NEW c \in Ctx, NEW o \in Outcomes, Leaves(c, o), job'[c].tidy
  PROVE  TidyOK(c)'
  <1>1. MiddlewareInv /\ HeapOK /\ RefsOK /\ PathsOK /\ FrameInv
    BY ReportParts
  <1>2. /\ job[c].tidy /\ o = "sent" /\ job[c].open # <<>> /\ job'[c].open = Front(job[c].open)
        /\ job[c].phase # "flushing" /\ SamePhase(c) /\ ~job'[c].querying
        /\ Close(c, Last(job[c].open), o) /\ UNCHANGED <<framework, dbspan, made>>
    BY DEF Leaves
  <1>3. Open(c) /\ Matches(c) /\ TidyOK(c)
    BY <1>2, ReportParts DEF TidyOK
  <1>4. ~Querying(c) /\ ~Querying(c)' /\ Query(c)' = <<>>
    <2>1. framework = "django" => framework # "flask"
      OBVIOUS
    <2> QED
      BY <1>2, <2>1 DEF Leaves, Querying, Query
  <1>5. /\ Begun(c) # <<>> /\ Last(Begun(c)) = Last(job[c].open) /\ Begun(c)' = Front(Begun(c))
        /\ Begun(c) \in Seq(Nat)
    BY <1>1, <1>2, BegunChanges, BegunType
  <1>6. ASSUME ~AnsweredLate(c) PROVE Matches(c)' /\ Open(c)'
    <2>1. Path(c) = Begun(c)
      BY <1>1, <1>3, <1>4, <1>6, BegunType DEF Matches
    <2>2. Path(c)' = Front(Path(c)) /\ Open(c)'
      BY <1>1, <1>2, <1>5, <2>1, ClosePath
    <2>3. PICK w \in Seq(Nat) : w = Front(Begun(c))
      BY <1>5, SeqFront
    <2>4. w \o <<>> = w
      BY ConcatNothing
    <2>5. Path(c)' = Begun(c)' \o Query(c)'
      BY <1>4, <1>5, <2>1, <2>2, <2>3, <2>4
    <2>6. ~AnsweredLate(c)'
      BY <1>2, <1>6 DEF AnsweredLate, SamePhase
    <2> QED
      BY <2>2, <2>5, <2>6 DEF Matches
  <1>7. ASSUME AnsweredLate(c) PROVE Matches(c)' /\ Open(c)'
    <2>1. PICK pre \in Seq(Nat) : job[c].open = pre \o Path(c)
      BY <1>3, <1>7 DEF Matches
    <2>2. PICK p \in Seq(Nat) : p = Path(c)
      BY <1>1, JobTypes
    <2>3. PICK w \in Seq(Nat) : w = job[c].open
      BY <1>1, JobTypes
    <2>4. AnsweredLate(c)'
      BY <1>2, <1>7 DEF AnsweredLate, SamePhase
    <2>5. CASE p = <<>>
      <3>1. current[c] = None
        BY <1>3, <2>2, <2>5 DEF Open
      <3>2. Path(c)' = <<>> /\ Open(c)'
        BY <1>1, <1>2, <3>1, CloseNothing
      <3>3. PICK f \in Seq(Nat) : f = Front(w)
        BY <1>2, <2>3, SeqFront
      <3>4. f = f \o <<>>
        BY <3>3, ConcatNothing
      <3> QED
        BY <1>2, <2>3, <2>4, <3>2, <3>3, <3>4 DEF Matches
    <2>6. CASE p # <<>>
      <3>1. Last(pre \o p) = Last(p) /\ Front(pre \o p) = pre \o Front(p)
        BY <2>6, ConcatFront
      <3>2. Last(job[c].open) = Last(Path(c)) /\ job'[c].open = pre \o Front(Path(c))
        BY <1>2, <2>1, <2>2, <3>1
      <3>3. Path(c)' = Front(Path(c)) /\ Open(c)'
        BY <1>1, <1>2, <2>2, <2>6, <3>2, ClosePath
      <3> QED
        BY <2>1, <2>4, <3>2, <3>3 DEF Matches
    <2> QED
      BY <2>5, <2>6
  <1>8. Live(c)' /\ ~job'[c].querying /\ dbspan'[c] # None => made'[dbspan'[c]] # job'[c].root
    BY <1>1, <1>2, <1>3 DEF TidyOK, FrameInv, SamePhase, Live, Leaves
  <1> QED
    BY <1>2, <1>4, <1>6, <1>7, <1>8 DEF TidyOK, SamePhase

\* The span of a query leaves the stack, and one that a hook left behind is on no stack.
LEMMA RepliesTidy ==
  ASSUME ReportInv, NEW c \in Ctx, NEW o \in Outcomes, Replies(c, o), job'[c].tidy
  PROVE  TidyOK(c)'
  <1>1. MiddlewareInv /\ HeapOK /\ RefsOK /\ PathsOK /\ dbspan \in [Ctx -> 0..Len(spans)]
    BY ReportParts DEF MiddlewareInv, ShapeOK
  <1>2. /\ job[c].tidy /\ o = "sent" /\ framework = "flask" /\ framework' = framework /\ Live(c)
        /\ SamePhase(c) /\ job'[c].open = job[c].open /\ ~job'[c].querying
    BY DEF Replies
  <1>3. Open(c) /\ Matches(c) /\ TidyOK(c)
    BY <1>2, ReportParts DEF TidyOK
  <1>4. ~Querying(c)' /\ Query(c)' = <<>> /\ dbspan'[c] = None /\ ~AnsweredLate(c) /\ ~AnsweredLate(c)'
    BY <1>1, <1>2 DEF Replies, Querying, Query, AnsweredLate
  <1>5. Begun(c)' = Begun(c) /\ Begun(c) \in Seq(Nat) /\ Begun(c) \o <<>> = Begun(c)
    BY <1>1, <1>2, BegunChanges, BegunType
  <1>6. Path(c)' = Begun(c) /\ Open(c)'
    <2>1. CASE dbspan[c] = None
      <3>1. Path(c) = Begun(c)
        BY <1>1, <1>3, <1>4, <1>5, <2>1, BegunType DEF Matches, Querying
      <3>2. UNCHANGED <<current, traces>>
        BY <2>1 DEF Replies
      <3> QED
        BY <1>3, <3>1, <3>2 DEF Path, Open, Stack
    <2>2. CASE dbspan[c] # None /\ job[c].querying
      <3>1. Path(c) = Begun(c) \o <<dbspan[c]>> /\ Begun(c) # <<>>
        BY <1>1, <1>2, <1>3, <1>4, <2>2, BegunType DEF Matches, Querying, TidyOK
      <3>2. PICK b \in Seq(Nat), d \in Nat : b = Begun(c) /\ d = dbspan[c]
        <4>1. \A k \in 0..Len(spans) : k \in Nat
          BY <1>1, JobTypes
        <4> QED
          BY <1>1, <1>5, <4>1
      <3>3. PICK w : w = Append(b, d) /\ w # <<>> /\ Last(w) = d /\ Front(w) = b
        <4>1. Append(b, d) # <<>> /\ Last(Append(b, d)) = d
          BY LastAppended
        <4>2. Front(Append(b, d)) = b
          BY FrontAppended
        <4> QED
          BY <4>1, <4>2
      <3>4. Path(c) = w
        BY <3>1, <3>2, <3>3, ConcatNothing
      <3>5. IsInnermost(c, dbspan[c]) /\ current[c] # None
        BY <1>1, <3>2, <3>3, <3>4, InnermostOf
      <3>6. FinishSpan(c, dbspan[c], o)
        BY <2>2 DEF Replies
      <3>7. current' = current /\ Path(c)' = Front(Path(c))
        BY <1>1, <1>2, <3>5, <3>6, FinishSpanPath
      <3> QED
        BY <3>1, <3>2, <3>3, <3>4, <3>7 DEF Open
    <2>3. CASE dbspan[c] # None /\ ~job[c].querying
      <3>1. Path(c) = Begun(c)
        BY <1>1, <1>3, <1>4, <1>5, <2>3, BegunType DEF Matches, Querying
      <3>2. made[dbspan[c]] # job[c].root
        BY <1>2, <1>3, <2>3 DEF TidyOK
      <3>3. ~IsInnermost(c, dbspan[c])
        <4> SUFFICES ASSUME IsInnermost(c, dbspan[c]) PROVE FALSE
          OBVIOUS
        <4>1. current[c] # None /\ Stack(c) # <<>> /\ Last(Stack(c)) = dbspan[c]
          BY DEF IsInnermost
        <4>2. PICK st \in Seq(1..Len(spans)) : st = Stack(c)
          BY <1>1, <4>1, StackOfType
        <4>3. Len(st) \in 1..Len(st) /\ Last(st) = st[Len(st)]
          BY <4>1, <4>2, FrontRemoves
        <4>4. \A i \in 1..Len(st) : made[st[i]] = job[c].root
          BY <1>2, <4>1, <4>2 DEF ReportInv, TreeInv, OwnedInv, StackOwned
        <4> QED
          BY <3>2, <4>1, <4>2, <4>3, <4>4
      <3>4. current' = current /\ Path(c)' = Path(c)
        BY <1>1, <2>3, <3>3, FinishSpanPath DEF Replies
      <3> QED
        BY <1>3, <3>1, <3>4 DEF Open
    <2> QED
      BY <2>1, <2>2, <2>3
  <1>7. Matches(c)'
    BY <1>4, <1>5, <1>6 DEF Matches
  <1> QED
    BY <1>2, <1>4, <1>6, <1>7 DEF TidyOK, SamePhase, Live

\* When a request has ended its thread has nothing.
LEMMA EndsTidy ==
  ASSUME ReportInv, NEW c \in Ctx, NEW o \in Outcomes, Ends(c, o), job'[c].tidy
  PROVE  TidyOK(c)'
  <1>1. MiddlewareInv /\ HeapOK /\ RefsOK /\ FrameInv
    BY ReportParts
  <1>2. /\ o = "sent" /\ ~Traced(c)' /\ UNCHANGED <<framework, dbspan>> /\ framework # "flask"
        /\ framework # "wsgi" => job'[c].open = <<>>
        /\ framework = "wsgi" => Live(c)'
        /\ FinishTrace(c, job[c].root, o)
    BY DEF Ends, KeepsOrDrops
  <1>3. Path(c)' = <<>> /\ Open(c)'
    BY <1>1, <1>2, FinishTracePath
  <1>4. Query(c)' = <<>> /\ ~Querying(c)' /\ dbspan'[c] = None
    BY <1>1, <1>2 DEF Query, Querying, FrameInv
  <1>5. CASE framework = "wsgi"
    <2>1. AnsweredLate(c)'
      BY <1>2, <1>5 DEF AnsweredLate, Live, Traced
    <2>2. job'[c].open = job[c].open /\ job'[c].phase # "flushing"
      BY <1>2, <1>5 DEF Ends, KeepsOrDrops, Live
    <2>3. PICK w \in Seq(Nat) : w = job[c].open
      BY <1>1, JobTypes
    <2>4. w = w \o <<>>
      BY ConcatNothing
    <2>5. Matches(c)'
      BY <1>3, <2>1, <2>2, <2>3, <2>4 DEF Matches
    <2> QED
      BY <1>3, <1>4, <2>2, <2>5 DEF TidyOK
  <1>6. CASE framework # "wsgi"
    <2>1. Begun(c)' = <<>> /\ <<>> \o <<>> = <<>>
      <3>1. <<>> \o <<>> = <<>>
        BY ConcatNothing
      <3> QED
        BY <1>2, <1>6, <3>1 DEF Begun, Base
    <2>2. Matches(c)'
      BY <1>2, <1>3, <1>4, <1>6, <2>1 DEF Matches, AnsweredLate
    <2> QED
      BY <1>2, <1>3, <1>4, <1>6, <2>2 DEF TidyOK
  <1> QED
    BY <1>5, <1>6

\* The active span that the teardown of flask finishes is the root of a tidy request.
LEMMA TeardownIsRoot ==
  ASSUME ReportInv, NEW c \in Ctx, job[c].tidy, job[c].phase = "app", framework = "flask",
         ~job[c].querying, job[c].open = <<>>
  PROVE  /\ Path(c) = <<job[c].root>> /\ Path(c) # <<>>
         /\ Last(Path(c)) = job[c].root /\ Front(Path(c)) = <<>>
         /\ ActiveSpan(c) = job[c].root /\ job[c].root \in 1..Len(spans)
  <1>1. MiddlewareInv /\ HeapOK /\ RefsOK /\ PathsOK /\ Matches(c)
    BY ReportParts DEF TidyOK
  <1>2. PICK r \in Nat : r = job[c].root
    <2>1. \A k \in 0..Len(spans) : k \in Nat
      BY <1>1, JobTypes
    <2> QED
      BY <1>1, <2>1, JobTypes
  <1>3. <<r>> \in Seq(Nat) /\ <<r>> \o <<>> = <<r>> /\ <<>> \in Seq(Nat) /\ Append(<<>>, r) = <<r>>
    BY ConcatNothing
  <1>4. Path(c) = <<r>>
    <2>1. Begun(c) = <<r>> /\ Query(c) = <<>> /\ ~AnsweredLate(c)
      BY <1>2, <1>3 DEF Begun, Base, Traced, Query, AnsweredLate
    <2> QED
      BY <1>1, <1>3, <2>1 DEF Matches
  <1>5. <<r>> # <<>> /\ Last(<<r>>) = r /\ Front(<<r>>) = <<>>
    <2>1. PICK e \in Seq(Nat) : e = <<>>
      BY <1>3
    <2>2. Append(e, r) # <<>> /\ Last(Append(e, r)) = r
      BY LastAppended
    <2>3. Front(Append(e, r)) = e
      BY FrontAppended
    <2> QED
      BY <1>3, <2>1, <2>2, <2>3
  <1>6. current[c] # None /\ Path(c) = Stack(c) /\ Last(Path(c)) \in 1..Len(spans)
    BY <1>1, <1>4, <1>5, InnermostOf
  <1>7. ActiveSpan(c) = r
    BY <1>4, <1>5, <1>6 DEF ActiveSpan
  <1> QED
    BY <1>2, <1>4, <1>5, <1>6, <1>7

\* The teardown of flask ends the trace of a tidy request.
LEMMA TearsDownTidy ==
  ASSUME ReportInv, NEW c \in Ctx, NEW o \in Outcomes, TearsDown(c, o), job'[c].tidy
  PROVE  TidyOK(c)'
  <1>1. MiddlewareInv /\ HeapOK /\ RefsOK /\ PathsOK /\ FrameInv
    BY ReportParts
  <1>2. /\ job[c].tidy /\ o = "sent" /\ job[c].open = <<>> /\ framework = "flask" /\ job[c].phase = "app"
        /\ ~job[c].querying /\ UNCHANGED <<framework, dbspan, made>>
        /\ job'[c].phase = "late" /\ job'[c].open = <<>> /\ ~job'[c].querying /\ job'[c].root = job[c].root
    BY DEF TearsDown, KeepsOrDrops
  <1>3. /\ Path(c) # <<>> /\ Last(Path(c)) = job[c].root /\ Front(Path(c)) = <<>>
        /\ ActiveSpan(c) = job[c].root /\ job[c].root # None
    <2>1. job[c].root \in 1..Len(spans) => job[c].root # None
      BY DEF None
    <2> QED
      BY <1>2, <2>1, TeardownIsRoot
  <1>4. Path(c)' = <<>> /\ Open(c)'
    <2>1. Close(c, Last(Path(c)), o) /\ o # "raised"
      BY <1>2, <1>3 DEF TearsDown
    <2> QED
      BY <1>1, <1>3, <2>1, ClosePath
  <1>5. Begun(c)' = <<>> /\ Query(c)' = <<>> /\ ~Querying(c)' /\ ~AnsweredLate(c)' /\ <<>> \o <<>> = <<>>
    <2>1. <<>> \o <<>> = <<>>
      BY ConcatNothing
    <2> QED
      BY <1>2, <2>1 DEF Begun, Base, Traced, Query, Querying, AnsweredLate
  <1>6. Matches(c)'
    BY <1>4, <1>5 DEF Matches
  <1>7. Live(c)' /\ ~job'[c].querying /\ dbspan'[c] # None => made'[dbspan'[c]] # job'[c].root
    <2>1. TidyOK(c) /\ Live(c)
      BY <1>2, ReportParts DEF Live
    <2> QED
      BY <1>2, <2>1 DEF TidyOK
  <1> QED
    BY <1>2, <1>4, <1>5, <1>6, <1>7 DEF TidyOK

\* A thread that goes on without a call of the tracer, or that drops what it has.
LEMMA MovesTidy ==
  ASSUME ReportInv, NEW c \in Ctx, Moves(c) \/ Refuses(c), job'[c].tidy
  PROVE  TidyOK(c)'
  <1>1. MiddlewareInv /\ HeapOK /\ RefsOK /\ FrameInv
    BY ReportParts
  <1>2. <<>> \o <<>> = <<>>
    BY ConcatNothing
  <1>3. CASE Refuses(c)
    <2>1. Path(c)' = <<>> /\ Open(c)'
      BY <1>1, <1>3 DEF Refuses, RefsOK, Path, Open
    <2>2. /\ framework = "lambda" /\ framework' = framework /\ framework # "flask" /\ framework # "wsgi"
          /\ job'[c].phase = "flushing" /\ job'[c].open = <<>>
      BY <1>3 DEF Refuses
    <2>3. Matches(c)' /\ ~Querying(c)' /\ ~Live(c)'
      BY <1>2, <2>1, <2>2 DEF Matches, AnsweredLate, Begun, Base, Traced, Query, Querying, Live
    <2> QED
      BY <2>1, <2>2, <2>3 DEF TidyOK
  <1>4. CASE Moves(c)
    <2>1. /\ TidyOK(c) /\ Open(c) /\ Matches(c) /\ UNCHANGED <<framework, dbspan, made>>
          /\ UNCHANGED <<current, traces>> /\ ~job[c].querying /\ ~job'[c].querying
          /\ job'[c].root = job[c].root
      BY <1>4, ReportParts DEF TidyOK, Moves, KeepsOrDrops, vars
    <2>2. Path(c)' = Path(c) /\ Open(c)' /\ Query(c) = <<>> /\ Query(c)' = <<>> /\ ~Querying(c)'
      BY <2>1 DEF Path, Open, Stack, Query, Querying
    <2>3. CASE job[c].phase = "app" /\ job'[c].phase = "streaming"
      <3>1. Begun(c)' = Begun(c) /\ ~AnsweredLate(c) /\ ~AnsweredLate(c)'
        BY <1>4, <2>1, <2>3 DEF Begun, Base, Traced, AnsweredLate, Moves, KeepsOrDrops
      <3>2. Matches(c)'
        BY <2>1, <2>2, <3>1 DEF Matches
      <3>3. dbspan'[c] # None => made'[dbspan'[c]] # job'[c].root
        <4>1. Live(c) /\ job[c].tidy
          BY <1>4, <2>3 DEF Live, Moves
        <4> QED
          BY <2>1, <4>1 DEF TidyOK
      <3>4. job'[c].phase # "flushing"
        BY <2>3
      <3> QED
        BY <2>2, <3>2, <3>3, <3>4 DEF TidyOK
    <2>4. CASE job'[c].phase = "idle"
      <3>1. job[c].phase \in {"late", "flushing"} /\ job[c].open = <<>>
        BY <1>4, <2>1, <2>4 DEF Moves, TidyOK
      <3>2. Begun(c) = <<>> /\ Begun(c)' = <<>> /\ ~AnsweredLate(c)'
        BY <1>2, <1>4, <2>4, <3>1 DEF Begun, Base, Traced, AnsweredLate, Moves, KeepsOrDrops
      <3>3. Path(c) = <<>>
        <4>1. CASE AnsweredLate(c)
          <5>1. PICK pre \in Seq(Nat), p \in Seq(Nat) : p = Path(c) /\ pre \o p = <<>>
            BY <1>1, <2>1, <3>1, <4>1, JobTypes DEF Matches
          <5> QED
            BY <5>1, ConcatEmpty
        <4>2. CASE ~AnsweredLate(c)
          BY <1>2, <2>1, <2>2, <3>2, <4>2 DEF Matches
        <4> QED
          BY <4>1, <4>2
      <3>4. Matches(c)'
        BY <1>2, <2>2, <3>2, <3>3 DEF Matches
      <3> QED
        BY <2>2, <2>4, <3>4 DEF TidyOK, Live
    <2> QED
      BY <1>4, <2>3, <2>4 DEF Moves
  <1> QED
    BY <1>3, <1>4

\* What was made stays made.
LEMMA MadeKept ==
  ASSUME MiddlewareInv, NEW c \in Ctx, Effect(c)
  PROVE  \A s \in 1..Len(spans) : made'[s] = made[s]
  <1>1. NewSpan \in 0..(Len(spans) + 1) /\ Owner(c) \in 0..(Len(spans) + 1) /\ NewSpan = Len(spans) + 1
    BY JobTypes DEF NewSpan, Owner, None
  <1>2. \/ made' = made
        \/ \E m \in 0..(Len(spans) + 1) : made' = Append(made, m)
    BY <1>1 DEF Effect, Arrives, Enters, Asks, AsksInVain, Leaves, Replies, Ends, TearsDown, Moves, Refuses
  <1> QED
    BY <1>2, MadeGrows

\* The stacks of the other threads are theirs.
LEMMA OthersTidy ==
  ASSUME ReportInv, NEW c \in Ctx, Effect(c), OthersKept(c), NEW d \in Ctx \ {c}, job'[d] = job[d]
  PROVE  TidyOK(d)'
  <1>1. MiddlewareInv /\ TidyOK(d)
    BY ReportParts
  <1>2. framework' = framework /\ dbspan'[d] = dbspan[d]
    BY <1>1, EffectsApart
  <1>3. Path(d)' = Path(d) /\ (Open(d) => Open(d)')
    BY DEF Path, Open, Stack, OthersKept
  <1>4. dbspan[d] # None => made'[dbspan[d]] = made[dbspan[d]]
    <2>1. dbspan[d] # None => dbspan[d] \in 1..Len(spans)
      BY <1>1, JobTypes DEF None
    <2> QED
      BY <1>1, <2>1, MadeKept
  <1>5. Matches(d) => Matches(d)'
    BY <1>2, <1>3 DEF Matches, AnsweredLate, Begun, Base, Traced, Query
  <1>6. Querying(d)' = Querying(d) /\ Begun(d)' = Begun(d) /\ Live(d)' = Live(d)
    BY <1>2 DEF Querying, Begun, Base, Traced, Live
  <1> QED
    BY <1>1, <1>2, <1>3, <1>4, <1>5, <1>6 DEF TidyOK

\* What a step of a thread is for the proofs below.
LEMMA ReportStep ==
  ASSUME ReportInv, NEW c \in Ctx, Step(c)
  PROVE  Effect(c) /\ OthersKept(c) /\ \A d \in Ctx \ {c} : job'[d] = job[d]
  <1>1. MiddlewareInv /\ FrameInv /\ HeapOK /\ RefsOK /\ PrivateInv
    BY ReportParts DEF ReportInv, TreeInv
  <1>2. OthersKept(c)
    <2>1. CASE Call(c)
      BY <1>1, <2>1, StepKeeps DEF Acts, MiddlewareInv, JobsOK
    <2>2. CASE UNCHANGED vars
      BY <2>2 DEF OthersKept, vars
    <2> QED
      BY <1>1, <2>1, <2>2, StepIsCall
  <1> QED
    BY <1>1, <1>2, StepEffects, JobsKept

\* Every step keeps the tidy requests as they should be.
LEMMA TidyStep ==
  ASSUME ReportInv, NEW c \in Ctx, Step(c)
  PROVE  TidyInv'
  <1>1. Effect(c) /\ OthersKept(c) /\ \A d \in Ctx \ {c} : job'[d] = job[d]
    BY ReportStep
  <1>2. ASSUME job'[c].tidy PROVE TidyOK(c)'
    <2>1. ASSUME NEW o \in Outcomes, Leaves(c, o) \/ Replies(c, o) \/ Ends(c, o) \/ TearsDown(c, o)
          PROVE  TidyOK(c)'
      BY <1>2, <2>1, LeavesTidy, RepliesTidy, EndsTidy, TearsDownTidy
    <2> QED
      BY <1>1, <1>2, <2>1, ArrivesTidy, EntersTidy, AsksTidy, MovesTidy DEF Effect
  <1>3. ~job'[c].tidy => TidyOK(c)'
    BY DEF TidyOK
  <1>4. \A d \in Ctx \ {c} : TidyOK(d)'
    BY <1>1, OthersTidy
  <1> QED
    BY <1>2, <1>3, <1>4 DEF TidyInv

\* All of the invariant is kept.
LEMMA ReportInvStep == ReportInv /\ [MiddlewareNext]_mvars => ReportInv'
  <1> SUFFICES ASSUME ReportInv, [MiddlewareNext]_mvars PROVE ReportInv'
    OBVIOUS
  <1>1. TreeInv /\ MiddlewareInv /\ HeapOK /\ RefsOK /\ PrivateInv /\ PathsOK /\ FrameInv
    BY DEF ReportInv, TreeInv, MiddlewareInv
  <1>2. [Next]_vars
    BY <1>1, StepIsTracerStep
  <1>3. TreeInv'
    BY <1>1, <1>2, MiddlewareInvStep, PrivateStep, OwnedStep, MiddlewareAssumption DEF TreeInv
  <1>4. PathsOK'
    BY <1>1, <1>2, PathStep
  <1>5. ASSUME NEW c \in Ctx, Step(c) PROVE FrameInv' /\ TidyInv'
    BY <1>1, <1>5, ReportStep, FrameStep, TidyStep
  <1>6. ASSUME UNCHANGED mvars PROVE FrameInv' /\ TidyInv'
    <2>1. UNCHANGED <<current, traces, framework, job, dbspan, made>>
      BY <1>6 DEF mvars
    <2>2. FrameInv'
      BY <1>1, <2>1 DEF FrameInv
    <2>3. \A c \in Ctx : TidyOK(c)'
      BY <2>1 DEF ReportInv, TidyInv, TidyOK, Open, Path, Stack, Matches, AnsweredLate, Begun, Base, Traced, Query,
         Querying, Live
    <2> QED
      BY <2>2, <2>3 DEF TidyInv
  <1> QED
    BY <1>3, <1>4, <1>5, <1>6 DEF ReportInv, MiddlewareNext

\* No request has begun.
LEMMA ReportInit == MiddlewareInit => ReportInv
  <1> SUFFICES ASSUME MiddlewareInit PROVE ReportInv
    OBVIOUS
  <1>1. current = [c \in Ctx |-> None] /\ spans = <<>> /\ traces = <<>> /\ made = <<>>
    BY DEF MiddlewareInit, Init
  <1>2. TreeInv
    <2>1. MiddlewareInv
      BY ShapeInit
    <2>2. PrivateInv /\ OwnedInv
      BY <1>1 DEF PrivateInv, OwnedInv, OwnTree, StackOwned
    <2> QED
      BY <2>1, <2>2 DEF TreeInv
  <1>3. PathsOK
    BY <1>1 DEF PathsOK
  <1>4. /\ dbspan = [c \in Ctx |-> None]
        /\ \A c \in Ctx : job[c].phase = "idle" /\ job[c].open = <<>> /\ ~job[c].querying
    BY DEF MiddlewareInit, Job
  <1>5. FrameInv
    BY <1>4 DEF FrameInv
  <1>6. TidyInv
    <2> SUFFICES ASSUME NEW c \in Ctx PROVE TidyOK(c)
      BY DEF TidyInv
    <2>1. <<>> \o <<>> = <<>>
      BY ConcatNothing
    <2>2. Path(c) = <<>> /\ Open(c)
      BY <1>1 DEF Path, Open
    <2>3. Begun(c) = <<>> /\ Query(c) = <<>> /\ ~Querying(c) /\ ~AnsweredLate(c) /\ ~Live(c)
      BY <1>4, <2>1 DEF Begun, Base, Traced, Query, Querying, AnsweredLate, Live
    <2>4. Matches(c)
      BY <2>1, <2>2, <2>3 DEF Matches
    <2> QED
      BY <1>4, <2>2, <2>3, <2>4 DEF TidyOK
  <1> QED
    BY <1>2, <1>3, <1>5, <1>6 DEF ReportInv

\* The invariant holds at all times.
LEMMA ReportInvCorrect == MiddlewareSpec => []ReportInv
  BY ReportInit, ReportInvStep, PTL DEF MiddlewareSpec

\* The stack of a tidy request is its root and what its code has begun, under every
\* framework and for every number of threads, requests, blocks and queries; a thread
\* whose tidy request is over has no trace.
THEOREM StackIsOpenCorrect == MiddlewareSpec => []StackIsOpen
  <1>1. ReportInv => StackIsOpen
    <2> SUFFICES ASSUME ReportInv, NEW c \in Ctx, job[c].tidy, ~AnsweredLate(c)
                 PROVE  IF Expected(c) = <<>> THEN current[c] = None
                        ELSE current[c] # None /\ Stack(c) = Expected(c)
      BY DEF StackIsOpen, AnsweredLate
    <2>1. Open(c) /\ Path(c) = Expected(c)
      BY ReportParts DEF TidyOK, Matches, Begun, Base, Expected
    <2> QED
      BY <2>1 DEF Open, Path
  <1> QED
    BY <1>1, ReportInvCorrect, PTL

-----------------------------------------------------------------------------
(* Whose span is whose *)

\* What a thread has open it opened, one after another, for the request it works on; the
\* span of a query is none of them, and of some request; a root is its own.
BookOK(j, db, m) ==
  LET own == IF j.phase = "idle" THEN None ELSE j.root IN
  /\ \A i \in 1..Len(j.open) : m[j.open[i]] = own /\ own < j.open[i]
  /\ \A i, k \in 1..Len(j.open) : i < k => j.open[i] < j.open[k]
  /\ db # None => m[db] # None /\ m[db] # db /\ \A i \in 1..Len(j.open) : j.open[i] # db
  /\ j.root # None => m[j.root] = j.root

\* Two threads work on two requests, and no query of the one is of the other.
ApartOK(j, db, k, m) ==
  /\ db # None => m[db] # k.root
  /\ j.root # None => j.root # k.root

RootsOK(m) == \A s \in 1..Len(m) : m[s] # None => m[s] <= s /\ m[m[s]] = m[s]

BooksInv ==
  /\ RootsOK(made)
  /\ \A c \in Ctx : BookOK(job[c], dbspan[c], made)
  /\ \A c, d \in Ctx : c # d => ApartOK(job[c], dbspan[c], job[d], made)

\* A step that makes no span takes at most from what its thread has.
Shrinks(c) ==
  /\ made' = made
  /\ job'[c].root \in {None, job[c].root} /\ dbspan'[c] \in {None, dbspan[c]}
  /\ \/ job'[c].open = <<>>
     \/ Owner(c)' = Owner(c) /\ job'[c].open = job[c].open
     \/ Owner(c)' = Owner(c) /\ job[c].open # <<>> /\ job'[c].open = Front(job[c].open)

\* A step makes a span or takes.
LEMMA MakesOrShrinks ==
  ASSUME MiddlewareInv, NEW c \in Ctx, Effect(c)
  PROVE  Arrives(c) \/ Enters(c) \/ Asks(c) \/ Shrinks(c)
  <1>1. dbspan \in [Ctx -> 0..Len(spans)]
    BY DEF MiddlewareInv, ShapeOK
  <1>2. ASSUME SamePhase(c) PROVE job'[c].root = job[c].root /\ Owner(c)' = Owner(c)
    BY <1>2 DEF SamePhase, Owner
  <1>3. AsksInVain(c) => Shrinks(c)
    BY <1>1, <1>2 DEF AsksInVain, Shrinks
  <1>4. ASSUME NEW o \in Outcomes, Leaves(c, o) \/ Replies(c, o) PROVE Shrinks(c)
    BY <1>1, <1>2, <1>4 DEF Leaves, Replies, Shrinks
  <1>5. ASSUME KeepsOrDrops(c), job[c].phase # "idle", made' = made, dbspan' = dbspan
        PROVE  Shrinks(c)
    BY <1>5 DEF KeepsOrDrops, Shrinks, Owner
  <1>6. ASSUME NEW o \in Outcomes, Ends(c, o) \/ TearsDown(c, o) PROVE Shrinks(c)
    BY <1>5, <1>6 DEF Ends, TearsDown, Live
  <1>7. Moves(c) => Shrinks(c)
    <2>1. CASE job'[c].phase = "idle"
      BY <2>1 DEF Moves, KeepsOrDrops, Shrinks
    <2>2. CASE job'[c].phase # "idle"
      BY <1>5, <2>2 DEF Moves
    <2> QED
      BY <2>1, <2>2
  <1>8. Refuses(c) => Shrinks(c)
    BY DEF Refuses, Shrinks
  <1> QED
    BY <1>3, <1>4, <1>6, <1>7, <1>8 DEF Effect

\* The books of a thread stay as they are while spans are made.
LEMMA BookKept ==
  ASSUME MiddlewareInv, NEW c \in Ctx, NEW m, \A s \in 1..Len(spans) : m[s] = made[s],
         BookOK(job[c], dbspan[c], made)
  PROVE  BookOK(job[c], dbspan[c], m)
  <1>1. job[c].open \in Seq(1..Len(spans)) /\ job[c].root \in 0..Len(spans) /\ dbspan[c] \in 0..Len(spans)
        /\ Len(spans) \in Nat
    BY JobTypes
  <1>2. \A i \in 1..Len(job[c].open) : job[c].open[i] \in 1..Len(spans)
    BY <1>1, ElementOfSeq
  <1>3. \A s \in 0..Len(spans) : s # None => s \in 1..Len(spans)
    BY <1>1 DEF None
  <1> QED
    BY <1>1, <1>2, <1>3 DEF BookOK

\* So do those of two threads.
LEMMA ApartKept ==
  ASSUME MiddlewareInv, NEW c \in Ctx, NEW k, NEW m, \A s \in 1..Len(spans) : m[s] = made[s],
         ApartOK(job[c], dbspan[c], k, made)
  PROVE  ApartOK(job[c], dbspan[c], k, m)
  <1>1. dbspan[c] \in 0..Len(spans) /\ Len(spans) \in Nat
    BY JobTypes
  <1>2. dbspan[c] # None => dbspan[c] \in 1..Len(spans)
    BY <1>1 DEF None
  <1> QED
    BY <1>2 DEF ApartOK

\* A new span is of a request that has a root, or of none, or its own root.
LEMMA RootsGrow ==
  ASSUME MiddlewareInv, RootsOK(made), NEW m \in 0..(Len(spans) + 1), made' = Append(made, m),
         m \in 1..Len(spans) => made[m] = m
  PROVE  RootsOK(made')
  <1>1. Len(spans) \in Nat /\ made \in Seq(0..Len(spans)) /\ Len(made) = Len(spans)
    BY LenProperties DEF MiddlewareInv, ShapeOK, HeapOK
  <1>2. /\ \A s \in 1..Len(spans) : made'[s] = made[s] /\ made[s] \in 0..Len(spans)
        /\ made'[Len(spans) + 1] = m
    BY MadeGrows
  <1>3. Len(made') = Len(spans) + 1
    <2>1. made \in Seq(Nat) /\ m \in Nat
      <3>1. 0..Len(spans) \subseteq Nat
        BY <1>1
      <3> QED
        BY <1>1, <3>1, SeqMonotonic
    <2> QED
      BY <1>1, <2>1, SeqAppend
  <1> SUFFICES ASSUME NEW s \in 1..(Len(spans) + 1), made'[s] # None
               PROVE  made'[s] <= s /\ made'[made'[s]] = made'[s]
    BY <1>3 DEF RootsOK
  <1>4. CASE s \in 1..Len(spans)
    <2>1. made[s] <= s /\ made[made[s]] = made[s] /\ made[s] \in 1..Len(spans)
      BY <1>1, <1>2, <1>4 DEF RootsOK, None
    <2> QED
      BY <1>2, <1>4, <2>1
  <1>5. CASE s = Len(spans) + 1
    BY <1>1, <1>2, <1>5 DEF None
  <1>6. s \in 1..Len(spans) \/ s = Len(spans) + 1
    BY <1>1
  <1> QED
    BY <1>4, <1>5, <1>6

\* A request that has just begun.
LEMMA ArrivesBooks ==
  ASSUME MiddlewareInv, BooksInv, NEW c \in Ctx, Arrives(c)
  PROVE  /\ RootsOK(made') /\ BookOK(job'[c], dbspan'[c], made')
         /\ \A d \in Ctx \ {c} : ApartOK(job'[c], dbspan'[c], job[d], made')
                              /\ ApartOK(job[d], dbspan[d], job'[c], made')
  <1> DEFINE n == Len(spans)
  <1>1. n \in Nat /\ NewSpan = n + 1 /\ n + 1 \in 0..(n + 1) /\ made' = Append(made, n + 1)
    BY JobTypes DEF NewSpan, Arrives
  <1>2. /\ \A s \in 1..n : made'[s] = made[s] /\ made[s] \in 0..n
        /\ made'[n + 1] = n + 1
    BY <1>1, MadeGrows
  <1>3. /\ job'[c].phase = "app" /\ job'[c].root = n + 1 /\ job'[c].open = <<>> /\ dbspan'[c] = dbspan[c]
    BY <1>1 DEF Arrives
  <1>4. \A d \in Ctx : /\ dbspan[d] \in 0..n /\ (dbspan[d] # None => dbspan[d] \in 1..n)
                       /\ job[d].root \in 0..n /\ BookOK(job[d], dbspan[d], made)
    <2> SUFFICES ASSUME NEW d \in Ctx
                 PROVE  /\ dbspan[d] \in 0..n /\ (dbspan[d] # None => dbspan[d] \in 1..n)
                        /\ job[d].root \in 0..n /\ BookOK(job[d], dbspan[d], made)
      OBVIOUS
    <2>1. dbspan[d] \in 0..n /\ job[d].root \in 0..n
      BY JobTypes
    <2> QED
      BY <1>1, <2>1 DEF BooksInv, None
  <1>5. \A d \in Ctx : dbspan[d] # None => /\ made'[dbspan[d]] # None /\ made'[dbspan[d]] # dbspan[d]
                                           /\ made'[dbspan[d]] # n + 1 /\ made'[dbspan[d]] = made[dbspan[d]]
    <2> SUFFICES ASSUME NEW d \in Ctx, dbspan[d] # None
                 PROVE  /\ made'[dbspan[d]] # None /\ made'[dbspan[d]] # dbspan[d]
                        /\ made'[dbspan[d]] # n + 1 /\ made'[dbspan[d]] = made[dbspan[d]]
      OBVIOUS
    <2>1. PICK s \in 1..n : s = dbspan[d]
      BY <1>4
    <2>2. made[s] # None /\ made[s] # s
      BY <1>4, <2>1 DEF BookOK
    <2> QED
      BY <1>1, <1>2, <2>1, <2>2
  <1>6. RootsOK(made')
    BY <1>1, RootsGrow DEF BooksInv
  <1>7. BookOK(job'[c], dbspan'[c], made')
    <2>1. \A i \in 1..Len(job'[c].open) : FALSE
      BY <1>3
    <2>2. made'[job'[c].root] = job'[c].root
      BY <1>2, <1>3
    <2>3. dbspan'[c] # None => made'[dbspan'[c]] # None /\ made'[dbspan'[c]] # dbspan'[c]
      BY <1>3, <1>5
    <2> HIDE DEF n
    <2> QED
      BY <2>1, <2>2, <2>3 DEF BookOK
  <1>8. ASSUME NEW d \in Ctx \ {c}
        PROVE  ApartOK(job'[c], dbspan'[c], job[d], made') /\ ApartOK(job[d], dbspan[d], job'[c], made')
    <2>1. ApartOK(job[c], dbspan[c], job[d], made)
      BY DEF BooksInv
    <2>2. n + 1 # job[d].root
      <3>1. \A k \in 0..n : n + 1 # k
        BY <1>1
      <3> QED
        BY <1>4, <3>1
    <2>3. dbspan'[c] # None => made'[dbspan'[c]] # job[d].root
      BY <1>3, <1>5, <2>1 DEF ApartOK
    <2> HIDE DEF n
    <2>4. ApartOK(job'[c], dbspan'[c], job[d], made')
      BY <1>3, <2>2, <2>3 DEF ApartOK
    <2>5. ApartOK(job[d], dbspan[d], job'[c], made')
      BY <1>3, <1>5, <2>2 DEF ApartOK
    <2> QED
      BY <2>4, <2>5
  <1> QED
    BY <1>6, <1>7, <1>8

\* A span made for a request is booked to it.
LEMMA MakesBooks ==
  ASSUME MiddlewareInv, BooksInv, NEW c \in Ctx, Enters(c) \/ Asks(c)
  PROVE  /\ RootsOK(made') /\ BookOK(job'[c], dbspan'[c], made')
         /\ \A d \in Ctx \ {c} : ApartOK(job'[c], dbspan'[c], job[d], made')
                              /\ ApartOK(job[d], dbspan[d], job'[c], made')
  <1>1. PICK n \in Nat : n = Len(spans) /\ NewSpan = n + 1
    BY JobTypes DEF NewSpan
  <1>2. PICK own \in 0..n : own = Owner(c)
    <2>1. job[c].root \in 0..n /\ None \in 0..n
      BY <1>1, JobTypes DEF None
    <2> QED
      BY <2>1 DEF Owner
  <1>3. PICK op \in Seq(1..n) : op = job[c].open
    BY <1>1, JobTypes
  <1>4. job'[c].phase = job[c].phase /\ job'[c].root = job[c].root /\ made' = Append(made, own)
        /\ dbspan \in [Ctx -> 0..n]
    BY <1>1, <1>2 DEF Enters, Asks, SamePhase, MiddlewareInv, ShapeOK
  <1>5. /\ \A s \in 1..n : made'[s] = made[s] /\ made[s] \in 0..n
        /\ made'[n + 1] = own
    <2>1. own \in 0..(n + 1)
      BY <1>1
    <2> QED
      BY <1>1, <1>4, <2>1, MadeGrows
  <1>6. BookOK(job[c], dbspan[c], made) /\ BookOK(job[c], dbspan[c], made')
    BY <1>1, <1>5, BookKept DEF BooksInv
  <1>7. own # None => own = job[c].root /\ own \in 1..n /\ made[own] = own
    BY <1>1, <1>2, <1>6 DEF Owner, BookOK, None
  <1>8. RootsOK(made')
    <2>1. own \in 0..(n + 1)
      BY <1>1
    <2>2. own \in 1..n => made[own] = own
      BY <1>1, <1>7 DEF None
    <2> QED
      BY <1>1, <1>4, <2>1, <2>2, RootsGrow DEF BooksInv
  <1>9. \A s \in 0..n : n + 1 # s
    BY <1>1
  <1>10. own = IF job[c].phase = "idle" THEN None ELSE job[c].root
    BY <1>2 DEF Owner
  <1>11. /\ \A i \in 1..Len(op) : made'[op[i]] = own /\ own < op[i] /\ op[i] \in 1..n
         /\ \A i, k \in 1..Len(op) : i < k => op[i] < op[k]
    <2>1. \A i \in 1..Len(op) : op[i] \in 1..n
      BY ElementOfSeq
    <2> QED
      BY <1>3, <1>6, <1>10, <2>1 DEF BookOK
  <1>12. dbspan[c] # None => /\ made'[dbspan[c]] # None /\ made'[dbspan[c]] # dbspan[c]
                             /\ \A i \in 1..Len(op) : op[i] # dbspan[c]
    BY <1>3, <1>6 DEF BookOK
  <1>13. job[c].root # None => made'[job[c].root] = job[c].root
    BY <1>6 DEF BookOK
  <1>14. CASE Enters(c)
    <2>1. PICK ap : ap = Append(op, n + 1)
      OBVIOUS
    <2>2. job'[c].open = ap /\ dbspan'[c] = dbspan[c]
      BY <1>1, <1>3, <1>14, <2>1 DEF Enters
    <2>3. /\ Len(op) \in Nat /\ Len(ap) = Len(op) + 1
          /\ \A i \in 1..Len(op) : ap[i] = op[i]
          /\ ap[Len(op) + 1] = n + 1
      <3>1. op \in Seq(1..(n + 1)) /\ n + 1 \in 1..(n + 1)
        <4>1. 1..n \subseteq 1..(n + 1)
          BY <1>1
        <4> QED
          BY <1>1, <4>1, SeqMonotonic
      <3> QED
        BY <2>1, <3>1, SeqAppend, LenProperties
    <2>4. \A i \in 1..Len(ap) : i \in 1..Len(op) \/ i = Len(op) + 1
      BY <2>3
    <2>5. \A i \in 1..Len(ap) : made'[ap[i]] = own /\ own < ap[i]
      <3>1. \A i \in 1..Len(op) : made'[ap[i]] = own /\ own < ap[i]
        BY <1>11, <2>3
      <3>2. made'[ap[Len(op) + 1]] = own /\ own < ap[Len(op) + 1]
        BY <1>1, <1>2, <1>5, <2>3
      <3> QED
        BY <2>4, <3>1, <3>2
    <2>6. \A i, k \in 1..Len(ap) : i < k => ap[i] < ap[k]
      <3> SUFFICES ASSUME NEW i \in 1..Len(ap), NEW k \in 1..Len(ap), i < k PROVE ap[i] < ap[k]
        OBVIOUS
      <3>1. i \in 1..Len(op)
        BY <2>3
      <3>2. CASE k \in 1..Len(op)
        BY <1>11, <2>3, <3>1, <3>2
      <3>3. CASE k = Len(op) + 1
        BY <1>1, <1>11, <2>3, <3>1, <3>3
      <3> QED
        BY <2>4, <3>2, <3>3
    <2>7. dbspan[c] # None => \A i \in 1..Len(ap) : ap[i] # dbspan[c]
      BY <1>4, <1>9, <1>12, <2>3, <2>4
    <2>8. BookOK(job'[c], dbspan'[c], made')
      BY <1>4, <1>10, <1>12, <1>13, <2>2, <2>5, <2>6, <2>7 DEF BookOK
    <2>9. ASSUME NEW d \in Ctx \ {c}
          PROVE  ApartOK(job'[c], dbspan'[c], job[d], made') /\ ApartOK(job[d], dbspan[d], job'[c], made')
      <3>1. ApartOK(job[c], dbspan[c], job[d], made') /\ ApartOK(job[d], dbspan[d], job[c], made')
        <4>1. ApartOK(job[c], dbspan[c], job[d], made) /\ ApartOK(job[d], dbspan[d], job[c], made)
          BY DEF BooksInv
        <4> QED
          BY <1>1, <1>5, <4>1, ApartKept
      <3> QED
        BY <1>4, <2>2, <3>1 DEF ApartOK
    <2> QED
      BY <1>8, <2>8, <2>9
  <1>15. CASE Asks(c)
    <2>1. job'[c].open = op /\ dbspan'[c] = n + 1 /\ own # None /\ own = job[c].root
      <3>1. Fit(job[c]) /\ job[c].phase # "idle"
        BY <1>15, JobTypes DEF Asks, Live
      <3> QED
        BY <1>1, <1>2, <1>3, <1>4, <1>15, <3>1 DEF Asks, Live, Fit, Owner
    <2>2. \A i \in 1..Len(op) : op[i] # n + 1
      BY <1>1, <1>11
    <2>3. made'[n + 1] # None /\ made'[n + 1] # n + 1
      BY <1>1, <1>2, <1>5, <2>1
    <2>4. BookOK(job'[c], dbspan'[c], made')
      BY <1>4, <1>10, <1>11, <1>13, <2>1, <2>2, <2>3 DEF BookOK
    <2>5. ASSUME NEW d \in Ctx \ {c}
          PROVE  ApartOK(job'[c], dbspan'[c], job[d], made') /\ ApartOK(job[d], dbspan[d], job'[c], made')
      <3>1. ApartOK(job[c], dbspan[c], job[d], made') /\ ApartOK(job[d], dbspan[d], job[c], made')
        <4>1. ApartOK(job[c], dbspan[c], job[d], made) /\ ApartOK(job[d], dbspan[d], job[c], made)
          BY DEF BooksInv
        <4> QED
          BY <1>1, <1>5, <4>1, ApartKept
      <3> QED
        BY <1>4, <1>5, <2>1, <3>1 DEF ApartOK
    <2> QED
      BY <1>8, <2>4, <2>5
  <1> QED
    BY <1>14, <1>15

\* What is taken from a thread leaves the rest as it was.
LEMMA ShrinksBooks ==
  ASSUME MiddlewareInv, BooksInv, NEW c \in Ctx, Shrinks(c)
  PROVE  /\ BookOK(job'[c], dbspan'[c], made')
         /\ \A d \in Ctx \ {c} : ApartOK(job'[c], dbspan'[c], job[d], made')
                              /\ ApartOK(job[d], dbspan[d], job'[c], made')
  <1>1. PICK op, ap : op = job[c].open /\ ap = job'[c].open /\ op \in Seq(1..Len(spans))
    BY JobTypes
  <1>2. BookOK(job[c], dbspan[c], made) /\ made' = made
        /\ job'[c].root \in {None, job[c].root} /\ dbspan'[c] \in {None, dbspan[c]}
    BY DEF BooksInv, Shrinks
  <1>3. PICK own, new : /\ own = IF job[c].phase = "idle" THEN None ELSE job[c].root
                        /\ new = IF job'[c].phase = "idle" THEN None ELSE job'[c].root
    OBVIOUS
  <1>4. \A i \in 1..Len(ap) : ap[i] = op[i] /\ i \in 1..Len(op) /\ new = own
    <2>1. CASE ap = <<>>
      BY <2>1
    <2>2. CASE Owner(c)' = Owner(c) /\ ap = op
      BY <1>3, <2>2 DEF Owner
    <2>3. CASE Owner(c)' = Owner(c) /\ op # <<>> /\ ap = Front(op)
      <3>1. Len(op) \in Nat \ {0} /\ Len(ap) = Len(op) - 1 /\ \A i \in 1..(Len(op) - 1) : ap[i] = op[i]
        BY <1>1, <2>3, SeqFront
      <3> QED
        BY <1>3, <2>3, <3>1 DEF Owner
    <2> QED
      BY <1>1, <2>1, <2>2, <2>3 DEF Shrinks
  <1>5. BookOK(job'[c], dbspan'[c], made')
    <2>1. \A i \in 1..Len(ap) : made[ap[i]] = new /\ new < ap[i]
      <3>1. \A i \in 1..Len(op) : made[op[i]] = own /\ own < op[i]
        BY <1>1, <1>2, <1>3 DEF BookOK
      <3> QED
        BY <1>4, <3>1
    <2>2. \A i, k \in 1..Len(ap) : i < k => ap[i] < ap[k]
      BY <1>1, <1>2, <1>4 DEF BookOK
    <2>3. dbspan'[c] # None =>
            made[dbspan'[c]] # None /\ made[dbspan'[c]] # dbspan'[c] /\ \A i \in 1..Len(ap) : ap[i] # dbspan'[c]
      BY <1>1, <1>2, <1>4 DEF BookOK
    <2>4. job'[c].root # None => made[job'[c].root] = job'[c].root
      BY <1>2 DEF BookOK
    <2> QED
      BY <1>1, <1>2, <1>3, <2>1, <2>2, <2>3, <2>4 DEF BookOK
  <1>6. ASSUME NEW d \in Ctx \ {c}
        PROVE  ApartOK(job'[c], dbspan'[c], job[d], made') /\ ApartOK(job[d], dbspan[d], job'[c], made')
    <2>1. /\ ApartOK(job[c], dbspan[c], job[d], made) /\ ApartOK(job[d], dbspan[d], job[c], made)
          /\ BookOK(job[d], dbspan[d], made)
      BY DEF BooksInv
    <2> QED
      BY <1>2, <2>1 DEF ApartOK, BookOK
  <1> QED
    BY <1>5, <1>6

\* Every step keeps the books.
LEMMA BooksStep ==
  ASSUME MiddlewareInv, BooksInv, NEW c \in Ctx, Effect(c), \A d \in Ctx \ {c} : job'[d] = job[d]
  PROVE  BooksInv'
  <1>1. \A s \in 1..Len(spans) : made'[s] = made[s]
    BY MadeKept
  <1>2. \A d \in Ctx \ {c} : dbspan'[d] = dbspan[d]
    BY EffectsApart
  <1>3. /\ RootsOK(made') /\ BookOK(job'[c], dbspan'[c], made')
        /\ \A d \in Ctx \ {c} : ApartOK(job'[c], dbspan'[c], job[d], made')
                             /\ ApartOK(job[d], dbspan[d], job'[c], made')
    <2>1. CASE Shrinks(c)
      <3>1. RootsOK(made')
        BY <2>1 DEF Shrinks, BooksInv
      <3> QED
        BY <2>1, <3>1, ShrinksBooks
    <2> QED
      BY <2>1, MakesOrShrinks, ArrivesBooks, MakesBooks
  <1>4. \A d \in Ctx \ {c} : BookOK(job[d], dbspan[d], made')
    BY <1>1, BookKept DEF BooksInv
  <1>5. \A d, e \in Ctx \ {c} : d # e => ApartOK(job[d], dbspan[d], job[e], made')
    BY <1>1, ApartKept DEF BooksInv
  <1>6. \A d \in Ctx : BookOK(job'[d], dbspan'[d], made')
    BY <1>2, <1>3, <1>4
  <1>7. \A d, e \in Ctx : d # e => ApartOK(job'[d], dbspan'[d], job'[e], made')
    BY <1>2, <1>3, <1>5
  <1> QED
    BY <1>3, <1>6, <1>7 DEF BooksInv

-----------------------------------------------------------------------------
(* How often the spans of a tidy request are sent *)

\* What a request still has to send.
Due(c, s) ==
  \/ Traced(c) /\ s = job[c].root
  \/ \E i \in 1..Len(job[c].open) : s = job[c].open[i]
  \/ Querying(c) /\ s = dbspan[c]

Counted(c) ==
  job[c].tidy /\ job[c].root # None =>
    \A s \in 1..Len(spans) : made[s] = job[c].root =>
      /\ sent[s] = IF Due(c, s) THEN 0 ELSE 1
      /\ framework = "lambda" /\ job[c].phase = "idle" => s \in DOMAIN flushed /\ flushed[s] = 1

CountInv == \A c \in Ctx : Counted(c)

SendInv == ReportInv /\ BooksInv /\ CountInv

\* What a step of a thread may send: what it made for its request, and the span in `state`.
SendsOwn(c) ==
  \A s \in 1..Len(spans) : sent'[s] # sent[s] => made[s] = Owner(c) \/ s = dbspan[c]

\* What an event sent does to the counts.
LEMMA EmitCounts ==
  ASSUME HeapOK, NEW s \in 1..Len(spans), NEW o, Emit(s, o)
  PROVE  /\ \A u \in 1..Len(spans) : u # s => sent'[u] = sent[u]
         /\ o # "sent" => sent' = sent
         /\ o = "sent" /\ sent[s] = 0 => sent'[s] = 1
  <1>1. sent \in [1..Len(spans) -> 0..2]
    BY ElementOfSeq, LenProperties DEF HeapOK
  <1> QED
    BY <1>1 DEF Emit

\* A span that was just made has not been sent.
LEMMA PushCounts ==
  ASSUME HeapOK, sent' = Append(sent, 0)
  PROVE  (\A u \in 1..Len(spans) : sent'[u] = sent[u]) /\ sent'[Len(spans) + 1] = 0
  <1>1. sent \in Seq(0..2) /\ Len(sent) = Len(spans) /\ 0 \in 0..2
    BY DEF HeapOK
  <1> QED
    BY <1>1, SeqAppend

\* The steps that make a span.
LEMMA MakesCounts ==
  ASSUME MiddlewareInv, NEW c \in Ctx, Arrives(c) \/ Enters(c) \/ Asks(c)
  PROVE  /\ sent' = Append(sent, 0) /\ Len(spans') = Len(spans) + 1 /\ flushed' = flushed
  <1>1. ASSUME NEW id, NEW p, StartTrace(c, id, p) \/ StartSpan(c, p)
        PROVE  SpanOpened /\ sent' = Append(sent, 0)
    <2>1. SpanOpened
      BY <1>1, StartTraceOpens, StartSpanOpens DEF MiddlewareInv
    <2>2. sent' = Append(sent, 0)
      BY <1>1 DEF StartTrace, StartSpan, PushSpan
    <2> QED
      BY <2>1, <2>2
  <1>2. SpanOpened /\ sent' = Append(sent, 0)
    <2>1. CASE Arrives(c)
      <3>1. PICK h \in Headers : StartTrace(c, h[1], h[2])
        BY <2>1 DEF Arrives
      <3> QED
        BY <1>1, <3>1
    <2>2. CASE Enters(c) \/ Asks(c)
      BY <1>1, <2>2 DEF Enters, Asks, NewEvent
    <2> QED
      BY <2>1, <2>2
  <1> QED
    BY <1>2 DEF SpanOpened, Arrives, Enters, Asks

\* The innermost block of a thread.
LEMMA LastOpen ==
  ASSUME MiddlewareInv, BooksInv, NEW c \in Ctx, job[c].open # <<>>
  PROVE  /\ Last(job[c].open) \in 1..Len(spans) /\ made[Last(job[c].open)] = Owner(c)
         /\ Owner(c) < Last(job[c].open) /\ dbspan[c] # Last(job[c].open)
         /\ \A s : (\E i \in 1..Len(job[c].open) : s = job[c].open[i])
                     <=> s = Last(job[c].open) \/ \E i \in 1..Len(Front(job[c].open)) : s = Front(job[c].open)[i]
         /\ \A i \in 1..Len(Front(job[c].open)) : Front(job[c].open)[i] # Last(job[c].open)
  <1>1. PICK op, ap : op = job[c].open /\ ap = Front(op) /\ op \in Seq(1..Len(spans))
    BY JobTypes
  <1>2. /\ Len(op) \in Nat \ {0} /\ Len(ap) = Len(op) - 1 /\ (\A i \in 1..(Len(op) - 1) : ap[i] = op[i])
        /\ Last(op) = op[Len(op)] /\ Last(op) \in 1..Len(spans)
    BY <1>1, SeqFront
  <1>3. PICK l \in 1..Len(op) : l = Len(op)
    BY <1>2
  <1>4. PICK own : own = Owner(c) /\ own = IF job[c].phase = "idle" THEN None ELSE job[c].root
    BY DEF Owner
  <1>5. /\ \A i \in 1..Len(op) : made[op[i]] = own /\ own < op[i]
        /\ \A i, k \in 1..Len(op) : i < k => op[i] < op[k]
        /\ dbspan[c] # None => \A i \in 1..Len(op) : op[i] # dbspan[c]
    BY <1>1, <1>4 DEF BooksInv, BookOK
  <1>6. Len(spans) \in Nat /\ \A i \in 1..Len(op) : op[i] \in 1..Len(spans)
    BY <1>1, JobTypes, ElementOfSeq
  <1>7. dbspan[c] # op[l]
    BY <1>5, <1>6 DEF None
  <1>8. \A i \in 1..Len(op) : i = l \/ i \in 1..Len(ap)
    BY <1>2, <1>3
  <1>9. \A i \in 1..Len(ap) : i \in 1..Len(op) /\ ap[i] = op[i] /\ i < l
    BY <1>2, <1>3
  <1>10. \A i \in 1..Len(ap) : ap[i] # op[l]
    BY <1>5, <1>6, <1>9
  <1>11. \A s : (\E i \in 1..Len(op) : s = op[i]) <=> s = op[l] \/ \E i \in 1..Len(ap) : s = ap[i]
    BY <1>8, <1>9
  <1>12. op[l] = Last(op) /\ made[op[l]] = own /\ own < op[l] /\ op[l] \in 1..Len(spans)
    BY <1>2, <1>3, <1>5
  <1>13. /\ Last(op) \in 1..Len(spans) /\ made[Last(op)] = Owner(c) /\ Owner(c) < Last(op)
         /\ dbspan[c] # Last(op) /\ \A i \in 1..Len(ap) : ap[i] # Last(op)
    BY <1>4, <1>7, <1>10, <1>12
  <1>14. \A s : (\E i \in 1..Len(op) : s = op[i]) <=> s = Last(op) \/ \E i \in 1..Len(ap) : s = ap[i]
    BY <1>11, <1>12
  <1> QED
    BY <1>1, <1>13, <1>14

\* It was made for the work of its thread.
LEMMA LastOpenMade ==
  ASSUME MiddlewareInv, BooksInv, NEW c \in Ctx, job[c].open # <<>>
  PROVE  /\ made[Last(job[c].open)] = Owner(c)
         /\ \E i \in 1..Len(job[c].open) : Last(job[c].open) = job[c].open[i]
  <1>1. PICK op : op = job[c].open /\ op \in Seq(1..Len(spans))
    BY JobTypes
  <1>2. Len(op) \in 1..Len(op) /\ Last(op) = op[Len(op)]
    <2>1. Len(op) \in Nat \ {0} /\ Last(op) = op[Len(op)]
      BY <1>1, SeqFront
    <2> QED
      BY <2>1
  <1>3. BookOK(job[c], dbspan[c], made)
    BY DEF BooksInv
  <1>4. \A i \in 1..Len(op) : made[op[i]] = Owner(c)
    BY <1>1, <1>3 DEF BookOK, Owner
  <1> QED
    BY <1>1, <1>2, <1>4

\* The active span of a thread that works on a request was made for it.
LEMMA ActiveOwned ==
  ASSUME ReportInv, NEW c \in Ctx, Live(c), ActiveSpan(c) # None
  PROVE  /\ ActiveSpan(c) \in 1..Len(spans) /\ made[ActiveSpan(c)] = job[c].root
         /\ current[c] # None /\ Stack(c) # <<>> /\ ActiveSpan(c) = Last(Stack(c))
  <1>1. current[c] # None /\ Stack(c) # <<>> /\ ActiveSpan(c) = Last(Stack(c)) /\ HeapOK /\ RefsOK
    BY ReportParts DEF ActiveSpan
  <1>2. PICK st \in Seq(1..Len(spans)) : st = Stack(c)
    BY <1>1, StackOfType
  <1>3. Len(st) \in 1..Len(st) /\ Last(st) = st[Len(st)]
    BY <1>1, <1>2, FrontRemoves
  <1>4. \A i \in 1..Len(st) : made[st[i]] = job[c].root /\ st[i] \in 1..Len(spans)
    BY <1>1, <1>2, ElementOfSeq DEF ReportInv, TreeInv, OwnedInv, StackOwned
  <1> QED
    BY <1>1, <1>2, <1>3, <1>4

\* A thread sends its own.
LEMMA EffectSendsOwn ==
  ASSUME ReportInv, BooksInv, NEW c \in Ctx, Effect(c)
  PROVE  SendsOwn(c)
  <1>1. MiddlewareInv /\ HeapOK /\ RefsOK
    BY ReportParts
  <1>2. ASSUME NEW x \in 1..Len(spans), NEW o, Emit(x, o), made[x] = Owner(c) \/ x = dbspan[c]
        PROVE  SendsOwn(c)
    BY <1>1, <1>2, EmitCounts DEF SendsOwn
  <1>3. CASE UNCHANGED sent
    BY <1>3 DEF SendsOwn
  <1>4. CASE Arrives(c) \/ Enters(c) \/ Asks(c)
    BY <1>1, <1>4, MakesCounts, PushCounts DEF SendsOwn
  <1>5. ASSUME NEW o, Leaves(c, o) PROVE SendsOwn(c)
    <2>1. Emit(Last(job[c].open), o) /\ job[c].open # <<>>
      BY <1>5 DEF Leaves, Close, FinishSpan, FinishTrace
    <2> QED
      BY <1>1, <1>2, <2>1, LastOpen
  <1>6. ASSUME NEW o, Replies(c, o) PROVE SendsOwn(c)
    <2>1. CASE dbspan[c] # None
      <3>1. dbspan[c] \in 1..Len(spans)
        BY <1>1, <2>1, JobTypes DEF None
      <3> QED
        BY <1>2, <1>6, <2>1, <3>1 DEF Replies, FinishSpan
    <2> QED
      BY <1>3, <1>6, <2>1 DEF Replies
  <1>7. ASSUME NEW o, Ends(c, o) PROVE SendsOwn(c)
    <2>1. job[c].root \in 1..Len(spans) /\ made[job[c].root] = job[c].root /\ Owner(c) = job[c].root
      <3>1. Live(c)
        BY <1>7 DEF Ends
      <3>2. job[c].root \in 1..Len(spans)
        BY <1>1, <3>1, RootIsSpan DEF Live
      <3>3. job[c].root # None
        BY <1>1, <3>1, JobTypes DEF Fit, Live
      <3> QED
        BY <3>1, <3>2, <3>3 DEF BooksInv, BookOK, Owner, Live
    <2> QED
      BY <1>2, <1>7, <2>1 DEF Ends, FinishTrace
  <1>8. ASSUME NEW o, TearsDown(c, o) PROVE SendsOwn(c)
    <2>1. Live(c) /\ Owner(c) = job[c].root
      BY <1>8 DEF TearsDown, Live, Owner
    <2>2. CASE ActiveSpan(c) # None
      BY <1>2, <1>8, <2>1, <2>2, ActiveOwned DEF TearsDown, Close, FinishSpan, FinishTrace
    <2> QED
      BY <1>3, <1>8, <2>2 DEF TearsDown
  <1> QED
    BY <1>3, <1>4, <1>5, <1>6, <1>7, <1>8 DEF Effect, AsksInVain, Moves, Refuses, vars

\* What a thread without a request has open is not of its last request.
LEMMA IdleNotDue ==
  ASSUME ReportInv, BooksInv, NEW c \in Ctx, job[c].phase = "idle", job[c].root # None,
         NEW s, made[s] = job[c].root
  PROVE  ~Due(c, s)
  <1>1. Fit(job[c]) /\ BookOK(job[c], dbspan[c], made)
    BY ReportParts, JobTypes DEF BooksInv
  <1>2. ~Traced(c) /\ ~Querying(c)
    BY <1>1 DEF Fit, Traced, Querying
  <1>3. \A i \in 1..Len(job[c].open) : made[job[c].open[i]] = None
    BY <1>1 DEF BookOK
  <1> QED
    BY <1>2, <1>3 DEF Due

\* The other threads count what they counted.
LEMMA OthersCount ==
  ASSUME SendInv, NEW c \in Ctx, Effect(c), NEW d \in Ctx \ {c}, job'[d] = job[d]
  PROVE  Counted(d)'
  <1>1. MiddlewareInv /\ HeapOK /\ BooksInv /\ ReportInv /\ Counted(d) /\ DOMAIN sent = 1..Len(spans)
    BY ReportParts, LenProperties DEF SendInv, CountInv, HeapOK
  <1>2. framework' = framework /\ dbspan'[d] = dbspan[d]
    BY <1>1, EffectsApart
  <1>3. \A s : Due(d, s)' <=> Due(d, s)
    BY <1>2 DEF Due, Traced, Querying
  <1>4. \A s \in 1..Len(spans) : made'[s] = made[s]
    BY <1>1, MadeKept
  <1> SUFFICES ASSUME job[d].tidy, job[d].root # None, NEW s \in 1..Len(spans'), made'[s] = job[d].root
               PROVE  /\ sent'[s] = IF Due(d, s) THEN 0 ELSE 1
                      /\ framework = "lambda" /\ job[d].phase = "idle" =>
                           s \in DOMAIN flushed' /\ flushed'[s] = 1
    BY <1>2, <1>3 DEF Counted
  <1>5. PICK r \in 1..Len(spans) : r = job[d].root
    <2>1. job[d].root \in 0..Len(spans) /\ Len(spans) \in Nat
      BY <1>1, JobTypes
    <2> QED
      BY <2>1 DEF None
  <1>6. Owner(c) # r
    <2>1. job[c].root # None => job[c].root # job[d].root
      BY <1>1 DEF BooksInv, ApartOK
    <2> QED
      BY <1>5, <2>1 DEF Owner
  <1>7. s \in 1..Len(spans)
    <2>1. CASE Arrives(c) \/ Enters(c) \/ Asks(c)
      <3>1. made' = Append(made, NewSpan) \/ made' = Append(made, Owner(c))
        BY <2>1 DEF Arrives, Enters, Asks
      <3>2. Len(spans) \in Nat /\ NewSpan = Len(spans) + 1 /\ Owner(c) \in 0..(Len(spans) + 1) /\ NewSpan \in 0..(Len(spans) + 1)
        BY <1>1, JobTypes DEF NewSpan, Owner, None
      <3>3. made'[Len(spans) + 1] # r
        <4>1. NewSpan # r
          BY <1>5, <3>2
        <4> QED
          BY <1>1, <1>6, <3>1, <3>2, <4>1, MadeGrows
      <3>4. Len(spans') = Len(spans) + 1
        BY <1>1, <2>1, MakesCounts
      <3> QED
        BY <1>5, <3>2, <3>3, <3>4
    <2>2. CASE ~(Arrives(c) \/ Enters(c) \/ Asks(c))
      <3>1. spans' = spans
        BY <2>2 DEF Effect, AsksInVain, Leaves, Replies, Ends, TearsDown, Moves, Refuses, vars, Close, FinishSpan,
           FinishTrace
      <3> QED
        BY <3>1
    <2> QED
      BY <2>1, <2>2
  <1>8. made[s] = r
    BY <1>4, <1>5, <1>7
  <1>9. sent'[s] = sent[s]
    <2>1. s = dbspan[c] => made[s] # r
      <3>1. s # None
        BY <1>1, <1>7, JobTypes DEF None
      <3> QED
        BY <1>1, <1>5, <3>1 DEF BooksInv, ApartOK
    <2> QED
      BY <1>1, <1>6, <1>7, <1>8, <2>1, EffectSendsOwn DEF SendsOwn
  <1>10. sent[s] = IF Due(d, s) THEN 0 ELSE 1
    BY <1>1, <1>5, <1>7, <1>8 DEF Counted
  <1>11. ASSUME framework = "lambda", job[d].phase = "idle"
         PROVE  s \in DOMAIN flushed' /\ flushed'[s] = 1
    <2>1. s \in DOMAIN flushed /\ flushed[s] = 1
      BY <1>1, <1>5, <1>7, <1>8, <1>11 DEF Counted
    <2>2. sent[s] = 1
      BY <1>1, <1>5, <1>8, <1>10, <1>11, IdleNotDue
    <2>3. flushed' = flushed \/ flushed' = sent
      BY DEF Effect, Arrives, Enters, Asks, AsksInVain, Leaves, Replies, Ends, TearsDown, Moves, Refuses
    <2> QED
      BY <1>1, <1>7, <2>1, <2>2, <2>3
  <1> QED
    BY <1>9, <1>10, <1>11

\* A span that a request makes is due.
LEMMA MakesCount ==
  ASSUME SendInv, NEW c \in Ctx, Arrives(c) \/ Enters(c) \/ Asks(c), job'[c].tidy
  PROVE  Counted(c)'
  <1>1. MiddlewareInv /\ HeapOK /\ BooksInv /\ ReportInv /\ Counted(c)
    BY ReportParts DEF SendInv, CountInv
  <1>2. PICK n \in Nat : n = Len(spans) /\ NewSpan = n + 1
    BY <1>1, JobTypes DEF NewSpan
  <1>3. /\ Len(spans') = n + 1 /\ flushed' = flushed
        /\ \A u \in 1..n : sent'[u] = sent[u]
        /\ sent'[n + 1] = 0
    BY <1>1, <1>2, MakesCounts, PushCounts
  <1>4. PICK m \in 0..(n + 1) : made' = Append(made, m) /\ m = IF Arrives(c) THEN n + 1 ELSE Owner(c)
    <2>1. n + 1 \in 0..(n + 1) /\ Owner(c) \in 0..(n + 1)
      BY <1>1, <1>2, JobTypes DEF Owner, None
    <2> QED
      BY <1>2, <2>1 DEF Arrives, Enters, Asks
  <1>5. (\A u \in 1..n : made'[u] = made[u] /\ made[u] \in 0..n) /\ made'[n + 1] = m
    BY <1>1, <1>2, <1>4, MadeGrows
  <1>6. \A u \in 1..(n + 1) : u \in 1..n \/ u = n + 1
    OBVIOUS
  <1>7. CASE Arrives(c)
    <2>1. job'[c].root = n + 1 /\ Traced(c)' /\ job'[c].phase = "app"
      BY <1>2, <1>7 DEF Arrives, Traced
    <2>2. Due(c, n + 1)'
      BY <2>1 DEF Due
    <2>3. \A u \in 1..(n + 1) : made'[u] = n + 1 => u = n + 1
      BY <1>5, <1>6
    <2> QED
      BY <1>3, <2>1, <2>2, <2>3 DEF Counted
  <1>8. CASE Enters(c) \/ Asks(c)
    <2>1. /\ SamePhase(c) /\ framework' = framework /\ job[c].tidy /\ ~job[c].querying
          /\ dbspan \in [Ctx -> 0..n]
      BY <1>1, <1>2, <1>8 DEF Enters, Asks, MiddlewareInv, ShapeOK
    <2>2. PICK op \in Seq(1..n) : op = job[c].open
      BY <1>1, <1>2, JobTypes
    <2>3. \A u \in 1..(n + 1) :
            (\E i \in 1..Len(job'[c].open) : u = job'[c].open[i])
              <=> (\E i \in 1..Len(op) : u = op[i]) \/ (Enters(c) /\ u = n + 1)
      <3>1. CASE Enters(c)
        <4>1. PICK ap : ap = Append(op, n + 1) /\ ap = job'[c].open
          BY <1>2, <2>2, <3>1 DEF Enters
        <4>2. /\ Len(op) \in Nat /\ Len(ap) = Len(op) + 1
              /\ \A i \in 1..Len(op) : ap[i] = op[i]
              /\ ap[Len(op) + 1] = n + 1
          BY <4>1, LastAppended, LenProperties
        <4>3. \A i \in 1..Len(ap) : i \in 1..Len(op) \/ i = Len(op) + 1
          BY <4>2
        <4>4. (\A i \in 1..Len(op) : i \in 1..Len(ap)) /\ Len(op) + 1 \in 1..Len(ap)
          BY <4>2
        <4> QED
          BY <3>1, <4>1, <4>2, <4>3, <4>4
      <3>2. CASE Asks(c) /\ ~Enters(c)
        BY <2>2, <3>2 DEF Asks
      <3> QED
        BY <1>8, <3>1, <3>2
    <2>4. /\ ~Querying(c) /\ (Enters(c) => ~Querying(c)')
          /\ Asks(c) => Querying(c)' /\ dbspan'[c] = n + 1
      <3>1. Enters(c) => ~Querying(c)'
        BY <2>1 DEF Enters, Querying
      <3>2. Asks(c) => Querying(c)' /\ dbspan'[c] = n + 1
        BY <1>2, <2>1 DEF Asks, Querying, None
      <3> QED
        BY <2>1, <3>1, <3>2 DEF Querying
    <2>5. \A u \in 1..n : Due(c, u)' <=> Due(c, u)
      <3>1. \A u \in 1..n : u # n + 1 /\ u \in 1..(n + 1)
        OBVIOUS
      <3>2. job'[c].root = job[c].root /\ (Traced(c)' <=> Traced(c))
        BY <2>1 DEF SamePhase, Traced
      <3> QED
        BY <1>8, <2>2, <2>3, <2>4, <3>1, <3>2 DEF Due
    <2>6. Due(c, n + 1)'
      <3>1. n + 1 \in 1..(n + 1)
        OBVIOUS
      <3> QED
        BY <1>8, <2>3, <2>4, <3>1 DEF Due
    <2>7. job[c].phase = "idle" /\ job[c].root # None => m # job[c].root
      <3>1. Arrives(c) => job'[c].root = n + 1 /\ job[c].root = job'[c].root
        BY <1>2, <2>1 DEF Arrives, SamePhase
      <3>2. job[c].root # n + 1
        BY <1>1, <1>2, JobTypes
      <3> QED
        BY <1>4, <3>1, <3>2 DEF Owner
    <2> SUFFICES ASSUME job[c].root # None, NEW s \in 1..(n + 1), made'[s] = job[c].root
                 PROVE  /\ sent'[s] = IF Due(c, s)' THEN 0 ELSE 1
                        /\ framework = "lambda" /\ job[c].phase = "idle" => s \in DOMAIN flushed /\ flushed[s] = 1
      BY <1>3, <2>1 DEF Counted, SamePhase
    <2>8. CASE s \in 1..n
      BY <1>1, <1>2, <1>3, <1>5, <2>1, <2>5, <2>8 DEF Counted
    <2>9. CASE s = n + 1
      BY <1>3, <1>5, <2>6, <2>7, <2>9
    <2> QED
      BY <1>6, <2>8, <2>9
  <1> QED
    BY <1>7, <1>8

\* What a tidy request has finished is sent, once, and is due no more.
LEMMA SendsCount ==
  ASSUME SendInv, NEW c \in Ctx, job[c].tidy, UNCHANGED <<spans, made, framework>>,
         job'[c].root = job[c].root, NEW x \in 1..Len(spans), Emit(x, "sent"),
         made[x] = job[c].root => Due(c, x) /\ ~Due(c, x)',
         \A s \in 1..Len(spans) : s # x => (Due(c, s)' <=> Due(c, s)),
         framework = "lambda" /\ job[c].root # None /\ job'[c].phase = "idle" =>
           job[c].phase = "idle" /\ made[x] # job[c].root,
         flushed' = flushed
  PROVE  Counted(c)'
  <1>1. HeapOK /\ Counted(c)
    BY ReportParts DEF SendInv, CountInv
  <1>2. /\ \A u \in 1..Len(spans) : u # x => sent'[u] = sent[u]
        /\ sent[x] = 0 => sent'[x] = 1
    BY <1>1, EmitCounts
  <1>3. PICK n : n = Len(spans) /\ n = Len(spans')
    OBVIOUS
  <1> SUFFICES ASSUME job[c].root # None, NEW s \in 1..n, made[s] = job[c].root
               PROVE  /\ sent'[s] = IF Due(c, s)' THEN 0 ELSE 1
                      /\ framework = "lambda" /\ job'[c].phase = "idle" => s \in DOMAIN flushed /\ flushed[s] = 1
    BY <1>3 DEF Counted
  <1>4. /\ sent[s] = IF Due(c, s) THEN 0 ELSE 1
        /\ framework = "lambda" /\ job[c].phase = "idle" => s \in DOMAIN flushed /\ flushed[s] = 1
    BY <1>1, <1>3 DEF Counted
  <1>5. CASE s = x
    BY <1>2, <1>4, <1>5
  <1>6. CASE s # x
    BY <1>2, <1>3, <1>4, <1>6
  <1> QED
    BY <1>5, <1>6

\* A step that sends nothing and leaves what is due.
LEMMA SilentCount ==
  ASSUME SendInv, NEW c \in Ctx, job[c].tidy, UNCHANGED <<spans, sent, made, framework>>,
         job'[c].root = job[c].root, \A s \in 1..Len(spans) : made[s] = job[c].root => (Due(c, s)' <=> Due(c, s)),
         \/ flushed' = flushed /\ (framework = "lambda" /\ job'[c].phase = "idle" => job[c].phase = "idle")
         \/ flushed' = sent /\ \A s \in 1..Len(spans) : made[s] = job[c].root => ~Due(c, s)
  PROVE  Counted(c)'
  <1>1. HeapOK /\ Counted(c) /\ DOMAIN sent = 1..Len(spans)
    BY ReportParts, LenProperties DEF SendInv, CountInv, HeapOK
  <1>2. PICK n : n = Len(spans) /\ n = Len(spans')
    OBVIOUS
  <1> SUFFICES ASSUME job[c].root # None, NEW s \in 1..n, made[s] = job[c].root
               PROVE  /\ sent[s] = IF Due(c, s)' THEN 0 ELSE 1
                      /\ framework = "lambda" /\ job'[c].phase = "idle" => s \in DOMAIN flushed' /\ flushed'[s] = 1
    BY <1>2 DEF Counted
  <1>3. /\ sent[s] = IF Due(c, s) THEN 0 ELSE 1
        /\ framework = "lambda" /\ job[c].phase = "idle" => s \in DOMAIN flushed /\ flushed[s] = 1
    BY <1>1, <1>2 DEF Counted
  <1>4. CASE flushed' = flushed /\ (framework = "lambda" /\ job'[c].phase = "idle" => job[c].phase = "idle")
    BY <1>2, <1>3, <1>4
  <1>5. CASE flushed' = sent /\ \A u \in 1..Len(spans) : made[u] = job[c].root => ~Due(c, u)
    BY <1>1, <1>2, <1>3, <1>5
  <1> QED
    BY <1>4, <1>5

\* A block that is left is sent.
LEMMA LeavesCount ==
  ASSUME SendInv, NEW c \in Ctx, NEW o \in Outcomes, Leaves(c, o), job'[c].tidy
  PROVE  Counted(c)'
  <1>1. MiddlewareInv /\ BooksInv /\ BookOK(job[c], dbspan[c], made)
    BY ReportParts DEF SendInv, BooksInv
  <1>2. /\ job[c].tidy /\ o = "sent" /\ job[c].open # <<>> /\ job'[c].open = Front(job[c].open)
        /\ SamePhase(c) /\ job'[c].root = job[c].root /\ Emit(Last(job[c].open), "sent")
        /\ UNCHANGED <<spans, made, framework, flushed, dbspan>>
    BY DEF Leaves, SamePhase, Close, FinishSpan, FinishTrace
  <1>3. PICK x, ap : x = Last(job[c].open) /\ ap = Front(job[c].open)
    OBVIOUS
  <1>4. x \in 1..Len(spans) /\ made[x] = Owner(c) /\ Owner(c) < x /\ dbspan[c] # x
    BY <1>1, <1>2, <1>3, LastOpen
  <1>11. \A s : (\E i \in 1..Len(job[c].open) : s = job[c].open[i]) <=> s = x \/ \E i \in 1..Len(ap) : s = ap[i]
    BY <1>1, <1>2, <1>3, LastOpen
  <1>12. \A i \in 1..Len(ap) : ap[i] # x
    BY <1>1, <1>2, <1>3, LastOpen
  <1>5. ~Querying(c) /\ ~Querying(c)'
    <2>1. framework = "django" => framework # "flask"
      OBVIOUS
    <2> QED
      BY <2>1 DEF Leaves, Querying
  <1>6. (Traced(c)' <=> Traced(c)) /\ (Traced(c) => Owner(c) = job[c].root)
    BY <1>2 DEF Traced, SamePhase, Owner
  <1>7. \A s \in 1..Len(spans) : s # x => (Due(c, s)' <=> Due(c, s))
    <2> SUFFICES ASSUME NEW s, s # x PROVE Due(c, s)' <=> Due(c, s)
      OBVIOUS
    <2>1. job'[c].open = ap /\ job'[c].root = job[c].root
      BY <1>2, <1>3
    <2>2. (\E i \in 1..Len(job[c].open) : s = job[c].open[i]) <=> \E i \in 1..Len(ap) : s = ap[i]
      BY <1>11
    <2> QED
      BY <1>5, <1>6, <2>1, <2>2 DEF Due
  <1>8. Traced(c) => x # job[c].root
    <2>1. Len(spans) \in Nat
      BY <1>1, JobTypes
    <2> QED
      BY <1>4, <1>6, <2>1
  <1>9. Due(c, x) /\ ~Due(c, x)'
    BY <1>2, <1>3, <1>5, <1>6, <1>8, <1>11, <1>12 DEF Due
  <1>10. job[c].root # None /\ job'[c].phase = "idle" => job[c].phase = "idle" /\ made[x] # job[c].root
    BY <1>2, <1>4 DEF Owner, SamePhase
  <1> QED
    BY <1>2, <1>3, <1>4, <1>7, <1>9, <1>10, SendsCount

\* The span of a query is sent when the query ends; an earlier one is of another request.
LEMMA RepliesCount ==
  ASSUME SendInv, NEW c \in Ctx, NEW o \in Outcomes, Replies(c, o), job'[c].tidy
  PROVE  Counted(c)'
  <1>1. MiddlewareInv /\ BooksInv /\ BookOK(job[c], dbspan[c], made) /\ TidyOK(c) /\ dbspan \in [Ctx -> 0..Len(spans)]
    BY ReportParts DEF SendInv, BooksInv, MiddlewareInv, ShapeOK
  <1>2. /\ job[c].tidy /\ o = "sent" /\ framework = "flask" /\ Live(c)
        /\ SamePhase(c) /\ job'[c].root = job[c].root /\ job'[c].open = job[c].open
        /\ dbspan'[c] = None /\ UNCHANGED <<made, framework, flushed>>
    BY <1>1 DEF Replies, SamePhase
  <1>3. ~Querying(c)' /\ (Traced(c)' <=> Traced(c))
    BY <1>2 DEF Querying, SamePhase, Traced
  <1>4. \A s : s # dbspan[c] \/ ~Querying(c) => (Due(c, s)' <=> Due(c, s))
    BY <1>2, <1>3 DEF Due
  <1>5. CASE dbspan[c] = None
    <2>1. ~Querying(c) /\ UNCHANGED <<spans, sent>>
      BY <1>5 DEF Querying, Replies
    <2> QED
      BY <1>2, <1>4, <2>1, SilentCount
  <1>6. CASE dbspan[c] # None
    <2>1. PICK x \in 1..Len(spans) : x = dbspan[c]
      BY <1>1, <1>6, JobTypes DEF None
    <2>2. Emit(x, "sent") /\ UNCHANGED spans
      BY <1>2, <1>6, <2>1 DEF Replies, FinishSpan
    <2>3. /\ made[x] # x /\ (\A i \in 1..Len(job[c].open) : job[c].open[i] # x)
          /\ job[c].root # None => made[job[c].root] = job[c].root
      BY <1>1, <1>6, <2>1 DEF BookOK
    <2>4. job[c].root # None
      BY <1>1, <1>2, JobTypes DEF Fit, Live
    <2>5. ~Due(c, x)'
      BY <1>2, <1>3, <2>3, <2>4 DEF Due
    <2>6. made[x] = job[c].root => Due(c, x)
      <3>1. CASE job[c].querying
        BY <1>2, <1>6, <2>1, <3>1 DEF Due, Querying
      <3>2. CASE ~job[c].querying
        BY <1>1, <1>2, <1>6, <2>1, <3>2 DEF TidyOK
      <3> QED
        BY <3>1, <3>2
    <2>7. framework # "lambda"
      BY <1>2
    <2> QED
      BY <1>2, <1>4, <2>1, <2>2, <2>5, <2>6, <2>7, SendsCount
  <1> QED
    BY <1>5, <1>6

\* The root of a request is sent when the request ends.
LEMMA RootCount ==
  ASSUME SendInv, NEW c \in Ctx, job[c].tidy, Traced(c), ~Traced(c)', UNCHANGED <<spans, made, framework, flushed>>,
         job'[c].root = job[c].root, Emit(job[c].root, "sent"), ~Querying(c), ~Querying(c)',
         job'[c].open = job[c].open, framework = "lambda" => job'[c].phase # "idle"
  PROVE  Counted(c)'
  <1>1. MiddlewareInv /\ BooksInv /\ BookOK(job[c], dbspan[c], made)
    BY ReportParts DEF SendInv, BooksInv
  <1>2. PICK x \in 1..Len(spans) : x = job[c].root
    BY <1>1, RootIsSpan DEF Traced
  <1>3. \A i \in 1..Len(job[c].open) : x < job[c].open[i] /\ job[c].open[i] \in 1..Len(spans)
    <2>1. job[c].open \in Seq(1..Len(spans))
      BY <1>1, JobTypes
    <2> QED
      BY <1>1, <1>2, <2>1, ElementOfSeq DEF BookOK, Traced
  <1>4. \A i \in 1..Len(job[c].open) : x # job[c].open[i]
    <2>1. Len(spans) \in Nat
      BY <1>1, JobTypes
    <2> QED
      BY <1>3, <2>1
  <1>5. Due(c, x) /\ ~Due(c, x)'
    BY <1>2, <1>4 DEF Due
  <1>6. \A s \in 1..Len(spans) : s # x => (Due(c, s)' <=> Due(c, s))
    BY <1>2 DEF Due
  <1> QED
    BY <1>2, <1>5, <1>6, SendsCount

\* The frameworks that finish the root.
LEMMA EndsCount ==
  ASSUME SendInv, NEW c \in Ctx, NEW o \in Outcomes, Ends(c, o) \/ TearsDown(c, o), job'[c].tidy
  PROVE  Counted(c)'
  <1>1. CASE Ends(c, o)
    <2>1. /\ job[c].tidy /\ Traced(c) /\ ~Traced(c)' /\ UNCHANGED <<spans, made, framework, flushed>>
          /\ job'[c].root = job[c].root /\ Emit(job[c].root, "sent") /\ ~Querying(c) /\ ~Querying(c)'
          /\ framework = "lambda" => job'[c].phase # "idle"
      BY <1>1 DEF Ends, FinishTrace, KeepsOrDrops, Querying
    <2>2. job'[c].open = job[c].open
      BY <1>1 DEF Ends, KeepsOrDrops, Live
    <2> QED
      BY <2>1, <2>2, RootCount
  <1>2. CASE TearsDown(c, o)
    <2>1. /\ job[c].tidy /\ o = "sent" /\ job[c].open = <<>> /\ framework = "flask" /\ job[c].phase = "app"
          /\ ~job[c].querying /\ UNCHANGED <<framework, dbspan, made, flushed>>
          /\ job'[c].phase = "late" /\ job'[c].open = <<>> /\ ~job'[c].querying /\ job'[c].root = job[c].root
      BY <1>2 DEF TearsDown, KeepsOrDrops
    <2>2. ActiveSpan(c) = job[c].root /\ job[c].root # None
      <3>1. job[c].root \in 1..Len(spans) => job[c].root # None
        BY DEF None
      <3> QED
        BY <2>1, <3>1, TeardownIsRoot DEF SendInv
    <2>3. Emit(job[c].root, "sent") /\ UNCHANGED spans
      BY <1>2, <2>1, <2>2 DEF TearsDown, Close, FinishSpan, FinishTrace
    <2>4. Traced(c) /\ ~Traced(c)' /\ ~Querying(c) /\ ~Querying(c)'
      BY <2>1 DEF Traced, Querying
    <2> QED
      BY <2>1, <2>3, <2>4, RootCount
  <1> QED
    BY <1>1, <1>2

\* The steps that send nothing.
LEMMA MovesCount ==
  ASSUME SendInv, NEW c \in Ctx, Moves(c) \/ AsksInVain(c) \/ Refuses(c), job'[c].tidy
  PROVE  Counted(c)'
  <1>1. MiddlewareInv /\ FrameInv /\ TidyOK(c) /\ dbspan \in [Ctx -> 0..Len(spans)]
    BY ReportParts DEF SendInv, MiddlewareInv, ShapeOK
  <1>2. CASE Refuses(c)
    BY <1>2 DEF Refuses, Counted
  <1>3. CASE AsksInVain(c)
    <2>1. /\ job[c].tidy /\ UNCHANGED <<spans, sent, made, framework, flushed>> /\ SamePhase(c)
          /\ job'[c].root = job[c].root /\ job'[c].open = job[c].open /\ ~Querying(c) /\ ~Querying(c)'
      BY <1>1, <1>3 DEF AsksInVain, vars, SamePhase, Querying
    <2>2. \A s : Due(c, s)' <=> Due(c, s)
      BY <2>1 DEF Due, Traced, SamePhase
    <2> QED
      BY <2>1, <2>2, SilentCount DEF SamePhase
  <1>4. CASE Moves(c)
    <2>1. /\ job[c].tidy /\ UNCHANGED <<spans, sent, made, framework, dbspan>>
          /\ job'[c].root = job[c].root /\ ~Querying(c) /\ ~Querying(c)'
      BY <1>4 DEF Moves, vars, KeepsOrDrops, Querying
    <2>2. CASE job[c].phase = "app" /\ job'[c].phase = "streaming" /\ flushed' = flushed
      <3>1. \A s : Due(c, s)' <=> Due(c, s)
        BY <1>4, <2>1, <2>2 DEF Due, Traced, Moves, KeepsOrDrops
      <3>2. job'[c].phase # "idle"
        BY <2>2
      <3> QED
        BY <2>1, <2>2, <3>1, <3>2, SilentCount
    <2>3. CASE /\ job'[c].phase = "idle"
               /\ \/ flushed' = flushed /\ job[c].phase = "late" /\ job[c].open = <<>>
                  \/ flushed' = sent /\ job[c].phase = "flushing"
      <3>1. job[c].open = <<>> /\ job'[c].open = <<>> /\ ~Traced(c) /\ ~Traced(c)'
        BY <1>1, <1>4, <2>1, <2>3 DEF TidyOK, Moves, KeepsOrDrops, Traced
      <3>2. \A s : ~Due(c, s) /\ ~Due(c, s)'
        BY <2>1, <3>1 DEF Due
      <3>3. job[c].phase = "late" => framework # "lambda"
        BY <1>1 DEF FrameInv
      <3> QED
        BY <2>1, <2>3, <3>2, <3>3, SilentCount
    <2> QED
      BY <1>4, <2>2, <2>3 DEF Moves
  <1> QED
    BY <1>2, <1>3, <1>4

\* Every step keeps the counts.
LEMMA CountStep ==
  ASSUME SendInv, NEW c \in Ctx, Step(c)
  PROVE  CountInv'
  <1>1. Effect(c) /\ \A d \in Ctx \ {c} : job'[d] = job[d]
    BY ReportStep DEF SendInv
  <1>2. ASSUME job'[c].tidy PROVE Counted(c)'
    <2>1. ASSUME NEW o \in Outcomes, Leaves(c, o) \/ Replies(c, o) \/ Ends(c, o) \/ TearsDown(c, o)
          PROVE  Counted(c)'
      BY <1>2, <2>1, LeavesCount, RepliesCount, EndsCount
    <2> QED
      BY <1>1, <1>2, <2>1, MakesCount, MovesCount DEF Effect
  <1>3. ~job'[c].tidy => Counted(c)'
    BY DEF Counted
  <1>4. \A d \in Ctx \ {c} : Counted(d)'
    BY <1>1, OthersCount
  <1> QED
    BY <1>2, <1>3, <1>4 DEF CountInv

\* All of the invariant is kept.
LEMMA SendInvStep == SendInv /\ [MiddlewareNext]_mvars => SendInv'
  <1> SUFFICES ASSUME SendInv, [MiddlewareNext]_mvars PROVE SendInv'
    OBVIOUS
  <1>1. ReportInv'
    BY ReportInvStep DEF SendInv
  <1>2. ASSUME NEW c \in Ctx, Step(c) PROVE BooksInv' /\ CountInv'
    BY <1>2, CountStep, ReportStep, BooksStep, ReportParts DEF SendInv
  <1>3. ASSUME UNCHANGED mvars PROVE BooksInv' /\ CountInv'
    <2>1. BooksInv'
      BY <1>3 DEF mvars, SendInv, BooksInv
    <2>2. CountInv'
      BY <1>3 DEF mvars, SendInv, CountInv, Counted, Due, Traced, Querying
    <2> QED
      BY <2>1, <2>2
  <1> QED
    BY <1>1, <1>2, <1>3 DEF SendInv, MiddlewareNext

\* No request has begun.
LEMMA SendInit == MiddlewareInit => SendInv
  <1> SUFFICES ASSUME MiddlewareInit PROVE SendInv
    OBVIOUS
  <1>1. /\ dbspan = [c \in Ctx |-> None] /\ made = <<>>
        /\ \A c \in Ctx : job[c].root = None /\ job[c].open = <<>>
    BY DEF MiddlewareInit, Job
  <1>2. RootsOK(made)
    BY <1>1 DEF RootsOK
  <1>3. ASSUME NEW c \in Ctx PROVE BookOK(job[c], dbspan[c], made) /\ Counted(c)
    BY <1>1 DEF BookOK, Counted
  <1>4. \A c, d \in Ctx : ApartOK(job[c], dbspan[c], job[d], made)
    BY <1>1 DEF ApartOK
  <1> QED
    BY <1>2, <1>3, <1>4, ReportInit DEF SendInv, BooksInv, CountInv

\* The invariant holds at all times.
LEMMA SendInvCorrect == MiddlewareSpec => []SendInv
  BY SendInit, SendInvStep, PTL DEF MiddlewareSpec

\* A tidy request is reported once and whole, and flushed when a lambda returns, whatever
\* the other threads, untidy requests before it and blocks between requests did.
THEOREM ReportedOnceCorrect == MiddlewareSpec => []ReportedOnce
  <1>1. SendInv => ReportedOnce
    <2> SUFFICES ASSUME SendInv, NEW c \in Ctx, job[c].phase = "idle", job[c].tidy, job[c].root # None,
                        NEW s \in DOMAIN spans, made[s] = job[c].root
                 PROVE  /\ sent[s] = 1
                        /\ framework = "lambda" => s \in DOMAIN flushed /\ flushed[s] = 1
      BY DEF ReportedOnce
    <2>1. s \in 1..Len(spans) /\ Counted(c) /\ ~Due(c, s)
      BY ReportParts, IdleNotDue, LenProperties DEF SendInv, CountInv, HeapOK
    <2> QED
      BY <2>1 DEF Counted
  <1> QED
    BY <1>1, SendInvCorrect, PTL

\* Whatever untidy requests, hooks that raise and other threads leave behind, a thread
\* sends the spans of its own request and the query in its `state`, and no others.
THEOREM ReportsOwnCorrect == MiddlewareSpec => ReportsOwn
  <1>1. SendInv /\ [MiddlewareNext]_mvars =>
          [ \A c \in Ctx : Step(c) =>
              \A s \in DOMAIN spans : sent'[s] # sent[s] => made[s] = Owner(c) \/ s = dbspan[c] ]_mvars
    <2> SUFFICES ASSUME SendInv, NEW c \in Ctx, Step(c), NEW s \in DOMAIN spans, sent'[s] # sent[s]
                 PROVE  made[s] = Owner(c) \/ s = dbspan[c]
      OBVIOUS
    <2>1. s \in 1..Len(spans)
      BY ReportParts, LenProperties DEF SendInv, HeapOK
    <2>2. Effect(c)
      BY ReportStep DEF SendInv
    <2> QED
      BY <2>1, <2>2, EffectSendsOwn DEF SendInv, SendsOwn
  <1> QED
    BY <1>1, SendInvCorrect, PTL DEF MiddlewareSpec, ReportsOwn

-----------------------------------------------------------------------------
(* The root is sent last *)

\* As long as span s may still be sent, the root it was made for has not been.
Unsent(s) ==
  made[s] \notin {None, s} /\ spans[s].trace = spans[made[s]].trace => sent[made[s]] = 0

Among(st, s) == \E i \in 1..Len(st) : st[i] = s

\* What the teardown of flask relies on: until it runs, the root and all that its request
\* has open is on the stack, so that the root is innermost only when it is alone; after
\* it, a stack that is still of the trace of the request means that the root stayed on it.
FlaskOK(c) ==
  /\ job[c].phase = "late" => \A s : Among(job[c].open, s) => Unsent(s)
  /\ dbspan[c] # None => Unsent(dbspan[c])
  /\ job[c].phase = "late" /\ current[c] # None /\ traces[current[c]].id = spans[job[c].root].trace =>
       sent[job[c].root] = 0
  /\ job[c].phase = "app" =>
       /\ Path(c) # <<>> /\ Path(c)[1] = job[c].root
       /\ \A s : Among(job[c].open, s) => Among(Path(c), s)
       /\ dbspan[c] # None /\ made[dbspan[c]] = job[c].root => Among(Path(c), dbspan[c])

LastOK(c) ==
  /\ framework # "wsgi" /\ Traced(c) => sent[job[c].root] = 0
  /\ framework = "flask" => FlaskOK(c)

LastInv == \A c \in Ctx : LastOK(c)

WholeInv == SendInv /\ LastInv

\* What the lemmas below need of the invariant.
LEMMA WholeParts ==
  ASSUME WholeInv, NEW c \in Ctx
  PROVE  /\ MiddlewareInv /\ HeapOK /\ RefsOK /\ PathsOK /\ FrameInv /\ ReportInv /\ BooksInv
         /\ BookOK(job[c], dbspan[c], made) /\ LastOK(c) /\ RootsOK(made)
         /\ Len(spans) \in Nat /\ Len(made) = Len(spans)
  BY ReportParts, JobTypes DEF WholeInv, SendInv, LastInv, BooksInv, MiddlewareInv, ShapeOK

\* A step leaves the spans, and the ids of the traces, that there are.
LEMMA ObjectsStay ==
  ASSUME MiddlewareInv, NEW c \in Ctx, Effect(c)
  PROVE  /\ \A s \in 1..Len(spans) : spans'[s] = spans[s]
         /\ \A t \in 1..Len(traces) : traces'[t].id = traces[t].id
  <1>1. HeapOK /\ RefsOK /\ spans \in Seq(SpanSet(Len(traces), Len(spans))) /\ Len(spans) \in Nat
    BY LenProperties DEF MiddlewareInv, HeapOK
  <1>2. ASSUME NEW x, spans' = Append(spans, x) PROVE \A s \in 1..Len(spans) : spans'[s] = spans[s]
    BY <1>1, <1>2, LastAppended
  <1>3. ASSUME NEW id, NEW p, StartTrace(c, id, p)
        PROVE  /\ \A s \in 1..Len(spans) : spans'[s] = spans[s]
               /\ \A t \in 1..Len(traces) : traces'[t].id = traces[t].id
    <2>1. \E t : traces' = Append(traces, t)
      BY <1>3 DEF StartTrace
    <2>2. \E x : spans' = Append(spans, x)
      BY <1>3 DEF StartTrace, PushSpan
    <2> QED
      BY <1>1, <1>2, <2>1, <2>2, TraceAppended
  <1>4. ASSUME NEW st, current[c] # None, traces' = [traces EXCEPT ![current[c]].stack = st]
        PROVE  \A t \in 1..Len(traces) : traces'[t].id = traces[t].id
    <2>1. current[c] \in 1..Len(traces)
      BY <1>1, <1>4, StackOfType
    <2> QED
      BY <1>1, <1>4, <2>1, StackReplaced
  <1>5. ASSUME NEW p, StartSpan(c, p)
        PROVE  /\ \A s \in 1..Len(spans) : spans'[s] = spans[s]
               /\ \A t \in 1..Len(traces) : traces'[t].id = traces[t].id
    <2>1. PICK st : st = Append(Stack(c), NewSpan)
      OBVIOUS
    <2>2. current[c] # None /\ traces' = [traces EXCEPT ![current[c]].stack = st]
      BY <1>5, <2>1 DEF StartSpan, Stack
    <2>3. \E x : spans' = Append(spans, x)
      BY <1>5 DEF StartSpan, PushSpan
    <2> QED
      BY <1>2, <1>4, <2>2, <2>3
  <1>6. ASSUME NEW s, NEW o, FinishSpan(c, s, o) \/ FinishTrace(c, s, o)
        PROVE  UNCHANGED spans /\ \A t \in 1..Len(traces) : traces'[t].id = traces[t].id
    <2>1. UNCHANGED spans /\ (UNCHANGED traces \/ Pop(c, s))
      BY <1>6 DEF FinishSpan, FinishTrace
    <2>2. CASE Pop(c, s) /\ IsInnermost(c, s)
      <3>1. PICK st : st = Front(Stack(c))
        OBVIOUS
      <3>2. current[c] # None /\ traces' = [traces EXCEPT ![current[c]].stack = st]
        BY <2>2, <3>1 DEF Pop, IsInnermost, Stack
      <3> QED
        BY <1>4, <2>1, <3>2
    <2>3. CASE UNCHANGED traces
      BY <2>1, <2>3
    <2> QED
      BY <2>1, <2>2, <2>3 DEF Pop
  <1>7. CASE Arrives(c)
    BY <1>3, <1>7 DEF Arrives
  <1>8. CASE Enters(c) \/ Asks(c)
    BY <1>3, <1>5, <1>8 DEF Enters, Asks, NewEvent
  <1>9. CASE \E o \in Outcomes : Leaves(c, o) \/ Replies(c, o) \/ Ends(c, o) \/ TearsDown(c, o)
    BY <1>6, <1>9 DEF Leaves, Replies, Ends, TearsDown, Close
  <1>10. CASE AsksInVain(c) \/ Moves(c) \/ Refuses(c)
    BY <1>10 DEF AsksInVain, Moves, Refuses, vars
  <1> QED
    BY <1>7, <1>8, <1>9, <1>10 DEF Effect

\* The roots that a step may send: none but that of its own request,
LEMMA RootsKept ==
  ASSUME WholeInv, NEW c \in Ctx, Effect(c), NEW r \in 1..Len(spans), made[r] = r, r # Owner(c)
  PROVE  sent'[r] = sent[r]
  <1>1. ReportInv /\ BooksInv /\ BookOK(job[c], dbspan[c], made) /\ r # None
    BY WholeParts DEF None
  <1>2. r # dbspan[c]
    BY <1>1 DEF BookOK
  <1> QED
    BY <1>1, <1>2, EffectSendsOwn DEF SendsOwn

\* and that one only when it ends it.
LEMMA RootStays ==
  ASSUME WholeInv, NEW c \in Ctx, NEW o, Leaves(c, o) \/ Replies(c, o),
         NEW r \in 1..Len(spans), made[r] = r
  PROVE  sent'[r] = sent[r]
  <1>1. MiddlewareInv /\ HeapOK /\ BooksInv /\ BookOK(job[c], dbspan[c], made) /\ r # None /\ Len(spans) \in Nat
    BY WholeParts DEF None
  <1>2. ASSUME Leaves(c, o) PROVE sent'[r] = sent[r]
    <2>1. Emit(Last(job[c].open), o) /\ job[c].open # <<>>
      BY <1>2 DEF Leaves, Close, FinishSpan, FinishTrace
    <2>2. PICK x \in 1..Len(spans) : x = Last(job[c].open) /\ made[x] = Owner(c) /\ Owner(c) < x
      BY <1>1, <2>1, LastOpen
    <2>3. r # x
      BY <1>1, <2>2
    <2> QED
      BY <1>1, <2>1, <2>2, <2>3, EmitCounts
  <1>3. ASSUME Replies(c, o) PROVE sent'[r] = sent[r]
    <2>1. CASE dbspan[c] # None
      <3>1. dbspan[c] \in 1..Len(spans) /\ dbspan[c] # r
        BY <1>1, <2>1, JobTypes DEF None, BookOK
      <3>2. Emit(dbspan[c], o)
        BY <1>3, <2>1 DEF Replies, FinishSpan
      <3> QED
        BY <1>1, <3>1, <3>2, EmitCounts
    <2> QED
      BY <1>3, <2>1 DEF Replies
  <1> QED
    BY <1>2, <1>3

\* A span stays unsent or without a root while its root is not sent.
LEMMA UnsentStays ==
  ASSUME WholeInv, NEW c \in Ctx, Effect(c), NEW s \in 1..Len(spans), Unsent(s),
         made[s] \in 1..Len(spans) => sent'[made[s]] = sent[made[s]]
  PROVE  Unsent(s)'
  <1>1. MiddlewareInv /\ Len(spans) \in Nat
    BY WholeParts
  <1>2. made'[s] = made[s] /\ spans'[s] = spans[s]
    BY <1>1, MadeKept, ObjectsStay
  <1>3. PICK r : r = made[s]
    OBVIOUS
  <1>4. r \in 0..Len(spans)
    BY <1>1, <1>3, ElementOfSeq DEF MiddlewareInv, ShapeOK
  <1>5. CASE r = None
    BY <1>2, <1>3, <1>5 DEF Unsent
  <1>6. CASE r # None
    <2>1. r \in 1..Len(spans)
      BY <1>1, <1>4, <1>6 DEF None
    <2>2. spans'[r] = spans[r] /\ sent'[r] = sent[r]
      BY <1>1, <1>3, <2>1, ObjectsStay
    <2> QED
      BY <1>2, <1>3, <2>2 DEF Unsent
  <1> QED
    BY <1>5, <1>6

\* The elements of a thread's books.
LEMMA BookElements ==
  ASSUME WholeInv, NEW c \in Ctx
  PROVE  /\ \A i \in 1..Len(job[c].open) : job[c].open[i] \in 1..Len(spans) /\ made[job[c].open[i]] = Owner(c)
                                           /\ Owner(c) < job[c].open[i]
         /\ dbspan[c] # None => /\ dbspan[c] \in 1..Len(spans) /\ made[dbspan[c]] \in 1..Len(spans)
                                /\ made[made[dbspan[c]]] = made[dbspan[c]] /\ made[dbspan[c]] # dbspan[c]
         /\ job[c].root # None => job[c].root \in 1..Len(spans) /\ made[job[c].root] = job[c].root
         /\ Live(c) => job[c].root # None /\ Owner(c) = job[c].root
  <1>1. /\ MiddlewareInv /\ BookOK(job[c], dbspan[c], made) /\ RootsOK(made) /\ Len(spans) \in Nat
        /\ Len(made) = Len(spans)
    BY WholeParts
  <1>2. /\ Fit(job[c]) /\ job[c].open \in Seq(1..Len(spans)) /\ job[c].root \in 0..Len(spans)
        /\ dbspan[c] \in 0..Len(spans)
    BY <1>1, JobTypes
  <1>3. \A k \in 0..Len(spans) : k # None => k \in 1..Len(spans)
    BY <1>1 DEF None
  <1>4. \A i \in 1..Len(job[c].open) : job[c].open[i] \in 1..Len(spans)
    BY <1>2, ElementOfSeq
  <1>5. \A i \in 1..Len(job[c].open) : made[job[c].open[i]] = Owner(c) /\ Owner(c) < job[c].open[i]
    BY <1>1 DEF BookOK, Owner
  <1>6. ASSUME dbspan[c] # None
        PROVE  /\ dbspan[c] \in 1..Len(spans) /\ made[dbspan[c]] \in 1..Len(spans)
               /\ made[made[dbspan[c]]] = made[dbspan[c]] /\ made[dbspan[c]] # dbspan[c]
    <2>1. PICK s \in 1..Len(spans) : s = dbspan[c]
      BY <1>2, <1>3, <1>6
    <2>2. made[s] # None /\ made[s] # s
      BY <1>1, <1>6, <2>1 DEF BookOK
    <2>3. made[s] \in 0..Len(spans)
      BY <1>1, ElementOfSeq DEF MiddlewareInv, ShapeOK
    <2> QED
      BY <1>1, <1>3, <2>1, <2>2, <2>3 DEF RootsOK
  <1>7. job[c].root # None => job[c].root \in 1..Len(spans) /\ made[job[c].root] = job[c].root
    BY <1>1, <1>2, <1>3 DEF BookOK
  <1>8. Live(c) => job[c].root # None /\ Owner(c) = job[c].root
    BY <1>2 DEF Live, Fit, Owner
  <1> QED
    BY <1>4, <1>5, <1>6, <1>7, <1>8

\* What a step sends was sent before its root.
LEMMA SendsUnsent ==
  ASSUME WholeInv, NEW c \in Ctx, Effect(c), framework # "wsgi", NEW s \in 1..Len(spans), sent'[s] # sent[s]
  PROVE  Unsent(s)
  <1>1. MiddlewareInv /\ HeapOK /\ FrameInv /\ BooksInv /\ LastOK(c) /\ ReportInv
    BY WholeParts
  <1>2. \A x \in 1..Len(spans) : \A o : Emit(x, o) => s = x
    BY <1>1, EmitCounts
  <1>3. ASSUME Traced(c), made[s] = job[c].root PROVE Unsent(s)
    BY <1>1, <1>3 DEF LastOK, Unsent
  <1>4. CASE UNCHANGED sent
    BY <1>4
  <1>5. CASE Arrives(c) \/ Enters(c) \/ Asks(c)
    BY <1>1, <1>5, MakesCounts, PushCounts
  <1>6. ASSUME NEW o, Leaves(c, o) PROVE Unsent(s)
    <2>1. Emit(Last(job[c].open), o) /\ job[c].open # <<>> /\ job[c].phase # "flushing"
      BY <1>6 DEF Leaves, Close, FinishSpan, FinishTrace
    <2>2. s = Last(job[c].open) /\ made[s] = Owner(c) /\ \E i \in 1..Len(job[c].open) : s = job[c].open[i]
      <3>1. PICK x \in 1..Len(spans) : x = Last(job[c].open)
        BY <1>1, <2>1, LastOpen
      <3>2. s = x
        BY <1>2, <2>1, <3>1
      <3>3. /\ made[Last(job[c].open)] = Owner(c)
            /\ \E i \in 1..Len(job[c].open) : Last(job[c].open) = job[c].open[i]
        BY <1>1, <2>1, LastOpenMade
      <3> QED
        BY <3>1, <3>2, <3>3
    <2>3. CASE job[c].phase = "idle"
      BY <2>2, <2>3 DEF Owner, Unsent
    <2>4. CASE Traced(c)
      BY <1>3, <2>2, <2>4 DEF Owner, Traced
    <2>5. CASE job[c].phase = "late"
      <3>1. FlaskOK(c) /\ Among(job[c].open, s)
        BY <1>1, <2>2, <2>5 DEF FrameInv, LastOK, Among
      <3> QED
        BY <2>5, <3>1 DEF FlaskOK
    <2> QED
      BY <1>1, <2>1, <2>3, <2>4, <2>5, JobTypes DEF JobSet, Phases, Traced
  <1>7. ASSUME NEW o, Replies(c, o) PROVE Unsent(s)
    <2>1. dbspan[c] # None /\ Emit(dbspan[c], o) /\ framework = "flask"
      BY <1>4, <1>7 DEF Replies, FinishSpan
    <2>2. s = dbspan[c]
      BY <1>2, <2>1, BookElements
    <2> QED
      BY <1>1, <2>1, <2>2 DEF LastOK, FlaskOK
  <1>8. ASSUME NEW o, Ends(c, o) PROVE Unsent(s)
    <2>1. job[c].root \in 1..Len(spans) /\ made[job[c].root] = job[c].root
      BY <1>8, BookElements DEF Ends
    <2>2. s = job[c].root
      BY <1>2, <1>8, <2>1 DEF Ends, FinishTrace
    <2> QED
      BY <2>1, <2>2 DEF Unsent
  <1>9. ASSUME NEW o, TearsDown(c, o) PROVE Unsent(s)
    <2>1. ActiveSpan(c) # None /\ Emit(ActiveSpan(c), o) /\ Live(c) /\ Traced(c)
      BY <1>4, <1>9 DEF TearsDown, Close, FinishSpan, FinishTrace, Live, Traced
    <2>2. ActiveSpan(c) \in 1..Len(spans) /\ made[ActiveSpan(c)] = job[c].root
      BY <1>1, <2>1, ActiveOwned
    <2>3. s = ActiveSpan(c)
      BY <1>2, <2>1, <2>2
    <2> QED
      BY <1>3, <2>1, <2>2, <2>3
  <1> QED
    BY <1>4, <1>5, <1>6, <1>7, <1>8, <1>9 DEF Effect, AsksInVain, Moves, Refuses, vars

\* What the state after a step has to show.
LEMMA FlaskNext ==
  ASSUME NEW c \in Ctx, NEW op, op = job'[c].open, NEW db, db = dbspan'[c], NEW r, r = job'[c].root,
         NEW p, p = Path(c)',
         job'[c].phase = "late" => \A s : Among(op, s) => Unsent(s)',
         db # None => Unsent(db)',
         job'[c].phase = "late" /\ current'[c] # None /\ traces'[current'[c]].id = spans'[r].trace => sent'[r] = 0,
         job'[c].phase = "app" =>
           /\ p # <<>> /\ p[1] = r
           /\ \A s : Among(op, s) => Among(p, s)
           /\ db # None /\ made'[db] = r => Among(p, db)
  PROVE  FlaskOK(c)'
  <1>1. job'[c].phase = "late" => \A s : Among(job'[c].open, s) => Unsent(s)'
    OBVIOUS
  <1>2. dbspan'[c] # None => (made'[dbspan'[c]] \notin {None, dbspan'[c]}
          /\ spans'[dbspan'[c]].trace = spans'[made'[dbspan'[c]]].trace => sent'[made'[dbspan'[c]]] = 0)
    BY DEF Unsent
  <1>3. job'[c].phase = "late" /\ current'[c] # None
        /\ traces'[current'[c]].id = spans'[job'[c].root].trace => sent'[job'[c].root] = 0
    OBVIOUS
  <1>4. job'[c].phase = "app" =>
          /\ Path(c)' # <<>> /\ Path(c)'[1] = job'[c].root
          /\ \A s : Among(job'[c].open, s) => Among(Path(c)', s)
          /\ dbspan'[c] # None /\ made'[dbspan'[c]] = job'[c].root => Among(Path(c)', dbspan'[c])
    OBVIOUS
  <1> QED
    BY <1>1, <1>2, <1>3, <1>4 DEF FlaskOK, Unsent, Among

\* The roots of the other threads stay as they are.
LEMMA OthersLast ==
  ASSUME WholeInv, NEW c \in Ctx, Effect(c), OthersKept(c), NEW d \in Ctx \ {c}, job'[d] = job[d]
  PROVE  LastOK(d)'
  <1>1. MiddlewareInv /\ HeapOK /\ RefsOK /\ LastOK(d) /\ framework' = framework /\ dbspan'[d] = dbspan[d]
    BY WholeParts, EffectsApart
  <1>2. PICK r : r = job[d].root
    OBVIOUS
  <1>3. ApartOK(job[c], dbspan[c], job[d], made) /\ ApartOK(job[d], dbspan[d], job[c], made)
    BY WholeParts DEF BooksInv
  <1>4. Live(d) => r \in 1..Len(spans) /\ sent'[r] = sent[r] /\ made[r] = r
    <2> SUFFICES ASSUME Live(d) PROVE r \in 1..Len(spans) /\ sent'[r] = sent[r] /\ made[r] = r
      OBVIOUS
    <2>1. r # None /\ r \in 1..Len(spans) /\ made[r] = r
      BY <1>2, BookElements
    <2>2. r # Owner(c)
      BY <1>2, <1>3, <2>1 DEF ApartOK, Owner
    <2> QED
      BY <2>1, <2>2, RootsKept
  <1>5. framework # "wsgi" /\ Traced(d)' => sent'[job'[d].root] = 0
    BY <1>1, <1>2, <1>4 DEF LastOK, Traced, Live
  <1>6. ASSUME framework = "flask" PROVE FlaskOK(d)'
    <2>1. FlaskOK(d) /\ Path(d)' = Path(d)
      BY <1>1, <1>6 DEF LastOK, OthersKept, Path, Stack
    <2>2. PICK op, db, p : op = job[d].open /\ db = dbspan[d] /\ p = Path(d)
      OBVIOUS
    <2>3. op = job'[d].open /\ db = dbspan'[d] /\ p = Path(d)' /\ r = job'[d].root
          /\ job'[d].phase = job[d].phase
      BY <1>1, <1>2, <2>1, <2>2
    <2>4. job[d].phase = "late" => \A s : Among(op, s) => Unsent(s)'
      <3> SUFFICES ASSUME job[d].phase = "late", NEW s, Among(op, s) PROVE Unsent(s)'
        OBVIOUS
      <3>1. Live(d) /\ Unsent(s)
        BY <2>1, <2>2, Zenon DEF FlaskOK, Live
      <3>2. s \in 1..Len(spans) /\ made[s] = r
        BY <1>2, <2>2, <3>1, BookElements DEF Among
      <3> QED
        BY <1>4, <3>1, <3>2, UnsentStays
    <2>5. db # None => Unsent(db)'
      <3> SUFFICES ASSUME db # None PROVE Unsent(db)'
        OBVIOUS
      <3>1. db \in 1..Len(spans)
        BY <2>2, BookElements
      <3>2. PICK q \in 1..Len(spans) : q = made[db] /\ made[q] = q
        BY <2>2, BookElements
      <3>3. Unsent(db)
        BY <2>1, <2>2 DEF FlaskOK
      <3>4. q # Owner(c)
        <4>1. q # None
          BY <3>2 DEF None
        <4> QED
          BY <1>3, <2>2, <3>2, <4>1 DEF ApartOK, Owner
      <3>5. sent'[q] = sent[q]
        BY <3>2, <3>4, RootsKept
      <3> QED
        BY <3>1, <3>2, <3>3, <3>5, UnsentStays
    <2>6. job[d].phase = "late" /\ current'[d] # None /\ traces'[current'[d]].id = spans'[r].trace => sent'[r] = 0
      <3> SUFFICES ASSUME job[d].phase = "late", current'[d] # None, traces'[current'[d]].id = spans'[r].trace
                   PROVE  sent'[r] = 0
        OBVIOUS
      <3>1. Live(d) /\ current'[d] = current[d]
        BY DEF Live, OthersKept
      <3>2. PICK t \in 1..Len(traces) : t = current[d]
        BY <1>1, <3>1, StackOfType
      <3>3. traces'[t].id = traces[t].id /\ spans'[r] = spans[r]
        BY <1>1, <1>4, <3>1, <3>2, ObjectsStay
      <3> QED
        BY <1>2, <1>4, <2>1, <3>1, <3>2, <3>3 DEF FlaskOK
    <2>7. db # None => made'[db] = made[db]
      BY <1>1, <2>2, BookElements, MadeKept
    <2>8. job[d].phase = "app" =>
            /\ p # <<>> /\ p[1] = r
            /\ \A s : Among(op, s) => Among(p, s)
            /\ db # None /\ made'[db] = r => Among(p, db)
      BY <1>2, <2>1, <2>2, <2>7 DEF FlaskOK
    <2> QED
      BY <2>3, <2>4, <2>5, <2>6, <2>8, FlaskNext
  <1> QED
    BY <1>1, <1>5, <1>6 DEF LastOK

\* What new_event makes: a span of the trace that the thread has, or of a fresh one.
LEMMA NewEventMakes ==
  ASSUME MiddlewareInv, NEW c \in Ctx, NewEvent(c), NEW m, made' = Append(made, m)
  PROVE  /\ NewSpan = Len(spans) + 1 /\ Len(spans) \in Nat /\ made'[NewSpan] = m /\ sent' = Append(sent, 0)
         /\ current[c] # None => current' = current /\ spans'[NewSpan].trace = traces[current[c]].id
         /\ current[c] = None => /\ spans'[NewSpan].trace = Len(traces) + 1
                                 /\ traces'[current'[c]].id = Len(traces) + 1
         /\ \A s \in 1..Len(spans) : spans[s].trace # Len(traces) + 1
  <1>1. HeapOK /\ RefsOK /\ Len(spans) \in Nat /\ Len(traces) \in Nat
    BY LenProperties DEF MiddlewareInv, HeapOK
  <1>2. ASSUME NEW x, spans' = Append(spans, x) PROVE spans'[NewSpan] = x /\ made'[NewSpan] = m
    BY <1>2, SpanAppended DEF NewSpan
  <1>3. ASSUME current[c] # None
        PROVE  current' = current /\ spans'[NewSpan].trace = traces[current[c]].id /\ made'[NewSpan] = m
    <2>1. PICK x : spans' = Append(spans, x) /\ x.trace = traces[current[c]].id
      BY <1>3 DEF NewEvent, StartSpan, PushSpan
    <2> QED
      BY <1>2, <1>3, <2>1 DEF NewEvent, StartSpan
  <1>4. ASSUME current[c] = None
        PROVE  /\ spans'[NewSpan].trace = Len(traces) + 1 /\ made'[NewSpan] = m
               /\ traces'[current'[c]].id = Len(traces) + 1
    <2>1. StartTrace(c, None, None)
      BY <1>4 DEF NewEvent
    <2>2. PICK x : spans' = Append(spans, x) /\ x.trace = Len(traces) + 1
      BY <2>1 DEF StartTrace, PushSpan, NewTrace
    <2>3. PICK t : traces' = Append(traces, t) /\ t.id = Len(traces) + 1
      BY <2>1 DEF StartTrace, NewTrace
    <2>4. traces'[Len(traces) + 1] = t
      BY <1>1, <2>3, TraceAppended
    <2>5. current'[c] = Len(traces) + 1
      BY <1>1, <2>1 DEF StartTrace, NewTrace, RefsOK
    <2> QED
      BY <1>2, <2>2, <2>3, <2>4, <2>5
  <1>5. sent' = Append(sent, 0)
    BY DEF NewEvent, StartTrace, StartSpan, PushSpan
  <1>6. ASSUME NEW s \in 1..Len(spans) PROVE spans[s].trace # Len(traces) + 1
    <2>1. spans[s] \in SpanSet(Len(traces), Len(spans))
      BY <1>1, ElementOfSeq DEF HeapOK
    <2>2. spans[s].trace \in CallerId \cup (1..Len(traces))
      BY <2>1 DEF SpanSet
    <2> QED
      BY <1>1, <2>2, TracerAssumption
  <1> QED
    BY <1>1, <1>3, <1>4, <1>5, <1>6 DEF NewSpan

\* What a request of flask makes is unsent: either its root is, or the trace is another.
LEMMA NewUnsent ==
  ASSUME WholeInv, NEW c \in Ctx, framework = "flask", NewEvent(c), made' = Append(made, Owner(c)), Effect(c),
         NEW n, n = NewSpan
  PROVE  Unsent(n)'
  <1>1. MiddlewareInv /\ HeapOK /\ RefsOK /\ LastOK(c) /\ FrameInv
    BY WholeParts
  <1>3. /\ n = Len(spans) + 1 /\ Len(spans) \in Nat /\ made'[n] = Owner(c)
        /\ \A u \in 1..Len(spans) : sent'[u] = sent[u]
    BY <1>1, NewEventMakes, PushCounts
  <1>4. CASE Owner(c) = None
    BY <1>3, <1>4 DEF Unsent
  <1>5. CASE Owner(c) # None
    <2>1. job[c].phase # "flushing" /\ job[c].phase # "idle"
      BY <1>1, <1>5 DEF FrameInv, Owner
    <2>2. Live(c) /\ (Traced(c) \/ job[c].phase = "late")
      BY <1>1, <2>1, JobTypes DEF JobSet, Phases, Live, Traced
    <2>3. PICK r \in 1..Len(spans) : r = job[c].root /\ r = Owner(c) /\ sent'[r] = sent[r] /\ spans'[r] = spans[r]
      BY <1>1, <1>3, <2>2, BookElements, ObjectsStay
    <2>4. ASSUME spans'[n].trace = spans[r].trace PROVE sent[r] = 0
      <3>1. CASE Traced(c)
        BY <1>1, <2>3, <3>1 DEF LastOK
      <3>2. CASE job[c].phase = "late"
        <4>1. current[c] # None /\ spans'[n].trace = traces[current[c]].id
          BY <1>1, <2>3, <2>4, NewEventMakes
        <4> QED
          BY <1>1, <2>3, <2>4, <3>2, <4>1 DEF LastOK, FlaskOK
      <3> QED
        BY <2>2, <3>1, <3>2
    <2> QED
      BY <1>3, <2>3, <2>4 DEF Unsent
  <1> QED
    BY <1>4, <1>5

\* One more at the end of a sequence.
LEMMA AmongAppended ==
  ASSUME NEW S, NEW st \in Seq(S), NEW x \in S
  PROVE  /\ Append(st, x) # <<>> /\ (st # <<>> => Append(st, x)[1] = st[1])
         /\ \A s : Among(Append(st, x), s) <=> Among(st, s) \/ s = x
  <1>1. PICK a \in Seq(S) : a = Append(st, x)
    BY SeqAppend
  <1>2. /\ Len(st) \in Nat /\ Len(a) = Len(st) + 1 /\ a[Len(st) + 1] = x
        /\ \A i \in 1..Len(st) : a[i] = st[i]
    BY <1>1, SeqAppend, LenProperties
  <1>3. a # <<>>
    BY <1>2
  <1>4. st # <<>> => Len(st) >= 1
    BY <1>2
  <1>5. \A s : Among(a, s) <=> Among(st, s) \/ s = x
    BY <1>2 DEF Among
  <1> QED
    BY <1>1, <1>2, <1>3, <1>4, <1>5

\* A block or a query that begins is below the root, and unsent.
LEMMA BeginsLast ==
  ASSUME WholeInv, NEW c \in Ctx, Enters(c) \/ Asks(c)
  PROVE  LastOK(c)'
  <1>1. MiddlewareInv /\ HeapOK /\ RefsOK /\ LastOK(c) /\ FrameInv
    BY WholeParts
  <1>2. Effect(c) /\ NewEvent(c) /\ made' = Append(made, Owner(c)) /\ SamePhase(c) /\ framework' = framework
    BY DEF Enters, Asks, Effect, NewEvent, StartSpan
  <1>3. PICK n, r : n = NewSpan /\ r = job[c].root
    OBVIOUS
  <1>4. /\ n = Len(spans) + 1 /\ Len(spans) \in Nat /\ n # None
        /\ \A u \in 1..Len(spans) : sent'[u] = sent[u] /\ made'[u] = made[u] /\ spans'[u] = spans[u]
        /\ \A t \in 1..Len(traces) : traces'[t].id = traces[t].id
    <2>1. n = Len(spans) + 1 /\ Len(spans) \in Nat /\ sent' = Append(sent, 0)
      BY <1>1, <1>2, <1>3, NewEventMakes
    <2>2. \A u \in 1..Len(spans) : sent'[u] = sent[u]
      BY <1>1, <2>1, PushCounts
    <2>3. \A u \in 1..Len(spans) : made'[u] = made[u]
      BY <1>1, <1>2, MadeKept
    <2>4. /\ \A u \in 1..Len(spans) : spans'[u] = spans[u]
          /\ \A t \in 1..Len(traces) : traces'[t].id = traces[t].id
      BY <1>1, <1>2, ObjectsStay
    <2>5. n # None
      BY <2>1 DEF None
    <2> QED
      BY <2>1, <2>2, <2>3, <2>4, <2>5
  <1>5. Live(c) => r \in 1..Len(spans)
    BY <1>3, BookElements
  <1>6. framework # "wsgi" /\ Traced(c)' => sent'[job'[c].root] = 0
    BY <1>1, <1>2, <1>3, <1>4, <1>5 DEF LastOK, Traced, Live, SamePhase
  <1>7. ASSUME NEW s \in 1..Len(spans), Unsent(s) PROVE Unsent(s)'
    BY <1>2, <1>4, <1>7, UnsentStays
  <1>8. ASSUME framework = "flask" PROVE FlaskOK(c)'
    <2>1. PICK op, db, p : op = job[c].open /\ db = dbspan[c] /\ p = Path(c)
      OBVIOUS
    <2>18. op \in Seq(1..Len(spans)) /\ p \in Seq(1..Len(spans))
      BY <1>1, <2>1, JobTypes
    <2>2. PICK op2, db2, p2 : op2 = job'[c].open /\ db2 = dbspan'[c] /\ p2 = Path(c)'
      OBVIOUS
    <2>3. p2 = Append(p, n)
      BY <1>1, <1>2, <1>3, <2>1, <2>2, NewEventPath
    <2>4. op2 = op \/ op2 = Append(op, n)
      BY <1>3, <2>1, <2>2 DEF Enters, Asks
    <2>5. db2 = db \/ db2 = n
      BY <1>1, <1>3, <2>1, <2>2 DEF Enters, Asks, MiddlewareInv, ShapeOK
    <2>6. 1..Len(spans) \subseteq 1..n /\ n \in 1..n
      BY <1>4
    <2>7. op \in Seq(1..n) /\ p \in Seq(1..n)
      BY <2>6, <2>18, SeqMonotonic
    <2>8. \A s : Among(op2, s) => Among(op, s) \/ s = n
      BY <2>4, <2>6, <2>7, AmongAppended
    <2>9. p2 # <<>> /\ (p # <<>> => p2[1] = p[1]) /\ \A s : Among(p2, s) <=> Among(p, s) \/ s = n
      <3>1. /\ Append(p, n) # <<>> /\ (p # <<>> => Append(p, n)[1] = p[1])
            /\ \A s : Among(Append(p, n), s) <=> Among(p, s) \/ s = n
        BY <2>6, <2>7, AmongAppended
      <3> QED
        BY <2>3, <3>1, Zenon
    <2>10. Unsent(n)'
      BY <1>2, <1>3, <1>8, NewUnsent
    <2>11. \A s : Among(op, s) => s \in 1..Len(spans)
      BY <2>18, ElementOfSeq DEF Among
    <2>12. db # None => db \in 1..Len(spans)
      BY <2>1, BookElements
    <2>13. job'[c].phase = "late" => \A s : Among(op2, s) => Unsent(s)'
      <3>1. job[c].phase = "late" => \A s : Among(op, s) => Unsent(s)
        BY <1>1, <1>8, <2>1, Zenon DEF LastOK, FlaskOK
      <3> QED
        BY <1>2, <1>7, <2>8, <2>10, <2>11, <3>1 DEF SamePhase
    <2>14. db2 # None => Unsent(db2)'
      <3>1. db # None => Unsent(db)
        BY <1>1, <1>8, <2>1 DEF LastOK, FlaskOK
      <3> QED
        BY <1>7, <2>5, <2>10, <2>12, <3>1
    <2>15. job'[c].phase = "late" /\ current'[c] # None /\ traces'[current'[c]].id = spans'[r].trace => sent'[r] = 0
      <3> SUFFICES ASSUME job'[c].phase = "late", current'[c] # None, traces'[current'[c]].id = spans'[r].trace
                   PROVE  sent'[r] = 0
        OBVIOUS
      <3>1. job[c].phase = "late" /\ r \in 1..Len(spans) /\ spans'[r] = spans[r] /\ sent'[r] = sent[r]
        BY <1>2, <1>4, <1>5 DEF SamePhase, Live
      <3>2. current[c] # None /\ current' = current
        BY <1>1, <1>2, <3>1, NewEventMakes
      <3>3. PICK t \in 1..Len(traces) : t = current[c]
        BY <1>1, <3>2, StackOfType
      <3>4. traces'[t].id = traces[t].id
        BY <1>4
      <3> QED
        BY <1>1, <1>3, <1>8, <3>1, <3>2, <3>3, <3>4 DEF LastOK, FlaskOK
    <2>16. job'[c].phase = "app" =>
             /\ p2 # <<>> /\ p2[1] = r
             /\ \A s : Among(op2, s) => Among(p2, s)
             /\ db2 # None /\ made'[db2] = r => Among(p2, db2)
      <3>1. job[c].phase = "app" =>
              /\ p # <<>> /\ p[1] = r
              /\ \A s : Among(op, s) => Among(p, s)
              /\ db # None /\ made[db] = r => Among(p, db)
        BY <1>1, <1>3, <1>8, <2>1, Zenon DEF LastOK, FlaskOK
      <3>2. db # None => made'[db] = made[db]
        BY <1>4, <2>12
      <3> QED
        BY <1>2, <2>5, <2>8, <2>9, <3>1, <3>2 DEF SamePhase
    <2>17. r = job'[c].root
      BY <1>2, <1>3 DEF SamePhase
    <2> QED
      BY <2>2, <2>13, <2>14, <2>15, <2>16, <2>17, FlaskNext
  <1> QED
    BY <1>2, <1>6, <1>8 DEF LastOK

\* A request begins with its root alone.
LEMMA ArrivesLast ==
  ASSUME WholeInv, NEW c \in Ctx, Arrives(c)
  PROVE  LastOK(c)'
  <1>1. MiddlewareInv /\ HeapOK /\ RefsOK /\ LastOK(c) /\ Effect(c) /\ framework' = framework /\ dbspan' = dbspan
    BY WholeParts DEF Effect, Arrives
  <1>2. PICK n : n = NewSpan
    OBVIOUS
  <1>3. /\ n = Len(spans) + 1 /\ Len(spans) \in Nat /\ sent'[n] = 0
        /\ \A u \in 1..Len(spans) : sent'[u] = sent[u] /\ made'[u] = made[u]
    BY <1>1, <1>2, MakesCounts, PushCounts, MadeKept, JobTypes DEF NewSpan
  <1>4. job'[c].root = n /\ job'[c].phase = "app" /\ job'[c].open = <<>>
    BY <1>2 DEF Arrives
  <1>5. ASSUME framework = "flask" PROVE FlaskOK(c)'
    <2>1. PICK db, p2 : db = dbspan'[c] /\ db = dbspan[c] /\ p2 = Path(c)'
      BY <1>1
    <2>2. p2 = <<n>>
      BY <1>1, <1>2, <2>1, StartTracePath DEF Arrives
    <2>3. db # None => db \in 1..Len(spans) /\ made[db] \in 1..Len(spans)
      BY <2>1, BookElements
    <2>4. db # None => Unsent(db)'
      <3>1. db # None => Unsent(db)
        BY <1>1, <1>5, <2>1 DEF LastOK, FlaskOK
      <3> QED
        BY <1>1, <1>3, <2>3, <3>1, UnsentStays
    <2>5. p2 # <<>> /\ p2[1] = n
      BY <2>2
    <2>6. \A s : ~Among(<<>>, s)
      BY DEF Among
    <2>7. db # None => made'[db] # n
      BY <1>3, <2>3
    <2> QED
      BY <1>4, <2>1, <2>4, <2>5, <2>6, <2>7, FlaskNext
  <1> QED
    BY <1>1, <1>3, <1>4, <1>5 DEF LastOK

\* One less at the end of a path keeps the bottom and all but the innermost.
LEMMA AmongFront ==
  ASSUME NEW S, NEW st \in Seq(S), st # <<>>
  PROVE  /\ \A s : Among(st, s) <=> Among(Front(st), s) \/ s = Last(st)
         /\ st[1] # Last(st) => Front(st) # <<>> /\ Front(st)[1] = st[1]
  <1>1. PICK a \in Seq(S) : a = Front(st)
    BY SeqFront
  <1>2. /\ Len(st) \in Nat \ {0} /\ Len(a) = Len(st) - 1 /\ (\A i \in 1..(Len(st) - 1) : a[i] = st[i])
        /\ Last(st) = st[Len(st)]
    BY <1>1, SeqFront
  <1>3. \A s : Among(st, s) <=> Among(a, s) \/ s = Last(st)
    <2>1. \A i \in 1..Len(st) : i = Len(st) \/ i \in 1..Len(a)
      BY <1>2
    <2>2. \A i \in 1..Len(a) : i \in 1..Len(st) /\ a[i] = st[i]
      BY <1>2
    <2>3. Len(st) \in 1..Len(st)
      BY <1>2
    <2> QED
      BY <1>2, <2>1, <2>2, <2>3 DEF Among
  <1>4. st[1] # Last(st) => a # <<>> /\ a[1] = st[1]
    <2> SUFFICES ASSUME st[1] # Last(st) PROVE a # <<>> /\ a[1] = st[1]
      OBVIOUS
    <2>1. Len(st) # 1
      BY <1>2
    <2>2. 1 \in 1..(Len(st) - 1) /\ Len(a) # 0
      BY <1>2, <2>1
    <2> QED
      BY <1>2, <2>2
  <1> QED
    BY <1>1, <1>3, <1>4

\* What is on the path of a request and is not its root is not made as a root.
LEMMA OnlyRootIsRoot ==
  ASSUME HeapOK, RefsOK, PathsOK, NEW c \in Ctx, Path(c) # <<>>, NEW x, Among(Path(c), x), x # Path(c)[1]
  PROVE  ~spans[x].root
  <1>1. current[c] # None /\ Path(c) = Stack(c)
    BY DEF Path
  <1>2. PICK st : st = Stack(c)
    OBVIOUS
  <1>3. PathOK(traces[current[c]].stack, traces[current[c]].id, spans)
    BY <1>1, StackOfType DEF PathsOK
  <1>4. PathOK(st, traces[current[c]].id, spans)
    BY <1>2, <1>3 DEF Stack
  <1>5. PICK i \in 1..Len(st) : st[i] = x /\ i # 1
    BY <1>1, <1>2 DEF Among
  <1> QED
    BY <1>4, <1>5 DEF PathOK

\* The path after a span other than its bottom is finished.
LEMMA FinishKeepsPath ==
  ASSUME HeapOK, RefsOK, NEW c \in Ctx, NEW x, NEW o, FinishSpan(c, x, o),
         Path(c) # <<>>, x # Path(c)[1]
  PROVE  /\ Path(c)' # <<>> /\ Path(c)'[1] = Path(c)[1]
         /\ \A s : Among(Path(c), s) /\ s # x => Among(Path(c)', s)
         /\ o = "raised" => Path(c)' = Path(c)
  <1>1. PICK p \in Seq(1..Len(spans)) : p = Path(c)
    BY PathType
  <1>2. PICK p2 : p2 = Path(c)'
    OBVIOUS
  <1>3. p2 = IF o # "raised" /\ IsInnermost(c, x) THEN Front(p) ELSE p
    BY <1>1, <1>2, FinishSpanPath
  <1>4. IsInnermost(c, x) => Last(p) = x
    BY <1>1 DEF IsInnermost, Path
  <1>5. /\ \A s : Among(p, s) <=> Among(Front(p), s) \/ s = Last(p)
        /\ p[1] # Last(p) => Front(p) # <<>> /\ Front(p)[1] = p[1]
    BY <1>1, AmongFront
  <1>6. /\ p2 # <<>> /\ p2[1] = p[1]
        /\ \A s : Among(p, s) /\ s # x => Among(p2, s)
        /\ o = "raised" => p2 = p
    BY <1>1, <1>3, <1>4, <1>5
  <1> QED
    BY <1>1, <1>2, <1>6

\* A block or a query that ends is not the root, which stays below what is left.
LEMMA FinishesLast ==
  ASSUME WholeInv, NEW c \in Ctx, NEW o \in Outcomes, Leaves(c, o) \/ Replies(c, o)
  PROVE  LastOK(c)'
  <1>1. /\ MiddlewareInv /\ HeapOK /\ RefsOK /\ PathsOK /\ LastOK(c) /\ FrameInv /\ BooksInv /\ RootsOK(made)
        /\ BookOK(job[c], dbspan[c], made) /\ Len(spans) \in Nat /\ Len(made) = Len(spans)
    BY WholeParts
  <1>2. Effect(c) /\ SamePhase(c) /\ framework' = framework /\ made' = made
    BY DEF Effect, Leaves, Replies
  <1>3. PICK r, op, db, p : r = job[c].root /\ op = job[c].open /\ db = dbspan[c] /\ p = Path(c)
    OBVIOUS
  <1>4. PICK op2, db2, p2 : op2 = job'[c].open /\ db2 = dbspan'[c] /\ p2 = Path(c)' /\ r = job'[c].root
    BY <1>2, <1>3 DEF SamePhase
  <1>5. Live(c) => r \in 1..Len(spans) /\ made[r] = r /\ sent'[r] = sent[r] /\ Owner(c) = r
    <2>1. Live(c) => r \in 1..Len(spans) /\ made[r] = r /\ Owner(c) = r
      BY <1>3, BookElements
    <2> QED
      BY <2>1, RootStays
  <1>6. framework # "wsgi" /\ Traced(c)' => sent'[r] = 0
    BY <1>1, <1>2, <1>3, <1>5 DEF LastOK, Traced, Live, SamePhase
  <1>7. ASSUME NEW s \in 1..Len(spans), Unsent(s) PROVE Unsent(s)'
    <2>1. made[s] \in 1..Len(spans) => made[made[s]] = made[s]
      BY <1>1 DEF RootsOK, None
    <2>2. made[s] \in 1..Len(spans) => sent'[made[s]] = sent[made[s]]
      BY <2>1, RootStays
    <2> QED
      BY <1>2, <1>7, <2>2, UnsentStays
  <1>8. \A s : Among(op, s) => s \in 1..Len(spans) /\ made[s] = Owner(c) /\ Owner(c) < s /\ s # db
    <2>1. \A i \in 1..Len(op) : op[i] \in 1..Len(spans) /\ made[op[i]] = Owner(c) /\ Owner(c) < op[i]
      BY <1>3, BookElements
    <2>2. \A i \in 1..Len(op) : db # None => op[i] # db
      BY <1>1, <1>3 DEF BookOK
    <2>3. \A i \in 1..Len(op) : db = None => op[i] # db
      BY <2>1, <1>1 DEF None
    <2> QED
      BY <2>1, <2>2, <2>3 DEF Among
  <1>9. db # None => db \in 1..Len(spans) /\ made[db] # db
    BY <1>3, BookElements, <1>1 DEF BookOK
  <1>10. db2 = db \/ db2 = None
    BY <1>1, <1>3, <1>4 DEF Leaves, Replies, MiddlewareInv, ShapeOK
  <1>11. op \in Seq(1..Len(spans)) /\ p \in Seq(1..Len(spans))
    BY <1>1, <1>3, JobTypes
  <1>12. op2 = op \/ (op # <<>> /\ op2 = Front(op))
    BY <1>3, <1>4 DEF Leaves, Replies
  <1>13. \A s : Among(op2, s) => Among(op, s)
    <2>1. op # <<>> => \A s : Among(op, s) <=> Among(Front(op), s) \/ s = Last(op)
      BY <1>11, AmongFront
    <2> QED
      BY <1>12, <2>1
  <1>14. ASSUME framework = "flask" PROVE FlaskOK(c)'
    <2>1. /\ job[c].phase = "late" => \A s : Among(op, s) => Unsent(s)
          /\ db # None => Unsent(db)
      <3>1. FlaskOK(c)
        BY <1>1, <1>14 DEF LastOK
      <3> QED
        BY <1>3, <3>1, Zenon DEF FlaskOK
    <2>2. job[c].phase = "app" =>
            /\ p # <<>> /\ p[1] = r
            /\ \A s : Among(op, s) => Among(p, s)
            /\ db # None /\ made[db] = r => Among(p, db)
      <3>1. FlaskOK(c)
        BY <1>1, <1>14 DEF LastOK
      <3> QED
        BY <1>3, <3>1, Zenon DEF FlaskOK
    <2>3. job'[c].phase = "late" => \A s : Among(op2, s) => Unsent(s)'
      BY <1>2, <1>7, <1>8, <1>13, <2>1 DEF SamePhase
    <2>4. db2 # None => Unsent(db2)'
      BY <1>7, <1>9, <1>10, <2>1
    <2>5. job'[c].phase = "late" /\ current'[c] # None /\ traces'[current'[c]].id = spans'[r].trace => sent'[r] = 0
      <3> SUFFICES ASSUME job'[c].phase = "late", current'[c] # None, traces'[current'[c]].id = spans'[r].trace
                   PROVE  sent'[r] = 0
        OBVIOUS
      <3>1. job[c].phase = "late" /\ r \in 1..Len(spans) /\ sent'[r] = sent[r]
        BY <1>2, <1>5 DEF SamePhase, Live
      <3>2. current'[c] = current[c]
        BY <1>1 DEF Leaves, Replies, Close, FinishSpan, FinishTrace, RefsOK
      <3>3. PICK t \in 1..Len(traces) : t = current[c]
        BY <1>1, <3>2, StackOfType
      <3>4. traces'[t].id = traces[t].id /\ spans'[r] = spans[r]
        BY <1>1, <1>2, <3>1, ObjectsStay
      <3> QED
        BY <1>1, <1>3, <1>14, <3>1, <3>2, <3>3, <3>4 DEF LastOK, FlaskOK
    <2>6. job'[c].phase = "app" =>
            /\ p2 # <<>> /\ p2[1] = r
            /\ \A s : Among(op2, s) => Among(p2, s)
            /\ db2 # None /\ made'[db2] = r => Among(p2, db2)
      <3> SUFFICES ASSUME job[c].phase = "app"
                   PROVE  /\ p2 # <<>> /\ p2[1] = r
                          /\ \A s : Among(op2, s) => Among(p2, s)
                          /\ db2 # None /\ made[db2] = r => Among(p2, db2)
        BY <1>2 DEF SamePhase
      <3>1. Live(c) /\ r \in 1..Len(spans) /\ made[r] = r /\ Owner(c) = r
        BY <1>5 DEF Live
      <3>2. CASE UNCHANGED <<current, traces, spans, sent>>
        <4>1. p2 = p
          BY <1>3, <1>4, <3>2 DEF Path, Stack
        <4> QED
          BY <1>10, <1>13, <2>2, <4>1
      <3>3. CASE Leaves(c, o)
        <4>1. PICK x : x = Last(op)
          OBVIOUS
        <4>2. op # <<>> /\ op2 = Front(op) /\ Close(c, x, o) /\ db2 = db
          BY <1>3, <1>4, <3>3, <4>1 DEF Leaves
        <4>3. \A s : Among(op, s) <=> Among(op2, s) \/ s = x
          BY <1>11, <4>1, <4>2, AmongFront
        <4>4. Among(op, x) /\ x # r /\ x # db
          BY <1>8, <3>1, <4>3
        <4>5. ~spans[x].root
          BY <1>1, <1>3, <2>2, <4>4, OnlyRootIsRoot
        <4>6. FinishSpan(c, x, o)
          BY <4>2, <4>5 DEF Close
        <4>7. /\ p2 # <<>> /\ p2[1] = p[1]
              /\ \A s : Among(p, s) /\ s # x => Among(p2, s)
          BY <1>1, <1>3, <1>4, <2>2, <4>4, <4>6, FinishKeepsPath
        <4>8. \A s : Among(op2, s) => s # x
          <5>1. op # <<>> => \A i \in 1..Len(Front(op)) : Front(op)[i] # Last(op)
            BY <1>1, <1>3, LastOpen
          <5> QED
            BY <4>1, <4>2, <5>1 DEF Among
        <4> QED
          BY <2>2, <4>2, <4>3, <4>4, <4>7, <4>8
      <3>4. CASE Replies(c, o) /\ db # None
        <4>1. FinishSpan(c, db, o) /\ op2 = op
          BY <1>3, <1>4, <3>4 DEF Replies
        <4>2. db # r
          BY <1>9, <3>1, <3>4
        <4>3. /\ p2 # <<>> /\ p2[1] = p[1]
              /\ \A s : Among(p, s) /\ s # db => Among(p2, s)
              /\ o = "raised" => p2 = p
          BY <1>1, <1>3, <1>4, <2>2, <4>1, <4>2, FinishKeepsPath
        <4>4. o # "raised" => db2 = None
          BY <1>1, <1>4, <3>4 DEF Replies, MiddlewareInv, ShapeOK
        <4> QED
          BY <1>8, <1>10, <2>2, <4>1, <4>3, <4>4
      <3> QED
        BY <1>3, <3>2, <3>3, <3>4 DEF Replies
    <2> QED
      BY <1>4, <2>3, <2>4, <2>5, <2>6, FlaskNext
  <1> QED
    BY <1>2, <1>4, <1>6, <1>14 DEF LastOK

\* The teardown sends the root only where it is all there is, or it is still to be sent.
LEMMA TeardownLast ==
  ASSUME WholeInv, NEW c \in Ctx, NEW o \in Outcomes, TearsDown(c, o)
  PROVE  LastOK(c)'
  <1>1. /\ MiddlewareInv /\ HeapOK /\ RefsOK /\ PathsOK /\ LastOK(c) /\ ReportInv /\ RootsOK(made)
        /\ Len(spans) \in Nat
    BY WholeParts
  <1>2. /\ Effect(c) /\ framework = "flask" /\ framework' = framework /\ made' = made /\ Live(c) /\ Traced(c)
        /\ job[c].phase = "app" /\ job'[c].phase = "late"
    BY DEF Effect, TearsDown, Live, Traced
  <1>3. PICK r, op, db, p : r = job[c].root /\ op = job[c].open /\ db = dbspan[c] /\ p = Path(c)
    OBVIOUS
  <1>4. op = job'[c].open /\ db = dbspan'[c] /\ r = job'[c].root
    BY <1>1, <1>3 DEF TearsDown, KeepsOrDrops, MiddlewareInv, ShapeOK
  <1>5. r \in 1..Len(spans) /\ made[r] = r /\ Owner(c) = r /\ sent[r] = 0
    <2>1. r \in 1..Len(spans) /\ made[r] = r /\ Owner(c) = r
      BY <1>2, <1>3, BookElements
    <2>2. sent[r] = 0
      BY <1>1, <1>2, <1>3 DEF LastOK
    <2> QED
      BY <2>1, <2>2
  <1>6. \A s : Among(op, s) => s \in 1..Len(spans) /\ made[s] = r /\ r < s
    <2>1. \A i \in 1..Len(op) : op[i] \in 1..Len(spans) /\ made[op[i]] = Owner(c) /\ Owner(c) < op[i]
      BY <1>3, BookElements
    <2> QED
      BY <1>5, <2>1 DEF Among
  <1>7. /\ p # <<>> /\ p[1] = r
        /\ \A s : Among(op, s) => Among(p, s)
        /\ db # None => Unsent(db)
        /\ db # None /\ made[db] = r => Among(p, db)
    <2>1. FlaskOK(c)
      BY <1>1, <1>2 DEF LastOK
    <2> QED
      BY <1>2, <1>3, <2>1, Zenon DEF FlaskOK
  <1>8. PICK x : x = Last(p)
    OBVIOUS
  <1>9. /\ current[c] # None /\ p = Stack(c) /\ x \in 1..Len(spans)
        /\ spans[x].root <=> Front(p) = <<>>
    BY <1>1, <1>3, <1>7, <1>8, InnermostOf
  <1>10. ActiveSpan(c) = x /\ x # None
    BY <1>1, <1>7, <1>8, <1>9 DEF ActiveSpan, None
  <1>11. Close(c, x, o) /\ Emit(x, o)
    BY <1>10 DEF TearsDown, Close, FinishSpan, FinishTrace
  <1>12. /\ \A u \in 1..Len(spans) : u # x => sent'[u] = sent[u]
         /\ o = "raised" => sent' = sent
    <2>1. o = "raised" => o # "sent"
      OBVIOUS
    <2> QED
      BY <1>1, <1>9, <1>11, <2>1, EmitCounts
  <1>13. db # None => /\ db \in 1..Len(spans) /\ made[db] \in 1..Len(spans)
                      /\ made[made[db]] = made[db] /\ made[db] # db
    BY <1>3, BookElements
  <1>14. ASSUME x = r
         PROVE  /\ \A s : ~Among(op, s)
                /\ db # None => made[db] # r
                /\ current'[c] # None => sent'[r] = 0
    <2>1. PICK st : st = Stack(c)
      OBVIOUS
    <2>2. PathOK(traces[current[c]].stack, traces[current[c]].id, spans) /\ p \in Seq(1..Len(spans))
      BY <1>1, <1>3, <1>9, StackOfType DEF PathsOK
    <2>3. PathOK(p, traces[current[c]].id, spans) /\ 1 \in 1..Len(p)
      <3>1. Len(p) \in Nat /\ Len(p) # 0
        BY <1>7, <2>2
      <3> QED
        BY <1>9, <2>2, <3>1 DEF Stack
    <2>4. spans[x].root
      BY <1>7, <1>14, <2>3 DEF PathOK
    <2>5. Front(p) = <<>>
      BY <1>9, <2>4
    <2>6. \A s : Among(p, s) <=> Among(Front(p), s) \/ s = x
      BY <1>7, <1>8, <2>2, AmongFront
    <2>7. \A s : Among(p, s) => s = r
      BY <1>14, <2>5, <2>6 DEF Among
    <2>8. \A s : ~Among(op, s)
      BY <1>1, <1>5, <1>6, <1>7, <2>7
    <2>9. db # None => made[db] # r
      BY <1>5, <1>7, <1>13, <2>7
    <2>10. current'[c] # None => sent'[r] = 0
      <3>1. FinishTrace(c, x, o)
        BY <1>11, <2>4 DEF Close
      <3>2. o # "raised" => current'[c] = None
        BY <1>1, <3>1 DEF FinishTrace, RefsOK
      <3> QED
        BY <1>5, <1>12, <3>2
    <2> QED
      BY <2>8, <2>9, <2>10
  <1>15. ASSUME x # r
         PROVE  \A u \in 1..Len(spans) : made[u] = u => sent'[u] = sent[u]
    <2>1. made[x] = r
      BY <1>1, <1>2, <1>3, <1>10, ActiveOwned
    <2> QED
      BY <1>12, <1>15, <2>1
  <1>16. job'[c].phase = "late" => \A s : Among(op, s) => Unsent(s)'
    <2>1. CASE x = r
      BY <1>14, <2>1
    <2>2. CASE x # r
      <3>1. sent'[r] = 0
        BY <1>5, <1>15, <2>2
      <3> QED
        BY <1>2, <1>6, <3>1 DEF Unsent
    <2> QED
      BY <2>1, <2>2
  <1>17. db # None => Unsent(db)'
    <2>1. db # None => sent'[made[db]] = sent[made[db]]
      BY <1>12, <1>13, <1>14, <1>15
    <2> QED
      BY <1>2, <1>7, <1>13, <2>1, UnsentStays
  <1>18. current'[c] # None => sent'[r] = 0
    BY <1>5, <1>14, <1>15
  <1>19. PICK p2 : p2 = Path(c)'
    OBVIOUS
  <1>20. FlaskOK(c)'
    BY <1>2, <1>4, <1>16, <1>17, <1>18, <1>19, FlaskNext
  <1> QED
    BY <1>2, <1>20 DEF LastOK, Traced

\* The other steps leave nothing to say of the root, or all as it was.
LEMMA RestLast ==
  ASSUME WholeInv, NEW c \in Ctx, AsksInVain(c) \/ Moves(c) \/ Refuses(c) \/ \E o \in Outcomes : Ends(c, o)
  PROVE  LastOK(c)'
  <1>1. MiddlewareInv /\ LastOK(c) /\ FrameInv
    BY WholeParts
  <1>2. CASE Refuses(c)
    BY <1>2 DEF Refuses, LastOK, Traced
  <1>3. CASE \E o \in Outcomes : Ends(c, o)
    BY <1>3 DEF Ends, LastOK, Traced
  <1>4. CASE AsksInVain(c) \/ Moves(c)
    <2>1. /\ UNCHANGED vars /\ made' = made /\ framework' = framework /\ job'[c].root = job[c].root
          /\ job'[c].phase \in {"app", "streaming"} => Traced(c)
      BY <1>4 DEF AsksInVain, Moves, SamePhase, KeepsOrDrops, Traced
    <2>2. framework # "wsgi" /\ Traced(c)' => sent'[job'[c].root] = 0
      BY <1>1, <2>1 DEF LastOK, Traced, vars
    <2>3. ASSUME framework = "flask" PROVE FlaskOK(c)'
      <3>1. PICK r, op, db, p : r = job[c].root /\ op = job[c].open /\ db = dbspan[c] /\ p = Path(c)
        OBVIOUS
      <3>2. PICK op2, db2, p2 : op2 = job'[c].open /\ db2 = dbspan'[c] /\ p2 = Path(c)' /\ r = job'[c].root
        BY <2>1, <3>1
      <3>3. \A s : Unsent(s) => Unsent(s)'
        BY <2>1 DEF Unsent, vars
      <3>4. db2 = db \/ db2 = None
        BY <1>1, <1>4, <3>1, <3>2 DEF AsksInVain, Moves, MiddlewareInv, ShapeOK
      <3>5. p2 = p
        BY <2>1, <3>1, <3>2 DEF Path, Stack, vars
      <3>6. \/ job'[c].phase = job[c].phase /\ op2 = op
            \/ job'[c].phase \in {"idle", "streaming"}
        BY <1>4, <3>1, <3>2 DEF AsksInVain, Moves, SamePhase
      <3>7. FlaskOK(c)
        BY <1>1, <2>3 DEF LastOK
      <3>8. /\ job[c].phase = "late" => \A s : Among(op, s) => Unsent(s)
            /\ db # None => Unsent(db)
            /\ job[c].phase = "app" =>
                 /\ p # <<>> /\ p[1] = r
                 /\ \A s : Among(op, s) => Among(p, s)
                 /\ db # None /\ made[db] = r => Among(p, db)
        BY <3>1, <3>7, Zenon DEF FlaskOK
      <3>9. job[c].phase = "late" /\ current'[c] # None /\ traces'[current'[c]].id = spans'[r].trace => sent'[r] = 0
        BY <2>1, <3>1, <3>7 DEF FlaskOK, vars
      <3>10. job'[c].phase = "late" => \A s : Among(op2, s) => Unsent(s)'
        BY <3>3, <3>6, <3>8
      <3>11. db2 # None => Unsent(db2)'
        BY <3>3, <3>4, <3>8
      <3>12. job'[c].phase = "late" /\ current'[c] # None /\ traces'[current'[c]].id = spans'[r].trace => sent'[r] = 0
        BY <3>6, <3>9
      <3>13. job'[c].phase = "app" =>
               /\ p2 # <<>> /\ p2[1] = r
               /\ \A s : Among(op2, s) => Among(p2, s)
               /\ db2 # None /\ made'[db2] = r => Among(p2, db2)
        BY <2>1, <3>4, <3>5, <3>6, <3>8
      <3> QED
        BY <3>2, <3>10, <3>11, <3>12, <3>13, FlaskNext
    <2> QED
      BY <2>1, <2>2, <2>3 DEF LastOK
  <1> QED
    BY <1>2, <1>3, <1>4

\* Every step keeps what is known of the roots.
LEMMA LastStep ==
  ASSUME WholeInv, NEW c \in Ctx, Step(c)
  PROVE  LastInv' /\ Effect(c)
  <1>1. Effect(c) /\ OthersKept(c) /\ \A d \in Ctx \ {c} : job'[d] = job[d]
    BY ReportStep DEF WholeInv, SendInv
  <1>2. LastOK(c)'
    BY <1>1, ArrivesLast, BeginsLast, FinishesLast, TeardownLast, RestLast DEF Effect
  <1>3. \A d \in Ctx \ {c} : LastOK(d)'
    BY <1>1, OthersLast
  <1> QED
    BY <1>1, <1>2, <1>3 DEF LastInv

\* All of the invariant is kept.
LEMMA WholeInvStep == WholeInv /\ [MiddlewareNext]_mvars => WholeInv'
  <1> SUFFICES ASSUME WholeInv, [MiddlewareNext]_mvars PROVE WholeInv'
    OBVIOUS
  <1>1. SendInv'
    BY SendInvStep DEF WholeInv
  <1>2. ASSUME UNCHANGED mvars, NEW c \in Ctx PROVE LastOK(c)'
    <2>1. /\ made' = made /\ job' = job /\ dbspan' = dbspan /\ framework' = framework
          /\ current' = current /\ traces' = traces /\ spans' = spans /\ sent' = sent
      BY <1>2 DEF mvars
    <2>2. LastOK(c) /\ (Traced(c)' <=> Traced(c)) /\ \A s : Unsent(s) => Unsent(s)'
      BY <2>1 DEF WholeInv, LastInv, Traced, Unsent
    <2>3. ASSUME FlaskOK(c) PROVE FlaskOK(c)'
      <3>1. PICK r, op, db, p : r = job[c].root /\ op = job[c].open /\ db = dbspan[c] /\ p = Path(c)
        OBVIOUS
      <3>2. r = job'[c].root /\ op = job'[c].open /\ db = dbspan'[c] /\ p = Path(c)'
        BY <2>1, <3>1 DEF Path, Stack
      <3>3. /\ job[c].phase = "late" => \A s : Among(op, s) => Unsent(s)
            /\ db # None => Unsent(db)
            /\ job[c].phase = "app" =>
                 /\ p # <<>> /\ p[1] = r
                 /\ \A s : Among(op, s) => Among(p, s)
                 /\ db # None /\ made[db] = r => Among(p, db)
        BY <2>3, <3>1, Zenon DEF FlaskOK
      <3>4. job[c].phase = "late" /\ current[c] # None /\ traces[current[c]].id = spans[r].trace => sent[r] = 0
        BY <2>3, <3>1 DEF FlaskOK
      <3> QED
        BY <2>1, <2>2, <3>2, <3>3, <3>4, FlaskNext
    <2> QED
      BY <2>1, <2>2, <2>3 DEF LastOK
  <1> QED
    BY <1>1, <1>2, LastStep DEF WholeInv, LastInv, MiddlewareNext

\* Nothing has begun.
LEMMA WholeInit == MiddlewareInit => WholeInv
  <1> SUFFICES ASSUME MiddlewareInit PROVE WholeInv
    OBVIOUS
  <1>1. dbspan = [c \in Ctx |-> None] /\ \A c \in Ctx : job[c].phase = "idle"
    BY DEF MiddlewareInit, Job
  <1> QED
    BY <1>1, SendInit DEF WholeInv, LastInv, LastOK, FlaskOK, Traced

\* The invariant holds at all times.
LEMMA WholeInvCorrect == MiddlewareSpec => []WholeInv
  BY WholeInit, WholeInvStep, PTL DEF MiddlewareSpec

\* Under django, flask and lambda the event of a root goes out after every event of its
\* tree, in an order that no single callback sees: the root ends in the teardown of flask,
\* in the end of a stream or in `finally`, and the others before it or in another trace.
THEOREM RootLastCorrect == MiddlewareSpec => RootLast
  <1> DEFINE Last1 ==
        framework # "wsgi" => \A s \in DOMAIN spans :
          /\ sent'[s] > sent[s] /\ made[s] \notin {None, s}
          /\ spans[s].trace = spans[made[s]].trace
          => sent[made[s]] = 0
  <1>1. WholeInv /\ [MiddlewareNext]_mvars => [Last1]_mvars
    <2> SUFFICES ASSUME WholeInv, NEW c \in Ctx, Step(c), framework # "wsgi", NEW s \in DOMAIN spans,
                        sent'[s] > sent[s], made[s] \notin {None, s}, spans[s].trace = spans[made[s]].trace
                 PROVE  sent[made[s]] = 0
      BY DEF MiddlewareNext
    <2>1. HeapOK /\ Effect(c)
      BY WholeParts, LastStep
    <2>2. s \in 1..Len(spans) /\ sent[s] \in Nat
      BY <2>1, LenProperties, ElementOfSeq DEF HeapOK
    <2>3. sent'[s] # sent[s]
      BY <2>2
    <2>4. Unsent(s)
      BY <2>1, <2>2, <2>3, SendsUnsent
    <2> QED
      BY <2>4 DEF Unsent
  <1> QED
    BY <1>1, WholeInvCorrect, PTL DEF MiddlewareSpec, RootLast

=============================================================================
