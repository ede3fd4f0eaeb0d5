----------------------------- MODULE Middleware -----------------------------
(***************************************************************************)
(* The server middleware: beeline/middleware/{django,flask,werkzeug,       *)
(* bottle,awslambda}, as clients of the tracer core.  A process runs one   *)
(* framework; its threads take requests one after another, and run blocks  *)
(* (`with tracer(name)`) between them and inside them.                     *)
(*                                                                         *)
(*   django  create_http_event, HoneyMiddleware, HoneyDBWrapper            *)
(*   flask   HoneyWSGIMiddleware with signals, HoneyDBMiddleware           *)
(*   wsgi    werkzeug, bottle, and flask without signals                   *)
(*   lambda  beeline_wrapper                                               *)
(*                                                                         *)
(* The application is free to leave a block open, to raise, to answer      *)
(* twice, to give up a stream; `tidy` is a history variable that says of a *)
(* request that it did none of this and that no hook raised.  Not modelled *)
(* here: what the events contain, a process without a beeline, a streamed  *)
(* answer that another thread reads (ASGI).                                *)
(***************************************************************************)
EXTENDS Tracer

CONSTANT Frameworks    \* the frameworks to look at

ASSUME MiddlewareAssumption ==
  /\ Frameworks \subseteq {"django", "flask", "wsgi", "lambda"}
  /\ ~Reuse

VARIABLES
  framework,  \* what this process runs
  job,        \* job[c]: the request that thread c works on, or worked on last
  dbspan,     \* dbspan[c]: `state.span` of the flask HoneyDBMiddleware, or None
  made,       \* made[s]: the root of the request whose code made span s, or None
  flushed     \* what `sent` was at the last client.flush()

mvars == <<current, traces, spans, sent, sending, decorated,
           framework, job, dbspan, made, flushed>>

-----------------------------------------------------------------------------
(* A request.  Its code runs in the phases app, streaming (django: the body is *)
(* being read) and late (the trace has been finished); open is what the code   *)
(* has begun and not ended, the innermost last.                                *)

Job(phase, root, header, runs) ==
  [phase |-> phase, root |-> root, header |-> header, runs |-> runs,
   open |-> <<>>, querying |-> FALSE, tidy |-> runs < 2]

Headers == {<<None, None>>} \cup (CallerId \X {Remote})

Traced(c) == job[c].phase \in {"app", "streaming"}
Owner(c) == IF job[c].phase = "idle" THEN None ELSE job[c].root

\* The thread leaves the request, or its phase, after a finish with outcome o.
Leave(c, phase, ok) ==
  job' = [job EXCEPT ![c].phase = phase,
                     ![c].open = IF phase = "idle" THEN <<>> ELSE @,
                     ![c].tidy = @ /\ ok]

Quiet == UNCHANGED <<sending, decorated, framework>>

\* (mutant) the span of the request joins the trace that the thread still has.
ArriveJoins(c, h, runs) ==
  /\ IF h[1] = None THEN NewEvent(c) ELSE StartTrace(c, h[1], h[2])
  /\ job' = [job EXCEPT ![c] = Job("app", NewSpan, h, runs)]
  /\ made' = Append(made, NewSpan)
  /\ UNCHANGED <<framework, dbspan, flushed>>

\* propagate_and_start_trace: whatever trace the thread still has is let go.
Arrive(c, h, runs) ==
  /\ StartTrace(c, h[1], h[2])
  /\ job' = [job EXCEPT ![c] = Job("app", NewSpan, h, runs)]
  /\ made' = Append(made, NewSpan)
  /\ UNCHANGED <<framework, dbspan, flushed>>

\* A thread takes a request when it has none; a lambda process takes one at a time.
Request(c) ==
  /\ job[c].phase = "idle" /\ job[c].open = <<>>
  /\ framework = "lambda" => \A d \in Ctx : job[d].phase = "idle"
  /\ \E h \in Headers : Arrive(c, h, 1)

-----------------------------------------------------------------------------
(* What the application does, in a request and between two of them *)

Running(c) == job[c].phase # "flushing" /\ ~job[c].querying

Opens(c) == made' = Append(made, Owner(c))

BlockEnter(c) ==
  /\ Running(c)
  /\ NewEvent(c)
  /\ job' = [job EXCEPT ![c].open = Append(@, NewSpan)]
  /\ Opens(c)
  /\ UNCHANGED <<framework, dbspan, flushed>>

BlockExit(c, o) ==
  /\ Running(c) /\ job[c].open # <<>>
  /\ Close(c, Last(job[c].open), o)
  /\ job' = [job EXCEPT ![c].open = Front(@), ![c].tidy = @ /\ o = "sent"]
  /\ Quiet /\ UNCHANGED <<dbspan, made, flushed>>

\* A query of Django runs inside a block of HoneyDBWrapper.
DjangoQueryStart(c) ==
  /\ Running(c) /\ job[c].phase # "idle" /\ framework = "django"
  /\ NewEvent(c)
  /\ job' = [job EXCEPT ![c].open = Append(@, NewSpan), ![c].querying = TRUE]
  /\ Opens(c)
  /\ UNCHANGED <<framework, dbspan, flushed>>

DjangoQueryEnd(c, o) ==
  /\ framework = "django" /\ job[c].querying
  /\ Close(c, Last(job[c].open), o)
  /\ job' = [job EXCEPT ![c].open = Front(@), ![c].querying = FALSE, ![c].tidy = @ /\ o = "sent"]
  /\ Quiet /\ UNCHANGED <<dbspan, made, flushed>>

\* (mutant) a span is noted in `state` whether or not start_span made one.
FlaskQueryStartUnchecked(c) ==
  /\ Running(c) /\ job[c].phase # "idle" /\ framework = "flask"
  /\ IF current[c] = None THEN UNCHANGED <<vars, made>> ELSE StartSpan(c, None) /\ Opens(c)
  /\ job' = [job EXCEPT ![c].querying = TRUE]
  /\ dbspan' = [dbspan EXCEPT ![c] = NewSpan]
  /\ UNCHANGED <<framework, flushed>>

\* before_cursor_execute: `state.span` is what start_span returns.
FlaskQueryStart(c) ==
  /\ Running(c) /\ job[c].phase # "idle" /\ framework = "flask"
  /\ IF current[c] = None THEN UNCHANGED <<vars, made>> ELSE StartSpan(c, None) /\ Opens(c)
  /\ job' = [job EXCEPT ![c].querying = TRUE]
  /\ dbspan' = [dbspan EXCEPT ![c] = IF current[c] = None THEN None ELSE NewSpan]
  /\ UNCHANGED <<framework, flushed>>

\* (mutant) `state` is one object for all threads: the span of another query is found.
FlaskQueryEndShared(c, o) ==
  LET s == IF \E d \in Ctx : dbspan[d] # None
           THEN dbspan[CHOOSE d \in Ctx : dbspan[d] # None /\ \A e \in Ctx : dbspan[e] <= dbspan[d]]
           ELSE None IN
  /\ framework = "flask" /\ job[c].phase # "idle" /\ (job[c].querying \/ dbspan[c] # None)
  /\ IF s = None THEN UNCHANGED <<current, traces, spans, sent>> ELSE FinishSpan(c, s, o)
  /\ dbspan' = [d \in Ctx |-> None]
  /\ job' = [job EXCEPT ![c].querying = FALSE, ![c].tidy = @ /\ o = "sent"]
  /\ Quiet /\ UNCHANGED <<made, flushed>>

\* after_cursor_execute and handle_error.  A hook that raises keeps `state.span`,
\* and the next handle_error, of this request or of a later one, finishes it again.
FlaskQueryEnd(c, o) ==
  LET s == dbspan[c] IN
  /\ framework = "flask" /\ job[c].phase # "idle" /\ (job[c].querying \/ s # None)
  /\ IF s = None THEN o = "sent" /\ UNCHANGED <<current, traces, spans, sent>>
                 ELSE FinishSpan(c, s, o)
  /\ dbspan' = [dbspan EXCEPT ![c] = IF o = "raised" THEN @ ELSE None]
  /\ job' = [job EXCEPT ![c].querying = FALSE, ![c].tidy = @ /\ o = "sent"]
  /\ Quiet /\ UNCHANGED <<made, flushed>>

-----------------------------------------------------------------------------
(* How each framework ends a request *)

Done(c) == job[c].open = <<>>    \* the code has ended all it began

Ready(c, f, phase) == Running(c) /\ framework = f /\ job[c].phase = phase

\* The root span is finished, and the thread goes on with `next`, or leaves with
\* the exception of the hook.
FinishRoot(c, o, next, ok) ==
  /\ FinishTrace(c, job[c].root, o)
  /\ Leave(c, IF o = "raised" THEN "idle" ELSE next, ok /\ o = "sent")
  /\ Quiet /\ UNCHANGED <<dbspan, made, flushed>>

\* Django turns what a view raises into a response, so the view always answers.
DjangoAnswer(c, o) ==
  Ready(c, "django", "app") /\ FinishRoot(c, o, "idle", Done(c))

\* (mutant) the trace is finished as soon as the response object is there.
DjangoStreamEager(c) ==
  /\ Ready(c, "django", "app")
  /\ FinishTrace(c, job[c].root, "sent")
  /\ Leave(c, "streaming", TRUE)
  /\ Quiet /\ UNCHANGED <<dbspan, made, flushed>>

DjangoStream(c) ==
  /\ Ready(c, "django", "app")
  /\ Leave(c, "streaming", TRUE)
  /\ UNCHANGED <<vars, framework, dbspan, made, flushed>>

\* The generator is read to its end.
DjangoStreamEnd(c, o) ==
  Ready(c, "django", "streaming") /\ FinishRoot(c, o, "idle", Done(c))

\* The generator is given up: nothing finishes the trace.
DjangoStreamLost(c) ==
  /\ Ready(c, "django", "streaming")
  /\ Leave(c, "idle", FALSE)
  /\ UNCHANGED <<vars, framework, dbspan, made, flushed>>

\* HoneyMiddleware takes every AttributeError for that of a Django without
\* execute_wrapper, the one of a hook that finish_trace called included, and
\* runs create_http_event, and in it the view, again.
DjangoAgain(c) ==
  /\ Ready(c, "django", "app") /\ "raised" \in Outcomes /\ job[c].runs = 1
  /\ Arrive(c, job[c].header, 2)

\* (mutant) the teardown ends the span of the request without ending the trace.
FlaskTeardownSpan(c, o) ==
  /\ Ready(c, "flask", "app")
  /\ FinishSpan(c, job[c].root, o)
  /\ Leave(c, "late", Done(c) /\ o = "sent")
  /\ Quiet /\ UNCHANGED <<dbspan, made, flushed>>

\* _teardown_request runs when the view has answered or raised, before the body
\* is read or after it.  It finishes the active span, whichever that is.
FlaskTeardown(c, o) ==
  /\ Ready(c, "flask", "app")
  /\ IF ActiveSpan(c) = None THEN o = "sent" /\ UNCHANGED <<current, traces, spans, sent>>
                             ELSE Close(c, ActiveSpan(c), o)
  /\ Leave(c, "late", Done(c) /\ o = "sent")
  /\ Quiet /\ UNCHANGED <<dbspan, made, flushed>>

\* _start_response of werkzeug and bottle, which an application may call again.
WsgiAnswer(c, o) ==
  /\ Ready(c, "wsgi", "app") \/ Ready(c, "wsgi", "late")
  /\ FinishTrace(c, job[c].root, o)
  /\ Leave(c, IF o = "raised" THEN job[c].phase ELSE "late", job[c].phase = "app" /\ o = "sent")
  /\ Quiet /\ UNCHANGED <<dbspan, made, flushed>>

\* The application raises before it has answered.
WsgiRaise(c) ==
  /\ Ready(c, "wsgi", "app")
  /\ Leave(c, "idle", FALSE)
  /\ UNCHANGED <<vars, framework, dbspan, made, flushed>>

\* The body is read, and the thread is free.
BodyEnd(c) ==
  /\ Running(c) /\ job[c].phase = "late"
  /\ Leave(c, "idle", Done(c))
  /\ UNCHANGED <<vars, framework, dbspan, made, flushed>>

\* The `finally` of beeline_wrapper, on a return and on an exception alike.
LambdaReturn(c, o) ==
  Ready(c, "lambda", "app") /\ FinishRoot(c, o, "flushing", Done(c))

\* An event that LambdaRequest cannot read: there is no root span to finish.
LambdaBadEvent(c) ==
  /\ framework = "lambda" /\ Done(c) /\ \A d \in Ctx : job[d].phase = "idle"
  /\ DropTrace(c) \/ (current[c] = None /\ UNCHANGED vars)
  /\ job' = [job EXCEPT ![c] = Job("flushing", None, <<None, None>>, 1)]
  /\ UNCHANGED <<framework, dbspan, made, flushed>>

LambdaFlush(c) ==
  /\ job[c].phase = "flushing"
  /\ flushed' = sent
  /\ Leave(c, "idle", TRUE)
  /\ UNCHANGED <<vars, framework, dbspan, made>>

-----------------------------------------------------------------------------
\* `state.span` is set to None in the thread that makes the middleware; in any other
\* it does not exist before the first query.  A handle_error that comes earlier
\* (the connection fails) raises AttributeError there and has changed nothing,
\* which is a step that stutters here: None stands for both.
MiddlewareInit ==
  /\ Init
  /\ framework \in Frameworks
  /\ job = [c \in Ctx |-> Job("idle", None, <<None, None>>, 0)]
  /\ dbspan = [c \in Ctx |-> None]
  /\ made = <<>>
  /\ flushed = <<>>

Finishing(c, o) ==
  \/ BlockExit(c, o) \/ DjangoQueryEnd(c, o) \/ FlaskQueryEnd(c, o)
  \/ DjangoAnswer(c, o) \/ DjangoStreamEnd(c, o)
  \/ FlaskTeardown(c, o) \/ WsgiAnswer(c, o) \/ LambdaReturn(c, o)

Step(c) ==
  \/ Request(c) \/ BlockEnter(c) \/ DjangoQueryStart(c) \/ FlaskQueryStart(c)
  \/ DjangoStream(c) \/ DjangoStreamLost(c) \/ DjangoAgain(c)
  \/ WsgiRaise(c) \/ BodyEnd(c) \/ LambdaBadEvent(c) \/ LambdaFlush(c)
  \/ \E o \in Outcomes : Finishing(c, o)

MiddlewareNext == \E c \in Ctx : Step(c)

MiddlewareSpec == MiddlewareInit /\ [][MiddlewareNext]_mvars
-----------------------------------------------------------------------------
(* What the middleware promises *)

Phases == {"idle", "app", "streaming", "late", "flushing"}

MiddlewareTypeOK ==
  /\ framework \in Frameworks
  /\ job \in [Ctx -> [phase : Phases, root : 0..Len(spans), header : Headers, runs : 0..2,
                      open : Seq(1..Len(spans)), querying : BOOLEAN, tidy : BOOLEAN]]
  /\ dbspan \in [Ctx -> 0..Len(spans)]
  /\ made \in Seq(0..Len(spans)) /\ Len(made) = Len(spans)
  /\ flushed \in Seq(0..2) /\ Len(flushed) <= Len(spans)

\* What the code of a request begins hangs under the root span of that request and
\* of no other: neither what an earlier request left on the thread (given up
\* streams, raising hooks, unfinished blocks) nor another thread gets into it.
OwnTree ==
  \A s \in DOMAIN spans :
    made[s] # None /\ spans[s].parent \in DOMAIN spans => made[spans[s].parent] = made[s]

\* As long as a request is tidy the stack of its thread is its root and what its code
\* has begun, and nothing else; when it is over the thread has no trace, so that
\* a block that runs between two requests is a trace of its own.
Query(c) == IF framework = "flask" /\ job[c].querying /\ dbspan[c] # None THEN <<dbspan[c]>> ELSE <<>>
Expected(c) == (IF Traced(c) THEN <<job[c].root>> ELSE <<>>) \o job[c].open \o Query(c)

StackIsOpen ==
  \A c \in Ctx : job[c].tidy /\ (framework = "wsgi" => job[c].phase # "late") =>
    IF Expected(c) = <<>> THEN current[c] = None
    ELSE current[c] # None /\ Stack(c) = Expected(c)

\* A tidy request is reported once and whole: its root, its blocks and its queries are
\* each sent exactly once, although the spans end in different callbacks, and when
\* a lambda returns all of it has been flushed.
ReportedOnce ==
  \A c \in Ctx : job[c].phase = "idle" /\ job[c].tidy /\ job[c].root # None =>
    \A s \in DOMAIN spans : made[s] = job[c].root =>
      /\ sent[s] = 1
      /\ framework = "lambda" => s \in DOMAIN flushed /\ flushed[s] = 1

\* Tidy or not, the code of a request reports what was made for that request and the
\* query that its thread has in `state`, and nothing that another thread, or an
\* earlier request on the same one, left open: the teardown of flask, which
\* finishes whatever is active, does not reach past its own request, nor does the
\* finish of a root, which drops the trace.
ReportsOwn ==
  [][ \A c \in Ctx : Step(c) =>
        \A s \in DOMAIN spans :
          sent'[s] # sent[s] => made[s] = Owner(c) \/ s = dbspan[c] ]_mvars

\* Under django, flask and lambda the event of the root, which carries the totals that
\* the other spans added, goes out after every event of its tree.
RootLast ==
  [][ framework # "wsgi" => \A s \in DOMAIN spans :
        /\ sent'[s] > sent[s] /\ made[s] \notin {None, s}
        /\ spans[s].trace = spans[made[s]].trace
        => sent[made[s]] = 0 ]_mvars

\* A view runs once for a request, which is what the tests of the middleware expect.
ViewOnce == \A c \in Ctx : job[c].runs <= 1
=============================================================================
