------------------------------- MODULE Tracer -------------------------------
(***************************************************************************)
(* The tracer core of the beeline: beeline/trace.py (Trace, Span, Tracer)  *)
(* and the calls of beeline/__init__.py that drive it.  Every execution    *)
(* context (a thread under SynchronousTracer, a task under AsyncioTracer)  *)
(* has its own `_trace` attribute, a reference to a mutable Trace object   *)
(* that holds the stack of the spans it has started and not finished.      *)
(*                                                                         *)
(* The client is free: it makes any call in any order, finishes any span   *)
(* in any context, finishes it twice or never.  What the events contain is *)
(* abstracted here: no guard of the code below looks at it.                *)
(*                                                                         *)
(* Trace and Span objects are heap cells: `traces` and `spans` list the    *)
(* objects made so far, an index is a reference, and 0 is Python's None.   *)
(* A span's index also stands for the random id it draws.                  *)
(***************************************************************************)
EXTENDS Naturals, SequencesExt

CONSTANTS
  Ctx,        \* the execution contexts
  CallerId,   \* trace ids a caller may pass to start_trace
  Remote,     \* a span of another process, passed as parent_id
  Outcomes,   \* what sampling and the hooks may make of an event
  Reuse,      \* may a function decorated by traced_thread run twice?
  MaxTraces,  \* bound: Trace objects made
  MaxSpans    \* bound: Span objects made

None == 0

ASSUME TracerAssumption ==
  /\ Remote \notin Nat
  /\ CallerId \cap Nat = {}
  /\ Outcomes \subseteq {"sent", "dropped", "raised"}
  /\ Reuse \in BOOLEAN
  /\ MaxTraces \in Nat
  /\ MaxSpans \in Nat

VARIABLES
  current,    \* current[c]: the Trace object that is `_trace` in context c
  traces,     \* the Trace objects
  spans,      \* the Span objects
  sent,       \* sent[s]: how often the event of span s went to the client (2: or more)
  sending,    \* sending[c]: the span that send_all holds in c, None outside send_all
  decorated   \* the copies held by functions that traced_thread decorated

vars == <<current, traces, spans, sent, sending, decorated>>

-----------------------------------------------------------------------------
(* Reading the tracer *)

Stack(c) == traces[current[c]].stack

\* (mutant) stack[0] is read for stack[-1].
ActiveSpanBottom(c) ==
  IF current[c] # None /\ Stack(c) # <<>> THEN Head(Stack(c)) ELSE None

\* get_active_span.
ActiveSpan(c) ==
  IF current[c] # None /\ Stack(c) # <<>> THEN Last(Stack(c)) ELSE None

-----------------------------------------------------------------------------
(* start_trace and start_span *)

\* The objects that the next start_trace or start_span makes.
NewTrace == Len(traces) + 1
NewSpanReused == Len(spans)    \* (mutant) the id of the last span again
NewSpan == Len(spans) + 1

\* A span is made with its place in the tree: is_root says that it was made on
\* an empty stack, type is the field meta.span_type that start_trace asks for.
PushSpan(id, parent, root, type) ==
  /\ Len(spans) < MaxSpans
  /\ spans' = Append(spans, [trace |-> id, parent |-> parent, root |-> root, type |-> type])
  /\ sent' = Append(sent, 0)

\* (mutant) the caller's id reaches the root span and not the Trace.
StartTraceDropsId(c, id, parent) ==
  /\ Len(traces) < MaxTraces
  /\ traces' = Append(traces, [id |-> NewTrace, stack |-> <<NewSpan>>])
  /\ current' = [current EXCEPT ![c] = NewTrace]
  /\ PushSpan(IF id = None THEN NewTrace ELSE id, parent, TRUE, "root")
  /\ UNCHANGED <<sending, decorated>>

\* A generated trace id is fresh; it is the index of the Trace it is made for.
\* The Trace that was current, with what its stack still holds, is let go.
StartTrace(c, id, parent) ==
  LET tid == IF id = None THEN NewTrace ELSE id IN
  /\ Len(traces) < MaxTraces
  /\ traces' = Append(traces, [id |-> tid, stack |-> <<NewSpan>>])
  /\ current' = [current EXCEPT ![c] = NewTrace]
  /\ PushSpan(tid, parent, TRUE, IF parent = None THEN "root" ELSE "subroot")
  /\ UNCHANGED <<sending, decorated>>

StartSpan(c, parent) ==
  LET up == IF parent # None THEN parent ELSE ActiveSpan(c) IN
  /\ current[c] # None
  /\ PushSpan(traces[current[c]].id, up, Stack(c) = <<>>, "child")
  /\ traces' = [traces EXCEPT ![current[c]].stack = Append(@, NewSpan)]
  /\ UNCHANGED <<current, sending, decorated>>

\* Beeline.new_event, and the entry of `with tracer(name)`.
NewEvent(c) ==
  IF current[c] # None THEN StartSpan(c, None) ELSE StartTrace(c, None, None)

-----------------------------------------------------------------------------
(* finish_span and finish_trace: the event goes out first, whatever the     *)
(* state of the stack; a hook that raises leaves the stack as it is.         *)

Emit(s, o) ==
  sent' = IF o = "sent" /\ sent[s] < 2 THEN [sent EXCEPT ![s] = @ + 1] ELSE sent

\* (mutant) the bottom of the stack is compared.
IsInnermostBottom(c, s) ==
  /\ current[c] # None
  /\ spans[s].trace = traces[current[c]].id
  /\ Stack(c) # <<>>
  /\ Head(Stack(c)) = s

\* Only the innermost span of the context's own trace leaves the stack.
IsInnermost(c, s) ==
  /\ current[c] # None
  /\ spans[s].trace = traces[current[c]].id
  /\ Stack(c) # <<>>
  /\ Last(Stack(c)) = s

\* (mutant) the span leaves every stack it is on top of, copies included.
PopEverywhere(c, s) ==
  traces' = [t \in DOMAIN traces |->
    IF traces[t].stack # <<>> /\ Last(traces[t].stack) = s
    THEN [traces[t] EXCEPT !.stack = Front(@)] ELSE traces[t]]

Pop(c, s) ==
  traces' = IF IsInnermost(c, s) THEN [traces EXCEPT ![current[c]].stack = Front(@)] ELSE traces

\* (mutant) the checks of the stack come before the event is sent.
FinishSpanIfActive(c, s, o) ==
  /\ IF IsInnermost(c, s) THEN Emit(s, o) ELSE UNCHANGED sent
  /\ IF o = "raised" THEN UNCHANGED traces ELSE Pop(c, s)
  /\ UNCHANGED <<current, spans>>

FinishSpan(c, s, o) ==
  /\ Emit(s, o)
  /\ IF o = "raised" THEN UNCHANGED traces ELSE Pop(c, s)
  /\ UNCHANGED <<current, spans>>

FinishTrace(c, s, o) ==
  /\ Emit(s, o)
  /\ UNCHANGED spans
  /\ IF o = "raised"
     THEN UNCHANGED <<traces, current>>
     ELSE Pop(c, s) /\ current' = [current EXCEPT ![c] = None]

\* finish_trace(None): there is no event, and the trace is dropped.
DropTrace(c) ==
  /\ current[c] # None
  /\ current' = [current EXCEPT ![c] = None]
  /\ UNCHANGED <<traces, spans, sent, sending, decorated>>

\* (mutant) a root span is finished like any other span.
CloseKeepsTrace(c, s, o) == FinishSpan(c, s, o)

\* How send_event, send_all and the exit of `with tracer` close a span.
Close(c, s, o) ==
  IF spans[s].root THEN FinishTrace(c, s, o) ELSE FinishSpan(c, s, o)

SendEvent(c, o) ==
  /\ ActiveSpan(c) # None
  /\ Close(c, ActiveSpan(c), o)
  /\ UNCHANGED <<sending, decorated>>

-----------------------------------------------------------------------------
(* send_all: a loop that holds one span at a time *)

SendAll(c) ==
  /\ ActiveSpan(c) # None
  /\ sending' = [sending EXCEPT ![c] = ActiveSpan(c)]
  /\ UNCHANGED <<current, traces, spans, sent, decorated>>

SendAllStep(c, o) ==
  /\ sending[c] # None
  /\ Close(c, sending[c], o)
  /\ sending' = [sending EXCEPT ![c] =
       IF spans[sending[c]].root \/ o = "raised" THEN None ELSE ActiveSpan(c)']
  /\ UNCHANGED decorated

-----------------------------------------------------------------------------
(* traced_thread: the copy is made when the function is decorated, and every *)
(* run of the function installs that same object.                            *)

\* (mutant) the stack is left out.
CopyWithoutStack(t) == [id |-> traces[t].id, stack |-> <<>>]

CopyOf(t) == [id |-> traces[t].id, stack |-> traces[t].stack]

\* (mutant) the Trace object itself is handed over.
TracedThreadShares(c) ==
  /\ current[c] # None
  /\ decorated' = decorated \cup {current[c]}
  /\ UNCHANGED <<current, traces, spans, sent, sending>>

TracedThread(c) ==
  /\ current[c] # None
  /\ Len(traces) < MaxTraces
  /\ traces' = Append(traces, CopyOf(current[c]))
  /\ decorated' = decorated \cup {NewTrace}
  /\ UNCHANGED <<current, spans, sent, sending>>

RunDecorated(c, t) ==
  /\ t \in decorated
  /\ current' = [current EXCEPT ![c] = t]
  /\ decorated' = IF Reuse THEN decorated ELSE decorated \ {t}
  /\ UNCHANGED <<traces, spans, sent, sending>>

-----------------------------------------------------------------------------
Init ==
  /\ current = [c \in Ctx |-> None]
  /\ traces = <<>>
  /\ spans = <<>>
  /\ sent = <<>>
  /\ sending = [c \in Ctx |-> None]
  /\ decorated = {}

Parents == {None, Remote}

Finish(c) ==
  \E s \in 1..Len(spans), o \in Outcomes :
    /\ FinishSpan(c, s, o) \/ FinishTrace(c, s, o)
    /\ UNCHANGED <<sending, decorated>>

Call(c) ==
  \/ \E id \in CallerId \cup {None}, p \in Parents : StartTrace(c, id, p)
  \/ \E p \in Parents : StartSpan(c, p)
  \/ NewEvent(c)
  \/ Finish(c)
  \/ DropTrace(c)
  \/ \E o \in Outcomes : SendEvent(c, o)
  \/ SendAll(c)
  \/ TracedThread(c)
  \/ \E t \in decorated : RunDecorated(c, t)

Looping(c) == \E o \in Outcomes : SendAllStep(c, o)

\* A context makes its next call, or goes on with its send_all.
Acts(c) == (sending[c] = None /\ Call(c)) \/ Looping(c)

Next == \E c \in Ctx : Acts(c)

Spec == Init /\ [][Next]_vars

\* A thread inside send_all keeps running its loop.  A hook need not raise: the
\* loop may not depend on that way out.
FairSpec ==
  Spec /\ \A c \in Ctx : WF_vars(\E o \in Outcomes \ {"raised"} : SendAllStep(c, o))
-----------------------------------------------------------------------------
(* What holds whatever the client does *)

\* Every object is well formed and every reference is None or refers to an object
\* that was made: what finish_span and send_all dereference without a check.
TypeOK ==
  /\ current \in [Ctx -> 0..Len(traces)]
  /\ traces \in Seq([id : CallerId \cup (1..Len(traces)), stack : Seq(1..Len(spans))])
  /\ spans \in Seq([trace : CallerId \cup (1..Len(traces)), parent : (0..Len(spans)) \cup {Remote},
                   root : BOOLEAN, type : {"root", "subroot", "child"}])
  /\ sent \in Seq(0..2) /\ Len(sent) = Len(spans)
  /\ sending \in [Ctx -> 0..Len(spans)]
  /\ decorated \subseteq 1..Len(traces)

\* Every span on the stack of a Trace carries that Trace's id, copies and ids
\* passed by the caller included: otherwise finish_span takes its early return
\* (trace.py:177-180), the stack never shrinks and send_all never ends.
StackIds ==
  \A t \in DOMAIN traces : \A i \in DOMAIN traces[t].stack :
    spans[traces[t].stack[i]].trace = traces[t].id

\* A stack is a path down a tree: each span's parent is the one below it, or
\* the one a caller named, and exactly the bottom span is a root, so that
\* closing the spans from the top reaches the finish_trace of send_event,
\* send_all and `with tracer` last.
StackIsPath ==
  \A t \in DOMAIN traces : \A i \in DOMAIN traces[t].stack :
    LET s == spans[traces[t].stack[i]] IN
    /\ s.root <=> (i = 1)
    /\ s.parent \in {Remote, IF i = 1 THEN None ELSE traces[t].stack[i - 1]}

\* Two contexts never work on one Trace object, and a copy waiting in a
\* decorated function is nobody's current trace: Trace is mutable and has no
\* lock, so this is all that keeps threads out of each other's stacks.  A
\* decorated function that runs twice (Reuse) gives it up.
Private ==
  ~Reuse => \A c \in Ctx : current[c] # None =>
    /\ current[c] \notin decorated
    /\ \A d \in Ctx \ {c} : current[d] # current[c]

\* What a context does leaves the `_trace` of every other context and the stack
\* behind it alone, also when the span it finishes is theirs: finish_span reads
\* the trace of the thread that calls it, not that of the span (trace.py:173-188).
Isolated ==
  [][ ~Reuse => \A c \in Ctx : Acts(c) => \A d \in Ctx \ {c} :
        /\ current'[d] = current[d]
        /\ current[d] # None => Stack(d)' = Stack(d) ]_vars

\* The span that send_all read at the end of one turn of its loop is still the
\* active span of its context when the next turn finishes it: no other context
\* has pushed on that stack or popped it in between.
HeldIsActive ==
  ~Reuse => \A c \in Ctx : sending[c] # None => sending[c] = ActiveSpan(c)

\* send_all returns only when the context has no trace any more, or when a
\* hook raised out of it: no span is left behind on the stack.
SendAllFlushes ==
  [][ ~Reuse => \A c \in Ctx : sending[c] # None /\ sending'[c] = None =>
        \/ current'[c] = None
        \/ "raised" \in Outcomes /\ UNCHANGED <<traces, sent>> ]_vars

\* send_all ends, from every stack that a client can build, whatever the other
\* contexts do meanwhile.
SendAllTerminates == \A c \in Ctx : sending[c] # None ~> sending[c] = None
=============================================================================
