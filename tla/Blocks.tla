------------------------------- MODULE Blocks -------------------------------
(***************************************************************************)
(* The tracer under the client it is documented for: spans are opened and  *)
(* closed by `with tracer(name)`, @traced, or start_trace and finish_trace, *)
(* in matched pairs, and functions decorated by traced_thread run as jobs   *)
(* on other threads.                                                       *)
(*                                                                         *)
(* Three things can break the pairing, each behind a constant: generators   *)
(* that leave their block while a later one is open (Generators), a         *)
(* decorated function that runs twice (Reuse, of Tracer), and a hook that   *)
(* raises (Outcomes), which is left to Tracer.                             *)
(***************************************************************************)
EXTENDS Tracer

CONSTANT Generators   \* may a block be left while one entered later is open?

ASSUME BlocksAssumption ==
  /\ Generators \in BOOLEAN
  /\ "raised" \notin Outcomes

VARIABLES
  blocks,    \* blocks[c]: the spans of the blocks that c has entered and not left
  base,      \* base[c]: the stack that c took over with its last decorated function
  running    \* running[c]: a decorated function runs in c

clientVars == <<blocks, base, running>>
allVars == <<vars, clientVars>>

-----------------------------------------------------------------------------
(* The entry of `with tracer(name)` and of @traced; new_event. *)
Enter(c) ==
  /\ NewEvent(c)
  /\ blocks' = [blocks EXCEPT ![c] = Append(@, NewSpan)]
  /\ UNCHANGED <<base, running>>

\* start_trace, or a block with trace_id, where c has nothing of its own open:
\* the start of a request.  Whatever the thread still had as `_trace` goes.
EnterTrace(c) ==
  /\ blocks[c] = <<>>
  /\ \E id \in CallerId \cup {None}, p \in Parents : StartTrace(c, id, p)
  /\ blocks' = [blocks EXCEPT ![c] = <<NewSpan>>]
  /\ base' = [base EXCEPT ![c] = <<>>]
  /\ UNCHANGED running

\* The finally clause of `with tracer` for the innermost block.
Exit(c) ==
  /\ blocks[c] # <<>>
  /\ \E o \in Outcomes : Close(c, Last(blocks[c]), o)
  /\ blocks' = [blocks EXCEPT ![c] = Front(@)]
  /\ UNCHANGED <<sending, decorated, base, running>>

\* A generator decorated by @traced is exhausted or closed while blocks that
\* were entered after it are open.
ExitGenerator(c) ==
  /\ Generators
  /\ \E i \in 1..(Len(blocks[c]) - 1) :
       /\ \E o \in Outcomes : Close(c, blocks[c][i], o)
       /\ blocks' = [blocks EXCEPT ![c] = RemoveAt(@, i)]
  /\ UNCHANGED <<sending, decorated, base, running>>

\* traced_thread decorates a function.
Decorate(c) == TracedThread(c) /\ UNCHANGED clientVars

\* A thread with nothing open takes a decorated function.
RunJob(c) ==
  /\ blocks[c] = <<>> /\ ~running[c]
  /\ \E t \in decorated :
       /\ RunDecorated(c, t)
       /\ base' = [base EXCEPT ![c] = traces[t].stack]
  /\ running' = [running EXCEPT ![c] = TRUE]
  /\ UNCHANGED blocks

\* The decorated function returns.  The wrapper does nothing about `_trace`.
EndJob(c) ==
  /\ running[c] /\ blocks[c] = <<>>
  /\ running' = [running EXCEPT ![c] = FALSE]
  /\ UNCHANGED <<vars, blocks, base>>

BlocksInit ==
  /\ Init
  /\ blocks = [c \in Ctx |-> <<>>]
  /\ base = [c \in Ctx |-> <<>>]
  /\ running = [c \in Ctx |-> FALSE]

BlocksNext == \E c \in Ctx :
  Enter(c) \/ EnterTrace(c) \/ Exit(c) \/ ExitGenerator(c) \/ Decorate(c) \/ RunJob(c) \/ EndJob(c)

BlocksSpec == BlocksInit /\ [][BlocksNext]_allVars

-----------------------------------------------------------------------------
(* What the pairing buys *)

\* The tracer's types, and blocks and jobs that refer to spans that were made.
BlocksTypeOK ==
  /\ TypeOK
  /\ blocks \in [Ctx -> Seq(1..Len(spans))]
  /\ base \in [Ctx -> Seq(1..Len(spans))]
  /\ running \in [Ctx -> BOOLEAN]

\* The stack behind `_trace` is what the thread took over with its job and then
\* the blocks it has open, in order; without a trace no block is open.  This is
\* the bookkeeping that the doc of start_span (beeline/__init__.py:592-595) asks
\* the caller for matched calls to preserve.
Balanced ==
  ~Reuse /\ ~Generators => \A c \in Ctx :
    IF current[c] = None
    THEN blocks[c] = <<>> /\ base[c] = <<>>
    ELSE Stack(c) = base[c] \o blocks[c] /\ Stack(c) # <<>>

\* A span's event is not out while its block is open, and out at most once ever
\* after, exactly once when nothing is sampled away: however often the span is
\* in copies of the stack, and also when the stack is not what the block left
\* it (trace.py:144-145: "Even if the stack is in an unhealthy state, it's
\* probably better to send event data than not").
SentOnce ==
  \A s \in DOMAIN spans :
    IF \E c \in Ctx : s \in ToSet(blocks[c])
    THEN sent[s] = 0
    ELSE sent[s] \in (IF Outcomes = {"sent"} THEN {1} ELSE {0, 1})

\* A thread that has left all its blocks, in whatever order, and took over no
\* job, has no trace: the next request it serves does not continue this one.
NoTraceLeft ==
  \A c \in Ctx : blocks[c] = <<>> /\ base[c] = <<>> => current[c] = None

\* The spans are trees: a span that is no root has a parent made before it, in
\* the same trace, and a trace whose id the beeline generated has one root,
\* which is the span marked so for the collector.
SpansFormTrees ==
  ~Reuse /\ ~Generators => \A s \in DOMAIN spans :
    /\ spans[s].root <=> spans[s].type # "child"
    /\ ~spans[s].root =>
         spans[s].parent \in 1..(s - 1) /\ spans[spans[s].parent].trace = spans[s].trace
    /\ spans[s].root /\ spans[s].trace \notin CallerId =>
         \A u \in DOMAIN spans : spans[u].root /\ spans[u].trace = spans[s].trace => u = s

Around(c) == base[c] \o blocks[c]

\* The span of a block is a child of the innermost block that is open around
\* it, in this thread or, for the first block of a job, in the thread that
\* decorated the function; beeline/__init__.py:518-520: "If a trace is ongoing,
\* will add a new child span under the currently running span".
ParentRunning ==
  [][ \A c \in Ctx :
        Len(blocks'[c]) > Len(blocks[c]) /\ Around(c) # <<>> /\ ~Last(spans').root
          => Last(spans').parent = Last(Around(c)) ]_allVars

Tree == INSTANCE SpanTree WITH
  path <- [c \in Ctx |-> IF current[c] = None THEN <<>> ELSE Stack(c)],
  own <- [c \in Ctx |-> Len(blocks[c])],
  handed <- {traces[t].stack : t \in decorated}

\* All of it at once: the blocks implement the forest of SpanTree, that is, the
\* mutable Trace objects that contexts refer to behave as values.
GrowsTrees == Tree!TreeSpec
=============================================================================
