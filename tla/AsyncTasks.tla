----------------------------- MODULE AsyncTasks -----------------------------
(***************************************************************************)
(* The tracer under asyncio: beeline/aiotrace.py.  `_trace` is a context    *)
(* variable.  A task is created with a copy of its creator's variables, so  *)
(* it refers to its creator's Trace object until its first step, when the   *)
(* wrapper of create_task_factory puts a copy of that Trace, as it is then, *)
(* in its place.  @untraced takes the trace away for the time of a call.    *)
(*                                                                         *)
(* The contexts are the tasks.  Their code is properly nested: a task's     *)
(* frames are the `with tracer` blocks and the @untraced calls it is in.    *)
(* One task runs at a time, and any call may be followed by an await.       *)
(***************************************************************************)
EXTENDS Tracer

CONSTANTS
  Main,       \* the task that is there at the start
  MaxFrames   \* bound: frames that a task is in

ASSUME TasksAssumption ==
  /\ Main \in Ctx
  /\ MaxFrames \in Nat
  /\ "raised" \notin Outcomes

VARIABLES
  phase,     \* phase[c]: "unborn", "created" (not run yet), "running" or "done"
  frames,    \* frames[c]: what c is in, outermost first
  base,      \* base[c]: the stack that c found in its trace at its first step
  born       \* born[c]: who created c, where, and whether it is waited for there

taskVars == <<phase, frames, base, born>>
allVars == <<vars, taskVars>>

Path(c) == IF current[c] = None THEN <<>> ELSE Stack(c)

Block(s) == [kind |-> "block", span |-> s]

\* What an @untraced call keeps in its token, and the stack it was at (only for
\* the properties: the code does not look at it again).
Untraced(t, st) == [kind |-> "untraced", trace |-> t, stack |-> st]

\* The frames of c since the innermost @untraced call, and that call's index.
Detached(c) ==
  CHOOSE i \in 0..Len(frames[c]) :
    /\ i > 0 => frames[c][i].kind = "untraced"
    /\ \A j \in (i + 1)..Len(frames[c]) : frames[c][j].kind = "block"

Open(c) == [i \in 1..(Len(frames[c]) - Detached(c)) |-> frames[c][Detached(c) + i].span]

-----------------------------------------------------------------------------
(* Tasks *)

Running(c) == phase[c] = "running"

\* asyncio.create_task copies the context, the wrapper has not run yet.  With w
\* the code around waits for the task before it leaves the frame it is in.
CreateTask(c, d, w) ==
  /\ Running(c) /\ phase[d] = "unborn"
  /\ current' = [current EXCEPT ![d] = current[c]]
  /\ phase' = [phase EXCEPT ![d] = "created"]
  /\ born' = [born EXCEPT ![d] =
       [by |-> c, depth |-> Len(frames[c]), stack |-> Path(c),
        awaited |-> w, attached |-> w /\ born[c].attached]]
  /\ UNCHANGED <<traces, spans, sent, sending, decorated, frames, base>>

\* (mutant) without the task factory: the variable is copied, the Trace is not.
FirstStepShares(c) ==
  /\ phase[c] = "created"
  /\ phase' = [phase EXCEPT ![c] = "running"]
  /\ base' = [base EXCEPT ![c] = Path(c)]
  /\ UNCHANGED <<vars, frames, born>>

\* The wrapper replaces the Trace by a copy and runs the task's own code.
FirstStep(c) ==
  /\ phase[c] = "created"
  /\ IF current[c] = None
     THEN UNCHANGED <<current, traces>>
     ELSE /\ Len(traces) < MaxTraces
          /\ traces' = Append(traces, CopyOf(current[c]))
          /\ current' = [current EXCEPT ![c] = NewTrace]
  /\ phase' = [phase EXCEPT ![c] = "running"]
  /\ base' = [base EXCEPT ![c] = Path(c)']
  /\ UNCHANGED <<spans, sent, sending, decorated, frames, born>>

\* A task returns with no frame open, or is cancelled before its first step.
EndTask(c) ==
  /\ phase[c] = "created" \/ (Running(c) /\ frames[c] = <<>>)
  /\ \A d \in Ctx : born[d].by = c /\ born[d].awaited => phase[d] \in {"unborn", "done"}
  /\ phase' = [phase EXCEPT ![c] = "done"]
  /\ UNCHANGED <<vars, frames, base, born>>

-----------------------------------------------------------------------------
(* Frames *)

Push(c, f) ==
  /\ Running(c) /\ Len(frames[c]) < MaxFrames
  /\ frames' = [frames EXCEPT ![c] = Append(@, f)]

\* The frame on top is left when the tasks it waits for are done.
PopFrame(c, kind) ==
  /\ Running(c) /\ frames[c] # <<>> /\ Last(frames[c]).kind = kind
  /\ \A d \in Ctx :
       born[d].by = c /\ born[d].awaited /\ born[d].depth = Len(frames[c])
         => phase[d] \in {"unborn", "done"}
  /\ frames' = [frames EXCEPT ![c] = Front(@)]

\* `with tracer(name)` and @traced.
Enter(c) ==
  /\ Push(c, Block(NewSpan))
  /\ NewEvent(c)
  /\ UNCHANGED <<phase, base, born>>

\* A task that has no block open starts a trace, and lets go of the one that it
\* inherited.
EnterTrace(c) ==
  /\ Open(c) = <<>>
  /\ Push(c, Block(NewSpan))
  /\ \E id \in CallerId \cup {None}, p \in Parents : StartTrace(c, id, p)
  /\ base' = IF Detached(c) = 0 THEN [base EXCEPT ![c] = <<>>] ELSE base
  /\ UNCHANGED <<phase, born>>

Exit(c) ==
  /\ PopFrame(c, "block")
  /\ \E o \in Outcomes : Close(c, Last(frames[c]).span, o)
  /\ UNCHANGED <<sending, decorated, phase, base, born>>

\* (mutant) the trace is not taken away.
UntraceKeeps(c) ==
  /\ Push(c, Untraced(current[c], Path(c)))
  /\ UNCHANGED <<vars, phase, base, born>>

\* The entry of an @untraced function: the variable is set to None, if it was
\* anything else.
Untrace(c) ==
  /\ Push(c, Untraced(current[c], Path(c)))
  /\ current' = [current EXCEPT ![c] = None]
  /\ UNCHANGED <<traces, spans, sent, sending, decorated, phase, base, born>>

\* (mutant) the token is not given back.
RetraceForgets(c) ==
  /\ PopFrame(c, "untraced")
  /\ UNCHANGED <<vars, phase, base, born>>

\* Its return, or its exception: the variable is reset if it was set.
Retrace(c) ==
  /\ PopFrame(c, "untraced")
  /\ LET t == Last(frames[c]).trace IN
     current' = IF t # None THEN [current EXCEPT ![c] = t] ELSE current
  /\ UNCHANGED <<traces, spans, sent, sending, decorated, phase, base, born>>

-----------------------------------------------------------------------------
TasksInit ==
  /\ Init
  /\ phase = [c \in Ctx |-> IF c = Main THEN "running" ELSE "unborn"]
  /\ frames = [c \in Ctx |-> <<>>]
  /\ base = [c \in Ctx |-> <<>>]
  /\ born = [c \in Ctx |->
       [by |-> c, depth |-> 0, stack |-> <<>>, awaited |-> FALSE, attached |-> c = Main]]

TasksNext == \E c \in Ctx :
  \/ \E d \in Ctx, w \in BOOLEAN : CreateTask(c, d, w)
  \/ FirstStep(c) \/ EndTask(c)
  \/ Enter(c) \/ EnterTrace(c) \/ Exit(c)
  \/ Untrace(c) \/ Retrace(c)

TasksSpec == TasksInit /\ [][TasksNext]_allVars

-----------------------------------------------------------------------------
(* What the tasks get *)

Frame ==
  [kind : {"block"}, span : 1..Len(spans)] \cup
  [kind : {"untraced"}, trace : 0..Len(traces), stack : Seq(1..Len(spans))]

\* The tracer's types; frames and tokens refer to spans and Trace objects that
\* were made, also those that @untraced calls hold across awaits.
TasksTypeOK ==
  /\ TypeOK
  /\ phase \in [Ctx -> {"unborn", "created", "running", "done"}]
  /\ frames \in [Ctx -> Seq(Frame)]
  /\ base \in [Ctx -> Seq(1..Len(spans))]
  /\ born \in [Ctx -> [by : Ctx, depth : Nat, stack : Seq(1..Len(spans)),
                      awaited : BOOLEAN, attached : BOOLEAN]]

\* The Trace objects that c can come back to: its trace, and those that the
\* @untraced calls it is in will restore.
Holdings(c) ==
  {current[c]} \cup {frames[c][i].trace : i \in {j \in DOMAIN frames[c] : frames[c][j].kind = "untraced"}}

\* From their first step on, two tasks never hold the same Trace object, and a
\* task that is about to take its first step holds none that it could change
\* under its creator: test_async.py:102-107, "two independent traces".
TasksApart ==
  \A c, d \in Ctx : Running(c) /\ Running(d) /\ c # d =>
    (Holdings(c) \cap Holdings(d)) \subseteq {None}

\* Whatever runs, in this task or in others, during an @untraced call, the trace
\* comes back after it with the stack it had.
UntracedIsTransparent ==
  \A c \in Ctx : \A i \in DOMAIN frames[c] :
    frames[c][i].kind = "untraced" /\ frames[c][i].trace # None =>
      traces[frames[c][i].trace].stack = frames[c][i].stack

\* The stack of a running task is what it inherited and then the blocks that it
\* has open itself, and only these in an @untraced call: no span of a task ever
\* shows up in another one; and what @untraced took away is kept as it was.
TasksBalanced ==
  UntracedIsTransparent /\ \A c \in Ctx : Running(c) =>
    LET ground == IF Detached(c) = 0 THEN base[c] ELSE <<>> IN
    IF current[c] = None
    THEN Open(c) = <<>> /\ ground = <<>>
    ELSE Stack(c) = ground \o Open(c)

\* A task that the frame it was created in waits for starts somewhere inside
\* the spans that were open when it was created, however late it starts.
AwaitedStartsInside ==
  [][ \A c \in Ctx : phase[c] = "created" /\ phase'[c] = "running" /\ born[c].awaited
        => IsPrefix(born[c].stack, base'[c]) ]_allVars

\* A task that all code up to the main task waits for is never in a trace whose
\* spans are all finished, where its next span would be a second root.
AttachedHasParent ==
  \A c \in Ctx : Running(c) /\ born[c].attached /\ current[c] # None => Stack(c) # <<>>
=============================================================================
