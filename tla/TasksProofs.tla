----------------------------- MODULE TasksProofs -----------------------------
(***************************************************************************)
(* What the tasks get from the tracer, for every number of tasks, frames,   *)
(* traces and spans: the proofs of the properties of AsyncTasks.           *)
(***************************************************************************)
EXTENDS AsyncTasks, TracerProofs

-----------------------------------------------------------------------------
(* The type invariant *)

FrameSet(n, m) ==
  [kind : {"block"}, span : 1..m] \cup
  [kind : {"untraced"}, trace : 0..n, stack : Seq(1..m)]

BirthSet(m) ==
  [by : Ctx, depth : Nat, stack : Seq(1..m), awaited : BOOLEAN, attached : BOOLEAN]

TasksOK ==
  /\ phase \in [Ctx -> {"unborn", "created", "running", "done"}]
  /\ frames \in [Ctx -> Seq(FrameSet(Len(traces), Len(spans)))]
  /\ base \in [Ctx -> Seq(1..Len(spans))]
  /\ born \in [Ctx -> BirthSet(Len(spans))]

TasksTypes == HeapOK /\ RefsOK /\ TasksOK

\* TasksTypeOK in three parts.
LEMMA TasksTypeParts == TasksTypes <=> TasksTypeOK
  BY TypeOKParts DEF TasksTypes, TasksTypeOK, TasksOK, FrameSet, BirthSet, Frame

\* What the tasks refer to still exists when there are more traces and spans.
LEMMA TaskSetsGrow ==
  ASSUME NEW n \in Nat, NEW m \in Nat, NEW n2 \in Nat, NEW m2 \in Nat, n <= n2, m <= m2
  PROVE  /\ Seq(FrameSet(n, m)) \subseteq Seq(FrameSet(n2, m2))
         /\ [Ctx -> Seq(FrameSet(n, m))] \subseteq [Ctx -> Seq(FrameSet(n2, m2))]
         /\ [Ctx -> Seq(1..m)] \subseteq [Ctx -> Seq(1..m2)]
         /\ [Ctx -> BirthSet(m)] \subseteq [Ctx -> BirthSet(m2)]
  <1>1. 0..n \subseteq 0..n2 /\ 1..m \subseteq 1..m2
    OBVIOUS
  <1>2. Seq(1..m) \subseteq Seq(1..m2)
    BY <1>1, SeqMonotonic
  <1>3. FrameSet(n, m) \subseteq FrameSet(n2, m2) /\ BirthSet(m) \subseteq BirthSet(m2)
    BY <1>1, <1>2 DEF FrameSet, BirthSet
  <1>4. Seq(FrameSet(n, m)) \subseteq Seq(FrameSet(n2, m2))
    BY <1>3, SeqMonotonic
  <1> QED
    BY <1>2, <1>3, <1>4

\* The stack that a task is in is a sequence of spans.
LEMMA PathType ==
  ASSUME HeapOK, RefsOK, NEW c \in Ctx
  PROVE  Path(c) \in Seq(1..Len(spans))
  <1>1. CASE current[c] = None
    BY <1>1 DEF Path
  <1>2. CASE current[c] # None
    <2>1. current[c] \in 1..Len(traces)
      BY <1>2, LenProperties DEF HeapOK, RefsOK, None
    <2> QED
      BY <1>2, <2>1, TraceType DEF Path, Stack
  <1> QED
    BY <1>1, <1>2

\* The heap after the first step of a task.
LEMMA FirstStepType ==
  ASSUME HeapOK, RefsOK, NEW c \in Ctx, FirstStep(c)
  PROVE  /\ (HeapOK /\ RefsOK)'
         /\ Len(traces') >= Len(traces) /\ Len(spans') = Len(spans)
  <1>1. CASE current[c] = None
    BY <1>1, LenProperties DEF FirstStep, HeapOK, RefsOK
  <1>2. CASE current[c] # None
    <2>1. current[c] \in 1..Len(traces)
      BY <1>2, LenProperties DEF HeapOK, RefsOK, None
    <2>2. /\ traces' = Append(traces, CopyOf(current[c]))
          /\ current' = [current EXCEPT ![c] = NewTrace]
          /\ UNCHANGED <<spans, sent, sending, decorated>>
      BY <1>2 DEF FirstStep
    <2>3. HeapOK' /\ Len(traces') = Len(traces) + 1 /\ Len(traces) \in Nat /\ Len(spans) \in Nat
      BY <2>1, <2>2, CopyType, LenProperties DEF HeapOK
    <2>4. RefsOK'
      <3>1. NewTrace \in 0..Len(traces')
        BY <2>3 DEF NewTrace
      <3>2. Len(traces') >= Len(traces) /\ Len(spans') >= Len(spans)
        BY <2>2, <2>3
      <3>3. /\ current \in [Ctx -> 0..Len(traces')] /\ sending \in [Ctx -> 0..Len(spans')]
            /\ decorated \subseteq 1..Len(traces')
        BY <2>3, <3>2, RefsStay DEF RefsOK
      <3> QED
        BY <2>2, <3>1, <3>3 DEF RefsOK
    <2> QED
      BY <2>2, <2>3, <2>4
  <1> QED
    BY <1>1, <1>2

\* The spans that the frames of a task name exist, so its exits close spans.
LEMMA TopFrameType ==
  ASSUME TasksTypes, NEW c \in Ctx, frames[c] # <<>>
  PROVE  /\ Len(frames[c]) \in Nat \ {0}
         /\ Last(frames[c]) = frames[c][Len(frames[c])]
         /\ Last(frames[c]) \in FrameSet(Len(traces), Len(spans))
         /\ Front(frames[c]) \in Seq(FrameSet(Len(traces), Len(spans)))
         /\ Last(frames[c]).kind = "block" => Last(frames[c]).span \in 1..Len(spans)
         /\ Last(frames[c]).kind = "untraced" =>
              /\ Last(frames[c]).trace \in 0..Len(traces)
              /\ Last(frames[c]).stack \in Seq(1..Len(spans))
  <1>1. frames[c] \in Seq(FrameSet(Len(traces), Len(spans)))
    BY DEF TasksTypes, TasksOK
  <1>2. Last(frames[c]) \in FrameSet(Len(traces), Len(spans))
    BY <1>1, SeqFront
  <1> QED
    BY <1>1, <1>2, SeqFront DEF FrameSet

\* The heap after a block is left.
LEMMA ExitType ==
  ASSUME TasksTypes, NEW c \in Ctx, Exit(c)
  PROVE  /\ (HeapOK /\ RefsOK)'
         /\ Len(traces') = Len(traces) /\ Len(spans') = Len(spans)
  <1>1. PICK o \in Outcomes : Close(c, Last(frames[c]).span, o)
    BY DEF Exit
  <1>2. PICK s \in 1..Len(spans) : s = Last(frames[c]).span
    BY TopFrameType DEF Exit, PopFrame
  <1>3. FinishSpan(c, s, o) \/ FinishTrace(c, s, o)
    BY <1>1, <1>2 DEF Close
  <1>4. HeapOK' /\ Len(traces') = Len(traces) /\ UNCHANGED spans
    BY <1>3, CloseType DEF TasksTypes
  <1>5. sending' \in [Ctx -> 0..Len(spans')] /\ UNCHANGED decorated
    BY <1>4 DEF Exit, TasksTypes, RefsOK
  <1> QED
    BY <1>3, <1>4, <1>5, FinishType DEF TasksTypes

\* Every step of a task keeps the types of the heap, and makes objects only.
LEMMA TasksHeapStep ==
  ASSUME TasksTypes, [TasksNext]_allVars
  PROVE  /\ (HeapOK /\ RefsOK)'
         /\ Len(traces') >= Len(traces) /\ Len(spans') >= Len(spans)
  <1> USE DEF TasksTypes
  <1>0. Len(traces) \in Nat /\ Len(spans) \in Nat
    BY LenProperties DEF HeapOK
  <1>1. CASE UNCHANGED vars
    BY <1>0, <1>1 DEF vars, HeapOK, RefsOK
  <1>2. ASSUME NEW c \in Ctx, NEW d \in Ctx, NEW w \in BOOLEAN, CreateTask(c, d, w)
        PROVE  /\ (HeapOK /\ RefsOK)'
               /\ Len(traces') >= Len(traces) /\ Len(spans') >= Len(spans)
    BY <1>0, <1>2 DEF CreateTask, HeapOK, RefsOK
  <1>3. ASSUME NEW c \in Ctx, NEW id \in CallerId \cup {None}, NEW p \in Parents, StartTrace(c, id, p)
        PROVE  Len(traces') >= Len(traces) /\ Len(spans') >= Len(spans)
    <2>1. Len(traces') = Len(traces) + 1
      BY <1>3, TraceAppended DEF StartTrace
    <2>2. \E n : spans' = Append(spans, n)
      BY <1>3 DEF StartTrace, PushSpan
    <2>3. Len(spans') = Len(spans) + 1
      BY <2>2, LastAppended DEF HeapOK
    <2> QED
      BY <1>0, <2>1, <2>3
  <1>4. ASSUME NEW c \in Ctx, Enter(c)
        PROVE  /\ (HeapOK /\ RefsOK)'
               /\ Len(traces') >= Len(traces) /\ Len(spans') >= Len(spans)
    <2>1. (HeapOK /\ RefsOK)'
      BY <1>4, NewEventType DEF Enter
    <2>2. CASE current[c] # None
      <3>1. current[c] \in 1..Len(traces)
        BY <1>0, <2>2 DEF RefsOK, None
      <3>2. Len(traces') = Len(traces)
        BY <1>4, <2>2, <3>1, StackReplaced DEF Enter, NewEvent, StartSpan
      <3>3. \E n : spans' = Append(spans, n)
        BY <1>4, <2>2 DEF Enter, NewEvent, StartSpan, PushSpan
      <3>4. Len(spans') = Len(spans) + 1
        BY <3>3, LastAppended DEF HeapOK
      <3> QED
        BY <1>0, <2>1, <3>2, <3>4
    <2>3. CASE current[c] = None
      <3>1. None \in Parents /\ None \in CallerId \cup {None} /\ StartTrace(c, None, None)
        BY <1>4, <2>3 DEF Enter, NewEvent, Parents
      <3> QED
        BY <1>3, <2>1, <3>1
    <2> QED
      BY <2>2, <2>3
  <1>5. ASSUME NEW c \in Ctx, EnterTrace(c)
        PROVE  /\ (HeapOK /\ RefsOK)'
               /\ Len(traces') >= Len(traces) /\ Len(spans') >= Len(spans)
    <2>1. PICK id \in CallerId \cup {None}, p \in Parents : StartTrace(c, id, p)
      BY <1>5 DEF EnterTrace
    <2> QED
      BY <1>3, <2>1, StartTraceType
  <1>6. ASSUME NEW c \in Ctx, Untrace(c) \/ Retrace(c)
        PROVE  /\ (HeapOK /\ RefsOK)'
               /\ Len(traces') >= Len(traces) /\ Len(spans') >= Len(spans)
    <2>1. UNCHANGED <<traces, spans, sent, sending, decorated>>
      BY <1>6 DEF Untrace, Retrace
    <2>2. current' \in [Ctx -> 0..Len(traces)]
      <3>1. CASE Untrace(c)
        BY <1>0, <3>1 DEF Untrace, RefsOK, None
      <3>2. CASE Retrace(c)
        <4>1. Last(frames[c]).trace \in 0..Len(traces)
          BY <3>2, TopFrameType DEF Retrace, PopFrame
        <4> QED
          BY <3>2, <4>1 DEF Retrace, RefsOK
      <3> QED
        BY <1>6, <3>1, <3>2
    <2> QED
      BY <1>0, <2>1, <2>2 DEF HeapOK, RefsOK
  <1>7. ASSUME NEW c \in Ctx, EndTask(c)
        PROVE  UNCHANGED vars
    BY <1>7 DEF EndTask
  <1> QED
    BY <1>0, <1>1, <1>2, <1>4, <1>5, <1>6, <1>7, FirstStepType, ExitType DEF TasksNext, allVars

\* What a task keeps of its own has its type after every step.
LEMMA TasksOKStep ==
  ASSUME TasksTypes, [TasksNext]_allVars
  PROVE  TasksOK'
  <1> DEFINE n == Len(traces)
             m == Len(spans)
  <1>1. PICK n2 \in Nat, m2 \in Nat : n2 = Len(traces') /\ m2 = Len(spans') /\ n \in Nat /\ m \in Nat /\ n <= n2 /\ m <= m2
    BY TasksHeapStep, LenProperties DEF TasksTypes, HeapOK
  <1>2. /\ phase \in [Ctx -> {"unborn", "created", "running", "done"}]
        /\ frames \in [Ctx -> Seq(FrameSet(n2, m2))]
        /\ base \in [Ctx -> Seq(1..m2)]
        /\ born \in [Ctx -> BirthSet(m2)]
    BY <1>1, TaskSetsGrow DEF TasksTypes, TasksOK
  <1>3. (HeapOK /\ RefsOK)'
    BY TasksHeapStep
  <1> SUFFICES /\ phase' \in [Ctx -> {"unborn", "created", "running", "done"}]
               /\ frames' \in [Ctx -> Seq(FrameSet(n2, m2))]
               /\ base' \in [Ctx -> Seq(1..m2)]
               /\ born' \in [Ctx -> BirthSet(m2)]
    BY <1>1 DEF TasksOK
  <1>4. ASSUME NEW c \in Ctx, NEW f \in FrameSet(n2, m2), Push(c, f)
        PROVE  frames' \in [Ctx -> Seq(FrameSet(n2, m2))]
    <2>1. frames[c] \in Seq(FrameSet(n2, m2))
      BY <1>2
    <2>2. Append(frames[c], f) \in Seq(FrameSet(n2, m2))
      BY <2>1, SeqAppend
    <2>3. frames' = [frames EXCEPT ![c] = Append(frames[c], f)]
      BY <1>4 DEF Push
    <2> QED
      BY <1>2, <2>2, <2>3
  <1>5. ASSUME NEW c \in Ctx, frames[c] # <<>>, frames' = [frames EXCEPT ![c] = Front(frames[c])]
        PROVE  frames' \in [Ctx -> Seq(FrameSet(n2, m2))]
    <2>1. frames[c] \in Seq(FrameSet(n2, m2))
      BY <1>2
    <2>2. Front(frames[c]) \in Seq(FrameSet(n2, m2))
      BY <1>5, <2>1, SeqFront
    <2> QED
      BY <1>2, <1>5, <2>2
  <1>6. CASE UNCHANGED allVars
    BY <1>2, <1>6 DEF allVars, taskVars
  <1>7. ASSUME NEW c \in Ctx, NEW d \in Ctx, NEW w \in BOOLEAN, CreateTask(c, d, w)
        PROVE  TasksOK'
    <2>1. Path(c) \in Seq(1..m2)
      <3>1. Path(c) \in Seq(1..m) /\ 1..m \subseteq 1..m2
        BY <1>1, PathType DEF TasksTypes
      <3> QED
        BY <3>1, SeqMonotonic
    <2>2. Len(frames[c]) \in Nat
      BY <1>2, LenProperties
    <2>3. born[c].attached \in BOOLEAN
      BY <1>2 DEF BirthSet
    <2>4. [by |-> c, depth |-> Len(frames[c]), stack |-> Path(c),
           awaited |-> w, attached |-> w /\ born[c].attached] \in BirthSet(m2)
      BY <2>1, <2>2, <2>3 DEF BirthSet
    <2>5. /\ phase' = [phase EXCEPT ![d] = "created"] /\ UNCHANGED <<frames, base>>
          /\ born' = [born EXCEPT ![d] = [by |-> c, depth |-> Len(frames[c]), stack |-> Path(c),
                                          awaited |-> w, attached |-> w /\ born[c].attached]]
      BY <1>7 DEF CreateTask
    <2>6. born' \in [Ctx -> BirthSet(m2)]
      BY <1>2, <2>4, <2>5
    <2> QED
      BY <1>1, <1>2, <2>5, <2>6 DEF TasksOK
  <1>8. ASSUME NEW c \in Ctx, FirstStep(c)
        PROVE  TasksOK'
    <2>1. Path(c)' \in Seq(1..m2)
      <3>1. CASE current'[c] = None
        BY <3>1 DEF Path
      <3>2. CASE current'[c] # None
        <4>1. current'[c] \in 1..Len(traces')
          BY <1>1, <1>3, <3>2 DEF RefsOK, None
        <4>2. traces'[current'[c]] \in TraceSet(Len(traces'), Len(spans'))
          BY <1>3, <4>1, ElementOfSeq DEF HeapOK
        <4> QED
          BY <1>1, <3>2, <4>2 DEF Path, Stack, TraceSet
      <3> QED
        BY <3>1, <3>2
    <2> QED
      BY <1>1, <1>2, <1>8, <2>1 DEF FirstStep, TasksOK
  <1>9. ASSUME NEW c \in Ctx, EndTask(c)
        PROVE  TasksOK'
    BY <1>1, <1>2, <1>9 DEF EndTask, TasksOK
  <1>10. ASSUME NEW c \in Ctx, Enter(c) \/ EnterTrace(c)
         PROVE  TasksOK'
    <2>1. NewSpan \in 1..m2
      <3>1. \E e : spans' = Append(spans, e)
        BY <1>10 DEF Enter, EnterTrace, NewEvent, StartSpan, StartTrace, PushSpan
      <3>2. Len(spans') = m + 1
        BY <3>1, LastAppended DEF TasksTypes, HeapOK
      <3> QED
        BY <1>1, <3>2 DEF NewSpan
    <2>2. Block(NewSpan) \in FrameSet(n2, m2)
      BY <2>1 DEF Block, FrameSet
    <2>3. frames' \in [Ctx -> Seq(FrameSet(n2, m2))]
      BY <1>4, <1>10, <2>2 DEF Enter, EnterTrace
    <2>4. base' \in [Ctx -> Seq(1..m2)]
      <3>1. base' = base \/ base' = [base EXCEPT ![c] = <<>>]
        BY <1>10 DEF Enter, EnterTrace
      <3>2. <<>> \in Seq(1..m2) /\ base \in [Ctx -> Seq(1..m2)]
        BY <1>2, EmptySeq
      <3>3. base' = base => base' \in [Ctx -> Seq(1..m2)]
        BY <3>2
      <3>4. base' = [base EXCEPT ![c] = <<>>] => base' \in [Ctx -> Seq(1..m2)]
        BY <3>2
      <3> QED
        BY <3>1, <3>3, <3>4
    <2> QED
      BY <1>1, <1>2, <1>10, <2>3, <2>4 DEF Enter, EnterTrace, TasksOK
  <1>11. ASSUME NEW c \in Ctx, Exit(c) \/ Retrace(c)
         PROVE  TasksOK'
    <2>1. frames' \in [Ctx -> Seq(FrameSet(n2, m2))]
      BY <1>5, <1>11 DEF Exit, Retrace, PopFrame
    <2> QED
      BY <1>1, <1>2, <1>11, <2>1 DEF Exit, Retrace, TasksOK
  <1>12. ASSUME NEW c \in Ctx, Untrace(c)
         PROVE  TasksOK'
    <2>1. Path(c) \in Seq(1..m2) /\ current[c] \in 0..n2
      <3>1. Path(c) \in Seq(1..m) /\ 1..m \subseteq 1..m2 /\ current[c] \in 0..n
        BY <1>1, PathType DEF TasksTypes, RefsOK
      <3> QED
        BY <1>1, <3>1, SeqMonotonic
    <2>2. Untraced(current[c], Path(c)) \in FrameSet(n2, m2)
      BY <2>1 DEF Untraced, FrameSet
    <2>3. frames' \in [Ctx -> Seq(FrameSet(n2, m2))]
      BY <1>4, <1>12, <2>2 DEF Untrace
    <2> QED
      BY <1>1, <1>2, <1>12, <2>3 DEF Untrace, TasksOK
  <1> QED
    <2>1. TasksNext => TasksOK'
      BY <1>7, <1>8, <1>9, <1>10, <1>11, <1>12 DEF TasksNext
    <2> QED
      BY <1>1, <1>6, <2>1 DEF TasksOK

\* The objects and the references of the beginning have their types.
LEMMA TasksTypeInit == TasksInit => TasksTypes
  <1> SUFFICES ASSUME TasksInit PROVE TasksTypes
    OBVIOUS
  <1>1. HeapOK /\ RefsOK
    BY TypeInit DEF TasksInit
  <1>2. Len(spans) = 0 /\ Len(traces) = 0
    BY LenProperties DEF TasksInit, Init
  <1>3. TasksOK
    BY <1>2, EmptySeq DEF TasksInit, TasksOK, BirthSet
  <1> QED
    BY <1>1, <1>3 DEF TasksTypes

\* Every step keeps the types.
LEMMA TasksTypeStep == TasksTypes /\ [TasksNext]_allVars => TasksTypes'
  BY TasksHeapStep, TasksOKStep DEF TasksTypes

\* Frames and the tokens that @untraced calls hold across awaits refer to spans
\* and Trace objects that exist, whatever the tasks do, however many they are.
THEOREM TasksTypeCorrect == TasksSpec => []TasksTypeOK
  BY TasksTypeInit, TasksTypeStep, TasksTypeParts, PTL DEF TasksSpec

-----------------------------------------------------------------------------
(* The levels of a task: up to a frame, how many of its blocks are open      *)
(* since the innermost @untraced call                                       *)

\* d is the innermost @untraced call of the first n frames, 0 when there is none.
Floor(f, n, d) ==
  /\ d > 0 => f[d].kind = "untraced"
  /\ \A j \in (d + 1)..n : f[j].kind = "block"

OpenAt(f, n, d) == [i \in 1..(n - d) |-> f[d + i].span]

Ground(g, d) == IF d = 0 THEN g ELSE <<>>

\* At level n the task has the stack st of the trace t: what it found at its
\* first step, unless an @untraced call took that away, and its own open blocks.
LevelOK(f, g, n, t, st) ==
  \E d \in 0..n :
    /\ Floor(f, n, d)
    /\ st = Ground(g, d) \o OpenAt(f, n, d)
    /\ t = None => OpenAt(f, n, d) = <<>> /\ Ground(g, d) = <<>>

\* A level has one innermost @untraced call.
LEMMA FloorUnique ==
  ASSUME NEW f, NEW n \in Nat, NEW d \in 0..n, NEW e \in 0..n, Floor(f, n, d), Floor(f, n, e)
  PROVE  d = e
  BY DEF Floor

\* The properties' Detached and Open are those of the top level.
LEMMA DetachedIs ==
  ASSUME NEW c \in Ctx, Len(frames[c]) \in Nat, NEW d \in 0..Len(frames[c]), Floor(frames[c], Len(frames[c]), d)
  PROVE  Detached(c) = d /\ Open(c) = OpenAt(frames[c], Len(frames[c]), d)
  <1> DEFINE f == frames[c]
             n == Len(f)
  <1>1. Detached(c) \in 0..n /\ Floor(f, n, Detached(c))
    <2>1. \E i \in 0..n : Floor(f, n, i)
      OBVIOUS
    <2> QED
      BY <2>1 DEF Detached, Floor
  <1>2. Detached(c) = d
    <2>1. PICK k \in Nat : k = n
      OBVIOUS
    <2> HIDE DEF f
    <2>2. Detached(c) \in 0..k /\ Floor(f, k, Detached(c)) /\ d \in 0..k /\ Floor(f, k, d)
      BY <1>1, <2>1 DEF f
    <2> QED
      BY <2>2, FloorUnique
  <1> QED
    BY <1>2 DEF Open, OpenAt

\* The blocks of a level are spans.
LEMMA OpenAtType ==
  ASSUME NEW m \in Nat, NEW k \in Nat, NEW f \in Seq(FrameSet(k, m)),
         NEW n \in 0..Len(f), NEW d \in 0..n, Floor(f, n, d)
  PROVE  /\ OpenAt(f, n, d) \in Seq(1..m)
         /\ Len(OpenAt(f, n, d)) = n - d
         /\ \A i \in 1..(n - d) : OpenAt(f, n, d)[i] = f[d + i].span
  <1>1. Len(f) \in Nat
    BY LenProperties
  <1>2. ASSUME NEW i \in 1..(n - d)
        PROVE  f[d + i].span \in 1..m
    <2>1. d + i \in 1..Len(f) /\ d + i \in (d + 1)..n
      BY <1>1
    <2>2. f[d + i] \in FrameSet(k, m) /\ f[d + i].kind = "block"
      BY <2>1, ElementOfSeq DEF Floor
    <2> QED
      BY <2>2 DEF FrameSet
  <1>3. n - d \in Nat
    BY <1>1
  <1>4. OpenAt(f, n, d) \in [1..(n - d) -> 1..m]
    BY <1>2 DEF OpenAt
  <1>5. PICK k2 \in Nat : k2 = n - d
    BY <1>3
  <1>6. OpenAt(f, n, d) \in Seq(1..m)
    BY <1>4, <1>5, SeqDef
  <1>7. DOMAIN OpenAt(f, n, d) = 1..k2
    BY <1>4, <1>5
  <1>8. Len(OpenAt(f, n, d)) = k2
    BY <1>5, <1>6, <1>7, LenProperties
  <1>9. \A i \in 1..(n - d) : OpenAt(f, n, d)[i] = f[d + i].span
    BY DEF OpenAt
  <1> QED
    BY <1>5, <1>6, <1>8, <1>9

\* ... and so is what the task found.
LEMMA GroundType ==
  ASSUME NEW m \in Nat, NEW g \in Seq(1..m), NEW d
  PROVE  Ground(g, d) \in Seq(1..m)
  <1>1. <<>> \in Seq(1..m)
    BY EmptySeq
  <1> QED
    BY <1>1 DEF Ground

\* A level depends on the frames up to it.
LEMMA LevelSame ==
  ASSUME NEW f, NEW f2, NEW g, NEW n \in Nat, NEW t, NEW st,
         \A i \in 1..n : f2[i] = f[i], LevelOK(f, g, n, t, st)
  PROVE  LevelOK(f2, g, n, t, st)
  <1>1. PICK d \in 0..n : /\ Floor(f, n, d)
                          /\ st = Ground(g, d) \o OpenAt(f, n, d)
                          /\ t = None => OpenAt(f, n, d) = <<>> /\ Ground(g, d) = <<>>
    BY DEF LevelOK
  <1>2. Floor(f2, n, d)
    BY <1>1 DEF Floor
  <1>3. OpenAt(f2, n, d) = OpenAt(f, n, d)
    <2>1. \A i \in 1..(n - d) : f2[d + i] = f[d + i]
      OBVIOUS
    <2> QED
      BY <2>1 DEF OpenAt
  <1> QED
    BY <1>1, <1>2, <1>3 DEF LevelOK

\* A frame more, a block: its span is the last one.
LEMMA FloorPush ==
  ASSUME NEW m \in Nat, NEW k \in Nat, NEW f \in Seq(FrameSet(k, m)), NEW f2 \in Seq(FrameSet(k, m)),
         NEW n \in 0..Len(f), Len(f2) > n, \A i \in 1..n : f2[i] = f[i], f2[n + 1].kind = "block",
         NEW d \in 0..n, Floor(f, n, d)
  PROVE  /\ Floor(f2, n + 1, d)
         /\ OpenAt(f2, n + 1, d) = Append(OpenAt(f, n, d), f2[n + 1].span)
  <1>1. Len(f) \in Nat /\ Len(f2) \in Nat
    BY LenProperties
  <1>2. n + 1 \in 0..Len(f2) /\ d \in 0..(n + 1)
    BY <1>1
  <1>3. Floor(f2, n + 1, d)
    <2>1. d > 0 => f2[d] = f[d]
      BY <1>1
    <2>2. \A j \in (d + 1)..(n + 1) : j = n + 1 \/ (j \in (d + 1)..n /\ f2[j] = f[j])
      BY <1>1
    <2> QED
      BY <2>1, <2>2 DEF Floor
  <1> DEFINE o == OpenAt(f, n, d)
             o2 == OpenAt(f2, n + 1, d)
             s == f2[n + 1].span
  <1>4. /\ o \in Seq(1..m) /\ Len(o) = n - d
        /\ \A i \in 1..(n - d) : o[i] = f[d + i].span
    BY OpenAtType
  <1>5. /\ o2 \in Seq(1..m) /\ Len(o2) = n + 1 - d
        /\ \A i \in 1..(n + 1 - d) : o2[i] = f2[d + i].span
    <2>1. PICK n2 \in 0..Len(f2) : n2 = n + 1
      BY <1>2
    <2>2. d \in 0..n2 /\ Floor(f2, n2, d)
      BY <1>2, <1>3, <2>1
    <2>3. /\ OpenAt(f2, n2, d) \in Seq(1..m)
          /\ Len(OpenAt(f2, n2, d)) = n2 - d
          /\ \A i \in 1..(n2 - d) : OpenAt(f2, n2, d)[i] = f2[d + i].span
      BY <2>2, OpenAtType
    <2> QED
      BY <2>1, <2>3
  <1>6. s \in 1..m
    <2>1. n + 1 - d \in 1..Len(o2) /\ d + (n + 1 - d) = n + 1
      BY <1>1, <1>5
    <2>2. o2[n + 1 - d] = s
      BY <1>5, <2>1
    <2>3. o2[n + 1 - d] \in 1..m
      BY <1>5, <2>1, ElementOfSeq
    <2> QED
      BY <2>2, <2>3
  <1>7. /\ Append(o, s) \in Seq(1..m) /\ Len(Append(o, s)) = n - d + 1
        /\ \A i \in 1..(n - d) : Append(o, s)[i] = o[i]
        /\ Append(o, s)[n - d + 1] = s
    <2> HIDE DEF o, s
    <2> QED
      BY <1>4, <1>6, SeqAppend
  <1>8. ASSUME NEW i \in 1..(n + 1 - d)
        PROVE  o2[i] = Append(o, s)[i]
    <2>1. CASE i = n + 1 - d
      <3>1. d + i = n + 1 /\ i = n - d + 1
        BY <1>1, <2>1
      <3> QED
        BY <1>5, <1>7, <3>1
    <2>2. CASE i # n + 1 - d
      <3>1. i \in 1..(n - d) /\ d + i \in 1..n
        BY <1>1, <2>2
      <3>2. Append(o, s)[i] = o[i]
        BY <1>7, <3>1
      <3> HIDE DEF o, s, o2
      <3> QED
        BY <1>4, <1>5, <3>1, <3>2
    <2> QED
      BY <2>1, <2>2
  <1>9. n - d + 1 = n + 1 - d
    BY <1>1
  <1>10. o2 = Append(o, s)
    <2> HIDE DEF o, s, o2
    <2> QED
      BY <1>5, <1>7, <1>8, <1>9, SeqEqual
  <1> QED
    BY <1>3, <1>10

\* A frame less, a block: its span was the last one.
LEMMA FloorPop ==
  ASSUME NEW m \in Nat, NEW k \in Nat, NEW f \in Seq(FrameSet(k, m)), NEW n \in 1..Len(f),
         f[n].kind = "block", NEW d \in 0..n, Floor(f, n, d)
  PROVE  /\ d \in 0..(n - 1)
         /\ Floor(f, n - 1, d)
         /\ OpenAt(f, n, d) # <<>>
         /\ Last(OpenAt(f, n, d)) = f[n].span
         /\ Front(OpenAt(f, n, d)) = OpenAt(f, n - 1, d)
  <1>1. Len(f) \in Nat /\ n - 1 \in 0..Len(f)
    BY LenProperties
  <1>2. d \in 0..(n - 1)
    BY DEF Floor
  <1>3. Floor(f, n - 1, d)
    BY <1>2 DEF Floor
  <1>4. OpenAt(f, n, d) = Append(OpenAt(f, n - 1, d), f[n].span)
    <2>1. PICK p \in 0..Len(f) : p = n - 1 /\ p + 1 = n /\ Len(f) > p
      BY <1>1
    <2>2. d \in 0..p /\ Floor(f, p, d)
      BY <1>2, <1>3, <2>1
    <2>3. f[p + 1].kind = "block"
      BY <2>1
    <2>4. OpenAt(f, p + 1, d) = Append(OpenAt(f, p, d), f[p + 1].span)
      BY <2>1, <2>2, <2>3, FloorPush
    <2> QED
      BY <2>1, <2>4
  <1>5. OpenAt(f, n - 1, d) \in Seq(1..m)
    BY <1>1, <1>2, <1>3, OpenAtType
  <1>6. f[n].span \in 1..m
    BY ElementOfSeq DEF FrameSet
  <1> DEFINE o == OpenAt(f, n - 1, d)
             s == f[n].span
  <1>7. o \in Seq(1..m) /\ s \in 1..m
    BY <1>5, <1>6
  <1>8. Append(o, s) # <<>> /\ Last(Append(o, s)) = s /\ Front(Append(o, s)) = o
    <2> HIDE DEF o, s
    <2>1. Append(o, s) # <<>> /\ Last(Append(o, s)) = s
      BY <1>7, LastPushed
    <2>2. Front(Append(o, s)) = o
      BY <1>7, FrontAppended
    <2> QED
      BY <2>1, <2>2
  <1> QED
    BY <1>2, <1>3, <1>4, <1>8

\* Blocks pushed on top of a level: the stack grows with them.
LEMMA LevelPush ==
  ASSUME NEW m \in Nat, NEW k \in Nat, NEW f \in Seq(FrameSet(k, m)), NEW g \in Seq(1..m),
         NEW s \in 1..m, NEW t, NEW t2, t2 # None, NEW st, LevelOK(f, g, Len(f), t, st)
  PROVE  LevelOK(Append(f, Block(s)), g, Len(f) + 1, t2, Append(st, s))
  <1> DEFINE f2 == Append(f, Block(s))
             n == Len(f)
  <1>1. Block(s) \in FrameSet(k, m) /\ Block(s).kind = "block" /\ Block(s).span = s
    BY DEF Block, FrameSet
  <1>2. /\ f2 \in Seq(FrameSet(k, m)) /\ Len(f2) = n + 1 /\ n \in Nat
        /\ \A i \in 1..n : f2[i] = f[i]
        /\ f2[n + 1] = Block(s)
    BY <1>1, SeqAppend, LenProperties
  <1>3. PICK d \in 0..n : Floor(f, n, d) /\ st = Ground(g, d) \o OpenAt(f, n, d)
    BY DEF LevelOK
  <1>4. Floor(f2, n + 1, d) /\ OpenAt(f2, n + 1, d) = Append(OpenAt(f, n, d), s)
    <2>1. PICK q \in Seq(FrameSet(k, m)) : q = f2
      BY <1>2
    <2>2. Len(q) > n /\ (\A i \in 1..n : q[i] = f[i]) /\ q[n + 1].kind = "block" /\ q[n + 1].span = s /\ n \in 0..Len(f)
      BY <1>1, <1>2, <2>1
    <2> HIDE DEF f2, n
    <2>3. n = Len(f)
      BY DEF n
    <2>4. Floor(q, n + 1, d) /\ OpenAt(q, n + 1, d) = Append(OpenAt(f, n, d), q[n + 1].span)
      BY <1>3, <2>2, FloorPush
    <2> QED
      BY <2>1, <2>2, <2>4
  <1>5. OpenAt(f, n, d) \in Seq(1..m) /\ Ground(g, d) \in Seq(1..m)
    <2>1. PICK p \in 0..Len(f) : p = n
      BY <1>2
    <2>2. d \in 0..p /\ Floor(f, p, d)
      BY <1>3, <2>1
    <2> HIDE DEF n
    <2>3. OpenAt(f, p, d) \in Seq(1..m)
      BY <2>2, OpenAtType
    <2> QED
      BY <2>1, <2>3, GroundType
  <1>6. Append(st, s) = Ground(g, d) \o OpenAt(f2, n + 1, d)
    <2>1. PICK o \in Seq(1..m), b \in Seq(1..m) : o = OpenAt(f, n, d) /\ b = Ground(g, d)
      BY <1>5
    <2>2. PICK w \in Seq(1..m) : w = b \o o
      BY ConcatProperties
    <2>3. Append(w, s) = b \o Append(o, s)
      BY <2>2, ConcatAppend
    <2> HIDE DEF f2, n
    <2> QED
      BY <1>3, <1>4, <2>1, <2>2, <2>3
  <1>7. d \in 0..(n + 1)
    BY <1>2
  <1> QED
    BY <1>4, <1>6, <1>7 DEF LevelOK

\* A block left: its span is on top of the stack; when it is the last one of the
\* stack, the level below can do without a trace.
LEMMA LevelPop ==
  ASSUME NEW m \in Nat, NEW k \in Nat, NEW f \in Seq(FrameSet(k, m)), NEW g \in Seq(1..m),
         NEW n \in 1..Len(f), f[n].kind = "block", NEW t, NEW st, LevelOK(f, g, n, t, st)
  PROVE  /\ t # None /\ st \in Seq(1..m) /\ st # <<>> /\ Last(st) = f[n].span
         /\ \A t2 : t2 # None \/ Len(st) = 1 => LevelOK(f, g, n - 1, t2, Front(st))
  <1>1. PICK d \in 0..n : /\ Floor(f, n, d)
                          /\ st = Ground(g, d) \o OpenAt(f, n, d)
                          /\ t = None => OpenAt(f, n, d) = <<>> /\ Ground(g, d) = <<>>
    BY DEF LevelOK
  <1> DEFINE o == OpenAt(f, n, d)
             b == Ground(g, d)
  <1>2. /\ d \in 0..(n - 1) /\ Floor(f, n - 1, d)
        /\ o # <<>> /\ Last(o) = f[n].span /\ Front(o) = OpenAt(f, n - 1, d)
    BY <1>1, FloorPop
  <1>3. o \in Seq(1..m) /\ b \in Seq(1..m)
    <2>1. n \in 0..Len(f)
      BY LenProperties
    <2>2. o \in Seq(1..m)
      BY <1>1, <2>1, OpenAtType
    <2> QED
      BY <2>2, GroundType
  <1> HIDE DEF o, b
  <1>4. st = b \o o
    BY <1>1 DEF o, b
  <1>5. b \o o # <<>> /\ Last(b \o o) = Last(o) /\ Front(b \o o) = b \o Front(o)
    BY <1>2, <1>3, ConcatFront
  <1>6. t # None
    BY <1>1, <1>2 DEF o
  <1>7. st \in Seq(1..m) /\ st # <<>> /\ Last(st) = f[n].span /\ Front(st) = b \o OpenAt(f, n - 1, d)
    BY <1>2, <1>3, <1>4, <1>5, ConcatProperties
  <1>8. Len(st) = 1 => OpenAt(f, n - 1, d) = <<>> /\ b = <<>>
    <2> SUFFICES ASSUME Len(st) = 1
                 PROVE  Front(o) = <<>> /\ b = <<>>
      BY <1>2
    <2>1. Len(b) + Len(o) = 1 /\ Len(b) \in Nat /\ Len(o) \in Nat
      BY <1>3, <1>4, ConcatProperties, LenProperties
    <2>2. Len(Front(o)) = Len(o) - 1 /\ Len(o) \in Nat \ {0} /\ Front(o) \in Seq(1..m)
      BY <1>2, <1>3, SeqFront
    <2>3. Len(Front(o)) = 0 /\ Len(b) = 0
      BY <2>1, <2>2
    <2> QED
      BY <1>3, <2>2, <2>3, EmptySeq
  <1>9. ASSUME NEW t2, t2 # None \/ Len(st) = 1
        PROVE  LevelOK(f, g, n - 1, t2, Front(st))
    BY <1>2, <1>7, <1>8, <1>9 DEF LevelOK, b
  <1> QED
    BY <1>6, <1>7, <1>9

\* In an @untraced call, with no block open since, there is no stack.
LEMMA LevelUntraced ==
  ASSUME NEW m \in Nat, NEW k \in Nat, NEW f \in Seq(FrameSet(k, m)), NEW g \in Seq(1..m),
         NEW n \in 1..Len(f), f[n].kind = "untraced", NEW t
  PROVE  /\ LevelOK(f, g, n, t, <<>>)
         /\ \A st : LevelOK(f, g, n, t, st) => st = <<>>
  <1>1. n \in Nat /\ n > 0 /\ n \in 0..n /\ n - n = 0
    BY LenProperties
  <1>2. Floor(f, n, n)
    BY <1>1 DEF Floor
  <1>3. OpenAt(f, n, n) = <<>> /\ Ground(g, n) = <<>>
    <2>1. n \in 0..Len(f)
      BY <1>1, LenProperties
    <2>2. OpenAt(f, n, n) \in Seq(1..m) /\ Len(OpenAt(f, n, n)) = 0
      BY <1>1, <1>2, <2>1, OpenAtType
    <2> QED
      BY <1>1, <2>2, EmptySeq DEF Ground
  <1>4. <<>> \o <<>> = <<>>
    OBVIOUS
  <1>5. ASSUME NEW st, LevelOK(f, g, n, t, st)
        PROVE  st = <<>>
    <2>1. PICK d \in 0..n : Floor(f, n, d) /\ st = Ground(g, d) \o OpenAt(f, n, d)
      BY <1>5 DEF LevelOK
    <2>2. d = n
      BY <1>1, <1>2, <2>1, FloorUnique
    <2> QED
      BY <1>3, <1>4, <2>1, <2>2
  <1> QED
    BY <1>1, <1>2, <1>3, <1>4, <1>5 DEF LevelOK

\* A level without a trace has no stack; a trace with an empty one does as well.
LEMMA LevelNone ==
  ASSUME NEW f, NEW g, NEW n, NEW st, LevelOK(f, g, n, None, st)
  PROVE  st = <<>> /\ \A t : LevelOK(f, g, n, t, st)
  <1>1. PICK d \in 0..n : /\ Floor(f, n, d)
                          /\ st = Ground(g, d) \o OpenAt(f, n, d)
                          /\ OpenAt(f, n, d) = <<>> /\ Ground(g, d) = <<>>
    BY DEF LevelOK
  <1>2. <<>> \o <<>> = <<>>
    OBVIOUS
  <1>3. st = <<>>
    BY <1>1, <1>2
  <1> QED
    BY <1>1, <1>3 DEF LevelOK

-----------------------------------------------------------------------------
(* The slots of a task: where it has a reference to a Trace object.  Slot 0  *)
(* is its `_trace`, slot i the token of the @untraced call that is frame i. *)

Slots(f) == {0} \cup {i \in 1..Len(f) : f[i].kind = "untraced"}

Ref(f, t, i) == IF i = 0 THEN t ELSE f[i].trace

\* The level that the reference belongs to.
Level(f, i) == IF i = 0 THEN Len(f) ELSE i - 1

StackIn(h, r) == IF r = None THEN <<>> ELSE h[r].stack

\* A task with the frames f, the base g and the trace t: every reference has the
\* stack of its level, which is the one that the token saw, and an attached task
\* (att) has no trace whose spans are all finished.
SlotOK(f, g, t, h, att, i) ==
  LET r == Ref(f, t, i) IN
  /\ LevelOK(f, g, Level(f, i), r, StackIn(h, r))
  /\ i # 0 /\ r # None => h[r].stack = f[i].stack
  /\ att /\ r # None => h[r].stack # <<>>

TaskOK(f, g, t, h, att) == \A i \in Slots(f) : SlotOK(f, g, t, h, att, i)

\* A block pushed leaves the slots, a block popped as well.
LEMMA SlotsOfBlock ==
  ASSUME NEW m \in Nat, NEW k \in Nat, NEW f \in Seq(FrameSet(k, m)), NEW s \in 1..m
  PROVE  /\ Append(f, Block(s)) \in Seq(FrameSet(k, m))
         /\ Len(Append(f, Block(s))) = Len(f) + 1 /\ Len(f) \in Nat
         /\ \A i \in 1..Len(f) : Append(f, Block(s))[i] = f[i]
         /\ Append(f, Block(s))[Len(f) + 1] = Block(s)
         /\ Slots(Append(f, Block(s))) = Slots(f)
  <1> DEFINE f2 == Append(f, Block(s))
  <1>1. Block(s) \in FrameSet(k, m) /\ Block(s).kind = "block"
    BY DEF Block, FrameSet
  <1>2. /\ f2 \in Seq(FrameSet(k, m)) /\ Len(f2) = Len(f) + 1 /\ Len(f) \in Nat
        /\ \A i \in 1..Len(f) : f2[i] = f[i]
        /\ f2[Len(f) + 1] = Block(s)
    BY <1>1, SeqAppend, LenProperties
  <1>3. PICK n \in Nat : n = Len(f)
    BY <1>2
  <1> HIDE DEF f2
  <1>4. f2[n + 1].kind # "untraced" /\ Len(f2) = n + 1 /\ \A i \in 1..n : f2[i] = f[i]
    BY <1>1, <1>2, <1>3
  <1>5. \A i \in 1..(n + 1) : i \in 1..n \/ i = n + 1
    BY <1>3
  <1>6. {i \in 1..(n + 1) : f2[i].kind = "untraced"} = {i \in 1..n : f[i].kind = "untraced"}
    BY <1>3, <1>4, <1>5
  <1>7. Slots(f2) = Slots(f)
    BY <1>3, <1>4, <1>6 DEF Slots
  <1> QED
    BY <1>2, <1>7 DEF f2

\* The token of an @untraced call is one slot more.
LEMMA SlotsOfUntraced ==
  ASSUME NEW m \in Nat, NEW k \in Nat, NEW f \in Seq(FrameSet(k, m)), NEW t \in 0..k, NEW st \in Seq(1..m)
  PROVE  /\ Append(f, Untraced(t, st)) \in Seq(FrameSet(k, m))
         /\ Len(Append(f, Untraced(t, st))) = Len(f) + 1 /\ Len(f) \in Nat
         /\ \A i \in 1..Len(f) : Append(f, Untraced(t, st))[i] = f[i]
         /\ Append(f, Untraced(t, st))[Len(f) + 1] = Untraced(t, st)
         /\ Slots(Append(f, Untraced(t, st))) = Slots(f) \cup {Len(f) + 1}
  <1> DEFINE f2 == Append(f, Untraced(t, st))
  <1>1. Untraced(t, st) \in FrameSet(k, m) /\ Untraced(t, st).kind = "untraced"
    BY DEF Untraced, FrameSet
  <1>2. /\ f2 \in Seq(FrameSet(k, m)) /\ Len(f2) = Len(f) + 1 /\ Len(f) \in Nat
        /\ \A i \in 1..Len(f) : f2[i] = f[i]
        /\ f2[Len(f) + 1] = Untraced(t, st)
    BY <1>1, SeqAppend, LenProperties
  <1>3. PICK n \in Nat : n = Len(f)
    BY <1>2
  <1> HIDE DEF f2
  <1>4. f2[n + 1].kind = "untraced" /\ Len(f2) = n + 1 /\ \A i \in 1..n : f2[i] = f[i]
    BY <1>1, <1>2, <1>3
  <1>5. \A i \in 1..(n + 1) : i \in 1..n \/ i = n + 1
    BY <1>3
  <1>6. {i \in 1..(n + 1) : f2[i].kind = "untraced"} = {i \in 1..n : f[i].kind = "untraced"} \cup {n + 1}
    BY <1>3, <1>4, <1>5
  <1>7. Slots(f2) = Slots(f) \cup {n + 1}
    BY <1>3, <1>4, <1>6 DEF Slots
  <1> QED
    BY <1>2, <1>3, <1>7 DEF f2

\* The slots without the frame on top.
LEMMA SlotsOfFront ==
  ASSUME NEW m \in Nat, NEW k \in Nat, NEW f \in Seq(FrameSet(k, m)), f # <<>>
  PROVE  /\ Len(f) \in Nat \ {0} /\ Len(f) \in 1..Len(f)
         /\ Front(f) \in Seq(FrameSet(k, m)) /\ Len(Front(f)) = Len(f) - 1
         /\ \A i \in 1..(Len(f) - 1) : Front(f)[i] = f[i]
         /\ Last(f) = f[Len(f)] /\ Last(f) \in FrameSet(k, m)
         /\ Slots(Front(f)) = Slots(f) \ {Len(f)}
         /\ Last(f).kind = "block" => Slots(Front(f)) = Slots(f)
         /\ Last(f).kind = "untraced" => Len(f) \in Slots(f)
  <1>1. /\ Len(f) \in Nat \ {0} /\ Front(f) \in Seq(FrameSet(k, m)) /\ Len(Front(f)) = Len(f) - 1
        /\ \A i \in 1..(Len(f) - 1) : Front(f)[i] = f[i]
        /\ Last(f) = f[Len(f)] /\ Last(f) \in FrameSet(k, m)
    BY SeqFront
  <1>2. PICK n \in Nat \ {0} : n = Len(f)
    BY <1>1
  <1>3. PICK f2 \in Seq(FrameSet(k, m)) : f2 = Front(f)
    BY <1>1
  <1>4. Len(f2) = n - 1 /\ \A i \in 1..(n - 1) : f2[i] = f[i]
    BY <1>1, <1>2, <1>3
  <1>5. \A i \in 1..n : i \in 1..(n - 1) \/ i = n
    OBVIOUS
  <1>6. {i \in 1..(n - 1) : f2[i].kind = "untraced"} = {i \in 1..n : f[i].kind = "untraced"} \ {n}
    BY <1>4, <1>5
  <1>7. Slots(f2) = Slots(f) \ {n}
    BY <1>2, <1>4, <1>6 DEF Slots
  <1>8. Last(f).kind = "block" => n \notin Slots(f)
    BY <1>1, <1>2 DEF Slots
  <1>9. Last(f).kind = "untraced" => n \in Slots(f)
    BY <1>1, <1>2 DEF Slots
  <1> QED
    BY <1>1, <1>2, <1>3, <1>7, <1>8, <1>9

\* The stacks that the tokens of a task refer to are the same in the heaps h and h2.
TokensStay(f, t, h, h2) ==
  \A i \in Slots(f) \ {0} : Ref(f, t, i) # None => h2[Ref(f, t, i)].stack = h[Ref(f, t, i)].stack

\* A task is as well off as before when the stacks that it refers to stay.
LEMMA TaskKept ==
  ASSUME NEW f, NEW g, NEW t, NEW h, NEW h2, NEW att, TaskOK(f, g, t, h, att),
         \A i \in Slots(f) : Ref(f, t, i) # None => h2[Ref(f, t, i)].stack = h[Ref(f, t, i)].stack
  PROVE  TaskOK(f, g, t, h2, att)
  BY DEF TaskOK, SlotOK, StackIn

\* What the slots of the @untraced calls have is kept under a new frame.
LEMMA TokenKept ==
  ASSUME NEW f, Len(f) \in Nat, NEW f2, NEW g, NEW t, NEW t2, NEW h, NEW h2, NEW att,
         NEW i \in Slots(f) \ {0}, SlotOK(f, g, t, h, att, i), \A j \in 1..i : f2[j] = f[j],
         Ref(f, t, i) # None => h2[Ref(f, t, i)].stack = h[Ref(f, t, i)].stack
  PROVE  Ref(f2, t2, i) = Ref(f, t, i) /\ SlotOK(f2, g, t2, h2, att, i)
  <1>1. i \in 1..Len(f) /\ i - 1 \in Nat
    BY DEF Slots
  <1>2. f2[i] = f[i] /\ Ref(f2, t2, i) = Ref(f, t, i) /\ Level(f2, i) = i - 1 /\ Level(f, i) = i - 1
    BY <1>1 DEF Ref, Level
  <1>3. StackIn(h2, Ref(f, t, i)) = StackIn(h, Ref(f, t, i))
    BY DEF StackIn
  <1>4. LevelOK(f, g, i - 1, Ref(f, t, i), StackIn(h, Ref(f, t, i)))
    BY <1>2 DEF SlotOK
  <1>5. LevelOK(f2, g, i - 1, Ref(f, t, i), StackIn(h, Ref(f, t, i)))
    <2>1. \A j \in 1..(i - 1) : f2[j] = f[j]
      BY <1>1
    <2> QED
      BY <1>1, <1>4, <2>1, LevelSame
  <1>6. /\ Ref(f, t, i) # None => h[Ref(f, t, i)].stack = f[i].stack
        /\ att /\ Ref(f, t, i) # None => h[Ref(f, t, i)].stack # <<>>
    BY <1>1 DEF SlotOK
  <1> QED
    BY <1>2, <1>3, <1>5, <1>6 DEF SlotOK

\* A frame more or a frame less leaves the tokens below it in order.
LEMMA TokensKept ==
  ASSUME NEW f, Len(f) \in Nat, NEW f2, NEW g, NEW t, NEW t2, NEW h, NEW h2, NEW att,
         TaskOK(f, g, t, h, att),
         NEW n \in 0..Len(f), \A j \in 1..n : f2[j] = f[j],
         TokensStay(f, t, h, h2)
  PROVE  \A i \in (Slots(f) \cap 1..n) : Ref(f2, t2, i) = Ref(f, t, i) /\ SlotOK(f2, g, t2, h2, att, i)
  <1> SUFFICES ASSUME NEW i \in Slots(f) \cap 1..n
               PROVE  Ref(f2, t2, i) = Ref(f, t, i) /\ SlotOK(f2, g, t2, h2, att, i)
    OBVIOUS
  <1>1. i \in Slots(f) \ {0} /\ \A j \in 1..i : f2[j] = f[j]
    OBVIOUS
  <1>2. SlotOK(f, g, t, h, att, i)
    BY DEF TaskOK
  <1>3. Ref(f, t, i) # None => h2[Ref(f, t, i)].stack = h[Ref(f, t, i)].stack
    BY <1>1 DEF TokensStay
  <1> QED
    BY <1>1, <1>2, <1>3, TokenKept

\* A task stays in order when it enters a block.
LEMMA TaskEnter ==
  ASSUME NEW m \in Nat, NEW k \in Nat, NEW f \in Seq(FrameSet(k, m)), NEW g \in Seq(1..m), NEW s \in 1..m,
         NEW t, NEW t2, t2 # None, NEW h, NEW h2, NEW att, TaskOK(f, g, t, h, att),
         NEW st \in Seq(1..m), st = StackIn(h, t), h2[t2].stack = Append(st, s),
         TokensStay(f, t, h, h2)
  PROVE  TaskOK(Append(f, Block(s)), g, t2, h2, att)
  <1> DEFINE f2 == Append(f, Block(s))
  <1>1. /\ f2 \in Seq(FrameSet(k, m)) /\ Len(f2) = Len(f) + 1 /\ Len(f) \in Nat
        /\ \A i \in 1..Len(f) : f2[i] = f[i]
        /\ Slots(f2) = Slots(f)
    BY SlotsOfBlock
  <1>2. LevelOK(f, g, Len(f), t, st)
    BY DEF TaskOK, SlotOK, Slots, Ref, Level
  <1>3. LevelOK(f2, g, Len(f) + 1, t2, Append(st, s))
    BY <1>2, LevelPush
  <1> HIDE DEF f2
  <1>4. h2[t2].stack # <<>>
    BY LastPushed
  <1>5. SlotOK(f2, g, t2, h2, att, 0)
    BY <1>1, <1>3, <1>4 DEF SlotOK, Ref, Level, StackIn
  <1>6. \A i \in Slots(f) \cap 1..Len(f) : SlotOK(f2, g, t2, h2, att, i)
    <2>1. PICK n \in 0..Len(f) : n = Len(f)
      BY <1>1
    <2> QED
      BY <1>1, <2>1, TokensKept
  <1>7. TaskOK(f2, g, t2, h2, att)
    BY <1>1, <1>5, <1>6 DEF TaskOK, Slots
  <1> QED
    BY <1>7 DEF f2

\* ... when it starts a trace of its own, with no block open.
LEMMA TaskEnterTrace ==
  ASSUME NEW m \in Nat, NEW k \in Nat, NEW f \in Seq(FrameSet(k, m)), NEW g \in Seq(1..m), NEW s \in 1..m,
         NEW t, NEW t2, t2 # None, NEW h, NEW h2, NEW att, TaskOK(f, g, t, h, att),
         NEW d \in 0..Len(f), Floor(f, Len(f), d), OpenAt(f, Len(f), d) = <<>>,
         NEW g2, g2 = (IF d = 0 THEN <<>> ELSE g),
         h2[t2].stack = <<s>>,
         TokensStay(f, t, h, h2)
  PROVE  TaskOK(Append(f, Block(s)), g2, t2, h2, att)
  <1> DEFINE f2 == Append(f, Block(s))
  <1>1. /\ f2 \in Seq(FrameSet(k, m)) /\ Len(f2) = Len(f) + 1 /\ Len(f) \in Nat
        /\ \A i \in 1..Len(f) : f2[i] = f[i]
        /\ Slots(f2) = Slots(f)
    BY SlotsOfBlock
  <1>2. g2 \in Seq(1..m) /\ Ground(g2, d) = <<>>
    BY EmptySeq DEF Ground
  <1>3. <<>> \o <<>> = <<>> /\ Append(<<>>, s) = <<s>> /\ <<s>> # <<>>
    OBVIOUS
  <1>4. LevelOK(f, g2, Len(f), t2, <<>>)
    BY <1>2, <1>3 DEF LevelOK
  <1>5. LevelOK(f2, g2, Len(f) + 1, t2, Append(<<>>, s))
    BY <1>2, <1>4, LevelPush
  <1> HIDE DEF f2
  <1>6. SlotOK(f2, g2, t2, h2, att, 0)
    BY <1>1, <1>3, <1>5 DEF SlotOK, Ref, Level, StackIn
  <1>7. \A i \in Slots(f) \cap 1..Len(f) : SlotOK(f2, g, t2, h2, att, i)
    <2>1. PICK n \in 0..Len(f) : n = Len(f)
      BY <1>1
    <2> QED
      BY <1>1, <2>1, TokensKept
  <1>8. \A i \in Slots(f) \cap 1..Len(f) : g2 = g
    BY DEF Floor, Slots
  <1>9. TaskOK(f2, g2, t2, h2, att)
    BY <1>1, <1>6, <1>7, <1>8 DEF TaskOK, Slots
  <1> QED
    BY <1>9 DEF f2

\* The level n below the one with the stack st, whose last span is finished.
BelowOK(f, g, n, st) == \A t : t # None \/ Len(st) = 1 => LevelOK(f, g, n, t, Front(st))

\* A task in order has on its stack the span of the block that it is in.
LEMMA TaskTop ==
  ASSUME NEW m \in Nat, NEW k \in Nat, NEW f \in Seq(FrameSet(k, m)), NEW g \in Seq(1..m),
         f # <<>>, Last(f).kind = "block", NEW t, NEW h, NEW att, TaskOK(f, g, t, h, att)
  PROVE  /\ t # None /\ h[t].stack \in Seq(1..m) /\ h[t].stack # <<>>
         /\ Last(h[t].stack) = Last(f).span
         /\ BelowOK(f, g, Len(f) - 1, h[t].stack)
  <1>1. PICK n \in 1..Len(f) : n = Len(f) /\ Last(f) = f[n]
    BY SlotsOfFront
  <1>2. LevelOK(f, g, n, t, StackIn(h, t))
    BY <1>1 DEF TaskOK, SlotOK, Slots, Ref, Level
  <1>3. /\ t # None /\ StackIn(h, t) \in Seq(1..m) /\ StackIn(h, t) # <<>> /\ Last(StackIn(h, t)) = f[n].span
        /\ \A t2 : t2 # None \/ Len(StackIn(h, t)) = 1 => LevelOK(f, g, n - 1, t2, Front(StackIn(h, t)))
    BY <1>1, <1>2, LevelPop
  <1>5. BelowOK(f, g, n - 1, StackIn(h, t))
    BY <1>3 DEF BelowOK
  <1>4. StackIn(h, t) = h[t].stack
    BY <1>3 DEF StackIn
  <1> QED
    BY <1>1, <1>3, <1>4, <1>5

\* Finishing the innermost span takes it off the stack, or drops the trace.
Popped(t, t2, h, h2) ==
  \/ t2 = t /\ Len(h[t].stack) # 1 /\ h2[t].stack = Front(h[t].stack)
  \/ t2 = None /\ Len(h[t].stack) = 1

\* It stays in order when it leaves the block, with the trace when other spans
\* are open, without it when the span was the last one.
LEMMA TaskExit ==
  ASSUME NEW m \in Nat, NEW k \in Nat, NEW f \in Seq(FrameSet(k, m)), NEW g \in Seq(1..m),
         f # <<>>, Last(f).kind = "block", NEW t, NEW t2, NEW h, NEW h2, NEW att, TaskOK(f, g, t, h, att),
         Popped(t, t2, h, h2), TokensStay(f, t, h, h2)
  PROVE  TaskOK(Front(f), g, t2, h2, att)
  <1> DEFINE f2 == Front(f)
  <1>1. /\ Len(f) \in Nat \ {0} /\ f2 \in Seq(FrameSet(k, m)) /\ Len(f2) = Len(f) - 1
        /\ \A i \in 1..(Len(f) - 1) : f2[i] = f[i]
        /\ Slots(f2) = Slots(f)
    BY SlotsOfFront
  <1>2. PICK n \in Nat : n = Len(f) - 1
    BY <1>1
  <1> HIDE DEF f2
  <1>3. PICK st \in Seq(1..m) : st = h[t].stack /\ st # <<>>
    BY TaskTop
  <1>4. /\ Len(st) \in Nat \ {0} /\ Front(st) \in Seq(1..m) /\ Len(Front(st)) = Len(st) - 1
    BY <1>3, SeqFront
  <1>5. t # None /\ (t2 # None \/ Len(st) = 1 => LevelOK(f, g, n, t2, Front(st)))
    <2>1. t # None /\ BelowOK(f, g, Len(f) - 1, h[t].stack)
      BY TaskTop
    <2>2. BelowOK(f, g, n, st)
      BY <1>2, <1>3, <2>1
    <2> QED
      BY <2>1, <2>2 DEF BelowOK
  <1>6. StackIn(h2, t2) = Front(st) /\ (t2 # None => Front(st) # <<>>)
    <2>1. CASE t2 = t /\ Len(h[t].stack) # 1 /\ h2[t].stack = Front(h[t].stack)
      <3>1. Len(Front(st)) # 0
        BY <1>3, <1>4, <2>1
      <3> QED
        BY <1>3, <1>4, <1>5, <2>1, <3>1, EmptySeq DEF StackIn
    <2>2. CASE t2 = None /\ Len(h[t].stack) = 1
      <3>1. Len(Front(st)) = 0
        BY <1>3, <1>4, <2>2
      <3>2. Front(st) = <<>>
        BY <1>4, <3>1, EmptySeq
      <3> QED
        BY <2>2, <3>2 DEF StackIn
    <2> QED
      BY <2>1, <2>2, Zenon DEF Popped
  <1>7. LevelOK(f2, g, n, t2, Front(st))
    <2>0. t2 # None \/ Len(st) = 1
      BY <1>3, <1>5, Zenon DEF Popped
    <2>1. LevelOK(f, g, n, t2, Front(st))
      BY <1>5, <2>0
    <2>2. \A i \in 1..n : f2[i] = f[i]
      BY <1>1, <1>2
    <2> QED
      BY <2>1, <2>2, LevelSame
  <1>8. SlotOK(f2, g, t2, h2, att, 0)
    BY <1>1, <1>2, <1>6, <1>7 DEF SlotOK, Ref, Level, StackIn
  <1>9. \A i \in Slots(f) \cap 1..n : SlotOK(f2, g, t2, h2, att, i)
    <2>1. n \in 0..Len(f) /\ \A j \in 1..n : f2[j] = f[j]
      BY <1>1, <1>2
    <2> QED
      BY <1>1, <2>1, TokensKept
  <1>10. TaskOK(f2, g, t2, h2, att)
    BY <1>1, <1>2, <1>8, <1>9 DEF TaskOK, Slots
  <1> QED
    BY <1>10 DEF f2

\* ... when an @untraced call takes its trace away,
LEMMA TaskUntrace ==
  ASSUME NEW m \in Nat, NEW k \in Nat, NEW f \in Seq(FrameSet(k, m)), NEW g \in Seq(1..m),
         NEW t \in 0..k, NEW h, NEW att, TaskOK(f, g, t, h, att),
         NEW st \in Seq(1..m), st = StackIn(h, t)
  PROVE  TaskOK(Append(f, Untraced(t, st)), g, None, h, att)
  <1> DEFINE f2 == Append(f, Untraced(t, st))
  <1>1. PICK n \in Nat : n = Len(f)
    BY LenProperties
  <1>2. /\ f2 \in Seq(FrameSet(k, m)) /\ Len(f2) = n + 1
        /\ \A i \in 1..n : f2[i] = f[i]
        /\ f2[n + 1] = Untraced(t, st)
        /\ Slots(f2) = Slots(f) \cup {n + 1}
    BY <1>1, SlotsOfUntraced
  <1> HIDE DEF f2
  <1>3. SlotOK(f, g, t, h, att, 0)
    BY DEF TaskOK, Slots
  <1>4. SlotOK(f2, g, None, h, att, n + 1)
    <2>1. LevelOK(f, g, n, t, st)
      BY <1>1, <1>3 DEF SlotOK, Ref, Level
    <2>2. LevelOK(f2, g, n, t, st)
      BY <1>2, <2>1, LevelSame
    <2>3. /\ Ref(f2, None, n + 1) = t /\ Level(f2, n + 1) = n
          /\ f2[n + 1].stack = st
      BY <1>2 DEF Ref, Level, Untraced
    <2>4. t # None => h[t].stack = st /\ (att => h[t].stack # <<>>)
      BY <1>3 DEF SlotOK, Ref, StackIn
    <2> QED
      BY <2>2, <2>3, <2>4 DEF SlotOK
  <1>5. SlotOK(f2, g, None, h, att, 0)
    <2>1. n + 1 \in 1..Len(f2) /\ f2[n + 1].kind = "untraced"
      BY <1>2 DEF Untraced
    <2>2. LevelOK(f2, g, n + 1, None, <<>>)
      BY <1>2, <2>1, LevelUntraced
    <2> QED
      BY <1>2, <2>2 DEF SlotOK, Ref, Level, StackIn
  <1>6. \A i \in Slots(f) \cap 1..n : SlotOK(f2, g, None, h, att, i)
    <2>1. n \in 0..Len(f) /\ Len(f) \in Nat
      BY <1>1
    <2>2. TokensStay(f, t, h, h)
      BY DEF TokensStay
    <2> QED
      BY <1>2, <2>1, <2>2, TokensKept
  <1>7. TaskOK(f2, g, None, h, att)
    BY <1>1, <1>2, <1>4, <1>5, <1>6 DEF TaskOK, Slots
  <1> QED
    BY <1>7 DEF f2

\* ... and when its return gives the trace back.
LEMMA TaskRetrace ==
  ASSUME NEW m \in Nat, NEW k \in Nat, NEW f \in Seq(FrameSet(k, m)), NEW g \in Seq(1..m),
         f # <<>>, Last(f).kind = "untraced", NEW t, NEW h, NEW att, TaskOK(f, g, t, h, att),
         NEW t2, t2 = (IF Last(f).trace # None THEN Last(f).trace ELSE t)
  PROVE  TaskOK(Front(f), g, t2, h, att)
  <1> DEFINE f2 == Front(f)
  <1>1. PICK p \in Nat, n \in 1..Len(f) : n = Len(f) /\ p = n - 1 /\ Len(f) \in Nat
    BY SlotsOfFront
  <1>2. /\ f2 \in Seq(FrameSet(k, m)) /\ Len(f2) = p
        /\ \A i \in 1..p : f2[i] = f[i]
        /\ Last(f) = f[n]
        /\ Slots(f2) = Slots(f) \ {n} /\ n \in Slots(f)
    BY <1>1, SlotsOfFront
  <1> HIDE DEF f2
  <1>3. SlotOK(f, g, t, h, att, 0) /\ SlotOK(f, g, t, h, att, n)
    BY <1>2 DEF TaskOK, Slots
  <1>4. Ref(f, t, n) = Last(f).trace /\ Level(f, n) = p /\ n # 0
    BY <1>1, <1>2 DEF Ref, Level
  <1>5. SlotOK(f2, g, t2, h, att, 0)
    <2>1. CASE Last(f).trace # None
      <3>1. t2 = Ref(f, t, n)
        BY <1>4, <2>1
      <3>2. LevelOK(f, g, p, t2, StackIn(h, t2)) /\ (att => h[t2].stack # <<>>)
        BY <1>3, <1>4, <2>1, <3>1 DEF SlotOK
      <3>3. LevelOK(f2, g, p, t2, StackIn(h, t2))
        BY <1>2, <3>2, LevelSame
      <3> QED
        BY <1>2, <3>2, <3>3 DEF SlotOK, Ref, Level
    <2>2. CASE Last(f).trace = None
      <3>1. t2 = t
        BY <2>2
      <3>2. LevelOK(f, g, n, t, StackIn(h, t)) /\ (att /\ t # None => h[t].stack # <<>>)
        BY <1>1, <1>3 DEF SlotOK, Ref, Level
      <3>3. StackIn(h, t) = <<>>
        BY <1>2, <3>2, LevelUntraced
      <3>4. LevelOK(f, g, p, None, <<>>)
        BY <1>3, <1>4, <2>2 DEF SlotOK, StackIn
      <3>5. LevelOK(f, g, p, t, <<>>)
        BY <3>4, LevelNone
      <3>6. LevelOK(f2, g, p, t, <<>>)
        BY <1>2, <3>5, LevelSame
      <3> QED
        BY <1>2, <3>1, <3>2, <3>3, <3>6 DEF SlotOK, Ref, Level
    <2> QED
      BY <2>1, <2>2
  <1>6. \A i \in Slots(f) \cap 1..p : SlotOK(f2, g, t2, h, att, i)
    <2>1. p \in 0..Len(f)
      BY <1>1
    <2>2. TokensStay(f, t, h, h)
      BY DEF TokensStay
    <2> QED
      BY <1>1, <1>2, <2>1, <2>2, TokensKept
  <1>7. TaskOK(f2, g, t2, h, att)
    BY <1>1, <1>2, <1>5, <1>6 DEF TaskOK, Slots
  <1> QED
    BY <1>7 DEF f2

-----------------------------------------------------------------------------
(* What a task holds                                                         *)

OwnApart(f, t) == \A i, j \in Slots(f) : Ref(f, t, i) # None /\ Ref(f, t, i) = Ref(f, t, j) => i = j

Holds(f, t) == {Ref(f, t, i) : i \in Slots(f)} \ {None}

\* The references are the holdings that the property speaks of.
LEMMA HoldingsAre ==
  ASSUME NEW c \in Ctx, NEW k \in Nat, NEW m \in Nat, frames[c] \in Seq(FrameSet(k, m))
  PROVE  Holdings(c) \cup {None} = Holds(frames[c], current[c]) \cup {None}
  <1> DEFINE f == frames[c]
             t == current[c]
  <1>1. DOMAIN f = 1..Len(f) /\ Len(f) \in Nat
    BY LenProperties
  <1> HIDE DEF f, t
  <1>2. {Ref(f, t, i) : i \in Slots(f)} = {t} \cup {f[i].trace : i \in {j \in 1..Len(f) : f[j].kind = "untraced"}}
    BY <1>1 DEF Ref, Slots
  <1> QED
    BY <1>1, <1>2 DEF Holdings, Holds, f, t

\* A block more or less, with the trace that was there, none, or a new one.
LEMMA OwnBlock ==
  ASSUME NEW f, NEW f2, NEW t, NEW t2, Slots(f2) = Slots(f), \A i \in Slots(f) \ {0} : f2[i] = f[i],
         OwnApart(f, t), t2 = t \/ t2 = None \/ t2 \notin Holds(f, t)
  PROVE  OwnApart(f2, t2) /\ Holds(f2, t2) \subseteq Holds(f, t) \cup {t2}
  <1>1. \A i \in Slots(f) \ {0} : Ref(f2, t2, i) = Ref(f, t, i)
    BY DEF Ref
  <1>2. Ref(f2, t2, 0) = t2 /\ Ref(f, t, 0) = t
    BY DEF Ref
  <1>3. \A i \in Slots(f) : Ref(f, t, i) # None => Ref(f, t, i) \in Holds(f, t)
    BY DEF Holds
  <1>4. OwnApart(f2, t2)
    <2> SUFFICES ASSUME NEW i \in Slots(f), NEW j \in Slots(f),
                        Ref(f2, t2, i) # None, Ref(f2, t2, i) = Ref(f2, t2, j)
                 PROVE  i = j
      BY DEF OwnApart
    <2>1. CASE t2 = t
      <3>1. Ref(f2, t2, i) = Ref(f, t, i) /\ Ref(f2, t2, j) = Ref(f, t, j)
        BY <1>1, <1>2, <2>1
      <3> QED
        BY <3>1 DEF OwnApart
    <2>2. CASE t2 # t
      <3>1. i # 0 /\ j # 0 => i = j
        BY <1>1 DEF OwnApart
      <3>2. i # 0 => Ref(f2, t2, i) \in Holds(f, t)
        BY <1>1, <1>3
      <3>3. j # 0 => Ref(f2, t2, j) \in Holds(f, t)
        BY <1>1, <1>3
      <3> QED
        BY <1>2, <2>2, <3>1, <3>2, <3>3
    <2> QED
      BY <2>1, <2>2
  <1>5. Holds(f2, t2) \subseteq Holds(f, t) \cup {t2}
    <2> SUFFICES ASSUME NEW i \in Slots(f), Ref(f2, t2, i) # None
                 PROVE  Ref(f2, t2, i) \in Holds(f, t) \cup {t2}
      BY DEF Holds
    <2> QED
      BY <1>1, <1>2, <1>3
  <1> QED
    BY <1>4, <1>5

\* The trace that an @untraced call takes away is in its token.
LEMMA OwnUntrace ==
  ASSUME NEW f, NEW f2, NEW t, NEW n, n # 0, n \notin Slots(f), Slots(f2) = Slots(f) \cup {n},
         \A i \in Slots(f) \ {0} : f2[i] = f[i], f2[n].trace = t, OwnApart(f, t)
  PROVE  OwnApart(f2, None) /\ Holds(f2, None) \subseteq Holds(f, t)
  <1> DEFINE p(i) == IF i = n THEN 0 ELSE i
  <1>1. 0 \in Slots(f)
    BY DEF Slots
  <1>2. ASSUME NEW i \in Slots(f2), Ref(f2, None, i) # None
        PROVE  i # 0 /\ p(i) \in Slots(f) /\ Ref(f2, None, i) = Ref(f, t, p(i))
    BY <1>1, <1>2 DEF Ref
  <1>3. OwnApart(f2, None)
    <2> SUFFICES ASSUME NEW i \in Slots(f2), NEW j \in Slots(f2),
                        Ref(f2, None, i) # None, Ref(f2, None, i) = Ref(f2, None, j)
                 PROVE  i = j
      BY DEF OwnApart
    <2>1. p(i) = p(j) /\ i # 0 /\ j # 0
      <3> HIDE DEF p
      <3> QED
        BY <1>2 DEF OwnApart
    <2> QED
      BY <2>1
  <1>4. Holds(f2, None) \subseteq Holds(f, t)
    <2> HIDE DEF p
    <2> QED
      BY <1>2 DEF Holds
  <1> QED
    BY <1>3, <1>4

\* ... and comes from it when the call returns.
LEMMA OwnRetrace ==
  ASSUME NEW f, NEW f2, NEW t, NEW n, n # 0, n \in Slots(f), Slots(f2) = Slots(f) \ {n},
         \A i \in Slots(f2) \ {0} : f2[i] = f[i], OwnApart(f, t),
         NEW t2, t2 = (IF f[n].trace # None THEN f[n].trace ELSE t)
  PROVE  OwnApart(f2, t2) /\ Holds(f2, t2) \subseteq Holds(f, t)
  <1> DEFINE p(i) == IF i = 0 /\ f[n].trace # None THEN n ELSE i
  <1>1. 0 \in Slots(f)
    BY DEF Slots
  <1>2. ASSUME NEW i \in Slots(f2)
        PROVE  p(i) \in Slots(f) /\ i # n /\ Ref(f2, t2, i) = Ref(f, t, p(i))
    BY <1>1, <1>2 DEF Ref
  <1>3. OwnApart(f2, t2)
    <2> SUFFICES ASSUME NEW i \in Slots(f2), NEW j \in Slots(f2),
                        Ref(f2, t2, i) # None, Ref(f2, t2, i) = Ref(f2, t2, j)
                 PROVE  i = j
      BY DEF OwnApart
    <2>1. p(i) = p(j) /\ i # n /\ j # n
      <3> HIDE DEF p
      <3> QED
        BY <1>2 DEF OwnApart
    <2> QED
      BY <2>1
  <1>4. Holds(f2, t2) \subseteq Holds(f, t)
    <2> HIDE DEF p
    <2> QED
      BY <1>2 DEF Holds
  <1> QED
    BY <1>3, <1>4

-----------------------------------------------------------------------------
(* What a task that is waited for will find                                  *)

Begins(s, w) == Len(s) <= Len(w) /\ \A i \in 1..Len(s) : w[i] = s[i]

\* At the level n of its creator the stack still has what the level k had, whose
\* length is that of st.
WaitAt(f, g, k, st, n) ==
  k <= n /\ \E d \in 0..k : Floor(f, n, d) /\ Len(st) = Len(Ground(g, d)) + k - d

\* A task created in the frame k of a task with the frames f, the base g and the
\* trace u, where the stack was st, has the trace t: wherever the creator holds
\* t, that is not below the frame k, which it has not left.
WaitOK(f, g, k, st, t, u, h) ==
  /\ k \in 0..Len(f)
  /\ t = None => st = <<>>
  /\ t # None => Begins(st, h[t].stack) /\ \A i \in Slots(f) : Ref(f, u, i) = t => WaitAt(f, g, k, st, Level(f, i))

\* A stack begins as another one: the community modules' IsPrefix.
LEMMA BeginsIs ==
  ASSUME NEW S, NEW s \in Seq(S), NEW w \in Seq(S), Begins(s, w)
  PROVE  IsPrefix(s, w)
  <1>1. Len(s) \in Nat /\ Len(w) \in Nat
    BY LenProperties
  <1> QED
    BY <1>1, SubSeqProperties DEF Begins, IsPrefix

\* It still does with a span more,
LEMMA BeginsAppend ==
  ASSUME NEW m \in Nat, NEW s \in Seq(1..m), NEW w \in Seq(1..m), NEW e \in 1..m, Begins(s, w)
  PROVE  Begins(s, Append(w, e))
  <1>1. /\ Len(s) \in Nat /\ Len(w) \in Nat /\ Len(Append(w, e)) = Len(w) + 1
        /\ \A i \in 1..Len(w) : Append(w, e)[i] = w[i]
    BY SeqAppend, LenProperties
  <1>2. PICK w2 \in Seq(1..m) : w2 = Append(w, e)
    BY SeqAppend
  <1> QED
    BY <1>1, <1>2 DEF Begins

\* ... and with one less, if that is not one of its own.
LEMMA BeginsFront ==
  ASSUME NEW m \in Nat, NEW s \in Seq(1..m), NEW w \in Seq(1..m), Begins(s, w), Len(s) < Len(w)
  PROVE  Begins(s, Front(w))
  <1>1. Len(s) \in Nat /\ Len(w) \in Nat /\ w # <<>>
    BY LenProperties
  <1>2. PICK w2 \in Seq(1..m) : w2 = Front(w) /\ Len(w2) = Len(w) - 1 /\ \A i \in 1..(Len(w) - 1) : w2[i] = w[i]
    BY <1>1, SeqFront
  <1> QED
    BY <1>1, <1>2 DEF Begins

\* A level depends on the frames up to it,
LEMMA WaitAtSame ==
  ASSUME NEW f, NEW f2, NEW g, NEW k \in Nat, NEW st, NEW n \in Nat, \A j \in 1..n : f2[j] = f[j],
         WaitAt(f, g, k, st, n)
  PROVE  WaitAt(f2, g, k, st, n)
  <1>1. PICK d \in 0..k : k <= n /\ Floor(f, n, d) /\ Len(st) = Len(Ground(g, d)) + k - d
    BY DEF WaitAt
  <1>2. Floor(f2, n, d)
    BY <1>1 DEF Floor
  <1> QED
    BY <1>1, <1>2 DEF WaitAt

\* ... a block more leaves what was below it,
LEMMA WaitAtPush ==
  ASSUME NEW f, NEW f2, NEW g, NEW k \in Nat, NEW st, NEW n \in Nat, \A j \in 1..n : f2[j] = f[j],
         f2[n + 1].kind = "block", WaitAt(f, g, k, st, n)
  PROVE  WaitAt(f2, g, k, st, n + 1)
  <1>1. PICK d \in 0..k : k <= n /\ Floor(f, n, d) /\ Len(st) = Len(Ground(g, d)) + k - d
    BY DEF WaitAt
  <1>2. Floor(f2, n + 1, d)
    <2>1. \A j \in (d + 1)..(n + 1) : j = n + 1 \/ (j \in (d + 1)..n /\ f2[j] = f[j])
      OBVIOUS
    <2>2. d > 0 => f2[d] = f[d]
      BY <1>1
    <2> QED
      BY <1>1, <2>1, <2>2 DEF Floor
  <1> QED
    BY <1>1, <1>2 DEF WaitAt

\* ... and so does a block less, unless the task was created in it.
LEMMA WaitAtPop ==
  ASSUME NEW f, NEW f2, NEW g, NEW k \in Nat, NEW st, NEW n \in Nat, \A j \in 1..n : f2[j] = f[j],
         k # n + 1, WaitAt(f, g, k, st, n + 1)
  PROVE  WaitAt(f2, g, k, st, n)
  <1>1. PICK d \in 0..k : k <= n + 1 /\ Floor(f, n + 1, d) /\ Len(st) = Len(Ground(g, d)) + k - d
    BY DEF WaitAt
  <1>2. k <= n /\ d \in 0..n
    BY <1>1
  <1>3. Floor(f2, n, d)
    <2>1. \A j \in (d + 1)..n : j \in (d + 1)..(n + 1) /\ f2[j] = f[j]
      BY <1>2
    <2>2. d > 0 => f2[d] = f[d]
      BY <1>2
    <2> QED
      BY <1>1, <2>1, <2>2 DEF Floor
  <1> QED
    BY <1>1, <1>2, <1>3 DEF WaitAt

\* Where the creator holds the trace in the token of an @untraced call, a frame
\* more or less above that call changes nothing.
LEMMA WaitToken ==
  ASSUME NEW f, Len(f) \in Nat, NEW f2, NEW g, NEW k \in Nat, NEW st, NEW t, t # None, NEW u, NEW u2, NEW h,
         WaitOK(f, g, k, st, t, u, h), NEW n \in 0..Len(f), \A j \in 1..n : f2[j] = f[j],
         NEW i \in Slots(f) \cap 1..n, Ref(f2, u2, i) = t
  PROVE  WaitAt(f2, g, k, st, Level(f2, i))
  <1>1. i \in 1..Len(f) /\ i - 1 \in Nat /\ Level(f, i) = i - 1 /\ Level(f2, i) = i - 1 /\ Ref(f2, u2, i) = Ref(f, u, i)
    BY DEF Level, Ref
  <1>2. WaitAt(f, g, k, st, i - 1)
    BY <1>1 DEF WaitOK
  <1>3. \A j \in 1..(i - 1) : f2[j] = f[j]
    BY <1>1
  <1> QED
    BY <1>1, <1>2, <1>3, WaitAtSame

\* The creator enters a block, of the trace it has or of a new one.
LEMMA WaitEnter ==
  ASSUME NEW m \in Nat, NEW K \in Nat, NEW f \in Seq(FrameSet(K, m)), NEW s \in 1..m,
         NEW g, NEW g2, NEW k \in Nat, NEW st, NEW t, NEW u, NEW u2, NEW h, NEW h2,
         WaitOK(f, g, k, st, t, u, h), u2 = u \/ u2 # t,
         u2 = u \/ Slots(f) # {0} => g2 = g,
         t # None => Begins(st, h2[t].stack)
  PROVE  WaitOK(Append(f, Block(s)), g2, k, st, t, u2, h2)
  <1>1. PICK n \in Nat, f2 \in Seq(FrameSet(K, m)) :
             /\ n = Len(f) /\ f2 = Append(f, Block(s)) /\ Len(f2) = n + 1
             /\ \A i \in 1..n : f2[i] = f[i]
             /\ f2[n + 1].kind = "block"
             /\ Slots(f2) = Slots(f)
    <2> DEFINE q == Append(f, Block(s))
    <2>1. Block(s).kind = "block"
      BY DEF Block
    <2>2. /\ q \in Seq(FrameSet(K, m)) /\ Len(q) = Len(f) + 1 /\ Len(f) \in Nat
          /\ \A i \in 1..Len(f) : q[i] = f[i]
          /\ q[Len(f) + 1] = Block(s) /\ Slots(q) = Slots(f)
      BY SlotsOfBlock
    <2>3. PICK n \in Nat : n = Len(f)
      BY <2>2
    <2> HIDE DEF q
    <2>4. Len(q) = n + 1 /\ (\A i \in 1..n : q[i] = f[i]) /\ q[n + 1].kind = "block"
      BY <2>1, <2>2, <2>3
    <2> QED
      BY <2>2, <2>3, <2>4 DEF q
  <1>2. k \in 0..n /\ k \in 0..(n + 1)
    BY <1>1 DEF WaitOK
  <1>3. ASSUME t # None, NEW i \in Slots(f2), Ref(f2, u2, i) = t
        PROVE  WaitAt(f2, g2, k, st, Level(f2, i))
    <2>1. CASE i = 0
      <3>1. u = t /\ u2 = u /\ g2 = g
        BY <1>3, <2>1 DEF Ref
      <3>2. WaitAt(f, g, k, st, n)
        BY <1>1, <1>3, <3>1 DEF WaitOK, Ref, Level, Slots
      <3>3. WaitAt(f2, g, k, st, n + 1)
        BY <1>1, <3>2, WaitAtPush
      <3> QED
        BY <1>1, <2>1, <3>1, <3>3 DEF Level
    <2>2. CASE i # 0
      <3>1. i \in Slots(f) \cap 1..n /\ g2 = g /\ n \in 0..Len(f) /\ Len(f) \in Nat
        BY <1>1, <2>2 DEF Slots
      <3> QED
        BY <1>1, <1>3, <3>1, WaitToken
    <2> QED
      BY <2>1, <2>2
  <1>4. WaitOK(f2, g2, k, st, t, u2, h2)
    BY <1>1, <1>2, <1>3 DEF WaitOK
  <1> QED
    BY <1>1, <1>4

\* The creator leaves a block, not the one that it created the task in.
LEMMA WaitExit ==
  ASSUME NEW m \in Nat, NEW K \in Nat, NEW f \in Seq(FrameSet(K, m)), f # <<>>, Last(f).kind = "block",
         NEW g, NEW k \in Nat, k # Len(f), NEW st, NEW t, NEW u, NEW u2, NEW h, NEW h2,
         WaitOK(f, g, k, st, t, u, h), u2 = u \/ u2 = None,
         t # None => Begins(st, h2[t].stack)
  PROVE  WaitOK(Front(f), g, k, st, t, u2, h2)
  <1>1. PICK n \in Nat, f2 \in Seq(FrameSet(K, m)) :
             /\ Len(f) = n + 1 /\ f2 = Front(f) /\ Len(f2) = n
             /\ \A i \in 1..n : f2[i] = f[i]
             /\ Slots(f2) = Slots(f)
    <2>1. PICK n \in Nat : n = Len(f) - 1 /\ Len(f) = n + 1
      BY SlotsOfFront
    <2> QED
      BY <2>1, SlotsOfFront
  <1>2. k \in 0..n
    BY <1>1 DEF WaitOK
  <1>3. ASSUME t # None, NEW i \in Slots(f2), Ref(f2, u2, i) = t
        PROVE  WaitAt(f2, g, k, st, Level(f2, i))
    <2>1. CASE i = 0
      <3>1. u = t
        BY <1>3, <2>1 DEF Ref
      <3>2. WaitAt(f, g, k, st, n + 1)
        BY <1>1, <1>3, <3>1 DEF WaitOK, Ref, Level, Slots
      <3>3. k # n + 1
        BY <1>1
      <3>4. WaitAt(f2, g, k, st, n)
        BY <1>1, <3>2, <3>3, WaitAtPop
      <3> QED
        BY <1>1, <2>1, <3>4 DEF Level
    <2>2. CASE i # 0
      <3>1. i \in 1..n
        BY <1>1, <2>2 DEF Slots
      <3>2. i \in Slots(f) \cap 1..n /\ n \in 0..Len(f) /\ Len(f) \in Nat
        BY <1>1, <3>1
      <3> QED
        BY <1>1, <1>3, <3>2, WaitToken
    <2> QED
      BY <2>1, <2>2
  <1>4. WaitOK(f2, g, k, st, t, u2, h2)
    BY <1>1, <1>2, <1>3 DEF WaitOK
  <1> QED
    BY <1>1, <1>4

\* The creator starts an @untraced call.
LEMMA WaitUntrace ==
  ASSUME NEW m \in Nat, NEW K \in Nat, NEW f \in Seq(FrameSet(K, m)), NEW w \in Seq(1..m),
         NEW g, NEW k \in Nat, NEW st, NEW t, NEW u \in 0..K, NEW h, WaitOK(f, g, k, st, t, u, h)
  PROVE  WaitOK(Append(f, Untraced(u, w)), g, k, st, t, None, h)
  <1>1. PICK n \in Nat, f2 \in Seq(FrameSet(K, m)) :
             /\ n = Len(f) /\ f2 = Append(f, Untraced(u, w)) /\ Len(f2) = n + 1
             /\ \A i \in 1..n : f2[i] = f[i]
             /\ f2[n + 1].trace = u
             /\ Slots(f2) = Slots(f) \cup {n + 1}
    <2> DEFINE q == Append(f, Untraced(u, w))
    <2>1. Untraced(u, w).trace = u
      BY DEF Untraced
    <2>2. /\ q \in Seq(FrameSet(K, m)) /\ Len(q) = Len(f) + 1 /\ Len(f) \in Nat
          /\ \A i \in 1..Len(f) : q[i] = f[i]
          /\ q[Len(f) + 1] = Untraced(u, w) /\ Slots(q) = Slots(f) \cup {Len(f) + 1}
      BY SlotsOfUntraced
    <2>3. PICK n \in Nat : n = Len(f)
      BY <2>2
    <2> HIDE DEF q
    <2>4. /\ Len(q) = n + 1 /\ (\A i \in 1..n : q[i] = f[i]) /\ q[n + 1].trace = u
          /\ Slots(q) = Slots(f) \cup {n + 1}
      BY <2>1, <2>2, <2>3
    <2> QED
      BY <2>2, <2>3, <2>4 DEF q
  <1>2. k \in 0..n /\ k \in 0..(n + 1)
    BY <1>1 DEF WaitOK
  <1>3. ASSUME t # None, NEW i \in Slots(f2), Ref(f2, None, i) = t
        PROVE  WaitAt(f2, g, k, st, Level(f2, i))
    <2>1. i # 0
      BY <1>3 DEF Ref
    <2>2. CASE i = n + 1
      <3>1. u = t
        BY <1>1, <1>3, <2>1, <2>2 DEF Ref
      <3>2. WaitAt(f, g, k, st, n)
        BY <1>1, <1>3, <3>1 DEF WaitOK, Ref, Level, Slots
      <3>3. WaitAt(f2, g, k, st, n)
        BY <1>1, <3>2, WaitAtSame
      <3> QED
        BY <2>1, <2>2, <3>3 DEF Level
    <2>3. CASE i # n + 1
      <3>1. i \in Slots(f) /\ i \in 1..n /\ n \in 0..Len(f) /\ Len(f) \in Nat
        BY <1>1, <2>1, <2>3 DEF Slots
      <3> QED
        BY <1>1, <1>3, <3>1, WaitToken
    <2> QED
      BY <2>2, <2>3
  <1>4. WaitOK(f2, g, k, st, t, None, h)
    BY <1>1, <1>2, <1>3 DEF WaitOK
  <1> QED
    BY <1>1, <1>4

\* The creator comes back from one, not from the one it created the task in.
LEMMA WaitRetrace ==
  ASSUME NEW m \in Nat, NEW K \in Nat, NEW f \in Seq(FrameSet(K, m)), f # <<>>, Last(f).kind = "untraced",
         NEW g, NEW k \in Nat, k # Len(f), NEW st, NEW t, NEW u, NEW h,
         WaitOK(f, g, k, st, t, u, h),
         NEW u2, u2 = (IF Last(f).trace # None THEN Last(f).trace ELSE u)
  PROVE  WaitOK(Front(f), g, k, st, t, u2, h)
  <1>1. PICK n \in Nat, f2 \in Seq(FrameSet(K, m)) :
             /\ Len(f) = n + 1 /\ f2 = Front(f) /\ Len(f2) = n
             /\ \A i \in 1..n : f2[i] = f[i]
             /\ Slots(f2) = Slots(f) \ {n + 1} /\ n + 1 \in Slots(f)
             /\ Last(f) = f[n + 1]
    <2>1. PICK n \in Nat : n = Len(f) - 1 /\ Len(f) = n + 1
      BY SlotsOfFront
    <2> QED
      BY <2>1, SlotsOfFront
  <1>2. k \in 0..n
    BY <1>1 DEF WaitOK
  <1>3. ASSUME t # None, NEW i \in Slots(f2), Ref(f2, u2, i) = t
        PROVE  WaitAt(f2, g, k, st, Level(f2, i))
    <2>1. CASE i = 0
      <3>1. u2 = t /\ Level(f2, i) = n
        BY <1>1, <1>3, <2>1 DEF Ref, Level
      <3>2. CASE Last(f).trace # None
        <4>1. Ref(f, u, n + 1) = t /\ Level(f, n + 1) = n
          BY <1>1, <3>1, <3>2 DEF Ref, Level
        <4>2. WaitAt(f, g, k, st, n)
          BY <1>1, <1>3, <4>1 DEF WaitOK
        <4> QED
          BY <1>1, <3>1, <4>2, WaitAtSame
      <3>3. CASE Last(f).trace = None
        <4>1. u = t
          BY <3>1, <3>3
        <4>2. WaitAt(f, g, k, st, n + 1)
          BY <1>1, <1>3, <4>1 DEF WaitOK, Ref, Level, Slots
        <4>3. PICK d \in 0..k : Floor(f, n + 1, d)
          BY <4>2 DEF WaitAt
        <4>4. n + 1 \in (d + 1)..(n + 1) /\ f[n + 1].kind # "block"
          BY <1>1, <1>2
        <4> QED
          BY <4>3, <4>4 DEF Floor
      <3> QED
        BY <3>2, <3>3
    <2>2. CASE i # 0
      <3>1. i \in 1..n
        BY <1>1, <2>2 DEF Slots
      <3>2. i \in Slots(f) \cap 1..n /\ n \in 0..Len(f) /\ Len(f) \in Nat
        BY <1>1, <3>1
      <3> QED
        BY <1>1, <1>3, <3>2, WaitToken
    <2> QED
      BY <2>1, <2>2
  <1>4. WaitOK(f2, g, k, st, t, u2, h)
    BY <1>1, <1>2, <1>3 DEF WaitOK
  <1> QED
    BY <1>1, <1>4

\* The stack of the level k is shorter than that of a level above it.
LEMMA WaitShorter ==
  ASSUME NEW m \in Nat, NEW K \in Nat, NEW f \in Seq(FrameSet(K, m)), NEW g \in Seq(1..m), NEW n \in 0..Len(f),
         NEW t, NEW w, LevelOK(f, g, n, t, w), NEW k \in Nat, NEW st, WaitAt(f, g, k, st, n), k # n
  PROVE  Len(st) < Len(w)
  <1>1. PICK e \in 0..k : k <= n /\ Floor(f, n, e) /\ Len(st) = Len(Ground(g, e)) + k - e
    BY DEF WaitAt
  <1>2. PICK d \in 0..n : Floor(f, n, d) /\ w = Ground(g, d) \o OpenAt(f, n, d)
    BY DEF LevelOK
  <1>3. d = e
    <2>1. n \in Nat /\ e \in 0..n
      BY <1>1, LenProperties
    <2> QED
      BY <1>1, <1>2, <2>1, FloorUnique
  <1>4. OpenAt(f, n, d) \in Seq(1..m) /\ Len(OpenAt(f, n, d)) = n - d /\ Ground(g, d) \in Seq(1..m)
    <2>1. Ground(g, d) \in Seq(1..m)
      BY GroundType
    <2> QED
      BY <1>2, <2>1, OpenAtType
  <1>5. Len(w) = Len(Ground(g, d)) + Len(OpenAt(f, n, d)) /\ Len(Ground(g, d)) \in Nat
    BY <1>2, <1>4, ConcatProperties, LenProperties
  <1>6. PICK l \in Nat : l = Len(Ground(g, d))
    BY <1>5
  <1>7. Len(st) = l + k - d /\ Len(w) = l + (n - d)
    BY <1>1, <1>3, <1>4, <1>5, <1>6
  <1>8. n \in Nat
    BY LenProperties
  <1>9. k < n
    BY <1>1, <1>8
  <1> HIDE <1>1, <1>2, <1>3, <1>4, <1>5, <1>6
  <1> QED
    BY <1>7, <1>8, <1>9

-----------------------------------------------------------------------------
(* The inductive invariant *)

\* Tasks that do not run are in no frame.
Idle == \A c \in Ctx : ~Running(c) => frames[c] = <<>>

\* No Trace object has two references among the tasks that run.
HoldApart ==
  \A c \in Ctx : Running(c) =>
    /\ OwnApart(frames[c], current[c])
    /\ \A e \in Ctx \ {c} : Running(e) => Holds(frames[c], current[c]) \cap Holds(frames[e], current[e]) = {}

TasksFine == \A c \in Ctx : Running(c) => TaskOK(frames[c], base[c], current[c], traces, born[c].attached)

Waiting(d) == phase[d] = "created" /\ born[d].awaited

\* A task that is waited for has not lost the spans it was created in, and only
\* its creator can touch them.
WaitsOK ==
  \A d \in Ctx : Waiting(d) =>
    LET c == born[d].by IN
    /\ Running(c)
    /\ WaitOK(frames[c], base[c], born[d].depth, born[d].stack, current[d], current[c], traces)
    /\ \A e \in Ctx \ {c} : Running(e) => current[d] \notin Holds(frames[e], current[e])

AttachedWaits ==
  \A d \in Ctx : phase[d] = "created" /\ born[d].attached =>
    born[d].awaited /\ (current[d] # None => born[d].stack # <<>>)

TasksRest == Idle /\ HoldApart /\ TasksFine /\ WaitsOK /\ AttachedWaits

TasksInv == TasksTypes /\ PathsOK /\ TasksRest

\* A step of the running task c keeps its own affairs in order, and touches no
\* stack but that of its own trace.
Stepped(c) ==
  /\ Running(c) /\ UNCHANGED <<phase, born>>
  /\ \A e \in Ctx \ {c} : frames'[e] = frames[e] /\ base'[e] = base[e] /\ current'[e] = current[e]
  /\ \A t \in 1..Len(traces) : t # current[c] => traces'[t].stack = traces[t].stack
  /\ OwnApart(frames'[c], current'[c])
  /\ \A r \in Holds(frames'[c], current'[c]) : r \in Holds(frames[c], current[c]) \/ r > Len(traces)
  /\ TaskOK(frames'[c], base'[c], current'[c], traces', born[c].attached)
  /\ \A d \in Ctx : Waiting(d) /\ born[d].by = c =>
       WaitOK(frames'[c], base'[c], born[d].depth, born[d].stack, current[d], current'[c], traces')

\* What a task holds are Trace objects that exist.
LEMMA HoldsType ==
  ASSUME TasksTypes, NEW c \in Ctx
  PROVE  /\ Len(traces) \in Nat
         /\ Holds(frames[c], current[c]) \subseteq 1..Len(traces)
         /\ current[c] # None => current[c] \in Holds(frames[c], current[c]) /\ current[c] \in 1..Len(traces)
  <1>1. frames[c] \in Seq(FrameSet(Len(traces), Len(spans))) /\ current[c] \in 0..Len(traces) /\ Len(traces) \in Nat
    BY LenProperties DEF TasksTypes, TasksOK, HeapOK, RefsOK
  <1>2. ASSUME NEW i \in Slots(frames[c]), i # 0
        PROVE  frames[c][i].trace \in 0..Len(traces)
    <2>1. i \in 1..Len(frames[c]) /\ frames[c][i].kind = "untraced"
      BY <1>2 DEF Slots
    <2>2. frames[c][i] \in FrameSet(Len(traces), Len(spans))
      BY <1>1, <2>1, ElementOfSeq
    <2> QED
      BY <2>1, <2>2 DEF FrameSet
  <1>3. ASSUME NEW i \in Slots(frames[c]), Ref(frames[c], current[c], i) # None
        PROVE  Ref(frames[c], current[c], i) \in 1..Len(traces)
    BY <1>1, <1>2, <1>3 DEF Ref, None
  <1> QED
    BY <1>1, <1>3 DEF Holds, Slots, Ref, None

\* Nothing of what e holds is the trace of another running task.
LEMMA NotTheirs ==
  ASSUME TasksTypes, HoldApart, NEW c \in Ctx, Running(c), NEW e \in Ctx \ {c}, Running(e),
         NEW r \in Holds(frames[e], current[e])
  PROVE  r # current[c] /\ r \in 1..Len(traces) /\ r \notin Holds(frames[c], current[c])
  <1>1. Holds(frames[c], current[c]) \cap Holds(frames[e], current[e]) = {}
    BY DEF HoldApart
  <1>2. r # None
    BY DEF Holds
  <1> QED
    BY <1>1, <1>2, HoldsType

\* Such a step keeps everything in order.
LEMMA SteppedInv ==
  ASSUME TasksInv, NEW c \in Ctx, Stepped(c)
  PROVE  TasksRest'
  <1> USE DEF TasksInv, TasksRest
  <1>1. /\ Running(c) /\ phase' = phase /\ born' = born
        /\ \A e \in Ctx \ {c} : frames'[e] = frames[e] /\ base'[e] = base[e] /\ current'[e] = current[e]
        /\ \A t \in 1..Len(traces) : t # current[c] => traces'[t].stack = traces[t].stack
    BY DEF Stepped
  <1>2. \A e \in Ctx : Running(e)' <=> Running(e)
    BY <1>1 DEF Running
  <1>3. \A d \in Ctx : (Waiting(d)' <=> Waiting(d)) /\ (phase[d] = "created" => d # c)
    BY <1>1 DEF Waiting, Running
  <1>4. Idle'
    BY <1>1, <1>2 DEF Idle
  <1>5. \A r \in Holds(frames'[c], current'[c]) : r \in Holds(frames[c], current[c]) \/ r > Len(traces)
    BY DEF Stepped
  <1>6. ASSUME NEW e \in Ctx \ {c}, Running(e), NEW r \in Holds(frames[e], current[e])
        PROVE  r \notin Holds(frames'[c], current'[c])
    <2>1. r \in 1..Len(traces) /\ r \notin Holds(frames[c], current[c]) /\ Len(traces) \in Nat
      BY <1>1, <1>6, NotTheirs, HoldsType
    <2> QED
      BY <1>5, <2>1
  <1>7. HoldApart'
    <2> SUFFICES ASSUME NEW a \in Ctx, Running(a)
                 PROVE  /\ OwnApart(frames'[a], current'[a])
                        /\ \A e \in Ctx \ {a} : Running(e) =>
                             Holds(frames'[a], current'[a]) \cap Holds(frames'[e], current'[e]) = {}
      BY <1>2 DEF HoldApart
    <2>1. CASE a = c
      BY <1>1, <1>6, <2>1 DEF Stepped
    <2>2. CASE a # c
      <3>1. OwnApart(frames[a], current[a])
        BY DEF HoldApart
      <3>2. ASSUME NEW e \in Ctx \ {a}, Running(e)
            PROVE  Holds(frames'[a], current'[a]) \cap Holds(frames'[e], current'[e]) = {}
        <4>1. CASE e = c
          BY <1>1, <1>6, <2>2, <4>1
        <4>2. CASE e # c
          BY <1>1, <2>2, <3>2, <4>2 DEF HoldApart
        <4> QED
          BY <4>1, <4>2
      <3> QED
        BY <1>1, <2>2, <3>1, <3>2
    <2> QED
      BY <2>1, <2>2
  <1>8. TasksFine'
    <2> SUFFICES ASSUME NEW a \in Ctx, Running(a)
                 PROVE  TaskOK(frames'[a], base'[a], current'[a], traces', born[a].attached)
      BY <1>1, <1>2 DEF TasksFine
    <2>1. CASE a = c
      BY <2>1 DEF Stepped
    <2>2. CASE a # c
      <3>1. TaskOK(frames[a], base[a], current[a], traces, born[a].attached)
        BY DEF TasksFine
      <3>2. ASSUME NEW i \in Slots(frames[a]), Ref(frames[a], current[a], i) # None
            PROVE  traces'[Ref(frames[a], current[a], i)].stack = traces[Ref(frames[a], current[a], i)].stack
        <4>1. Ref(frames[a], current[a], i) \in Holds(frames[a], current[a])
          BY <3>2 DEF Holds
        <4> QED
          BY <1>1, <2>2, <4>1, NotTheirs
      <3>3. TaskOK(frames[a], base[a], current[a], traces', born[a].attached)
        BY <3>1, <3>2, TaskKept
      <3> QED
        BY <1>1, <2>2, <3>3
    <2> QED
      BY <2>1, <2>2
  <1>9. WaitsOK'
    <2> SUFFICES ASSUME NEW d \in Ctx, Waiting(d), d # c
                 PROVE  LET b == born[d].by IN
                        /\ Running(b)
                        /\ WaitOK(frames'[b], base'[b], born[d].depth, born[d].stack, current'[d], current'[b], traces')
                        /\ \A e \in Ctx \ {b} : Running(e) => current'[d] \notin Holds(frames'[e], current'[e])
      <3>1. \A d \in Ctx : Waiting(d) => d # c
        BY <1>3 DEF Waiting
      <3>2. \A d \in Ctx : born[d].by \in Ctx
        BY DEF TasksTypes, TasksOK, BirthSet
      <3> QED
        BY <1>1, <1>2, <1>3, <3>1, <3>2, Zenon DEF WaitsOK
    <2>1. PICK b \in Ctx : b = born[d].by
      BY DEF TasksTypes, TasksOK, BirthSet
    <2>2. /\ Running(b)
          /\ WaitOK(frames[b], base[b], born[d].depth, born[d].stack, current[d], current[b], traces)
          /\ \A e \in Ctx \ {b} : Running(e) => current[d] \notin Holds(frames[e], current[e])
      BY <2>1 DEF WaitsOK
    <2>3. current'[d] = current[d] /\ current[d] \in 0..Len(traces) /\ Len(traces) \in Nat
      BY <1>1, LenProperties DEF TasksTypes, HeapOK, RefsOK
    <2>4. b # c => current[d] \notin Holds(frames'[c], current'[c])
      BY <1>1, <1>5, <2>2, <2>3
    <2>5. \A e \in Ctx \ {b} : Running(e) => current'[d] \notin Holds(frames'[e], current'[e])
      BY <1>1, <2>2, <2>3, <2>4
    <2>6. WaitOK(frames'[b], base'[b], born[d].depth, born[d].stack, current'[d], current'[b], traces')
      <3>1. CASE b = c
        BY <2>1, <2>3, <3>1 DEF Stepped
      <3>2. CASE b # c
        <4>1. current[d] # None => current[d] \in 1..Len(traces) /\ current[d] # current[c]
          BY <1>1, <2>2, <2>3, <3>2, HoldsType DEF None
        <4>2. current[d] # None => traces'[current[d]].stack = traces[current[d]].stack
          BY <1>1, <4>1
        <4>3. WaitOK(frames[b], base[b], born[d].depth, born[d].stack, current[d], current[b], traces')
          BY <2>2, <4>2 DEF WaitOK
        <4> QED
          BY <1>1, <2>3, <3>2, <4>3
      <3> QED
        BY <3>1, <3>2
    <2> QED
      BY <2>1, <2>2, <2>5, <2>6
  <1>10. AttachedWaits'
    BY <1>1, <1>3 DEF AttachedWaits
  <1> QED
    BY <1>4, <1>7, <1>8, <1>9, <1>10

-----------------------------------------------------------------------------
(* The steps of a running task                                               *)

\* What a task refers to, in the heap after the step.
LEMMA TaskGrown ==
  ASSUME TasksInv, TasksTypes', Len(traces') >= Len(traces), Len(spans') >= Len(spans), NEW c \in Ctx
  PROVE  /\ Len(traces') \in Nat /\ Len(spans') \in Nat /\ Len(traces) \in Nat /\ Len(spans) \in Nat
         /\ frames[c] \in Seq(FrameSet(Len(traces'), Len(spans')))
         /\ base[c] \in Seq(1..Len(spans'))
         /\ current[c] \in 0..Len(traces) /\ current[c] \in 0..Len(traces')
         /\ \A d \in Ctx : born[d].stack \in Seq(1..Len(spans')) /\ born[d].depth \in Nat /\ current[d] \in 0..Len(traces)
         /\ StackIn(traces, current[c]) \in Seq(1..Len(spans'))
         /\ \A t \in 1..Len(traces) : traces[t].stack \in Seq(1..Len(spans'))
  <1>1. PICK n \in Nat, m \in Nat, n2 \in Nat, m2 \in Nat :
             n = Len(traces) /\ m = Len(spans) /\ n2 = Len(traces') /\ m2 = Len(spans') /\ n <= n2 /\ m <= m2
    BY LenProperties DEF TasksInv, TasksTypes, HeapOK
  <1>2. /\ frames \in [Ctx -> Seq(FrameSet(n, m))] /\ base \in [Ctx -> Seq(1..m)] /\ born \in [Ctx -> BirthSet(m)]
        /\ current \in [Ctx -> 0..n]
    BY <1>1 DEF TasksInv, TasksTypes, TasksOK, RefsOK
  <1>3. /\ frames \in [Ctx -> Seq(FrameSet(n2, m2))] /\ base \in [Ctx -> Seq(1..m2)] /\ born \in [Ctx -> BirthSet(m2)]
        /\ current \in [Ctx -> 0..n2] /\ Seq(1..m) \subseteq Seq(1..m2)
    <2>1. Seq(1..m) \subseteq Seq(1..m2)
      <3>1. 1..m \subseteq 1..m2
        BY <1>1
      <3> QED
        BY <3>1, SeqMonotonic
    <2>2. /\ [Ctx -> Seq(FrameSet(n, m))] \subseteq [Ctx -> Seq(FrameSet(n2, m2))]
          /\ [Ctx -> Seq(1..m)] \subseteq [Ctx -> Seq(1..m2)]
          /\ [Ctx -> BirthSet(m)] \subseteq [Ctx -> BirthSet(m2)]
      BY <1>1, TaskSetsGrow
    <2>3. current \in [Ctx -> 0..n2]
      BY <1>1, <1>2
    <2> QED
      BY <1>2, <2>1, <2>2, <2>3
  <1>4. \A t \in 1..n : traces[t].stack \in Seq(1..m2)
    BY <1>1, <1>3, TraceType DEF TasksInv, TasksTypes
  <1>5. StackIn(traces, current[c]) \in Seq(1..m2)
    <2>1. <<>> \in Seq(1..m2)
      BY EmptySeq
    <2>2. current[c] # None => current[c] \in 1..n
      BY <1>2 DEF None
    <2> QED
      BY <1>4, <2>1, <2>2 DEF StackIn
  <1> QED
    BY <1>1, <1>2, <1>3, <1>4, <1>5 DEF BirthSet

\* The tokens of a task refer to other Trace objects than its own trace.
LEMMA OwnTokens ==
  ASSUME TasksInv, NEW c \in Ctx, Running(c), NEW h2,
         \A t \in 1..Len(traces) : t # current[c] => h2[t].stack = traces[t].stack
  PROVE  TokensStay(frames[c], current[c], traces, h2)
  <1> SUFFICES ASSUME NEW i \in Slots(frames[c]) \ {0}, Ref(frames[c], current[c], i) # None
               PROVE  h2[Ref(frames[c], current[c], i)].stack = traces[Ref(frames[c], current[c], i)].stack
    BY DEF TokensStay
  <1>1. Ref(frames[c], current[c], i) \in 1..Len(traces)
    <2>1. Ref(frames[c], current[c], i) \in Holds(frames[c], current[c])
      BY DEF Holds
    <2> QED
      BY <2>1, HoldsType DEF TasksInv
  <1>2. Ref(frames[c], current[c], i) # current[c]
    <2>1. OwnApart(frames[c], current[c]) /\ 0 \in Slots(frames[c]) /\ Ref(frames[c], current[c], 0) = current[c]
      BY DEF TasksInv, TasksRest, HoldApart, Slots, Ref
    <2> QED
      BY <2>1 DEF OwnApart
  <1> QED
    BY <1>1, <1>2

\* start_trace in the heap: a new object, the others as they were.
LEMMA StartTraceHeap ==
  ASSUME TasksTypes, NEW c \in Ctx, NEW id, NEW p, StartTrace(c, id, p)
  PROVE  /\ current' = [current EXCEPT ![c] = Len(traces) + 1]
         /\ traces'[Len(traces) + 1].stack = <<NewSpan>>
         /\ \A t \in 1..Len(traces) : traces'[t].stack = traces[t].stack
         /\ Len(traces') = Len(traces) + 1
         /\ NewSpan = Len(spans) + 1 /\ Len(spans') = Len(spans) + 1
  <1> DEFINE t == [id |-> IF id = None THEN NewTrace ELSE id, stack |-> <<NewSpan>>]
  <1>1. traces' = Append(traces, t) /\ current' = [current EXCEPT ![c] = Len(traces) + 1] /\ t.stack = <<NewSpan>>
    BY DEF StartTrace, NewTrace
  <1>2. \E n : spans' = Append(spans, n)
    BY DEF StartTrace, PushSpan
  <1>3. Len(spans') = Len(spans) + 1
    BY <1>2, LastAppended DEF TasksTypes, HeapOK
  <1> HIDE DEF t
  <1> QED
    BY <1>1, <1>3, TraceAppended DEF TasksTypes, NewSpan

\* A block that starts a trace, in a task that had none or lets go of it.
LEMMA NewTraceStepped ==
  ASSUME TasksInv, TasksTypes', Len(traces') >= Len(traces), Len(spans') >= Len(spans),
         NEW c \in Ctx, Push(c, Block(NewSpan)), UNCHANGED <<phase, born>>,
         NEW id, NEW p, StartTrace(c, id, p),
         Open(c) = <<>>,
         base' = IF Detached(c) = 0 THEN [base EXCEPT ![c] = <<>>] ELSE base
  PROVE  Stepped(c)
  <1> DEFINE f == frames[c]
             g == base[c]
             s == NewSpan
             u == current[c]
             u2 == Len(traces) + 1
             h2 == traces'
  <1>1. PICK m \in Nat, K \in Nat : m = Len(spans') /\ K = Len(traces')
    BY TaskGrown
  <1>2. /\ f \in Seq(FrameSet(K, m)) /\ g \in Seq(1..m) /\ s \in 1..m /\ u \in 0..Len(traces)
        /\ Len(traces) \in Nat /\ u2 # None /\ Len(f) \in Nat
    BY <1>1, TaskGrown, StartTraceHeap, LenProperties DEF TasksInv, None
  <1>3. Running(c) /\ TaskOK(f, g, u, traces, born[c].attached) /\ OwnApart(f, u)
    BY DEF Push, TasksInv, TasksRest, TasksFine, HoldApart
  <1>4. /\ current' = [current EXCEPT ![c] = u2] /\ h2[u2].stack = <<s>>
        /\ \A t \in 1..Len(traces) : h2[t].stack = traces[t].stack
    BY StartTraceHeap DEF TasksInv
  <1>5. frames' = [frames EXCEPT ![c] = Append(f, Block(s))]
    BY DEF Push
  <1>6. /\ frames \in [Ctx -> Seq(FrameSet(Len(traces), Len(spans)))] /\ base \in [Ctx -> Seq(1..Len(spans))]
        /\ current \in [Ctx -> 0..Len(traces)]
    BY DEF TasksInv, TasksTypes, TasksOK, RefsOK
  <1>7. PICK d \in 0..Len(f) : Floor(f, Len(f), d) /\ OpenAt(f, Len(f), d) = <<>> /\ Detached(c) = d
    <2>1. PICK d \in 0..Len(f) : Floor(f, Len(f), d)
      BY <1>3 DEF TaskOK, SlotOK, Slots, Ref, Level, LevelOK
    <2>2. Detached(c) = d /\ Open(c) = OpenAt(f, Len(f), d)
      BY <1>2, <2>1, DetachedIs
    <2> QED
      BY <2>1, <2>2
  <1>8. PICK g2 : g2 = IF d = 0 THEN <<>> ELSE g
    OBVIOUS
  <1>9. base'[c] = g2 /\ (\A e \in Ctx \ {c} : base'[e] = base[e]) /\ current'[c] = u2 /\ frames'[c] = Append(f, Block(s))
    BY <1>4, <1>5, <1>6, <1>7, <1>8
  <1>10. TokensStay(f, u, traces, h2)
    BY <1>3, <1>4, OwnTokens
  <1>11. \A r \in Holds(f, u) : r # u2 /\ r \in 1..Len(traces)
    <2>1. Holds(f, u) \subseteq 1..Len(traces) /\ Len(traces) \in Nat
      BY HoldsType DEF TasksInv
    <2> HIDE DEF f, u
    <2> QED
      BY <2>1
  <1> HIDE DEF f, g, s, u, u2, h2
  <1>12. TaskOK(Append(f, Block(s)), g2, u2, h2, born[c].attached)
    BY <1>2, <1>3, <1>4, <1>7, <1>8, <1>10, TaskEnterTrace
  <1>13. OwnApart(Append(f, Block(s)), u2) /\ Holds(Append(f, Block(s)), u2) \subseteq Holds(f, u) \cup {u2}
    <2>1. /\ Slots(Append(f, Block(s))) = Slots(f)
          /\ \A i \in Slots(f) \ {0} : Append(f, Block(s))[i] = f[i]
      BY <1>2, SlotsOfBlock DEF Slots
    <2> QED
      BY <1>3, <1>11, <2>1, OwnBlock
  <1>14. ASSUME NEW e \in Ctx, Waiting(e), born[e].by = c
         PROVE  WaitOK(Append(f, Block(s)), g2, born[e].depth, born[e].stack, current[e], u2, h2)
    <2>0. born[e].depth \in Nat /\ current[e] \in 0..Len(traces)
      BY TaskGrown
    <2>1. PICK st : st = born[e].stack
      OBVIOUS
    <2>8. PICK k \in Nat, t \in 0..Len(traces) : k = born[e].depth /\ t = current[e]
      BY <2>0
    <2>2. WaitOK(f, g, k, st, t, u, traces)
      BY <1>14, <2>1, <2>8 DEF TasksInv, TasksRest, WaitsOK, f, g, u
    <2>3. t # None => Begins(st, h2[t].stack)
      <3>1. t # None => t \in 1..Len(traces)
        BY <1>2 DEF None
      <3> QED
        BY <1>4, <2>2, <3>1 DEF WaitOK
    <2>4. u2 # t
      BY <1>2 DEF u2
    <2>5. Slots(f) # {0} => g2 = g
      BY <1>7, <1>8 DEF Floor, Slots
    <2>6. u2 # u
      BY <1>2 DEF u2
    <2>7. WaitOK(Append(f, Block(s)), g2, k, st, t, u2, h2)
      BY <1>2, <2>2, <2>3, <2>4, <2>5, <2>6, WaitEnter
    <2> QED
      BY <2>1, <2>7, <2>8
  <1>15. u2 > Len(traces)
    BY <1>2 DEF u2
  <1>16. \A e \in Ctx \ {c} : frames'[e] = frames[e] /\ current'[e] = current[e]
    BY <1>4, <1>5, <1>6
  <1> QED
    BY <1>3, <1>4, <1>9, <1>12, <1>13, <1>14, <1>15, <1>16 DEF Stepped, f, u, h2

\* A block that starts a span in the trace that the task has.
LEMMA NewSpanStepped ==
  ASSUME TasksInv, TasksTypes', Len(traces') >= Len(traces), Len(spans') >= Len(spans),
         NEW c \in Ctx, Push(c, Block(NewSpan)), UNCHANGED <<phase, base, born>>, StartSpan(c, None)
  PROVE  Stepped(c)
  <1> DEFINE f == frames[c]
             g == base[c]
             s == NewSpan
             u == current[c]
             h2 == traces'
  <1>1. PICK m \in Nat, K \in Nat : m = Len(spans') /\ K = Len(traces')
    BY TaskGrown
  <1>2. /\ f \in Seq(FrameSet(K, m)) /\ g \in Seq(1..m) /\ u \in 1..Len(traces) /\ u # None
        /\ Len(traces) \in Nat /\ Len(f) \in Nat
    <2>1. /\ f \in Seq(FrameSet(K, m)) /\ g \in Seq(1..m) /\ u \in 0..Len(traces) /\ Len(traces) \in Nat
      BY <1>1, TaskGrown
    <2> QED
      BY <2>1, LenProperties DEF StartSpan, None
  <1>3. Running(c) /\ TaskOK(f, g, u, traces, born[c].attached) /\ OwnApart(f, u)
    BY DEF Push, TasksInv, TasksRest, TasksFine, HoldApart
  <1>4. /\ current' = current
        /\ h2[u].stack = Append(traces[u].stack, s)
        /\ \A t \in 1..Len(traces) : t # u => h2[t].stack = traces[t].stack
    <2>1. traces' = [traces EXCEPT ![u].stack = Append(traces[u].stack, s)] /\ current' = current
      BY DEF StartSpan
    <2> HIDE DEF u, s
    <2> QED
      BY <1>2, <2>1, StackReplaced DEF TasksInv, TasksTypes
  <1>5. s \in 1..m
    <2>1. \E n : spans' = Append(spans, n)
      BY DEF StartSpan, PushSpan
    <2>2. Len(spans') = Len(spans) + 1 /\ Len(spans) \in Nat
      BY <2>1, LastAppended, LenProperties DEF TasksInv, TasksTypes, HeapOK
    <2> QED
      BY <1>1, <2>2 DEF NewSpan
  <1>6. PICK st \in Seq(1..m) : st = traces[u].stack /\ st = StackIn(traces, u)
    <2>1. StackIn(traces, u) \in Seq(1..m)
      BY <1>1, TaskGrown
    <2> QED
      BY <1>2, <2>1 DEF StackIn
  <1>7. /\ frames'[c] = Append(f, Block(s)) /\ base'[c] = g /\ current'[c] = u
        /\ \A e \in Ctx \ {c} : frames'[e] = frames[e] /\ current'[e] = current[e] /\ base'[e] = base[e]
    BY <1>4 DEF Push, TasksInv, TasksTypes, TasksOK
  <1>8. TokensStay(f, u, traces, h2)
    BY <1>3, <1>4, OwnTokens
  <1> HIDE DEF f, g, s, u, h2
  <1>9. TaskOK(Append(f, Block(s)), g, u, h2, born[c].attached)
    BY <1>2, <1>3, <1>4, <1>5, <1>6, <1>8, TaskEnter
  <1>10. OwnApart(Append(f, Block(s)), u) /\ Holds(Append(f, Block(s)), u) \subseteq Holds(f, u) \cup {u}
    <2>1. /\ Slots(Append(f, Block(s))) = Slots(f)
          /\ \A i \in Slots(f) \ {0} : Append(f, Block(s))[i] = f[i]
      BY <1>2, <1>5, SlotsOfBlock DEF Slots
    <2> QED
      BY <1>3, <2>1, OwnBlock
  <1>11. ASSUME NEW e \in Ctx, Waiting(e), born[e].by = c
         PROVE  WaitOK(Append(f, Block(s)), g, born[e].depth, born[e].stack, current[e], u, h2)
    <2>0. born[e].depth \in Nat /\ current[e] \in 0..Len(traces) /\ born[e].stack \in Seq(1..m)
      BY <1>1, TaskGrown
    <2>1. PICK k \in Nat, t \in 0..Len(traces), w \in Seq(1..m) : k = born[e].depth /\ t = current[e] /\ w = born[e].stack
      BY <2>0
    <2>2. WaitOK(f, g, k, w, t, u, traces)
      BY <1>11, <2>1 DEF TasksInv, TasksRest, WaitsOK, f, g, u
    <2>3. t # None => Begins(w, h2[t].stack)
      <3>1. t # None => t \in 1..Len(traces) /\ Begins(w, traces[t].stack)
        BY <1>2, <2>2 DEF None, WaitOK
      <3>2. t = u => Begins(w, Append(st, s))
        BY <1>2, <1>5, <1>6, <3>1, BeginsAppend
      <3> QED
        BY <1>4, <1>6, <3>1, <3>2
    <2>4. WaitOK(Append(f, Block(s)), g, k, w, t, u, h2)
      BY <1>2, <1>5, <2>2, <2>3, WaitEnter
    <2> QED
      BY <2>1, <2>4
  <1>12. \A r \in Holds(Append(f, Block(s)), u) : r \in Holds(f, u)
    <2>1. u \in Holds(f, u)
      BY <1>2 DEF Holds, Slots, Ref
    <2> QED
      BY <1>10, <2>1
  <1> QED
    BY <1>3, <1>4, <1>7, <1>9, <1>10, <1>11, <1>12 DEF Stepped, f, u, h2

\* The exit of a block finishes the span that is on top of the stack.
LEMMA ExitIs ==
  ASSUME TasksInv, NEW c \in Ctx, Exit(c)
  PROVE  /\ current[c] \in 1..Len(traces) /\ current[c] # None
         /\ frames[c] # <<>> /\ Last(frames[c]).kind = "block"
         /\ \E t2 : current' = [current EXCEPT ![c] = t2] /\ Popped(current[c], t2, traces, traces')
         /\ traces'[current[c]].stack = Front(traces[current[c]].stack)
         /\ \A t \in 1..Len(traces) : t # current[c] => traces'[t].stack = traces[t].stack
  <1> DEFINE f == frames[c]
             u == current[c]
             st == traces[u].stack
  <1>1. PICK m \in Nat, K \in Nat : m = Len(spans) /\ K = Len(traces)
    BY LenProperties DEF TasksInv, TasksTypes, HeapOK
  <1>2. /\ f \in Seq(FrameSet(K, m)) /\ base[c] \in Seq(1..m) /\ u \in 0..K
    BY <1>1 DEF TasksInv, TasksTypes, TasksOK, RefsOK
  <1>3. Running(c) /\ f # <<>> /\ Last(f).kind = "block"
    BY DEF Exit, PopFrame
  <1>4. TaskOK(f, base[c], u, traces, born[c].attached)
    BY <1>3 DEF TasksInv, TasksRest, TasksFine
  <1>5. u # None /\ st \in Seq(1..m) /\ st # <<>> /\ Last(st) = Last(f).span
    <2> HIDE DEF f, u
    <2> QED
      BY <1>2, <1>3, <1>4, TaskTop
  <1>6. u \in 1..Len(traces)
    BY <1>1, <1>2, <1>5 DEF None
  <1>7. PICK n \in Nat \ {0} : n = Len(st) /\ Last(st) = st[n]
    BY <1>5, SeqFront
  <1>8. PICK s \in 1..m : s = Last(f).span /\ s = st[n]
    BY <1>5, <1>7, ElementOfSeq
  <1>9. spans[s].trace = traces[u].id /\ (spans[s].root <=> n = 1)
    <2>1. PathOK(st, traces[u].id, spans)
      BY <1>6 DEF TasksInv, PathsOK
    <2>2. n \in 1..Len(st)
      BY <1>7
    <2> HIDE DEF st, u
    <2>3. /\ spans[st[n]].trace = traces[u].id
          /\ spans[st[n]].root <=> (n = 1)
      BY <2>1, <2>2, Zenon DEF PathOK
    <2> QED
      BY <1>8, <2>3
  <1>10. IsInnermost(c, s)
    BY <1>5, <1>7, <1>8, <1>9 DEF IsInnermost, Stack
  <1>11. PICK o \in Outcomes : Close(c, s, o)
    BY <1>8 DEF Exit
  <1>12. o # "raised"
    BY TasksAssumption
  <1>13. traces' = [traces EXCEPT ![u].stack = Front(st)]
    <2>1. Pop(c, s)
      BY <1>11, <1>12 DEF Close, FinishTrace, FinishSpan
    <2> QED
      BY <1>10, <2>1 DEF Pop
  <1>14. /\ traces'[u].stack = Front(st)
         /\ \A t \in 1..Len(traces) : t # u => traces'[t].stack = traces[t].stack
    <2> DEFINE w == Front(st)
    <2>1. traces' = [traces EXCEPT ![u].stack = w]
      BY <1>13
    <2> HIDE DEF w, u
    <2>2. traces'[u].stack = w /\ \A t \in 1..Len(traces) : t # u => traces'[t] = traces[t]
      BY <1>6, <2>1, StackReplaced DEF TasksInv, TasksTypes
    <2> QED
      BY <2>2 DEF w
  <1>15. CASE n = 1
    <2>1. current' = [current EXCEPT ![c] = None]
      BY <1>9, <1>11, <1>12, <1>15 DEF Close, FinishTrace
    <2>2. Popped(u, None, traces, traces')
      BY <1>7, <1>15 DEF Popped
    <2> QED
      BY <1>3, <1>5, <1>6, <1>14, <2>1, <2>2
  <1>16. CASE n # 1
    <2>1. current' = [current EXCEPT ![c] = u]
      <3>1. current' = current
        BY <1>9, <1>11, <1>16 DEF Close, FinishSpan
      <3> QED
        BY <3>1 DEF TasksInv, TasksTypes, RefsOK
    <2>2. Popped(u, u, traces, traces')
      BY <1>7, <1>14, <1>16 DEF Popped
    <2> QED
      BY <1>3, <1>5, <1>6, <1>14, <2>1, <2>2
  <1> QED
    BY <1>15, <1>16

\* The task leaves a block.
LEMMA ExitStepped ==
  ASSUME TasksInv, TasksTypes', NEW c \in Ctx, Exit(c)
  PROVE  Stepped(c)
  <1> DEFINE f == frames[c]
             g == base[c]
             u == current[c]
             h2 == traces'
  <1>1. PICK m \in Nat, K \in Nat : m = Len(spans) /\ K = Len(traces)
    BY LenProperties DEF TasksInv, TasksTypes, HeapOK
  <1>2. /\ f \in Seq(FrameSet(K, m)) /\ g \in Seq(1..m) /\ f # <<>> /\ Last(f).kind = "block"
        /\ u \in 1..K /\ u # None
    BY <1>1, ExitIs DEF TasksInv, TasksTypes, TasksOK
  <1>3. Running(c) /\ TaskOK(f, g, u, traces, born[c].attached) /\ OwnApart(f, u)
    BY DEF Exit, PopFrame, TasksInv, TasksRest, TasksFine, HoldApart
  <1>4. PICK u2 : current' = [current EXCEPT ![c] = u2] /\ Popped(u, u2, traces, h2)
    BY ExitIs
  <1>5. /\ h2[u].stack = Front(traces[u].stack)
        /\ \A t \in 1..K : t # u => h2[t].stack = traces[t].stack
    BY <1>1, ExitIs
  <1>6. frames' = [frames EXCEPT ![c] = Front(f)] /\ phase' = phase /\ base' = base /\ born' = born
    BY DEF Exit, PopFrame
  <1>7. /\ frames'[c] = Front(f) /\ base'[c] = g /\ current'[c] = u2
        /\ \A e \in Ctx \ {c} : frames'[e] = frames[e] /\ current'[e] = current[e] /\ base'[e] = base[e]
    BY <1>4, <1>6 DEF TasksInv, TasksTypes, TasksOK, RefsOK
  <1>8. TokensStay(f, u, traces, h2)
    BY <1>1, <1>3, <1>5, OwnTokens
  <1>9. u2 = u \/ u2 = None
    BY <1>4, Zenon DEF Popped
  <1>10. PICK st \in Seq(1..m) : st = traces[u].stack /\ st = StackIn(traces, u)
    <2>1. traces[u].stack \in Seq(1..m)
      BY <1>1, <1>2, TraceType DEF TasksInv, TasksTypes
    <2> QED
      BY <1>2, <2>1 DEF StackIn
  <1> HIDE DEF f, g, u, h2
  <1>11. TaskOK(Front(f), g, u2, h2, born[c].attached)
    BY <1>2, <1>3, <1>4, <1>8, TaskExit
  <1>12. OwnApart(Front(f), u2) /\ Holds(Front(f), u2) \subseteq Holds(f, u) \cup {u2}
    <2>1. /\ Slots(Front(f)) = Slots(f)
          /\ \A i \in 1..(Len(f) - 1) : Front(f)[i] = f[i]
          /\ Len(f) \in Nat \ {0} /\ Last(f) = f[Len(f)]
      BY <1>2, SlotsOfFront
    <2>2. \A i \in Slots(f) \ {0} : i \in 1..(Len(f) - 1)
      <3>1. PICK n \in Nat \ {0} : n = Len(f) /\ f[n].kind = "block"
        BY <1>2, <2>1
      <3> QED
        BY <3>1 DEF Slots
    <2> QED
      BY <1>3, <1>9, <2>1, <2>2, OwnBlock
  <1>13. ASSUME NEW e \in Ctx, Waiting(e), born[e].by = c
         PROVE  WaitOK(Front(f), g, born[e].depth, born[e].stack, current[e], u2, h2)
    <2>0. born[e].depth \in Nat /\ current[e] \in 0..K /\ born[e].stack \in Seq(1..m)
      BY <1>1 DEF TasksInv, TasksTypes, TasksOK, BirthSet, RefsOK
    <2>1. PICK k \in Nat, t \in 0..K, w \in Seq(1..m) : k = born[e].depth /\ t = current[e] /\ w = born[e].stack
      BY <2>0
    <2>2. WaitOK(f, g, k, w, t, u, traces)
      BY <1>13, <2>1 DEF TasksInv, TasksRest, WaitsOK, f, g, u
    <2>3. k # Len(f)
      <3>1. born[e].depth # Len(frames[c])
        BY <1>13 DEF Exit, PopFrame, Waiting
      <3> QED
        BY <2>1, <3>1 DEF f
    <2>4. t # None => Begins(w, h2[t].stack)
      <3>1. t # None => t \in 1..K /\ Begins(w, traces[t].stack)
        BY <2>2 DEF None, WaitOK
      <3>2. ASSUME t = u PROVE Begins(w, Front(st))
        <4>1. PICK n \in 0..Len(f) : n = Len(f)
          BY <1>2, LenProperties
        <4>2. WaitAt(f, g, k, w, n)
          BY <1>2, <2>2, <3>2, <4>1 DEF WaitOK, Slots, Ref, Level
        <4>3. LevelOK(f, g, n, u, st)
          BY <1>3, <1>10, <4>1 DEF TaskOK, SlotOK, Slots, Ref, Level
        <4>4. Len(w) < Len(st)
          BY <1>2, <2>3, <4>1, <4>2, <4>3, WaitShorter
        <4> QED
          BY <1>2, <1>10, <3>1, <3>2, <4>4, BeginsFront
      <3> QED
        BY <1>5, <1>10, <3>1, <3>2
    <2>5. WaitOK(Front(f), g, k, w, t, u2, h2)
      BY <1>2, <1>9, <2>2, <2>3, <2>4, WaitExit
    <2> QED
      BY <2>1, <2>5
  <1>14. \A r \in Holds(Front(f), u2) : r \in Holds(f, u)
    <2>1. u \in Holds(f, u)
      BY <1>2 DEF Holds, Slots, Ref
    <2>2. \A r \in Holds(Front(f), u2) : r # None
      BY DEF Holds
    <2> QED
      BY <1>9, <1>12, <2>1, <2>2
  <1> QED
    BY <1>1, <1>3, <1>5, <1>6, <1>7, <1>11, <1>12, <1>13, <1>14 DEF Stepped, f, u, h2

\* The task starts an @untraced call.
LEMMA UntraceStepped ==
  ASSUME TasksInv, NEW c \in Ctx, Untrace(c)
  PROVE  Stepped(c)
  <1> DEFINE f == frames[c]
             g == base[c]
             u == current[c]
             w == Path(c)
             f2 == Append(f, Untraced(u, w))
  <1>1. PICK m \in Nat, K \in Nat : m = Len(spans) /\ K = Len(traces)
    BY LenProperties DEF TasksInv, TasksTypes, HeapOK
  <1>2. /\ f \in Seq(FrameSet(K, m)) /\ g \in Seq(1..m) /\ u \in 0..K /\ w \in Seq(1..m)
    BY <1>1, PathType DEF TasksInv, TasksTypes, TasksOK, RefsOK
  <1>3. Running(c) /\ TaskOK(f, g, u, traces, born[c].attached) /\ OwnApart(f, u)
    BY DEF Untrace, Push, TasksInv, TasksRest, TasksFine, HoldApart
  <1>4. /\ frames' = [frames EXCEPT ![c] = f2] /\ current' = [current EXCEPT ![c] = None]
        /\ UNCHANGED <<phase, base, born, traces>>
    BY DEF Untrace, Push
  <1>5. /\ frames'[c] = f2 /\ current'[c] = None
        /\ \A e \in Ctx \ {c} : frames'[e] = frames[e] /\ current'[e] = current[e]
    BY <1>4 DEF TasksInv, TasksTypes, TasksOK, RefsOK
  <1>6. w = StackIn(traces, u)
    BY DEF Path, Stack, StackIn
  <1> HIDE DEF f, g, u, w, f2
  <1>7. TaskOK(f2, g, None, traces, born[c].attached)
    BY <1>2, <1>3, <1>6, TaskUntrace DEF f2
  <1>8. OwnApart(f2, None) /\ Holds(f2, None) \subseteq Holds(f, u)
    <2>1. PICK n \in Nat : /\ n = Len(f) /\ Slots(f2) = Slots(f) \cup {n + 1}
                           /\ (\A i \in 1..n : f2[i] = f[i]) /\ f2[n + 1].trace = u
      <3>1. /\ Slots(f2) = Slots(f) \cup {Len(f) + 1} /\ Len(f) \in Nat
            /\ (\A i \in 1..Len(f) : f2[i] = f[i]) /\ f2[Len(f) + 1] = Untraced(u, w)
        BY <1>2, SlotsOfUntraced DEF f2
      <3> QED
        BY <3>1 DEF Untraced
    <2>2. n + 1 # 0 /\ n + 1 \notin Slots(f) /\ \A i \in Slots(f) \ {0} : f2[i] = f[i]
      BY <2>1 DEF Slots
    <2> QED
      BY <1>3, <2>1, <2>2, OwnUntrace
  <1>9. ASSUME NEW e \in Ctx, Waiting(e), born[e].by = c
        PROVE  WaitOK(f2, g, born[e].depth, born[e].stack, current[e], None, traces)
    <2>1. born[e].depth \in Nat
      BY DEF TasksInv, TasksTypes, TasksOK, BirthSet
    <2>2. WaitOK(f, g, born[e].depth, born[e].stack, current[e], u, traces)
      BY <1>9 DEF TasksInv, TasksRest, WaitsOK, f, g, u
    <2> QED
      BY <1>2, <2>1, <2>2, WaitUntrace DEF f2
  <1> QED
    BY <1>3, <1>4, <1>5, <1>7, <1>8, <1>9 DEF Stepped, f, g, u

\* The task comes back from an @untraced call.
LEMMA RetraceStepped ==
  ASSUME TasksInv, NEW c \in Ctx, Retrace(c)
  PROVE  Stepped(c)
  <1> DEFINE f == frames[c]
             g == base[c]
             u == current[c]
             u2 == IF Last(f).trace # None THEN Last(f).trace ELSE u
  <1>1. PICK m \in Nat, K \in Nat : m = Len(spans) /\ K = Len(traces)
    BY LenProperties DEF TasksInv, TasksTypes, HeapOK
  <1>2. /\ f \in Seq(FrameSet(K, m)) /\ g \in Seq(1..m) /\ f # <<>> /\ Last(f).kind = "untraced"
    BY <1>1 DEF TasksInv, TasksTypes, TasksOK, Retrace, PopFrame
  <1>3. Running(c) /\ TaskOK(f, g, u, traces, born[c].attached) /\ OwnApart(f, u)
    BY DEF Retrace, PopFrame, TasksInv, TasksRest, TasksFine, HoldApart
  <1>4. /\ frames' = [frames EXCEPT ![c] = Front(f)] /\ current' = [current EXCEPT ![c] = u2]
        /\ UNCHANGED <<phase, base, born, traces>>
    <2>1. current = [current EXCEPT ![c] = current[c]]
      BY DEF TasksInv, TasksTypes, RefsOK
    <2> QED
      BY <2>1 DEF Retrace, PopFrame
  <1>5. /\ frames'[c] = Front(f) /\ current'[c] = u2
        /\ \A e \in Ctx \ {c} : frames'[e] = frames[e] /\ current'[e] = current[e]
    BY <1>4 DEF TasksInv, TasksTypes, TasksOK, RefsOK
  <1>6. PICK v : v = u2 /\ v = (IF Last(f).trace # None THEN Last(f).trace ELSE u)
    OBVIOUS
  <1> HIDE DEF f, g, u, u2
  <1>7. TaskOK(Front(f), g, v, traces, born[c].attached)
    BY <1>2, <1>3, <1>6, TaskRetrace
  <1>8. OwnApart(Front(f), v) /\ Holds(Front(f), v) \subseteq Holds(f, u)
    <2>1. /\ Slots(Front(f)) = Slots(f) \ {Len(f)} /\ Len(f) \in Nat \ {0} /\ Len(f) \in Slots(f)
          /\ (\A i \in 1..(Len(f) - 1) : Front(f)[i] = f[i]) /\ Last(f) = f[Len(f)]
      BY <1>2, SlotsOfFront
    <2>2. PICK n \in Nat \ {0} : n = Len(f)
      BY <2>1
    <2>3. \A i \in Slots(Front(f)) \ {0} : Front(f)[i] = f[i]
      <3>1. \A i \in Slots(f) \ {0} : i # n => i \in 1..(n - 1)
        BY <2>2 DEF Slots
      <3> QED
        BY <2>1, <2>2, <3>1
    <2>4. v = (IF f[n].trace # None THEN f[n].trace ELSE u)
      BY <1>6, <2>1, <2>2
    <2> QED
      BY <1>3, <2>1, <2>2, <2>3, <2>4, OwnRetrace
  <1>9. ASSUME NEW e \in Ctx, Waiting(e), born[e].by = c
        PROVE  WaitOK(Front(f), g, born[e].depth, born[e].stack, current[e], v, traces)
    <2>1. born[e].depth \in Nat /\ born[e].depth # Len(f)
      <3>1. born[e].depth # Len(frames[c])
        BY <1>9 DEF Retrace, PopFrame, Waiting
      <3> QED
        BY <3>1 DEF TasksInv, TasksTypes, TasksOK, BirthSet, f
    <2>2. WaitOK(f, g, born[e].depth, born[e].stack, current[e], u, traces)
      BY <1>9 DEF TasksInv, TasksRest, WaitsOK, f, g, u
    <2> QED
      BY <1>2, <1>6, <2>1, <2>2, WaitRetrace
  <1> QED
    BY <1>3, <1>4, <1>5, <1>6, <1>7, <1>8, <1>9 DEF Stepped, f, g, u

\* `with tracer(name)` and @traced, in a trace or not.
LEMMA EnterStepped ==
  ASSUME TasksInv, TasksTypes', Len(traces') >= Len(traces), Len(spans') >= Len(spans), NEW c \in Ctx, Enter(c)
  PROVE  Stepped(c)
  <1>1. Push(c, Block(NewSpan)) /\ UNCHANGED <<phase, base, born>> /\ NewEvent(c)
    BY DEF Enter
  <1>2. CASE current[c] # None
    BY <1>1, <1>2, NewSpanStepped DEF NewEvent
  <1>3. CASE current[c] = None
    <2>1. StartTrace(c, None, None)
      BY <1>1, <1>3 DEF NewEvent
    <2>2. Len(frames[c]) \in Nat
      BY LenProperties DEF TasksInv, TasksTypes, TasksOK
    <2>3. SlotOK(frames[c], base[c], current[c], traces, born[c].attached, 0)
      BY <1>1 DEF Push, TasksInv, TasksRest, TasksFine, TaskOK, Slots
    <2>4. LevelOK(frames[c], base[c], Len(frames[c]), None, <<>>)
      BY <1>3, <2>3 DEF SlotOK, Ref, Level, StackIn
    <2>5. PICK d \in 0..Len(frames[c]) :
               /\ Floor(frames[c], Len(frames[c]), d)
               /\ OpenAt(frames[c], Len(frames[c]), d) = <<>> /\ Ground(base[c], d) = <<>>
      BY <2>4 DEF LevelOK
    <2>6. Open(c) = <<>> /\ Detached(c) = d
      BY <2>2, <2>5, DetachedIs
    <2>7. d = 0 => [base EXCEPT ![c] = <<>>] = base
      BY <2>5 DEF Ground, TasksInv, TasksTypes, TasksOK
    <2>8. base' = IF Detached(c) = 0 THEN [base EXCEPT ![c] = <<>>] ELSE base
      BY <1>1, <2>6, <2>7
    <2> QED
      BY <1>1, <2>1, <2>6, <2>8, NewTraceStepped
  <1> QED
    BY <1>2, <1>3

-----------------------------------------------------------------------------
(* Tasks come and go *)

\* A task is created: what it refers to is in the hands of its creator only.
LEMMA CreateInv ==
  ASSUME TasksInv, NEW c \in Ctx, NEW d \in Ctx, NEW w \in BOOLEAN, CreateTask(c, d, w)
  PROVE  TasksRest'
  <1> USE DEF TasksInv, TasksRest
  <1> DEFINE f == frames[c]
             g == base[c]
             u == current[c]
             n == Len(f)
  <1>1. /\ Running(c) /\ phase[d] = "unborn" /\ d # c
        /\ UNCHANGED <<traces, frames, base>>
        /\ current' = [current EXCEPT ![d] = u] /\ phase' = [phase EXCEPT ![d] = "created"]
        /\ born' = [born EXCEPT ![d] = [by |-> c, depth |-> n, stack |-> Path(c),
                                        awaited |-> w, attached |-> w /\ born[c].attached]]
    BY DEF CreateTask, Running
  <1>2. /\ phase \in [Ctx -> {"unborn", "created", "running", "done"}] /\ current \in [Ctx -> 0..Len(traces)]
        /\ born \in [Ctx -> BirthSet(Len(spans))]
    BY DEF TasksTypes, TasksOK, RefsOK
  <1>3. /\ \A e \in Ctx \ {d} : phase'[e] = phase[e] /\ current'[e] = current[e] /\ born'[e] = born[e]
        /\ phase'[d] = "created" /\ current'[d] = u
        /\ born'[d].by = c /\ born'[d].depth = n /\ born'[d].stack = Path(c)
        /\ born'[d].awaited = w /\ born'[d].attached = (w /\ born[c].attached)
    BY <1>1, <1>2
  <1>4. \A e \in Ctx : (Running(e)' <=> Running(e)) /\ (Running(e) => e # d)
    BY <1>1, <1>3 DEF Running
  <1>5. Idle'
    BY <1>1, <1>4 DEF Idle
  <1>6. HoldApart'
    <2> SUFFICES ASSUME NEW a \in Ctx, Running(a), a # d
                 PROVE  /\ OwnApart(frames[a], current[a])
                        /\ \A e \in Ctx \ {a} : Running(e) /\ e # d =>
                             Holds(frames[a], current[a]) \cap Holds(frames[e], current[e]) = {}
      BY <1>1, <1>3, <1>4, Zenon DEF HoldApart
    <2> QED
      BY DEF HoldApart
  <1>7. TasksFine'
    BY <1>1, <1>3, <1>4 DEF TasksFine
  <1>8. /\ n \in Nat /\ f \in Seq(FrameSet(Len(traces), Len(spans))) /\ g \in Seq(1..Len(spans))
        /\ Len(traces) \in Nat /\ Len(spans) \in Nat /\ u \in 0..Len(traces)
    BY <1>2, LenProperties DEF TasksTypes, TasksOK, HeapOK
  <1>9. SlotOK(f, g, u, traces, born[c].attached, 0) /\ Path(c) = StackIn(traces, u)
    BY <1>1 DEF TasksFine, TaskOK, Slots, Path, StackIn, Stack
  <1>10. WaitOK(f, g, n, Path(c), u, u, traces)
    <2>1. LevelOK(f, g, n, u, Path(c))
      BY <1>9 DEF SlotOK, Ref, Level
    <2>2. WaitAt(f, g, n, Path(c), n)
      <3>1. PICK e \in 0..n : Floor(f, n, e) /\ Path(c) = Ground(g, e) \o OpenAt(f, n, e)
        BY <2>1 DEF LevelOK
      <3>2. OpenAt(f, n, e) \in Seq(1..Len(spans)) /\ Len(OpenAt(f, n, e)) = n - e
        <4>1. PICK p \in 0..Len(f) : p = n
          BY <1>8
        <4> HIDE DEF f, n, g
        <4>2. OpenAt(f, p, e) \in Seq(1..Len(spans)) /\ Len(OpenAt(f, p, e)) = p - e
          BY <1>8, <3>1, <4>1, OpenAtType
        <4> QED
          BY <4>1, <4>2
      <3>3. Ground(g, e) \in Seq(1..Len(spans))
        BY <1>8, GroundType
      <3>4. Len(Path(c)) = Len(Ground(g, e)) + (n - e) /\ Len(Ground(g, e)) \in Nat
        BY <3>1, <3>2, <3>3, ConcatProperties, LenProperties
      <3> HIDE DEF f, n, g
      <3>5. Len(Path(c)) = Len(Ground(g, e)) + n - e
        BY <1>8, <3>4
      <3> QED
        BY <1>8, <3>1, <3>5 DEF WaitAt
    <2>3. \A i \in Slots(f) : u # None /\ Ref(f, u, i) = u => i = 0
      <3>1. OwnApart(f, u) /\ 0 \in Slots(f) /\ Ref(f, u, 0) = u
        BY <1>1 DEF HoldApart, Slots, Ref
      <3> QED
        BY <3>1 DEF OwnApart
    <2>4. Level(f, 0) = n
      BY DEF Level
    <2>5. u = None => Path(c) = <<>>
      BY DEF Path
    <2>6. u # None => Path(c) = traces[u].stack
      BY DEF Path, Stack
    <2>7. u # None => Begins(Path(c), traces[u].stack)
      <3>1. Path(c) \in Seq(1..Len(spans))
        BY PathType DEF TasksTypes
      <3>2. Len(Path(c)) \in Nat
        BY <3>1, LenProperties
      <3> QED
        BY <2>6, <3>2 DEF Begins
    <2> HIDE DEF f, n, g, u
    <2> QED
      BY <1>8, <2>2, <2>3, <2>4, <2>5, <2>7 DEF WaitOK, n
  <1>11. WaitsOK'
    <2>0. \A e \in Ctx : born'[e].by \in Ctx
      BY <1>2, <1>3 DEF BirthSet
    <2> SUFFICES ASSUME NEW e \in Ctx, Waiting(e)', NEW b \in Ctx, b = born'[e].by
                 PROVE  /\ Running(b)'
                        /\ WaitOK(frames[b], base[b], born'[e].depth, born'[e].stack, current'[e], current'[b], traces)
                        /\ \A a \in Ctx \ {b} : Running(a)' => current'[e] \notin Holds(frames[a], current'[a])
      <3>1. frames' = frames /\ base' = base /\ traces' = traces
        BY <1>1
      <3> QED
        BY <2>0, <3>1, Zenon DEF WaitsOK
    <2>1. CASE e = d
      <3>1. /\ born'[e].by = c /\ Running(c)' /\ current'[c] = u /\ current'[e] = u
            /\ born'[e].depth = n /\ born'[e].stack = Path(c)
        BY <1>1, <1>3, <1>4, <2>1
      <3>2. ASSUME NEW a \in Ctx \ {c}, Running(a)
            PROVE  u \notin Holds(frames[a], current[a])
        <4>1. \A r \in Holds(frames[a], current[a]) : r # u
          BY <1>1, <3>2, NotTheirs
        <4> QED
          BY <4>1
      <3>3. \A a \in Ctx \ {c} : Running(a)' => current'[e] \notin Holds(frames[a], current'[a])
        BY <1>3, <1>4, <3>1, <3>2
      <3>4. b = c
        BY <3>1
      <3> HIDE DEF f, g, u, n
      <3>5. WaitOK(frames[b], base[b], born'[e].depth, born'[e].stack, current'[e], current'[b], traces)
        BY <1>10, <3>1, <3>4 DEF f, g
      <3> QED
        BY <3>1, <3>3, <3>4, <3>5
    <2>2. CASE e # d
      <3>2. Waiting(e) /\ born'[e] = born[e] /\ current'[e] = current[e]
        BY <1>3, <2>2 DEF Waiting
      <3>1. b = born[e].by
        BY <3>2
      <3>3. /\ Running(b)
            /\ WaitOK(frames[b], base[b], born[e].depth, born[e].stack, current[e], current[b], traces)
            /\ \A a \in Ctx \ {b} : Running(a) => current[e] \notin Holds(frames[a], current[a])
        BY <3>1, <3>2 DEF WaitsOK
      <3>4. Running(b)' /\ current'[b] = current[b] /\ \A a \in Ctx : Running(a)' => Running(a) /\ current'[a] = current[a]
        BY <1>3, <1>4, <3>3
      <3> QED
        BY <3>1, <3>2, <3>3, <3>4
    <2> QED
      BY <2>1, <2>2
  <1>12. AttachedWaits'
    <2>1. w /\ born[c].attached /\ u # None => Path(c) # <<>>
      BY <1>9 DEF SlotOK, Ref, StackIn
    <2>2. \A e \in Ctx \ {d} : phase'[e] = "created" /\ born'[e].attached =>
            born'[e].awaited /\ (current'[e] # None => born'[e].stack # <<>>)
      BY <1>3 DEF AttachedWaits
    <2>3. born'[d].attached => born'[d].awaited /\ (current'[d] # None => born'[d].stack # <<>>)
      BY <1>3, <2>1
    <2> QED
      BY <2>2, <2>3 DEF AttachedWaits
  <1> QED
    BY <1>5, <1>6, <1>7, <1>11, <1>12

\* The first step of a task: its base is the stack that it refers to, now its own.
LEMMA FirstStepIs ==
  ASSUME TasksTypes, NEW c \in Ctx, FirstStep(c)
  PROVE  \E v \in Seq(1..Len(spans)), t2 \in {None, Len(traces) + 1} :
           /\ current' = [current EXCEPT ![c] = t2] /\ base' = [base EXCEPT ![c] = v]
           /\ v = StackIn(traces', t2) /\ v = StackIn(traces, current[c])
           /\ t2 = None <=> current[c] = None
           /\ \A t \in 1..Len(traces) : traces'[t].stack = traces[t].stack
  <1>1. current \in [Ctx -> 0..Len(traces)] /\ Len(traces) \in Nat
    BY LenProperties DEF TasksTypes, RefsOK, HeapOK
  <1>2. CASE current[c] = None
    <2>1. current' = current /\ traces' = traces /\ base' = [base EXCEPT ![c] = <<>>]
      BY <1>2 DEF FirstStep, Path
    <2>2. current' = [current EXCEPT ![c] = None]
      BY <1>1, <1>2, <2>1
    <2> QED
      BY <1>2, <2>1, <2>2, EmptySeq DEF StackIn
  <1>3. CASE current[c] # None
    <2> DEFINE t2 == Len(traces) + 1
               n == CopyOf(current[c])
    <2>1. current[c] \in 1..Len(traces) /\ t2 # None
      BY <1>1, <1>3 DEF None
    <2>2. /\ current' = [current EXCEPT ![c] = t2] /\ traces' = Append(traces, n)
          /\ base' = [base EXCEPT ![c] = Path(c)']
      BY <1>3 DEF FirstStep, NewTrace
    <2>3. n.stack = traces[current[c]].stack
      BY DEF CopyOf
    <2>4. traces'[t2] = n /\ \A t \in 1..Len(traces) : traces'[t] = traces[t]
      <3> HIDE DEF n
      <3> QED
        BY <2>2, TraceAppended DEF TasksTypes
    <2>5. current'[c] = t2
      BY <1>1, <2>2
    <2>6. Path(c)' = traces'[t2].stack
      BY <2>1, <2>5 DEF Path, Stack
    <2>7. traces[current[c]].stack \in Seq(1..Len(spans))
      BY <2>1, TraceType DEF TasksTypes
    <2> HIDE DEF n
    <2> QED
      BY <1>3, <2>1, <2>2, <2>3, <2>4, <2>6, <2>7 DEF StackIn
  <1> QED
    BY <1>2, <1>3

\* A task in no frame, with the stack that it found.
LEMMA TaskFirst ==
  ASSUME NEW S, NEW v \in Seq(S), NEW t, NEW h, v = StackIn(h, t), NEW att, att /\ t # None => v # <<>>
  PROVE  TaskOK(<<>>, v, t, h, att) /\ OwnApart(<<>>, t) /\ Holds(<<>>, t) \subseteq {t}
  <1>1. Len(<<>>) = 0 /\ \A i : i \notin 1..0
    OBVIOUS
  <1>2. Slots(<<>>) = {0}
    BY <1>1 DEF Slots
  <1>3. OpenAt(<<>>, 0, 0) = <<>>
    BY DEF OpenAt
  <1>4. v \o <<>> = v
    BY ConcatEmpty
  <1>5. Floor(<<>>, 0, 0) /\ Ground(v, 0) = v
    BY DEF Floor, Ground
  <1>6. t = None => v = <<>>
    BY DEF StackIn
  <1>7. LevelOK(<<>>, v, 0, t, v)
    <2>1. 0 \in 0..0
      OBVIOUS
    <2> QED
      BY <1>3, <1>4, <1>5, <1>6, <2>1 DEF LevelOK
  <1>8. SlotOK(<<>>, v, t, h, att, 0)
    BY <1>1, <1>7 DEF SlotOK, Ref, Level, StackIn
  <1> QED
    BY <1>2, <1>8 DEF TaskOK, OwnApart, Holds, Ref

\* The first step leaves everything in order: the copy is nobody else's.
LEMMA FirstInv ==
  ASSUME TasksInv, NEW c \in Ctx, FirstStep(c)
  PROVE  TasksRest'
  <1> USE DEF TasksInv, TasksRest
  <1>1. PICK v \in Seq(1..Len(spans)), t2 \in {None, Len(traces) + 1} :
           /\ current' = [current EXCEPT ![c] = t2] /\ base' = [base EXCEPT ![c] = v]
           /\ v = StackIn(traces', t2) /\ v = StackIn(traces, current[c])
           /\ t2 = None <=> current[c] = None
           /\ \A t \in 1..Len(traces) : traces'[t].stack = traces[t].stack
    BY FirstStepIs
  <1>2. /\ phase[c] = "created" /\ phase' = [phase EXCEPT ![c] = "running"] /\ frames' = frames /\ born' = born
        /\ ~Running(c) /\ frames[c] = <<>>
    BY DEF FirstStep, Running, Idle
  <1>3. /\ phase \in [Ctx -> {"unborn", "created", "running", "done"}] /\ current \in [Ctx -> 0..Len(traces)]
        /\ base \in [Ctx -> Seq(1..Len(spans))] /\ born \in [Ctx -> BirthSet(Len(spans))] /\ Len(traces) \in Nat
    BY LenProperties DEF TasksTypes, TasksOK, RefsOK, HeapOK
  <1>4. /\ \A e \in Ctx \ {c} : phase'[e] = phase[e] /\ current'[e] = current[e] /\ base'[e] = base[e]
        /\ phase'[c] = "running" /\ current'[c] = t2 /\ base'[c] = v
    BY <1>1, <1>2, <1>3
  <1>5. Running(c)' /\ \A e \in Ctx \ {c} : (Running(e)' <=> Running(e)) /\ (Waiting(e)' <=> Waiting(e))
    BY <1>2, <1>4 DEF Running, Waiting
  <1>6. Idle'
    BY <1>2, <1>5 DEF Idle
  <1>7. born[c].attached /\ t2 # None => v # <<>>
    <2> SUFFICES ASSUME born[c].attached, t2 # None
                 PROVE  v # <<>>
      OBVIOUS
    <2>1. current[c] # None /\ born[c].awaited /\ born[c].stack # <<>>
      BY <1>1, <1>2 DEF AttachedWaits
    <2>2. Begins(born[c].stack, traces[current[c]].stack)
      BY <1>2, <2>1 DEF WaitsOK, Waiting, WaitOK
    <2>3. v = traces[current[c]].stack
      BY <1>1, <2>1 DEF StackIn
    <2>4. born[c].stack \in Seq(1..Len(spans))
      BY <1>3 DEF BirthSet
    <2>5. Len(born[c].stack) \in Nat \ {0}
      BY <2>1, <2>4, SeqFront
    <2>6. Len(born[c].stack) <= Len(v)
      BY <2>2, <2>3 DEF Begins
    <2>7. Len(<<>>) = 0
      OBVIOUS
    <2> QED
      BY <2>5, <2>6, <2>7
  <1>8. /\ TaskOK(frames[c], base'[c], current'[c], traces', born[c].attached)
        /\ OwnApart(frames[c], current'[c]) /\ Holds(frames[c], current'[c]) \subseteq {t2}
    <2>1. v = StackIn(traces', t2)
      BY <1>1
    <2>2. TaskOK(<<>>, v, t2, traces', born[c].attached) /\ OwnApart(<<>>, t2) /\ Holds(<<>>, t2) \subseteq {t2}
      BY <1>7, <2>1, TaskFirst
    <2> QED
      BY <1>2, <1>4, <2>2
  <1>9. ASSUME NEW e \in Ctx, NEW r \in Holds(frames[e], current[e])
        PROVE  r \in 1..Len(traces) /\ r \notin Holds(frames[c], current'[c])
    <2>1. r \in 1..Len(traces)
      BY HoldsType
    <2> QED
      BY <1>3, <1>8, <2>1 DEF None
  <1>10. HoldApart'
    <2> SUFFICES ASSUME NEW a \in Ctx, Running(a)'
                 PROVE  /\ OwnApart(frames[a], current'[a])
                        /\ \A e \in Ctx \ {a} : Running(e)' =>
                             Holds(frames[a], current'[a]) \cap Holds(frames[e], current'[e]) = {}
      BY <1>2, Zenon DEF HoldApart
    <2>1. CASE a = c
      BY <1>4, <1>8, <1>9, <2>1
    <2>2. CASE a # c
      <3>1. Running(a) /\ OwnApart(frames[a], current[a]) /\ current'[a] = current[a]
        BY <1>4, <1>5, <2>2 DEF HoldApart
      <3>2. ASSUME NEW e \in Ctx \ {a}, Running(e)'
            PROVE  Holds(frames[a], current'[a]) \cap Holds(frames[e], current'[e]) = {}
        <4>1. CASE e = c
          BY <1>9, <3>1, <4>1
        <4>2. CASE e # c
          BY <1>4, <1>5, <3>1, <3>2, <4>2 DEF HoldApart
        <4> QED
          BY <4>1, <4>2
      <3> QED
        BY <3>1, <3>2
    <2> QED
      BY <2>1, <2>2
  <1>11. TasksFine'
    <2> SUFFICES ASSUME NEW a \in Ctx, Running(a)'
                 PROVE  TaskOK(frames[a], base'[a], current'[a], traces', born[a].attached)
      BY <1>2 DEF TasksFine
    <2>1. CASE a = c
      BY <1>8, <2>1
    <2>2. CASE a # c
      <3>1. TaskOK(frames[a], base[a], current[a], traces, born[a].attached)
        BY <1>5, <2>2 DEF TasksFine
      <3>2. ASSUME NEW i \in Slots(frames[a]), Ref(frames[a], current[a], i) # None
            PROVE  traces'[Ref(frames[a], current[a], i)].stack = traces[Ref(frames[a], current[a], i)].stack
        <4>1. Ref(frames[a], current[a], i) \in Holds(frames[a], current[a])
          BY <3>2 DEF Holds
        <4> QED
          BY <1>1, <1>9, <4>1
      <3> QED
        BY <1>4, <2>2, <3>1, <3>2, TaskKept
    <2> QED
      BY <2>1, <2>2
  <1>12. WaitsOK'
    <2>0. \A e \in Ctx : born[e].by \in Ctx
      BY <1>3 DEF BirthSet
    <2> SUFFICES ASSUME NEW d \in Ctx, Waiting(d)', NEW b \in Ctx, b = born[d].by
                 PROVE  /\ Running(b)'
                        /\ WaitOK(frames[b], base'[b], born[d].depth, born[d].stack, current'[d], current'[b], traces')
                        /\ \A e \in Ctx \ {b} : Running(e)' => current'[d] \notin Holds(frames[e], current'[e])
      BY <1>2, <2>0, Zenon DEF WaitsOK
    <2>1. d # c /\ Waiting(d)
      <3>1. d # c
        BY <1>4 DEF Waiting
      <3> QED
        BY <1>5, <3>1
    <2>2. /\ Running(b)
          /\ WaitOK(frames[b], base[b], born[d].depth, born[d].stack, current[d], current[b], traces)
          /\ \A e \in Ctx \ {b} : Running(e) => current[d] \notin Holds(frames[e], current[e])
      BY <2>1 DEF WaitsOK
    <2>3. b # c /\ current'[d] = current[d] /\ current[d] \in 0..Len(traces) /\ current'[b] = current[b] /\ base'[b] = base[b]
      BY <1>2, <1>3, <1>4, <2>1, <2>2
    <2>4. current[d] \notin Holds(frames[c], current'[c])
      <3>1. None \notin Holds(frames[c], current'[c])
        BY DEF Holds
      <3>2. t2 \notin 1..Len(traces)
        BY <1>3 DEF None
      <3>3. current[d] \in 1..Len(traces) \/ current[d] = None
        BY <1>3, <2>3 DEF None
      <3> QED
        BY <1>8, <3>1, <3>2, <3>3
    <2>5. \A e \in Ctx \ {b} : Running(e)' => current'[d] \notin Holds(frames[e], current'[e])
      BY <1>4, <1>5, <2>2, <2>3, <2>4
    <2>6. current[d] # None => traces'[current[d]].stack = traces[current[d]].stack
      <3>1. current[d] # None => current[d] \in 1..Len(traces)
        BY <2>3, <1>3 DEF None
      <3> QED
        BY <1>1, <3>1
    <2>7. WaitOK(frames[b], base[b], born[d].depth, born[d].stack, current[d], current[b], traces')
      BY <2>2, <2>6 DEF WaitOK
    <2> QED
      BY <1>5, <2>2, <2>3, <2>5, <2>7
  <1>13. AttachedWaits'
    <2>1. \A e \in Ctx \ {c} : phase'[e] = phase[e] /\ current'[e] = current[e]
      BY <1>4
    <2> QED
      BY <1>2, <1>4, <2>1 DEF AttachedWaits
  <1> QED
    BY <1>6, <1>10, <1>11, <1>12, <1>13

\* A task that ends leaves nothing behind, and nobody that it should wait for.
LEMMA EndInv ==
  ASSUME TasksInv, NEW c \in Ctx, EndTask(c)
  PROVE  TasksRest'
  <1> USE DEF TasksInv, TasksRest
  <1>1. /\ phase' = [phase EXCEPT ![c] = "done"] /\ UNCHANGED <<traces, current, frames, base, born>>
        /\ phase[c] = "created" \/ frames[c] = <<>>
        /\ \A d \in Ctx : born[d].by = c /\ born[d].awaited => phase[d] \in {"unborn", "done"}
    BY DEF EndTask, vars
  <1>2. phase \in [Ctx -> {"unborn", "created", "running", "done"}] /\ \A d \in Ctx : born[d].by \in Ctx
    BY DEF TasksTypes, TasksOK, BirthSet
  <1>3. phase'[c] = "done" /\ \A e \in Ctx \ {c} : phase'[e] = phase[e]
    BY <1>1, <1>2
  <1>4. /\ \A e \in Ctx : Running(e)' => Running(e) /\ e # c
        /\ \A e \in Ctx \ {c} : Running(e) => Running(e)'
        /\ \A e \in Ctx : Waiting(e)' => Waiting(e) /\ e # c
    BY <1>1, <1>3 DEF Running, Waiting
  <1>5. Idle'
    <2>1. frames[c] = <<>>
      BY <1>1 DEF Idle, Running
    <2> QED
      BY <1>1, <1>4, <2>1 DEF Idle
  <1>6. HoldApart'
    BY <1>1, <1>4, Zenon DEF HoldApart
  <1>7. TasksFine'
    BY <1>1, <1>4 DEF TasksFine
  <1>8. WaitsOK'
    <2> SUFFICES ASSUME NEW d \in Ctx, Waiting(d)', NEW b \in Ctx, b = born[d].by
                 PROVE  /\ Running(b)'
                        /\ WaitOK(frames[b], base[b], born[d].depth, born[d].stack, current[d], current[b], traces)
                        /\ \A e \in Ctx \ {b} : Running(e)' => current[d] \notin Holds(frames[e], current[e])
      BY <1>1, <1>2, Zenon DEF WaitsOK
    <2>1. Waiting(d)
      BY <1>4
    <2>2. /\ Running(b)
          /\ WaitOK(frames[b], base[b], born[d].depth, born[d].stack, current[d], current[b], traces)
          /\ \A e \in Ctx \ {b} : Running(e) => current[d] \notin Holds(frames[e], current[e])
      BY <2>1 DEF WaitsOK
    <2>3. b # c
      BY <1>1, <2>1 DEF Waiting
    <2> QED
      BY <1>4, <2>2, <2>3
  <1>9. AttachedWaits'
    BY <1>1, <1>3 DEF AttachedWaits
  <1> QED
    BY <1>5, <1>6, <1>7, <1>8, <1>9

-----------------------------------------------------------------------------
(* The invariant is inductive                                                *)

\* The stacks stay paths, whatever the tasks do.
LEMMA TasksPaths ==
  ASSUME TasksInv, TasksNext
  PROVE  PathsOK'
  <1> USE DEF TasksInv, TasksTypes
  <1>1. ASSUME NEW c \in Ctx, FirstStep(c)
        PROVE  PathsOK'
    <2>1. CASE current[c] = None
      BY <1>1, <2>1 DEF FirstStep, PathsOK
    <2>2. CASE current[c] # None
      <3>1. current[c] \in 1..Len(traces)
        BY <2>2, HoldsType
      <3> QED
        BY <1>1, <2>2, <3>1, CopyPaths DEF FirstStep
    <2> QED
      BY <2>1, <2>2
  <1>2. ASSUME NEW c \in Ctx, Enter(c)
        PROVE  PathsOK'
    <2>1. None \in Parents /\ None \in CallerId \cup {None}
      BY DEF Parents
    <2> QED
      BY <1>2, <2>1, StartSpanPaths, StartTracePaths DEF Enter, NewEvent
  <1>3. ASSUME NEW c \in Ctx, EnterTrace(c)
        PROVE  PathsOK'
    BY <1>3, StartTracePaths DEF EnterTrace
  <1>4. ASSUME NEW c \in Ctx, Exit(c)
        PROVE  PathsOK'
    <2>1. PICK s \in 1..Len(spans) : s = Last(frames[c]).span
      BY <1>4, TopFrameType DEF Exit, PopFrame
    <2>2. PICK o \in Outcomes : Close(c, s, o)
      BY <1>4, <2>1 DEF Exit
    <2>3. (Pop(c, s) \/ UNCHANGED traces) /\ UNCHANGED spans
      BY <2>2 DEF Close, FinishTrace, FinishSpan
    <2> QED
      BY <2>3, PopPaths
  <1>5. ASSUME UNCHANGED <<traces, spans>>
        PROVE  PathsOK'
    BY <1>5 DEF PathsOK
  <1>6. ASSUME NEW c \in Ctx, EndTask(c) \/ Untrace(c) \/ Retrace(c) \/ \E d \in Ctx, w \in BOOLEAN : CreateTask(c, d, w)
        PROVE  UNCHANGED <<traces, spans>>
    BY <1>6 DEF EndTask, Untrace, Retrace, CreateTask, vars
  <1> QED
    BY <1>1, <1>2, <1>3, <1>4, <1>5, <1>6 DEF TasksNext

\* Nothing is open, and only the main task runs.
LEMMA TasksInvInit == TasksInit => TasksInv
  <1> SUFFICES ASSUME TasksInit PROVE TasksInv
    OBVIOUS
  <1>1. TasksTypes
    BY TasksTypeInit
  <1>2. PathsOK
    BY LenProperties DEF TasksInit, Init, PathsOK
  <1>3. /\ \A c \in Ctx : frames[c] = <<>> /\ base[c] = <<>> /\ current[c] = None
        /\ \A c \in Ctx : phase[c] # "created" /\ (Running(c) <=> c = Main)
    BY DEF TasksInit, Init, Running
  <1>4. Idle /\ WaitsOK /\ AttachedWaits
    BY <1>3 DEF Idle, WaitsOK, AttachedWaits, Waiting
  <1>5. ASSUME NEW c \in Ctx
        PROVE  /\ TaskOK(frames[c], base[c], current[c], traces, born[c].attached)
               /\ OwnApart(frames[c], current[c]) /\ Holds(frames[c], current[c]) = {}
    <2>1. <<>> \in Seq({}) /\ <<>> = StackIn(traces, None)
      BY EmptySeq DEF StackIn
    <2>2. /\ TaskOK(<<>>, <<>>, None, traces, born[c].attached)
          /\ OwnApart(<<>>, None) /\ Holds(<<>>, None) \subseteq {None}
      BY <2>1, TaskFirst
    <2>3. None \notin Holds(<<>>, None)
      BY DEF Holds
    <2> QED
      BY <1>3, <2>2, <2>3
  <1>6. HoldApart /\ TasksFine
    BY <1>5 DEF HoldApart, TasksFine
  <1> QED
    BY <1>1, <1>2, <1>4, <1>6 DEF TasksInv, TasksRest

\* Every step of every task keeps it.
LEMMA TasksInvStep == TasksInv /\ [TasksNext]_allVars => TasksInv'
  <1> SUFFICES ASSUME TasksInv, [TasksNext]_allVars
               PROVE  TasksInv'
    OBVIOUS
  <1>1. TasksTypes' /\ Len(traces') >= Len(traces) /\ Len(spans') >= Len(spans)
    BY TasksHeapStep, TasksTypeStep DEF TasksInv
  <1>2. CASE TasksNext
    <2>1. PathsOK'
      BY <1>2, TasksPaths
    <2>2. ASSUME NEW c \in Ctx, EnterTrace(c)
          PROVE  Stepped(c)
      <3>1. /\ Open(c) = <<>> /\ Push(c, Block(NewSpan)) /\ UNCHANGED <<phase, born>>
            /\ base' = IF Detached(c) = 0 THEN [base EXCEPT ![c] = <<>>] ELSE base
        BY <2>2 DEF EnterTrace
      <3>2. PICK id, p : StartTrace(c, id, p)
        BY <2>2 DEF EnterTrace
      <3> QED
        BY <1>1, <3>1, <3>2, NewTraceStepped
    <2>3. ASSUME NEW c \in Ctx, Enter(c) \/ EnterTrace(c) \/ Exit(c) \/ Untrace(c) \/ Retrace(c)
          PROVE  Stepped(c)
      BY <1>1, <2>2, <2>3, EnterStepped, ExitStepped, UntraceStepped, RetraceStepped
    <2>4. TasksRest'
      BY <1>2, <2>3, SteppedInv, CreateInv, FirstInv, EndInv DEF TasksNext
    <2> QED
      BY <1>1, <2>1, <2>4 DEF TasksInv
  <1>3. CASE UNCHANGED allVars
    <2>1. UNCHANGED <<current, traces, spans, phase, frames, base, born>>
      BY <1>3 DEF allVars, vars, taskVars
    <2>2. PathsOK'
      BY <2>1 DEF TasksInv, PathsOK
    <2>3. HoldApart'
      BY <2>1, Zenon DEF TasksInv, TasksRest, HoldApart, Running
    <2>4. TasksRest'
      <3>1. Idle'
        BY <2>1 DEF TasksInv, TasksRest, Idle, Running
      <3>2. TasksFine'
        BY <2>1 DEF TasksInv, TasksRest, TasksFine, Running
      <3>3. WaitsOK'
        BY <2>1, Zenon DEF TasksInv, TasksRest, WaitsOK, Waiting, Running
      <3>4. AttachedWaits'
        BY <2>1 DEF TasksInv, TasksRest, AttachedWaits
      <3> QED
        BY <2>3, <3>1, <3>2, <3>3, <3>4 DEF TasksRest
    <2> QED
      BY <1>1, <2>2, <2>4 DEF TasksInv
  <1> QED
    BY <1>2, <1>3

-----------------------------------------------------------------------------
(* What it says                                                              *)

\* The tasks hold different Trace objects.
LEMMA InvApart == TasksInv => TasksApart
  <1> SUFFICES ASSUME TasksInv, NEW c \in Ctx, NEW d \in Ctx, Running(c), Running(d), c # d
               PROVE  (Holdings(c) \cap Holdings(d)) \subseteq {None}
    BY DEF TasksApart
  <1>1. PICK k \in Nat, m \in Nat : k = Len(traces) /\ m = Len(spans)
    BY LenProperties DEF TasksInv, TasksTypes, HeapOK
  <1>2. frames[c] \in Seq(FrameSet(k, m)) /\ frames[d] \in Seq(FrameSet(k, m))
    BY <1>1 DEF TasksInv, TasksTypes, TasksOK
  <1>3. /\ Holdings(c) \cup {None} = Holds(frames[c], current[c]) \cup {None}
        /\ Holdings(d) \cup {None} = Holds(frames[d], current[d]) \cup {None}
    BY <1>2, HoldingsAre
  <1>4. Holds(frames[c], current[c]) \cap Holds(frames[d], current[d]) = {}
    BY DEF TasksInv, TasksRest, HoldApart
  <1> QED
    BY <1>3, <1>4

\* The stacks are what the frames say.
LEMMA InvBalanced == TasksInv => TasksBalanced
  <1> SUFFICES ASSUME TasksInv PROVE TasksBalanced
    OBVIOUS
  <1>1. UntracedIsTransparent
    <2> SUFFICES ASSUME NEW c \in Ctx, NEW i \in DOMAIN frames[c],
                        frames[c][i].kind = "untraced", frames[c][i].trace # None
                 PROVE  traces[frames[c][i].trace].stack = frames[c][i].stack
      BY DEF UntracedIsTransparent
    <2>1. DOMAIN frames[c] = 1..Len(frames[c]) /\ Len(frames[c]) \in Nat
      BY LenProperties DEF TasksInv, TasksTypes, TasksOK
    <2>2. frames[c] # <<>>
      OBVIOUS
    <2>3. TaskOK(frames[c], base[c], current[c], traces, born[c].attached)
      BY <2>2 DEF TasksInv, TasksRest, Idle, TasksFine
    <2>4. i \in Slots(frames[c]) /\ i # 0 /\ Ref(frames[c], current[c], i) = frames[c][i].trace
      BY <2>1 DEF Slots, Ref
    <2> QED
      BY <2>3, <2>4 DEF TaskOK, SlotOK
  <1>2. ASSUME NEW c \in Ctx, Running(c)
        PROVE  LET ground == IF Detached(c) = 0 THEN base[c] ELSE <<>> IN
               IF current[c] = None
               THEN Open(c) = <<>> /\ ground = <<>>
               ELSE Stack(c) = ground \o Open(c)
    <2>1. Len(frames[c]) \in Nat
      BY LenProperties DEF TasksInv, TasksTypes, TasksOK
    <2>2. SlotOK(frames[c], base[c], current[c], traces, born[c].attached, 0)
      BY <1>2 DEF TasksInv, TasksRest, TasksFine, TaskOK, Slots
    <2>3. LevelOK(frames[c], base[c], Len(frames[c]), current[c], StackIn(traces, current[c]))
      BY <2>2 DEF SlotOK, Ref, Level
    <2>4. PICK d \in 0..Len(frames[c]) :
               /\ Floor(frames[c], Len(frames[c]), d)
               /\ StackIn(traces, current[c]) = Ground(base[c], d) \o OpenAt(frames[c], Len(frames[c]), d)
               /\ current[c] = None => OpenAt(frames[c], Len(frames[c]), d) = <<>> /\ Ground(base[c], d) = <<>>
      BY <2>3 DEF LevelOK
    <2>5. Detached(c) = d /\ Open(c) = OpenAt(frames[c], Len(frames[c]), d)
      BY <2>1, <2>4, DetachedIs
    <2> QED
      BY <2>4, <2>5 DEF StackIn, Ground, Stack
  <1> QED
    BY <1>1, <1>2, Zenon DEF TasksBalanced

\* An attached task has a span to be a parent.
LEMMA InvAttached == TasksInv => AttachedHasParent
  <1> SUFFICES ASSUME TasksInv, NEW c \in Ctx, Running(c), born[c].attached, current[c] # None
               PROVE  Stack(c) # <<>>
    BY DEF AttachedHasParent
  <1>1. SlotOK(frames[c], base[c], current[c], traces, born[c].attached, 0)
    BY DEF TasksInv, TasksRest, TasksFine, TaskOK, Slots
  <1> QED
    BY <1>1 DEF SlotOK, Ref, Stack

\* From their first step on, two tasks never hold the same Trace object, in
\* their `_trace` or in the token of an @untraced call.
THEOREM TasksApartCorrect == TasksSpec => []TasksApart
  BY TasksInvInit, TasksInvStep, InvApart, PTL DEF TasksSpec

\* The stack of a task is what it found at its first step and then the blocks
\* that it has open; in an @untraced call only these, and the stack that the call
\* took away is kept as it was, whatever the other tasks do.
THEOREM TasksBalancedCorrect == TasksSpec => []TasksBalanced
  BY TasksInvInit, TasksInvStep, InvBalanced, PTL DEF TasksSpec

\* A task that all code up to the main task waits for never is in a trace whose
\* spans are all finished.
THEOREM AttachedHasParentCorrect == TasksSpec => []AttachedHasParent
  BY TasksInvInit, TasksInvStep, InvAttached, PTL DEF TasksSpec

\* A task that is waited for starts inside the spans it was created in.
LEMMA StartsInsideStep ==
  ASSUME TasksInv, [TasksNext]_allVars, NEW c \in Ctx,
         phase[c] = "created", phase'[c] = "running", born[c].awaited
  PROVE  IsPrefix(born[c].stack, base'[c])
  <1>1. phase \in [Ctx -> {"unborn", "created", "running", "done"}] /\ base \in [Ctx -> Seq(1..Len(spans))]
    BY DEF TasksInv, TasksTypes, TasksOK
  <1>2. FirstStep(c)
    <2>1. ~(UNCHANGED phase)
      OBVIOUS
    <2>2. PICK e \in Ctx : FirstStep(e) \/ EndTask(e) \/ \E d \in Ctx, w \in BOOLEAN : CreateTask(e, d, w)
      BY <2>1 DEF TasksNext, allVars, taskVars, Enter, EnterTrace, Exit, Untrace, Retrace
    <2>3. EndTask(e) => phase' = [phase EXCEPT ![e] = "done"]
      BY DEF EndTask
    <2>4. \A d \in Ctx, w \in BOOLEAN : CreateTask(e, d, w) => phase' = [phase EXCEPT ![d] = "created"]
      BY DEF CreateTask
    <2>5. FirstStep(e) => phase' = [phase EXCEPT ![e] = "running"]
      BY DEF FirstStep
    <2> QED
      BY <1>1, <2>2, <2>3, <2>4, <2>5
  <1>3. PICK v \in Seq(1..Len(spans)) : base' = [base EXCEPT ![c] = v] /\ v = StackIn(traces, current[c])
    BY <1>2, FirstStepIs DEF TasksInv
  <1>4. base'[c] = v
    BY <1>1, <1>3
  <1>5. born[c].stack \in Seq(1..Len(spans)) /\ born[c].by \in Ctx
    BY DEF TasksInv, TasksTypes, TasksOK, BirthSet
  <1>6. /\ current[c] = None => born[c].stack = <<>>
        /\ current[c] # None => Begins(born[c].stack, traces[current[c]].stack)
    BY DEF TasksInv, TasksRest, WaitsOK, Waiting, WaitOK
  <1>7. Begins(born[c].stack, v)
    <2>1. CASE current[c] = None
      <3>1. Len(v) \in Nat /\ Len(<<>>) = 0
        BY LenProperties
      <3> QED
        BY <1>6, <2>1, <3>1 DEF Begins
    <2>2. CASE current[c] # None
      BY <1>3, <1>6, <2>2 DEF StackIn
    <2> QED
      BY <2>1, <2>2
  <1> QED
    BY <1>4, <1>5, <1>7, BeginsIs

\* A task that the frame it was created in waits for starts somewhere inside the
\* spans that were open when it was created, however late it starts.
THEOREM AwaitedStartsInsideCorrect == TasksSpec => AwaitedStartsInside
  <1>1. TasksInv /\ [TasksNext]_allVars =>
          [ \A c \in Ctx : phase[c] = "created" /\ phase'[c] = "running" /\ born[c].awaited
              => IsPrefix(born[c].stack, base'[c]) ]_allVars
    BY StartsInsideStep
  <1> QED
    BY <1>1, TasksInvInit, TasksInvStep, PTL DEF TasksSpec, AwaitedStartsInside

=============================================================================
