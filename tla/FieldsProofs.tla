---------------------------- MODULE FieldsProofs ----------------------------
(***************************************************************************)
(* What holds of the fields on the events for every number of threads,     *)
(* traces, spans and field names.                                          *)
(***************************************************************************)
EXTENDS TraceFields, BlocksProofs, FiniteSetTheorems, WellFoundedInduction

-----------------------------------------------------------------------------
(* The data moves along with the blocks *)

\* A step on the data is a step of the matched client, or none of its business.
LEMMA FieldsStepIsBlocksStep == [FieldsNext]_fieldVars => [BlocksNext]_allVars
  <1> SUFFICES ASSUME [FieldsNext]_fieldVars PROVE [BlocksNext]_allVars
    OBVIOUS
  <1>1. CASE UNCHANGED fieldVars
    BY <1>1 DEF fieldVars
  <1>2. ASSUME NEW c \in Ctx,
               FieldsEnter(c) \/ FieldsEnterTrace(c) \/ FieldsExit(c) \/ FieldsDecorate(c) \/ FieldsJob(c)
        PROVE  BlocksNext
    BY <1>2 DEF FieldsEnter, FieldsEnterTrace, FieldsExit, FieldsDecorate, FieldsJob, BlocksNext
  <1>3. ASSUME NEW c \in Ctx, NEW k \in Key, AddContextField(c, k) \/ RemoveContextField(c, k)
        PROVE  UNCHANGED allVars
    BY <1>3 DEF AddContextField, RemoveContextField
  <1>4. ASSUME NEW c \in Ctx, NEW n, AddTraceField(c, n) \/ RemoveTraceField(c, n)
        PROVE  UNCHANGED allVars
    BY <1>4 DEF AddTraceField, RemoveTraceField
  <1>5. ASSUME NEW c \in Ctx, AddRollupField(c)
        PROVE  UNCHANGED allVars
    BY <1>5 DEF AddRollupField
  <1> QED
    BY <1>1, <1>2, <1>3, <1>4, <1>5 DEF FieldsNext

\* What was proved of the matched client is used for it with the data.
LEMMA FieldsUseBlocks == FieldsSpec => BlocksSpec
  <1>1. FieldsInit => BlocksInit
    BY DEF FieldsInit
  <1> QED
    BY <1>1, FieldsStepIsBlocksStep, PTL DEF FieldsSpec, BlocksSpec

-----------------------------------------------------------------------------
(* What the steps do to the objects that have data *)

\* Trace objects and spans keep their trace ids.
IdsKept ==
  /\ Len(traces) \in Nat /\ Len(traces') \in {Len(traces), Len(traces) + 1}
  /\ \A t \in 1..Len(traces) : traces'[t].id = traces[t].id

\* The span of a new block has the id of the Trace that is current then.
LEMMA EnterMakes ==
  ASSUME MatchedInv, NEW c \in Ctx, Enter(c) \/ EnterTrace(c)
  PROVE  /\ IdsKept
         /\ current'[c] \in 1..Len(traces')
         /\ \E n : spans' = Append(spans, n) /\ n.trace = traces'[current'[c]].id
  <1> USE DEF MatchedInv, EventsInv
  <1>1. ASSUME NEW id, NEW p, StartTrace(c, id, p)
        PROVE  /\ IdsKept /\ current'[c] \in 1..Len(traces')
               /\ \E n : spans' = Append(spans, n) /\ n.trace = traces'[current'[c]].id
    <2>1. PICK t : traces' = Append(traces, t) /\ spans' = Append(spans, [trace |-> t.id, parent |-> p,
                     root |-> TRUE, type |-> IF p = None THEN "root" ELSE "subroot"])
      <3> DEFINE tid == IF id = None THEN NewTrace ELSE id
                 made == [id |-> tid, stack |-> <<NewSpan>>]
      <3>1. made.id = tid
        OBVIOUS
      <3>2. traces' = Append(traces, made) /\ PushSpan(tid, p, TRUE, IF p = None THEN "root" ELSE "subroot")
        BY <1>1 DEF StartTrace
      <3> HIDE DEF made, tid
      <3> QED
        BY <3>1, <3>2 DEF PushSpan
    <2>2. /\ Len(traces) \in Nat /\ Len(traces') = Len(traces) + 1
          /\ traces'[Len(traces) + 1] = t
          /\ \A u \in 1..Len(traces) : traces'[u] = traces[u]
      BY <2>1, TraceAppended
    <2>3. current'[c] = Len(traces) + 1
      BY <1>1 DEF StartTrace, NewTrace, RefsOK
    <2> QED
      BY <2>1, <2>2, <2>3 DEF IdsKept
  <1>2. ASSUME StartSpan(c, None)
        PROVE  /\ IdsKept /\ current'[c] \in 1..Len(traces')
               /\ \E n : spans' = Append(spans, n) /\ n.trace = traces'[current'[c]].id
    <2>1. current[c] \in 1..Len(traces)
      BY <1>2, PathType DEF StartSpan
    <2>2. PICK st : traces' = [traces EXCEPT ![current[c]].stack = st]
      BY <1>2 DEF StartSpan
    <2>3. /\ Len(traces') = Len(traces) /\ Len(traces) \in Nat
          /\ \A u \in 1..Len(traces) : traces'[u].id = traces[u].id
      BY <2>1, <2>2, StackReplaced, LenProperties DEF HeapOK
    <2>4. \E n : spans' = Append(spans, n) /\ n.trace = traces[current[c]].id
      BY <1>2 DEF StartSpan, PushSpan
    <2>5. current'[c] = current[c]
      BY <1>2 DEF StartSpan
    <2> QED
      BY <2>1, <2>3, <2>4, <2>5 DEF IdsKept
  <1> QED
    BY <1>1, <1>2 DEF Enter, EnterTrace, NewEvent

\* Leaving a block makes nothing; the span that is left has the id of the Trace
\* that completes its event.
LEMMA ExitKeeps ==
  ASSUME MatchedInv, NEW c \in Ctx, Exit(c)
  PROVE  /\ IdsKept /\ Len(traces') = Len(traces)
         /\ UNCHANGED spans
         /\ Last(blocks[c]) \in 1..Len(spans)
         /\ current[c] # None => current[c] \in 1..Len(traces)
                                  /\ spans[Last(blocks[c])].trace = traces[current[c]].id
  <1> USE DEF MatchedInv, EventsInv
  <1>1. Closes(c)
    BY ExitCloses
  <1>2. Last(Path(c)) = Last(blocks[c]) /\ UNCHANGED spans
    BY <1>1 DEF Closes
  <1>3. current[c] # None => Path(c) # <<>>
    BY DEF BalancedInv
  <1>4. Last(blocks[c]) \in 1..Len(spans)
    <2>1. blocks[c] \in Seq(1..Len(spans)) /\ blocks[c] # <<>>
      BY DEF Exit, ClientOK
    <2> QED
      BY <2>1, SeqFront
  <1>5. IdsKept /\ Len(traces') = Len(traces)
    <2>1. Pop(c, Last(blocks[c])) \/ UNCHANGED traces
      BY DEF Exit, Close, FinishTrace, FinishSpan
    <2>2. CASE UNCHANGED traces
      BY <2>2, LenProperties DEF HeapOK, IdsKept
    <2>3. CASE IsInnermost(c, Last(blocks[c])) /\ traces' = [traces EXCEPT ![current[c]].stack = Front(@)]
      <3>1. current[c] \in 1..Len(traces)
        BY <2>3, PathType DEF IsInnermost
      <3>2. PICK st : traces' = [traces EXCEPT ![current[c]].stack = st]
        BY <2>3
      <3> QED
        BY <3>1, <3>2, StackReplaced, LenProperties DEF HeapOK, IdsKept
    <2> QED
      BY <2>1, <2>2, <2>3 DEF Pop
  <1> QED
    BY <1>2, <1>3, <1>4, <1>5, PathEnd

-----------------------------------------------------------------------------
(* The data of the objects, with values from sets that do not grow *)

Value == CallerId \cup Nat
TraceData == [fields : [Key -> Value], rollup : 0..MaxRollup, dataset : Dataset \cup {None}]
SpanData ==
  [fields : [Key -> Value], rollup : Nat, total : 0..MaxRollup, dataset : Dataset \cup {None}]

TraceDataOK ==
  /\ tdata \in Seq(TraceData) /\ Len(tdata) = Len(traces)
  /\ asked \in Seq(SUBSET Key) /\ Len(asked) = Len(traces)

SpanDataOK == sdata \in Seq(SpanData) /\ Len(sdata) = Len(spans)

TraceOwn == \A t \in 1..Len(traces), k \in Key : tdata[t].fields[k] \in {None, traces[t].id}

SpanOwn == \A s \in 1..Len(spans), k \in Key : sdata[s].fields[k] \in {None, spans[s].trace}

DataInv == TraceDataOK /\ SpanDataOK /\ TraceOwn /\ SpanOwn

\* Trace ids are values.
LEMMA IdsAreValues ==
  ASSUME HeapOK
  PROVE  /\ None \in Value
         /\ \A t \in 1..Len(traces) : traces[t].id \in Value
         /\ \A s \in 1..Len(spans) : spans[s].trace \in Value
  <1>1. Len(traces) \in Nat
    BY LenProperties DEF HeapOK
  <1>2. \A t \in 1..Len(traces) : traces[t].id \in CallerId \cup (1..Len(traces))
    BY TraceType
  <1>3. \A s \in 1..Len(spans) : spans[s] \in SpanSet(Len(traces), Len(spans))
    BY ElementOfSeq DEF HeapOK
  <1> QED
    BY <1>1, <1>2, <1>3 DEF Value, None, SpanSet

\* The data of one Trace object is changed.
LEMMA TraceDataSet ==
  ASSUME TraceDataOK, NEW t \in 1..Len(traces), NEW d \in TraceData,
         tdata' = [tdata EXCEPT ![t] = d], UNCHANGED traces
  PROVE  /\ tdata' \in Seq(TraceData) /\ Len(tdata') = Len(traces')
         /\ tdata'[t] = d
         /\ \A u \in 1..Len(traces) : u # t => tdata'[u] = tdata[u]
  BY ExceptSeq DEF TraceDataOK

\* The same for a span.
LEMMA SpanDataSet ==
  ASSUME SpanDataOK, NEW s \in 1..Len(spans), NEW d \in SpanData,
         sdata' = [sdata EXCEPT ![s] = d], UNCHANGED spans
  PROVE  /\ SpanDataOK'
         /\ sdata'[s] = d
         /\ \A u \in 1..Len(spans) : u # s => sdata'[u] = sdata[u]
  BY ExceptSeq DEF SpanDataOK

-----------------------------------------------------------------------------
(* The calls that add and remove fields *)

\* Adding a field to a record of data, or taking it out.
LEMMA FieldSet ==
  ASSUME NEW k \in Key, NEW v \in Value
  PROVE  /\ \A d \in SpanData : [d EXCEPT !.fields = [d.fields EXCEPT ![k] = v]] \in SpanData
         /\ \A d \in TraceData : [d EXCEPT !.fields = [d.fields EXCEPT ![k] = v]] \in TraceData
  BY DEF SpanData, TraceData

\* The span that a call writes to is of the trace that is current.
LEMMA ActiveSpanOwn ==
  ASSUME MatchedInv, NEW c \in Ctx, ActiveSpan(c) # None
  PROVE  /\ current[c] \in 1..Len(traces)
         /\ ActiveSpan(c) \in 1..Len(spans)
         /\ spans[ActiveSpan(c)].trace = traces[current[c]].id
  <1>1. Path(c) # <<>>
    BY DEF ActiveSpan, Path
  <1> QED
    BY <1>1, PathEnd DEF MatchedInv, EventsInv

\* add_context_field and remove_context_field, and their part in the calls for
\* trace fields.
LEMMA SetContextOwn ==
  ASSUME MatchedInv, DataInv, NEW c \in Ctx, NEW k \in Key, current[c] # None,
         NEW v \in {None, traces[current[c]].id}, SetContext(c, k, v), UNCHANGED allVars
  PROVE  SpanDataOK' /\ SpanOwn'
  <1>1. UNCHANGED <<traces, spans>>
    BY DEF allVars, vars
  <1>2. CASE ActiveSpan(c) = None
    BY <1>1, <1>2 DEF SetContext, DataInv, SpanDataOK, SpanOwn
  <1>3. CASE ActiveSpan(c) # None
    <2> DEFINE s == ActiveSpan(c)
    <2>1. /\ current[c] \in 1..Len(traces) /\ s \in 1..Len(spans)
          /\ spans[s].trace = traces[current[c]].id
      BY <1>3, ActiveSpanOwn
    <2>2. sdata[s] \in SpanData
      BY <2>1, ElementOfSeq DEF DataInv, SpanDataOK
    <2>3. v \in Value
      BY <2>1, IdsAreValues DEF MatchedInv, EventsInv
    <2>4. PICK d : d = [sdata[s] EXCEPT !.fields = [sdata[s].fields EXCEPT ![k] = v]]
      OBVIOUS
    <2>5. d \in SpanData
      BY <2>2, <2>3, <2>4, FieldSet
    <2>6. \A j \in Key : d.fields[j] = IF j = k THEN v ELSE sdata[s].fields[j]
      BY <2>2, <2>4 DEF SpanData
    <2>7. sdata' = [sdata EXCEPT ![s] = d]
      BY <1>3, <2>4 DEF SetContext
    <2>8. /\ SpanDataOK' /\ sdata'[s] = d
          /\ \A u \in 1..Len(spans) : u # s => sdata'[u] = sdata[u]
      <3> HIDE DEF s
      <3> QED
        BY <1>1, <2>1, <2>5, <2>7, SpanDataSet DEF DataInv
    <2>9. SpanOwn'
      <3> SUFFICES ASSUME NEW u \in 1..Len(spans), NEW j \in Key
                   PROVE  sdata'[u].fields[j] \in {None, spans[u].trace}
        BY <1>1 DEF SpanOwn
      <3>1. sdata[u].fields[j] \in {None, spans[u].trace}
        BY DEF DataInv, SpanOwn
      <3> HIDE DEF s
      <3> QED
        BY <2>1, <2>6, <2>8, <3>1
    <2> QED
      BY <2>8, <2>9
  <1> QED
    BY <1>2, <1>3

\* add_trace_field and remove_trace_field, as far as the Trace goes.
LEMMA SetTraceOwn ==
  ASSUME MatchedInv, DataInv, NEW c \in Ctx, NEW k \in Key, current[c] # None,
         NEW v \in {None, traces[current[c]].id}, NEW w \in SUBSET Key,
         tdata' = [tdata EXCEPT ![current[c]].fields[k] = v],
         asked' = [asked EXCEPT ![current[c]] = w], UNCHANGED allVars
  PROVE  TraceDataOK' /\ TraceOwn'
  <1> DEFINE t == current[c]
  <1>1. UNCHANGED <<traces, spans>>
    BY DEF allVars, vars
  <1>2. t \in 1..Len(traces)
    BY PathType DEF MatchedInv, EventsInv
  <1>3. tdata[t] \in TraceData
    BY <1>2, ElementOfSeq DEF DataInv, TraceDataOK
  <1>4. v \in Value
    BY <1>2, IdsAreValues DEF MatchedInv, EventsInv
  <1>5. PICK d : d = [tdata[t] EXCEPT !.fields = [tdata[t].fields EXCEPT ![k] = v]]
    OBVIOUS
  <1>6. d \in TraceData
    BY <1>3, <1>4, <1>5, FieldSet
  <1>7. \A j \in Key : d.fields[j] = IF j = k THEN v ELSE tdata[t].fields[j]
    BY <1>3, <1>5 DEF TraceData
  <1>8. tdata' = [tdata EXCEPT ![t] = d]
    BY <1>5
  <1>9. /\ tdata' \in Seq(TraceData) /\ Len(tdata') = Len(traces') /\ tdata'[t] = d
        /\ \A u \in 1..Len(traces) : u # t => tdata'[u] = tdata[u]
    <2> HIDE DEF t
    <2> QED
      BY <1>1, <1>2, <1>6, <1>8, TraceDataSet DEF DataInv
  <1>10. asked' \in Seq(SUBSET Key) /\ Len(asked') = Len(traces')
    <2>1. asked' = [asked EXCEPT ![t] = w]
      OBVIOUS
    <2>2. t \in 1..Len(asked) /\ asked \in Seq(SUBSET Key) /\ Len(asked) = Len(traces)
      BY <1>2 DEF DataInv, TraceDataOK
    <2> HIDE DEF t
    <2>3. [asked EXCEPT ![t] = w] \in Seq(SUBSET Key) /\ Len([asked EXCEPT ![t] = w]) = Len(asked)
      BY <2>2, ExceptSeq
    <2> QED
      BY <1>1, <2>1, <2>2, <2>3
  <1>11. TraceOwn'
    <2> SUFFICES ASSUME NEW u \in 1..Len(traces), NEW j \in Key
                 PROVE  tdata'[u].fields[j] \in {None, traces[u].id}
      BY <1>1 DEF TraceOwn
    <2>1. tdata[u].fields[j] \in {None, traces[u].id}
      BY DEF DataInv, TraceOwn
    <2>2. v \in {None, traces[t].id}
      OBVIOUS
    <2> HIDE DEF t
    <2> QED
      BY <1>2, <1>7, <1>9, <2>1, <2>2
  <1> QED
    BY <1>9, <1>10, <1>11 DEF TraceDataOK

-----------------------------------------------------------------------------
(* The blocks that are entered and left, the rollups, the copies *)

\* A Trace object that is new begins with no fields.
LEMMA FreshTraceData ==
  ASSUME NEW c, NEW d \in Dataset \cup {None}
  PROVE  FreshTrace(c, d) \in TraceData /\ \A k \in Key : FreshTrace(c, d).fields[k] = None
  BY FieldsAssumption DEF FreshTrace, TraceData, Value, None

\* A Trace object is made, and data for it.
LEMMA TraceDataMade ==
  ASSUME DataInv, IdsKept, NEW d \in TraceData, NEW w \in SUBSET Key,
         Len(traces') = Len(traces) + 1,
         \A k \in Key : d.fields[k] \in {None, traces'[Len(traces) + 1].id},
         tdata' = Append(tdata, d), asked' = Append(asked, w)
  PROVE  TraceDataOK' /\ TraceOwn'
  <1>1. /\ tdata' \in Seq(TraceData) /\ Len(tdata') = Len(tdata) + 1
        /\ \A t \in 1..Len(tdata) : tdata'[t] = tdata[t]
        /\ tdata'[Len(tdata) + 1] = d
    BY SeqAppend DEF DataInv, TraceDataOK
  <1>2. asked' \in Seq(SUBSET Key) /\ Len(asked') = Len(asked) + 1
    BY SeqAppend DEF DataInv, TraceDataOK
  <1>3. ASSUME NEW t \in 1..Len(traces'), NEW k \in Key
        PROVE  tdata'[t].fields[k] \in {None, traces'[t].id}
    <2>1. CASE t \in 1..Len(traces)
      BY <1>1, <2>1 DEF DataInv, TraceDataOK, TraceOwn, IdsKept
    <2>2. CASE t = Len(traces) + 1
      BY <1>1, <2>2 DEF DataInv, TraceDataOK
    <2>3. t \in 1..Len(traces) \/ t = Len(traces) + 1
      BY DEF IdsKept
    <2> QED
      BY <2>1, <2>2, <2>3
  <1> QED
    BY <1>1, <1>2, <1>3 DEF DataInv, TraceDataOK, TraceOwn

\* The Trace objects are as many as before, and so is what is kept for them.
LEMMA TraceDataSame ==
  ASSUME DataInv, IdsKept, Len(traces') = Len(traces), UNCHANGED <<tdata, asked>>
  PROVE  TraceDataOK' /\ TraceOwn'
  BY DEF DataInv, TraceDataOK, TraceOwn, IdsKept

\* A new event starts with the fields of the Trace it is made in.
LEMMA OpenDataOwn ==
  ASSUME MatchedInv, DataInv, NEW c \in Ctx, NEW d \in Dataset \cup {None},
         Enter(c) \/ EnterTrace(c), OpenData(c, d)
  PROVE  DataInv'
  <1>1. /\ IdsKept /\ current'[c] \in 1..Len(traces')
        /\ \E n : spans' = Append(spans, n) /\ n.trace = traces'[current'[c]].id
    BY EnterMakes
  <1>2. PICK n : spans' = Append(spans, n) /\ n.trace = traces'[current'[c]].id
    BY <1>1
  <1>3. HeapOK'
    <2>1. [BlocksNext]_allVars
      BY DEF BlocksNext
    <2> QED
      BY <2>1, EventsInvStep DEF MatchedInv, EventsInv
  <1>4. DOMAIN traces' = 1..Len(traces') /\ Len(traces') \in Nat
    BY <1>3, LenProperties DEF HeapOK
  <1>5. TraceDataOK' /\ TraceOwn'
    <2>1. CASE Len(traces') = Len(traces)
      <3>1. NewTrace \notin DOMAIN traces'
        BY <1>1, <1>4, <2>1 DEF NewTrace, IdsKept
      <3> QED
        BY <1>1, <2>1, <3>1, TraceDataSame DEF OpenData
    <2>2. CASE Len(traces') = Len(traces) + 1
      <3>1. NewTrace \in DOMAIN traces'
        BY <1>1, <1>4, <2>2 DEF NewTrace, IdsKept
      <3>2. tdata' = Append(tdata, FreshTrace(c, d)) /\ asked' = Append(asked, {})
        BY <3>1 DEF OpenData
      <3>3. PICK f : f = FreshTrace(c, d)
        OBVIOUS
      <3>4. f \in TraceData /\ \A k \in Key : f.fields[k] \in {None, traces'[Len(traces) + 1].id}
        BY <3>3, FreshTraceData
      <3>5. tdata' = Append(tdata, f) /\ asked' = Append(asked, {}) /\ {} \in SUBSET Key
        BY <3>2, <3>3
      <3> QED
        BY <1>1, <2>2, <3>4, <3>5, TraceDataMade
    <2> QED
      BY <1>1, <2>1, <2>2 DEF IdsKept
  <1>6. PICK e : e = [fields |-> tdata'[current'[c]].fields, rollup |-> 0, total |-> 0, dataset |-> None]
    OBVIOUS
  <1>7. tdata'[current'[c]] \in TraceData
    BY <1>1, <1>5, ElementOfSeq DEF TraceDataOK
  <1>8. e \in SpanData /\ \A k \in Key : e.fields[k] \in {None, n.trace}
    <2>1. tdata'[current'[c]].fields \in [Key -> Value]
      BY <1>7 DEF TraceData
    <2>2. \A k \in Key : tdata'[current'[c]].fields[k] \in {None, traces'[current'[c]].id}
      BY <1>1, <1>5 DEF TraceOwn
    <2> QED
      BY <1>2, <1>6, <2>1, <2>2, FieldsAssumption DEF SpanData, None
  <1>9. /\ sdata' \in Seq(SpanData) /\ Len(sdata') = Len(sdata) + 1
        /\ \A s \in 1..Len(sdata) : sdata'[s] = sdata[s]
        /\ sdata'[Len(sdata) + 1] = e
    BY <1>6, <1>8, SeqAppend DEF OpenData, DataInv, SpanDataOK
  <1>10. /\ Len(spans) \in Nat /\ Len(spans') = Len(spans) + 1
         /\ \A s \in 1..Len(spans) : spans'[s] = spans[s]
         /\ spans'[Len(spans) + 1] = n
    BY <1>2, LastAppended, LenProperties DEF MatchedInv, EventsInv, HeapOK
  <1>11. SpanOwn'
    <2> SUFFICES ASSUME NEW s \in 1..Len(spans'), NEW k \in Key
                 PROVE  sdata'[s].fields[k] \in {None, spans'[s].trace}
      BY DEF SpanOwn
    <2>1. CASE s \in 1..Len(spans)
      BY <1>9, <1>10, <2>1 DEF DataInv, SpanDataOK, SpanOwn
    <2>2. CASE s = Len(spans) + 1
      BY <1>8, <1>9, <1>10, <2>2 DEF DataInv, SpanDataOK
    <2> QED
      BY <1>10, <2>1, <2>2
  <1> QED
    BY <1>5, <1>9, <1>10, <1>11 DEF DataInv, SpanDataOK

\* finish_span gives the event the dataset of the Trace that is current, if it has one, the
\* total of the Trace to a root, and the fields that the event has not.
Completed(d, s, t) ==
  /\ d.fields = [k \in Key |->
       IF sdata[s].fields[k] # None THEN sdata[s].fields[k] ELSE tdata[t].fields[k]]
  /\ d.dataset = IF tdata[t].dataset # None THEN tdata[t].dataset ELSE sdata[s].dataset
  /\ d.total = IF spans[s].root THEN tdata[t].rollup ELSE sdata[s].total
  /\ d.rollup = sdata[s].rollup

\* That is all it does.
LEMMA FinishedRecord ==
  ASSUME MatchedInv, DataInv, NEW c \in Ctx, NEW s, s = Last(blocks[c]), Exit(c), FinishData(c, s),
         NEW t, t = current[c], t # None
  PROVE  \E d \in SpanData : sdata' = [sdata EXCEPT ![s] = d] /\ Completed(d, s, t)
  <1>1. t \in 1..Len(traces) /\ s \in 1..Len(spans)
    BY ExitKeeps
  <1>2. tdata[t] \in TraceData /\ sdata[s] \in SpanData /\ s \in DOMAIN sdata
    BY <1>1, ElementOfSeq, LenProperties DEF DataInv, TraceDataOK, SpanDataOK
  <1>3. PICK f \in [Key -> Value] : f = [k \in Key |->
               IF sdata[s].fields[k] # None THEN sdata[s].fields[k] ELSE tdata[t].fields[k]]
    BY <1>2 DEF TraceData, SpanData
  <1>4. PICK x \in Dataset \cup {None} :
             x = IF tdata[t].dataset # None THEN tdata[t].dataset ELSE sdata[s].dataset
    BY <1>2 DEF TraceData, SpanData
  <1>5. PICK y \in 0..MaxRollup : y = IF spans[s].root THEN tdata[t].rollup ELSE sdata[s].total
    BY <1>2 DEF TraceData, SpanData
  <1>6. PICK d1 : d1 = [sdata[s] EXCEPT !.dataset = x]
    OBVIOUS
  <1>7. d1 \in SpanData /\ d1.total = sdata[s].total /\ d1.rollup = sdata[s].rollup /\ d1.dataset = x
    BY <1>2, <1>6 DEF SpanData
  <1>8. PICK d2 : d2 = [d1 EXCEPT !.total = y]
    OBVIOUS
  <1>9. d2 \in SpanData /\ d2.total = y /\ d2.rollup = sdata[s].rollup /\ d2.dataset = x
    BY <1>7, <1>8 DEF SpanData
  <1>10. PICK d3 : d3 = [d2 EXCEPT !.fields = f]
    OBVIOUS
  <1>11. /\ d3 \in SpanData /\ d3.fields = f /\ d3.total = y /\ d3.dataset = x
         /\ d3.rollup = sdata[s].rollup
    BY <1>9, <1>10 DEF SpanData
  <1>12. sdata' = [sdata EXCEPT
                     ![s].dataset = IF tdata[t].dataset # None THEN tdata[t].dataset ELSE @,
                     ![s].total = IF spans[s].root THEN tdata[t].rollup ELSE @,
                     ![s].fields = f]
    BY <1>3 DEF FinishData
  <1>13. sdata' = [sdata EXCEPT ![s] = d3]
    BY <1>2, <1>4, <1>5, <1>6, <1>7, <1>8, <1>10, <1>12
  <1> QED
    BY <1>3, <1>4, <1>5, <1>11, <1>13 DEF Completed

\* finish_span completes the event with the data of the Trace that is current,
\* which is the span's own.
LEMMA FinishDataOwn ==
  ASSUME MatchedInv, DataInv, NEW c \in Ctx, Exit(c), FinishData(c, Last(blocks[c])),
         UNCHANGED <<tdata, asked>>
  PROVE  DataInv'
  <1>1. PICK s, t : s = Last(blocks[c]) /\ t = current[c]
    OBVIOUS
  <1>2. /\ IdsKept /\ Len(traces') = Len(traces) /\ UNCHANGED spans /\ s \in 1..Len(spans)
        /\ t # None => t \in 1..Len(traces) /\ spans[s].trace = traces[t].id
    BY <1>1, ExitKeeps
  <1>3. TraceDataOK' /\ TraceOwn'
    BY <1>2, TraceDataSame
  <1>4. FinishData(c, s)
    BY <1>1
  <1>5. CASE t = None
    BY <1>1, <1>2, <1>3, <1>4, <1>5 DEF FinishData, DataInv, SpanDataOK, SpanOwn
  <1>6. CASE t # None
    <2>1. PICK d \in SpanData : sdata' = [sdata EXCEPT ![s] = d] /\ Completed(d, s, t)
      BY <1>1, <1>4, <1>6, FinishedRecord
    <2>2. /\ SpanDataOK' /\ sdata'[s] = d
          /\ \A u \in 1..Len(spans) : u # s => sdata'[u] = sdata[u]
      BY <1>2, <2>1, SpanDataSet DEF DataInv
    <2>3. SpanOwn'
      <3> SUFFICES ASSUME NEW u \in 1..Len(spans), NEW k \in Key
                   PROVE  sdata'[u].fields[k] \in {None, spans[u].trace}
        BY <1>2 DEF SpanOwn
      <3>1. /\ sdata[u].fields[k] \in {None, spans[u].trace}
            /\ tdata[t].fields[k] \in {None, spans[s].trace}
        BY <1>2, <1>6 DEF DataInv, SpanOwn, TraceOwn
      <3>2. u = s => d.fields[k] \in {sdata[s].fields[k], tdata[t].fields[k]}
        BY <2>1 DEF Completed
      <3> QED
        BY <2>2, <3>1, <3>2
    <2> QED
      BY <1>3, <2>2, <2>3 DEF DataInv
  <1> QED
    BY <1>5, <1>6

\* A copy has the fields of the Trace it is made from.
LEMMA FieldsDecorateOwn ==
  ASSUME MatchedInv, DataInv, NEW c \in Ctx, FieldsDecorate(c)
  PROVE  DataInv'
  <1>1. /\ current[c] \in 1..Len(traces)
        /\ traces' = Append(traces, CopyOf(current[c])) /\ UNCHANGED spans
    BY PathType DEF MatchedInv, EventsInv, FieldsDecorate, Decorate, TracedThread
  <1>2. IdsKept /\ Len(traces') = Len(traces) + 1 /\ traces'[Len(traces) + 1].id = traces[current[c]].id
    <2>1. PICK t : t = CopyOf(current[c])
      OBVIOUS
    <2>2. /\ Len(traces) \in Nat /\ Len(traces') = Len(traces) + 1
          /\ traces'[Len(traces) + 1] = t
          /\ \A u \in 1..Len(traces) : traces'[u] = traces[u]
      BY <1>1, <2>1, TraceAppended DEF MatchedInv, EventsInv
    <2>3. t.id = traces[current[c]].id
      BY <2>1 DEF CopyOf
    <2> QED
      BY <2>2, <2>3 DEF IdsKept
  <1>3. PICK d : d = [fields |-> tdata[current[c]].fields, rollup |-> 0, dataset |-> None]
    OBVIOUS
  <1>4. tdata[current[c]] \in TraceData /\ asked[current[c]] \in SUBSET Key
    BY <1>1, ElementOfSeq DEF DataInv, TraceDataOK
  <1>5. d \in TraceData
    BY <1>3, <1>4, FieldsAssumption DEF TraceData
  <1>6. \A k \in Key : d.fields[k] \in {None, traces'[Len(traces) + 1].id}
    BY <1>1, <1>2, <1>3 DEF DataInv, TraceOwn
  <1>7. tdata' = Append(tdata, d) /\ asked' = Append(asked, asked[current[c]]) /\ UNCHANGED sdata
    BY <1>3 DEF FieldsDecorate
  <1>8. TraceDataOK' /\ TraceOwn'
    BY <1>2, <1>4, <1>5, <1>6, <1>7, TraceDataMade
  <1> QED
    BY <1>1, <1>7, <1>8 DEF DataInv, SpanDataOK, SpanOwn

\* A rollup moves no field.
LEMMA AddRollupFieldOwn ==
  ASSUME MatchedInv, DataInv, NEW c \in Ctx, AddRollupField(c)
  PROVE  DataInv'
  <1> DEFINE t == current[c]
             s == ActiveSpan(c)
  <1>1. UNCHANGED <<traces, spans, asked>>
    BY DEF AddRollupField, allVars, vars
  <1>2. t \in 1..Len(traces) /\ tdata[t] \in TraceData /\ tdata[t].rollup < MaxRollup
    BY PathType, ElementOfSeq DEF MatchedInv, EventsInv, AddRollupField, DataInv, TraceDataOK
  <1>3. TraceDataOK' /\ TraceOwn'
    <2>1. PICK d : d = [tdata[t] EXCEPT !.rollup = @ + 1]
      OBVIOUS
    <2>2. d \in TraceData /\ d.fields = tdata[t].fields
      BY <1>2, <2>1, FieldsAssumption DEF TraceData
    <2>3. tdata' = [tdata EXCEPT ![t] = d]
      BY <2>1 DEF AddRollupField
    <2>4. /\ tdata' \in Seq(TraceData) /\ Len(tdata') = Len(traces') /\ tdata'[t] = d
          /\ \A u \in 1..Len(traces) : u # t => tdata'[u] = tdata[u]
      <3> HIDE DEF t
      <3> QED
        BY <1>1, <1>2, <2>2, <2>3, TraceDataSet DEF DataInv
    <2> HIDE DEF t
    <2> QED
      BY <1>1, <2>2, <2>4 DEF DataInv, TraceDataOK, TraceOwn
  <1>4. SpanDataOK' /\ SpanOwn'
    <2>1. CASE s = None
      BY <1>1, <2>1 DEF AddRollupField, DataInv, SpanDataOK, SpanOwn
    <2>2. CASE s # None
      <3>1. s \in 1..Len(spans)
        BY <2>2, ActiveSpanOwn
      <3>2. sdata[s] \in SpanData
        BY <3>1, ElementOfSeq DEF DataInv, SpanDataOK
      <3>3. PICK d : d = [sdata[s] EXCEPT !.rollup = @ + 1]
        OBVIOUS
      <3>4. d \in SpanData /\ d.fields = sdata[s].fields
        BY <3>2, <3>3 DEF SpanData
      <3>5. sdata' = [sdata EXCEPT ![s] = d]
        BY <2>2, <3>3 DEF AddRollupField
      <3>6. /\ SpanDataOK' /\ sdata'[s] = d
            /\ \A u \in 1..Len(spans) : u # s => sdata'[u] = sdata[u]
        <4> HIDE DEF s
        <4> QED
          BY <1>1, <3>1, <3>4, <3>5, SpanDataSet DEF DataInv
      <3> HIDE DEF s
      <3> QED
        BY <1>1, <3>4, <3>6 DEF DataInv, SpanOwn
    <2> QED
      BY <2>1, <2>2
  <1> QED
    BY <1>3, <1>4 DEF DataInv

-----------------------------------------------------------------------------
(* Every step keeps the events' fields their own *)

\* No event has a field before the first.
LEMMA DataInit ==
  ASSUME FieldsInit
  PROVE  DataInv
  <1>1. Len(traces) = 0 /\ Len(spans) = 0
    BY DEF FieldsInit, BlocksInit, Init
  <1>2. /\ tdata = <<>> /\ sdata = <<>> /\ asked = <<>>
    BY DEF FieldsInit
  <1> QED
    BY <1>1, <1>2 DEF DataInv, TraceDataOK, SpanDataOK, TraceOwn, SpanOwn

\* A step gives an event fields of its own and those of its trace and its parent, no others.
LEMMA DataStep ==
  ASSUME MatchedInv, DataInv, [FieldsNext]_fieldVars
  PROVE  DataInv'
  <1>1. CASE UNCHANGED fieldVars
    BY <1>1 DEF fieldVars, allVars, vars, dataVars, DataInv, TraceDataOK, SpanDataOK, TraceOwn, SpanOwn
  <1>2. ASSUME NEW c \in Ctx, FieldsEnter(c) PROVE DataInv'
    BY <1>2, OpenDataOwn DEF FieldsEnter
  <1>3. ASSUME NEW c \in Ctx, FieldsEnterTrace(c) PROVE DataInv'
    BY <1>3, OpenDataOwn DEF FieldsEnterTrace
  <1>4. ASSUME NEW c \in Ctx, FieldsExit(c) PROVE DataInv'
    BY <1>4, FinishDataOwn DEF FieldsExit
  <1>5. ASSUME NEW c \in Ctx, FieldsDecorate(c) PROVE DataInv'
    BY <1>5, FieldsDecorateOwn
  <1>6. ASSUME NEW c \in Ctx, FieldsJob(c) PROVE DataInv'
    <2>1. UNCHANGED <<traces, spans, tdata, sdata, asked>>
      BY <1>6 DEF FieldsJob, RunJob, EndJob, RunDecorated, dataVars, vars
    <2> QED
      BY <2>1 DEF DataInv, TraceDataOK, SpanDataOK, TraceOwn, SpanOwn
  <1>7. ASSUME NEW c \in Ctx, NEW k \in Key, AddContextField(c, k) \/ RemoveContextField(c, k)
        PROVE  DataInv'
    <2>1. PICK v \in {None, traces[current[c]].id} : SetContext(c, k, v)
      BY <1>7 DEF AddContextField, RemoveContextField
    <2>2. current[c] # None /\ UNCHANGED <<allVars, tdata, asked>>
      BY <1>7, ActiveSpanOwn DEF AddContextField, RemoveContextField, ActiveSpan, Path
    <2>3. SpanDataOK' /\ SpanOwn'
      BY <2>1, <2>2, SetContextOwn
    <2> QED
      BY <2>2, <2>3 DEF DataInv, TraceDataOK, TraceOwn, allVars, vars
  <1>8. ASSUME NEW c \in Ctx, NEW n \in Name, AddTraceField(c, n) PROVE DataInv'
    <2>1. AddKey(n) \in Key
      BY DEF Key
    <2>2. /\ current[c] # None /\ UNCHANGED allVars
          /\ SetContext(c, AddKey(n), traces[current[c]].id)
          /\ tdata' = [tdata EXCEPT ![current[c]].fields[AddKey(n)] = traces[current[c]].id]
      BY <1>8 DEF AddTraceField
    <2>3. PICK w \in SUBSET Key : asked' = [asked EXCEPT ![current[c]] = w]
      <3>1. asked[current[c]] \in SUBSET Key
        BY <2>2, PathType, ElementOfSeq DEF MatchedInv, EventsInv, DataInv, TraceDataOK
      <3>2. PICK w : w = asked[current[c]] \cup {AddKey(n)}
        OBVIOUS
      <3> QED
        BY <1>8, <2>1, <3>1, <3>2 DEF AddTraceField
    <2>4. SpanDataOK' /\ SpanOwn'
      BY <2>1, <2>2, SetContextOwn
    <2>5. TraceDataOK' /\ TraceOwn'
      BY <2>1, <2>2, <2>3, SetTraceOwn
    <2> QED
      BY <2>4, <2>5 DEF DataInv
  <1>9. ASSUME NEW c \in Ctx, NEW n \in Removable, RemoveTraceField(c, n) PROVE DataInv'
    <2>1. RemoveKey(n) \in Key
      BY DEF Key
    <2>2. /\ current[c] # None /\ UNCHANGED allVars
          /\ SetContext(c, RemoveKey(n), None)
          /\ tdata' = [tdata EXCEPT ![current[c]].fields[RemoveKey(n)] = None]
      BY <1>9 DEF RemoveTraceField
    <2>3. PICK w \in SUBSET Key : asked' = [asked EXCEPT ![current[c]] = w]
      <3>1. asked[current[c]] \in SUBSET Key
        BY <2>2, PathType, ElementOfSeq DEF MatchedInv, EventsInv, DataInv, TraceDataOK
      <3>2. PICK w : w = asked[current[c]] \ {AddKey(n)}
        OBVIOUS
      <3> QED
        BY <1>9, <3>1, <3>2 DEF RemoveTraceField
    <2>4. SpanDataOK' /\ SpanOwn'
      BY <2>1, <2>2, SetContextOwn
    <2>5. TraceDataOK' /\ TraceOwn'
      BY <2>1, <2>2, <2>3, SetTraceOwn
    <2> QED
      BY <2>4, <2>5 DEF DataInv
  <1>10. ASSUME NEW c \in Ctx, AddRollupField(c) PROVE DataInv'
    BY <1>10, AddRollupFieldOwn
  <1> QED
    BY <1>1, <1>2, <1>3, <1>4, <1>5, <1>6, <1>7, <1>8, <1>9, <1>10 DEF FieldsNext

\* The inductive invariant: the blocks are matched and the fields are their own.
LEMMA DataCorrect ==
  ASSUME ~Reuse, ~Generators
  PROVE  FieldsSpec => [](MatchedInv /\ DataInv)
  <1>1. FieldsInit => DataInv
    BY DataInit
  <1>2. MatchedInv /\ DataInv /\ [FieldsNext]_fieldVars => DataInv'
    BY DataStep
  <1> QED
    BY <1>1, <1>2, FieldsUseBlocks, MatchedCorrect, PTL DEF FieldsSpec

\* Whatever threads, traces, jobs and field names there are, an event has only
\* fields that were added in its own trace.
THEOREM OwnFieldsCorrect ==
  ASSUME ~Reuse, ~Generators
  PROVE  FieldsSpec => []OwnFields
  <1>1. MatchedInv /\ DataInv => OwnFields
    BY LenProperties DEF MatchedInv, EventsInv, HeapOK, DataInv, SpanOwn, OwnFields
  <1> QED
    BY <1>1, DataCorrect, PTL

\* A sequence whose elements are all in a smaller set.
LEMMA Retype ==
  ASSUME NEW S, NEW T, NEW q \in Seq(S), \A i \in 1..Len(q) : q[i] \in T
  PROVE  q \in Seq(T)
  OBVIOUS

\* The data always has the shape that FieldsTypeOK gives it: one record for each
\* Trace object and each span, and no value of a trace that was not begun.
THEOREM FieldsTypeCorrect ==
  ASSUME ~Reuse, ~Generators
  PROVE  FieldsSpec => []FieldsTypeOK
  <1> DEFINE V == CallerId \cup (0..Len(traces))
             T == [fields : [Key -> V], rollup : 0..MaxRollup, dataset : Dataset \cup {None}]
             S == [fields : [Key -> V], rollup : Nat, total : 0..MaxRollup, dataset : Dataset \cup {None}]
  <1>1. BlocksTypeOK /\ MatchedInv /\ DataInv => FieldsTypeOK
    <2> SUFFICES ASSUME BlocksTypeOK, MatchedInv, DataInv PROVE FieldsTypeOK
      OBVIOUS
    <2>1. /\ Len(traces) \in Nat /\ None \in V
          /\ \A t \in 1..Len(traces) : traces[t].id \in V
      BY TraceType, LenProperties DEF MatchedInv, EventsInv, HeapOK, None
    <2>2. \A s \in 1..Len(spans) : spans[s].trace \in V
      <3>1. \A s \in 1..Len(spans) : spans[s] \in SpanSet(Len(traces), Len(spans))
        BY ElementOfSeq DEF MatchedInv, EventsInv, HeapOK
      <3> QED
        BY <2>1, <3>1 DEF SpanSet
    <2>3. tdata \in Seq(T)
      <3>1. ASSUME NEW t \in 1..Len(tdata) PROVE tdata[t] \in T
        <4>1. tdata[t] \in TraceData
          BY ElementOfSeq DEF DataInv, TraceDataOK
        <4>2. \A k \in Key : tdata[t].fields[k] \in V
          BY <2>1 DEF DataInv, TraceDataOK, TraceOwn
        <4> HIDE DEF V
        <4> QED
          BY <4>1, <4>2 DEF TraceData
      <3> HIDE DEF T
      <3> QED
        BY <3>1, Retype DEF DataInv, TraceDataOK
    <2>4. sdata \in Seq(S)
      <3>1. ASSUME NEW s \in 1..Len(sdata) PROVE sdata[s] \in S
        <4>1. sdata[s] \in SpanData
          BY ElementOfSeq DEF DataInv, SpanDataOK
        <4>2. \A k \in Key : sdata[s].fields[k] \in V
          BY <2>1, <2>2 DEF DataInv, SpanDataOK, SpanOwn
        <4> HIDE DEF V
        <4> QED
          BY <4>1, <4>2 DEF SpanData
      <3> HIDE DEF S
      <3> QED
        BY <3>1, Retype DEF DataInv, SpanDataOK
    <2> QED
      BY <2>3, <2>4 DEF FieldsTypeOK, DataInv, TraceDataOK, SpanDataOK
  <1> QED
    BY <1>1, DataCorrect, FieldsUseBlocks, BlocksTypeCorrect, PTL


-----------------------------------------------------------------------------
(* What is sent is not written again *)

\* The job that may write to a span that was sent: it has no block of its own open,
\* and the span is the last of the stack that it took over.
JobOn(c, s) == blocks[c] = <<>> /\ base[c] # <<>> /\ Last(base[c]) = s

\* The active span of a context is the last of its open blocks, whose event is not out, or
\* the last of the stack that its job took over.
LEMMA ActiveUnsent ==
  ASSUME MatchedInv, NEW c \in Ctx, NEW s \in 1..Len(spans), ActiveSpan(c) = s, sent[s] > 0
  PROVE  JobOn(c, s)
  <1> USE DEF MatchedInv, EventsInv
  <1>1. s # None
    BY DEF None
  <1>2. Path(c) # <<>>
    BY <1>1 DEF ActiveSpan, Path
  <1>3. Last(Path(c)) = s /\ Path(c) = base[c] \o blocks[c]
    BY <1>2, PathEnd DEF BalancedInv
  <1>4. base[c] \in Seq(1..Len(spans)) /\ blocks[c] \in Seq(1..Len(spans))
    BY DEF ClientOK
  <1>5. blocks[c] = <<>>
    <2>1. SUFFICES ASSUME blocks[c] # <<>> PROVE FALSE
      OBVIOUS
    <2>2. Last(blocks[c]) = s
      BY <1>3, <1>4, <2>1, ConcatFront
    <2>3. Len(blocks[c]) \in Nat \ {0} /\ blocks[c][Len(blocks[c])] = s
      BY <1>4, <2>1, <2>2, SeqFront
    <2>4. Len(blocks[c]) \in 1..Len(blocks[c])
      BY <2>3
    <2>5. Holds(c, s)
      BY <2>3, <2>4 DEF Holds
    <2> QED
      BY <2>5 DEF EventsOK
  <1>6. base[c] \o <<>> = base[c]
    BY <1>4, ConcatEmptySeq
  <1> QED
    BY <1>2, <1>3, <1>5, <1>6 DEF JobOn

\* The block that is left is open until then, so its event is not out.
LEMMA ExitUnsent ==
  ASSUME MatchedInv, NEW c \in Ctx, blocks[c] # <<>>
  PROVE  Last(blocks[c]) \in 1..Len(spans) /\ sent[Last(blocks[c])] = 0
  <1>1. blocks[c] \in Seq(1..Len(spans))
    BY DEF MatchedInv, EventsInv, ClientOK
  <1>2. /\ Len(blocks[c]) \in Nat \ {0} /\ Last(blocks[c]) = blocks[c][Len(blocks[c])]
        /\ Last(blocks[c]) \in 1..Len(spans)
    BY <1>1, SeqFront
  <1>3. Len(blocks[c]) \in 1..Len(blocks[c])
    BY <1>2
  <1>4. Holds(c, Last(blocks[c]))
    BY <1>2, <1>3 DEF Holds
  <1> QED
    BY <1>2, <1>4 DEF MatchedInv, EventsInv, EventsOK

\* A call that writes to the active span writes to no other.
LEMMA ActiveWritten ==
  ASSUME MatchedInv, DataInv, NEW c \in Ctx, NEW s \in 1..Len(spans),
         NEW d, sdata' = [sdata EXCEPT ![ActiveSpan(c)] = d] \/ UNCHANGED sdata,
         sent[s] > 0, sdata'[s] # sdata[s]
  PROVE  JobOn(c, s)
  <1>1. s \in DOMAIN sdata
    BY LenProperties DEF DataInv, SpanDataOK
  <1>2. ActiveSpan(c) = s
    BY <1>1
  <1> QED
    BY <1>2, ActiveUnsent

\* Making an event changes no other.
LEMMA MadeKeeps ==
  ASSUME MatchedInv, DataInv, NEW c \in Ctx, NEW d, OpenData(c, d), NEW s \in 1..Len(spans)
  PROVE  sdata'[s] = sdata[s]
  <1>1. PICK e : sdata' = Append(sdata, e)
    BY DEF OpenData
  <1>2. sdata \in Seq(SpanData) /\ s \in 1..Len(sdata)
    BY DEF DataInv, SpanDataOK
  <1> QED
    BY <1>1, <1>2, LastAppended

\* Finishing an event changes no other.
LEMMA FinishedKeeps ==
  ASSUME MatchedInv, DataInv, NEW c \in Ctx, Exit(c), FinishData(c, Last(blocks[c])),
         NEW s \in 1..Len(spans), sent[s] > 0
  PROVE  sdata'[s] = sdata[s]
  <1>1. Last(blocks[c]) # s
    BY ExitUnsent DEF Exit
  <1>2. s \in DOMAIN sdata
    BY LenProperties DEF DataInv, SpanDataOK
  <1>3. PICK u : u = Last(blocks[c])
    OBVIOUS
  <1>4. FinishData(c, u) /\ u # s
    BY <1>1, <1>3
  <1> QED
    BY <1>2, <1>4 DEF FinishData

\* An event that is out is written by no step but that of a job with no block open.
LEMMA FrozenStep ==
  ASSUME MatchedInv, DataInv, [FieldsNext]_fieldVars, NEW s \in 1..Len(spans),
         sent[s] > 0, sdata'[s] # sdata[s]
  PROVE  \E c \in Ctx : JobOn(c, s)
  <1>1. ASSUME NEW c \in Ctx, FieldsEnter(c) \/ FieldsEnterTrace(c) PROVE FALSE
    BY <1>1, MadeKeeps DEF FieldsEnter, FieldsEnterTrace
  <1>2. ASSUME NEW c \in Ctx, FieldsExit(c) PROVE FALSE
    BY <1>2, FinishedKeeps DEF FieldsExit
  <1>3. ASSUME NEW c \in Ctx, FieldsDecorate(c) \/ FieldsJob(c) PROVE FALSE
    BY <1>3 DEF FieldsDecorate, FieldsJob, dataVars
  <1>4. ASSUME NEW c \in Ctx, NEW k, NEW v, SetContext(c, k, v) PROVE JobOn(c, s)
    <2>1. \E d : sdata' = [sdata EXCEPT ![ActiveSpan(c)] = d] \/ UNCHANGED sdata
      BY <1>4 DEF SetContext
    <2> QED
      BY <2>1, ActiveWritten
  <1>5. ASSUME NEW c \in Ctx, AddRollupField(c) PROVE JobOn(c, s)
    <2>1. \E d : sdata' = [sdata EXCEPT ![ActiveSpan(c)] = d] \/ UNCHANGED sdata
      BY <1>5 DEF AddRollupField
    <2> QED
      BY <2>1, ActiveWritten
  <1>6. ASSUME NEW c \in Ctx, NEW k \in Key, AddContextField(c, k) \/ RemoveContextField(c, k)
        PROVE  JobOn(c, s)
    BY <1>4, <1>6 DEF AddContextField, RemoveContextField
  <1>7. ASSUME NEW c \in Ctx, NEW n, AddTraceField(c, n) \/ RemoveTraceField(c, n)
        PROVE  JobOn(c, s)
    BY <1>4, <1>7 DEF AddTraceField, RemoveTraceField
  <1>8. ~ UNCHANGED fieldVars
    BY DEF fieldVars, dataVars
  <1> QED
    BY <1>1, <1>2, <1>3, <1>5, <1>6, <1>7, <1>8 DEF FieldsNext

\* Once an event is with the client no call of the matched client writes to it, in whatever
\* thread, but for those of a job that has opened no block.
THEOREM FrozenWhenSentCorrect ==
  ASSUME ~Reuse, ~Generators
  PROVE  FieldsSpec => FrozenWhenSent
  <1>1. MatchedInv /\ DataInv /\ [FieldsNext]_fieldVars =>
          [ \A s \in DOMAIN spans :
              sent[s] > 0 /\ sdata'[s] # sdata[s] =>
                \E c \in Ctx : blocks[c] = <<>> /\ base[c] # <<>> /\ Last(base[c]) = s ]_fieldVars
    <2> SUFFICES ASSUME MatchedInv, DataInv, [FieldsNext]_fieldVars, NEW s \in DOMAIN spans,
                        sent[s] > 0, sdata'[s] # sdata[s]
                 PROVE  \E c \in Ctx : blocks[c] = <<>> /\ base[c] # <<>> /\ Last(base[c]) = s
      OBVIOUS
    <2>1. s \in 1..Len(spans)
      BY LenProperties DEF MatchedInv, EventsInv, HeapOK
    <2> QED
      BY <2>1, FrozenStep DEF JobOn
  <1> QED
    BY <1>1, DataCorrect, PTL DEF FieldsSpec, FrozenWhenSent

-----------------------------------------------------------------------------
(* The trace fields that were asked for *)

\* A Trace has the fields that its code asked for, and only those, but for what the
\* removal of names with the prefix strikes and spares.
AskedKept == \A t \in 1..Len(traces) : asked[t] \ Keys(tdata[t].fields) \subseteq Struck
KeptAsked == \A t \in 1..Len(traces) : Keys(tdata[t].fields) \ asked[t] \subseteq Spared

\* A Trace object is made with the fields that are asked for in it.
LEMMA AskedMade ==
  ASSUME DataInv, NEW d \in TraceData, NEW w \in SUBSET Key,
         Len(traces) \in Nat, Len(traces') = Len(traces) + 1,
         tdata' = Append(tdata, d), asked' = Append(asked, w)
  PROVE  /\ AskedKept /\ w \ Keys(d.fields) \subseteq Struck => AskedKept'
         /\ KeptAsked /\ Keys(d.fields) \ w \subseteq Spared => KeptAsked'
  <1>1. /\ \A t \in 1..Len(traces) : tdata'[t] = tdata[t]
        /\ tdata'[Len(traces) + 1] = d
    BY SeqAppend DEF DataInv, TraceDataOK
  <1>2. /\ \A t \in 1..Len(traces) : asked'[t] = asked[t]
        /\ asked'[Len(traces) + 1] = w
    BY SeqAppend DEF DataInv, TraceDataOK
  <1>3. \A t \in 1..Len(traces') : t \in 1..Len(traces) \/ t = Len(traces) + 1
    OBVIOUS
  <1>4. ASSUME AskedKept, w \ Keys(d.fields) \subseteq Struck PROVE AskedKept'
    <2> SUFFICES ASSUME NEW t \in 1..Len(traces') PROVE asked'[t] \ Keys(tdata'[t].fields) \subseteq Struck
      BY DEF AskedKept, Keys
    <2> QED
      BY <1>1, <1>2, <1>3, <1>4 DEF AskedKept
  <1>5. ASSUME KeptAsked, Keys(d.fields) \ w \subseteq Spared PROVE KeptAsked'
    <2> SUFFICES ASSUME NEW t \in 1..Len(traces') PROVE Keys(tdata'[t].fields) \ asked'[t] \subseteq Spared
      BY DEF KeptAsked, Keys
    <2> QED
      BY <1>1, <1>2, <1>3, <1>5 DEF KeptAsked
  <1> QED
    BY <1>4, <1>5

\* The fields of one Trace object change, and what is asked for in it.
LEMMA AskedSet ==
  ASSUME DataInv, NEW t \in 1..Len(traces), NEW f \in [Key -> Value], NEW w \in SUBSET Key,
         tdata' = [tdata EXCEPT ![t].fields = f], asked' = [asked EXCEPT ![t] = w], UNCHANGED traces
  PROVE  /\ AskedKept /\ w \ Keys(f) \subseteq Struck => AskedKept'
         /\ KeptAsked /\ Keys(f) \ w \subseteq Spared => KeptAsked'
  <1>1. tdata[t] \in TraceData
    BY ElementOfSeq DEF DataInv, TraceDataOK
  <1>2. tdata'[t].fields = f /\ \A u \in 1..Len(traces) : u # t => tdata'[u] = tdata[u]
    <2>1. \A u \in 1..Len(traces) : u \in DOMAIN tdata
      BY LenProperties DEF DataInv, TraceDataOK
    <2>2. PICK d : d = [tdata[t] EXCEPT !.fields = f]
      OBVIOUS
    <2>3. d.fields = f
      BY <1>1, <2>2 DEF TraceData
    <2>4. tdata' = [tdata EXCEPT ![t] = d]
      BY <2>2
    <2> QED
      BY <2>1, <2>3, <2>4
  <1>3. asked'[t] = w /\ \A u \in 1..Len(traces) : u # t => asked'[u] = asked[u]
    <2>1. \A u \in 1..Len(traces) : u \in DOMAIN asked
      BY LenProperties DEF DataInv, TraceDataOK
    <2> QED
      BY <2>1
  <1>4. ASSUME AskedKept, w \ Keys(f) \subseteq Struck PROVE AskedKept'
    <2> SUFFICES ASSUME NEW u \in 1..Len(traces) PROVE asked'[u] \ Keys(tdata'[u].fields) \subseteq Struck
      BY DEF AskedKept, Keys
    <2> QED
      BY <1>2, <1>3, <1>4 DEF AskedKept
  <1>5. ASSUME KeptAsked, Keys(f) \ w \subseteq Spared PROVE KeptAsked'
    <2> SUFFICES ASSUME NEW u \in 1..Len(traces) PROVE Keys(tdata'[u].fields) \ asked'[u] \subseteq Spared
      BY DEF KeptAsked, Keys
    <2> QED
      BY <1>2, <1>3, <1>5 DEF KeptAsked
  <1> QED
    BY <1>4, <1>5

\* The keys of a record of fields where one of them is set.
LEMMA KeysSet ==
  ASSUME NEW f \in [Key -> Value], NEW k \in Key, NEW v, NEW g, g = [f EXCEPT ![k] = v]
  PROVE  Keys(g) = IF v = None THEN Keys(f) \ {k} ELSE Keys(f) \cup {k}
  <1>1. \A j \in Key : g[j] = IF j = k THEN v ELSE f[j]
    OBVIOUS
  <1> QED
    BY <1>1 DEF Keys

\* A new block's Trace is the current one, or a fresh one without fields.
LEMMA EnterAsked ==
  ASSUME MatchedInv, DataInv, NEW c \in Ctx, NEW d \in Dataset \cup {None},
         Enter(c) \/ EnterTrace(c), OpenData(c, d)
  PROVE  (AskedKept => AskedKept') /\ (KeptAsked => KeptAsked')
  <1>1. IdsKept
    BY EnterMakes
  <1>2. DOMAIN traces' = 1..Len(traces')
    <2>1. [BlocksNext]_allVars
      BY DEF BlocksNext
    <2> QED
      BY <2>1, EventsInvStep, LenProperties DEF MatchedInv, EventsInv, HeapOK
  <1>3. CASE Len(traces') = Len(traces)
    <2>1. UNCHANGED <<tdata, asked>>
      BY <1>1, <1>2, <1>3 DEF OpenData, NewTrace, IdsKept
    <2> QED
      BY <1>3, <2>1 DEF AskedKept, KeptAsked
  <1>4. CASE Len(traces') = Len(traces) + 1
    <2>1. tdata' = Append(tdata, FreshTrace(c, d)) /\ asked' = Append(asked, {})
      BY <1>1, <1>2, <1>4 DEF OpenData, NewTrace, IdsKept
    <2>2. PICK f : f = FreshTrace(c, d)
      OBVIOUS
    <2>3. f \in TraceData /\ Keys(f.fields) = {}
      BY <2>2, FreshTraceData DEF Keys
    <2>4. tdata' = Append(tdata, f)
      BY <2>1, <2>2
    <2> QED
      BY <1>1, <1>4, <2>1, <2>3, <2>4, AskedMade DEF IdsKept
  <1> QED
    BY <1>1, <1>3, <1>4 DEF IdsKept

\* A copy is asked for what its original is asked for, and has its fields.
LEMMA DecorateAsked ==
  ASSUME MatchedInv, DataInv, NEW c \in Ctx, FieldsDecorate(c)
  PROVE  (AskedKept => AskedKept') /\ (KeptAsked => KeptAsked')
  <1>1. current[c] \in 1..Len(traces) /\ \E t : traces' = Append(traces, t)
    BY PathType DEF MatchedInv, EventsInv, FieldsDecorate, Decorate, TracedThread
  <1>2. Len(traces) \in Nat /\ Len(traces') = Len(traces) + 1
    BY <1>1, TraceAppended DEF MatchedInv, EventsInv
  <1>3. PICK d : d = [fields |-> tdata[current[c]].fields, rollup |-> 0, dataset |-> None]
    OBVIOUS
  <1>4. PICK w : w = asked[current[c]]
    OBVIOUS
  <1>5. tdata[current[c]] \in TraceData /\ w \in SUBSET Key
    BY <1>1, <1>4, ElementOfSeq DEF DataInv, TraceDataOK
  <1>6. d \in TraceData /\ d.fields = tdata[current[c]].fields
    BY <1>3, <1>5, FieldsAssumption DEF TraceData
  <1>7. tdata' = Append(tdata, d) /\ asked' = Append(asked, w)
    BY <1>3, <1>4 DEF FieldsDecorate
  <1>8. (AskedKept => w \ Keys(d.fields) \subseteq Struck) /\ (KeptAsked => Keys(d.fields) \ w \subseteq Spared)
    BY <1>1, <1>4, <1>6 DEF AskedKept, KeptAsked
  <1> QED
    BY <1>2, <1>5, <1>6, <1>7, <1>8, AskedMade

\* add_trace_field puts what it asks for into the Trace.
LEMMA AddTraceFieldAsked ==
  ASSUME MatchedInv, DataInv, NEW c \in Ctx, NEW n \in Name, AddTraceField(c, n)
  PROVE  (AskedKept => AskedKept') /\ (KeptAsked => KeptAsked')
  <1>1. PICK t \in 1..Len(traces) : t = current[c]
    BY PathType DEF MatchedInv, EventsInv, AddTraceField
  <1>2. tdata[t] \in TraceData /\ asked[t] \in SUBSET Key
    BY <1>1, ElementOfSeq DEF DataInv, TraceDataOK
  <1>3. traces[t].id \in Value /\ traces[t].id # None
    <2>1. traces[t].id \in CallerId \cup (1..Len(traces)) /\ Len(traces) \in Nat
      BY TraceType, LenProperties DEF MatchedInv, EventsInv, HeapOK
    <2> QED
      BY <2>1, TracerAssumption DEF Value, None
  <1>4. PICK k \in Key : k = AddKey(n)
    BY DEF Key
  <1>5. PICK f : f = [tdata[t].fields EXCEPT ![k] = traces[t].id]
    OBVIOUS
  <1>6. f \in [Key -> Value] /\ Keys(f) = Keys(tdata[t].fields) \cup {k}
    <2>1. tdata[t].fields \in [Key -> Value]
      BY <1>2 DEF TraceData
    <2>2. Keys(f) = IF traces[t].id = None THEN Keys(tdata[t].fields) \ {k} ELSE Keys(tdata[t].fields) \cup {k}
      BY <1>5, <2>1, KeysSet
    <2> QED
      BY <1>3, <1>5, <2>1, <2>2
  <1>7. PICK w \in SUBSET Key : w = asked[t] \cup {k}
    BY <1>2
  <1>8. /\ tdata' = [tdata EXCEPT ![t].fields = f] /\ asked' = [asked EXCEPT ![t] = w]
        /\ UNCHANGED traces
    BY <1>1, <1>4, <1>5, <1>7 DEF AddTraceField, allVars, vars
  <1>9. (AskedKept => w \ Keys(f) \subseteq Struck) /\ (KeptAsked => Keys(f) \ w \subseteq Spared)
    BY <1>4, <1>6, <1>7 DEF AskedKept, KeptAsked
  <1> QED
    BY <1>6, <1>8, <1>9, AskedSet

\* remove_trace_field takes out of the Trace what is no longer asked for; under a name
\* with the prefix it spares that, and strikes what has the prefix once more.
LEMMA RemoveTraceFieldAsked ==
  ASSUME MatchedInv, DataInv, NEW c \in Ctx, NEW n \in Removable, RemoveTraceField(c, n)
  PROVE  (AskedKept => AskedKept') /\ (KeptAsked => KeptAsked')
  <1>1. PICK t \in 1..Len(traces) : t = current[c]
    BY PathType DEF MatchedInv, EventsInv, RemoveTraceField
  <1>2. tdata[t] \in TraceData /\ asked[t] \in SUBSET Key
    BY <1>1, ElementOfSeq DEF DataInv, TraceDataOK
  <1>3. PICK k \in Key : k = RemoveKey(n)
    BY DEF Key
  <1>4. PICK a : a = AddKey(n)
    OBVIOUS
  <1>5. a = k \/ (k \in Struck /\ a \in Spared)
    <2>1. n \in Nat
      BY FieldsAssumption
    <2>2. CASE n = 0
      BY <1>3, <1>4, <2>2 DEF AddKey, RemoveKey
    <2>3. CASE n # 0
      BY <1>3, <1>4, <2>1, <2>3 DEF AddKey, Struck, Spared
    <2> QED
      BY <2>2, <2>3
  <1>6. PICK f : f = [tdata[t].fields EXCEPT ![k] = None]
    OBVIOUS
  <1>7. f \in [Key -> Value] /\ Keys(f) = Keys(tdata[t].fields) \ {k}
    <2>1. tdata[t].fields \in [Key -> Value] /\ None \in Value
      BY <1>2, IdsAreValues DEF TraceData, MatchedInv, EventsInv
    <2> QED
      BY <1>6, <2>1, KeysSet
  <1>8. PICK w \in SUBSET Key : w = asked[t] \ {a}
    BY <1>2
  <1>9. /\ tdata' = [tdata EXCEPT ![t].fields = f] /\ asked' = [asked EXCEPT ![t] = w]
        /\ UNCHANGED traces
    BY <1>1, <1>3, <1>4, <1>6, <1>8 DEF RemoveTraceField, allVars, vars
  <1>10. ASSUME AskedKept PROVE w \ Keys(f) \subseteq Struck
    <2>1. asked[t] \ Keys(tdata[t].fields) \subseteq Struck
      BY <1>10 DEF AskedKept
    <2> QED
      BY <1>5, <1>7, <1>8, <2>1
  <1>11. ASSUME KeptAsked PROVE Keys(f) \ w \subseteq Spared
    <2>1. Keys(tdata[t].fields) \ asked[t] \subseteq Spared
      BY <1>11 DEF KeptAsked
    <2> QED
      BY <1>5, <1>7, <1>8, <2>1
  <1> QED
    BY <1>7, <1>9, <1>10, <1>11, AskedSet

\* A rollup moves no field.
LEMMA RollupAsked ==
  ASSUME MatchedInv, DataInv, NEW c \in Ctx, AddRollupField(c)
  PROVE  (AskedKept => AskedKept') /\ (KeptAsked => KeptAsked')
  <1>1. PICK t \in 1..Len(traces) : t = current[c]
    BY PathType DEF MatchedInv, EventsInv, AddRollupField
  <1>2. tdata[t] \in TraceData /\ asked[t] \in SUBSET Key
    BY <1>1, ElementOfSeq DEF DataInv, TraceDataOK
  <1>3. PICK d : d = [tdata[t] EXCEPT !.rollup = @ + 1]
    OBVIOUS
  <1>4. d.fields = tdata[t].fields
    BY <1>2, <1>3 DEF TraceData
  <1>5. tdata' = [tdata EXCEPT ![t] = d]
    BY <1>1, <1>3 DEF AddRollupField
  <1>6. \A u \in 1..Len(traces) : tdata'[u].fields = tdata[u].fields
    <2>1. \A u \in 1..Len(traces) : u \in DOMAIN tdata
      BY LenProperties DEF DataInv, TraceDataOK
    <2> QED
      BY <1>4, <1>5, <2>1
  <1>7. UNCHANGED <<traces, asked>>
    BY DEF AddRollupField, allVars, vars
  <1> QED
    BY <1>6, <1>7 DEF AskedKept, KeptAsked

\* Every step keeps both.
LEMMA AskedStep ==
  ASSUME MatchedInv, DataInv, [FieldsNext]_fieldVars
  PROVE  (AskedKept => AskedKept') /\ (KeptAsked => KeptAsked')
  <1>1. ASSUME UNCHANGED <<traces, tdata, asked>>
        PROVE  (AskedKept => AskedKept') /\ (KeptAsked => KeptAsked')
    BY <1>1 DEF AskedKept, KeptAsked
  <1>2. CASE UNCHANGED fieldVars
    BY <1>1, <1>2 DEF fieldVars, allVars, vars, dataVars
  <1>3. ASSUME NEW c \in Ctx, FieldsEnter(c)
        PROVE  (AskedKept => AskedKept') /\ (KeptAsked => KeptAsked')
    BY <1>3, EnterAsked DEF FieldsEnter
  <1>4. ASSUME NEW c \in Ctx, FieldsEnterTrace(c)
        PROVE  (AskedKept => AskedKept') /\ (KeptAsked => KeptAsked')
    BY <1>4, EnterAsked DEF FieldsEnterTrace
  <1>5. ASSUME NEW c \in Ctx, FieldsExit(c)
        PROVE  (AskedKept => AskedKept') /\ (KeptAsked => KeptAsked')
    <2>1. DOMAIN traces' = 1..Len(traces) /\ Len(traces') = Len(traces)
      <3>1. Len(traces') = Len(traces)
        BY <1>5, ExitKeeps DEF FieldsExit
      <3>2. [BlocksNext]_allVars
        BY <1>5 DEF FieldsExit, BlocksNext
      <3> QED
        BY <3>1, <3>2, EventsInvStep, LenProperties DEF MatchedInv, EventsInv, HeapOK
    <2> QED
      BY <1>5, <2>1 DEF FieldsExit, AskedKept, KeptAsked
  <1>6. ASSUME NEW c \in Ctx, FieldsDecorate(c)
        PROVE  (AskedKept => AskedKept') /\ (KeptAsked => KeptAsked')
    BY <1>6, DecorateAsked
  <1>7. ASSUME NEW c \in Ctx, FieldsJob(c)
        PROVE  (AskedKept => AskedKept') /\ (KeptAsked => KeptAsked')
    BY <1>1, <1>7 DEF FieldsJob, RunJob, EndJob, RunDecorated, dataVars, vars
  <1>8. ASSUME NEW c \in Ctx, NEW k \in Key, AddContextField(c, k) \/ RemoveContextField(c, k)
        PROVE  (AskedKept => AskedKept') /\ (KeptAsked => KeptAsked')
    BY <1>1, <1>8 DEF AddContextField, RemoveContextField, allVars, vars
  <1>9. ASSUME NEW c \in Ctx, NEW n \in Name, AddTraceField(c, n)
        PROVE  (AskedKept => AskedKept') /\ (KeptAsked => KeptAsked')
    BY <1>9, AddTraceFieldAsked
  <1>10. ASSUME NEW c \in Ctx, NEW n \in Removable, RemoveTraceField(c, n)
        PROVE  (AskedKept => AskedKept') /\ (KeptAsked => KeptAsked')
    BY <1>10, RemoveTraceFieldAsked
  <1>11. ASSUME NEW c \in Ctx, AddRollupField(c)
        PROVE  (AskedKept => AskedKept') /\ (KeptAsked => KeptAsked')
    BY <1>11, RollupAsked
  <1> QED
    BY <1>2, <1>3, <1>4, <1>5, <1>6, <1>7, <1>8, <1>9, <1>10, <1>11 DEF FieldsNext

\* Nothing is asked for before the first call.
LEMMA AskedInit == FieldsInit => AskedKept /\ KeptAsked
  <1>1. FieldsInit => Len(traces) = 0
    BY DEF FieldsInit, BlocksInit, Init
  <1> QED
    BY <1>1 DEF AskedKept, KeptAsked

\* A context has one more block open after it enters one, and one less after it leaves one.
LEMMA BlockSizes ==
  ASSUME MatchedInv, ~Generators, [FieldsNext]_fieldVars, NEW c \in Ctx
  PROVE  /\ Len(blocks'[c]) > Len(blocks[c]) => FieldsEnter(c) \/ FieldsEnterTrace(c)
         /\ Len(blocks'[c]) < Len(blocks[c]) => FieldsExit(c)
  <1>1. /\ blocks \in [Ctx -> Seq(1..Len(spans))] /\ blocks[c] \in Seq(1..Len(spans))
        /\ Len(blocks[c]) \in Nat
    BY LenProperties DEF MatchedInv, EventsInv, ClientOK
  <1>2. ASSUME UNCHANGED allVars PROVE Len(blocks'[c]) = Len(blocks[c])
    BY <1>2 DEF allVars, clientVars
  <1>3. ASSUME NEW d \in Ctx, FieldsEnter(d)
        PROVE  IF d = c THEN FieldsEnter(c) /\ Len(blocks'[c]) > Len(blocks[c])
               ELSE Len(blocks'[c]) = Len(blocks[c])
    <2>1. blocks' = [blocks EXCEPT ![d] = Append(blocks[d], NewSpan)]
      BY <1>3 DEF FieldsEnter, Enter
    <2>2. Len(Append(blocks[c], NewSpan)) = Len(blocks[c]) + 1
      BY <1>1, LastAppended
    <2> QED
      BY <1>1, <1>3, <2>1, <2>2
  <1>4. ASSUME NEW d \in Ctx, FieldsEnterTrace(d)
        PROVE  IF d = c THEN FieldsEnterTrace(c) /\ Len(blocks'[c]) > Len(blocks[c])
               ELSE Len(blocks'[c]) = Len(blocks[c])
    <2>1. blocks[d] = <<>> /\ blocks' = [blocks EXCEPT ![d] = <<NewSpan>>]
      BY <1>4 DEF FieldsEnterTrace, EnterTrace
    <2>2. Len(<<>>) = 0 /\ Len(<<NewSpan>>) = 1
      OBVIOUS
    <2> QED
      BY <1>1, <1>4, <2>1, <2>2
  <1>5. ASSUME NEW d \in Ctx, FieldsExit(d)
        PROVE  IF d = c THEN FieldsExit(c) /\ Len(blocks'[c]) < Len(blocks[c])
               ELSE Len(blocks'[c]) = Len(blocks[c])
    <2>1. blocks[d] # <<>> /\ blocks' = [blocks EXCEPT ![d] = Front(blocks[d])]
      BY <1>5 DEF FieldsExit, Exit
    <2>2. d = c => Len(Front(blocks[c])) = Len(blocks[c]) - 1
      BY <1>1, <2>1, SeqFront
    <2> QED
      BY <1>1, <1>5, <2>1, <2>2
  <1>6. ASSUME NEW d \in Ctx, FieldsDecorate(d) \/ FieldsJob(d)
        PROVE  Len(blocks'[c]) = Len(blocks[c])
    BY <1>6 DEF FieldsDecorate, Decorate, clientVars, FieldsJob, RunJob, EndJob
  <1>7. ASSUME NEW d \in Ctx, NEW k \in Key, AddContextField(d, k) \/ RemoveContextField(d, k)
        PROVE  UNCHANGED allVars
    BY <1>7 DEF AddContextField, RemoveContextField
  <1>8. ASSUME NEW d \in Ctx, NEW n, AddTraceField(d, n) \/ RemoveTraceField(d, n)
        PROVE  UNCHANGED allVars
    BY <1>8 DEF AddTraceField, RemoveTraceField
  <1>9. ASSUME NEW d \in Ctx, AddRollupField(d)
        PROVE  UNCHANGED allVars
    BY <1>9 DEF AddRollupField
  <1>10. CASE UNCHANGED allVars
    BY <1>1, <1>2, <1>10
  <1>11. CASE \E d \in Ctx : FieldsEnter(d) \/ FieldsEnterTrace(d)
    BY <1>1, <1>3, <1>4, <1>11
  <1>12. CASE \E d \in Ctx : FieldsExit(d)
    BY <1>1, <1>5, <1>12
  <1>13. CASE \E d \in Ctx : FieldsDecorate(d) \/ FieldsJob(d)
    BY <1>1, <1>6, <1>13
  <1> QED
    BY <1>7, <1>8, <1>9, <1>10, <1>11, <1>12, <1>13 DEF FieldsNext, fieldVars

\* The event of the block that is left gets the fields of its Trace that it has not.
LEMMA FinishedFields ==
  ASSUME MatchedInv, DataInv, NEW c \in Ctx, NEW s, s = Last(blocks[c]), FieldsExit(c)
  PROVE  /\ current[c] \in 1..Len(traces)
         /\ \A k \in Key : tdata[current[c]].fields[k] # None => sdata'[s].fields[k] # None
  <1>1. current[c] # None
    <2>1. Closes(c)
      BY ExitCloses DEF FieldsExit
    <2>2. base[c] \o blocks[c] # <<>>
      <3>1. base[c] \in Seq(1..Len(spans)) /\ blocks[c] \in Seq(1..Len(spans)) /\ blocks[c] # <<>>
        BY DEF FieldsExit, Exit, MatchedInv, EventsInv, ClientOK
      <3> QED
        BY <3>1, ConcatFront
    <2> QED
      BY <2>2 DEF MatchedInv, BalancedInv, Path
  <1>2. PICK t \in 1..Len(traces) : t = current[c]
    BY <1>1, PathType DEF MatchedInv, EventsInv
  <1>3. PICK d \in SpanData : sdata' = [sdata EXCEPT ![s] = d] /\ Completed(d, s, t)
    BY <1>1, <1>2, FinishedRecord DEF FieldsExit
  <1>4. sdata'[s] = d
    BY <1>3, ExitUnsent, LenProperties DEF FieldsExit, Exit, DataInv, SpanDataOK
  <1>5. \A k \in Key : tdata[t].fields[k] # None => d.fields[k] # None
    BY <1>3 DEF Completed
  <1> QED
    BY <1>2, <1>4, <1>5

\* Whatever names there are, a span begins with the trace fields that its thread, or the
\* one that handed the trace over, added before and did not remove; what it has besides
\* or instead is due to the removal of names with the prefix.
THEOREM NewSpansCarryAskedCorrect ==
  ASSUME ~Reuse, ~Generators
  PROVE  FieldsSpec => NewSpansCarryAsked
  <1>2. ASSUME MatchedInv, DataInv, AskedKept, KeptAsked, [FieldsNext]_fieldVars
        PROVE  AskedKept' /\ KeptAsked'
    BY <1>2, AskedStep
  <1>3. MatchedInv /\ DataInv /\ AskedKept' /\ KeptAsked' /\ [FieldsNext]_fieldVars =>
          [ \A c \in Ctx :
              Len(blocks'[c]) > Len(blocks[c]) =>
                LET carried == Keys(Last(sdata').fields) IN
                /\ asked'[current'[c]] \ carried \subseteq Struck
                /\ carried \ asked'[current'[c]] \subseteq Spared ]_fieldVars
    <2> SUFFICES ASSUME MatchedInv, DataInv, AskedKept', KeptAsked', [FieldsNext]_fieldVars,
                        NEW c \in Ctx, Len(blocks'[c]) > Len(blocks[c])
                 PROVE  /\ asked'[current'[c]] \ Keys(Last(sdata').fields) \subseteq Struck
                        /\ Keys(Last(sdata').fields) \ asked'[current'[c]] \subseteq Spared
      OBVIOUS
    <2>1. PICK d : (Enter(c) \/ EnterTrace(c)) /\ OpenData(c, d)
      BY BlockSizes DEF FieldsEnter, FieldsEnterTrace
    <2>2. current'[c] \in 1..Len(traces')
      BY <2>1, EnterMakes
    <2>3. PICK e : e = [fields |-> tdata'[current'[c]].fields, rollup |-> 0, total |-> 0, dataset |-> None]
      OBVIOUS
    <2>4. sdata' = Append(sdata, e) /\ sdata \in Seq(SpanData)
      BY <2>1, <2>3 DEF OpenData, DataInv, SpanDataOK
    <2>5. Last(Append(sdata, e)) = e
      BY <2>4, LastAppended
    <2>6. Last(sdata').fields = tdata'[current'[c]].fields
      BY <2>3, <2>4, <2>5
    <2> QED
      BY <2>2, <2>6 DEF AskedKept, KeptAsked, Keys
  <1> QED
    BY <1>2, <1>3, AskedInit, DataCorrect, PTL DEF FieldsSpec, NewSpansCarryAsked

\* When an event is finished it has every trace field that its thread added while it was
\* open and did not remove, but for those struck by the removal of a name with the prefix.
THEOREM OpenSpansGetAskedCorrect ==
  ASSUME ~Reuse, ~Generators
  PROVE  FieldsSpec => OpenSpansGetAsked
  <1>1. ASSUME MatchedInv, DataInv, AskedKept, [FieldsNext]_fieldVars
        PROVE  AskedKept'
    BY <1>1, AskedStep
  <1>2. MatchedInv /\ DataInv /\ AskedKept /\ [FieldsNext]_fieldVars =>
          [ \A c \in Ctx :
              Len(blocks'[c]) < Len(blocks[c]) =>
                asked[current[c]] \ Keys(sdata'[Last(blocks[c])].fields) \subseteq Struck ]_fieldVars
    <2> SUFFICES ASSUME MatchedInv, DataInv, AskedKept, [FieldsNext]_fieldVars,
                        NEW c \in Ctx, Len(blocks'[c]) < Len(blocks[c])
                 PROVE  asked[current[c]] \ Keys(sdata'[Last(blocks[c])].fields) \subseteq Struck
      OBVIOUS
    <2>1. PICK s : s = Last(blocks[c])
      OBVIOUS
    <2>2. FieldsExit(c)
      BY BlockSizes
    <2>3. /\ current[c] \in 1..Len(traces)
          /\ \A k \in Key : tdata[current[c]].fields[k] # None => sdata'[s].fields[k] # None
      BY <2>1, <2>2, FinishedFields
    <2>4. Keys(tdata[current[c]].fields) \subseteq Keys(sdata'[s].fields)
      BY <2>3 DEF Keys
    <2> QED
      BY <2>1, <2>3, <2>4 DEF AskedKept
  <1> QED
    BY <1>1, <1>2, AskedInit, DataCorrect, PTL DEF FieldsSpec, OpenSpansGetAsked

-----------------------------------------------------------------------------
(* Sums.  What a recursive function computes is proved by its least counterexample: the  *)
(* set of the sizes of the sets for which a claim fails has no smallest element.            *)

\* A set of numbers that is not empty has a smallest one.
LEMMA Smallest ==
  ASSUME NEW B \in SUBSET Nat, B # {}
  PROVE  \E n \in B : \A m \in B : n <= m
  <1>1. PICK R : R = OpToRel(<, Nat)
    OBVIOUS
  <1>2. IsWellFoundedOn(R, Nat)
    BY <1>1, NatLessThanWellFounded
  <1>3. PICK n \in B : \A m \in B : ~ (<<m, n>> \in R)
    BY <1>2, WFMin
  <1>4. \A i, j \in Nat : i < j => <<i, j>> \in R
    BY <1>1 DEF OpToRel
  <1>5. ASSUME NEW m \in B PROVE ~ (m < n)
    BY <1>3, <1>4
  <1> QED
    BY <1>5

\* The element that a fold takes next.
Taken(T) == CHOOSE x \in T : TRUE

\* The sum of f over a set of places, and the function that MapThenFoldSet computes it with.
Sum(f, S) == FoldFunctionOnSet(+, 0, f, S)

Adds(f, S, g) == g = [T \in SUBSET S |-> IF T = {} THEN 0 ELSE f[Taken(T)] + g[T \ {Taken(T)}]]

\* The library's definition, for sums.
LEMMA SumIs ==
  ASSUME NEW f, NEW S
  PROVE  Sum(f, S) = (CHOOSE g : Adds(f, S, g))[S]
  BY DEF Sum, FoldFunctionOnSet, MapThenFoldSet, Adds, Taken

\* What is taken next is in the set.
LEMMA NextIn ==
  ASSUME NEW T, T # {}
  PROVE  Taken(T) \in T
  BY DEF Taken

\* The subsets of at most n elements, and a function that adds over them.
Small(S, n) == {T \in SUBSET S : Cardinality(T) <= n}

AddsSmall(f, S, n, g) ==
  /\ g \in [Small(S, n) -> Nat]
  /\ \A T \in Small(S, n) : g[T] = IF T = {} THEN 0 ELSE f[Taken(T)] + g[T \ {Taken(T)}]

\* An element taken out of a finite set.
LEMMA OneLess ==
  ASSUME NEW S, IsFiniteSet(S), NEW T \in SUBSET S, NEW x \in T
  PROVE  /\ IsFiniteSet(T) /\ Cardinality(T) \in Nat \ {0}
         /\ T \ {x} \in SUBSET S /\ Cardinality(T \ {x}) = Cardinality(T) - 1
         /\ Cardinality(T \ {x}) \in Nat
  <1>1. IsFiniteSet(T)
    BY FS_Subset
  <1>2. Cardinality(T) \in Nat /\ Cardinality(T) # 0
    BY <1>1, FS_CardinalityType, FS_EmptySet
  <1>3. Cardinality(T \ {x}) = Cardinality(T) - 1
    BY <1>1, FS_RemoveElement
  <1> QED
    BY <1>1, <1>2, <1>3

\* There is a function that adds over the subsets of at most n elements, for every n: at
\* the smallest n without one it could be made from that for n - 1.
LEMMA AddsSmallExists ==
  ASSUME NEW S, IsFiniteSet(S), NEW f, \A x \in S : f[x] \in Nat, NEW k \in Nat
  PROVE  \E g : AddsSmall(f, S, k, g)
  <1> DEFINE B == {n \in Nat : ~ \E g : AddsSmall(f, S, n, g)}
  <1>1. SUFFICES ASSUME B # {} PROVE FALSE
    OBVIOUS
  <1>2. PICK n \in B : \A m \in B : n <= m
    BY <1>1, Smallest
  <1>3. \A T \in SUBSET S : Cardinality(T) = 0 => T = {}
    BY FS_Subset, FS_EmptySet
  <1>4. CASE n = 0
    <2>1. PICK g : g = [T \in Small(S, 0) |-> 0]
      OBVIOUS
    <2>2. \A T \in Small(S, 0) : T = {}
      <3>1. \A T \in SUBSET S : Cardinality(T) \in Nat
        BY FS_Subset, FS_CardinalityType
      <3> QED
        BY <1>3, <3>1 DEF Small
    <2>3. AddsSmall(f, S, 0, g)
      BY <2>1, <2>2 DEF AddsSmall
    <2> QED
      BY <1>2, <1>4, <2>3
  <1>5. CASE n # 0
    <2>1. n - 1 \in Nat /\ n \in Nat /\ n - 1 \notin B
      BY <1>2, <1>5
    <2>2. PICK g : AddsSmall(f, S, n - 1, g)
      BY <2>1
    <2>3. PICK h : h = [T \in Small(S, n) |-> IF T = {} THEN 0 ELSE f[Taken(T)] + g[T \ {Taken(T)}]]
      OBVIOUS
    <2>4. ASSUME NEW T \in Small(S, n), T # {}
          PROVE  Taken(T) \in S /\ T \ {Taken(T)} \in Small(S, n - 1) /\ T \ {Taken(T)} \in Small(S, n)
      <3>1. Taken(T) \in T /\ T \in SUBSET S /\ Cardinality(T) <= n
        BY <2>4, NextIn DEF Small
      <3>2. PICK x \in T : x = Taken(T)
        BY <3>1
      <3>3. T \ {x} \in SUBSET S /\ Cardinality(T \ {x}) = Cardinality(T) - 1 /\ Cardinality(T) \in Nat
        BY <3>1, OneLess
      <3>4. Cardinality(T \ {x}) <= n - 1 /\ Cardinality(T \ {x}) <= n
        BY <2>1, <3>1, <3>3
      <3> QED
        BY <3>1, <3>2, <3>3, <3>4 DEF Small
    <2>5. \A T \in Small(S, n - 1) : T \in Small(S, n)
      BY <2>1, FS_Subset, FS_CardinalityType DEF Small
    <2>6. \A T \in Small(S, n - 1) : h[T] = g[T]
      BY <2>2, <2>3, <2>5 DEF AddsSmall
    <2>7. h \in [Small(S, n) -> Nat]
      <3>1. ASSUME NEW T \in Small(S, n), T # {} PROVE f[Taken(T)] + g[T \ {Taken(T)}] \in Nat
        BY <2>2, <2>4, <3>1 DEF AddsSmall
      <3> QED
        BY <2>3, <3>1
    <2>8. AddsSmall(f, S, n, h)
      BY <2>3, <2>4, <2>6, <2>7 DEF AddsSmall
    <2> QED
      BY <1>2, <2>8
  <1> QED
    BY <1>4, <1>5

\* The function that the library's definition chooses adds, and what it gives is a number.
LEMMA SumAdds ==
  ASSUME NEW S, IsFiniteSet(S), NEW f, \A x \in S : f[x] \in Nat
  PROVE  \E g : /\ Adds(f, S, g) /\ g \in [SUBSET S -> Nat]
               /\ Sum(f, S) = g[S]
  <1> DEFINE G == CHOOSE g : Adds(f, S, g)
             B == {n \in Nat : \E T \in SUBSET S : Cardinality(T) = n /\ G[T] \notin Nat}
  <1>1. PICK k \in Nat : k = Cardinality(S)
    BY FS_CardinalityType
  <1>2. Small(S, k) = SUBSET S
    BY <1>1, FS_Subset DEF Small
  <1>3. PICK h : AddsSmall(f, S, k, h)
    BY AddsSmallExists
  <1>4. Adds(f, S, h)
    BY <1>2, <1>3 DEF AddsSmall, Adds
  <1>5. Adds(f, S, G)
    BY <1>4
  <1>6. PICK g : g = G
    OBVIOUS
  <1>7. Adds(f, S, g) /\ Sum(f, S) = g[S]
    BY <1>5, <1>6, SumIs
  <1>8. \A T \in SUBSET S : g[T] = IF T = {} THEN 0 ELSE f[Taken(T)] + g[T \ {Taken(T)}]
    BY <1>7 DEF Adds
  <1>9. B = {}
    <2> SUFFICES ASSUME B # {} PROVE FALSE
      OBVIOUS
    <2>1. PICK n \in B : \A m \in B : n <= m
      BY Smallest
    <2>2. PICK T \in SUBSET S : Cardinality(T) = n /\ g[T] \notin Nat
      BY <1>6, <2>1
    <2>3. T # {} /\ g[T] = f[Taken(T)] + g[T \ {Taken(T)}]
      BY <1>8, <2>2
    <2>4. PICK x \in T : x = Taken(T)
      BY <2>3, NextIn
    <2>5. /\ T \ {x} \in SUBSET S /\ Cardinality(T \ {x}) = n - 1 /\ Cardinality(T \ {x}) \in Nat
          /\ n \in Nat
      BY <2>2, OneLess
    <2>6. g[T \ {x}] \in Nat
      <3>1. n - 1 \notin B
        BY <2>1, <2>5
      <3> QED
        BY <1>6, <2>5, <3>1
    <2>7. f[x] \in Nat
      OBVIOUS
    <2> HIDE DEF B, G
    <2> QED
      BY <2>2, <2>3, <2>4, <2>6, <2>7
  <1>10. ASSUME NEW T \in SUBSET S PROVE g[T] \in Nat
    <2>1. Cardinality(T) \in Nat
      BY FS_Subset, FS_CardinalityType
    <2> QED
      BY <1>6, <1>9, <2>1
  <1>11. g \in [SUBSET S -> Nat]
    BY <1>7, <1>10 DEF Adds
  <1> HIDE DEF B, G
  <1> QED
    BY <1>7, <1>11

\* Two functions that add give the same for a set on which what they add is the same.
LEMMA AddsSame ==
  ASSUME NEW S, IsFiniteSet(S), NEW f, \A x \in S : f[x] \in Nat, NEW g, Adds(f, S, g),
         NEW Q, NEW e, NEW h, Adds(e, Q, h),
         NEW U \in (SUBSET S) \cap SUBSET Q, \A x \in U : f[x] = e[x]
  PROVE  g[U] = h[U]
  <1> DEFINE B == {n \in Nat : \E T \in SUBSET U : Cardinality(T) = n /\ g[T] # h[T]}
  <1>1. \A T \in SUBSET U : /\ g[T] = IF T = {} THEN 0 ELSE f[Taken(T)] + g[T \ {Taken(T)}]
                           /\ h[T] = IF T = {} THEN 0 ELSE e[Taken(T)] + h[T \ {Taken(T)}]
    BY DEF Adds
  <1>2. IsFiniteSet(U) /\ Cardinality(U) \in Nat
    BY FS_Subset, FS_CardinalityType
  <1>3. SUFFICES ASSUME B # {} PROVE FALSE
    BY <1>2
  <1>4. PICK n \in B : \A m \in B : n <= m
    BY <1>3, Smallest
  <1>5. PICK T \in SUBSET U : Cardinality(T) = n /\ g[T] # h[T]
    BY <1>4
  <1>6. T # {}
    BY <1>1, <1>5
  <1>7. PICK x \in T : x = Taken(T)
    BY <1>6, NextIn
  <1>8. /\ T \ {x} \in SUBSET U /\ Cardinality(T \ {x}) = n - 1 /\ Cardinality(T \ {x}) \in Nat
        /\ n \in Nat
    BY <1>2, <1>5, OneLess
  <1>9. g[T \ {x}] = h[T \ {x}]
    <2>1. n - 1 \notin B
      BY <1>4, <1>8
    <2> QED
      BY <1>8, <2>1
  <1> HIDE DEF B
  <1>10. g[T] = f[x] + g[T \ {x}] /\ h[T] = e[x] + h[T \ {x}]
    BY <1>1, <1>6, <1>7
  <1> QED
    BY <1>5, <1>9, <1>10

\* The order does not matter: any element may be taken out.
LEMMA AddsAny ==
  ASSUME NEW S, IsFiniteSet(S), NEW f, \A x \in S : f[x] \in Nat, NEW g \in [SUBSET S -> Nat], Adds(f, S, g),
         NEW U \in SUBSET S, NEW u \in U
  PROVE  g[U] = f[u] + g[U \ {u}]
  <1> DEFINE B == {n \in Nat : \E T \in SUBSET S : \E x \in T :
                     Cardinality(T) = n /\ g[T] # f[x] + g[T \ {x}]}
  <1>1. \A T \in SUBSET S : g[T] = IF T = {} THEN 0 ELSE f[Taken(T)] + g[T \ {Taken(T)}]
    BY DEF Adds
  <1>2. IsFiniteSet(U) /\ Cardinality(U) \in Nat
    BY FS_Subset, FS_CardinalityType
  <1>3. SUFFICES ASSUME B # {} PROVE FALSE
    BY <1>2
  <1>4. PICK n \in B : \A m \in B : n <= m
    BY <1>3, Smallest
  <1>5. PICK T \in SUBSET S : \E x \in T : Cardinality(T) = n /\ g[T] # f[x] + g[T \ {x}]
    BY <1>4
  <1>6. PICK x \in T : Cardinality(T) = n /\ g[T] # f[x] + g[T \ {x}]
    BY <1>5
  <1>7. PICK y \in T : y = Taken(T)
    BY <1>6, NextIn
  <1>8. g[T] = f[y] + g[T \ {y}] /\ x # y
    BY <1>1, <1>6, <1>7
  <1>9. /\ T \ {x} \in SUBSET S /\ T \ {y} \in SUBSET S /\ Cardinality(T) = n /\ n \in Nat
        /\ Cardinality(T \ {x}) = n - 1 /\ Cardinality(T \ {y}) = n - 1 /\ n - 1 \in Nat
    BY <1>6, OneLess
  <1>10. ASSUME NEW V \in SUBSET S, NEW v \in V, Cardinality(V) = n - 1
         PROVE  g[V] = f[v] + g[V \ {v}]
    <2>1. ~ (n <= n - 1)
      BY <1>9
    <2>2. n - 1 \notin B
      <3> HIDE DEF B
      <3> QED
        BY <1>4, <2>1
    <2> QED
      BY <1>9, <1>10, <2>2
  <1> HIDE DEF B
  <1>11. g[T \ {y}] = f[x] + g[(T \ {y}) \ {x}]
    BY <1>8, <1>9, <1>10
  <1>12. g[T \ {x}] = f[y] + g[(T \ {x}) \ {y}]
    BY <1>8, <1>9, <1>10
  <1>13. PICK W \in SUBSET S : W = (T \ {y}) \ {x} /\ W = (T \ {x}) \ {y}
    OBVIOUS
  <1>14. f[x] \in Nat /\ f[y] \in Nat /\ g[W] \in Nat
    OBVIOUS
  <1>15. g[T] = f[y] + (f[x] + g[W]) /\ g[T \ {x}] = f[y] + g[W]
    BY <1>8, <1>11, <1>12, <1>13
  <1> QED
    BY <1>6, <1>14, <1>15

\* Nothing is added over no place.
LEMMA SumEmpty == ASSUME NEW f PROVE Sum(f, {}) = 0
  <1>1. PICK g : Adds(f, {}, g) /\ Sum(f, {}) = g[{}]
    BY SumAdds, FS_EmptySet
  <1> QED
    BY <1>1 DEF Adds

\* A sum of numbers over finitely many places is a number.
LEMMA SumNat ==
  ASSUME NEW S, IsFiniteSet(S), NEW f, \A x \in S : f[x] \in Nat
  PROVE  Sum(f, S) \in Nat
  <1>1. PICK g : g \in [SUBSET S -> Nat] /\ Sum(f, S) = g[S]
    BY SumAdds
  <1> QED
    BY <1>1

\* It depends on the values at these places only.
LEMMA SumSame ==
  ASSUME NEW S, IsFiniteSet(S), NEW f, NEW e, \A x \in S : f[x] = e[x] /\ f[x] \in Nat
  PROVE  Sum(f, S) = Sum(e, S)
  <1>1. PICK g : Adds(f, S, g) /\ Sum(f, S) = g[S]
    BY SumAdds
  <1>2. \A x \in S : e[x] \in Nat
    OBVIOUS
  <1>3. PICK h : Adds(e, S, h) /\ Sum(e, S) = h[S]
    BY <1>2, SumAdds
  <1> QED
    BY <1>1, <1>3, AddsSame

\* The value at a place may be added last.
LEMMA SumOne ==
  ASSUME NEW S, IsFiniteSet(S), NEW f, \A x \in S : f[x] \in Nat, NEW u \in S
  PROVE  Sum(f, S) = f[u] + Sum(f, S \ {u})
  <1>1. PICK g : Adds(f, S, g) /\ g \in [SUBSET S -> Nat] /\ Sum(f, S) = g[S]
    BY SumAdds
  <1>2. PICK R \in SUBSET S : R = S \ {u}
    OBVIOUS
  <1>3. IsFiniteSet(R)
    BY FS_Subset
  <1>4. PICK h : Adds(f, R, h) /\ Sum(f, R) = h[R]
    BY <1>3, SumAdds
  <1>5. g[S] = f[u] + g[S \ {u}]
    <2>1. S \in SUBSET S /\ g \in [SUBSET S -> Nat] /\ Adds(f, S, g)
      BY <1>1
    <2>2. \A x \in S : g[S] = f[x] + g[S \ {x}]
      BY <2>1, AddsAny
    <2> QED
      BY <2>2
  <1>6. g[R] = h[R]
    BY <1>1, <1>4, AddsSame
  <1> QED
    BY <1>1, <1>2, <1>4, <1>5, <1>6

\* One more at one place is one more in the sum.
LEMMA SumPlusOne ==
  ASSUME NEW S, IsFiniteSet(S), NEW f, NEW e, NEW u \in S, \A x \in S : f[x] \in Nat,
         e[u] = f[u] + 1, \A x \in S : x # u => e[x] = f[x]
  PROVE  Sum(e, S) = Sum(f, S) + 1
  <1>1. \A x \in S : e[x] \in Nat
    OBVIOUS
  <1>2. PICK R \in SUBSET S : R = S \ {u}
    OBVIOUS
  <1>3. IsFiniteSet(R)
    BY FS_Subset
  <1>4. Sum(f, R) = Sum(e, R) /\ Sum(f, R) \in Nat
    <2>1. \A x \in R : f[x] = e[x] /\ f[x] \in Nat
      BY <1>2
    <2> QED
      BY <1>3, <2>1, SumSame, SumNat
  <1>5. Sum(f, S) = f[u] + Sum(f, R)
    BY <1>2, SumOne
  <1>6. Sum(e, S) = e[u] + Sum(e, R)
    BY <1>1, <1>2, SumOne
  <1> QED
    BY <1>4, <1>5, <1>6

\* A place with 0 adds nothing.
LEMMA SumPlusZero ==
  ASSUME NEW S, IsFiniteSet(S), NEW f, NEW u, u \notin S, f[u] = 0, \A x \in S : f[x] \in Nat
  PROVE  Sum(f, S \cup {u}) = Sum(f, S)
  <1>1. PICK Q : Q = S \cup {u}
    OBVIOUS
  <1>2. IsFiniteSet(Q) /\ u \in Q /\ Q \ {u} = S /\ \A x \in Q : f[x] \in Nat
    BY <1>1, FS_AddElement
  <1>3. Sum(f, Q) = f[u] + Sum(f, Q \ {u})
    BY <1>2, SumOne
  <1>4. Sum(f, S) \in Nat
    BY SumNat
  <1> QED
    BY <1>1, <1>2, <1>3, <1>4

-----------------------------------------------------------------------------
(* A trace that stays in its thread *)

\* No other Trace object has the id of t: it was never copied, nor its id given twice.
Alone(t) == \A u \in 1..Len(traces) : traces[u].id = traces[t].id => u = t

SpansHeld == \A s \in 1..Len(spans) : \E t \in 1..Len(traces) : traces[t].id = spans[s].trace

CopiesNotAlone == \A t \in decorated : ~Alone(t)

\* The block of s has not been left.
Open(s) == \E c \in Ctx : Holds(c, s)

\* The total of a Trace that is alone is that of its spans, ...
SumsOK == \A t \in 1..Len(traces) : Alone(t) => tdata[t].rollup = RollupsOf(traces[t].id)

Within(t, s) == Alone(t) /\ spans[s].trace = traces[t].id

\* ... a span gets its dataset when it is finished, ...
DatasetsOK ==
  \A t \in 1..Len(traces), s \in 1..Len(spans) :
    Within(t, s) => sdata[s].dataset = IF Open(s) THEN None ELSE tdata[t].dataset

\* ... and after the root is finished, with the total, no code works on the Trace.
EndedOK ==
  \A t \in 1..Len(traces), s \in 1..Len(spans) :
    Within(t, s) /\ spans[s].root /\ ~Open(s) =>
      sdata[s].total = tdata[t].rollup /\ \A c \in Ctx : current[c] # t

TotalsInv == SpansHeld /\ CopiesNotAlone /\ SumsOK /\ DatasetsOK /\ EndedOK

\* A Trace object that is alone has always been.
LEMMA StaysAlone ==
  ASSUME IdsKept, NEW t \in 1..Len(traces), Alone(t)'
  PROVE  Alone(t)
  BY DEF IdsKept, Alone

Rollups == [s \in DOMAIN spans |-> sdata[s].rollup]

\* The sum that UncopiedIsWhole is about, before and after a step.
LEMMA RollupsSum ==
  /\ \A id : RollupsOf(id) = Sum(Rollups, SpansOf(id))
  /\ \A id : RollupsOf(id)' = Sum(Rollups', SpansOf(id)')
  <1>1. \A id : RollupsOf(id) = Sum(Rollups, SpansOf(id))
    BY DEF RollupsOf, Sum, Rollups, FoldFunctionOnSet, MapThenFoldSet
  <1>2. \A id : RollupsOf(id)' = Sum(Rollups', SpansOf(id)')
    BY DEF RollupsOf, Sum, Rollups, FoldFunctionOnSet, MapThenFoldSet
  <1> QED
    BY <1>1, <1>2

\* The places and the values that are summed.
LEMMA RollupsType ==
  ASSUME HeapOK, SpanDataOK, NEW id
  PROVE  /\ IsFiniteSet(SpansOf(id)) /\ SpansOf(id) \subseteq 1..Len(spans)
         /\ DOMAIN spans = 1..Len(spans)
         /\ \A s \in 1..Len(spans) : Rollups[s] = sdata[s].rollup /\ Rollups[s] \in Nat
  <1>1. Len(spans) \in Nat /\ DOMAIN spans = 1..Len(spans)
    BY LenProperties DEF HeapOK
  <1>2. IsFiniteSet(1..Len(spans))
    BY <1>1, FS_Interval
  <1>3. IsFiniteSet(SpansOf(id)) /\ SpansOf(id) \subseteq 1..Len(spans)
    <2>1. SpansOf(id) \in SUBSET (1..Len(spans))
      BY <1>1 DEF SpansOf
    <2> QED
      BY <1>2, <2>1, FS_Subset
  <1>4. \A s \in 1..Len(spans) : sdata[s].rollup \in Nat
    <2>1. \A s \in 1..Len(spans) : sdata[s] \in SpanData
      BY ElementOfSeq DEF SpanDataOK
    <2> QED
      BY <2>1 DEF SpanData
  <1> QED
    BY <1>1, <1>3, <1>4 DEF Rollups

\* What TotalsInv reads of the data of t and of s.
TraceRest(t) == <<tdata[t].rollup, tdata[t].dataset>>
SpanRest(s) == <<sdata[s].rollup, sdata[s].total, sdata[s].dataset>>

\* The sums are the same where the spans and their rollups are.
LEMMA SumsSame ==
  ASSUME HeapOK, UNCHANGED spans, \A s \in 1..Len(spans) : sdata'[s].rollup = sdata[s].rollup
  PROVE  \A id : RollupsOf(id)' = RollupsOf(id)
  <1>1. DOMAIN spans = 1..Len(spans)
    BY LenProperties DEF HeapOK
  <1>2. Rollups' = Rollups
    BY <1>1 DEF Rollups
  <1>3. \A id : SpansOf(id)' = SpansOf(id)
    BY DEF SpansOf
  <1> QED
    BY <1>2, <1>3, RollupsSum

\* A step that moves none of this.
LEMMA TotalsFrame ==
  ASSUME HeapOK, TotalsInv, UNCHANGED <<traces, spans, blocks, decorated, current>>,
         \A t \in 1..Len(traces) : TraceRest(t)' = TraceRest(t),
         \A s \in 1..Len(spans) : SpanRest(s)' = SpanRest(s)
  PROVE  TotalsInv'
  <1>1. /\ \A t \in 1..Len(traces) : tdata'[t].rollup = tdata[t].rollup /\ tdata'[t].dataset = tdata[t].dataset
        /\ \A s \in 1..Len(spans) : /\ sdata'[s].rollup = sdata[s].rollup
                                    /\ sdata'[s].total = sdata[s].total
                                    /\ sdata'[s].dataset = sdata[s].dataset
    BY DEF TraceRest, SpanRest
  <1>2. \A id : RollupsOf(id)' = RollupsOf(id)
    BY <1>1, SumsSame
  <1>3. /\ \A t : Alone(t)' <=> Alone(t)
        /\ \A s : Open(s)' <=> Open(s)
        /\ \A t, s : Within(t, s)' <=> Within(t, s)
    BY DEF Alone, Open, Holds, Within
  <1>4. SpansHeld' /\ CopiesNotAlone'
    BY <1>3 DEF TotalsInv, SpansHeld, CopiesNotAlone
  <1>5. SumsOK'
    BY <1>1, <1>2, <1>3 DEF TotalsInv, SumsOK
  <1>6. DatasetsOK'
    BY <1>1, <1>3 DEF TotalsInv, DatasetsOK
  <1>7. EndedOK'
    BY <1>1, <1>3 DEF TotalsInv, EndedOK
  <1> QED
    BY <1>4, <1>5, <1>6, <1>7 DEF TotalsInv

\* A call for a context field leaves the rest of the data alone.
LEMMA SetContextRest ==
  ASSUME MatchedInv, DataInv, NEW c \in Ctx, NEW k, NEW v, SetContext(c, k, v)
  PROVE  \A s \in 1..Len(spans) : SpanRest(s)' = SpanRest(s)
  <1>1. CASE ActiveSpan(c) = None
    BY <1>1 DEF SetContext, SpanRest
  <1>2. CASE ActiveSpan(c) # None
    <2>1. PICK a \in 1..Len(spans) : a = ActiveSpan(c)
      BY <1>2, ActiveSpanOwn
    <2>2. \A s \in 1..Len(spans) : sdata[s] \in SpanData /\ s \in DOMAIN sdata
      BY ElementOfSeq, LenProperties DEF DataInv, SpanDataOK
    <2>3. PICK f : f = [sdata[a].fields EXCEPT ![k] = v]
      OBVIOUS
    <2>4. PICK d : d = [sdata[a] EXCEPT !.fields = f]
      OBVIOUS
    <2>5. d.rollup = sdata[a].rollup /\ d.total = sdata[a].total /\ d.dataset = sdata[a].dataset
      BY <2>2, <2>4 DEF SpanData
    <2>6. sdata' = [sdata EXCEPT ![a] = d]
      BY <1>2, <2>1, <2>3, <2>4 DEF SetContext
    <2>7. ASSUME NEW s \in 1..Len(spans) PROVE sdata'[s] = IF s = a THEN d ELSE sdata[s]
      BY <2>2, <2>6
    <2> QED
      BY <2>5, <2>7 DEF SpanRest
  <1> QED
    BY <1>1, <1>2

\* A call for a trace field leaves the rest of the data alone.
LEMMA TraceFieldRest ==
  ASSUME MatchedInv, DataInv, NEW c \in Ctx, NEW k, NEW v, current[c] # None,
         tdata' = [tdata EXCEPT ![current[c]].fields[k] = v]
  PROVE  \A t \in 1..Len(traces) : TraceRest(t)' = TraceRest(t)
  <1>1. PICK a \in 1..Len(traces) : a = current[c]
    BY PathType DEF MatchedInv, EventsInv
  <1>2. \A t \in 1..Len(traces) : tdata[t] \in TraceData /\ t \in DOMAIN tdata
    BY ElementOfSeq, LenProperties DEF DataInv, TraceDataOK
  <1>3. PICK f : f = [tdata[a].fields EXCEPT ![k] = v]
    OBVIOUS
  <1>4. PICK d : d = [tdata[a] EXCEPT !.fields = f]
    OBVIOUS
  <1>5. d.rollup = tdata[a].rollup /\ d.dataset = tdata[a].dataset
    BY <1>2, <1>4 DEF TraceData
  <1>6. tdata' = [tdata EXCEPT ![a] = d]
    BY <1>1, <1>3, <1>4
  <1>7. ASSUME NEW t \in 1..Len(traces) PROVE tdata'[t] = IF t = a THEN d ELSE tdata[t]
    BY <1>2, <1>6
  <1> QED
    BY <1>5, <1>7 DEF TraceRest

\* The elements of a sequence are in what it is appended to.
LEMMA ConcatHas ==
  ASSUME NEW S, NEW b \in Seq(S), NEW s \in Seq(S), NEW w, w = b \o s
  PROVE  w \in Seq(S) /\ \A i \in 1..Len(s) : \E j \in 1..Len(w) : w[j] = s[i]
  <1>1. PICK m \in Nat, n \in Nat : m = Len(b) /\ n = Len(s)
    BY LenProperties
  <1>2. /\ b \o s \in Seq(S) /\ Len(b \o s) = m + n
        /\ \A j \in 1..(m + n) : (b \o s)[j] = IF j <= m THEN b[j] ELSE s[j - m]
    BY <1>1, ConcatProperties
  <1>3. \A i \in 1..n : m + i \in 1..(m + n) /\ ~ (m + i <= m) /\ (m + i) - m = i
    BY <1>1
  <1> QED
    BY <1>1, <1>2, <1>3

\* An open block is on the stack of its context, so its span is of the Trace that is current.
LEMMA OpenCurrent ==
  ASSUME MatchedInv, NEW c \in Ctx, NEW s, Holds(c, s)
  PROVE  /\ current[c] \in 1..Len(traces) /\ current[c] # None
         /\ spans[s].trace = traces[current[c]].id
  <1> USE DEF MatchedInv, EventsInv
  <1>1. PICK i \in 1..Len(blocks[c]) : blocks[c][i] = s
    BY DEF Holds
  <1>2. base[c] \in Seq(1..Len(spans)) /\ blocks[c] \in Seq(1..Len(spans))
    BY DEF ClientOK
  <1>3. PICK S : S = 1..Len(spans)
    OBVIOUS
  <1>4. PICK b \in Seq(S), bl \in Seq(S) : b = base[c] /\ bl = blocks[c]
    BY <1>2, <1>3
  <1>5. PICK w : w = b \o bl
    OBVIOUS
  <1>6. w \in Seq(S) /\ \E j \in 1..Len(w) : w[j] = s
    <2>1. \A k \in 1..Len(bl) : \E j \in 1..Len(w) : w[j] = bl[k]
      BY <1>5, ConcatHas
    <2> QED
      BY <1>1, <1>4, <1>5, <2>1, ConcatProperties
  <1>7. Path(c) = w
    BY <1>4, <1>5 DEF BalancedInv
  <1>8. w # <<>>
    BY <1>6, EmptySeq
  <1>9. current[c] # None /\ Stack(c) = w
    BY <1>7, <1>8 DEF Path
  <1>10. current[c] \in 1..Len(traces)
    BY <1>9, PathType
  <1>11. PathOK(w, traces[current[c]].id, spans)
    BY <1>9, <1>10 DEF PathsOK, Stack
  <1>12. PICK j \in 1..Len(w) : w[j] = s
    BY <1>6
  <1>13. spans[w[j]].trace = traces[current[c]].id
    BY <1>11, Zenon DEF PathOK
  <1> QED
    BY <1>9, <1>10, <1>12, <1>13

\* The block that is left is open no more, all others are as they were.
LEMMA ExitHolds ==
  ASSUME MatchedInv, NEW c \in Ctx, NEW s, s = Last(blocks[c]), Exit(c)
  PROVE  /\ Holds(c, s)
         /\ \A v : Open(v)' <=> Open(v) /\ v # s
  <1> USE DEF MatchedInv, EventsInv
  <1>1. PICK st \in Seq(1..Len(spans)) : st = blocks[c]
    BY DEF ClientOK
  <1>2. Len(st) \in 1..Len(st) /\ Last(st) = st[Len(st)] /\ Front(st) = RemoveAt(st, Len(st))
    BY <1>1, FrontRemoves DEF Exit
  <1>3. PICK o \in Outcomes : Close(c, st[Len(st)], o)
    BY <1>1, <1>2 DEF Exit
  <1>4. Left(c, Len(st))
    BY <1>1, <1>2, <1>3 DEF Exit, Left, Close, FinishSpan, FinishTrace
  <1>5. \A d \in Ctx : \A v : Holds(d, v)' <=> Holds(d, v) /\ v # s
    BY <1>1, <1>2, <1>4, HoldsLeft
  <1>6. Holds(c, s)
    BY <1>1, <1>2 DEF Holds
  <1> QED
    BY <1>5, <1>6 DEF Open

\* Leaving a block: the event gets the dataset, and a root's the total.
LEMMA ExitTotals ==
  ASSUME MatchedInv, DataInv, TotalsInv, NEW c \in Ctx, FieldsExit(c)
  PROVE  TotalsInv'
  <1>1. PICK s, t : s = Last(blocks[c]) /\ t = current[c]
    OBVIOUS
  <1>2. Exit(c) /\ FinishData(c, s) /\ UNCHANGED <<tdata, asked>>
    BY <1>1 DEF FieldsExit
  <1>3. Holds(c, s) /\ \A v : Open(v)' <=> Open(v) /\ v # s
    BY <1>1, <1>2, ExitHolds
  <1>4. t \in 1..Len(traces) /\ t # None /\ spans[s].trace = traces[t].id
    BY <1>1, <1>3, OpenCurrent
  <1>5. IdsKept /\ Len(traces') = Len(traces) /\ UNCHANGED spans /\ s \in 1..Len(spans)
    BY <1>1, <1>2, ExitKeeps
  <1>6. PICK d \in SpanData : sdata' = [sdata EXCEPT ![s] = d] /\ Completed(d, s, t)
    BY <1>1, <1>2, <1>4, FinishedRecord
  <1>7. sdata'[s] = d /\ \A u \in 1..Len(spans) : u # s => sdata'[u] = sdata[u]
    BY <1>5, <1>6, SpanDataSet DEF DataInv
  <1>8. \A id : RollupsOf(id)' = RollupsOf(id)
    <2>1. \A u \in 1..Len(spans) : sdata'[u].rollup = sdata[u].rollup
      BY <1>6, <1>7 DEF Completed
    <2> QED
      BY <1>5, <2>1, SumsSame DEF MatchedInv, EventsInv
  <1>9. \A u \in 1..Len(traces) : Alone(u)' => Alone(u)
    BY <1>5, StaysAlone
  <1>10. \A u \in 1..Len(traces), v \in 1..Len(spans) : Within(u, v)' => Within(u, v)
    BY <1>5, <1>9 DEF Within, IdsKept
  <1>11. SpansHeld'
    BY <1>5 DEF TotalsInv, SpansHeld, IdsKept
  <1>12. CopiesNotAlone'
    <2>1. UNCHANGED decorated /\ decorated \subseteq 1..Len(traces)
      BY <1>2 DEF Exit, MatchedInv, EventsInv, RefsOK
    <2> QED
      BY <1>9, <2>1 DEF TotalsInv, CopiesNotAlone
  <1>13. SumsOK'
    BY <1>2, <1>5, <1>8, <1>9 DEF TotalsInv, SumsOK, IdsKept
  <1>14. ASSUME NEW u \in 1..Len(traces), Within(u, s) PROVE u = t
    BY <1>4, <1>14 DEF Within, Alone
  <1>15. Open(s)
    BY <1>3 DEF Open
  <1>16. DatasetsOK'
    <2> SUFFICES ASSUME NEW u \in 1..Len(traces), NEW v \in 1..Len(spans), Within(u, v)
                 PROVE  sdata'[v].dataset = IF Open(v)' THEN None ELSE tdata[u].dataset
      BY <1>2, <1>5, <1>10 DEF DatasetsOK
    <2>1. sdata[v].dataset = IF Open(v) THEN None ELSE tdata[u].dataset
      BY DEF TotalsInv, DatasetsOK
    <2>2. CASE v = s
      <3>1. u = t /\ sdata[s].dataset = None /\ ~Open(s)'
        BY <1>3, <1>14, <1>15, <2>1, <2>2
      <3>2. d.dataset = IF tdata[t].dataset # None THEN tdata[t].dataset ELSE sdata[s].dataset
        BY <1>6 DEF Completed
      <3> QED
        BY <1>7, <2>2, <3>1, <3>2
    <2>3. CASE v # s
      BY <1>3, <1>7, <2>1, <2>3
    <2> QED
      BY <2>2, <2>3
  <1>17. \A b \in Ctx \ {c} : current'[b] = current[b]
    <2>1. OthersSame(c)
      BY <1>2, PathsApart DEF MatchedInv, EventsInv
    <2> QED
      BY <2>1 DEF OthersSame
  <1>18. current'[c] \in {None, t}
    <2>1. current \in [Ctx -> 0..Len(traces)]
      BY DEF MatchedInv, EventsInv, RefsOK
    <2> QED
      BY <1>1, <1>2, <2>1 DEF Exit, Close, FinishTrace, FinishSpan
  <1>19. EndedOK'
    <2> SUFFICES ASSUME NEW u \in 1..Len(traces), NEW v \in 1..Len(spans),
                        Within(u, v), spans[v].root, ~Open(v)'
                 PROVE  sdata'[v].total = tdata[u].rollup /\ \A b \in Ctx : current'[b] # u
      BY <1>2, <1>5, <1>10 DEF EndedOK
    <2>1. CASE v = s
      <3>1. u = t
        BY <1>14, <2>1
      <3>2. d.total = tdata[t].rollup
        BY <1>6, <2>1 DEF Completed
      <3>3. current'[c] = None
        <4>1. Closes(c)
          BY <1>2, ExitCloses
        <4>2. Path(c) # <<>> /\ Last(Path(c)) = s
          <5>1. Last(Path(c)) = s
            BY <1>1, <4>1 DEF Closes
          <5> QED
            BY <1>1, <1>4, <5>1 DEF MatchedInv, BalancedInv
        <4>3. Len(Path(c)) = 1
          BY <2>1, <4>2, PathEnd DEF MatchedInv, EventsInv
        <4>4. Path(c)' = <<>>
          <5>1. PICK w \in Seq(1..Len(spans)) : w = Path(c)
            BY PathType DEF MatchedInv, EventsInv
          <5>2. Front(w) \in Seq(1..Len(spans)) /\ Len(Front(w)) = 0
            BY <4>2, <4>3, <5>1, SeqFront
          <5>3. Front(w) = <<>>
            BY <5>2, EmptySeq
          <5> QED
            BY <4>1, <5>1, <5>3 DEF Closes
        <4> QED
          BY <4>1, <4>4 DEF Closes
      <3>4. ASSUME NEW b \in Ctx, b # c PROVE current'[b] # t
        BY <1>1, <1>4, <1>17, <3>4 DEF MatchedInv, PrivateInv
      <3> QED
        BY <1>4, <1>7, <2>1, <3>1, <3>2, <3>3, <3>4
    <2>2. CASE v # s
      <3>1. sdata[v].total = tdata[u].rollup /\ \A b \in Ctx : current[b] # u
        BY <1>3, <2>2 DEF TotalsInv, EndedOK
      <3>2. u # None
        BY DEF None
      <3> QED
        BY <1>1, <1>7, <1>17, <1>18, <2>2, <3>1, <3>2
    <2> QED
      BY <2>1, <2>2
  <1> QED
    BY <1>11, <1>12, <1>13, <1>16, <1>19 DEF TotalsInv

\* Another thread gets a Trace: nobody works on it alone.
LEMMA DecorateTotals ==
  ASSUME MatchedInv, DataInv, TotalsInv, NEW c \in Ctx, FieldsDecorate(c)
  PROVE  TotalsInv'
  <1>1. /\ current[c] \in 1..Len(traces) /\ UNCHANGED <<spans, blocks, current, sdata>>
        /\ traces' = Append(traces, CopyOf(current[c])) /\ decorated' = decorated \cup {NewTrace}
        /\ \E x : tdata' = Append(tdata, x)
    BY PathType DEF MatchedInv, EventsInv, FieldsDecorate, Decorate, TracedThread, clientVars
  <1>2. PICK t, y : t = CopyOf(current[c]) /\ tdata' = Append(tdata, y)
    BY <1>1
  <1>3. /\ Len(traces) \in Nat /\ Len(traces') = Len(traces) + 1
        /\ traces'[Len(traces) + 1].id = traces[current[c]].id
        /\ \A u \in 1..Len(traces) : traces'[u] = traces[u]
    <2>1. /\ Len(traces) \in Nat /\ Len(traces') = Len(traces) + 1
          /\ traces'[Len(traces) + 1] = t
          /\ \A u \in 1..Len(traces) : traces'[u] = traces[u]
      BY <1>1, <1>2, TraceAppended DEF MatchedInv, EventsInv
    <2>2. t.id = traces[current[c]].id
      BY <1>2 DEF CopyOf
    <2> QED
      BY <2>1, <2>2
  <1>4. IdsKept
    BY <1>3 DEF IdsKept
  <1>5. \A u \in 1..Len(traces) : tdata'[u] = tdata[u]
    <2>1. \A u \in 1..Len(tdata) : Append(tdata, y)[u] = tdata[u]
      BY LastAppended DEF DataInv, TraceDataOK
    <2> QED
      BY <1>2, <2>1 DEF DataInv, TraceDataOK
  <1>6. \A u \in 1..Len(traces') : Alone(u)' => u \in 1..Len(traces) /\ Alone(u)
    <2>1. \A u \in 1..Len(traces) : Alone(u)' => Alone(u)
      BY <1>4, StaysAlone
    <2>2. PICK n : n = Len(traces) + 1
      OBVIOUS
    <2>3. ~ Alone(n)'
      <3>1. current[c] \in 1..Len(traces') /\ traces'[current[c]].id = traces'[n].id /\ current[c] # n
        BY <1>1, <1>3, <2>2
      <3> QED
        BY <3>1 DEF Alone
    <2>4. \A u \in 1..Len(traces') : u \in 1..Len(traces) \/ u = n
      BY <1>3, <2>2
    <2> QED
      BY <2>1, <2>3, <2>4
  <1>7. SpansHeld'
    BY <1>1, <1>3 DEF TotalsInv, SpansHeld
  <1>8. CopiesNotAlone'
    <2>1. PICK n : n = Len(traces) + 1
      OBVIOUS
    <2>2. decorated \subseteq 1..Len(traces) /\ decorated' = decorated \cup {n}
      BY <1>1, <2>1 DEF MatchedInv, EventsInv, RefsOK, NewTrace
    <2>3. n \notin 1..Len(traces) /\ decorated' \subseteq 1..Len(traces')
      <3>1. PICK k \in Nat : k = Len(traces) /\ Len(traces') = k + 1 /\ n = k + 1
        BY <1>3, <2>1
      <3>2. n \notin 1..k /\ (1..k) \cup {n} \subseteq 1..(k + 1)
        BY <3>1
      <3> QED
        BY <2>2, <3>1, <3>2
    <2> SUFFICES ASSUME NEW u \in decorated', Alone(u)' PROVE FALSE
      BY DEF CopiesNotAlone
    <2>4. u \in 1..Len(traces) /\ Alone(u)
      BY <1>6, <2>3
    <2> QED
      BY <2>2, <2>3, <2>4 DEF TotalsInv, CopiesNotAlone
  <1>9. \A id : RollupsOf(id)' = RollupsOf(id)
    BY <1>1, SumsSame DEF MatchedInv, EventsInv
  <1>10. SumsOK'
    BY <1>3, <1>5, <1>6, <1>9 DEF TotalsInv, SumsOK
  <1>11. \A s : Open(s)' <=> Open(s)
    BY <1>1 DEF Open, Holds
  <1>12. \A u \in 1..Len(traces'), s \in 1..Len(spans) : Within(u, s)' => u \in 1..Len(traces) /\ Within(u, s)
    BY <1>1, <1>3, <1>6 DEF Within
  <1>13. DatasetsOK'
    <2> SUFFICES ASSUME NEW u \in 1..Len(traces'), NEW s \in 1..Len(spans), Within(u, s)'
                 PROVE  sdata'[s].dataset = IF Open(s)' THEN None ELSE tdata'[u].dataset
      BY <1>1 DEF DatasetsOK
    <2>1. u \in 1..Len(traces) /\ Within(u, s)
      BY <1>12
    <2> QED
      BY <1>1, <1>4, <1>5, <1>11, <2>1 DEF TotalsInv, DatasetsOK
  <1>14. EndedOK'
    <2> SUFFICES ASSUME NEW u \in 1..Len(traces'), NEW s \in 1..Len(spans),
                        Within(u, s)', spans[s].root, ~Open(s)'
                 PROVE  sdata'[s].total = tdata'[u].rollup /\ \A b \in Ctx : current'[b] # u
      BY <1>1 DEF EndedOK
    <2>1. u \in 1..Len(traces) /\ Within(u, s)
      BY <1>12
    <2> QED
      BY <1>1, <1>5, <1>11, <2>1 DEF TotalsInv, EndedOK
  <1> QED
    BY <1>7, <1>8, <1>10, <1>13, <1>14 DEF TotalsInv

\* Entering a block makes one span and perhaps the Trace it is in.
LEMMA EnterHeap ==
  ASSUME MatchedInv, DataInv, NEW c \in Ctx, NEW d \in Dataset \cup {None},
         Enter(c) \/ EnterTrace(c), OpenData(c, d)
  PROVE  /\ UNCHANGED decorated /\ \A b \in Ctx \ {c} : current'[b] = current[b]
         /\ \/ Len(traces') = Len(traces) /\ current'[c] = current[c] /\ UNCHANGED tdata
            \/ /\ Len(traces') = Len(traces) + 1 /\ current'[c] = Len(traces) + 1
               /\ \E f : tdata' = Append(tdata, f) /\ f.rollup = 0
  <1> USE DEF MatchedInv, EventsInv
  <1>1. IdsKept
    BY EnterMakes
  <1>2. DOMAIN traces' = 1..Len(traces')
    <2>1. [BlocksNext]_allVars
      BY DEF BlocksNext
    <2> QED
      BY <2>1, EventsInvStep, LenProperties DEF HeapOK
  <1>3. UNCHANGED decorated
    BY DEF Enter, EnterTrace, NewEvent, StartTrace, StartSpan
  <1>4. OthersSame(c)
    BY PathsApart
  <1>5. \/ Len(traces') = Len(traces) /\ current'[c] = current[c]
        \/ Len(traces') = Len(traces) + 1 /\ current'[c] = Len(traces) + 1
    <2>1. ASSUME NEW id, NEW p, StartTrace(c, id, p)
          PROVE  Len(traces') = Len(traces) + 1 /\ current'[c] = Len(traces) + 1
      <3>1. PICK t : traces' = Append(traces, t)
        BY <2>1 DEF StartTrace
      <3>2. Len(traces') = Len(traces) + 1
        BY <3>1, TraceAppended
      <3> QED
        BY <2>1, <3>2 DEF StartTrace, NewTrace, RefsOK
    <2>2. ASSUME StartSpan(c, None)
          PROVE  Len(traces') = Len(traces) /\ current'[c] = current[c]
      <3>1. current[c] \in 1..Len(traces) /\ current'[c] = current[c]
        BY <2>2, PathType DEF StartSpan
      <3>2. PICK st : traces' = [traces EXCEPT ![current[c]].stack = st]
        BY <2>2 DEF StartSpan
      <3> QED
        BY <3>1, <3>2, StackReplaced
    <2> QED
      BY <2>1, <2>2 DEF Enter, EnterTrace, NewEvent
  <1>6. CASE Len(traces') = Len(traces)
    <2>1. UNCHANGED tdata
      BY <1>1, <1>2, <1>6 DEF OpenData, NewTrace, IdsKept
    <2> QED
      BY <1>1, <1>3, <1>4, <1>5, <1>6, <2>1 DEF OthersSame, IdsKept
  <1>7. CASE Len(traces') = Len(traces) + 1
    <2>1. PICK f : f = FreshTrace(c, d) /\ tdata' = Append(tdata, FreshTrace(c, d))
      BY <1>1, <1>2, <1>7 DEF OpenData, NewTrace, IdsKept
    <2>2. f.rollup = 0
      BY <2>1 DEF FreshTrace
    <2> QED
      BY <1>1, <1>3, <1>4, <1>5, <1>7, <2>1, <2>2 DEF OthersSame, IdsKept
  <1> QED
    BY <1>1, <1>6, <1>7 DEF IdsKept

\* The span that is made is open, and its event has neither rollups nor a dataset.
LEMMA EnterSpan ==
  ASSUME MatchedInv, DataInv, NEW c \in Ctx, NEW d, Enter(c) \/ EnterTrace(c), OpenData(c, d),
         NEW u, u = Len(spans) + 1
  PROVE  /\ Len(spans) \in Nat /\ Len(spans') = u /\ DOMAIN spans' = 1..u
         /\ \A s \in 1..Len(spans) : /\ spans'[s] = spans[s] /\ sdata'[s] = sdata[s]
                                     /\ Open(s)' <=> Open(s)
         /\ spans'[u].trace = traces'[current'[c]].id
         /\ sdata'[u].rollup = 0 /\ sdata'[u].dataset = None /\ Open(u)'
  <1> USE DEF MatchedInv, EventsInv
  <1>1. PICK n : spans' = Append(spans, n) /\ n.trace = traces'[current'[c]].id
    BY EnterMakes
  <1>2. /\ Len(spans) \in Nat /\ Len(spans') = u
        /\ \A s \in 1..Len(spans) : spans'[s] = spans[s]
        /\ spans'[u] = n
    BY <1>1, LastAppended, LenProperties DEF HeapOK
  <1>3. [BlocksNext]_allVars
    BY DEF BlocksNext
  <1>4. DOMAIN spans' = 1..u
    BY <1>2, <1>3, EventsInvStep, LenProperties DEF HeapOK
  <1>5. PICK e : /\ sdata' = Append(sdata, e)
                 /\ e.rollup = 0 /\ e.dataset = None
    BY DEF OpenData
  <1>6. /\ \A s \in 1..Len(spans) : sdata'[s] = sdata[s]
        /\ sdata'[u] = e
    <2>1. sdata \in Seq(SpanData) /\ Len(sdata) = Len(spans)
      BY DEF DataInv, SpanDataOK
    <2>2. /\ \A s \in 1..Len(sdata) : Append(sdata, e)[s] = sdata[s]
          /\ Append(sdata, e)[Len(sdata) + 1] = e
      BY <2>1, LastAppended
    <2> QED
      BY <1>5, <2>1, <2>2
  <1>7. Entered(c)
    <2>1. sent' = Append(sent, 0)
      BY DEF Enter, EnterTrace, NewEvent, StartTrace, StartSpan, PushSpan
    <2>2. blocks' = [blocks EXCEPT ![c] = Append(@, NewSpan)]
      <3>1. CASE Enter(c)
        BY <3>1 DEF Enter
      <3>2. CASE EnterTrace(c)
        <4>1. Append(<<>>, NewSpan) = <<NewSpan>>
          OBVIOUS
        <4> QED
          BY <3>2, <4>1 DEF EnterTrace
      <3> QED
        BY <3>1, <3>2
    <2> QED
      BY <1>2, <2>1, <2>2 DEF Entered
  <1>8. Holds(c, u)' /\ \A b \in Ctx, s \in 1..Len(spans) : Holds(b, s)' <=> Holds(b, s)
    BY <1>7, HoldsEntered
  <1> QED
    BY <1>1, <1>2, <1>4, <1>5, <1>6, <1>8 DEF Open

\* A span without rollups is added to no sum.
LEMMA OneMoreSpan ==
  ASSUME HeapOK, SpanDataOK, NEW u, u = Len(spans) + 1, DOMAIN spans' = 1..u,
         \A s \in 1..Len(spans) : spans'[s] = spans[s] /\ sdata'[s] = sdata[s],
         sdata'[u].rollup = 0
  PROVE  \A id : RollupsOf(id)' = RollupsOf(id)
  <1> SUFFICES ASSUME NEW id PROVE RollupsOf(id)' = RollupsOf(id)
    OBVIOUS
  <1>1. PICK k \in Nat : k = Len(spans) /\ u = k + 1 /\ DOMAIN spans = 1..k
    BY LenProperties DEF HeapOK
  <1>2. PICK f, e, S, T : f = Rollups /\ e = Rollups' /\ S = SpansOf(id) /\ T = SpansOf(id)'
    OBVIOUS
  <1>3. IsFiniteSet(S) /\ S \subseteq 1..k /\ \A s \in 1..k : f[s] = sdata[s].rollup /\ f[s] \in Nat
    BY <1>1, <1>2, RollupsType
  <1>4. e[u] = 0 /\ \A s \in 1..k : e[s] = f[s]
    BY <1>1, <1>2, <1>3 DEF Rollups
  <1>5. T = S \/ T = S \cup {u}
    <2>1. \A s \in 1..k : s \in T <=> s \in S
      BY <1>1, <1>2 DEF SpansOf
    <2>2. T \subseteq 1..(k + 1)
      BY <1>1, <1>2 DEF SpansOf
    <2>3. \A s \in 1..(k + 1) : s \in 1..k \/ s = u
      BY <1>1
    <2> QED
      BY <1>3, <2>1, <2>2, <2>3
  <1>6. Sum(e, S) = Sum(f, S)
    <2>1. \A s \in S : f[s] = e[s] /\ f[s] \in Nat
      BY <1>3, <1>4
    <2> QED
      BY <1>3, <2>1, SumSame
  <1>7. Sum(e, S \cup {u}) = Sum(e, S)
    <2>1. u \notin 1..k
      BY <1>1
    <2>2. u \notin S /\ \A s \in S : e[s] \in Nat
      BY <1>3, <1>4, <2>1
    <2> QED
      BY <1>3, <1>4, <2>2, SumPlusZero
  <1>8. RollupsOf(id)' = Sum(e, T) /\ RollupsOf(id) = Sum(f, S)
    BY <1>2, RollupsSum
  <1> QED
    BY <1>5, <1>6, <1>7, <1>8

\* Entering a block: its span is open and adds nothing yet.
LEMMA EnterTotals ==
  ASSUME MatchedInv, DataInv, TotalsInv, NEW c \in Ctx, NEW d \in Dataset \cup {None},
         Enter(c) \/ EnterTrace(c), OpenData(c, d)
  PROVE  TotalsInv'
  <1>1. PICK u : u = Len(spans) + 1
    OBVIOUS
  <1>2. /\ Len(spans) \in Nat /\ Len(spans') = u /\ DOMAIN spans' = 1..u
        /\ \A s \in 1..Len(spans) : /\ spans'[s] = spans[s] /\ sdata'[s] = sdata[s]
                                    /\ Open(s)' <=> Open(s)
        /\ spans'[u].trace = traces'[current'[c]].id
        /\ sdata'[u].rollup = 0 /\ sdata'[u].dataset = None /\ Open(u)'
    BY <1>1, EnterSpan
  <1>3. IdsKept /\ current'[c] \in 1..Len(traces')
    BY EnterMakes
  <1>4. /\ UNCHANGED decorated /\ \A b \in Ctx \ {c} : current'[b] = current[b]
        /\ \/ Len(traces') = Len(traces) /\ current'[c] = current[c] /\ UNCHANGED tdata
           \/ /\ Len(traces') = Len(traces) + 1 /\ current'[c] = Len(traces) + 1
              /\ \E f : tdata' = Append(tdata, f) /\ f.rollup = 0
    BY EnterHeap
  <1>5. PICK n : n = Len(traces) + 1
    OBVIOUS
  <1>6. /\ Len(traces) \in Nat /\ \A t \in 1..Len(traces') : t \in 1..Len(traces) \/ t = n
        /\ \A t \in 1..Len(traces) : t \in 1..Len(traces') /\ t # n
    BY <1>3, <1>5 DEF IdsKept
  <1>7. \A s \in 1..Len(spans') : s \in 1..Len(spans) \/ s = u
    BY <1>1, <1>2
  <1>8. \A t \in 1..Len(traces) : tdata'[t] = tdata[t]
    <2>1. tdata \in Seq(TraceData) /\ Len(tdata) = Len(traces)
      BY DEF DataInv, TraceDataOK
    <2>2. \A f : \A t \in 1..Len(tdata) : Append(tdata, f)[t] = tdata[t]
      BY <2>1, LastAppended
    <2> QED
      BY <1>4, <2>1, <2>2
  <1>9. n \in 1..Len(traces') => tdata'[n].rollup = 0
    <2>1. tdata \in Seq(TraceData) /\ Len(tdata) = Len(traces)
      BY DEF DataInv, TraceDataOK
    <2>2. \A f : Append(tdata, f)[Len(tdata) + 1] = f
      BY <2>1, LastAppended
    <2>3. n \notin 1..Len(traces)
      BY <1>5, <1>6
    <2> QED
      BY <1>4, <1>5, <2>1, <2>2, <2>3
  <1>10. \A t \in 1..Len(traces) : Alone(t)' => Alone(t)
    BY <1>3, StaysAlone
  <1>11. ASSUME Alone(n)', n \in 1..Len(traces'), NEW s \in 1..Len(spans)
         PROVE  spans[s].trace # traces'[n].id
    <2>1. PICK t \in 1..Len(traces) : traces[t].id = spans[s].trace
      BY DEF TotalsInv, SpansHeld
    <2>2. traces'[t].id = traces[t].id /\ t \in 1..Len(traces') /\ t # n
      BY <1>3, <1>6 DEF IdsKept
    <2> QED
      BY <1>11, <2>1, <2>2 DEF Alone
  <1>12. ASSUME NEW t \in 1..Len(traces'), NEW s \in 1..Len(spans), Within(t, s)'
         PROVE  t \in 1..Len(traces) /\ Within(t, s)
    <2>1. Alone(t)' /\ spans[s].trace = traces'[t].id
      BY <1>2, <1>12 DEF Within
    <2>2. t \in 1..Len(traces)
      BY <1>6, <1>11, <2>1
    <2> QED
      BY <1>3, <1>10, <2>1, <2>2 DEF Within, IdsKept
  <1>13. SpansHeld'
    <2> SUFFICES ASSUME NEW s \in 1..Len(spans')
                 PROVE  \E t \in 1..Len(traces') : traces'[t].id = spans'[s].trace
      BY DEF SpansHeld
    <2>1. CASE s = u
      BY <1>2, <1>3, <2>1
    <2>2. CASE s \in 1..Len(spans)
      BY <1>2, <1>3, <1>6, <2>2 DEF TotalsInv, SpansHeld, IdsKept
    <2> QED
      BY <1>7, <2>1, <2>2
  <1>14. CopiesNotAlone'
    BY <1>4, <1>10 DEF TotalsInv, CopiesNotAlone, MatchedInv, EventsInv, RefsOK
  <1>15. \A id : RollupsOf(id)' = RollupsOf(id)
    BY <1>1, <1>2, OneMoreSpan DEF MatchedInv, EventsInv, DataInv
  <1>16. SumsOK'
    <2> SUFFICES ASSUME NEW t \in 1..Len(traces'), Alone(t)'
                 PROVE  tdata'[t].rollup = RollupsOf(traces[t].id)'
      BY DEF SumsOK
    <2>1. CASE t \in 1..Len(traces)
      <3>1. PICK id : id = traces[t].id /\ id = traces'[t].id
        BY <1>3, <2>1 DEF IdsKept
      <3>2. tdata[t].rollup = RollupsOf(id)
        BY <1>10, <2>1, <3>1 DEF TotalsInv, SumsOK
      <3> QED
        BY <1>8, <1>15, <2>1, <3>1, <3>2
    <2>2. CASE t = n
      <3>1. PICK id : id = traces'[n].id
        OBVIOUS
      <3>2. SpansOf(id) = {}
        <4>1. DOMAIN spans = 1..Len(spans)
          BY LenProperties DEF MatchedInv, EventsInv, HeapOK
        <4> QED
          BY <1>11, <2>2, <3>1, <4>1 DEF SpansOf
      <3>3. RollupsOf(id)' = 0
        <4>1. PICK f : f = Rollups
          OBVIOUS
        <4>2. RollupsOf(id) = Sum(f, {})
          BY <3>2, <4>1, RollupsSum
        <4> QED
          BY <1>15, <4>2, SumEmpty
      <3> QED
        BY <1>9, <2>2, <3>1, <3>3
    <2> QED
      BY <1>6, <2>1, <2>2
  <1>17. DatasetsOK'
    <2> SUFFICES ASSUME NEW t \in 1..Len(traces'), NEW s \in 1..Len(spans'), Within(t, s)'
                 PROVE  sdata'[s].dataset = IF Open(s)' THEN None ELSE tdata'[t].dataset
      BY DEF DatasetsOK
    <2>1. CASE s = u
      BY <1>2, <2>1
    <2>2. CASE s \in 1..Len(spans)
      <3>1. t \in 1..Len(traces) /\ Within(t, s)
        BY <1>12, <2>2
      <3> QED
        BY <1>2, <1>8, <2>2, <3>1 DEF TotalsInv, DatasetsOK
    <2> QED
      BY <1>7, <2>1, <2>2
  <1>18. EndedOK'
    <2> SUFFICES ASSUME NEW t \in 1..Len(traces'), NEW s \in 1..Len(spans'),
                        Within(t, s)', spans'[s].root, ~Open(s)'
                 PROVE  sdata'[s].total = tdata'[t].rollup /\ \A b \in Ctx : current'[b] # t
      BY DEF EndedOK
    <2>1. s \in 1..Len(spans)
      BY <1>2, <1>7
    <2>2. t \in 1..Len(traces) /\ Within(t, s)
      BY <1>12, <2>1
    <2>3. sdata[s].total = tdata[t].rollup /\ \A b \in Ctx : current[b] # t
      BY <1>2, <2>1, <2>2 DEF TotalsInv, EndedOK
    <2>4. \A b \in Ctx : current'[b] # t
      BY <1>4, <1>5, <1>6, <2>2, <2>3
    <2> QED
      BY <1>2, <1>8, <2>1, <2>2, <2>3, <2>4
  <1> QED
    BY <1>13, <1>14, <1>16, <1>17, <1>18 DEF TotalsInv

\* A job takes over a copy, of a Trace that is not alone, and ends without a trace of its own.
LEMMA JobTotals ==
  ASSUME MatchedInv, TotalsInv, NEW c \in Ctx, FieldsJob(c)
  PROVE  TotalsInv'
  <1>1. UNCHANGED <<traces, spans, blocks, tdata, sdata>> /\ decorated' \subseteq decorated
    BY DEF FieldsJob, RunJob, EndJob, RunDecorated, dataVars, vars
  <1>2. \A b \in Ctx : current'[b] = current[b] \/ current'[b] \in decorated
    BY DEF FieldsJob, RunJob, EndJob, RunDecorated, vars, MatchedInv, EventsInv, RefsOK
  <1>3. /\ \A t : Alone(t)' <=> Alone(t)
        /\ \A s : Open(s)' <=> Open(s)
        /\ \A t, s : Within(t, s)' <=> Within(t, s)
    BY <1>1 DEF Alone, Open, Holds, Within
  <1>4. \A id : RollupsOf(id)' = RollupsOf(id)
    BY <1>1, SumsSame DEF MatchedInv, EventsInv
  <1>5. SpansHeld' /\ CopiesNotAlone'
    BY <1>1, <1>3 DEF TotalsInv, SpansHeld, CopiesNotAlone
  <1>6. SumsOK'
    BY <1>1, <1>3, <1>4 DEF TotalsInv, SumsOK
  <1>7. DatasetsOK'
    BY <1>1, <1>3 DEF TotalsInv, DatasetsOK
  <1>8. EndedOK'
    <2> SUFFICES ASSUME NEW t \in 1..Len(traces), NEW s \in 1..Len(spans),
                        Within(t, s), spans[s].root, ~Open(s)
                 PROVE  sdata[s].total = tdata[t].rollup /\ \A b \in Ctx : current'[b] # t
      BY <1>1, <1>3 DEF EndedOK
    <2>1. sdata[s].total = tdata[t].rollup /\ \A b \in Ctx : current[b] # t
      BY DEF TotalsInv, EndedOK
    <2>2. t \notin decorated
      BY DEF TotalsInv, CopiesNotAlone, Within
    <2> QED
      BY <1>2, <2>1, <2>2
  <1> QED
    BY <1>5, <1>6, <1>7, <1>8 DEF TotalsInv

\* A rollup goes to the Trace and to the span that is active, which is always there: both
\* totals grow by as much.
LEMMA RollupTotals ==
  ASSUME MatchedInv, DataInv, TotalsInv, NEW c \in Ctx, AddRollupField(c)
  PROVE  TotalsInv'
  <1> USE DEF MatchedInv, EventsInv
  <1>1. UNCHANGED <<current, traces, spans, decorated, blocks>> /\ current[c] # None
    BY DEF AddRollupField, allVars, vars, clientVars
  <1>2. PICK t \in 1..Len(traces) : t = current[c]
    BY <1>1, PathType
  <1>3. Path(c) # <<>>
    BY <1>1 DEF BalancedInv
  <1>4. ActiveSpan(c) # None
    <2>1. ActiveSpan(c) \in 1..Len(spans)
      BY <1>3, PathEnd
    <2> QED
      BY <2>1 DEF None
  <1>5. PICK a \in 1..Len(spans) : a = ActiveSpan(c) /\ spans[a].trace = traces[t].id
    BY <1>2, <1>4, ActiveSpanOwn
  <1>6. tdata[t] \in TraceData /\ sdata[a] \in SpanData
    BY ElementOfSeq DEF DataInv, TraceDataOK, SpanDataOK
  <1>7. tdata[t].rollup \in Nat /\ tdata[t].rollup < MaxRollup
    BY <1>2, <1>6, FieldsAssumption DEF TraceData, AddRollupField
  <1>8. PICK d : d = [tdata[t] EXCEPT !.rollup = @ + 1]
    OBVIOUS
  <1>9. PICK e : e = [sdata[a] EXCEPT !.rollup = @ + 1]
    OBVIOUS
  <1>10. /\ d \in TraceData /\ d.rollup = tdata[t].rollup + 1 /\ d.dataset = tdata[t].dataset
         /\ e \in SpanData /\ e.rollup = sdata[a].rollup + 1
         /\ e.total = sdata[a].total /\ e.dataset = sdata[a].dataset
    <2>1. d \in TraceData /\ d.rollup = tdata[t].rollup + 1 /\ d.dataset = tdata[t].dataset
      BY <1>6, <1>7, <1>8, FieldsAssumption DEF TraceData
    <2>2. /\ e \in SpanData /\ e.rollup = sdata[a].rollup + 1
          /\ e.total = sdata[a].total /\ e.dataset = sdata[a].dataset
      BY <1>6, <1>9 DEF SpanData
    <2> QED
      BY <2>1, <2>2
  <1>11. tdata' = [tdata EXCEPT ![t] = d] /\ sdata' = [sdata EXCEPT ![a] = e]
    BY <1>2, <1>4, <1>5, <1>8, <1>9 DEF AddRollupField
  <1>12. tdata'[t] = d /\ \A u \in 1..Len(traces) : u # t => tdata'[u] = tdata[u]
    BY <1>1, <1>10, <1>11, TraceDataSet DEF DataInv
  <1>13. sdata'[a] = e /\ \A s \in 1..Len(spans) : s # a => sdata'[s] = sdata[s]
    BY <1>1, <1>10, <1>11, SpanDataSet DEF DataInv
  <1>14. /\ \A u : Alone(u)' <=> Alone(u)
         /\ \A s : Open(s)' <=> Open(s)
         /\ \A u, s : Within(u, s)' <=> Within(u, s)
    BY <1>1 DEF Alone, Open, Holds, Within
  <1>15. /\ \A s \in 1..Len(spans) : sdata'[s].total = sdata[s].total /\ sdata'[s].dataset = sdata[s].dataset
         /\ \A u \in 1..Len(traces) : tdata'[u].dataset = tdata[u].dataset
    BY <1>10, <1>12, <1>13
  <1>16. SumsOK'
    <2> SUFFICES ASSUME NEW u \in 1..Len(traces), Alone(u)
                 PROVE  tdata'[u].rollup = RollupsOf(traces[u].id)'
      BY <1>1, <1>14 DEF SumsOK
    <2>1. PICK f, g, S, id : /\ f = Rollups /\ g = Rollups' /\ S = SpansOf(id)
                             /\ id = traces[u].id
      OBVIOUS
    <2>2. /\ IsFiniteSet(S) /\ S \subseteq 1..Len(spans) /\ DOMAIN spans = 1..Len(spans)
          /\ \A s \in 1..Len(spans) : f[s] = sdata[s].rollup /\ f[s] \in Nat
      BY <2>1, RollupsType DEF DataInv
    <2>3. \A s \in 1..Len(spans) : g[s] = sdata'[s].rollup
      BY <1>1, <2>1, <2>2 DEF Rollups
    <2>4. RollupsOf(traces[u].id)' = Sum(g, S) /\ tdata[u].rollup = Sum(f, S)
      <3>1. SpansOf(id)' = SpansOf(id) /\ traces'[u].id = id
        BY <1>1, <2>1 DEF SpansOf
      <3>2. RollupsOf(id)' = Sum(g, S) /\ RollupsOf(id) = Sum(f, S)
        BY <2>1, <3>1, RollupsSum
      <3> QED
        BY <2>1, <3>1, <3>2 DEF TotalsInv, SumsOK
    <2>5. CASE u = t
      <3>1. a \in S
        BY <1>5, <2>1, <2>2, <2>5 DEF SpansOf
      <3>2. g[a] = f[a] + 1 /\ \A s \in S : s # a => g[s] = f[s]
        BY <1>10, <1>13, <2>2, <2>3
      <3>3. \A s \in S : f[s] \in Nat
        BY <2>2
      <3>4. Sum(g, S) = Sum(f, S) + 1
        BY <2>2, <3>1, <3>2, <3>3, SumPlusOne
      <3> QED
        BY <1>10, <1>12, <2>4, <2>5, <3>4
    <2>6. CASE u # t
      <3>1. a \notin S
        BY <1>5, <2>1, <2>6 DEF SpansOf, Alone
      <3>2. \A s \in S : f[s] = g[s] /\ f[s] \in Nat
        BY <1>13, <2>2, <2>3, <3>1
      <3>3. Sum(f, S) = Sum(g, S)
        BY <2>2, <3>2, SumSame
      <3> QED
        BY <1>12, <2>4, <2>6, <3>3
    <2> QED
      BY <2>5, <2>6
  <1>17. SpansHeld' /\ CopiesNotAlone'
    BY <1>1, <1>14 DEF TotalsInv, SpansHeld, CopiesNotAlone
  <1>18. DatasetsOK'
    BY <1>1, <1>14, <1>15 DEF TotalsInv, DatasetsOK
  <1>19. EndedOK'
    BY <1>1, <1>2, <1>12, <1>14, <1>15 DEF TotalsInv, EndedOK
  <1> QED
    BY <1>16, <1>17, <1>18, <1>19 DEF TotalsInv

\* The totals hold of no trace.
LEMMA TotalsInit == FieldsInit => TotalsInv
  <1>1. FieldsInit => Len(traces) = 0 /\ Len(spans) = 0 /\ decorated = {}
    BY DEF FieldsInit, BlocksInit, Init
  <1> QED
    BY <1>1 DEF TotalsInv, SpansHeld, CopiesNotAlone, SumsOK, DatasetsOK, EndedOK

\* Every step keeps them.
LEMMA TotalsStep ==
  ASSUME MatchedInv, DataInv, TotalsInv, [FieldsNext]_fieldVars
  PROVE  TotalsInv'
  <1>1. ASSUME UNCHANGED <<traces, spans, blocks, decorated, current, tdata, sdata>>
        PROVE  TotalsInv'
    BY <1>1, TotalsFrame DEF MatchedInv, EventsInv, TraceRest, SpanRest
  <1>2. CASE UNCHANGED fieldVars
    BY <1>1, <1>2 DEF fieldVars, allVars, vars, clientVars, dataVars
  <1>3. ASSUME NEW c \in Ctx, FieldsEnter(c) PROVE TotalsInv'
    BY <1>3, EnterTotals DEF FieldsEnter
  <1>4. ASSUME NEW c \in Ctx, FieldsEnterTrace(c) PROVE TotalsInv'
    BY <1>4, EnterTotals DEF FieldsEnterTrace
  <1>5. ASSUME NEW c \in Ctx, FieldsExit(c) PROVE TotalsInv'
    BY <1>5, ExitTotals
  <1>6. ASSUME NEW c \in Ctx, FieldsDecorate(c) PROVE TotalsInv'
    BY <1>6, DecorateTotals
  <1>7. ASSUME NEW c \in Ctx, FieldsJob(c) PROVE TotalsInv'
    BY <1>7, JobTotals
  <1>8. ASSUME NEW c \in Ctx, NEW k, NEW v, SetContext(c, k, v), UNCHANGED allVars,
               \A t \in 1..Len(traces) : TraceRest(t)' = TraceRest(t)
        PROVE  TotalsInv'
    <2>1. \A s \in 1..Len(spans) : SpanRest(s)' = SpanRest(s)
      BY <1>8, SetContextRest
    <2>2. UNCHANGED <<traces, spans, blocks, decorated, current>>
      BY <1>8 DEF allVars, vars, clientVars
    <2> QED
      BY <1>8, <2>1, <2>2, TotalsFrame DEF MatchedInv, EventsInv
  <1>9. ASSUME NEW c \in Ctx, NEW k \in Key, AddContextField(c, k) \/ RemoveContextField(c, k)
        PROVE  TotalsInv'
    <2>1. PICK v : SetContext(c, k, v)
      BY <1>9 DEF AddContextField, RemoveContextField
    <2>2. UNCHANGED allVars /\ \A t \in 1..Len(traces) : TraceRest(t)' = TraceRest(t)
      BY <1>9 DEF AddContextField, RemoveContextField, TraceRest
    <2> QED
      BY <1>8, <2>1, <2>2
  <1>10. ASSUME NEW c \in Ctx, NEW n, AddTraceField(c, n) \/ RemoveTraceField(c, n)
         PROVE  TotalsInv'
    <2>1. PICK k, v : /\ SetContext(c, k, v)
                      /\ tdata' = [tdata EXCEPT ![current[c]].fields[k] = v]
      BY <1>10 DEF AddTraceField, RemoveTraceField
    <2>2. current[c] # None /\ UNCHANGED allVars
      BY <1>10 DEF AddTraceField, RemoveTraceField
    <2>3. \A t \in 1..Len(traces) : TraceRest(t)' = TraceRest(t)
      BY <2>1, <2>2, TraceFieldRest
    <2> QED
      BY <1>8, <2>1, <2>2, <2>3
  <1>11. ASSUME NEW c \in Ctx, AddRollupField(c) PROVE TotalsInv'
    BY <1>11, RollupTotals
  <1> QED
    BY <1>2, <1>3, <1>4, <1>5, <1>6, <1>7, <1>9, <1>10, <1>11 DEF FieldsNext

\* The one Trace object with an id is alone.
LEMMA OneIsAlone ==
  ASSUME HeapOK, NEW t \in 1..Len(traces), Cardinality(TracesOf(traces[t].id)) = 1
  PROVE  Alone(t)
  <1>1. PICK T : T = TracesOf(traces[t].id)
    OBVIOUS
  <1>2. DOMAIN traces = 1..Len(traces) /\ Len(traces) \in Nat
    BY LenProperties DEF HeapOK
  <1>3. IsFiniteSet(T)
    <2>1. IsFiniteSet(1..Len(traces))
      BY <1>2, FS_Interval
    <2>2. T \subseteq 1..Len(traces)
      BY <1>1, <1>2 DEF TracesOf
    <2> QED
      BY <2>1, <2>2, FS_Subset
  <1>4. PICK x : T = {x}
    BY <1>1, <1>3, FS_Singleton
  <1> QED
    BY <1>1, <1>2, <1>4 DEF TracesOf, Alone

\* Whatever is added in which span, a trace that no thread handed to another is reported
\* whole: when its root is finished all its spans are, with one dataset, and the root's
\* total is the sum of what they have.
THEOREM UncopiedIsWholeCorrect ==
  ASSUME ~Reuse, ~Generators
  PROVE  FieldsSpec => []UncopiedIsWhole
  <1>1. MatchedInv /\ DataInv /\ TotalsInv => UncopiedIsWhole
    <2> SUFFICES ASSUME MatchedInv, DataInv, TotalsInv, NEW s \in DOMAIN spans,
                        spans[s].root, Finished(s), Cardinality(TracesOf(spans[s].trace)) = 1
                 PROVE  /\ sdata[s].total = RollupsOf(spans[s].trace)
                        /\ \A u \in SpansOf(spans[s].trace) : sdata[u].dataset = sdata[s].dataset
      BY DEF UncopiedIsWhole
    <2>1. DOMAIN spans = 1..Len(spans)
      BY LenProperties DEF MatchedInv, EventsInv, HeapOK
    <2>2. PICK t \in 1..Len(traces) : traces[t].id = spans[s].trace
      BY <2>1 DEF TotalsInv, SpansHeld
    <2>3. Alone(t) /\ Within(t, s)
      BY <2>2, OneIsAlone DEF Within, MatchedInv, EventsInv
    <2>4. ~Open(s)
      <3>1. \A c \in Ctx : DOMAIN blocks[c] = 1..Len(blocks[c])
        BY LenProperties DEF MatchedInv, EventsInv, ClientOK
      <3> QED
        BY <3>1 DEF Finished, Open, Holds, ToSet
    <2>5. sdata[s].total = tdata[t].rollup /\ \A c \in Ctx : current[c] # t
      BY <2>1, <2>3, <2>4 DEF TotalsInv, EndedOK
    <2>6. tdata[t].rollup = RollupsOf(spans[s].trace)
      BY <2>2, <2>3 DEF TotalsInv, SumsOK
    <2>7. ASSUME NEW u \in 1..Len(spans), spans[u].trace = spans[s].trace
          PROVE  sdata[u].dataset = tdata[t].dataset
      <3>1. Within(t, u)
        BY <2>2, <2>3, <2>7 DEF Within
      <3>2. ~Open(u)
        <4>1. SUFFICES ASSUME NEW c \in Ctx, Holds(c, u) PROVE FALSE
          BY DEF Open
        <4>2. current[c] \in 1..Len(traces) /\ spans[u].trace = traces[current[c]].id
          BY <4>1, OpenCurrent
        <4> QED
          BY <2>2, <2>3, <2>5, <2>7, <4>2 DEF Alone
      <3> QED
        BY <3>1, <3>2 DEF TotalsInv, DatasetsOK
    <2> QED
      BY <2>1, <2>5, <2>6, <2>7 DEF SpansOf
  <1> QED
    BY <1>1, TotalsInit, TotalsStep, DataCorrect, PTL DEF FieldsSpec

=============================================================================
