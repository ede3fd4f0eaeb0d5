---------------------------- MODULE TracerProofs ----------------------------
(***************************************************************************)
(* What the tracer core keeps for every number of contexts, traces and     *)
(* spans, whatever the client does.                                        *)
(***************************************************************************)
EXTENDS Tracer, SequenceTheorems, TLAPS

-----------------------------------------------------------------------------
(* Sequences *)

\* What Append makes.
LEMMA SeqAppend ==
  ASSUME NEW S, NEW s \in Seq(S), NEW e \in S
  PROVE  /\ Append(s, e) \in Seq(S)
         /\ Len(Append(s, e)) = Len(s) + 1
         /\ \A i \in 1..Len(s) : Append(s, e)[i] = s[i]
         /\ Append(s, e)[Len(s) + 1] = e
  OBVIOUS

\* What Front and Last take from a sequence that has an element.
LEMMA SeqFront ==
  ASSUME NEW S, NEW s \in Seq(S), s # <<>>
  PROVE  /\ Len(s) \in Nat \ {0}
         /\ Front(s) \in Seq(S)
         /\ Len(Front(s)) = Len(s) - 1
         /\ \A i \in 1..(Len(s) - 1) : Front(s)[i] = s[i]
         /\ Last(s) = s[Len(s)]
         /\ Last(s) \in S
  <1>1. PICK n \in Nat \ {0} : n = Len(s)
    BY EmptySeq
  <1>2. SubSeq(s, 1, n - 1) \in Seq(S) /\ Len(SubSeq(s, 1, n - 1)) = n - 1
    BY <1>1
  <1>3. \A i \in 1..(n - 1) : SubSeq(s, 1, n - 1)[i] = s[i]
    BY <1>1
  <1>4. s[n] \in S
    BY <1>1, ElementOfSeq
  <1> QED
    BY <1>1, <1>2, <1>3, <1>4 DEF Front, Last

\* The last element of a sequence after Append.
LEMMA LastAppended ==
  ASSUME NEW S, NEW s \in Seq(S), NEW e
  PROVE  /\ Append(s, e) # <<>>
         /\ Last(Append(s, e)) = e
         /\ Len(Append(s, e)) = Len(s) + 1
         /\ Append(s, e)[Len(s) + 1] = e
         /\ \A i \in 1..Len(s) : Append(s, e)[i] = s[i]
         /\ Append(s, e) \in Seq(S \cup {e})
  <1>1. s \in Seq(S \cup {e}) /\ e \in S \cup {e} /\ Len(s) \in Nat
    BY SeqMonotonic, LenProperties
  <1>2. /\ Append(s, e) \in Seq(S \cup {e})
        /\ Len(Append(s, e)) = Len(s) + 1
        /\ \A i \in 1..Len(s) : Append(s, e)[i] = s[i]
        /\ Append(s, e)[Len(s) + 1] = e
    BY <1>1, SeqAppend
  <1>3. Append(s, e) # <<>>
    BY <1>1, <1>2, EmptySeq
  <1>4. Last(Append(s, e)) = Append(s, e)[Len(Append(s, e))]
    BY DEF Last
  <1> QED
    BY <1>2, <1>3, <1>4

\* The same of the last element alone, for any set.
LEMMA LastPushed ==
  \A S : \A s \in Seq(S) : \A e : Append(s, e) # <<>> /\ Last(Append(s, e)) = e
  <1>1. TAKE S
  <1>2. TAKE s \in Seq(S)
  <1>3. TAKE e
  <1> DEFINE se == Append(s, e)
  <1>4. se # <<>> /\ Last(se) = e
    BY LastAppended, ZenonT(30)
  <1> QED
    BY <1>4

\* The empty sequence is neutral on the right of a concatenation.
LEMMA ConcatEmpty ==
  ASSUME NEW S, NEW b \in Seq(S), NEW s \in Seq(S), b \o s = <<>>
  PROVE  b = <<>> /\ s = <<>>
  <1>1. Len(b \o s) = Len(b) + Len(s) /\ Len(b) \in Nat /\ Len(s) \in Nat
    BY ConcatProperties, LenProperties
  <1>2. Len(b) = 0 /\ Len(s) = 0
    BY <1>1, EmptySeq
  <1> QED
    BY <1>2, EmptySeq

\* Dropping the last element of a concatenation drops it from the second part.
LEMMA ConcatFront ==
  ASSUME NEW S, NEW b \in Seq(S), NEW s \in Seq(S), s # <<>>
  PROVE  /\ b \o s # <<>>
         /\ Last(b \o s) = Last(s)
         /\ Front(b \o s) = b \o Front(s)
  <1>1. PICK m \in Nat, n \in Nat \ {0} : m = Len(b) /\ n = Len(s)
    BY LenProperties, EmptySeq
  <1>2. /\ b \o s \in Seq(S) /\ Len(b \o s) = m + n
        /\ \A i \in 1..(m + n) : (b \o s)[i] = IF i <= m THEN b[i] ELSE s[i - m]
    BY <1>1, ConcatProperties
  <1>3. /\ Front(s) \in Seq(S) /\ Len(Front(s)) = n - 1
        /\ \A i \in 1..(n - 1) : Front(s)[i] = s[i]
        /\ Last(s) = s[n]
    BY <1>1, SeqFront
  <1>4. b \o s # <<>>
    BY <1>1, <1>2, EmptySeq
  <1>5. /\ Front(b \o s) \in Seq(S) /\ Len(Front(b \o s)) = m + n - 1
        /\ \A i \in 1..(m + n - 1) : Front(b \o s)[i] = (b \o s)[i]
        /\ Last(b \o s) = (b \o s)[m + n]
    <2>1. PICK w \in Seq(S) : w = b \o s
      BY <1>2
    <2>2. w # <<>> /\ Len(w) = m + n
      BY <1>2, <1>4, <2>1
    <2>3. /\ Front(w) \in Seq(S) /\ Len(Front(w)) = Len(w) - 1
          /\ \A i \in 1..(Len(w) - 1) : Front(w)[i] = w[i]
          /\ Last(w) = w[Len(w)]
      BY <2>1, <2>2, SeqFront
    <2> QED
      BY <2>1, <2>2, <2>3
  <1>6. /\ b \o Front(s) \in Seq(S) /\ Len(b \o Front(s)) = m + n - 1
        /\ \A i \in 1..(m + n - 1) : (b \o Front(s))[i] = IF i <= m THEN b[i] ELSE Front(s)[i - m]
    <2>1. PICK f \in Seq(S) : f = Front(s)
      BY <1>3
    <2>2. Len(f) = n - 1
      BY <1>3, <2>1
    <2>3. /\ b \o f \in Seq(S) /\ Len(b \o f) = Len(b) + Len(f)
          /\ \A i \in 1..(Len(b) + Len(f)) : (b \o f)[i] = IF i <= Len(b) THEN b[i] ELSE f[i - Len(b)]
      BY ConcatProperties
    <2>4. Len(b) + Len(f) = m + n - 1
      BY <1>1, <2>2
    <2> QED
      BY <1>1, <2>1, <2>3, <2>4
  <1>7. ASSUME NEW i \in 1..(m + n - 1)
        PROVE  Front(b \o s)[i] = (b \o Front(s))[i]
    <2>1. i \in 1..(m + n) /\ (i > m => i - m \in 1..(n - 1))
      BY <1>1
    <2> QED
      BY <1>2, <1>3, <1>5, <1>6, <2>1
  <1>8. Front(b \o s) = b \o Front(s)
    BY <1>5, <1>6, <1>7, SeqEqual
  <1>9. Last(b \o s) = Last(s)
    BY <1>1, <1>2, <1>3, <1>5
  <1> QED
    BY <1>4, <1>8, <1>9

\* What RemoveAt leaves.
LEMMA SeqRemoveAt ==
  ASSUME NEW S, NEW s \in Seq(S), NEW i \in 1..Len(s)
  PROVE  /\ RemoveAt(s, i) \in Seq(S)
         /\ Len(RemoveAt(s, i)) = Len(s) - 1
         /\ \A j \in 1..(Len(s) - 1) : RemoveAt(s, i)[j] = s[IF j < i THEN j ELSE j + 1]
  <1>1. PICK n \in Nat : n = Len(s)
    BY LenProperties
  <1>2. i \in 1..n /\ n >= 1
    BY <1>1
  <1>3. /\ SubSeq(s, 1, i - 1) \in Seq(S) /\ Len(SubSeq(s, 1, i - 1)) = i - 1
        /\ \A j \in 1..(i - 1) : SubSeq(s, 1, i - 1)[j] = s[j]
    BY <1>1, <1>2
  <1>4. /\ SubSeq(s, i + 1, n) \in Seq(S) /\ Len(SubSeq(s, i + 1, n)) = n - i
        /\ \A j \in 1..(n - i) : SubSeq(s, i + 1, n)[j] = s[j + i]
    BY <1>1, <1>2
  <1>5. PICK u \in Seq(S), v \in Seq(S) : u = SubSeq(s, 1, i - 1) /\ v = SubSeq(s, i + 1, n)
    BY <1>3, <1>4
  <1>6. /\ u \o v \in Seq(S) /\ Len(u \o v) = Len(u) + Len(v)
        /\ \A j \in 1..(Len(u) + Len(v)) : (u \o v)[j] = IF j <= Len(u) THEN u[j] ELSE v[j - Len(u)]
    BY ConcatProperties
  <1>7. Len(u) = i - 1 /\ Len(v) = n - i /\ Len(u) + Len(v) = n - 1
    BY <1>2, <1>3, <1>4, <1>5
  <1>8. ASSUME NEW j \in 1..(n - 1)
        PROVE  (u \o v)[j] = s[IF j < i THEN j ELSE j + 1]
    <2>1. (u \o v)[j] = IF j <= i - 1 THEN u[j] ELSE v[j - (i - 1)]
      BY <1>6, <1>7
    <2>2. CASE j < i
      <3>1. j \in 1..(i - 1) /\ j <= i - 1
        BY <1>2, <2>2
      <3> QED
        BY <1>3, <1>5, <2>1, <2>2, <3>1
    <2>3. CASE ~(j < i)
      <3>1. j - (i - 1) \in 1..(n - i) /\ (j - (i - 1)) + i = j + 1
        BY <1>2, <2>3
      <3>2. v[j - (i - 1)] = s[(j - (i - 1)) + i]
        BY <1>4, <1>5, <3>1
      <3> QED
        BY <1>2, <2>1, <2>3, <3>1, <3>2
    <2> QED
      BY <2>2, <2>3
  <1> QED
    BY <1>1, <1>5, <1>6, <1>7, <1>8 DEF RemoveAt

\* Front removes the last element.
LEMMA FrontRemoves ==
  ASSUME NEW S, NEW s \in Seq(S), s # <<>>
  PROVE  /\ Len(s) \in 1..Len(s) /\ Last(s) = s[Len(s)]
         /\ Front(s) = RemoveAt(s, Len(s))
  <1>1. PICK n \in Nat \ {0} : n = Len(s)
    BY EmptySeq
  <1>2. /\ Last(s) = s[n] /\ Front(s) \in Seq(S) /\ Len(Front(s)) = n - 1
        /\ \A i \in 1..(n - 1) : Front(s)[i] = s[i]
    BY <1>1, SeqFront
  <1>3. /\ RemoveAt(s, n) \in Seq(S) /\ Len(RemoveAt(s, n)) = n - 1
        /\ \A i \in 1..(n - 1) : RemoveAt(s, n)[i] = s[IF i < n THEN i ELSE i + 1]
    <2>1. n \in 1..Len(s)
      BY <1>1
    <2> QED
      BY <1>1, <2>1, SeqRemoveAt
  <1>4. \A i \in 1..(n - 1) : i < n
    OBVIOUS
  <1>5. Front(s) = RemoveAt(s, n)
    BY <1>2, <1>3, <1>4, SeqEqual
  <1> QED
    BY <1>1, <1>2, <1>5

\* Taking the last element off what Append made.
LEMMA FrontAppended ==
  ASSUME NEW S, NEW s \in Seq(S), NEW e \in S
  PROVE  Front(Append(s, e)) = s
  <1>1. /\ Append(s, e) \in Seq(S)
        /\ Len(Append(s, e)) = Len(s) + 1 /\ Len(s) \in Nat
        /\ \A i \in 1..Len(s) : Append(s, e)[i] = s[i]
    BY SeqAppend, LenProperties
  <1>2. PICK w \in Seq(S) : w = Append(s, e)
    BY <1>1
  <1>3. w # <<>>
    BY <1>1, <1>2, EmptySeq
  <1>4. /\ Front(w) \in Seq(S) /\ Len(Front(w)) = Len(s)
        /\ \A i \in 1..Len(s) : Front(w)[i] = w[i]
    <2>1. /\ Front(w) \in Seq(S) /\ Len(Front(w)) = Len(w) - 1
          /\ \A i \in 1..(Len(w) - 1) : Front(w)[i] = w[i]
      BY <1>3, SeqFront
    <2>2. Len(w) - 1 = Len(s)
      BY <1>1, <1>2
    <2> QED
      BY <2>1, <2>2
  <1>5. \A i \in 1..Len(s) : Front(w)[i] = s[i]
    BY <1>1, <1>2, <1>4
  <1>6. Front(w) = s
    BY <1>4, <1>5, SeqEqual
  <1> QED
    BY <1>2, <1>6

\* Appending to a concatenation appends to its second part.
LEMMA ConcatAppend ==
  ASSUME NEW S, NEW b \in Seq(S), NEW s \in Seq(S), NEW e \in S, NEW w \in Seq(S), w = b \o s
  PROVE  Append(w, e) = b \o Append(s, e)
  <1>1. <<e>> \in Seq(S)
    OBVIOUS
  <1>2. Append(w, e) = (b \o s) \o <<e>> /\ Append(s, e) = s \o <<e>>
    BY <1>1, AppendIsConcat
  <1> QED
    BY <1>1, <1>2, ConcatAssociative
-----------------------------------------------------------------------------
(* The type invariant *)

TraceSet(n, m) == [id : CallerId \cup (1..n), stack : Seq(1..m)]

SpanSet(n, m) ==
  [trace : CallerId \cup (1..n), parent : (0..m) \cup {Remote},
   root : BOOLEAN, type : {"root", "subroot", "child"}]

HeapOK ==
  /\ traces \in Seq(TraceSet(Len(traces), Len(spans)))
  /\ spans \in Seq(SpanSet(Len(traces), Len(spans)))
  /\ sent \in Seq(0..2) /\ Len(sent) = Len(spans)

RefsOK ==
  /\ current \in [Ctx -> 0..Len(traces)]
  /\ sending \in [Ctx -> 0..Len(spans)]
  /\ decorated \subseteq 1..Len(traces)

\* TypeOK in two parts: the heap of objects, and the references into it.
LEMMA TypeOKParts == TypeOK <=> HeapOK /\ RefsOK
  BY DEF TypeOK, HeapOK, RefsOK, TraceSet, SpanSet

\* The objects made so far are still objects when more are made.
LEMMA ObjectSetsGrow ==
  ASSUME NEW n \in Nat, NEW m \in Nat, NEW n2 \in Nat, NEW m2 \in Nat, n <= n2, m <= m2
  PROVE  TraceSet(n, m) \subseteq TraceSet(n2, m2) /\ SpanSet(n, m) \subseteq SpanSet(n2, m2)
  <1>1. 1..n \subseteq 1..n2 /\ 1..m \subseteq 1..m2 /\ 0..m \subseteq 0..m2
    OBVIOUS
  <1>2. Seq(1..m) \subseteq Seq(1..m2)
    BY <1>1, SeqMonotonic
  <1> QED
    BY <1>1, <1>2 DEF TraceSet, SpanSet

\* The heap after a span is pushed.
LEMMA PushSpanType ==
  ASSUME HeapOK, NEW id \in CallerId \cup (1..Len(traces')), NEW parent \in (0..Len(spans)) \cup {Remote},
         NEW root \in BOOLEAN, NEW type \in {"root", "subroot", "child"},
         Len(traces') \in Nat, Len(traces') >= Len(traces),
         PushSpan(id, parent, root, type)
  PROVE  /\ Len(spans') = Len(spans) + 1 /\ Len(spans) \in Nat
         /\ spans' \in Seq(SpanSet(Len(traces'), Len(spans')))
         /\ sent' \in Seq(0..2) /\ Len(sent') = Len(spans')
  <1> DEFINE n == Len(traces)
             m == Len(spans)
             new == [trace |-> id, parent |-> parent, root |-> root, type |-> type]
  <1>1. n \in Nat /\ m \in Nat
    BY LenProperties DEF HeapOK
  <1>2. SpanSet(n, m) \subseteq SpanSet(Len(traces'), m + 1)
    BY <1>1, ObjectSetsGrow
  <1>3. new \in SpanSet(Len(traces'), m + 1)
    BY <1>1 DEF SpanSet
  <1>4. spans \in Seq(SpanSet(Len(traces'), m + 1))
    BY <1>2, SeqMonotonic DEF HeapOK
  <1>5. /\ Append(spans, new) \in Seq(SpanSet(Len(traces'), m + 1))
        /\ Len(Append(spans, new)) = m + 1
    BY <1>3, <1>4, SeqAppend
  <1>6. Append(sent, 0) \in Seq(0..2) /\ Len(Append(sent, 0)) = Len(sent) + 1
    BY SeqAppend DEF HeapOK
  <1> QED
    BY <1>1, <1>5, <1>6 DEF PushSpan, HeapOK

\* A Trace that a context or a copy refers to, and its stack.
LEMMA TraceType ==
  ASSUME HeapOK, NEW t \in 1..Len(traces)
  PROVE  /\ traces[t].id \in CallerId \cup (1..Len(traces))
         /\ traces[t].stack \in Seq(1..Len(spans))
  <1>1. traces[t] \in TraceSet(Len(traces), Len(spans))
    BY ElementOfSeq DEF HeapOK
  <1> QED
    BY <1>1 DEF TraceSet

\* get_active_span returns a span that exists, or None.
LEMMA ActiveSpanType ==
  ASSUME HeapOK, RefsOK, NEW c \in Ctx
  PROVE  ActiveSpan(c) \in 0..Len(spans)
  <1>1. Len(spans) \in Nat
    BY LenProperties DEF HeapOK
  <1>2. CASE current[c] # None /\ Stack(c) # <<>>
    <2>1. current[c] \in 1..Len(traces)
      BY <1>2, LenProperties DEF RefsOK, HeapOK, None
    <2>2. Last(Stack(c)) \in 1..Len(spans)
      BY <1>2, <2>1, TraceType, SeqFront DEF Stack
    <2> QED
      BY <1>1, <1>2, <2>2 DEF ActiveSpan
  <1>3. CASE ~(current[c] # None /\ Stack(c) # <<>>)
    BY <1>1, <1>3 DEF ActiveSpan, None
  <1> QED
    BY <1>2, <1>3

\* Replacing the stack of a Trace, by a longer one or a shorter one.
LEMMA StackChangeType ==
  ASSUME HeapOK, NEW m \in Nat, m >= Len(spans), NEW t \in 1..Len(traces), NEW st \in Seq(1..m)
  PROVE  /\ [traces EXCEPT ![t].stack = st] \in Seq(TraceSet(Len(traces), m))
         /\ Len([traces EXCEPT ![t].stack = st]) = Len(traces)
  <1>1. Len(traces) \in Nat /\ Len(spans) \in Nat
    BY LenProperties DEF HeapOK
  <1>2. traces \in Seq(TraceSet(Len(traces), m))
    BY <1>1, ObjectSetsGrow, SeqMonotonic DEF HeapOK
  <1>3. [traces[t] EXCEPT !.stack = st] \in TraceSet(Len(traces), m)
    <2>1. traces[t] \in TraceSet(Len(traces), m)
      BY <1>2, ElementOfSeq
    <2> QED
      BY <2>1 DEF TraceSet
  <1>4. [traces EXCEPT ![t].stack = st] = [traces EXCEPT ![t] = [traces[t] EXCEPT !.stack = st]]
    OBVIOUS
  <1> QED
    BY <1>2, <1>3, <1>4, ExceptSeq

\* A new Trace object.
LEMMA NewTraceType ==
  ASSUME HeapOK, NEW m \in Nat, m >= Len(spans), NEW st \in Seq(1..m),
         NEW id \in CallerId \cup (1..(Len(traces) + 1)),
         traces' = Append(traces, [id |-> id, stack |-> st])
  PROVE  /\ traces' \in Seq(TraceSet(Len(traces'), m))
         /\ Len(traces') = Len(traces) + 1 /\ Len(traces) \in Nat
  <1>1. Len(traces) \in Nat /\ Len(spans) \in Nat
    BY LenProperties DEF HeapOK
  <1>2. traces \in Seq(TraceSet(Len(traces) + 1, m))
    BY <1>1, ObjectSetsGrow, SeqMonotonic DEF HeapOK
  <1>3. [id |-> id, stack |-> st] \in TraceSet(Len(traces) + 1, m)
    BY DEF TraceSet
  <1> QED
    BY <1>1, <1>2, <1>3, SeqAppend

\* finish_span changes the heap only by counting the event and popping a stack.
LEMMA EmitAndPopType ==
  ASSUME HeapOK, RefsOK, NEW c \in Ctx, NEW s \in 1..Len(spans), NEW o \in Outcomes,
         Emit(s, o), Pop(c, s) \/ UNCHANGED traces, UNCHANGED spans
  PROVE  HeapOK' /\ Len(traces') = Len(traces)
  <1>1. sent' \in Seq(0..2) /\ Len(sent') = Len(spans')
    <2>1. CASE sent' = sent
      BY <2>1 DEF HeapOK
    <2>2. CASE sent' = [sent EXCEPT ![s] = @ + 1] /\ sent[s] < 2
      <3>1. s \in 1..Len(sent) /\ sent[s] + 1 \in 0..2
        BY <2>2, ElementOfSeq DEF HeapOK
      <3> QED
        BY <2>2, <3>1, ExceptSeq DEF HeapOK
    <2> QED
      BY <2>1, <2>2 DEF Emit
  <1>2. traces' \in Seq(TraceSet(Len(traces), Len(spans))) /\ Len(traces') = Len(traces)
    <2>1. CASE traces' = traces
      BY <2>1 DEF HeapOK
    <2>2. CASE IsInnermost(c, s) /\ traces' = [traces EXCEPT ![current[c]].stack = Front(@)]
      <3>1. current[c] \in 1..Len(traces)
        BY <2>2, LenProperties DEF IsInnermost, RefsOK, HeapOK, None
      <3>2. Front(traces[current[c]].stack) \in Seq(1..Len(spans))
        BY <2>2, <3>1, TraceType, SeqFront DEF IsInnermost, Stack
      <3>3. traces' = [traces EXCEPT ![current[c]].stack = Front(traces[current[c]].stack)]
        BY <2>2
      <3>4. Len(spans) \in Nat /\ Len(spans) >= Len(spans)
        BY LenProperties DEF HeapOK
      <3> QED
        BY <3>1, <3>2, <3>3, <3>4, StackChangeType
    <2> QED
      BY <2>1, <2>2 DEF Pop
  <1> QED
    BY <1>1, <1>2 DEF HeapOK

\* What finish_trace and finish_span leave, however they are reached.
LEMMA CloseType ==
  ASSUME HeapOK, RefsOK, NEW c \in Ctx, NEW s \in 1..Len(spans), NEW o \in Outcomes,
         FinishSpan(c, s, o) \/ FinishTrace(c, s, o)
  PROVE  /\ HeapOK' /\ Len(traces') = Len(traces) /\ UNCHANGED spans
         /\ current' \in [Ctx -> 0..Len(traces)]
  <1>1. HeapOK' /\ Len(traces') = Len(traces) /\ UNCHANGED spans
    BY EmitAndPopType DEF FinishSpan, FinishTrace
  <1>2. Len(traces) \in Nat
    BY LenProperties DEF HeapOK
  <1> QED
    BY <1>1, <1>2 DEF FinishSpan, FinishTrace, RefsOK, None

\* The lengths only grow, so the references stay valid.
LEMMA RefsStay ==
  ASSUME HeapOK, RefsOK, HeapOK', Len(traces') >= Len(traces), Len(spans') >= Len(spans)
  PROVE  /\ [Ctx -> 0..Len(traces)] \subseteq [Ctx -> 0..Len(traces')]
         /\ [Ctx -> 0..Len(spans)] \subseteq [Ctx -> 0..Len(spans')]
         /\ 1..Len(traces) \subseteq 1..Len(traces')
  BY LenProperties DEF HeapOK

\* start_trace keeps the types, also when it is given the id of a trace and a
\* parent that another service has made.
LEMMA StartTraceAnyType ==
  ASSUME HeapOK, RefsOK, NEW c \in Ctx, NEW id \in CallerId \cup (0..Len(traces)),
         NEW p \in (0..Len(spans)) \cup {Remote}, StartTrace(c, id, p)
  PROVE  (HeapOK /\ RefsOK)'
  <1> DEFINE tid == IF id = None THEN NewTrace ELSE id
  <1>1. Len(traces) \in Nat /\ Len(spans) \in Nat
    BY LenProperties DEF HeapOK
  <1>2. tid \in CallerId \cup (1..(Len(traces) + 1))
    BY <1>1 DEF NewTrace, None
  <1>3. <<NewSpan>> \in Seq(1..(Len(spans) + 1))
    BY <1>1 DEF NewSpan
  <1>4. /\ traces' \in Seq(TraceSet(Len(traces'), Len(spans) + 1))
        /\ Len(traces') = Len(traces) + 1
    <2>1. traces' = Append(traces, [id |-> tid, stack |-> <<NewSpan>>])
      BY DEF StartTrace
    <2>2. Len(spans) + 1 \in Nat /\ Len(spans) + 1 >= Len(spans)
      BY <1>1
    <2> QED
      BY <1>1, <1>2, <1>3, <2>1, <2>2, NewTraceType
  <1>5. /\ Len(spans') = Len(spans) + 1
        /\ spans' \in Seq(SpanSet(Len(traces'), Len(spans')))
        /\ sent' \in Seq(0..2) /\ Len(sent') = Len(spans')
    <2>1. p \in (0..Len(spans)) \cup {Remote}
      OBVIOUS
    <2>2. PushSpan(tid, p, TRUE, IF p = None THEN "root" ELSE "subroot")
      BY DEF StartTrace
    <2>3. (IF p = None THEN "root" ELSE "subroot") \in {"root", "subroot", "child"}
      OBVIOUS
    <2>4. Len(traces') \in Nat /\ Len(traces') >= Len(traces) /\ tid \in CallerId \cup (1..Len(traces'))
      BY <1>1, <1>2, <1>4
    <2> HIDE DEF tid
    <2> QED
      BY <2>1, <2>2, <2>3, <2>4, PushSpanType, LenProperties DEF HeapOK
  <1>6. HeapOK'
    BY <1>4, <1>5 DEF HeapOK
  <1>7. RefsOK'
    BY <1>1, <1>4, <1>5, <1>6, RefsStay DEF StartTrace, RefsOK, NewTrace
  <1> QED
    BY <1>6, <1>7

\* start_trace keeps the types, whatever id and parent a caller gives it.
LEMMA StartTraceType ==
  ASSUME HeapOK, RefsOK, NEW c \in Ctx, NEW id \in CallerId \cup {None}, NEW p \in Parents,
         StartTrace(c, id, p)
  PROVE  (HeapOK /\ RefsOK)'
  <1>1. id \in CallerId \cup (0..Len(traces)) /\ p \in (0..Len(spans)) \cup {Remote}
    BY LenProperties DEF HeapOK, Parents, None
  <1> QED
    BY <1>1, StartTraceAnyType

\* start_span keeps the types, in a trace with an empty stack too.
LEMMA StartSpanType ==
  ASSUME HeapOK, RefsOK, NEW c \in Ctx, NEW p \in Parents, StartSpan(c, p)
  PROVE  (HeapOK /\ RefsOK)'
  <1> DEFINE t == current[c]
             up == IF p # None THEN p ELSE ActiveSpan(c)
  <1>1. Len(traces) \in Nat /\ Len(spans) \in Nat /\ t \in 1..Len(traces)
    BY LenProperties DEF HeapOK, RefsOK, StartSpan, None
  <1>2. traces[t].id \in CallerId \cup (1..Len(traces)) /\ traces[t].stack \in Seq(1..Len(spans))
    BY <1>1, TraceType
  <1>3. Append(traces[t].stack, NewSpan) \in Seq(1..(Len(spans) + 1))
    <2>1. traces[t].stack \in Seq(1..(Len(spans) + 1)) /\ NewSpan \in 1..(Len(spans) + 1)
      BY <1>1, <1>2, SeqMonotonic DEF NewSpan
    <2> QED
      BY <2>1, SeqAppend
  <1>4. /\ traces' \in Seq(TraceSet(Len(traces), Len(spans) + 1))
        /\ Len(traces') = Len(traces)
    <2>1. traces' = [traces EXCEPT ![t].stack = Append(traces[t].stack, NewSpan)]
      BY DEF StartSpan
    <2>2. Len(spans) + 1 \in Nat /\ Len(spans) + 1 >= Len(spans)
      BY <1>1
    <2> QED
      BY <1>1, <1>3, <2>1, <2>2, StackChangeType
  <1>5. /\ Len(spans') = Len(spans) + 1
        /\ spans' \in Seq(SpanSet(Len(traces'), Len(spans')))
        /\ sent' \in Seq(0..2) /\ Len(sent') = Len(spans')
    <2>1. up \in (0..Len(spans)) \cup {Remote}
      BY ActiveSpanType DEF Parents
    <2>2. PushSpan(traces[t].id, up, Stack(c) = <<>>, "child")
      BY DEF StartSpan
    <2>3. (Stack(c) = <<>>) \in BOOLEAN /\ "child" \in {"root", "subroot", "child"}
      OBVIOUS
    <2>4. /\ Len(traces') \in Nat /\ Len(traces') >= Len(traces)
          /\ traces[t].id \in CallerId \cup (1..Len(traces'))
      BY <1>1, <1>2, <1>4
    <2> HIDE DEF up, t
    <2> QED
      BY <2>1, <2>2, <2>3, <2>4, PushSpanType
  <1>6. HeapOK'
    BY <1>4, <1>5 DEF HeapOK
  <1>7. RefsOK'
    BY <1>1, <1>4, <1>5, <1>6, RefsStay DEF StartSpan, RefsOK
  <1> QED
    BY <1>6, <1>7

\* new_event keeps the types: it is one of the two calls above.
LEMMA NewEventType ==
  ASSUME HeapOK, RefsOK, NEW c \in Ctx, NewEvent(c)
  PROVE  (HeapOK /\ RefsOK)'
  <1>1. None \in Parents /\ None \in CallerId \cup {None}
    BY DEF Parents
  <1> QED
    BY <1>1, StartSpanType, StartTraceType DEF NewEvent

\* The actions that finish a span: none makes an object, and the references
\* of the other contexts stay.
LEMMA FinishType ==
  ASSUME HeapOK, RefsOK, NEW c \in Ctx, NEW s \in 1..Len(spans), NEW o \in Outcomes,
         FinishSpan(c, s, o) \/ FinishTrace(c, s, o),
         sending' \in [Ctx -> 0..Len(spans')], UNCHANGED decorated
  PROVE  (HeapOK /\ RefsOK)'
  BY CloseType DEF RefsOK

\* send_event keeps the types.
LEMMA SendEventType ==
  ASSUME HeapOK, RefsOK, NEW c \in Ctx, NEW o \in Outcomes, SendEvent(c, o)
  PROVE  (HeapOK /\ RefsOK)'
  <1>1. ActiveSpan(c) \in 1..Len(spans)
    BY ActiveSpanType, LenProperties DEF SendEvent, HeapOK, None
  <1>2. UNCHANGED spans /\ sending' \in [Ctx -> 0..Len(spans')]
    BY DEF SendEvent, Close, FinishSpan, FinishTrace, RefsOK
  <1> QED
    BY <1>1, <1>2, FinishType DEF SendEvent, Close

\* One turn of send_all keeps the types; the span it reads next exists.
LEMMA SendAllStepType ==
  ASSUME HeapOK, RefsOK, NEW c \in Ctx, NEW o \in Outcomes, SendAllStep(c, o)
  PROVE  (HeapOK /\ RefsOK)'
  <1> DEFINE s == sending[c]
  <1>1. s \in 1..Len(spans)
    BY LenProperties DEF SendAllStep, RefsOK, HeapOK, None
  <1>2. /\ HeapOK' /\ Len(traces') = Len(traces) /\ UNCHANGED spans
        /\ current' \in [Ctx -> 0..Len(traces)]
    BY <1>1, CloseType DEF SendAllStep, Close
  <1>3. ActiveSpan(c)' \in 0..Len(spans')
    <2>1. CASE current'[c] # None /\ Stack(c)' # <<>>
      <3>1. current'[c] \in 1..Len(traces')
        BY <1>2, <2>1, LenProperties DEF HeapOK, None
      <3>2. traces'[current'[c]].stack \in Seq(1..Len(spans'))
        <4>1. traces'[current'[c]] \in TraceSet(Len(traces'), Len(spans'))
          BY <1>2, <3>1, ElementOfSeq DEF HeapOK
        <4> QED
          BY <4>1 DEF TraceSet
      <3>3. Last(traces'[current'[c]].stack) \in 1..Len(spans')
        BY <2>1, <3>2, SeqFront DEF Stack
      <3> QED
        BY <2>1, <3>3, <1>2, LenProperties DEF ActiveSpan, Stack, HeapOK
    <2>2. CASE ~(current'[c] # None /\ Stack(c)' # <<>>)
      BY <1>2, <2>2, LenProperties DEF ActiveSpan, HeapOK, None
    <2> QED
      BY <2>1, <2>2
  <1>4. sending' \in [Ctx -> 0..Len(spans')]
    BY <1>2, <1>3, LenProperties DEF SendAllStep, RefsOK, HeapOK, None
  <1> QED
    BY <1>1, <1>4, FinishType DEF SendAllStep, Close

\* A copy of a Trace is a Trace.
LEMMA CopyType ==
  ASSUME HeapOK, NEW t \in 1..Len(traces), traces' = Append(traces, CopyOf(t)), UNCHANGED <<spans, sent>>
  PROVE  HeapOK' /\ Len(traces') = Len(traces) + 1 /\ Len(traces) \in Nat
  <1>1. Len(traces) \in Nat /\ Len(spans) \in Nat
    BY LenProperties DEF HeapOK
  <1>2. /\ traces[t].id \in CallerId \cup (1..(Len(traces) + 1))
        /\ traces[t].stack \in Seq(1..Len(spans))
    BY <1>1, TraceType
  <1>3. /\ traces' \in Seq(TraceSet(Len(traces'), Len(spans)))
        /\ Len(traces') = Len(traces) + 1
    BY <1>1, <1>2, NewTraceType DEF CopyOf
  <1>4. spans \in Seq(SpanSet(Len(traces'), Len(spans)))
    BY <1>1, <1>3, ObjectSetsGrow, SeqMonotonic DEF HeapOK
  <1> QED
    BY <1>1, <1>3, <1>4 DEF HeapOK

\* Decorating a function, and running it, keeps the types.
LEMMA TracedThreadType ==
  ASSUME HeapOK, RefsOK, NEW c \in Ctx, TracedThread(c)
  PROVE  (HeapOK /\ RefsOK)'
  <1>1. Len(traces) \in Nat /\ Len(spans) \in Nat /\ current[c] \in 1..Len(traces)
    BY LenProperties DEF HeapOK, RefsOK, TracedThread, None
  <1>2. HeapOK' /\ Len(traces') = Len(traces) + 1
    BY <1>1, CopyType DEF TracedThread
  <1>3. RefsOK'
    <2>1. Len(traces') >= Len(traces) /\ Len(spans') >= Len(spans) /\ NewTrace \in 1..Len(traces')
      BY <1>1, <1>2 DEF NewTrace, TracedThread
    <2>2. /\ current \in [Ctx -> 0..Len(traces')] /\ sending \in [Ctx -> 0..Len(spans')]
          /\ decorated \subseteq 1..Len(traces')
      BY <1>2, <2>1, RefsStay DEF RefsOK
    <2> QED
      BY <2>1, <2>2 DEF TracedThread, RefsOK
  <1> QED
    BY <1>2, <1>3

\* The beeline starts with no objects and no references.
LEMMA TypeInit == Init => HeapOK /\ RefsOK
  BY LenProperties DEF Init, HeapOK, RefsOK, None

\* Every call of the tracer keeps the types.
LEMMA TypeStep == HeapOK /\ RefsOK /\ [Next]_vars => (HeapOK /\ RefsOK)'
  <1> SUFFICES ASSUME HeapOK, RefsOK, [Next]_vars
               PROVE  (HeapOK /\ RefsOK)'
    OBVIOUS
  <1>1. ASSUME NEW c \in Ctx, NEW id \in CallerId \cup {None}, NEW p \in Parents, StartTrace(c, id, p)
        PROVE  (HeapOK /\ RefsOK)'
    BY <1>1, StartTraceType
  <1>2. ASSUME NEW c \in Ctx, NEW p \in Parents, StartSpan(c, p)
        PROVE  (HeapOK /\ RefsOK)'
    BY <1>2, StartSpanType
  <1>3. ASSUME NEW c \in Ctx, NewEvent(c)
        PROVE  (HeapOK /\ RefsOK)'
    BY <1>3, NewEventType
  <1>4. ASSUME NEW c \in Ctx, Finish(c)
        PROVE  (HeapOK /\ RefsOK)'
    <2>1. PICK s \in 1..Len(spans), o \in Outcomes :
            (FinishSpan(c, s, o) \/ FinishTrace(c, s, o)) /\ UNCHANGED <<sending, decorated>>
      BY <1>4 DEF Finish
    <2>2. sending' \in [Ctx -> 0..Len(spans')]
      BY <2>1 DEF FinishSpan, FinishTrace, RefsOK
    <2> QED
      BY <2>1, <2>2, FinishType
  <1>5. ASSUME NEW c \in Ctx, DropTrace(c)
        PROVE  (HeapOK /\ RefsOK)'
    BY <1>5, LenProperties DEF DropTrace, HeapOK, RefsOK, None
  <1>6. ASSUME NEW c \in Ctx, NEW o \in Outcomes, SendEvent(c, o)
        PROVE  (HeapOK /\ RefsOK)'
    BY <1>6, SendEventType
  <1>7. ASSUME NEW c \in Ctx, SendAll(c)
        PROVE  (HeapOK /\ RefsOK)'
    BY <1>7, ActiveSpanType DEF SendAll, HeapOK, RefsOK
  <1>8. ASSUME NEW c \in Ctx, TracedThread(c)
        PROVE  (HeapOK /\ RefsOK)'
    BY <1>8, TracedThreadType
  <1>9. ASSUME NEW c \in Ctx, NEW t \in decorated, RunDecorated(c, t)
        PROVE  (HeapOK /\ RefsOK)'
    BY <1>9, LenProperties DEF RunDecorated, HeapOK, RefsOK
  <1>10. ASSUME NEW c \in Ctx, NEW o \in Outcomes, SendAllStep(c, o)
         PROVE  (HeapOK /\ RefsOK)'
    BY <1>10, SendAllStepType
  <1>11. CASE UNCHANGED vars
    BY <1>11 DEF vars, HeapOK, RefsOK
  <1> QED
    BY <1>1, <1>2, <1>3, <1>4, <1>5, <1>6, <1>7, <1>8, <1>9, <1>10, <1>11 DEF Next, Acts, Call, Looping

\* References, lengths and elements have their types in every state of the
\* tracer, for any number of contexts, Trace objects and spans.
THEOREM TypeCorrect == Spec => []TypeOK
  BY TypeInit, TypeStep, TypeOKParts, PTL DEF Spec

-----------------------------------------------------------------------------
(* The stacks are paths *)

\* Both stack invariants, for one stack.
PathOK(st, id, sp) ==
  \A i \in 1..Len(st) :
    /\ sp[st[i]].trace = id
    /\ sp[st[i]].root <=> (i = 1)
    /\ sp[st[i]].parent \in {Remote, IF i = 1 THEN None ELSE st[i - 1]}

PathsOK == \A t \in 1..Len(traces) : PathOK(traces[t].stack, traces[t].id, spans)

\* A stack is a path, position by position: the form that the proofs use.
LEMMA PathsOKParts ==
  ASSUME HeapOK
  PROVE  PathsOK <=> StackIds /\ StackIsPath
  <1>1. DOMAIN traces = 1..Len(traces)
    BY LenProperties DEF HeapOK
  <1>2. \A t \in 1..Len(traces) : DOMAIN traces[t].stack = 1..Len(traces[t].stack)
    BY TraceType, LenProperties
  <1>3. ASSUME PathsOK PROVE StackIds /\ StackIsPath
    <2>1. ASSUME NEW t \in DOMAIN traces, NEW i \in DOMAIN traces[t].stack
          PROVE  /\ spans[traces[t].stack[i]].trace = traces[t].id
                 /\ spans[traces[t].stack[i]].root <=> (i = 1)
                 /\ spans[traces[t].stack[i]].parent
                      \in {Remote, IF i = 1 THEN None ELSE traces[t].stack[i - 1]}
      BY <1>1, <1>2, <1>3 DEF PathsOK, PathOK
    <2>2. StackIds
      BY <2>1 DEF StackIds
    <2>3. StackIsPath
      BY <2>1, Zenon DEF StackIsPath
    <2> QED
      BY <2>2, <2>3
  <1>4. ASSUME StackIds, StackIsPath PROVE PathsOK
    <2> SUFFICES ASSUME NEW t \in 1..Len(traces), NEW i \in 1..Len(traces[t].stack)
                 PROVE  LET s == spans[traces[t].stack[i]] IN
                        /\ s.trace = traces[t].id
                        /\ s.root <=> (i = 1)
                        /\ s.parent \in {Remote, IF i = 1 THEN None ELSE traces[t].stack[i - 1]}
      BY DEF PathsOK, PathOK
    <2> QED
      BY <1>1, <1>2, <1>4 DEF StackIds, StackIsPath
  <1> QED
    BY <1>3, <1>4

\* Spans made later change nothing about a path.
LEMMA PathGrow ==
  ASSUME NEW S, NEW sp \in Seq(S), NEW n \in S, NEW st \in Seq(1..Len(sp)), NEW id,
         PathOK(st, id, sp)
  PROVE  PathOK(st, id, Append(sp, n))
  <1>1. \A i \in 1..Len(st) : Append(sp, n)[st[i]] = sp[st[i]]
    BY SeqAppend, ElementOfSeq
  <1> QED
    BY <1>1 DEF PathOK

\* A path stays one when a span is pushed whose parent is its end.
LEMMA PathPush ==
  ASSUME NEW S, NEW sp \in Seq(S), NEW n \in S, NEW st \in Seq(1..Len(sp)), NEW id,
         PathOK(st, id, sp), n.trace = id, n.root <=> (st = <<>>),
         n.parent \in {Remote, IF st = <<>> THEN None ELSE Last(st)}
  PROVE  PathOK(Append(st, Len(sp) + 1), id, Append(sp, n))
  <1> DEFINE m == Len(sp)
             k == Len(st)
             st2 == Append(st, m + 1)
  <1>1. m \in Nat /\ k \in Nat /\ (st = <<>> <=> k = 0)
    BY LenProperties, EmptySeq
  <1>2. /\ Append(sp, n)[m + 1] = n
        /\ \A i \in 1..m : Append(sp, n)[i] = sp[i]
    BY SeqAppend
  <1>3. /\ Len(st2) = k + 1
        /\ \A i \in 1..k : st2[i] = st[i] /\ st[i] \in 1..m
        /\ st2[k + 1] = m + 1
    <2>1. st \in Seq(1..(m + 1)) /\ m + 1 \in 1..(m + 1)
      BY <1>1, SeqMonotonic
    <2>2. \A i \in 1..k : st[i] \in 1..m
      BY ElementOfSeq
    <2> HIDE DEF m
    <2> QED
      BY <2>1, <2>2, SeqAppend
  <1>4. ASSUME NEW i \in 1..(k + 1)
        PROVE  /\ Append(sp, n)[st2[i]].trace = id
               /\ Append(sp, n)[st2[i]].root <=> (i = 1)
               /\ Append(sp, n)[st2[i]].parent \in {Remote, IF i = 1 THEN None ELSE st2[i - 1]}
    <2>1. CASE i = k + 1
      <3>1. Append(sp, n)[st2[i]] = n
        BY <1>2, <1>3, <2>1
      <3>2. n.root <=> (i = 1)
        BY <1>1, <2>1
      <3>3. n.parent \in {Remote, IF i = 1 THEN None ELSE st2[i - 1]}
        <4>1. CASE k = 0
          BY <1>1, <2>1, <4>1
        <4>2. CASE k # 0
          BY <1>1, <1>3, <2>1, <4>2 DEF Last
        <4> QED
          BY <4>1, <4>2
      <3> QED
        BY <3>1, <3>2, <3>3
    <2>2. CASE i \in 1..k
      <3>1. Append(sp, n)[st2[i]] = sp[st[i]]
        BY <1>2, <1>3, <2>2
      <3>2. i # 1 => st2[i - 1] = st[i - 1]
        BY <1>1, <1>3, <2>2
      <3> QED
        BY <2>2, <3>1, <3>2 DEF PathOK
    <2> QED
      BY <1>1, <2>1, <2>2
  <1> QED
    BY <1>3, <1>4 DEF PathOK

\* A path stays one when its end is taken off.
LEMMA PathPop ==
  ASSUME NEW S, NEW st \in Seq(S), st # <<>>, NEW id, NEW sp, PathOK(st, id, sp)
  PROVE  PathOK(Front(st), id, sp)
  <1>1. /\ Len(st) \in Nat \ {0} /\ Len(Front(st)) = Len(st) - 1
        /\ \A i \in 1..(Len(st) - 1) : Front(st)[i] = st[i]
    BY SeqFront
  <1> QED
    BY <1>1 DEF PathOK

\* What giving one Trace another stack does to the heap.
LEMMA StackReplaced ==
  ASSUME HeapOK, NEW t \in 1..Len(traces), NEW st, traces' = [traces EXCEPT ![t].stack = st]
  PROVE  /\ Len(traces') = Len(traces)
         /\ traces'[t].id = traces[t].id
         /\ traces'[t].stack = st
         /\ \A u \in 1..Len(traces) : u # t => traces'[u] = traces[u]
  <1>1. traces' = [traces EXCEPT ![t] = [traces[t] EXCEPT !.stack = st]]
    OBVIOUS
  <1>2. DOMAIN traces = 1..Len(traces) /\ Len(traces) \in Nat
    BY LenProperties DEF HeapOK
  <1>3. /\ [traces[t] EXCEPT !.stack = st].id = traces[t].id
        /\ [traces[t] EXCEPT !.stack = st].stack = st
    <2>1. traces[t] \in TraceSet(Len(traces), Len(spans))
      BY ElementOfSeq DEF HeapOK
    <2> QED
      BY <2>1 DEF TraceSet
  <1>4. Len(traces') = Len(traces)
    BY <1>1, <1>2
  <1> QED
    BY <1>1, <1>2, <1>3, <1>4

\* What making a Trace does to it.
LEMMA TraceAppended ==
  ASSUME HeapOK, NEW t, traces' = Append(traces, t)
  PROVE  /\ Len(traces) \in Nat /\ Len(traces') = Len(traces) + 1
         /\ traces'[Len(traces) + 1] = t
         /\ \A u \in 1..Len(traces) : traces'[u] = traces[u]
  <1>1. traces \in Seq(TraceSet(Len(traces), Len(spans)) \cup {t}) /\ t \in TraceSet(Len(traces), Len(spans)) \cup {t}
    BY SeqMonotonic DEF HeapOK
  <1> QED
    BY <1>1, SeqAppend, LenProperties

\* Taking the end off one stack, or nothing off any, keeps every path.
LEMMA PopPaths ==
  ASSUME HeapOK, RefsOK, PathsOK, NEW c \in Ctx, NEW s \in 1..Len(spans), Pop(c, s) \/ UNCHANGED traces,
         UNCHANGED spans
  PROVE  PathsOK'
  <1>1. CASE UNCHANGED traces
    BY <1>1 DEF PathsOK
  <1>2. CASE IsInnermost(c, s) /\ traces' = [traces EXCEPT ![current[c]].stack = Front(@)]
    <2> DEFINE t == current[c]
    <2>1. t \in 1..Len(traces) /\ traces[t].stack # <<>>
      BY <1>2, LenProperties DEF IsInnermost, RefsOK, HeapOK, None, Stack
    <2>2. /\ Len(traces') = Len(traces)
          /\ traces'[t].id = traces[t].id
          /\ traces'[t].stack = Front(traces[t].stack)
          /\ \A u \in 1..Len(traces) : u # t => traces'[u] = traces[u]
      <3>1. traces' = [traces EXCEPT ![t].stack = Front(traces[t].stack)]
        BY <1>2
      <3> QED
        BY <2>1, <3>1, StackReplaced
    <2>3. PathOK(Front(traces[t].stack), traces[t].id, spans)
      BY <2>1, TraceType, PathPop DEF PathsOK
    <2> HIDE DEF t
    <2> QED
      BY <2>1, <2>2, <2>3 DEF PathsOK
  <1> QED
    BY <1>1, <1>2 DEF Pop

\* Pushing a span on the stack of one Trace.
LEMMA StartSpanPaths ==
  ASSUME HeapOK, RefsOK, PathsOK, NEW c \in Ctx, NEW p \in Parents, StartSpan(c, p)
  PROVE  PathsOK'
  <1> DEFINE t == current[c]
             st == traces[t].stack
             n == [trace |-> traces[t].id, parent |-> IF p # None THEN p ELSE ActiveSpan(c),
                   root |-> st = <<>>, type |-> "child"]
  <1>1. Len(traces) \in Nat /\ Len(spans) \in Nat /\ t \in 1..Len(traces)
    BY LenProperties DEF HeapOK, RefsOK, StartSpan, None
  <1>2. /\ st \in Seq(1..Len(spans))
        /\ traces[t] \in TraceSet(Len(traces), Len(spans))
        /\ traces[t].id \in CallerId \cup (1..Len(traces))
    BY <1>1, TraceType, ElementOfSeq DEF HeapOK
  <1>3. spans' = Append(spans, n)
    BY DEF StartSpan, PushSpan, Stack
  <1>4. /\ Len(traces') = Len(traces)
        /\ traces'[t].id = traces[t].id
        /\ traces'[t].stack = Append(st, NewSpan)
        /\ \A u \in 1..Len(traces) : u # t => traces'[u] = traces[u]
    <2>1. traces' = [traces EXCEPT ![t].stack = Append(st, NewSpan)]
      BY DEF StartSpan
    <2> QED
      BY <1>1, <2>1, StackReplaced
  <1>5. n.trace = traces[t].id /\ (n.root <=> (st = <<>>))
        /\ n.parent \in {Remote, IF st = <<>> THEN None ELSE Last(st)}
    <2>1. ActiveSpan(c) = IF st = <<>> THEN None ELSE Last(st)
      BY <1>1 DEF ActiveSpan, Stack, StartSpan
    <2> QED
      BY <2>1 DEF Parents, None
  <1>6. spans \in Seq(SpanSet(Len(traces), Len(spans)) \cup {n}) /\ n \in SpanSet(Len(traces), Len(spans)) \cup {n}
    BY SeqMonotonic DEF HeapOK
  <1>7. PathOK(Append(st, NewSpan), traces[t].id, spans')
    <2>1. PathOK(st, traces[t].id, spans)
      BY <1>1 DEF PathsOK
    <2> HIDE DEF n, st
    <2> QED
      BY <1>2, <1>3, <1>5, <1>6, <2>1, PathPush DEF NewSpan
  <1>8. ASSUME NEW u \in 1..Len(traces), u # t
        PROVE  PathOK(traces'[u].stack, traces'[u].id, spans')
    <2>1. PathOK(traces[u].stack, traces[u].id, spans) /\ traces[u].stack \in Seq(1..Len(spans))
      BY TraceType DEF PathsOK
    <2> HIDE DEF n
    <2> QED
      BY <1>3, <1>4, <1>6, <1>8, <2>1, PathGrow
  <1> HIDE DEF n, st, t
  <1> QED
    BY <1>4, <1>7, <1>8 DEF PathsOK

\* A new Trace whose stack is its root span.
LEMMA StartTracePaths ==
  ASSUME HeapOK, RefsOK, PathsOK, NEW c \in Ctx, NEW id \in CallerId \cup {None}, NEW p \in Parents,
         StartTrace(c, id, p)
  PROVE  PathsOK'
  <1> DEFINE tid == IF id = None THEN NewTrace ELSE id
             n == [trace |-> tid, parent |-> p, root |-> TRUE,
                   type |-> IF p = None THEN "root" ELSE "subroot"]
             t == [id |-> tid, stack |-> <<NewSpan>>]
  <1>1. Len(traces) \in Nat /\ Len(spans) \in Nat
    BY LenProperties DEF HeapOK
  <1>2. spans' = Append(spans, n) /\ traces' = Append(traces, t)
    BY DEF StartTrace, PushSpan
  <1>3. spans \in Seq(SpanSet(Len(traces), Len(spans)) \cup {n}) /\ n \in SpanSet(Len(traces), Len(spans)) \cup {n}
    BY SeqMonotonic DEF HeapOK
  <1>5. /\ Len(traces') = Len(traces) + 1
        /\ traces'[Len(traces) + 1] = t
        /\ \A u \in 1..Len(traces) : traces'[u] = traces[u]
    <2> HIDE DEF t
    <2> QED
      BY <1>2, TraceAppended
  <1>6. PathOK(<<NewSpan>>, tid, spans')
    <2>1. spans'[Len(spans) + 1] = n
      <3> HIDE DEF n
      <3> QED
        BY <1>2, <1>3, SeqAppend
    <2> QED
      BY <2>1 DEF PathOK, NewSpan, Parents
  <1>7. ASSUME NEW u \in 1..Len(traces)
        PROVE  PathOK(traces'[u].stack, traces'[u].id, spans')
    <2>1. PathOK(traces[u].stack, traces[u].id, spans) /\ traces[u].stack \in Seq(1..Len(spans))
      BY TraceType DEF PathsOK
    <2> HIDE DEF n
    <2> QED
      BY <1>2, <1>3, <1>5, <2>1, PathGrow
  <1>8. ASSUME NEW u \in 1..Len(traces')
        PROVE  PathOK(traces'[u].stack, traces'[u].id, spans')
    <2>1. u \in 1..Len(traces) \/ u = Len(traces) + 1
      BY <1>1, <1>5
    <2> QED
      BY <1>5, <1>6, <1>7, <2>1
  <1> QED
    BY <1>8 DEF PathsOK

\* A copy of a Trace has the path of the original.
LEMMA CopyPaths ==
  ASSUME HeapOK, PathsOK, NEW t \in 1..Len(traces), traces' = Append(traces, CopyOf(t)), UNCHANGED spans
  PROVE  PathsOK'
  <1> DEFINE n == [id |-> traces[t].id, stack |-> traces[t].stack]
  <1>1. /\ Len(traces) \in Nat /\ Len(traces') = Len(traces) + 1
        /\ traces'[Len(traces) + 1] = n
        /\ \A u \in 1..Len(traces) : traces'[u] = traces[u]
    <2>1. traces' = Append(traces, n)
      BY DEF CopyOf
    <2> HIDE DEF n
    <2> QED
      BY <2>1, TraceAppended
  <1>2. ASSUME NEW u \in 1..Len(traces')
        PROVE  PathOK(traces'[u].stack, traces'[u].id, spans)
    <2>1. u \in 1..Len(traces) \/ u = Len(traces) + 1
      BY <1>1
    <2> QED
      BY <1>1, <2>1 DEF PathsOK
  <1> QED
    BY <1>2 DEF PathsOK

\* ... and so has the copy that traced_thread makes.
LEMMA TracedThreadPaths ==
  ASSUME HeapOK, RefsOK, PathsOK, NEW c \in Ctx, TracedThread(c)
  PROVE  PathsOK'
  <1>1. current[c] \in 1..Len(traces)
    BY LenProperties DEF HeapOK, RefsOK, TracedThread, None
  <1> QED
    BY <1>1, CopyPaths DEF TracedThread

PathInv == HeapOK /\ RefsOK /\ PathsOK

\* Every action keeps the paths; the types are TypeStep's business.
LEMMA PathStep == PathsOK /\ HeapOK /\ RefsOK /\ [Next]_vars => PathsOK'
  <1> SUFFICES ASSUME PathsOK, HeapOK, RefsOK, [Next]_vars
               PROVE  PathsOK'
    OBVIOUS
  <1>1. ASSUME NEW c \in Ctx, NEW id \in CallerId \cup {None}, NEW p \in Parents, StartTrace(c, id, p)
        PROVE  PathsOK'
    BY <1>1, StartTracePaths
  <1>2. ASSUME NEW c \in Ctx, NEW p \in Parents, StartSpan(c, p)
        PROVE  PathsOK'
    BY <1>2, StartSpanPaths
  <1>3. ASSUME NEW c \in Ctx, NewEvent(c)
        PROVE  PathsOK'
    BY <1>3, StartSpanPaths, StartTracePaths DEF NewEvent, Parents
  <1>4. ASSUME NEW c \in Ctx, NEW s \in 1..Len(spans), NEW o \in Outcomes,
               FinishSpan(c, s, o) \/ FinishTrace(c, s, o)
        PROVE  PathsOK'
    BY <1>4, PopPaths DEF FinishSpan, FinishTrace
  <1>5. ASSUME NEW c \in Ctx, NEW o \in Outcomes, SendEvent(c, o)
        PROVE  PathsOK'
    <2>1. ActiveSpan(c) \in 1..Len(spans)
      BY <1>5, ActiveSpanType, LenProperties DEF SendEvent, HeapOK, None
    <2> QED
      BY <1>4, <1>5, <2>1 DEF SendEvent, Close
  <1>6. ASSUME NEW c \in Ctx, NEW o \in Outcomes, SendAllStep(c, o)
        PROVE  PathsOK'
    <2>1. sending[c] \in 1..Len(spans)
      BY <1>6, LenProperties DEF SendAllStep, RefsOK, HeapOK, None
    <2> QED
      BY <1>4, <1>6, <2>1 DEF SendAllStep, Close
  <1>7. ASSUME NEW c \in Ctx, TracedThread(c)
        PROVE  PathsOK'
    BY <1>7, TracedThreadPaths
  <1>8. ASSUME UNCHANGED <<traces, spans>>
        PROVE  PathsOK'
    BY <1>8 DEF PathsOK
  <1> QED
    BY <1>1, <1>2, <1>3, <1>4, <1>5, <1>6, <1>7, <1>8
       DEF Next, Acts, Call, Looping, Finish, DropTrace, SendAll, RunDecorated, vars

\* In every state of the tracer each stack is a path of spans of one trace,
\* with its only root at the bottom, whatever calls the client has made, also
\* in copies and with spans finished out of order, twice or in other contexts.
THEOREM PathsCorrect == Spec => [](StackIds /\ StackIsPath)
  <1>1. Init => PathInv
    BY TypeInit, LenProperties DEF PathInv, PathsOK, Init
  <1>2. PathInv /\ [Next]_vars => PathInv'
    BY TypeStep, PathStep DEF PathInv
  <1>3. PathInv => StackIds /\ StackIsPath
    BY PathsOKParts DEF PathInv
  <1> QED
    BY <1>1, <1>2, <1>3, PTL DEF Spec

\* All spans on a stack carry the id of the trace they are pushed on.
THEOREM StackIdsCorrect == Spec => []StackIds
  BY PathsCorrect, PTL

-----------------------------------------------------------------------------
(* The contexts are isolated *)

PrivateInv ==
  \A c \in Ctx : current[c] # None =>
    /\ current[c] \notin decorated
    /\ \A d \in Ctx \ {c} : current[d] # current[c]

\* What a step of c leaves of the other contexts.
OthersKept(c) ==
  \A d \in Ctx \ {c} :
    /\ current'[d] = current[d]
    /\ sending'[d] = sending[d]
    /\ current[d] # None => traces'[current[d]].stack = traces[current[d]].stack

\* A new Trace object is at no address in use.
LEMMA AppendKeeps ==
  ASSUME HeapOK, RefsOK, NEW t, traces' = Append(traces, t), NEW d \in Ctx, current[d] # None
  PROVE  traces'[current[d]].stack = traces[current[d]].stack
  <1>1. current[d] \in 1..Len(traces)
    BY LenProperties DEF HeapOK, RefsOK, None
  <1> QED
    BY <1>1, TraceAppended

\* Changing the stack of a context's own Trace changes no other context's.
LEMMA ExceptKeeps ==
  ASSUME HeapOK, RefsOK, PrivateInv, NEW c \in Ctx, current[c] # None, NEW st,
         traces' = [traces EXCEPT ![current[c]].stack = st],
         NEW d \in Ctx \ {c}, current[d] # None
  PROVE  traces'[current[d]].stack = traces[current[d]].stack
  <1>1. current[c] \in DOMAIN traces /\ current[d] \in DOMAIN traces /\ current[d] # current[c]
    BY LenProperties DEF HeapOK, RefsOK, PrivateInv, None
  <1> QED
    BY <1>1

\* A pop touches only the Trace that is current in its context.
LEMMA PopKeeps ==
  ASSUME HeapOK, RefsOK, PrivateInv, NEW c \in Ctx, NEW s, Pop(c, s) \/ UNCHANGED traces,
         NEW d \in Ctx \ {c}, current[d] # None
  PROVE  traces'[current[d]].stack = traces[current[d]].stack
  <1>1. CASE UNCHANGED traces
    BY <1>1
  <1>2. CASE IsInnermost(c, s) /\ traces' = [traces EXCEPT ![current[c]].stack = Front(@)]
    BY <1>2, ExceptKeeps DEF IsInnermost
  <1> QED
    BY <1>1, <1>2 DEF Pop

\* Finishing a span leaves the trace and the stack of other contexts alone.
LEMMA FinishKeeps ==
  ASSUME HeapOK, RefsOK, PrivateInv, NEW c \in Ctx, NEW s, NEW o \in Outcomes,
         FinishSpan(c, s, o) \/ FinishTrace(c, s, o),
         \A d \in Ctx \ {c} : sending'[d] = sending[d]
  PROVE  OthersKept(c)
  <1>1. \A d \in Ctx \ {c} : current'[d] = current[d]
    BY DEF FinishSpan, FinishTrace, RefsOK
  <1>2. ASSUME NEW d \in Ctx \ {c}, current[d] # None
        PROVE  traces'[current[d]].stack = traces[current[d]].stack
    BY <1>2, PopKeeps DEF FinishSpan, FinishTrace
  <1> QED
    BY <1>1, <1>2 DEF OthersKept

\* Every step is a step of one context, and leaves the others theirs.
LEMMA StepKeeps ==
  ASSUME HeapOK, RefsOK, PrivateInv, NEW c \in Ctx, Acts(c)
  PROVE  OthersKept(c)
  <1>1. ASSUME NEW id \in CallerId \cup {None}, NEW p \in Parents, StartTrace(c, id, p)
        PROVE  OthersKept(c)
    BY <1>1, AppendKeeps DEF StartTrace, OthersKept, RefsOK
  <1>2. ASSUME NEW p \in Parents, StartSpan(c, p)
        PROVE  OthersKept(c)
    BY <1>2, ExceptKeeps DEF StartSpan, OthersKept
  <1>3. ASSUME NewEvent(c)
        PROVE  OthersKept(c)
    BY <1>1, <1>2, <1>3 DEF NewEvent, Parents
  <1>4. ASSUME Finish(c)
        PROVE  OthersKept(c)
    BY <1>4, FinishKeeps DEF Finish
  <1>5. ASSUME NEW o \in Outcomes, SendEvent(c, o)
        PROVE  OthersKept(c)
    BY <1>5, FinishKeeps DEF SendEvent, Close
  <1>6. ASSUME NEW o \in Outcomes, SendAllStep(c, o)
        PROVE  OthersKept(c)
    BY <1>6, FinishKeeps DEF SendAllStep, Close, RefsOK
  <1>7. ASSUME TracedThread(c)
        PROVE  OthersKept(c)
    BY <1>7, AppendKeeps DEF TracedThread, OthersKept
  <1>8. ASSUME DropTrace(c) \/ SendAll(c) \/ \E t \in decorated : RunDecorated(c, t)
        PROVE  OthersKept(c)
    BY <1>8 DEF DropTrace, SendAll, RunDecorated, OthersKept, RefsOK
  <1> QED
    BY <1>1, <1>2, <1>3, <1>4, <1>5, <1>6, <1>7, <1>8 DEF Acts, Call, Looping

\* Without reuse of a decorated function no Trace object gets a second owner.
LEMMA PrivateStep ==
  ASSUME HeapOK, RefsOK, PrivateInv, ~Reuse, [Next]_vars
  PROVE  PrivateInv'
  <1>1. ASSUME NEW c \in Ctx, current' = [current EXCEPT ![c] = NewTrace], UNCHANGED decorated
        PROVE  PrivateInv'
    BY <1>1, LenProperties DEF HeapOK, RefsOK, PrivateInv, NewTrace, None
  <1>2. ASSUME NEW c \in Ctx, current' = current \/ current' = [current EXCEPT ![c] = None],
               UNCHANGED decorated
        PROVE  PrivateInv'
    BY <1>2 DEF RefsOK, PrivateInv
  <1>3. ASSUME NEW c \in Ctx, TracedThread(c)
        PROVE  PrivateInv'
    BY <1>3, LenProperties DEF TracedThread, HeapOK, RefsOK, PrivateInv, NewTrace, None
  <1>4. ASSUME NEW c \in Ctx, NEW t \in decorated, RunDecorated(c, t)
        PROVE  PrivateInv'
    BY <1>4 DEF RunDecorated, RefsOK, PrivateInv
  <1>5. CASE UNCHANGED vars
    BY <1>5 DEF vars, PrivateInv
  <1>6. ASSUME NEW c \in Ctx, Call(c) \/ Looping(c)
        PROVE  PrivateInv'
    BY <1>1, <1>2, <1>3, <1>4, <1>6
       DEF Call, Looping, StartTrace, StartSpan, NewEvent, Finish, DropTrace, SendEvent, SendAll,
           SendAllStep, Close, FinishSpan, FinishTrace
  <1> QED
    BY <1>5, <1>6 DEF Next, Acts

HeldInv == \A c \in Ctx : sending[c] # None => sending[c] = ActiveSpan(c)

\* The active span of a context follows from its own references.
LEMMA ActiveSpanKept ==
  ASSUME NEW d, current'[d] = current[d],
         current[d] # None => traces'[current[d]].stack = traces[current[d]].stack
  PROVE  ActiveSpan(d)' = ActiveSpan(d)
  BY DEF ActiveSpan, Stack

\* What send_all holds is the active span, before and after every step.
LEMMA HeldStep ==
  ASSUME HeapOK, RefsOK, PrivateInv, HeldInv, [Next]_vars
  PROVE  HeldInv'
  <1>1. CASE UNCHANGED vars
    BY <1>1 DEF vars, HeldInv, ActiveSpan, Stack
  <1>2. ASSUME NEW c \in Ctx, Acts(c)
        PROVE  HeldInv'
    <2>1. ASSUME NEW d \in Ctx \ {c}, sending'[d] # None
          PROVE  sending'[d] = ActiveSpan(d)'
      <3>1. OthersKept(c)
        BY <1>2, StepKeeps
      <3>2. ActiveSpan(d)' = ActiveSpan(d)
        BY <3>1, ActiveSpanKept DEF OthersKept
      <3> QED
        BY <2>1, <3>1, <3>2 DEF OthersKept, HeldInv
    <2>2. sending'[c] # None => sending'[c] = ActiveSpan(c)'
      <3>1. CASE sending[c] = None /\ Call(c)
        <4>1. CASE SendAll(c)
          BY <4>1 DEF SendAll, RefsOK, ActiveSpan, Stack
        <4>2. CASE UNCHANGED sending
          BY <3>1, <4>2
        <4> QED
          BY <3>1, <4>1, <4>2
             DEF Call, StartTrace, StartSpan, NewEvent, Finish, DropTrace, SendEvent, TracedThread, RunDecorated
      <3>2. CASE Looping(c)
        <4>1. PICK o \in Outcomes : SendAllStep(c, o)
          BY <3>2 DEF Looping
        <4> QED
          BY <4>1 DEF SendAllStep, RefsOK
      <3> QED
        BY <1>2, <3>1, <3>2 DEF Acts
    <2> QED
      BY <2>1, <2>2 DEF HeldInv
  <1> QED
    BY <1>1, <1>2 DEF Next

IsolationInv == PathInv /\ PrivateInv /\ HeldInv

\* The invariant behind the three theorems that follow.
LEMMA IsolationCorrect ==
  ASSUME ~Reuse
  PROVE  Spec => []IsolationInv
  <1>1. Init => IsolationInv
    BY TypeInit, LenProperties DEF IsolationInv, PathInv, PathsOK, PrivateInv, HeldInv, Init
  <1>2. IsolationInv /\ [Next]_vars => IsolationInv'
    BY TypeStep, PathStep, PrivateStep, HeldStep DEF IsolationInv, PathInv
  <1> QED
    BY <1>1, <1>2, PTL DEF Spec

\* As long as no decorated function runs twice, no Trace object is current in
\* two contexts and no waiting copy is current in any.
THEOREM PrivateCorrect ==
  ASSUME ~Reuse
  PROVE  Spec => [](Private /\ HeldIsActive)
  <1>1. IsolationInv => Private /\ HeldIsActive
    BY DEF IsolationInv, PrivateInv, HeldInv, Private, HeldIsActive
  <1> QED
    BY <1>1, IsolationCorrect, PTL

\* ... and then whatever one context does, the trace and the stack of every
\* other context stay as they are.
THEOREM IsolatedCorrect ==
  ASSUME ~Reuse
  PROVE  Spec => Isolated
  <1> DEFINE Kept == \A c \in Ctx : Acts(c) => \A d \in Ctx \ {c} :
               /\ current'[d] = current[d]
               /\ current[d] # None => Stack(d)' = Stack(d)
  <1>1. IsolationInv => Kept
    <2> SUFFICES ASSUME IsolationInv, NEW c \in Ctx, Acts(c), NEW d \in Ctx \ {c}
                 PROVE  /\ current'[d] = current[d]
                        /\ current[d] # None => Stack(d)' = Stack(d)
      OBVIOUS
    <2>1. OthersKept(c)
      BY StepKeeps DEF IsolationInv, PathInv
    <2> QED
      BY <2>1 DEF OthersKept, Stack
  <1>2. IsolationInv => [~Reuse => Kept]_vars
    BY <1>1
  <1> QED
    BY <1>2, IsolationCorrect, PTL DEF Isolated

\* ... and send_all returns only with the trace gone or a hook's exception:
\* the span it closes is on top of the stack, so the stack is used up from the
\* top, and what is at the bottom is the root that ends the trace.
THEOREM SendAllCorrect ==
  ASSUME ~Reuse
  PROVE  Spec => SendAllFlushes
  <1> DEFINE Flushed == \A c \in Ctx : sending[c] # None /\ sending'[c] = None =>
               \/ current'[c] = None
               \/ "raised" \in Outcomes /\ UNCHANGED <<traces, sent>>
  <1>1. IsolationInv /\ [Next]_vars => [Flushed]_vars
    <2> SUFFICES ASSUME IsolationInv, NEW b \in Ctx, Acts(b),
                        NEW c \in Ctx, sending[c] # None, sending'[c] = None
                 PROVE  \/ current'[c] = None
                        \/ "raised" \in Outcomes /\ UNCHANGED <<traces, sent>>
      BY DEF Next
    <2> USE DEF IsolationInv, PathInv
    <2>1. b = c
      BY StepKeeps DEF OthersKept
    <2>2. PICK o \in Outcomes : SendAllStep(c, o)
      BY <2>1 DEF Acts, Looping
    <2> DEFINE s == sending[c]
               st == traces[current[c]].stack
    <2>3. CASE o = "raised"
      BY <2>2, <2>3 DEF SendAllStep, Close, FinishSpan, FinishTrace, Emit
    <2>4. CASE o # "raised" /\ spans[s].root
      BY <2>2, <2>4 DEF SendAllStep, Close, FinishTrace, RefsOK
    <2>5. CASE o # "raised" /\ ~spans[s].root
      <3>1. current[c] # None /\ st # <<>> /\ s = Last(st)
        BY DEF HeldInv, ActiveSpan, Stack
      <3>2. current[c] \in 1..Len(traces) /\ st \in Seq(1..Len(spans))
        BY <3>1, TraceType, LenProperties DEF HeapOK, RefsOK, None
      <3>3. Len(st) > 1 /\ spans[s].trace = traces[current[c]].id
        <4>1. s = st[Len(st)] /\ Len(st) \in Nat \ {0}
          BY <3>1, <3>2, SeqFront
        <4>2. PathOK(st, traces[current[c]].id, spans)
          BY <3>2 DEF PathsOK
        <4> HIDE DEF s, st
        <4> QED
          BY <2>5, <4>1, <4>2 DEF PathOK
      <3>4. FinishSpan(c, s, o) /\ UNCHANGED current /\ sending' = [sending EXCEPT ![c] = ActiveSpan(c)']
        BY <2>2, <2>5 DEF SendAllStep, Close, FinishSpan
      <3>5. traces' = [traces EXCEPT ![current[c]].stack = Front(@)]
        BY <2>5, <3>1, <3>3, <3>4 DEF FinishSpan, Pop, IsInnermost, Stack
      <3>6. traces'[current[c]].stack = Front(st)
        BY <3>2, <3>5, StackReplaced
      <3>7. Front(st) # <<>> /\ Last(Front(st)) \in 1..Len(spans)
        <4> HIDE DEF st
        <4>1. Front(st) \in Seq(1..Len(spans)) /\ Len(Front(st)) > 0
          BY <3>1, <3>2, <3>3, SeqFront
        <4>2. Front(st) # <<>>
          BY <4>1, EmptySeq
        <4> QED
          BY <4>1, <4>2, SeqFront
      <3>8. ActiveSpan(c)' = Last(Front(st))
        BY <3>1, <3>4, <3>6, <3>7 DEF ActiveSpan, Stack
      <3> QED
        BY <3>4, <3>7, <3>8 DEF RefsOK, None
    <2> QED
      BY <2>3, <2>4, <2>5
  <1>2. [Flushed]_vars => [~Reuse => Flushed]_vars
    OBVIOUS
  <1> QED
    BY <1>1, <1>2, IsolationCorrect, PTL DEF Spec, SendAllFlushes

=============================================================================
