------------------------- MODULE PropagationProofs -------------------------
(***************************************************************************)
(* What the services keep of each other's traces, for every number of      *)
(* services, threads, calls, traces and spans.                             *)
(***************************************************************************)
EXTENDS Propagation, TracerProofs

-----------------------------------------------------------------------------
(* The invariant *)

\* A header that n traces and the spans sp allow: if it names a span it names
\* the trace of that span with it, and if it names a trace that a beeline began
\* it names a span.
HeaderOf(n, sp) ==
  {h \in [form : {"absent", "1", "2", "garbled", "00"}, trace : CallerId \cup (0..n),
          parent : (0..Len(sp)) \cup {Remote}, fields : SUBSET Field] :
     /\ h.parent \in 1..Len(sp) => sp[h.parent].trace = h.trace
     /\ h.trace \notin CallerId \cup {None} => h.parent \in 1..Len(sp)}

HeadersOf(n, sp) == [honeycomb : HeaderOf(n, sp), w3c : HeaderOf(n, sp)]

\* The spans that are no roots: those that a call may be in.
Inner(sp) == {s \in 1..Len(sp) : ~sp[s].root}

CallOf(n, sp) ==
  [state : {"idle", "prepared", "sent"}, span : {None} \cup Inner(sp), carrier : Ctx \cup {None},
   headers : HeadersOf(n, sp)]

RequestOf(n, sp) == [headers : HeadersOf(n, sp), by : Ctx, from : 0..Len(sp)]

\* The services: all headers that are kept or under way are such headers.
HeaderInv ==
  /\ config \in Configs
  /\ tfields \in Seq(SUBSET Field) /\ Len(tfields) = Len(traces)
  /\ serving \in [Ctx -> 0..Len(spans)]
  /\ carrier \in [Ctx -> HeadersOf(Len(traces), spans)]
  /\ calling \in [Ctx -> CallOf(Len(traces), spans)]
  /\ wire \subseteq RequestOf(Len(traces), spans)

\* The stacks hold spans of their trace only.
IdsAt(st, id, sp) == \A i \in 1..Len(st) : sp[st[i]].trace = id

IdsOK == \A t \in 1..Len(traces) : IdsAt(traces[t].stack, traces[t].id, spans)

\* While a context has a trace, the root of that trace is on its stack.
RootedAt(st, sp) == st # <<>> /\ sp[st[1]].root

Rooted == \A c \in Ctx : current[c] # None => RootedAt(Stack(c), spans)

\* TraceIsOneTree in two parts: how a span hangs, and that there is one root.
HangsAt(n, s, sp) ==
  /\ n.parent \notin {None, Remote} => n.parent < s /\ sp[n.parent].trace = n.trace
  /\ n.parent = None => n.type = "root"

HangsOK(sp) == \A s \in 1..Len(sp) : HangsAt(sp[s], s, sp)

SameRoot(n, u) ==
  n.type = "root" /\ n.trace \notin CallerId /\ u.type = "root" /\ u.trace = n.trace

RootsOK(sp) == \A s, u \in 1..Len(sp) : SameRoot(sp[s], sp[u]) => u = s

\* The tracer under the services.
CoreInv ==
  HeapOK /\ RefsOK /\ IdsOK /\ PrivateInv /\ Rooted /\ HangsOK(spans) /\ RootsOK(spans)

PropInv == CoreInv /\ HeaderInv

\* The headers of the invariant are headers of the type invariant.
LEMMA HeaderTypes ==
  ASSUME HeaderInv, HeapOK
  PROVE  PropagationTypeOK
  <1>1. HeaderOf(Len(traces), spans) \subseteq HeaderSet
    BY DEF HeaderOf, HeaderSet
  <1>2. HeadersOf(Len(traces), spans) \subseteq HeadersSet
    BY <1>1 DEF HeadersOf, HeadersSet
  <1>3. {None} \cup Inner(spans) \subseteq 0..Len(spans)
    BY LenProperties DEF Inner, HeapOK, None
  <1>4. CallOf(Len(traces), spans) \subseteq
          [state : {"idle", "prepared", "sent"}, span : 0..Len(spans),
           carrier : Ctx \cup {None}, headers : HeadersSet]
    BY <1>2, <1>3 DEF CallOf
  <1>5. RequestOf(Len(traces), spans) \subseteq [headers : HeadersSet, by : Ctx, from : 0..Len(spans)]
    BY <1>2 DEF RequestOf
  <1>6. /\ carrier \in [Ctx -> HeadersSet]
        /\ calling \in [Ctx -> [state : {"idle", "prepared", "sent"}, span : 0..Len(spans),
                               carrier : Ctx \cup {None}, headers : HeadersSet]]
        /\ wire \subseteq [headers : HeadersSet, by : Ctx, from : 0..Len(spans)]
    BY <1>2, <1>4, <1>5 DEF HeaderInv
  <1> QED
    BY <1>6 DEF HeaderInv, PropagationTypeOK

-----------------------------------------------------------------------------
(* What a step leaves of the objects made before it *)

\* Objects are only added, and a span never changes.
Longer(n, sp, n2, sp2) ==
  /\ n \in Nat /\ n2 \in Nat /\ Len(sp) \in Nat /\ Len(sp2) \in Nat
  /\ n2 >= n /\ Len(sp2) >= Len(sp)
  /\ \A s \in 1..Len(sp) : sp2[s] = sp[s]

Grown == Longer(Len(traces), spans, Len(traces'), spans')

\* A header that was sound stays sound.
LEMMA HeadersGrow ==
  ASSUME NEW n, NEW sp, NEW n2, NEW sp2, Longer(n, sp, n2, sp2)
  PROVE  HeadersOf(n, sp) \subseteq HeadersOf(n2, sp2)
  <1>1. PICK m \in Nat, m2 \in Nat : m = Len(sp) /\ m2 = Len(sp2)
    BY DEF Longer
  <1>2. /\ n \in Nat /\ n2 \in Nat /\ n2 >= n /\ m2 >= m
        /\ \A s \in 1..m : sp2[s] = sp[s]
    BY <1>1 DEF Longer
  <1>3. 0..n \subseteq 0..n2 /\ 0..m \subseteq 0..m2
    BY <1>2
  <1>4. Remote \notin Nat
    BY TracerAssumption
  <1>5. ASSUME NEW h \in HeaderOf(n, sp)
        PROVE  h \in HeaderOf(n2, sp2)
    <2>1. h \in [form : {"absent", "1", "2", "garbled", "00"}, trace : CallerId \cup (0..n2),
                 parent : (0..m2) \cup {Remote}, fields : SUBSET Field]
      BY <1>1, <1>3 DEF HeaderOf
    <2>2. h.parent \in (0..m) \cup {Remote}
      BY <1>1 DEF HeaderOf
    <2>3. h.parent \in 1..m2 => h.parent \in 1..m
      BY <1>4, <2>2
    <2>4. h.parent \in 1..m => sp[h.parent].trace = h.trace
      BY <1>1 DEF HeaderOf
    <2>5. h.parent \in 1..m2 => sp2[h.parent].trace = h.trace
      BY <1>2, <2>3, <2>4
    <2>6. h.trace \notin CallerId \cup {None} => h.parent \in 1..m
      BY <1>1 DEF HeaderOf
    <2>7. h.trace \notin CallerId \cup {None} => h.parent \in 1..m2
      BY <1>2, <2>6
    <2> QED
      BY <1>1, <2>1, <2>5, <2>7 DEF HeaderOf
  <1> QED
    BY <1>5 DEF HeadersOf

\* ... and so do calls and requests.
LEMMA NamesGrow ==
  ASSUME NEW n, NEW sp, NEW n2, NEW sp2, Longer(n, sp, n2, sp2)
  PROVE  /\ CallOf(n, sp) \subseteq CallOf(n2, sp2)
         /\ RequestOf(n, sp) \subseteq RequestOf(n2, sp2)
         /\ [Ctx -> HeadersOf(n, sp)] \subseteq [Ctx -> HeadersOf(n2, sp2)]
         /\ [Ctx -> CallOf(n, sp)] \subseteq [Ctx -> CallOf(n2, sp2)]
         /\ [Ctx -> 0..Len(sp)] \subseteq [Ctx -> 0..Len(sp2)]
  <1>1. HeadersOf(n, sp) \subseteq HeadersOf(n2, sp2)
    BY HeadersGrow
  <1>2. 0..Len(sp) \subseteq 0..Len(sp2) /\ 1..Len(sp) \subseteq 1..Len(sp2)
    BY DEF Longer
  <1>3. Inner(sp) \subseteq Inner(sp2)
    BY <1>2 DEF Inner, Longer
  <1>4. CallOf(n, sp) \subseteq CallOf(n2, sp2)
    BY <1>1, <1>3 DEF CallOf
  <1>5. RequestOf(n, sp) \subseteq RequestOf(n2, sp2)
    BY <1>1, <1>2 DEF RequestOf
  <1> QED
    BY <1>1, <1>2, <1>4, <1>5

\* What a step does not assign is right after it.
LEMMA HeadersStay ==
  ASSUME HeaderInv, Grown
  PROVE  /\ serving \in [Ctx -> 0..Len(spans')]
         /\ carrier \in [Ctx -> HeadersOf(Len(traces'), spans')]
         /\ calling \in [Ctx -> CallOf(Len(traces'), spans')]
         /\ wire \subseteq RequestOf(Len(traces'), spans')
  BY NamesGrow, Zenon DEF HeaderInv, Grown


-----------------------------------------------------------------------------
(* The tree *)

\* TraceIsOneTree, span by span: the form that the proofs use.
LEMMA TreeParts ==
  ASSUME HeapOK
  PROVE  HangsOK(spans) /\ RootsOK(spans) => TraceIsOneTree
  <1> SUFFICES ASSUME HangsOK(spans), RootsOK(spans), NEW s \in DOMAIN spans
               PROVE  /\ spans[s].parent \notin {None, Remote} =>
                           spans[s].parent < s /\ spans[spans[s].parent].trace = spans[s].trace
                      /\ spans[s].parent = None => spans[s].type = "root"
                      /\ spans[s].type = "root" /\ spans[s].trace \notin CallerId =>
                           \A u \in DOMAIN spans :
                             spans[u].type = "root" /\ spans[u].trace = spans[s].trace => u = s
    BY Zenon DEF TraceIsOneTree
  <1>1. DOMAIN spans = 1..Len(spans)
    BY LenProperties DEF HeapOK
  <1>2. HangsAt(spans[s], s, spans)
    BY <1>1 DEF HangsOK
  <1>3. ASSUME NEW u \in DOMAIN spans, spans[s].type = "root", spans[s].trace \notin CallerId,
               spans[u].type = "root", spans[u].trace = spans[s].trace
        PROVE  u = s
    BY <1>1, <1>3 DEF RootsOK, SameRoot
  <1> QED
    BY <1>2, <1>3 DEF HangsAt

\* A new span hangs under an older one of its trace, or is marked as a root.
LEMMA HangsAppend ==
  ASSUME NEW S, NEW sp \in Seq(S), NEW n \in S, HangsOK(sp),
         \A s \in 1..Len(sp) : sp[s].parent \in (0..Len(sp)) \cup {Remote},
         HangsAt(n, Len(sp) + 1, sp), n.parent \in (0..Len(sp)) \cup {Remote}
  PROVE  HangsOK(Append(sp, n))
  <1>1. PICK m \in Nat : m = Len(sp)
    BY LenProperties
  <1>2. /\ Len(Append(sp, n)) = m + 1
        /\ \A i \in 1..m : Append(sp, n)[i] = sp[i]
        /\ Append(sp, n)[m + 1] = n
    BY <1>1, SeqAppend
  <1>3. PICK sp2 : sp2 = Append(sp, n)
    OBVIOUS
  <1>4. ASSUME NEW x, NEW s, HangsAt(x, s, sp), x.parent \in (0..m) \cup {Remote}
        PROVE  HangsAt(x, s, sp2)
    <2>1. x.parent \notin {None, Remote} => x.parent \in 1..m
      BY <1>4 DEF None
    <2>2. x.parent \notin {None, Remote} => sp2[x.parent] = sp[x.parent]
      BY <1>2, <1>3, <2>1
    <2> QED
      BY <1>4, <2>2 DEF HangsAt
  <1>5. \A s \in 1..m : HangsAt(sp[s], s, sp) /\ sp[s].parent \in (0..m) \cup {Remote}
    BY <1>1 DEF HangsOK
  <1>6. ASSUME NEW s \in 1..(m + 1)
        PROVE  HangsAt(sp2[s], s, sp2)
    <2>1. CASE s \in 1..m
      <3>1. sp2[s] = sp[s]
        BY <1>2, <1>3, <2>1
      <3>2. HangsAt(sp[s], s, sp2)
        BY <1>4, <1>5, <2>1
      <3> QED
        BY <3>1, <3>2
    <2>2. CASE s = m + 1
      <3>1. HangsAt(n, m + 1, sp2)
        BY <1>1, <1>4
      <3> QED
        BY <1>2, <1>3, <2>2, <3>1
    <2> QED
      BY <2>1, <2>2
  <1> QED
    BY <1>2, <1>3, <1>6 DEF HangsOK

\* A new span that is the root of a beeline's trace is the first span of it.
LEMMA RootsAppend ==
  ASSUME NEW S, NEW sp \in Seq(S), NEW n \in S, RootsOK(sp),
         n.type = "root" /\ n.trace \notin CallerId => \A s \in 1..Len(sp) : sp[s].trace # n.trace
  PROVE  RootsOK(Append(sp, n))
  <1>1. PICK m \in Nat : m = Len(sp)
    BY LenProperties
  <1>2. /\ Len(Append(sp, n)) = m + 1
        /\ \A i \in 1..m : Append(sp, n)[i] = sp[i]
        /\ Append(sp, n)[m + 1] = n
    BY <1>1, SeqAppend
  <1>3. PICK sp2 : sp2 = Append(sp, n)
    OBVIOUS
  <1>4. \A s \in 1..m : ~SameRoot(sp[s], n) /\ ~SameRoot(n, sp[s])
    BY <1>1 DEF SameRoot
  <1>5. ASSUME NEW s \in 1..(m + 1), NEW u \in 1..(m + 1), SameRoot(sp2[s], sp2[u])
        PROVE  u = s
    <2>1. CASE s \in 1..m /\ u \in 1..m
      BY <1>1, <1>2, <1>3, <1>5, <2>1 DEF RootsOK
    <2>2. CASE s = m + 1 /\ u \in 1..m
      BY <1>2, <1>3, <1>4, <1>5, <2>2
    <2>3. CASE s \in 1..m /\ u = m + 1
      BY <1>2, <1>3, <1>4, <1>5, <2>3
    <2>4. CASE s = m + 1 /\ u = m + 1
      BY <2>4
    <2> QED
      BY <2>1, <2>2, <2>3, <2>4
  <1> QED
    BY <1>2, <1>3, <1>5 DEF RootsOK

-----------------------------------------------------------------------------
(* The stacks *)

\* Spans made later change nothing about the ids on a stack ...
LEMMA IdsGrow ==
  ASSUME NEW S, NEW sp \in Seq(S), NEW n \in S, NEW st \in Seq(1..Len(sp)), NEW id, IdsAt(st, id, sp)
  PROVE  IdsAt(st, id, Append(sp, n))
  <1>1. \A i \in 1..Len(st) : Append(sp, n)[st[i]] = sp[st[i]]
    BY SeqAppend, ElementOfSeq
  <1> QED
    BY <1>1 DEF IdsAt

\* ... nor about the root at its bottom.
LEMMA RootedGrow ==
  ASSUME NEW S, NEW sp \in Seq(S), NEW n \in S, NEW st \in Seq(1..Len(sp)), RootedAt(st, sp)
  PROVE  RootedAt(st, Append(sp, n))
  <1>1. 1 \in 1..Len(st)
    BY LenProperties, EmptySeq DEF RootedAt
  <1>2. st[1] \in 1..Len(sp)
    BY <1>1, ElementOfSeq
  <1>3. Append(sp, n)[st[1]] = sp[st[1]]
    BY <1>2, SeqAppend
  <1> QED
    BY <1>3 DEF RootedAt

\* A new span of the trace goes on top.
LEMMA StackPush ==
  ASSUME NEW S, NEW sp \in Seq(S), NEW n \in S, NEW st \in Seq(1..Len(sp)),
         IdsAt(st, n.trace, sp), RootedAt(st, sp)
  PROVE  /\ IdsAt(Append(st, Len(sp) + 1), n.trace, Append(sp, n))
         /\ RootedAt(Append(st, Len(sp) + 1), Append(sp, n))
  <1>1. PICK m \in Nat, k \in Nat : m = Len(sp) /\ k = Len(st)
    BY LenProperties
  <1>2. PICK sp2 : sp2 = Append(sp, n)
    OBVIOUS
  <1>3. /\ sp2[m + 1] = n
        /\ \A i \in 1..m : sp2[i] = sp[i]
    BY <1>1, <1>2, SeqAppend
  <1>4. PICK st2 : st2 = Append(st, m + 1)
    OBVIOUS
  <1>5. /\ st2 \in Seq(1..(m + 1)) /\ Len(st2) = k + 1
        /\ \A i \in 1..k : st2[i] = st[i] /\ st[i] \in 1..m
        /\ st2[k + 1] = m + 1
    <2>1. st \in Seq(1..(m + 1)) /\ m + 1 \in 1..(m + 1)
      BY <1>1, SeqMonotonic
    <2>2. \A i \in 1..k : st[i] \in 1..m
      BY <1>1, ElementOfSeq
    <2> QED
      BY <1>1, <1>4, <2>1, <2>2, SeqAppend
  <1>6. IdsAt(st2, n.trace, sp2)
    <2>1. \A i \in 1..k : sp[st[i]].trace = n.trace
      BY <1>1 DEF IdsAt
    <2>2. ASSUME NEW i \in 1..(k + 1) PROVE sp2[st2[i]].trace = n.trace
      <3>1. CASE i = k + 1
        BY <1>3, <1>5, <3>1
      <3>2. CASE i \in 1..k
        <4>1. st2[i] = st[i] /\ st[i] \in 1..m
          BY <1>5, <3>2
        <4>2. sp2[st[i]] = sp[st[i]]
          BY <1>3, <4>1
        <4> QED
          BY <2>1, <3>2, <4>1, <4>2
      <3> QED
        BY <3>1, <3>2
    <2> QED
      BY <1>5, <2>2 DEF IdsAt
  <1>7. RootedAt(st2, sp2)
    <2>1. st # <<>> /\ sp[st[1]].root
      BY DEF RootedAt
    <2>2. 1 \in 1..k
      BY <1>1, <2>1, EmptySeq
    <2>3. st2[1] = st[1] /\ st[1] \in 1..m
      BY <1>5, <2>2
    <2>4. sp2[st2[1]] = sp[st[1]]
      BY <1>3, <2>3
    <2>5. st2 # <<>>
      BY <1>5, EmptySeq
    <2> QED
      BY <2>1, <2>4, <2>5 DEF RootedAt
  <1> QED
    BY <1>1, <1>2, <1>4, <1>6, <1>7

\* The end of a stack is taken off; unless it was the root, that one stays.
LEMMA StackPop ==
  ASSUME NEW S, NEW st \in Seq(S), st # <<>>, NEW id, NEW sp, IdsAt(st, id, sp)
  PROVE  /\ IdsAt(Front(st), id, sp)
         /\ RootedAt(st, sp) /\ ~sp[Last(st)].root => RootedAt(Front(st), sp)
  <1>1. PICK k \in Nat \ {0} : k = Len(st)
    BY EmptySeq
  <1>2. PICK f : f = Front(st)
    OBVIOUS
  <1>3. /\ f \in Seq(S) /\ Len(f) = k - 1
        /\ \A i \in 1..(k - 1) : f[i] = st[i]
        /\ Last(st) = st[k]
    BY <1>1, <1>2, SeqFront
  <1>4. IdsAt(f, id, sp)
    BY <1>1, <1>3 DEF IdsAt
  <1>5. ASSUME RootedAt(st, sp), ~sp[Last(st)].root
        PROVE  RootedAt(f, sp)
    <2>1. k # 1
      BY <1>3, <1>5 DEF RootedAt
    <2>2. f[1] = st[1] /\ f # <<>>
      BY <1>1, <1>3, <2>1, EmptySeq
    <2> QED
      BY <1>5, <2>2 DEF RootedAt
  <1> QED
    BY <1>2, <1>4, <1>5


-----------------------------------------------------------------------------
(* What the calls of the tracer do to it *)

\* What the parent and the id of a new trace have to be.
ContextOK(id, p) ==
  /\ id \in CallerId \cup (0..Len(traces))
  /\ p \in (0..Len(spans)) \cup {Remote}
  /\ p \in 1..Len(spans) => spans[p].trace = id
  /\ id \notin CallerId \cup {None} => p \in 1..Len(spans)

\* No Trace gets a second owner when one context starts a trace or drops its own.
LEMMA PrivateKept ==
  ASSUME HeapOK, RefsOK, PrivateInv, NEW c \in Ctx, UNCHANGED decorated,
         \/ current' = current
         \/ current' = [current EXCEPT ![c] = NewTrace]
         \/ current' = [current EXCEPT ![c] = None]
  PROVE  PrivateInv'
  <1>1. CASE current' = [current EXCEPT ![c] = NewTrace]
    BY <1>1, LenProperties DEF HeapOK, RefsOK, PrivateInv, NewTrace, None
  <1>2. CASE current' = current \/ current' = [current EXCEPT ![c] = None]
    BY <1>2 DEF RefsOK, PrivateInv
  <1> QED
    BY <1>1, <1>2

\* The trace that a context is in, and its stack.
LEMMA CurrentType ==
  ASSUME HeapOK, RefsOK, NEW c \in Ctx, current[c] # None
  PROVE  /\ current[c] \in 1..Len(traces)
         /\ Stack(c) \in Seq(1..Len(spans))
  <1>1. current[c] \in 1..Len(traces)
    BY LenProperties DEF HeapOK, RefsOK, None
  <1> QED
    BY <1>1, TraceType DEF Stack

\* The spans with one more are spans, whatever that one is.
LEMMA SpansAppended ==
  ASSUME HeapOK, NEW n, spans' = Append(spans, n)
  PROVE  /\ Len(spans) \in Nat /\ Len(spans') = Len(spans) + 1
         /\ spans'[Len(spans) + 1] = n
         /\ \A s \in 1..Len(spans) : spans'[s] = spans[s]
         /\ spans \in Seq(SpanSet(Len(traces), Len(spans)) \cup {n})
         /\ n \in SpanSet(Len(traces), Len(spans)) \cup {n}
  <1>1. spans \in Seq(SpanSet(Len(traces), Len(spans)) \cup {n}) /\ n \in SpanSet(Len(traces), Len(spans)) \cup {n}
    BY SeqMonotonic DEF HeapOK
  <1> QED
    BY <1>1, SeqAppend, LenProperties

\* What a span has for a parent and a trace.
LEMMA SpanType ==
  ASSUME HeapOK, NEW s \in 1..Len(spans)
  PROVE  /\ spans[s].parent \in (0..Len(spans)) \cup {Remote}
         /\ spans[s].trace \in CallerId \cup (1..Len(traces))
  <1>1. spans[s] \in SpanSet(Len(traces), Len(spans))
    BY ElementOfSeq DEF HeapOK
  <1> QED
    BY <1>1 DEF SpanSet

\* Every action of the services makes the spans grow, or leaves them.
LEMMA GrownStays ==
  ASSUME HeapOK, Len(traces') = Len(traces), UNCHANGED spans
  PROVE  Grown
  BY LenProperties DEF HeapOK, Grown, Longer

\* A trace is started under a span of another service, or by itself.
LEMMA StartTraceCore ==
  ASSUME CoreInv, NEW c \in Ctx, NEW id, NEW p, ContextOK(id, p), StartTrace(c, id, p)
  PROVE  CoreInv' /\ Grown /\ Len(traces') = Len(traces) + 1 /\ Len(spans') = Len(spans) + 1
  <1> DEFINE tid == IF id = None THEN NewTrace ELSE id
             n == [trace |-> tid, parent |-> p, root |-> TRUE,
                   type |-> IF p = None THEN "root" ELSE "subroot"]
             t == [id |-> tid, stack |-> <<NewSpan>>]
  <1>1. HeapOK /\ RefsOK /\ Len(traces) \in Nat
    BY LenProperties DEF CoreInv, HeapOK
  <1>2. HeapOK' /\ RefsOK'
    BY <1>1, StartTraceAnyType DEF ContextOK
  <1>3. spans' = Append(spans, n) /\ traces' = Append(traces, t)
    BY DEF StartTrace, PushSpan
  <1>4. /\ Len(spans) \in Nat /\ Len(spans') = Len(spans) + 1
        /\ spans'[Len(spans) + 1] = n
        /\ \A s \in 1..Len(spans) : spans'[s] = spans[s]
        /\ spans \in Seq(SpanSet(Len(traces), Len(spans)) \cup {n})
        /\ n \in SpanSet(Len(traces), Len(spans)) \cup {n}
    <2> HIDE DEF n
    <2> QED
      BY <1>1, <1>3, SpansAppended
  <1>5. /\ Len(traces') = Len(traces) + 1
        /\ traces'[Len(traces) + 1] = t
        /\ \A u \in 1..Len(traces) : traces'[u] = traces[u]
    <2> HIDE DEF t
    <2> QED
      BY <1>1, <1>3, TraceAppended
  <1>6. Grown
    BY <1>1, <1>4, <1>5 DEF Grown, Longer
  <1>7. IdsOK'
    <2>1. ASSUME NEW u \in 1..Len(traces)
          PROVE  IdsAt(traces'[u].stack, traces'[u].id, spans')
      <3>1. IdsAt(traces[u].stack, traces[u].id, spans) /\ traces[u].stack \in Seq(1..Len(spans))
        BY <1>1, TraceType DEF CoreInv, IdsOK
      <3> HIDE DEF n
      <3> QED
        BY <1>3, <1>4, <1>5, <3>1, IdsGrow
    <2>2. IdsAt(<<NewSpan>>, tid, spans')
      BY <1>4 DEF IdsAt, NewSpan
    <2>3. ASSUME NEW u \in 1..Len(traces')
          PROVE  IdsAt(traces'[u].stack, traces'[u].id, spans')
      <3>1. u \in 1..Len(traces) \/ u = Len(traces) + 1
        BY <1>1, <1>5
      <3> QED
        BY <1>5, <2>1, <2>2, <3>1
    <2> QED
      BY <2>3 DEF IdsOK
  <1>8. PrivateInv'
    BY <1>1, PrivateKept DEF CoreInv, StartTrace
  <1>9. Rooted'
    <2>1. current' = [current EXCEPT ![c] = Len(traces) + 1] /\ current \in [Ctx -> 0..Len(traces)]
      BY <1>1 DEF StartTrace, NewTrace, RefsOK
    <2>2. ASSUME NEW d \in Ctx, current'[d] # None
          PROVE  RootedAt(traces'[current'[d]].stack, spans')
      <3>1. CASE d = c
        <4>1. traces'[current'[d]].stack = <<NewSpan>>
          BY <1>5, <2>1, <3>1
        <4>2. RootedAt(<<NewSpan>>, spans')
          BY <1>4 DEF RootedAt, NewSpan
        <4> QED
          BY <4>1, <4>2
      <3>2. CASE d # c
        <4>1. current'[d] = current[d] /\ current[d] # None
          BY <2>1, <2>2, <3>2
        <4>2. Stack(d) \in Seq(1..Len(spans)) /\ current[d] \in 1..Len(traces)
          BY <1>1, <4>1, CurrentType
        <4>3. traces'[current'[d]].stack = Stack(d)
          BY <1>5, <4>1, <4>2 DEF Stack
        <4>4. RootedAt(Stack(d), spans)
          BY <4>1 DEF CoreInv, Rooted
        <4>5. RootedAt(Stack(d), spans')
          <5> HIDE DEF n
          <5> QED
            BY <1>3, <1>4, <4>2, <4>4, RootedGrow
        <4> QED
          BY <4>3, <4>5
      <3> QED
        BY <3>1, <3>2
    <2> QED
      BY <2>2 DEF Rooted, Stack
  <1>10. HangsOK(spans')
    <2>1. HangsAt(n, Len(spans) + 1, spans) /\ n.parent \in (0..Len(spans)) \cup {Remote}
      <3>1. p \notin {None, Remote} => p \in 1..Len(spans)
        BY <1>4 DEF ContextOK, None
      <3>2. p \in 1..Len(spans) => spans[p].trace = tid
        <4>1. p \in 1..Len(spans) => id \in CallerId \cup (1..Len(traces))
          BY <1>1, SpanType DEF ContextOK
        <4>2. p \in 1..Len(spans) => id # None
          BY <1>1, <4>1, TracerAssumption DEF None
        <4> QED
          BY <4>2 DEF ContextOK
      <3>3. p \in 1..Len(spans) => p < Len(spans) + 1
        BY <1>4
      <3>4. p = None => n.type = "root"
        OBVIOUS
      <3>5. p \in (0..Len(spans)) \cup {Remote}
        BY DEF ContextOK
      <3> HIDE DEF tid
      <3> QED
        BY <3>1, <3>2, <3>3, <3>4, <3>5 DEF HangsAt
    <2>2. \A s \in 1..Len(spans) : spans[s].parent \in (0..Len(spans)) \cup {Remote}
      BY <1>1, SpanType
    <2> HIDE DEF n
    <2> QED
      BY <1>3, <1>4, <2>1, <2>2, HangsAppend DEF CoreInv
  <1>11. RootsOK(spans')
    <2>1. n.type = "root" /\ n.trace \notin CallerId => \A s \in 1..Len(spans) : spans[s].trace # n.trace
      <3>1. ASSUME n.type = "root", n.trace \notin CallerId, NEW s \in 1..Len(spans)
            PROVE  spans[s].trace # n.trace
        <4>1. p = None
          BY <3>1
        <4>2. p \notin 1..Len(spans)
          BY <1>4, <4>1 DEF None
        <4>3. id = None
          BY <3>1, <4>2 DEF ContextOK
        <4>4. n.trace = Len(traces) + 1
          BY <4>3 DEF NewTrace
        <4>5. spans[s].trace \in CallerId \cup (1..Len(traces))
          BY <1>1, SpanType
        <4> QED
          BY <1>1, <3>1, <4>4, <4>5
      <3> QED
        BY <3>1
    <2> HIDE DEF n
    <2> QED
      BY <1>3, <1>4, <2>1, RootsAppend DEF CoreInv
  <1> QED
    BY <1>2, <1>4, <1>5, <1>6, <1>7, <1>8, <1>9, <1>10, <1>11 DEF CoreInv


\* A call starts a span under the active one, in the trace of its context.
LEMMA StartSpanCore ==
  ASSUME CoreInv, NEW c \in Ctx, StartSpan(c, None)
  PROVE  /\ CoreInv' /\ Grown /\ Len(traces') = Len(traces) /\ Len(spans') = Len(spans) + 1
         /\ NewSpan \in Inner(spans')
         /\ spans'[NewSpan].trace = traces[current[c]].id
         /\ ActiveSpan(c)' = NewSpan
  <1> DEFINE t == current[c]
             n == [trace |-> traces[t].id, parent |-> ActiveSpan(c), root |-> Stack(c) = <<>>,
                   type |-> "child"]
  <1>1. HeapOK /\ RefsOK /\ Len(traces) \in Nat /\ t # None
    BY LenProperties DEF CoreInv, HeapOK, StartSpan
  <1>2. HeapOK' /\ RefsOK'
    <2>1. None \in Parents
      BY DEF Parents
    <2> QED
      BY <1>1, <2>1, StartSpanType
  <1>3. t \in 1..Len(traces) /\ Stack(c) \in Seq(1..Len(spans)) /\ Stack(c) = traces[t].stack
    BY <1>1, CurrentType DEF Stack
  <1>4. RootedAt(Stack(c), spans) /\ IdsAt(Stack(c), traces[t].id, spans)
    BY <1>1, <1>3 DEF CoreInv, Rooted, IdsOK
  <1>5. PICK top \in 1..Len(spans) : top = Last(Stack(c)) /\ top = ActiveSpan(c)
                                     /\ spans[top].trace = traces[t].id
    <2>1. PICK st \in Seq(1..Len(spans)) : st = Stack(c)
      BY <1>3
    <2>2. st # <<>>
      BY <1>4, <2>1 DEF RootedAt
    <2>3. Last(st) \in 1..Len(spans) /\ Last(st) = st[Len(st)] /\ Len(st) \in Nat \ {0}
      BY <2>1, <2>2, SeqFront
    <2>4. spans[st[Len(st)]].trace = traces[t].id
      <3>1. Len(st) \in 1..Len(st)
        BY <2>3
      <3> QED
        BY <1>4, <2>1, <3>1 DEF IdsAt
    <2> QED
      BY <1>1, <2>1, <2>2, <2>3, <2>4 DEF ActiveSpan
  <1>6. spans' = Append(spans, n)
    BY DEF StartSpan, PushSpan, None
  <1>7. /\ Len(spans) \in Nat /\ Len(spans') = Len(spans) + 1
        /\ spans'[Len(spans) + 1] = n
        /\ \A s \in 1..Len(spans) : spans'[s] = spans[s]
        /\ spans \in Seq(SpanSet(Len(traces), Len(spans)) \cup {n})
        /\ n \in SpanSet(Len(traces), Len(spans)) \cup {n}
    <2> HIDE DEF n
    <2> QED
      BY <1>1, <1>6, SpansAppended
  <1>8. /\ Len(traces') = Len(traces)
        /\ traces'[t].id = traces[t].id
        /\ traces'[t].stack = Append(Stack(c), Len(spans) + 1)
        /\ \A u \in 1..Len(traces) : u # t => traces'[u] = traces[u]
    <2>1. traces' = [traces EXCEPT ![t].stack = Append(traces[t].stack, NewSpan)]
      BY DEF StartSpan
    <2> QED
      BY <1>1, <1>3, <2>1, StackReplaced DEF NewSpan
  <1>9. Grown
    BY <1>1, <1>7, <1>8 DEF Grown, Longer
  <1>10. /\ IdsAt(Append(Stack(c), Len(spans) + 1), traces[t].id, spans')
         /\ RootedAt(Append(Stack(c), Len(spans) + 1), spans')
    <2>1. n.trace = traces[t].id
      OBVIOUS
    <2> HIDE DEF n
    <2> QED
      BY <1>3, <1>4, <1>6, <1>7, <2>1, StackPush
  <1>11. IdsOK'
    <2>1. ASSUME NEW u \in 1..Len(traces), u # t
          PROVE  IdsAt(traces'[u].stack, traces'[u].id, spans')
      <3>1. IdsAt(traces[u].stack, traces[u].id, spans) /\ traces[u].stack \in Seq(1..Len(spans))
        BY <1>1, TraceType DEF CoreInv, IdsOK
      <3> HIDE DEF n, t
      <3> QED
        BY <1>6, <1>7, <1>8, <2>1, <3>1, IdsGrow
    <2> HIDE DEF t
    <2> QED
      BY <1>8, <1>10, <2>1 DEF IdsOK
  <1>12. current' = current
    BY DEF StartSpan
  <1>13. PrivateInv'
    BY <1>1, <1>12, PrivateKept DEF CoreInv, StartSpan
  <1>14. Rooted'
    <2>1. ASSUME NEW d \in Ctx, current[d] # None
          PROVE  RootedAt(traces'[current[d]].stack, spans')
      <3>1. CASE d = c
        BY <1>8, <1>10, <3>1
      <3>2. CASE d # c
        <4>1. current[d] \in 1..Len(traces) /\ Stack(d) \in Seq(1..Len(spans))
          BY <1>1, <2>1, CurrentType
        <4>2. current[d] # t
          BY <1>1, <3>2 DEF CoreInv, PrivateInv
        <4>3. traces'[current[d]].stack = Stack(d)
          BY <1>8, <4>1, <4>2 DEF Stack
        <4>4. RootedAt(Stack(d), spans)
          BY <2>1 DEF CoreInv, Rooted
        <4>5. RootedAt(Stack(d), spans')
          <5> HIDE DEF n
          <5> QED
            BY <1>6, <1>7, <4>1, <4>4, RootedGrow
        <4> QED
          BY <4>3, <4>5
      <3> QED
        BY <3>1, <3>2
    <2> QED
      BY <1>12, <2>1 DEF Rooted, Stack
  <1>15. HangsOK(spans')
    <2>1. HangsAt(n, Len(spans) + 1, spans) /\ n.parent \in (0..Len(spans)) \cup {Remote}
      <3>1. n.parent = top /\ n.trace = traces[t].id /\ top \in 1..Len(spans)
        BY <1>5
      <3>2. top < Len(spans) + 1 /\ top # None
        BY <1>7, <3>1 DEF None
      <3> HIDE DEF n
      <3> QED
        BY <1>5, <3>1, <3>2 DEF HangsAt
    <2>2. \A s \in 1..Len(spans) : spans[s].parent \in (0..Len(spans)) \cup {Remote}
      BY <1>1, SpanType
    <2> HIDE DEF n
    <2> QED
      BY <1>6, <1>7, <2>1, <2>2, HangsAppend DEF CoreInv
  <1>16. RootsOK(spans')
    <2>1. n.type # "root"
      OBVIOUS
    <2> HIDE DEF n
    <2> QED
      BY <1>6, <1>7, <2>1, RootsAppend DEF CoreInv
  <1>17. NewSpan \in Inner(spans') /\ spans'[NewSpan].trace = traces[t].id
    <2>1. NewSpan = Len(spans) + 1 /\ NewSpan \in 1..Len(spans')
      BY <1>7 DEF NewSpan
    <2>2. ~n.root /\ n.trace = traces[t].id
      BY <1>4 DEF RootedAt
    <2> HIDE DEF n
    <2> QED
      BY <1>7, <2>1, <2>2 DEF Inner
  <1>18. ActiveSpan(c)' = NewSpan
    <2>1. Stack(c)' = Append(Stack(c), Len(spans) + 1)
      BY <1>8, <1>12 DEF Stack
    <2>2. PICK st \in Seq(Nat), e \in Nat : st = Stack(c) /\ e = Len(spans) + 1
      <3>1. 1..Len(spans) \subseteq Nat /\ Len(spans) + 1 \in Nat
        BY <1>7
      <3>2. Stack(c) \in Seq(Nat)
        BY <1>3, <3>1, SeqMonotonic
      <3> QED
        BY <3>1, <3>2
    <2>3. Append(st, e) # <<>> /\ Last(Append(st, e)) = e
      BY LastAppended
    <2> QED
      BY <1>1, <1>12, <2>1, <2>2, <2>3 DEF ActiveSpan, NewSpan
  <1> QED
    BY <1>2, <1>7, <1>8, <1>9, <1>11, <1>13, <1>14, <1>15, <1>16, <1>17, <1>18 DEF CoreInv

\* Spans are finished in a context: a span of a call, or the root of the trace,
\* which then is no more the context's own.
LEMMA FinishCore ==
  ASSUME CoreInv, NEW c \in Ctx, NEW s \in 1..Len(spans), NEW o \in Outcomes,
         (FinishSpan(c, s, o) /\ s \in Inner(spans)) \/ FinishTrace(c, s, o),
         UNCHANGED <<sending, decorated>>
  PROVE  CoreInv' /\ Grown /\ Len(traces') = Len(traces) /\ UNCHANGED spans
  <1>1. HeapOK /\ RefsOK /\ PrivateInv
    BY DEF CoreInv
  <1>2. HeapOK' /\ Len(traces') = Len(traces) /\ UNCHANGED spans
    BY <1>1, CloseType
  <1>3. RefsOK'
    <2>1. sending' \in [Ctx -> 0..Len(spans')]
      BY <1>1, <1>2 DEF RefsOK
    <2> QED
      BY <1>1, <2>1, FinishType
  <1>4. Grown
    BY <1>1, <1>2, GrownStays
  <1>5. PrivateInv'
    BY <1>1, PrivateKept DEF FinishSpan, FinishTrace
  <1>6. Pop(c, s) \/ UNCHANGED traces
    BY DEF FinishSpan, FinishTrace
  <1>7. ASSUME IsInnermost(c, s), traces' = [traces EXCEPT ![current[c]].stack = Front(@)]
        PROVE  /\ traces'[current[c]].id = traces[current[c]].id
               /\ traces'[current[c]].stack = Front(Stack(c))
               /\ \A u \in 1..Len(traces) : u # current[c] => traces'[u] = traces[u]
               /\ IdsAt(Front(Stack(c)), traces[current[c]].id, spans)
               /\ s \in Inner(spans) => RootedAt(Front(Stack(c)), spans)
               /\ current[c] \in 1..Len(traces)
    <2>1. current[c] # None /\ Stack(c) # <<>> /\ Last(Stack(c)) = s
      BY <1>7 DEF IsInnermost
    <2>2. current[c] \in 1..Len(traces) /\ Stack(c) \in Seq(1..Len(spans))
      BY <1>1, <2>1, CurrentType
    <2>3. traces' = [traces EXCEPT ![current[c]].stack = Front(Stack(c))]
      BY <1>7 DEF Stack
    <2>4. IdsAt(Stack(c), traces[current[c]].id, spans) /\ RootedAt(Stack(c), spans)
      BY <2>1, <2>2 DEF CoreInv, IdsOK, Rooted, Stack
    <2>5. /\ IdsAt(Front(Stack(c)), traces[current[c]].id, spans)
          /\ RootedAt(Stack(c), spans) /\ ~spans[Last(Stack(c))].root => RootedAt(Front(Stack(c)), spans)
      BY <2>1, <2>2, <2>4, StackPop
    <2>6. /\ traces'[current[c]].id = traces[current[c]].id
          /\ traces'[current[c]].stack = Front(Stack(c))
          /\ \A u \in 1..Len(traces) : u # current[c] => traces'[u] = traces[u]
      BY <1>1, <2>2, <2>3, StackReplaced
    <2> QED
      BY <2>1, <2>2, <2>4, <2>5, <2>6 DEF Inner
  <1>8. IdsOK'
    <2>1. CASE UNCHANGED traces
      BY <1>2, <2>1 DEF CoreInv, IdsOK
    <2>2. CASE IsInnermost(c, s) /\ traces' = [traces EXCEPT ![current[c]].stack = Front(@)]
      <3>1. ASSUME NEW u \in 1..Len(traces)
            PROVE  IdsAt(traces'[u].stack, traces'[u].id, spans)
        <4>1. CASE u = current[c]
          BY <1>7, <2>2, <4>1
        <4>2. CASE u # current[c]
          <5>1. traces'[u] = traces[u]
            BY <1>7, <2>2, <4>2
          <5> QED
            BY <5>1 DEF CoreInv, IdsOK
        <4> QED
          BY <4>1, <4>2
      <3> QED
        BY <1>2, <3>1 DEF IdsOK
    <2> QED
      BY <1>6, <2>1, <2>2 DEF Pop
  <1>9. Rooted'
    <2>1. ASSUME NEW d \in Ctx, current'[d] # None
          PROVE  RootedAt(traces'[current'[d]].stack, spans)
      <3>1. CASE d # c
        <4>1. current'[d] = current[d]
          BY <1>1, <3>1 DEF FinishSpan, FinishTrace, RefsOK
        <4>2. traces'[current[d]].stack = traces[current[d]].stack
          BY <1>1, <1>6, <2>1, <3>1, <4>1, PopKeeps
        <4>3. RootedAt(Stack(d), spans)
          BY <2>1, <4>1 DEF CoreInv, Rooted
        <4> QED
          BY <4>1, <4>2, <4>3 DEF Stack
      <3>2. CASE d = c /\ FinishTrace(c, s, o)
        <4>1. UNCHANGED <<traces, current>>
          BY <1>1, <2>1, <3>2 DEF FinishTrace, RefsOK
        <4> QED
          BY <2>1, <4>1 DEF CoreInv, Rooted, Stack
      <3>3. CASE d = c /\ FinishSpan(c, s, o) /\ s \in Inner(spans)
        <4>1. current' = current /\ current[c] # None
          BY <2>1, <3>3 DEF FinishSpan
        <4>2. CASE UNCHANGED traces
          BY <2>1, <4>1, <4>2 DEF CoreInv, Rooted, Stack
        <4>3. CASE IsInnermost(c, s) /\ traces' = [traces EXCEPT ![current[c]].stack = Front(@)]
          BY <1>7, <3>3, <4>1, <4>3
        <4> QED
          BY <1>6, <4>2, <4>3 DEF Pop
      <3> QED
        BY <3>1, <3>2, <3>3
    <2> QED
      BY <1>2, <2>1 DEF Rooted, Stack
  <1> QED
    BY <1>2, <1>3, <1>4, <1>5, <1>8, <1>9 DEF CoreInv


-----------------------------------------------------------------------------
(* Headers *)

\* A request without headers names nothing.
LEMMA NothingNamed ==
  ASSUME NEW n \in Nat, NEW sp, Len(sp) \in Nat
  PROVE  Absent \in HeaderOf(n, sp) /\ NoHeaders \in HeadersOf(n, sp)
  <1>1. Absent \in HeaderOf(n, sp)
    BY DEF Absent, Header, HeaderOf, None
  <1> QED
    BY <1>1 DEF NoHeaders, HeadersOf

\* What other programs send names none of the services' spans.
LEMMA OutsideNamed ==
  ASSUME NEW n \in Nat, NEW sp, Len(sp) \in Nat, NEW h \in OutsideHoneycomb, NEW w \in OutsideW3c
  PROVE  [honeycomb |-> h, w3c |-> w] \in HeadersOf(n, sp)
  <1>1. Remote \notin Nat
    BY TracerAssumption
  <1>2. Absent \in HeaderOf(n, sp)
    BY NothingNamed
  <1>3. ASSUME NEW f \in {"1", "2", "garbled", "00"}, NEW id \in CallerId \cup {None}, NEW p \in {None, Remote}
        PROVE  Header(f, id, p, {}) \in HeaderOf(n, sp)
    BY <1>1, <1>3 DEF Header, HeaderOf, None
  <1>4. h \in HeaderOf(n, sp)
    BY <1>2, <1>3 DEF OutsideHoneycomb
  <1>5. w \in HeaderOf(n, sp)
    BY <1>2, <1>3 DEF OutsideW3c
  <1> QED
    BY <1>4, <1>5 DEF HeadersOf

\* What a parser takes out of such headers may start a trace.
LEMMA ParsedContext ==
  ASSUME HeapOK, NEW hs \in HeadersOf(Len(traces), spans), NEW parser
  PROVE  ContextOK(ParseHttpTrace(parser, hs).trace, ParseHttpTrace(parser, hs).parent)
  <1>1. Len(traces) \in Nat /\ Len(spans) \in Nat
    BY LenProperties DEF HeapOK
  <1>2. ASSUME NEW h \in HeaderOf(Len(traces), spans)
        PROVE  ContextOK(Context(h).trace, Context(h).parent)
    BY <1>2 DEF HeaderOf, Context, ContextOK
  <1>3. ContextOK(NoContext.trace, NoContext.parent)
    BY <1>1 DEF NoContext, ContextOK, None
  <1>4. Absent \in HeaderOf(Len(traces), spans)
    BY <1>1, NothingNamed
  <1>5. ASSUME NEW h \in HeaderOf(Len(traces), spans)
        PROVE  /\ ContextOK(HoneycombParser(h).trace, HoneycombParser(h).parent)
               /\ ContextOK(W3cParser(h).trace, W3cParser(h).parent)
    <2>1. UnmarshalHoneycomb(h) \in HeaderOf(Len(traces), spans)
      BY <1>4 DEF UnmarshalHoneycomb
    <2> QED
      BY <1>2, <1>3, <2>1 DEF HoneycombParser, W3cParser
  <1>6. hs.honeycomb \in HeaderOf(Len(traces), spans) /\ hs.w3c \in HeaderOf(Len(traces), spans)
    BY DEF HeadersOf
  <1> QED
    BY <1>3, <1>5, <1>6 DEF ParseHttpTrace, DefaultParser

\* The headers that a hook makes name the span that it is given.
LEMMA HookNames ==
  ASSUME NEW n \in Nat, NEW sp, Len(sp) \in Nat, NEW s \in 1..Len(sp), NEW fs \in SUBSET Field,
         sp[s].trace \in CallerId \cup (0..n), NEW propagator
  PROVE  PropagationHook(propagator, sp[s].trace, s, fs) \in HeadersOf(n, sp)
  <1>1. NoHeaders \in HeadersOf(n, sp) /\ Absent \in HeaderOf(n, sp)
    BY NothingNamed
  <1>2. ASSUME NEW f \in {"1", "00"}, NEW g \in SUBSET Field
        PROVE  Header(f, sp[s].trace, s, g) \in HeaderOf(n, sp)
    BY <1>2 DEF Header, HeaderOf
  <1>3. ASSUME NEW h \in HeaderOf(n, sp)
        PROVE  /\ [NoHeaders EXCEPT !.honeycomb = h] \in HeadersOf(n, sp)
               /\ [NoHeaders EXCEPT !.w3c = h] \in HeadersOf(n, sp)
    BY <1>1, <1>3 DEF HeadersOf
  <1>4. MarshalHoneycomb(sp[s].trace, s, fs) \in HeadersOf(n, sp)
    BY <1>1, <1>2, <1>3 DEF MarshalHoneycomb
  <1>5. MarshalTraceparent(sp[s].trace, s) \in HeadersOf(n, sp)
    BY <1>2, <1>3 DEF MarshalTraceparent
  <1> QED
    BY <1>1, <1>4, <1>5 DEF PropagationHook

\* A Session that takes the headers of a call keeps some of its old ones.
LEMMA UpdatedNames ==
  ASSUME NEW n, NEW sp, NEW old \in HeadersOf(n, sp), NEW new \in HeadersOf(n, sp)
  PROVE  Updated(old, new) \in HeadersOf(n, sp)
  <1>1. DOMAIN old = {"honeycomb", "w3c"}
    BY DEF HeadersOf
  <1>2. old.honeycomb \in HeaderOf(n, sp) /\ old.w3c \in HeaderOf(n, sp)
        /\ new.honeycomb \in HeaderOf(n, sp) /\ new.w3c \in HeaderOf(n, sp)
    BY DEF HeadersOf
  <1>3. Updated(old, new) = [honeycomb |-> IF new.honeycomb = Absent THEN old.honeycomb ELSE new.honeycomb,
                             w3c |-> IF new.w3c = Absent THEN old.w3c ELSE new.w3c]
    BY <1>1 DEF Updated
  <1> QED
    BY <1>2, <1>3 DEF HeadersOf

-----------------------------------------------------------------------------
(* Every step of a service keeps the invariant *)

\* What every serving of a request does once its headers are parsed.
LEMMA StartServing ==
  ASSUME PropInv, NEW c \in Ctx, NEW id, NEW p, ContextOK(id, p), StartTrace(c, id, p),
         tfields' = Append(tfields, {}), serving' = [serving EXCEPT ![c] = NewSpan],
         UNCHANGED <<config, carrier, calling, wire>>
  PROVE  PropInv' /\ Grown
  <1>1. CoreInv' /\ Grown /\ Len(traces') = Len(traces) + 1 /\ Len(spans') = Len(spans) + 1
    BY StartTraceCore DEF PropInv
  <1>2. /\ serving \in [Ctx -> 0..Len(spans')]
        /\ carrier \in [Ctx -> HeadersOf(Len(traces'), spans')]
        /\ calling \in [Ctx -> CallOf(Len(traces'), spans')]
        /\ wire \subseteq RequestOf(Len(traces'), spans')
    BY <1>1, HeadersStay DEF PropInv
  <1>3. NewSpan \in 0..Len(spans')
    BY <1>1 DEF Grown, Longer, NewSpan
  <1>4. serving' \in [Ctx -> 0..Len(spans')]
    BY <1>2, <1>3
  <1>5. tfields' \in Seq(SUBSET Field) /\ Len(tfields') = Len(traces')
    <2>1. tfields \in Seq(SUBSET Field) /\ Len(tfields) = Len(traces) /\ {} \in SUBSET Field
      BY DEF PropInv, HeaderInv
    <2>2. Append(tfields, {}) \in Seq(SUBSET Field) /\ Len(Append(tfields, {})) = Len(tfields) + 1
      BY <2>1, SeqAppend
    <2> QED
      BY <1>1, <2>1, <2>2
  <1>6. config \in Configs /\ Configs' = Configs
    BY DEF PropInv, HeaderInv, Configs
  <1> QED
    BY <1>1, <1>2, <1>4, <1>5, <1>6 DEF PropInv, HeaderInv

\* A request, of a service or of somebody else, continues a trace or starts one.
LEMMA ServeInv ==
  ASSUME PropInv, NEW c \in Ctx, NEW hs \in HeadersOf(Len(traces), spans), PropagateAndStart(c, hs), UNCHANGED wire
  PROVE  PropInv' /\ Grown
  <1>1. PICK pc : pc = ParseHttpTrace(config[ServiceOf[c]].parser, hs)
    OBVIOUS
  <1>2. ContextOK(pc.trace, pc.parent)
    BY <1>1, ParsedContext DEF PropInv, CoreInv
  <1>3. /\ StartTrace(c, pc.trace, pc.parent)
        /\ tfields' = Append(tfields, {})
        /\ serving' = [serving EXCEPT ![c] = NewSpan]
        /\ UNCHANGED <<config, carrier, calling>>
    BY <1>1 DEF PropagateAndStart
  <1> QED
    BY <1>2, <1>3, StartServing

\* A job starts a trace of its own.
LEMMA StartJobInv ==
  ASSUME PropInv, NEW c \in Ctx, StartJob(c)
  PROVE  PropInv' /\ Grown
  <1>1. PICK id \in CallerId \cup {None} : StartTrace(c, id, None)
    BY DEF StartJob
  <1>2. ContextOK(id, None)
    <2>1. Len(traces) \in Nat /\ Len(spans) \in Nat
      BY LenProperties DEF PropInv, CoreInv, HeapOK
    <2> QED
      BY <2>1 DEF ContextOK, None
  <1> QED
    BY <1>1, <1>2, StartServing DEF StartJob

\* A request or job ends: its root is finished and its thread has no trace.
LEMMA EndServingInv ==
  ASSUME PropInv, NEW c \in Ctx, EndServing(c)
  PROVE  PropInv' /\ Grown
  <1>1. PICK o \in Outcomes : FinishTrace(c, serving[c], o)
    BY DEF EndServing
  <1>2. serving[c] \in 1..Len(spans)
    BY LenProperties DEF EndServing, PropInv, CoreInv, HeapOK, HeaderInv, None
  <1>3. CoreInv' /\ Grown /\ Len(traces') = Len(traces) /\ UNCHANGED spans
    BY <1>1, <1>2, FinishCore DEF PropInv, EndServing
  <1>4. /\ serving \in [Ctx -> 0..Len(spans')]
        /\ carrier \in [Ctx -> HeadersOf(Len(traces'), spans')]
        /\ calling \in [Ctx -> CallOf(Len(traces'), spans')]
        /\ wire \subseteq RequestOf(Len(traces'), spans')
    BY <1>3, HeadersStay DEF PropInv
  <1>5. None \in 0..Len(spans')
    BY <1>3 DEF Grown, Longer, None
  <1>6. serving' \in [Ctx -> 0..Len(spans')]
    BY <1>4, <1>5 DEF EndServing
  <1>7. config \in Configs /\ Configs' = Configs
    BY DEF PropInv, HeaderInv, Configs
  <1>8. tfields \in Seq(SUBSET Field) /\ Len(tfields) = Len(traces')
    BY <1>3 DEF PropInv, HeaderInv
  <1> QED
    BY <1>3, <1>4, <1>6, <1>7, <1>8 DEF PropInv, HeaderInv, EndServing

\* The tracer as the invariant sees it does not move when `vars` does not.
LEMMA CoreStays ==
  ASSUME CoreInv, UNCHANGED vars
  PROVE  CoreInv' /\ Grown /\ Len(traces') = Len(traces) /\ Len(spans') = Len(spans)
  <1>1. HeapOK' /\ RefsOK' /\ IdsOK'
    BY DEF CoreInv, vars, HeapOK, RefsOK, IdsOK
  <1>2. PrivateInv'
    BY DEF CoreInv, vars, PrivateInv
  <1>3. Rooted'
    BY DEF CoreInv, vars, Rooted, Stack
  <1>4. Grown
    BY GrownStays DEF CoreInv, vars
  <1> QED
    BY <1>1, <1>2, <1>3, <1>4 DEF CoreInv, vars

\* A field is added to the Trace of the context.
LEMMA AddTraceFieldInv ==
  ASSUME PropInv, NEW c \in Ctx, NEW f \in Field, AddTraceField(c, f)
  PROVE  PropInv' /\ Grown
  <1>1. CoreInv' /\ Grown /\ Len(traces') = Len(traces) /\ Len(spans') = Len(spans)
    BY CoreStays DEF PropInv, AddTraceField
  <1>2. tfields' \in Seq(SUBSET Field) /\ Len(tfields') = Len(traces')
    <2>1. tfields \in Seq(SUBSET Field) /\ Len(tfields) = Len(traces)
      BY DEF PropInv, HeaderInv
    <2>2. current[c] \in 1..Len(tfields)
      BY <2>1, CurrentType DEF PropInv, CoreInv, AddTraceField
    <2>3. tfields[current[c]] \cup {f} \in SUBSET Field
      <3>1. tfields[current[c]] \in SUBSET Field
        BY <2>1, <2>2, ElementOfSeq
      <3> QED
        BY <3>1
    <2>4. tfields' = [tfields EXCEPT ![current[c]] = tfields[current[c]] \cup {f}]
      BY DEF AddTraceField
    <2> QED
      BY <1>1, <2>1, <2>2, <2>3, <2>4, ExceptSeq
  <1>3. /\ serving \in [Ctx -> 0..Len(spans')]
        /\ carrier \in [Ctx -> HeadersOf(Len(traces'), spans')]
        /\ calling \in [Ctx -> CallOf(Len(traces'), spans')]
        /\ wire \subseteq RequestOf(Len(traces'), spans')
    BY <1>1, HeadersStay DEF PropInv
  <1>4. config \in Configs /\ Configs' = Configs
    BY DEF PropInv, HeaderInv, Configs
  <1> QED
    BY <1>1, <1>2, <1>3, <1>4 DEF PropInv, HeaderInv, AddTraceField


\* The trace fields that a call reads.
LEMMA FieldsOfTrace ==
  ASSUME PropInv, NEW c \in Ctx, current[c] # None
  PROVE  tfields[current[c]] \in SUBSET Field
  <1>1. tfields \in Seq(SUBSET Field) /\ Len(tfields) = Len(traces)
    BY DEF PropInv, HeaderInv
  <1>2. current[c] \in 1..Len(tfields)
    BY <1>1, CurrentType DEF PropInv, CoreInv
  <1> QED
    BY <1>1, <1>2, ElementOfSeq

\* What a call begins with: in a trace its own span and headers that name it,
\* outside of one neither.
Begun(c, x, span, new) ==
  /\ CoreInv' /\ Grown /\ Len(traces') = Len(traces)
  /\ span \in {None} \cup Inner(spans')
  /\ new \in HeadersOf(Len(traces'), spans')
  /\ IF current[c] = None THEN span = None /\ new = NoHeaders
     ELSE /\ span = NewSpan
          /\ \E fs \in SUBSET Field :
               new = PropagationHook(config[ServiceOf[c]].propagator, spans'[span].trace, span, fs)
  /\ carrier' = IF x = None THEN carrier ELSE [carrier EXCEPT ![x] = Updated(@, new)]
  /\ calling' = [calling EXCEPT ![c] = [state |-> "prepared", span |-> span, carrier |-> x, headers |-> new]]

\* A call begins so.
LEMMA BeginCallDoes ==
  ASSUME PropInv, NEW c \in Ctx, NEW x \in Ctx \cup {None}, BeginCall(c, x)
  PROVE  \E span, new : Begun(c, x, span, new)
  <1>1. CoreInv
    BY DEF PropInv
  <1>2. CASE current[c] = None
    <2>1. CoreInv' /\ Grown /\ Len(traces') = Len(traces)
      BY <1>1, <1>2, CoreStays DEF BeginCall
    <2>2. Len(traces') \in Nat /\ Len(spans') \in Nat
      BY <2>1 DEF Grown, Longer
    <2>3. NoHeaders \in HeadersOf(Len(traces'), spans')
      BY <2>2, NothingNamed
    <2>4. /\ carrier' = IF x = None THEN carrier ELSE [carrier EXCEPT ![x] = Updated(@, NoHeaders)]
          /\ calling' = [calling EXCEPT ![c] =
               [state |-> "prepared", span |-> None, carrier |-> x, headers |-> NoHeaders]]
      BY <1>2 DEF BeginCall
    <2>5. Begun(c, x, None, NoHeaders)
      BY <1>2, <2>1, <2>3, <2>4, Zenon DEF Begun
    <2> QED
      BY <2>5
  <1>3. CASE current[c] # None
    <2>1. StartSpan(c, None)
      BY <1>3 DEF BeginCall
    <2>2. /\ CoreInv' /\ Grown /\ Len(traces') = Len(traces) /\ Len(spans') = Len(spans) + 1
          /\ NewSpan \in Inner(spans')
          /\ spans'[NewSpan].trace = traces[current[c]].id
          /\ ActiveSpan(c)' = NewSpan
      BY <1>1, <2>1, StartSpanCore
    <2>3. Len(traces') \in Nat /\ Len(spans') \in Nat /\ NewSpan \in 1..Len(spans')
      BY <2>2 DEF Grown, Longer, Inner
    <2>4. PICK fs \in SUBSET Field : fs = tfields[current[c]]
      BY <1>3, FieldsOfTrace
    <2>5. PICK new : new = PropagationHook(config[ServiceOf[c]].propagator, spans'[NewSpan].trace, NewSpan, fs)
      OBVIOUS
    <2>6. spans'[NewSpan].trace \in CallerId \cup (0..Len(traces'))
      <3>1. current[c] \in 1..Len(traces)
        BY <1>1, <1>3, CurrentType DEF CoreInv
      <3>2. traces[current[c]].id \in CallerId \cup (1..Len(traces))
        BY <1>1, <3>1, TraceType DEF CoreInv
      <3> QED
        BY <2>2, <3>2
    <2>7. new \in HeadersOf(Len(traces'), spans')
      BY <2>3, <2>5, <2>6, HookNames
    <2>8. /\ carrier' = IF x = None THEN carrier ELSE [carrier EXCEPT ![x] = Updated(@, new)]
          /\ calling' = [calling EXCEPT ![c] =
               [state |-> "prepared", span |-> NewSpan, carrier |-> x, headers |-> new]]
      BY <1>3, <2>2, <2>4, <2>5 DEF BeginCall, OutboundParent
    <2>9. Begun(c, x, NewSpan, new)
      BY <1>3, <2>2, <2>5, <2>7, <2>8, Zenon DEF Begun
    <2> QED
      BY <2>9
  <1> QED
    BY <1>2, <1>3

\* A call begins: its headers name its own span, and so do those that the
\* Session gets.
LEMMA BeginCallInv ==
  ASSUME PropInv, NEW c \in Ctx, NEW x \in Ctx \cup {None}, BeginCall(c, x)
  PROVE  PropInv' /\ Grown
  <1>1. PICK span, new : Begun(c, x, span, new)
    BY BeginCallDoes
  <1>2. /\ CoreInv' /\ Grown /\ Len(traces') = Len(traces)
        /\ span \in {None} \cup Inner(spans')
        /\ new \in HeadersOf(Len(traces'), spans')
        /\ carrier' = IF x = None THEN carrier ELSE [carrier EXCEPT ![x] = Updated(@, new)]
        /\ calling' = [calling EXCEPT ![c] = [state |-> "prepared", span |-> span, carrier |-> x, headers |-> new]]
    BY <1>1 DEF Begun
  <1>3. /\ serving \in [Ctx -> 0..Len(spans')]
        /\ carrier \in [Ctx -> HeadersOf(Len(traces'), spans')]
        /\ calling \in [Ctx -> CallOf(Len(traces'), spans')]
        /\ wire \subseteq RequestOf(Len(traces'), spans')
    BY <1>2, HeadersStay DEF PropInv
  <1>4. carrier' \in [Ctx -> HeadersOf(Len(traces'), spans')]
    <2>1. CASE x = None
      BY <1>2, <1>3, <2>1
    <2>2. CASE x # None
      <3>1. x \in Ctx
        BY <2>2
      <3>2. Updated(carrier[x], new) \in HeadersOf(Len(traces'), spans')
        BY <1>2, <1>3, <3>1, UpdatedNames
      <3>3. carrier' = [carrier EXCEPT ![x] = Updated(carrier[x], new)]
        BY <1>2, <2>2
      <3> QED
        BY <1>3, <3>2, <3>3
    <2> QED
      BY <2>1, <2>2
  <1>5. [state |-> "prepared", span |-> span, carrier |-> x, headers |-> new] \in CallOf(Len(traces'), spans')
    BY <1>2 DEF CallOf
  <1>6. calling' \in [Ctx -> CallOf(Len(traces'), spans')]
    BY <1>2, <1>3, <1>5
  <1>7. config \in Configs /\ Configs' = Configs
    BY DEF PropInv, HeaderInv, Configs
  <1>8. tfields \in Seq(SUBSET Field) /\ Len(tfields) = Len(traces')
    BY <1>2 DEF PropInv, HeaderInv
  <1> QED
    BY <1>2, <1>3, <1>4, <1>6, <1>7, <1>8 DEF PropInv, HeaderInv, BeginCall

\* A call goes out with headers that were kept for it.
LEMMA SendCallInv ==
  ASSUME PropInv, NEW c \in Ctx, SendCall(c)
  PROVE  PropInv' /\ Grown
  <1>1. CoreInv' /\ Grown /\ Len(traces') = Len(traces) /\ Len(spans') = Len(spans)
    BY CoreStays DEF PropInv, SendCall
  <1>2. /\ serving \in [Ctx -> 0..Len(spans')]
        /\ carrier \in [Ctx -> HeadersOf(Len(traces'), spans')]
        /\ calling \in [Ctx -> CallOf(Len(traces'), spans')]
        /\ wire \subseteq RequestOf(Len(traces'), spans')
    BY <1>1, HeadersStay DEF PropInv
  <1>3. calling[c] \in CallOf(Len(traces'), spans')
    BY <1>2
  <1>4. SentHeaders(c) \in HeadersOf(Len(traces'), spans')
    BY <1>2, <1>3 DEF SentHeaders, CallOf
  <1>5. calling[c].span \in 0..Len(spans')
    BY <1>1, <1>3 DEF CallOf, Inner, None, Grown, Longer
  <1>6. wire' \subseteq RequestOf(Len(traces'), spans')
    <2>1. [headers |-> SentHeaders(c), by |-> c, from |-> calling[c].span] \in RequestOf(Len(traces'), spans')
      BY <1>4, <1>5 DEF RequestOf
    <2> QED
      BY <1>2, <2>1 DEF SendCall
  <1>7. calling' \in [Ctx -> CallOf(Len(traces'), spans')]
    <2>1. [calling[c] EXCEPT !.state = "sent"] \in CallOf(Len(traces'), spans')
      BY <1>3 DEF CallOf
    <2>2. calling' = [calling EXCEPT ![c] = [calling[c] EXCEPT !.state = "sent"]]
      BY DEF SendCall
    <2> QED
      BY <1>2, <2>1, <2>2
  <1>8. config \in Configs /\ Configs' = Configs
    BY DEF PropInv, HeaderInv, Configs
  <1>9. tfields \in Seq(SUBSET Field) /\ Len(tfields) = Len(traces')
    BY <1>1 DEF PropInv, HeaderInv
  <1> QED
    BY <1>1, <1>2, <1>6, <1>7, <1>8, <1>9 DEF PropInv, HeaderInv, SendCall

\* What the end of a call leaves of the tracer.
LEMMA EndCallCore ==
  ASSUME PropInv, NEW c \in Ctx, EndCall(c)
  PROVE  CoreInv' /\ Grown /\ Len(traces') = Len(traces) /\ UNCHANGED spans
  <1>1. CASE calling[c].span = None
    <2>1. UNCHANGED vars
      BY <1>1 DEF EndCall
    <2>2. CoreInv' /\ Grown
      BY <2>1, CoreStays DEF PropInv
    <2> QED
      BY <2>1, <2>2 DEF vars
  <1>2. CASE calling[c].span # None
    <2>1. PICK o \in Outcomes : FinishSpan(c, calling[c].span, o)
      BY <1>2 DEF EndCall
    <2>2. UNCHANGED <<sending, decorated>>
      BY <1>2 DEF EndCall
    <2>3. calling[c] \in CallOf(Len(traces), spans)
      BY DEF PropInv, HeaderInv
    <2>4. calling[c].span \in Inner(spans) /\ calling[c].span \in 1..Len(spans)
      BY <1>2, <2>3 DEF CallOf, Inner
    <2> QED
      BY <2>1, <2>2, <2>4, FinishCore DEF PropInv
  <1> QED
    BY <1>1, <1>2

\* The answer arrives: the span of the call is finished, and the call is over.
LEMMA EndCallInv ==
  ASSUME PropInv, NEW c \in Ctx, EndCall(c)
  PROVE  PropInv' /\ Grown
  <1>1. CoreInv' /\ Grown /\ Len(traces') = Len(traces) /\ UNCHANGED spans
    BY EndCallCore
  <1>2. /\ serving \in [Ctx -> 0..Len(spans')]
        /\ carrier \in [Ctx -> HeadersOf(Len(traces'), spans')]
        /\ calling \in [Ctx -> CallOf(Len(traces'), spans')]
        /\ wire \subseteq RequestOf(Len(traces'), spans')
    BY <1>1, HeadersStay DEF PropInv
  <1>3. Idle \in CallOf(Len(traces'), spans')
    <2>1. NoHeaders \in HeadersOf(Len(traces'), spans')
      BY <1>1, NothingNamed DEF Grown, Longer
    <2> QED
      BY <2>1 DEF Idle, CallOf
  <1>4. calling' \in [Ctx -> CallOf(Len(traces'), spans')]
    BY <1>2, <1>3 DEF EndCall
  <1>5. config \in Configs /\ Configs' = Configs
    BY DEF PropInv, HeaderInv, Configs
  <1>6. tfields \in Seq(SUBSET Field) /\ Len(tfields) = Len(traces')
    BY <1>1 DEF PropInv, HeaderInv
  <1> QED
    BY <1>1, <1>2, <1>4, <1>5, <1>6 DEF PropInv, HeaderInv, EndCall

\* The services start with no traces and no headers.
LEMMA PropInvInit == PropagationInit => PropInv
  <1> SUFFICES ASSUME PropagationInit PROVE PropInv
    OBVIOUS
  <1>1. traces = <<>> /\ spans = <<>> /\ Len(traces) = 0 /\ Len(spans) = 0
    BY LenProperties DEF PropagationInit, Init
  <1>2. HeapOK /\ RefsOK
    BY TypeInit DEF PropagationInit
  <1>3. PrivateInv /\ Rooted
    BY DEF PropagationInit, Init, PrivateInv, Rooted
  <1>4. IdsOK /\ HangsOK(spans) /\ RootsOK(spans)
    BY <1>1 DEF IdsOK, HangsOK, RootsOK
  <1>5. NoHeaders \in HeadersOf(Len(traces), spans)
    BY <1>1, NothingNamed
  <1>6. Idle \in CallOf(Len(traces), spans)
    BY <1>5 DEF Idle, CallOf
  <1>7. tfields \in Seq(SUBSET Field) /\ Len(tfields) = Len(traces)
    BY <1>1 DEF PropagationInit
  <1>8. serving \in [Ctx -> 0..Len(spans)]
    BY <1>1 DEF PropagationInit, None
  <1>9. carrier \in [Ctx -> HeadersOf(Len(traces), spans)] /\ calling \in [Ctx -> CallOf(Len(traces), spans)]
    BY <1>5, <1>6 DEF PropagationInit
  <1>10. HeaderInv
    BY <1>7, <1>8, <1>9 DEF HeaderInv, PropagationInit
  <1> QED
    BY <1>2, <1>3, <1>4, <1>10 DEF PropInv, CoreInv

\* Every step of every service keeps the invariant.
LEMMA PropInvStep == PropInv /\ [PropagationNext]_allVars => PropInv' /\ Grown
  <1> SUFFICES ASSUME PropInv, [PropagationNext]_allVars PROVE PropInv' /\ Grown
    OBVIOUS
  <1>1. ASSUME NEW c \in Ctx, NEW m \in wire, Serve(c, m)
        PROVE  PropInv' /\ Grown
    <2>1. m.headers \in HeadersOf(Len(traces), spans)
      BY DEF PropInv, HeaderInv, RequestOf
    <2> QED
      BY <1>1, <2>1, ServeInv DEF Serve
  <1>2. ASSUME NEW c \in Ctx, ServeOutside(c)
        PROVE  PropInv' /\ Grown
    <2>1. PICK h \in OutsideHoneycomb, w \in OutsideW3c : PropagateAndStart(c, [honeycomb |-> h, w3c |-> w])
      BY <1>2 DEF ServeOutside
    <2>2. Len(traces) \in Nat /\ Len(spans) \in Nat
      BY LenProperties DEF PropInv, CoreInv, HeapOK
    <2>3. [honeycomb |-> h, w3c |-> w] \in HeadersOf(Len(traces), spans)
      BY <2>2, OutsideNamed
    <2> QED
      BY <1>2, <2>1, <2>3, ServeInv DEF ServeOutside
  <1>3. ASSUME NEW c \in Ctx, StartJob(c) PROVE PropInv' /\ Grown
    BY <1>3, StartJobInv
  <1>4. ASSUME NEW c \in Ctx, EndServing(c) PROVE PropInv' /\ Grown
    BY <1>4, EndServingInv
  <1>5. ASSUME NEW c \in Ctx, NEW f \in Field, AddTraceField(c, f) PROVE PropInv' /\ Grown
    BY <1>5, AddTraceFieldInv
  <1>6. ASSUME NEW c \in Ctx, NEW x \in Ctx \cup {None}, BeginCall(c, x) PROVE PropInv' /\ Grown
    BY <1>6, BeginCallInv
  <1>7. ASSUME NEW c \in Ctx, SendCall(c) PROVE PropInv' /\ Grown
    BY <1>7, SendCallInv
  <1>8. ASSUME NEW c \in Ctx, EndCall(c) PROVE PropInv' /\ Grown
    BY <1>8, EndCallInv
  <1>9. CASE UNCHANGED allVars
    <2>1. CoreInv' /\ Grown /\ Configs' = Configs
      BY <1>9, CoreStays DEF PropInv, allVars, Configs
    <2> QED
      BY <1>9, <2>1 DEF PropInv, HeaderInv, allVars, propVars, vars
  <1> QED
    BY <1>1, <1>2, <1>3, <1>4, <1>5, <1>6, <1>7, <1>8, <1>9 DEF PropagationNext

\* Headers name traces and spans that were made, together and rightly, in every
\* state of any number of services, threads and calls, whatever hooks they have
\* and however carelessly they share their Sessions.
LEMMA PropInvHolds == PropagationSpec => []PropInv
  BY PropInvInit, PropInvStep, PTL DEF PropagationSpec

\* References, Sessions, calls and requests under way keep their shape; every
\* header names a trace and a span that exist, or somebody else's.
THEOREM PropagationTypeCorrect == PropagationSpec => []PropagationTypeOK
  <1>1. PropInv => PropagationTypeOK
    BY HeaderTypes DEF PropInv, CoreInv
  <1> QED
    BY <1>1, PropInvHolds, PTL

\* Over all services a trace that a beeline began is one tree, whatever headers
\* arrive late, twice, garbled or not at all, for any hooks, and also where
\* Sessions are shared or json fails.
THEOREM TraceIsOneTreeCorrect == PropagationSpec => []TraceIsOneTree
  <1>1. PropInv => TraceIsOneTree
    BY TreeParts DEF PropInv, CoreInv
  <1> QED
    BY <1>1, PropInvHolds, PTL

\* Under propagation too all spans on a stack carry the id of its trace, so
\* that finish_span never takes its early return for a span of the stack.
THEOREM PropagatedIdsCorrect == PropagationSpec => []StackIds
  <1>1. PropInv => StackIds
    <2> SUFFICES ASSUME PropInv, NEW t \in DOMAIN traces, NEW i \in DOMAIN traces[t].stack
                 PROVE  spans[traces[t].stack[i]].trace = traces[t].id
      BY DEF StackIds
    <2>1. HeapOK /\ DOMAIN traces = 1..Len(traces)
      BY LenProperties DEF PropInv, CoreInv, HeapOK
    <2>2. DOMAIN traces[t].stack = 1..Len(traces[t].stack)
      BY <2>1, TraceType, LenProperties
    <2> QED
      BY <2>1, <2>2 DEF PropInv, CoreInv, IdsOK, IdsAt
  <1> QED
    BY <1>1, PropInvHolds, PTL


-----------------------------------------------------------------------------
(* What a call hands on: each thread uses a Session of its own, and json encodes
   all fields *)

\* A Session holds no other headers than those of its service's hook.
SessionOK(propagator, hs) ==
  /\ propagator # "honeycomb" => hs.honeycomb = Absent
  /\ propagator # "w3c" => hs.w3c = Absent

\* The headers that a call from the span s sends; from outside a trace it sends
\* what its Session holds.
HandsOn(propagator, sp, s, hs) ==
  IF s = None THEN SessionOK(propagator, hs)
  ELSE \E fs \in SUBSET Field : hs = PropagationHook(propagator, sp[s].trace, s, fs)

PropagatorOf(c) == config[ServiceOf[c]].propagator

\* A call that would go out now would carry its own headers.
CallOK(c) ==
  /\ calling[c].carrier \in {None, c}
  /\ HandsOn(PropagatorOf(c), spans, calling[c].span, SentHeaders(c))

MadeInv ==
  /\ \A c \in Ctx : SessionOK(PropagatorOf(c), carrier[c])
  /\ \A c \in Ctx : CallOK(c)
  /\ \A m \in wire : HandsOn(PropagatorOf(m.by), spans, m.from, m.headers)

\* What the three kinds of services send.
LEMMA HookShape ==
  ASSUME NotJson = {}, NEW propagator, NEW id, NEW s, NEW fs \in SUBSET Field
  PROVE  /\ propagator = "honeycomb" =>
              PropagationHook(propagator, id, s, fs) = [honeycomb |-> Header("1", id, s, fs), w3c |-> Absent]
         /\ propagator = "w3c" =>
              PropagationHook(propagator, id, s, fs) = [honeycomb |-> Absent, w3c |-> Header("00", id, s, {})]
         /\ propagator \notin {"honeycomb", "w3c"} => PropagationHook(propagator, id, s, fs) = NoHeaders
         /\ Header("1", id, s, fs) # Absent /\ Header("00", id, s, {}) # Absent
  <1>1. ASSUME NEW h
        PROVE  /\ [NoHeaders EXCEPT !.honeycomb = h] = [honeycomb |-> h, w3c |-> Absent]
               /\ [NoHeaders EXCEPT !.w3c = h] = [honeycomb |-> Absent, w3c |-> h]
    BY DEF NoHeaders
  <1>2. MarshalHoneycomb(id, s, fs) = [honeycomb |-> Header("1", id, s, fs), w3c |-> Absent]
    BY <1>1 DEF MarshalHoneycomb
  <1>3. MarshalTraceparent(id, s) = [honeycomb |-> Absent, w3c |-> Header("00", id, s, {})]
    BY <1>1 DEF MarshalTraceparent
  <1>4. Header("1", id, s, fs) # Absent /\ Header("00", id, s, {}) # Absent
    <2>1. Header("1", id, s, fs).form = "1" /\ Header("00", id, s, {}).form = "00" /\ Absent.form = "absent"
      BY DEF Header, Absent
    <2>2. "1" # "absent" /\ "00" # "absent"
      OBVIOUS
    <2> QED
      BY <2>1, <2>2, Zenon
  <1> QED
    BY <1>2, <1>3, <1>4 DEF PropagationHook

\* What is handed on is of the kind that a Session of the service holds.
LEMMA HandedShape ==
  ASSUME NotJson = {}, NEW propagator, NEW sp, NEW s, NEW hs, HandsOn(propagator, sp, s, hs)
  PROVE  SessionOK(propagator, hs)
  <1>1. NoHeaders.honeycomb = Absent /\ NoHeaders.w3c = Absent
    BY DEF NoHeaders
  <1>2. CASE s = None
    BY <1>2 DEF HandsOn
  <1>3. CASE s # None
    <2>1. PICK fs \in SUBSET Field : hs = PropagationHook(propagator, sp[s].trace, s, fs)
      BY <1>3 DEF HandsOn
    <2>2. /\ propagator = "honeycomb" => hs = [honeycomb |-> Header("1", sp[s].trace, s, fs), w3c |-> Absent]
          /\ propagator = "w3c" => hs = [honeycomb |-> Absent, w3c |-> Header("00", sp[s].trace, s, {})]
          /\ propagator \notin {"honeycomb", "w3c"} => hs = NoHeaders
      BY <2>1, HookShape
    <2> QED
      BY <1>1, <2>2 DEF SessionOK
  <1> QED
    BY <1>2, <1>3

\* A call in a trace replaces all that its Session held.
LEMMA SessionReplaced ==
  ASSUME NotJson = {}, NEW propagator, NEW n, NEW m, NEW old \in HeadersOf(n, m), SessionOK(propagator, old),
         NEW sp, NEW s, s # None, NEW new, HandsOn(propagator, sp, s, new)
  PROVE  Updated(old, new) = new
  <1>1. PICK fs \in SUBSET Field : new = PropagationHook(propagator, sp[s].trace, s, fs)
    BY DEF HandsOn
  <1>2. PICK a, b : a = Header("1", sp[s].trace, s, fs) /\ b = Header("00", sp[s].trace, s, {})
    OBVIOUS
  <1>3. /\ propagator = "honeycomb" => new = [honeycomb |-> a, w3c |-> Absent]
        /\ propagator = "w3c" => new = [honeycomb |-> Absent, w3c |-> b]
        /\ propagator \notin {"honeycomb", "w3c"} => new = [honeycomb |-> Absent, w3c |-> Absent]
        /\ a # Absent /\ b # Absent
    BY <1>1, <1>2, HookShape DEF NoHeaders
  <1>4. DOMAIN old = {"honeycomb", "w3c"}
    BY DEF HeadersOf
  <1>5. Updated(old, new) = [honeycomb |-> IF new.honeycomb = Absent THEN old.honeycomb ELSE new.honeycomb,
                             w3c |-> IF new.w3c = Absent THEN old.w3c ELSE new.w3c]
    BY <1>4 DEF Updated
  <1>6. CASE propagator = "honeycomb"
    BY <1>3, <1>5, <1>6 DEF SessionOK
  <1>7. CASE propagator = "w3c"
    BY <1>3, <1>5, <1>7 DEF SessionOK
  <1>8. CASE propagator \notin {"honeycomb", "w3c"}
    BY <1>3, <1>5, <1>8 DEF SessionOK
  <1> QED
    BY <1>6, <1>7, <1>8

\* A call outside a trace leaves in the Session what it held.
LEMMA NothingUpdated ==
  ASSUME NEW n, NEW m, NEW old \in HeadersOf(n, m)
  PROVE  Updated(old, NoHeaders) = old
  <1>1. DOMAIN old = {"honeycomb", "w3c"} /\ old = [name \in {"honeycomb", "w3c"} |-> old[name]]
    BY DEF HeadersOf
  <1>2. NoHeaders["honeycomb"] = Absent /\ NoHeaders["w3c"] = Absent
    BY DEF NoHeaders
  <1>3. Updated(old, NoHeaders) = [name \in {"honeycomb", "w3c"} |-> old[name]]
    BY <1>1, <1>2 DEF Updated
  <1> QED
    BY <1>1, <1>3

\* Spans do not change, so what was handed on stays so.
LEMMA HandedKept ==
  ASSUME Grown, NEW propagator, NEW s \in 0..Len(spans), NEW hs, HandsOn(propagator, spans, s, hs)
  PROVE  HandsOn(propagator, spans', s, hs)
  <1>1. CASE s = None
    BY <1>1 DEF HandsOn
  <1>2. CASE s # None
    <2>1. s \in 1..Len(spans)
      BY <1>2 DEF Grown, Longer, None
    <2>2. spans'[s] = spans[s]
      BY <2>1 DEF Grown, Longer
    <2> QED
      BY <1>2, <2>2 DEF HandsOn
  <1> QED
    BY <1>1, <1>2

\* The spans that calls and requests are from.
LEMMA FromType ==
  ASSUME PropInv
  PROVE  /\ \A c \in Ctx : calling[c].span \in 0..Len(spans)
         /\ \A m \in wire : m.from \in 0..Len(spans) /\ m.by \in Ctx
  <1>1. Len(spans) \in Nat
    BY LenProperties DEF PropInv, CoreInv, HeapOK
  <1>2. ASSUME NEW c \in Ctx PROVE calling[c].span \in 0..Len(spans)
    <2>1. calling[c] \in CallOf(Len(traces), spans)
      BY DEF PropInv, HeaderInv
    <2> QED
      BY <1>1, <2>1 DEF CallOf, Inner, None
  <1>3. ASSUME NEW m \in wire PROVE m.from \in 0..Len(spans) /\ m.by \in Ctx
    BY DEF PropInv, HeaderInv, RequestOf
  <1> QED
    BY <1>2, <1>3

\* What a step that is not about c's call leaves of it, and of the requests.
LEMMA CallsKept ==
  ASSUME PropInv, MadeInv, Grown, UNCHANGED config
  PROVE  /\ \A c \in Ctx : calling'[c] = calling[c] /\ carrier'[c] = carrier[c] =>
              CallOK(c)' /\ SessionOK(PropagatorOf(c)', carrier'[c])
         /\ \A m \in wire : HandsOn(PropagatorOf(m.by)', spans', m.from, m.headers)
  <1>1. ASSUME NEW c \in Ctx, calling'[c] = calling[c], carrier'[c] = carrier[c]
        PROVE  CallOK(c)' /\ SessionOK(PropagatorOf(c)', carrier'[c])
    <2>1. PropagatorOf(c)' = PropagatorOf(c)
      BY DEF PropagatorOf
    <2>2. CallOK(c) /\ SessionOK(PropagatorOf(c), carrier[c])
      BY DEF MadeInv
    <2>3. calling[c].span \in 0..Len(spans)
      BY FromType
    <2>4. HandsOn(PropagatorOf(c), spans', calling[c].span, SentHeaders(c))
      BY <2>2, <2>3, HandedKept DEF CallOK
    <2>5. SentHeaders(c)' = SentHeaders(c)
      BY <1>1, <2>2 DEF SentHeaders, CallOK
    <2> QED
      BY <1>1, <2>1, <2>2, <2>4, <2>5 DEF CallOK
  <1>2. ASSUME NEW m \in wire
        PROVE  HandsOn(PropagatorOf(m.by)', spans', m.from, m.headers)
    <2>1. PropagatorOf(m.by)' = PropagatorOf(m.by)
      BY DEF PropagatorOf
    <2>2. HandsOn(PropagatorOf(m.by), spans, m.from, m.headers) /\ m.from \in 0..Len(spans)
      BY FromType DEF MadeInv
    <2> QED
      BY <2>1, <2>2, HandedKept
  <1> QED
    BY <1>1, <1>2

\* A step that only makes objects, or finishes spans, leaves all calls alone.
LEMMA CallsAlone ==
  ASSUME PropInv, MadeInv, Grown, UNCHANGED <<config, carrier, calling, wire>>
  PROVE  MadeInv'
  <1>1. /\ \A c \in Ctx : CallOK(c)' /\ SessionOK(PropagatorOf(c)', carrier'[c])
        /\ \A m \in wire : HandsOn(PropagatorOf(m.by)', spans', m.from, m.headers)
    BY CallsKept
  <1> QED
    BY <1>1 DEF MadeInv

\* A call begins, in the Session of its own thread or in an object of its own.
LEMMA BeginCallMade ==
  ASSUME PropInv, MadeInv, ~Shared, NotJson = {},
         NEW c \in Ctx, NEW x \in Ctx \cup {None}, BeginCall(c, x)
  PROVE  MadeInv'
  <1>1. PICK span, new : Begun(c, x, span, new)
    BY BeginCallDoes
  <1>2. /\ Grown
        /\ IF current[c] = None THEN span = None /\ new = NoHeaders
           ELSE /\ span = NewSpan
                /\ \E fs \in SUBSET Field :
                     new = PropagationHook(config[ServiceOf[c]].propagator, spans'[span].trace, span, fs)
        /\ carrier' = IF x = None THEN carrier ELSE [carrier EXCEPT ![x] = Updated(@, new)]
        /\ calling' = [calling EXCEPT ![c] = [state |-> "prepared", span |-> span, carrier |-> x, headers |-> new]]
    BY <1>1, Zenon DEF Begun
  <1>3. UNCHANGED <<config, wire>> /\ (x # None => x = c)
    BY DEF BeginCall, MayUse
  <1>4. NewSpan # None
    BY <1>2 DEF NewSpan, None, Grown, Longer
  <1>5. /\ HandsOn(PropagatorOf(c), spans', span, new)
        /\ span = None => new = NoHeaders
    BY <1>2, <1>4 DEF HandsOn, PropagatorOf, SessionOK, NoHeaders
  <1>6. PropagatorOf(c)' = PropagatorOf(c)
    BY <1>3 DEF PropagatorOf
  <1>7. /\ DOMAIN carrier = Ctx /\ DOMAIN calling = Ctx
        /\ carrier[c] \in HeadersOf(Len(traces), spans)
        /\ SessionOK(PropagatorOf(c), carrier[c])
    BY DEF PropInv, HeaderInv, MadeInv
  <1>8. calling'[c] = [state |-> "prepared", span |-> span, carrier |-> x, headers |-> new]
    BY <1>2, <1>7
  <1>9. CallOK(c)' /\ SessionOK(PropagatorOf(c)', carrier'[c])
    <2>1. CASE x = None
      <3>1. carrier'[c] = carrier[c]
        BY <1>2, <2>1
      <3>2. SentHeaders(c)' = new
        BY <1>8, <2>1 DEF SentHeaders
      <3> QED
        BY <1>5, <1>6, <1>7, <1>8, <2>1, <3>1, <3>2 DEF CallOK
    <2>2. CASE x # None
      <3>1. x = c
        BY <1>3, <2>2
      <3>2. carrier'[c] = Updated(carrier[c], new)
        BY <1>2, <1>7, <2>2, <3>1
      <3>3. SentHeaders(c)' = carrier'[c]
        BY <1>8, <2>2, <3>1 DEF SentHeaders
      <3>4. HandsOn(PropagatorOf(c), spans', span, Updated(carrier[c], new))
        <4>1. CASE span = None
          <5>1. Updated(carrier[c], new) = carrier[c]
            BY <1>5, <1>7, <4>1, NothingUpdated
          <5> QED
            BY <1>7, <4>1, <5>1 DEF HandsOn
        <4>2. CASE span # None
          <5>1. Updated(carrier[c], new) = new
            BY <1>5, <1>7, <4>2, SessionReplaced
          <5> QED
            BY <1>5, <5>1
        <4> QED
          BY <4>1, <4>2
      <3>5. SessionOK(PropagatorOf(c), carrier'[c])
        BY <3>2, <3>4, HandedShape
      <3> QED
        BY <1>6, <1>8, <3>1, <3>2, <3>3, <3>4, <3>5 DEF CallOK
    <2> QED
      BY <2>1, <2>2
  <1>10. ASSUME NEW d \in Ctx
         PROVE  CallOK(d)' /\ SessionOK(PropagatorOf(d)', carrier'[d])
    <2>1. CASE d = c
      BY <1>9, <2>1
    <2>2. CASE d # c
      <3>1. calling'[d] = calling[d] /\ carrier'[d] = carrier[d]
        BY <1>2, <1>3, <2>2
      <3> QED
        BY <1>2, <1>3, <3>1, CallsKept
    <2> QED
      BY <2>1, <2>2
  <1>11. \A m \in wire' : HandsOn(PropagatorOf(m.by)', spans', m.from, m.headers)
    BY <1>2, <1>3, CallsKept
  <1> QED
    BY <1>10, <1>11 DEF MadeInv

\* A request goes out with the headers that were made for it.
LEMMA SendCallMade ==
  ASSUME PropInv, MadeInv, NEW c \in Ctx, SendCall(c)
  PROVE  MadeInv'
  <1>1. /\ Grown
    BY SendCallInv
  <1>2. /\ wire' = wire \cup {[headers |-> SentHeaders(c), by |-> c, from |-> calling[c].span]}
        /\ calling' = [calling EXCEPT ![c] = [calling[c] EXCEPT !.state = "sent"]]
        /\ UNCHANGED <<config, carrier, spans>>
    BY DEF SendCall, vars
  <1>3. /\ \A m \in wire : HandsOn(PropagatorOf(m.by)', spans', m.from, m.headers)
        /\ \A d \in Ctx : calling'[d] = calling[d] => CallOK(d)'
        /\ \A d \in Ctx : SessionOK(PropagatorOf(d)', carrier'[d])
    <2>1. \A d \in Ctx : SessionOK(PropagatorOf(d)', carrier'[d])
      BY <1>2 DEF MadeInv, PropagatorOf
    <2> QED
      BY <1>1, <1>2, <2>1, CallsKept
  <1>4. CallOK(c) /\ calling[c] \in CallOf(Len(traces), spans) /\ DOMAIN calling = Ctx
    BY DEF MadeInv, PropInv, HeaderInv
  <1>5. /\ calling'[c].carrier = calling[c].carrier
        /\ calling'[c].span = calling[c].span
        /\ calling'[c].headers = calling[c].headers
    BY <1>2, <1>4 DEF CallOf
  <1>6. CallOK(c)'
    BY <1>2, <1>4, <1>5 DEF CallOK, SentHeaders, PropagatorOf
  <1>7. \A d \in Ctx \ {c} : calling'[d] = calling[d]
    BY <1>2
  <1>8. HandsOn(PropagatorOf(c)', spans', calling[c].span, SentHeaders(c))
    BY <1>2, <1>4 DEF CallOK, PropagatorOf
  <1>9. ASSUME NEW m \in wire'
        PROVE  HandsOn(PropagatorOf(m.by)', spans', m.from, m.headers)
    <2>1. CASE m \in wire
      BY <1>3, <2>1
    <2>2. CASE m = [headers |-> SentHeaders(c), by |-> c, from |-> calling[c].span]
      <3>1. m.headers = SentHeaders(c) /\ m.by = c /\ m.from = calling[c].span
        BY <2>2
      <3> QED
        BY <1>8, <3>1
    <2> QED
      BY <1>2, <2>1, <2>2
  <1> QED
    BY <1>3, <1>6, <1>7, <1>9 DEF MadeInv

\* A call is over: there is none to speak of.
LEMMA EndCallMade ==
  ASSUME PropInv, MadeInv, NEW c \in Ctx, EndCall(c)
  PROVE  MadeInv'
  <1>1. Grown
    BY EndCallInv
  <1>2. calling' = [calling EXCEPT ![c] = Idle] /\ UNCHANGED <<config, carrier, wire>> /\ DOMAIN calling = Ctx
    BY DEF EndCall, PropInv, HeaderInv
  <1>3. calling'[c] = Idle
    BY <1>2
  <1>4. CallOK(c)'
    BY <1>3 DEF CallOK, SentHeaders, Idle, HandsOn, SessionOK, NoHeaders
  <1>5. \A d \in Ctx \ {c} : calling'[d] = calling[d]
    BY <1>2
  <1>6. /\ \A m \in wire : HandsOn(PropagatorOf(m.by)', spans', m.from, m.headers)
        /\ \A d \in Ctx : calling'[d] = calling[d] => CallOK(d)'
        /\ \A d \in Ctx : SessionOK(PropagatorOf(d)', carrier'[d])
    <2>1. \A d \in Ctx : SessionOK(PropagatorOf(d)', carrier'[d])
      BY <1>2 DEF MadeInv, PropagatorOf
    <2> QED
      BY <1>1, <1>2, <2>1, CallsKept
  <1> QED
    BY <1>2, <1>4, <1>5, <1>6 DEF MadeInv

\* No Session holds anything before the first call.
LEMMA MadeInit == PropagationInit => MadeInv
  <1> SUFFICES ASSUME PropagationInit PROVE MadeInv
    OBVIOUS
  <1>1. \A c \in Ctx : SessionOK(PropagatorOf(c), carrier[c])
    BY DEF PropagationInit, SessionOK, NoHeaders
  <1>2. ASSUME NEW c \in Ctx PROVE CallOK(c)
    <2>1. calling[c] = Idle
      BY DEF PropagationInit
    <2> QED
      BY <2>1 DEF CallOK, SentHeaders, Idle, HandsOn, SessionOK, NoHeaders
  <1> QED
    BY <1>1, <1>2 DEF MadeInv, PropagationInit

\* Every step keeps what was handed on.
LEMMA MadeStep ==
  ASSUME ~Shared, NotJson = {}
  PROVE  PropInv /\ MadeInv /\ [PropagationNext]_allVars => MadeInv'
  <1> SUFFICES ASSUME PropInv, MadeInv, [PropagationNext]_allVars PROVE MadeInv'
    OBVIOUS
  <1>1. Grown
    BY PropInvStep
  <1>2. ASSUME NEW c \in Ctx, NEW x \in Ctx \cup {None}, BeginCall(c, x) PROVE MadeInv'
    BY <1>2, BeginCallMade
  <1>3. ASSUME NEW c \in Ctx, SendCall(c) \/ EndCall(c) PROVE MadeInv'
    BY <1>3, SendCallMade, EndCallMade
  <1>4. ASSUME NEW c \in Ctx, NEW m \in wire, Serve(c, m)
        PROVE  MadeInv'
    BY <1>1, <1>4, CallsAlone DEF Serve, PropagateAndStart
  <1>5. ASSUME NEW c \in Ctx,
               ServeOutside(c) \/ StartJob(c) \/ EndServing(c) \/ \E f \in Field : AddTraceField(c, f)
        PROVE  MadeInv'
    BY <1>1, <1>5, CallsAlone DEF ServeOutside, PropagateAndStart, StartJob, EndServing, AddTraceField
  <1>6. CASE UNCHANGED allVars
    BY <1>1, <1>6, CallsAlone DEF allVars, propVars
  <1> QED
    BY <1>2, <1>3, <1>4, <1>5, <1>6 DEF PropagationNext


\* A call and a request carry the headers that were made for them.
LEMMA MadeHolds ==
  ASSUME ~Shared, NotJson = {}
  PROVE  PropagationSpec => [](PropInv /\ MadeInv)
  <1>1. PropInv /\ [PropagationNext]_allVars => PropInv'
    BY PropInvStep
  <1> QED
    BY <1>1, PropInvInit, PropInvStep, MadeInit, MadeStep, PTL DEF PropagationSpec

\* A parser takes out of a request what the hook of its service put in, if it
\* understands it, and nothing otherwise.
LEMMA ParsedCall ==
  ASSUME NotJson = {}, NEW p, NEW q, NEW sp, NEW s, s # None, NEW hs, HandsOn(p, sp, s, hs)
  PROVE  IF \/ p = "honeycomb" /\ q \in {"honeycomb", "default"}
            \/ p = "w3c" /\ q \in {"w3c", "default"} /\ IsHex(sp[s].trace)
         THEN ParseHttpTrace(q, hs).trace = sp[s].trace /\ ParseHttpTrace(q, hs).parent = s
         ELSE ParseHttpTrace(q, hs).trace = None /\ ParseHttpTrace(q, hs).parent = None
  <1>1. Absent.form = "absent" /\ NoContext.trace = None /\ NoContext.parent = None /\ ~NoContext.found
    BY DEF Absent, Header, NoContext
  <1>2. HoneycombParser(Absent) = NoContext /\ W3cParser(Absent) = NoContext
    BY <1>1 DEF HoneycombParser, W3cParser, IsTraceparent
  <1>3. ASSUME hs.honeycomb = Absent, hs.w3c = Absent
        PROVE  ParseHttpTrace(q, hs) = NoContext
    BY <1>1, <1>2, <1>3 DEF ParseHttpTrace, DefaultParser
  <1>4. NoHeaders.honeycomb = Absent /\ NoHeaders.w3c = Absent
    BY DEF NoHeaders
  <1> QED
    <2>1. PICK fs \in SUBSET Field : hs = PropagationHook(p, sp[s].trace, s, fs)
      BY DEF HandsOn
    <2>2. PICK id : id = sp[s].trace
      OBVIOUS
    <2>3. PICK a, b : a = Header("1", id, s, fs) /\ b = Header("00", id, s, {})
      OBVIOUS
    <2>4. /\ p = "honeycomb" => hs = [honeycomb |-> a, w3c |-> Absent]
          /\ p = "w3c" => hs = [honeycomb |-> Absent, w3c |-> b]
          /\ p \notin {"honeycomb", "w3c"} => hs = NoHeaders
      BY <2>1, <2>2, <2>3, HookShape
    <2>5. /\ a.form = "1" /\ a.trace = id /\ a.parent = s
          /\ b.form = "00" /\ b.trace = id /\ b.parent = s
      BY <2>3 DEF Header
    <2>6. /\ Context(a).found /\ Context(a).trace = id /\ Context(a).parent = s
          /\ Context(b).found /\ Context(b).trace = id /\ Context(b).parent = s
      BY <2>5 DEF Context
    <2>7. HoneycombParser(a) = Context(a)
      BY <2>5 DEF HoneycombParser, UnmarshalHoneycomb
    <2>8. W3cParser(b) = IF IsHex(id) THEN Context(b) ELSE NoContext
      BY <2>5 DEF W3cParser, IsTraceparent
    <2>9. CASE p = "honeycomb"
      <3>1. hs.honeycomb = a /\ hs.w3c = Absent
        BY <2>4, <2>9
      <3>2. CASE q = "honeycomb"
        <4>1. ParseHttpTrace(q, hs) = Context(a)
          BY <2>7, <3>1, <3>2 DEF ParseHttpTrace
        <4> QED
          BY <2>2, <2>6, <2>9, <3>2, <4>1
      <3>3. CASE q = "default"
        <4>1. ParseHttpTrace(q, hs) = Context(a)
          BY <2>6, <2>7, <3>1, <3>3 DEF ParseHttpTrace, DefaultParser
        <4> QED
          BY <2>2, <2>6, <2>9, <3>3, <4>1
      <3>4. CASE q \notin {"honeycomb", "default"}
        <4>1. ParseHttpTrace(q, hs) = NoContext
          BY <1>2, <3>1, <3>4 DEF ParseHttpTrace
        <4> QED
          BY <1>1, <2>9, <3>4, <4>1
      <3> QED
        BY <3>2, <3>3, <3>4
    <2>10. CASE p = "w3c"
      <3>1. hs.honeycomb = Absent /\ hs.w3c = b
        BY <2>4, <2>10
      <3>2. CASE q \in {"w3c", "default"}
        <4>1. ParseHttpTrace(q, hs) = W3cParser(b)
          BY <1>1, <1>2, <3>1, <3>2 DEF ParseHttpTrace, DefaultParser
        <4> QED
          BY <1>1, <2>2, <2>6, <2>8, <2>10, <3>2, <4>1
      <3>3. CASE q \notin {"w3c", "default"}
        <4>1. ParseHttpTrace(q, hs) = NoContext
          BY <1>2, <3>1, <3>3 DEF ParseHttpTrace
        <4> QED
          BY <1>1, <2>10, <3>3, <4>1
      <3> QED
        BY <3>2, <3>3
    <2>11. CASE p \notin {"honeycomb", "w3c"}
      <3>1. ParseHttpTrace(q, hs) = NoContext
        BY <1>3, <1>4, <2>4, <2>11
      <3> QED
        BY <1>1, <2>11, <3>1
    <2> QED
      BY <2>9, <2>10, <2>11

\* The span that serves a request is the one that its context asks for.
LEMMA ServedSpan ==
  ASSUME PropInv, NEW c \in Ctx, NEW m \in wire, Serve(c, m),
         NEW pc, pc = ParseHttpTrace(config[ServiceOf[c]].parser, m.headers)
  PROVE  /\ Last(spans').trace = IF pc.trace = None THEN NewTrace ELSE pc.trace
         /\ Last(spans').parent = pc.parent
  <1> DEFINE n == [trace |-> IF pc.trace = None THEN NewTrace ELSE pc.trace, parent |-> pc.parent,
                   root |-> TRUE, type |-> IF pc.parent = None THEN "root" ELSE "subroot"]
  <1>1. spans' = Append(spans, n)
    BY DEF Serve, PropagateAndStart, StartTrace, PushSpan
  <1>2. Last(spans') = n
    <2>1. spans \in Seq(SpanSet(Len(traces), Len(spans)))
      BY DEF PropInv, CoreInv, HeapOK
    <2> HIDE DEF n
    <2>2. Last(Append(spans, n)) = n
      BY <2>1, LastAppended
    <2> QED
      BY <1>1, <2>2
  <1> QED
    BY <1>2

\* If no two threads share a Session and json encodes all fields, a request sent
\* from within a trace is served within that trace as a child of the span of the
\* very call, by any service that understands its headers, and by any other in a
\* trace of its own: for any services, hooks and threads, and whatever the thread
\* used the Session for before, inside of traces or outside.
THEOREM ContinuesCallCorrect ==
  ASSUME ~Shared, NotJson = {}
  PROVE  PropagationSpec => ContinuesCall
  <1> DEFINE Continues ==
               \A c \in Ctx : \A m \in wire : Serve(c, m) /\ m.from # None =>
                 LET n == Last(spans') IN
                 IF Understands(c, m.by, spans[m.from].trace)
                 THEN n.trace = spans[m.from].trace /\ n.parent = m.from
                 ELSE n.trace = NewTrace /\ n.parent = None
  <1>1. PropInv /\ MadeInv /\ [PropagationNext]_allVars => [Continues]_allVars
    <2> SUFFICES ASSUME PropInv, MadeInv, NEW c \in Ctx, NEW m \in wire, Serve(c, m), m.from # None
                 PROVE  IF Understands(c, m.by, spans[m.from].trace)
                        THEN Last(spans').trace = spans[m.from].trace /\ Last(spans').parent = m.from
                        ELSE Last(spans').trace = NewTrace /\ Last(spans').parent = None
      OBVIOUS
    <2>1. PICK p, q : p = config[ServiceOf[m.by]].propagator /\ q = config[ServiceOf[c]].parser
      OBVIOUS
    <2>2. HandsOn(p, spans, m.from, m.headers)
      BY <2>1 DEF MadeInv, PropagatorOf
    <2>3. PICK pc : pc = ParseHttpTrace(q, m.headers)
      OBVIOUS
    <2>4. IF \/ p = "honeycomb" /\ q \in {"honeycomb", "default"}
             \/ p = "w3c" /\ q \in {"w3c", "default"} /\ IsHex(spans[m.from].trace)
          THEN pc.trace = spans[m.from].trace /\ pc.parent = m.from
          ELSE pc.trace = None /\ pc.parent = None
      BY <2>2, <2>3, ParsedCall
    <2>5. /\ Last(spans').trace = IF pc.trace = None THEN NewTrace ELSE pc.trace
          /\ Last(spans').parent = pc.parent
      BY <2>1, <2>3, ServedSpan
    <2>6. spans[m.from].trace # None
      <3>1. HeapOK /\ m.from \in 0..Len(spans) /\ Len(spans) \in Nat
        BY FromType, LenProperties DEF PropInv, CoreInv, HeapOK
      <3>2. m.from \in 1..Len(spans)
        BY <3>1 DEF None
      <3>3. spans[m.from].trace \in CallerId \cup (1..Len(traces))
        BY <3>1, <3>2, SpanType
      <3> QED
        BY <3>3, TracerAssumption DEF None
    <2>7. Understands(c, m.by, spans[m.from].trace) <=>
            \/ p = "honeycomb" /\ q \in {"honeycomb", "default"}
            \/ p = "w3c" /\ q \in {"w3c", "default"} /\ IsHex(spans[m.from].trace)
      BY <2>1 DEF Understands
    <2> QED
      BY <2>4, <2>5, <2>6, <2>7
  <1> QED
    BY <1>1, MadeHolds, PTL DEF PropagationSpec, ContinuesCall

\* ... and the headers of every request from within a trace name the span of the
\* call that sent it: a Session of one's own that sends old headers does so because
\* of json, or from outside a trace.
THEOREM CarriesOwnSpanCorrect ==
  ASSUME ~Shared, NotJson = {}
  PROVE  PropagationSpec => []CarriesOwnSpan
  <1>1. PropInv /\ MadeInv => CarriesOwnSpan
    <2> SUFFICES ASSUME PropInv, MadeInv, NEW m \in wire, NEW h \in Range(m.headers) \ {Absent}, m.from # None
                 PROVE  h.parent = m.from /\ h.trace = spans[m.from].trace
      BY DEF CarriesOwnSpan
    <2>1. PICK p : p = PropagatorOf(m.by)
      OBVIOUS
    <2>2. HandsOn(p, spans, m.from, m.headers)
      BY <2>1 DEF MadeInv
    <2>3. ASSUME NEW a, NEW b, m.headers = [honeycomb |-> a, w3c |-> b]
          PROVE  h \in {a, b}
      BY <2>3 DEF Range
    <2>4. PICK fs \in SUBSET Field : m.headers = PropagationHook(p, spans[m.from].trace, m.from, fs)
      BY <2>2 DEF HandsOn
    <2>5. PICK a, b : /\ a = Header("1", spans[m.from].trace, m.from, fs)
                      /\ b = Header("00", spans[m.from].trace, m.from, {})
      OBVIOUS
    <2>6. \/ m.headers = [honeycomb |-> a, w3c |-> Absent]
          \/ m.headers = [honeycomb |-> Absent, w3c |-> b]
          \/ m.headers = [honeycomb |-> Absent, w3c |-> Absent]
      BY <2>4, <2>5, HookShape DEF NoHeaders
    <2>7. h = a \/ h = b
      BY <2>3, <2>6
    <2> QED
      BY <2>5, <2>7 DEF Header
  <1> QED
    BY <1>1, MadeHolds, PTL

=============================================================================
