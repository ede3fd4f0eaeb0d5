--------------------------- MODULE LifecycleProofs ---------------------------
(***************************************************************************)
(* What init, close, fork and sampling keep for every number of processes, *)
(* threads, beelines and spans, every size of the hash and every rate.     *)
(***************************************************************************)
EXTENDS Lifecycle, TLAPS, SequenceTheorems

-----------------------------------------------------------------------------
(* Sampling *)

\* What is kept at a rate is kept at every lower one.
THEOREM SamplingNests ==
  \A hash \in Nat : \A low \in Nat \ {0} : \A high \in Nat \ {0} : Nested(hash, low, high)
  <1> SUFFICES ASSUME NEW hash \in Nat, NEW low \in Nat \ {0}, NEW high \in Nat \ {0}, low <= high,
                      ShouldSample(hash, high), low # 1
               PROVE  hash * low < MAX_INT32
    BY DEF Nested, ShouldSample
  <1>1. MAX_INT32 \in Nat /\ hash * high < MAX_INT32
    BY SamplingAssumption DEF ShouldSample, MAX_INT32
  <1>2. hash * low <= hash * high
    <2>1. PICK d \in Nat : high = low + d
      <3>1. high - low \in Nat /\ high = low + (high - low)
        OBVIOUS
      <3> QED
        BY <3>1
    <2>2. hash * high = hash * low + hash * d
      BY <2>1
    <2>3. hash * d \in Nat /\ hash * low \in Nat
      BY <2>1
    <2> QED
      BY <2>2, <2>3
  <1>3. hash * low \in Nat /\ hash * high \in Nat
    OBVIOUS
  <1> QED
    BY <1>1, <1>2, <1>3

-----------------------------------------------------------------------------
(* The shape of the state *)

Ops == {"idle", "make", "stamp", "stop", "stop_old", "clear", "start", "finish", "flush"}
AtSet == [op : Ops, on : Nat, sure : BOOLEAN]
ClientSet == [1..MaxBeelines -> {"unmade", "open", "closing", "closed"}]

MemoryOK ==
  /\ threads \in [Procs -> SUBSET Threads]
  /\ gbl \in [Procs -> 0..Len(beelines)]
  /\ initpid \in [Procs -> Procs \cup {None}]
  /\ beelines \in Seq(Rates) /\ Len(beelines) <= MaxBeelines
  /\ client \in [Procs -> ClientSet]
  /\ senders \subseteq Procs \X (1..Len(beelines))
  /\ ready \subseteq Procs

WorkOK ==
  /\ queue \subseteq Procs \X (1..Len(spans))
  /\ spans \in Seq([hash : TraceHash, bl : 1..Len(beelines)])
  /\ open \in [Procs -> [Threads -> SUBSET (1..Len(spans))]]
  /\ delivered \in Seq(0..2) /\ Len(delivered) = Len(spans)
  /\ dropped \subseteq 1..Len(spans) /\ owed \subseteq 1..Len(spans)
  /\ sure \subseteq Procs \X (1..Len(spans))

\* A thread that is in a call refers to objects that were made; a thread that a process
\* has not is in no call.
AtOK ==
  /\ at \in [Procs -> [Threads -> AtSet]]
  /\ \A p \in Procs, t \in Threads :
       /\ at[p][t].op \in {"start", "stop", "stop_old"} => at[p][t].on \in 1..Len(beelines)
       /\ at[p][t].op = "finish" => at[p][t].on \in open[p][t]
       /\ t \notin threads[p] => at[p][t].op = "idle"

TypeInv == MemoryOK /\ WorkOK /\ AtOK

\* The parts say what the type invariant of Lifecycle says.
LEMMA TypeInvParts == TypeInv => LifecycleTypeOK
  BY DEF TypeInv, MemoryOK, WorkOK, AtOK, LifecycleTypeOK, Ops, AtSet, ClientSet

\* The shape before any call.
LEMMA TypeInvInit == LifecycleInit => TypeInv
  <1> SUFFICES ASSUME LifecycleInit PROVE TypeInv
    OBVIOUS
  <1>1. Len(beelines) = 0 /\ Len(spans) = 0 /\ Len(delivered) = 0 /\ MaxBeelines \in Nat
        /\ Parent \in Procs
    BY LifecycleAssumption DEF LifecycleInit
  <1>2. MemoryOK
    <2>1. client \in [Procs -> ClientSet]
      BY <1>1 DEF LifecycleInit, ClientSet
    <2>2. threads \in [Procs -> SUBSET Threads]
      BY DEF LifecycleInit
    <2> QED
      BY <1>1, <2>1, <2>2 DEF LifecycleInit, MemoryOK, None
  <1>3. WorkOK
    BY <1>1 DEF LifecycleInit, WorkOK
  <1>4. AtOK
    <2>1. Idle \in AtSet
      BY DEF AtSet, Idle, Ops, None
    <2> QED
      BY <1>1, <2>1 DEF LifecycleInit, AtOK, Idle
  <1> QED
    BY <1>2, <1>3, <1>4 DEF TypeInv

-----------------------------------------------------------------------------
(* The shape is kept *)

\* The lengths that the bounds of the state refer to.
LEMMA Lengths ==
  ASSUME TypeInv
  PROVE  /\ Len(beelines) \in Nat /\ Len(spans) \in Nat
         /\ DOMAIN beelines = 1..Len(beelines) /\ DOMAIN spans = 1..Len(spans)
  BY LenProperties DEF TypeInv, MemoryOK, WorkOK

\* What Append makes.
LEMMA AppendTo ==
  ASSUME NEW S, NEW q \in Seq(S), NEW e \in S
  PROVE  /\ Append(q, e) \in Seq(S) /\ Len(q) \in Nat
         /\ Len(Append(q, e)) = Len(q) + 1
         /\ \A i \in 1..Len(q) : Append(q, e)[i] = q[i]
         /\ Append(q, e)[Len(q) + 1] = e
  BY LenProperties

\* The client of one beeline changes its state.
LEMMA ClientMoves ==
  ASSUME client \in [Procs -> ClientSet], NEW p \in Procs, NEW b,
         NEW x \in {"unmade", "open", "closing", "closed"}, client' = [client EXCEPT ![p][b] = x]
  PROVE  client' \in [Procs -> ClientSet]
  BY DEF ClientSet

\* What the processes share with their children keeps its shape, and beelines are only made.
LEMMA MemoryStep ==
  ASSUME TypeInv, [LifecycleNext]_lvars
  PROVE  MemoryOK' /\ Len(beelines) <= Len(beelines')
  <1> USE DEF memory
  <1>1. MemoryOK /\ Len(beelines) \in Nat
    BY Lengths DEF TypeInv
  <1>2. ASSUME UNCHANGED memory, ready' \subseteq Procs
        PROVE  MemoryOK' /\ Len(beelines) <= Len(beelines')
    BY <1>1, <1>2 DEF MemoryOK
  <1>3. ASSUME NEW p \in Procs, NEW t \in Threads, InitCheck(p, t)
        PROVE  MemoryOK' /\ Len(beelines) <= Len(beelines')
    <2>1. client' \in [Procs -> ClientSet]
      BY <1>1, <1>3, ClientMoves DEF InitCheck, MemoryOK
    <2> QED
      BY <1>1, <1>3, <2>1 DEF InitCheck, MemoryOK
  <1>4. ASSUME NEW p \in Procs, NEW t \in Threads, NEW r \in Rates, InitMake(p, t, r)
        PROVE  MemoryOK' /\ Len(beelines) <= Len(beelines')
    <2> DEFINE b == Len(beelines) + 1
    <2>1. beelines' \in Seq(Rates) /\ Len(beelines') = b /\ b <= MaxBeelines /\ b \in Nat
      BY <1>1, <1>4, AppendTo DEF InitMake, MemoryOK
    <2>2. client' \in [Procs -> ClientSet]
      BY <1>1, <1>4, ClientMoves DEF InitMake, MemoryOK
    <2>3. gbl' \in [Procs -> 0..b]
      BY <1>1, <1>4, <2>1 DEF InitMake, MemoryOK
    <2>4. senders' \subseteq Procs \X (1..b)
      BY <1>1, <1>4, <2>1 DEF InitMake, MemoryOK
    <2> QED
      BY <1>1, <1>4, <2>1, <2>2, <2>3, <2>4 DEF InitMake, MemoryOK
  <1>5. ASSUME NEW p \in Procs, NEW t \in Threads, InitStamp(p, t)
        PROVE  MemoryOK' /\ Len(beelines) <= Len(beelines')
    BY <1>1, <1>5 DEF InitStamp, MemoryOK
  <1>6. ASSUME NEW p \in Procs, NEW t \in Threads, Close(p, t)
        PROVE  MemoryOK' /\ Len(beelines) <= Len(beelines')
    <2>1. client' \in [Procs -> ClientSet]
      BY <1>1, <1>6, ClientMoves DEF Close, MemoryOK
    <2> QED
      BY <1>1, <1>6, <2>1 DEF Close, Revoke, MemoryOK
  <1>7. ASSUME NEW p \in Procs, NEW t \in Threads, Stopped(p, t)
        PROVE  MemoryOK' /\ Len(beelines) <= Len(beelines')
    <2>1. client' \in [Procs -> ClientSet]
      BY <1>1, <1>7, ClientMoves DEF Stopped, MemoryOK
    <2> QED
      BY <1>1, <1>7, <2>1 DEF Stopped, MemoryOK
  <1>8. ASSUME NEW p \in Procs, NEW t \in Threads, Clear(p, t)
        PROVE  MemoryOK' /\ Len(beelines) <= Len(beelines')
    BY <1>1, <1>8 DEF Clear, MemoryOK, None
  <1>9. ASSUME NEW p \in Procs, NEW t \in Threads, NEW q \in Procs, Fork(p, t, q)
        PROVE  MemoryOK' /\ Len(beelines) <= Len(beelines')
    <2>1. client' \in [Procs -> ClientSet]
      BY <1>1, <1>9 DEF Fork, MemoryOK
    <2> QED
      BY <1>1, <1>9, <2>1 DEF Fork, MemoryOK
  <1>10. ASSUME NEW p \in Procs, NEW t \in Threads,
                \/ StartSpan(p, t) \/ StartSpanUse(p, t) \/ (\E s \in DOMAIN spans : FinishSpan(p, t, s))
                \/ FinishSpanUse(p, t) \/ Flush(p, t) \/ FlushUse(p, t)
         PROVE  UNCHANGED memory /\ ready' \subseteq Procs
    BY <1>1, <1>10 DEF StartSpan, StartSpanUse, FinishSpan, FinishSpanUse, Flush, FlushUse, MemoryOK
  <1>11. ASSUME NEW p \in Procs, Transmit(p)
         PROVE  UNCHANGED memory /\ ready' \subseteq Procs
    BY <1>1, <1>11 DEF Transmit, Deliver, MemoryOK
  <1>12. CASE UNCHANGED lvars
    BY <1>1, <1>2, <1>12 DEF lvars, MemoryOK
  <1> QED
    BY <1>2, <1>3, <1>4, <1>5, <1>6, <1>7, <1>8, <1>9, <1>10, <1>11, <1>12 DEF LifecycleNext, ThreadStep

\* A span more.
LEMMA SpansGrow ==
  ASSUME WorkOK, NEW n \in Nat, NEW m \in Nat, Len(beelines) <= n, Len(spans) <= m, Len(beelines) \in Nat
  PROVE  /\ queue \subseteq Procs \X (1..m)
         /\ spans \in Seq([hash : TraceHash, bl : 1..n])
         /\ open \in [Procs -> [Threads -> SUBSET (1..m)]]
         /\ dropped \subseteq 1..m /\ owed \subseteq 1..m
         /\ sure \subseteq Procs \X (1..m)
         /\ Len(spans) \in Nat
  <1>1. Len(spans) \in Nat
    BY LenProperties DEF WorkOK
  <1>2. 1..Len(spans) \subseteq 1..m /\ 1..Len(beelines) \subseteq 1..n
    BY <1>1
  <1>3. [hash : TraceHash, bl : 1..Len(beelines)] \subseteq [hash : TraceHash, bl : 1..n]
    BY <1>2
  <1>4. spans \in Seq([hash : TraceHash, bl : 1..n])
    <2> DEFINE S == [hash : TraceHash, bl : 1..Len(beelines)]
               T == [hash : TraceHash, bl : 1..n]
    <2>1. spans \in Seq(S) /\ S \subseteq T
      BY <1>3 DEF WorkOK
    <2> HIDE DEF S, T
    <2>2. spans \in Seq(T)
      BY <2>1, SeqMonotonic
    <2> QED
      BY <2>2 DEF T
  <1>5. open \in [Procs -> [Threads -> SUBSET (1..m)]]
    BY <1>2 DEF WorkOK
  <1> QED
    BY <1>1, <1>2, <1>4, <1>5 DEF WorkOK

\* What a span has.
LEMMA SpanParts ==
  ASSUME WorkOK, NEW s \in 1..Len(spans)
  PROVE  spans[s].hash \in TraceHash /\ spans[s].bl \in 1..Len(beelines)
  <1> DEFINE S == [hash : TraceHash, bl : 1..Len(beelines)]
  <1>1. spans \in Seq(S)
    BY DEF WorkOK
  <1> HIDE DEF S
  <1>2. spans[s] \in S
    BY <1>1, ElementOfSeq
  <1> QED
    BY <1>2 DEF S

\* Spans, queues and the records of what sampling decided keep their shape.
LEMMA WorkStep ==
  ASSUME TypeInv, [LifecycleNext]_lvars
  PROVE  WorkOK'
  <1> USE DEF work
  <1>1. MemoryOK' /\ Len(beelines) <= Len(beelines') /\ WorkOK /\ Len(beelines) \in Nat /\ Len(spans) \in Nat
        /\ DOMAIN spans = 1..Len(spans) /\ Len(beelines') \in Nat
    BY MemoryStep, Lengths, LenProperties DEF TypeInv, MemoryOK
  <1>2. ASSUME UNCHANGED <<spans, delivered, dropped, owed>>,
               queue' \subseteq Procs \X (1..Len(spans)), sure' \subseteq Procs \X (1..Len(spans)),
               open' \in [Procs -> [Threads -> SUBSET (1..Len(spans))]]
        PROVE  WorkOK'
    <2>1. spans \in Seq([hash : TraceHash, bl : 1..Len(beelines')])
      BY <1>1, SpansGrow
    <2> QED
      BY <1>1, <1>2, <2>1 DEF WorkOK
  <1>3. ASSUME UNCHANGED work, UNCHANGED delivered
        PROVE  WorkOK'
    BY <1>1, <1>2, <1>3 DEF WorkOK
  <1>4. ASSUME NEW p \in Procs, NEW t \in Threads,
               \/ InitCheck(p, t) \/ (\E r \in Rates : InitMake(p, t, r)) \/ InitStamp(p, t)
               \/ Stopped(p, t) \/ Clear(p, t) \/ StartSpan(p, t) \/ Flush(p, t) \/ FlushUse(p, t)
        PROVE  UNCHANGED work /\ UNCHANGED delivered
    BY <1>4 DEF InitCheck, InitMake, InitStamp, Stopped, Clear, StartSpan, Flush, FlushUse
  <1>5. ASSUME NEW p \in Procs, NEW t \in Threads, Close(p, t)
        PROVE  WorkOK'
    BY <1>1, <1>2, <1>5 DEF Close, Revoke, WorkOK
  <1>6. ASSUME NEW p \in Procs, NEW t \in Threads, StartSpanUse(p, t)
        PROVE  WorkOK'
    <2> DEFINE b == at[p][t].on
               m == Len(spans) + 1
    <2>1. at[p][t].op = "start" /\ b \in 1..Len(beelines) /\ UNCHANGED beelines
      BY <1>6 DEF StartSpanUse, Here, TypeInv, AtOK, memory
    <2>2. PICK h \in TraceHash : spans' = Append(spans, [hash |-> h, bl |-> b])
      <3>1. \A s \in 1..Len(spans) : spans[s].hash \in TraceHash
        BY <1>1, SpanParts
      <3>2. \A s \in open[p][t] : s \in 1..Len(spans)
        BY <1>1 DEF WorkOK
      <3> QED
        BY <1>6, <3>1, <3>2 DEF StartSpanUse
    <2>3. spans' \in Seq([hash : TraceHash, bl : 1..Len(beelines)]) /\ Len(spans') = m
      BY <1>1, <2>1, <2>2, AppendTo DEF WorkOK
    <2>4. delivered' \in Seq(0..2) /\ Len(delivered') = m
      BY <1>1, <1>6, AppendTo DEF WorkOK, StartSpanUse
    <2>5. /\ queue \subseteq Procs \X (1..m)
          /\ open \in [Procs -> [Threads -> SUBSET (1..m)]]
          /\ dropped \subseteq 1..m /\ owed \subseteq 1..m
          /\ sure \subseteq Procs \X (1..m) /\ m \in 1..m /\ m \in Nat
      <3>1. m \in Nat /\ Len(spans) <= m /\ m \in 1..m
        BY <1>1
      <3> HIDE DEF m
      <3> QED
        BY <1>1, <3>1, SpansGrow
    <2>6. open' \in [Procs -> [Threads -> SUBSET (1..m)]]
      <3>1. open' = [open EXCEPT ![p] = [open[p] EXCEPT ![t] = open[p][t] \cup {m}]]
        BY <1>6 DEF StartSpanUse
      <3>2. open[p] \in [Threads -> SUBSET (1..m)] /\ open[p][t] \cup {m} \in SUBSET (1..m)
        BY <2>5
      <3>3. [open[p] EXCEPT ![t] = open[p][t] \cup {m}] \in [Threads -> SUBSET (1..m)]
        BY <3>2
      <3> QED
        BY <2>5, <3>1, <3>3
    <2>7. sure' \subseteq Procs \X (1..m)
      <3>1. sure' \subseteq sure \cup {<<p, m>>}
        BY <1>6 DEF StartSpanUse
      <3> QED
        BY <2>5, <3>1
    <2> QED
      BY <1>6, <2>1, <2>3, <2>4, <2>5, <2>6, <2>7 DEF StartSpanUse, WorkOK
  <1>7. ASSUME NEW p \in Procs, NEW t \in Threads, NEW s \in DOMAIN spans, FinishSpan(p, t, s)
        PROVE  WorkOK'
    <2>1. open' \in [Procs -> [Threads -> SUBSET (1..Len(spans))]]
      <3>1. open \in [Procs -> [Threads -> SUBSET (1..Len(spans))]]
        BY <1>1 DEF WorkOK
      <3>2. UNCHANGED open \/ open' = [open EXCEPT ![p][t] = open[p][t] \ {s}]
        BY <1>7 DEF FinishSpan
      <3> QED
        BY <3>1, <3>2
    <2> QED
      BY <1>1, <1>2, <1>7, <2>1 DEF FinishSpan, WorkOK
  <1>8. ASSUME NEW p \in Procs, NEW t \in Threads, FinishSpanUse(p, t)
        PROVE  WorkOK'
    <2> DEFINE s == at[p][t].on
    <2>1. s \in 1..Len(spans)
      BY <1>1, <1>8 DEF FinishSpanUse, Here, TypeInv, AtOK, WorkOK
    <2>2. open' \in [Procs -> [Threads -> SUBSET (1..Len(spans))]]
      BY <1>1, <1>8 DEF FinishSpanUse, WorkOK
    <2>3. queue' \subseteq queue \cup {<<p, s>>} /\ dropped' \subseteq dropped \cup {s} /\ owed' \subseteq owed \cup {s}
      BY <1>8 DEF FinishSpanUse
    <2>4. UNCHANGED <<spans, delivered, sure, beelines>>
      BY <1>8 DEF FinishSpanUse, memory
    <2>5. queue' \subseteq Procs \X (1..Len(spans))
      <3> HIDE DEF s
      <3>1. queue \subseteq Procs \X (1..Len(spans)) /\ <<p, s>> \in Procs \X (1..Len(spans))
        BY <1>1, <2>1 DEF WorkOK
      <3> QED
        BY <2>3, <3>1
    <2>6. dropped' \subseteq 1..Len(spans) /\ owed' \subseteq 1..Len(spans)
      <3> HIDE DEF s
      <3> QED
        BY <1>1, <2>1, <2>3 DEF WorkOK
    <2> QED
      BY <1>1, <2>2, <2>4, <2>5, <2>6 DEF WorkOK
  <1>9. ASSUME NEW p \in Procs, NEW t \in Threads, NEW q \in Procs, Fork(p, t, q)
        PROVE  WorkOK'
    <2>1. open' \in [Procs -> [Threads -> SUBSET (1..Len(spans))]]
      BY <1>1, <1>9 DEF Fork, WorkOK
    <2>2. queue' \subseteq Procs \X (1..Len(spans))
      BY <1>1, <1>9 DEF Fork, WorkOK
    <2> QED
      BY <1>1, <1>2, <1>9, <2>1, <2>2 DEF Fork, WorkOK
  <1>10. ASSUME NEW p \in Procs, Transmit(p)
         PROVE  WorkOK'
    <2>1. PICK s \in DOMAIN spans : Deliver(p, s)
      BY <1>10 DEF Transmit
    <2>2. delivered[s] \in 0..2 /\ s \in 1..Len(delivered)
      BY <1>1, <2>1, ElementOfSeq DEF WorkOK
    <2>3. (IF delivered[s] < 2 THEN delivered[s] + 1 ELSE delivered[s]) \in 0..2
      BY <2>2
    <2>4. delivered' = [delivered EXCEPT ![s] = IF delivered[s] < 2 THEN delivered[s] + 1 ELSE delivered[s]]
      BY <2>1 DEF Deliver
    <2>5. delivered' \in Seq(0..2) /\ Len(delivered') = Len(delivered)
      BY <1>1, <2>2, <2>3, <2>4, ExceptSeq DEF WorkOK
    <2> QED
      BY <1>1, <2>1, <2>5 DEF Deliver, WorkOK, memory
  <1>11. CASE UNCHANGED lvars
    BY <1>3, <1>11 DEF lvars
  <1> QED
    BY <1>3, <1>4, <1>5, <1>6, <1>7, <1>8, <1>9, <1>10, <1>11 DEF LifecycleNext, ThreadStep

\* One thread goes to another place in its call, or into a call, or out of one.
LEMMA AtMoves ==
  ASSUME AtOK, Len(beelines) \in Nat, Len(beelines') \in Nat, Len(beelines) <= Len(beelines'),
         NEW p \in Procs, NEW t \in Threads, NEW r \in AtSet, at' = [at EXCEPT ![p][t] = r],
         r.op \in {"start", "stop", "stop_old"} => r.on \in 1..Len(beelines),
         r.op = "finish" => r.on \in open'[p][t],
         t \in threads[p], UNCHANGED threads,
         \A q \in Procs, u \in Threads : u # t \/ q # p => open'[q][u] = open[q][u]
  PROVE  AtOK'
  <1>1. at' \in [Procs -> [Threads -> AtSet]]
    BY DEF AtOK
  <1>2. at'[p][t] = r /\ \A q \in Procs, u \in Threads : u # t \/ q # p => at'[q][u] = at[q][u]
    BY DEF AtOK
  <1>3. 1..Len(beelines) \subseteq 1..Len(beelines')
    OBVIOUS
  <1>4. ASSUME NEW q \in Procs, NEW u \in Threads
        PROVE  /\ at'[q][u].op \in {"start", "stop", "stop_old"} => at'[q][u].on \in 1..Len(beelines')
               /\ at'[q][u].op = "finish" => at'[q][u].on \in open'[q][u]
               /\ u \notin threads'[q] => at'[q][u].op = "idle"
    <2>1. CASE q = p /\ u = t
      BY <1>2, <1>3, <2>1
    <2>2. CASE u # t \/ q # p
      BY <1>2, <1>3, <2>2 DEF AtOK
    <2> QED
      BY <2>1, <2>2
  <1> QED
    BY <1>1, <1>4 DEF AtOK

\* No thread moves.
LEMMA AtStays ==
  ASSUME AtOK, Len(beelines) \in Nat, Len(beelines') \in Nat, Len(beelines) <= Len(beelines'), UNCHANGED at,
         \A q \in Procs, u \in Threads : at[q][u].op = "finish" => open'[q][u] = open[q][u],
         \A q \in Procs : threads[q] \subseteq threads'[q]
  PROVE  AtOK'
  <1>1. 1..Len(beelines) \subseteq 1..Len(beelines')
    OBVIOUS
  <1> QED
    BY <1>1 DEF AtOK

\* What Goto and Return put there.
LEMMA Places ==
  ASSUME AtOK, NEW p \in Procs, NEW t \in Threads, NEW op \in Ops, NEW on \in Nat
  PROVE  /\ Idle \in AtSet /\ Idle.op = "idle"
         /\ LET r == [op |-> op, on |-> on, sure |-> op = "start" /\ p \in ready]
            IN  r \in AtSet /\ r.op = op /\ r.on = on
  BY DEF AtSet, Idle, Ops, None

\* A thread in a call goes on referring to what there is.
LEMMA AtStep ==
  ASSUME TypeInv, [LifecycleNext]_lvars
  PROVE  AtOK'
  <1> USE DEF Here
  <1>1. /\ AtOK /\ MemoryOK /\ WorkOK /\ Len(beelines) \in Nat /\ Len(beelines') \in Nat
        /\ Len(beelines) <= Len(beelines')
    BY MemoryStep, Lengths, LenProperties DEF TypeInv, MemoryOK
  <1>2. ASSUME NEW p \in Procs, NEW t \in Threads, NEW op \in Ops, NEW on \in Nat,
               Goto(p, t, op, on), t \in threads[p], UNCHANGED <<threads, open>>,
               op \in {"start", "stop", "stop_old"} => on \in 1..Len(beelines),
               op = "finish" => on \in open[p][t]
        PROVE  AtOK'
    <2> DEFINE r == [op |-> op, on |-> on, sure |-> op = "start" /\ p \in ready]
    <2>1. r \in AtSet /\ r.op = op /\ r.on = on
      BY <1>1, Places
    <2>2. at' = [at EXCEPT ![p][t] = r]
      BY <1>2 DEF Goto
    <2> HIDE DEF r
    <2> QED
      BY <1>1, <1>2, <2>1, <2>2, AtMoves
  <1>3. ASSUME NEW p \in Procs, NEW t \in Threads, Return(p, t), t \in threads[p], UNCHANGED threads,
               \A q \in Procs, u \in Threads : u # t \/ q # p => open'[q][u] = open[q][u]
        PROVE  AtOK'
    <2>1. Idle \in AtSet /\ Idle.op = "idle"
      BY DEF AtSet, Idle, Ops, None
    <2>2. at' = [at EXCEPT ![p][t] = Idle]
      BY <1>3 DEF Return
    <2> QED
      BY <1>1, <1>3, <2>1, <2>2, AtMoves
  <1>4. ASSUME NEW p \in Procs, NEW t \in Threads, InitCheck(p, t)
        PROVE  AtOK'
    <2>1. t \in threads[p] /\ UNCHANGED <<threads, open, beelines>> /\ gbl[p] \in 0..Len(beelines) /\ gbl[p] \in Nat
      BY <1>1, <1>4 DEF InitCheck, MemoryOK, work
    <2>2. CASE gbl[p] = None /\ Goto(p, t, "make", None)
      BY <1>2, <2>1, <2>2 DEF Ops, None
    <2>3. CASE UNCHANGED at
      BY <1>1, <2>1, <2>3, AtStays
    <2>4. CASE gbl[p] # None /\ Goto(p, t, "stop_old", gbl[p])
      <3>1. gbl[p] \in 1..Len(beelines)
        BY <2>1, <2>4 DEF None
      <3> QED
        BY <1>2, <2>1, <2>4, <3>1 DEF Ops
    <2> QED
      BY <1>4, <2>2, <2>3, <2>4 DEF InitCheck
  <1>5. ASSUME NEW p \in Procs, NEW t \in Threads, NEW r \in Rates, InitMake(p, t, r)
        PROVE  AtOK'
    BY <1>2, <1>5 DEF InitMake, Ops, None, work
  <1>6. ASSUME NEW p \in Procs, NEW t \in Threads,
               InitStamp(p, t) \/ Clear(p, t) \/ FlushUse(p, t)
        PROVE  AtOK'
    BY <1>3, <1>6 DEF InitStamp, Clear, FlushUse, work, memory
  <1>7. ASSUME NEW p \in Procs, NEW t \in Threads, Close(p, t)
        PROVE  AtOK'
    <2>1. /\ t \in threads[p] /\ UNCHANGED <<threads, open, beelines>>
          /\ gbl[p] \in 1..Len(beelines) /\ gbl[p] \in Nat
      BY <1>1, <1>7 DEF Close, MemoryOK, None
    <2> DEFINE row == [u \in Threads |->
                 IF u = t THEN [op |-> "stop", on |-> gbl[p], sure |-> FALSE]
                 ELSE [at[p][u] EXCEPT !.sure = FALSE]]
    <2>2. at' = [at EXCEPT ![p] = row]
      BY <1>1, <1>7 DEF Close, AtOK
    <2>3. \A u \in Threads : u # t => /\ row[u] \in AtSet
                                      /\ row[u].op = at[p][u].op /\ row[u].on = at[p][u].on
      <3>1. \A r \in AtSet : LET x == [r EXCEPT !.sure = FALSE]
                             IN  x \in AtSet /\ x.op = r.op /\ x.on = r.on
        BY DEF AtSet
      <3>2. \A u \in Threads : at[p][u] \in AtSet
        BY <1>1 DEF AtOK
      <3> QED
        BY <3>1, <3>2
    <2>4. row[t] \in AtSet /\ row[t].op = "stop" /\ row[t].on = gbl[p]
      BY <2>1 DEF AtSet, Ops
    <2>5. row \in [Threads -> AtSet]
      BY <2>3, <2>4
    <2> HIDE DEF row
    <2>6. at' \in [Procs -> [Threads -> AtSet]] /\ at'[p] = row /\ \A q \in Procs : q # p => at'[q] = at[q]
      BY <1>1, <2>2, <2>5 DEF AtOK
    <2>7. ASSUME NEW q \in Procs, NEW u \in Threads
          PROVE  /\ at'[q][u].op \in {"start", "stop", "stop_old"} => at'[q][u].on \in 1..Len(beelines')
                 /\ at'[q][u].op = "finish" => at'[q][u].on \in open'[q][u]
                 /\ u \notin threads'[q] => at'[q][u].op = "idle"
      <3>1. CASE q # p
        BY <1>1, <2>1, <2>6, <3>1 DEF AtOK
      <3>2. CASE q = p /\ u # t
        BY <1>1, <2>1, <2>3, <2>6, <3>2 DEF AtOK
      <3>3. CASE q = p /\ u = t
        BY <2>1, <2>4, <2>6, <3>3
      <3> QED
        BY <3>1, <3>2, <3>3
    <2> QED
      BY <2>6, <2>7 DEF AtOK
  <1>8. ASSUME NEW p \in Procs, NEW t \in Threads, Stopped(p, t)
        PROVE  AtOK'
    <2>1. t \in threads[p] /\ UNCHANGED <<threads, open>>
      BY <1>8 DEF Stopped, work
    <2>2. Goto(p, t, "clear", None) \/ Goto(p, t, "make", None)
      BY <1>8 DEF Stopped
    <2> QED
      BY <1>2, <2>1, <2>2 DEF Ops, None
  <1>9. ASSUME NEW p \in Procs, NEW t \in Threads, StartSpan(p, t)
        PROVE  AtOK'
    <2>1. t \in threads[p] /\ UNCHANGED <<threads, open>> /\ Goto(p, t, "start", gbl[p])
      BY <1>9 DEF StartSpan, Fetch, memory, work
    <2>2. gbl[p] \in 1..Len(beelines) /\ gbl[p] \in Nat
      BY <1>1, <1>9 DEF StartSpan, Fetch, MemoryOK, None
    <2> QED
      BY <1>2, <2>1, <2>2 DEF Ops
  <1>10. ASSUME NEW p \in Procs, NEW t \in Threads, StartSpanUse(p, t)
         PROVE  AtOK'
    <2>1. Return(p, t) /\ t \in threads[p] /\ UNCHANGED threads
      BY <1>10 DEF StartSpanUse, memory
    <2>2. \A q \in Procs, u \in Threads : u # t \/ q # p => open'[q][u] = open[q][u]
      BY <1>1, <1>10 DEF StartSpanUse, WorkOK
    <2> QED
      BY <1>3, <2>1, <2>2
  <1>11. ASSUME NEW p \in Procs, NEW t \in Threads, NEW s \in DOMAIN spans, FinishSpan(p, t, s)
         PROVE  AtOK'
    <2>1. s \in open[p][t] /\ t \in threads[p] /\ UNCHANGED <<threads, beelines>> /\ at[p][t].op = "idle" /\ s \in Nat
      BY <1>1, <1>11 DEF FinishSpan, Fetch, memory, WorkOK
    <2>2. CASE Fetch(p, t, "finish", s) /\ UNCHANGED open
      BY <1>2, <2>1, <2>2 DEF Fetch, Ops
    <2>3. CASE open' = [open EXCEPT ![p][t] = @ \ {s}] /\ UNCHANGED at
      <3>1. \A q \in Procs, u \in Threads : at[q][u].op = "finish" => open'[q][u] = open[q][u]
        BY <1>1, <2>1, <2>3 DEF WorkOK
      <3> QED
        BY <1>1, <2>1, <2>3, <3>1, AtStays
    <2> QED
      BY <1>11, <2>2, <2>3 DEF FinishSpan
  <1>12. ASSUME NEW p \in Procs, NEW t \in Threads, FinishSpanUse(p, t)
         PROVE  AtOK'
    <2>1. Return(p, t) /\ t \in threads[p] /\ UNCHANGED threads
      BY <1>12 DEF FinishSpanUse, memory
    <2>2. \A q \in Procs, u \in Threads : u # t \/ q # p => open'[q][u] = open[q][u]
      BY <1>1, <1>12 DEF FinishSpanUse, WorkOK
    <2> QED
      BY <1>3, <2>1, <2>2
  <1>13. ASSUME NEW p \in Procs, NEW t \in Threads, Flush(p, t)
         PROVE  AtOK'
    <2>1. t \in threads[p] /\ UNCHANGED <<threads, open>> /\ Goto(p, t, "flush", None)
      BY <1>13 DEF Flush, Fetch, memory, work
    <2>2. "flush" \in Ops /\ "flush" \notin {"start", "stop", "stop_old", "finish"}
      BY DEF Ops
    <2> QED
      BY <1>2, <2>1, <2>2 DEF None
  <1>14. ASSUME NEW p \in Procs, NEW t \in Threads, NEW q \in Procs, Fork(p, t, q)
         PROVE  AtOK'
    <2>1. threads[q] = {} /\ UNCHANGED <<at, beelines>> /\ \A x \in Procs : threads[x] \subseteq threads'[x]
      BY <1>1, <1>14 DEF Fork, MemoryOK
    <2>2. \A x \in Procs, u \in Threads : x # q => open'[x][u] = open[x][u]
      BY <1>1, <1>14 DEF Fork, WorkOK
    <2>3. \A u \in Threads : at[q][u].op = "idle"
      BY <1>1, <2>1 DEF AtOK
    <2>4. \A x \in Procs, u \in Threads : at[x][u].op = "finish" => open'[x][u] = open[x][u]
      BY <2>2, <2>3
    <2> QED
      BY <1>1, <2>1, <2>4, AtStays
  <1>15. ASSUME NEW p \in Procs, Transmit(p)
         PROVE  AtOK'
    <2>1. UNCHANGED <<threads, open, at, beelines>>
      BY <1>15 DEF Transmit, Deliver, memory
    <2> QED
      BY <1>1, <2>1, AtStays
  <1>16. CASE UNCHANGED lvars
    <2>1. UNCHANGED <<threads, open, at, beelines>>
      BY <1>16 DEF lvars, memory, work
    <2> QED
      BY <1>1, <2>1, AtStays
  <1> QED
    BY <1>4, <1>5, <1>6, <1>7, <1>8, <1>9, <1>10, <1>11, <1>12, <1>13, <1>14, <1>15, <1>16
       DEF LifecycleNext, ThreadStep

\* The shape is an invariant.
LEMMA TypeInvCorrect == LifecycleSpec => []TypeInv
  <1>1. LifecycleInit => TypeInv
    BY TypeInvInit
  <1>2. TypeInv /\ [LifecycleNext]_lvars => TypeInv'
    BY MemoryStep, WorkStep, AtStep DEF TypeInv
  <1> QED
    BY <1>1, <1>2, PTL DEF LifecycleSpec

\* The state of every process has its shape at all times: a call refers to a beeline that
\* was made and finishes a span that its thread has open, forks and closes in between or not.
THEOREM LifecycleTypeCorrect == LifecycleSpec => []LifecycleTypeOK
  BY TypeInvCorrect, TypeInvParts, PTL

-----------------------------------------------------------------------------
(* Sampling over processes and beelines *)

\* What sampling decides for a span.
Kept(s) == ShouldSample(spans[s].hash, beelines[spans[s].bl])

\* The decisions that are on record are those that would be taken again: neither the hash
\* of the trace nor the rate of the beeline of a span ever changes.
SampleInv ==
  /\ \A s \in dropped : ~ Kept(s)
  /\ \A s \in owed : Kept(s)

\* A span that was made stays as it is.
LEMMA SpanStays ==
  ASSUME TypeInv, [LifecycleNext]_lvars, NEW s \in 1..Len(spans)
  PROVE  spans'[s] = spans[s]
  <1>1. ASSUME NEW p \in Procs, NEW t \in Threads, StartSpanUse(p, t)
        PROVE  spans'[s] = spans[s]
    <2>1. PICK x : spans' = Append(spans, x)
      BY <1>1 DEF StartSpanUse
    <2> QED
      BY <2>1, Lengths DEF TypeInv, WorkOK
  <1>2. ASSUME NEW p \in Procs, NEW t \in Threads, ThreadStep(p, t), ~ StartSpanUse(p, t)
        PROVE  UNCHANGED spans
    BY <1>2 DEF ThreadStep, InitCheck, InitMake, InitStamp, Close, Stopped, Clear, StartSpan, FinishSpan,
                FinishSpanUse, Flush, FlushUse, Fork, work
  <1>3. ASSUME NEW p \in Procs, Transmit(p)
        PROVE  UNCHANGED spans
    BY <1>3 DEF Transmit, Deliver
  <1> QED
    BY <1>1, <1>2, <1>3 DEF LifecycleNext, lvars, work

\* The decision on a span stays what it is.
LEMMA KeptStays ==
  ASSUME TypeInv, [LifecycleNext]_lvars, NEW s \in 1..Len(spans)
  PROVE  Kept(s)' <=> Kept(s)
  <1>1. /\ MemoryOK /\ WorkOK /\ Len(beelines) \in Nat /\ Len(spans) \in Nat
        /\ spans[s].bl \in 1..Len(beelines) /\ DOMAIN spans = 1..Len(spans)
    BY Lengths, SpanParts DEF TypeInv
  <1>2. spans'[s] = spans[s]
    BY SpanStays
  <1>3. \A b \in 1..Len(beelines) : beelines'[b] = beelines[b]
    <2>1. ASSUME NEW p \in Procs, NEW t \in Threads, NEW r \in Rates, InitMake(p, t, r)
          PROVE  \A b \in 1..Len(beelines) : beelines'[b] = beelines[b]
      BY <1>1, <2>1, AppendTo DEF InitMake, MemoryOK
    <2>2. ASSUME NEW p \in Procs, NEW t \in Threads, ThreadStep(p, t), ~ \E r \in Rates : InitMake(p, t, r)
          PROVE  UNCHANGED beelines
      BY <2>2 DEF ThreadStep, InitCheck, InitStamp, Close, Stopped, Clear, StartSpan, StartSpanUse, FinishSpan,
                  FinishSpanUse, Flush, FlushUse, Fork, memory
    <2>3. ASSUME NEW p \in Procs, Transmit(p)
          PROVE  UNCHANGED beelines
      BY <2>3 DEF Transmit, Deliver, memory
    <2> QED
      BY <2>1, <2>2, <2>3 DEF LifecycleNext, lvars, memory
  <1> QED
    BY <1>1, <1>2, <1>3 DEF Kept

\* A span gets on record by the decision that is taken for it.
LEMMA SampleInvStep ==
  ASSUME TypeInv, SampleInv, [LifecycleNext]_lvars
  PROVE  SampleInv'
  <1>1. dropped \subseteq 1..Len(spans) /\ owed \subseteq 1..Len(spans)
    BY DEF TypeInv, WorkOK
  <1>2. /\ \A s \in dropped : ~ Kept(s)'
        /\ \A s \in owed : Kept(s)'
    BY <1>1, KeptStays DEF SampleInv
  <1>3. ASSUME NEW p \in Procs, NEW t \in Threads, FinishSpanUse(p, t)
        PROVE  SampleInv'
    <2>1. PICK s \in 1..Len(spans) : s = at[p][t].on
      BY <1>3 DEF FinishSpanUse, Here, TypeInv, AtOK, WorkOK
    <2>2. Kept(s)' <=> Kept(s)
      BY <2>1, KeptStays
    <2>3. /\ dropped' = IF Kept(s) THEN dropped ELSE dropped \cup {s}
          /\ owed' = IF Kept(s) /\ <<p, s>> \in sure THEN owed \cup {s} ELSE owed
      BY <1>3, <2>1 DEF FinishSpanUse, Kept
    <2> QED
      BY <1>2, <2>2, <2>3 DEF SampleInv
  <1>4. ASSUME NEW p \in Procs, NEW t \in Threads, ThreadStep(p, t), ~ FinishSpanUse(p, t)
        PROVE  UNCHANGED <<dropped, owed>>
    BY <1>4 DEF ThreadStep, InitCheck, InitMake, InitStamp, Close, Stopped, Clear, StartSpan, StartSpanUse,
                FinishSpan, Flush, FlushUse, Fork, work
  <1>5. ASSUME NEW p \in Procs, Transmit(p)
        PROVE  UNCHANGED <<dropped, owed>>
    BY <1>5 DEF Transmit, Deliver
  <1>6. UNCHANGED <<dropped, owed>> => SampleInv'
    BY <1>2 DEF SampleInv
  <1> QED
    BY <1>3, <1>4, <1>5, <1>6 DEF LifecycleNext, lvars, work

\* Where the decisions nest, the records of them do.
LEMMA RecordsNest == TypeInv /\ SampleInv => TracesWhole
  <1> SUFFICES ASSUME TypeInv, SampleInv, NEW s \in dropped, NEW u \in owed,
                      spans[s].hash = spans[u].hash,
                      ~ (beelines[spans[s].bl] > beelines[spans[u].bl])
               PROVE  FALSE
    BY DEF TracesWhole
  <1> DEFINE hash == spans[s].hash
             low == beelines[spans[s].bl]
             high == beelines[spans[u].bl]
  <1>1. s \in 1..Len(spans) /\ u \in 1..Len(spans) /\ WorkOK /\ beelines \in Seq(Rates)
    BY DEF TypeInv, WorkOK, MemoryOK
  <1>2. hash \in TraceHash /\ spans[s].bl \in 1..Len(beelines) /\ spans[u].bl \in 1..Len(beelines)
    BY <1>1, SpanParts
  <1>3. low \in Nat \ {0} /\ high \in Nat \ {0}
    <2>1. low \in Rates /\ high \in Rates
      BY <1>1, <1>2, ElementOfSeq
    <2> HIDE DEF low, high
    <2> QED
      BY <2>1, LifecycleAssumption
  <1>4. hash \in Nat
    <2>1. hash \in 0..MAX_INT32
      BY <1>2, LifecycleAssumption
    <2> HIDE DEF hash
    <2> QED
      BY <2>1
  <1>5. ~ ShouldSample(hash, low) /\ ShouldSample(hash, high)
    BY DEF SampleInv, Kept
  <1>6. low <= high
    BY <1>3
  <1>7. Nested(hash, low, high)
    BY <1>3, <1>4, SamplingNests
  <1> QED
    BY <1>5, <1>6, <1>7 DEF Nested

\* Whatever beelines are made, closed and inherited by forks: a trace of which one span was
\* dropped has owed spans only where a lower rate was set.
THEOREM TracesWholeCorrect == LifecycleSpec => []TracesWhole
  <1>1. LifecycleInit => SampleInv
    BY DEF LifecycleInit, SampleInv
  <1>2. TypeInv /\ SampleInv /\ [LifecycleNext]_lvars => SampleInv'
    BY SampleInvStep
  <1> QED
    BY <1>1, <1>2, TypeInvCorrect, RecordsNest, PTL DEF LifecycleSpec

-----------------------------------------------------------------------------
(* The beeline of a process and its connection *)

\* Where a thread may be that does not initialise or close.
InCall == {"idle", "start", "finish", "flush"}

NoSender(p) == \A c \in 1..MaxBeelines : <<p, c>> \notin senders

Works(p) ==
  /\ gbl[p] # None /\ client[p][gbl[p]] = "open" /\ <<p, gbl[p]>> \in senders
  /\ \A c \in 1..MaxBeelines : <<p, c>> \in senders => c = gbl[p]

\* At every place of init and close: which transmission threads run in the process.
ConnOK(p) ==
  /\ Main \notin threads[p] => initpid[p] # p /\ p \notin ready
  /\ p \in ready => at[p][Main].op \in InCall /\ gbl[p] # None /\ initpid[p] = p
  /\ at[p][Main].op \in InCall =>
       IF gbl[p] # None /\ initpid[p] = p THEN Works(p) ELSE NoSender(p)
  /\ at[p][Main].op \in {"make", "clear", "stop_old"} => NoSender(p)
  /\ at[p][Main].op = "stop" => \A c \in 1..MaxBeelines : <<p, c>> \in senders => c = at[p][Main].on
  /\ at[p][Main].op = "stamp" => Works(p)

\* A process that was not there yet has stamped nothing.
Fresh == \A p, q \in Procs : threads[p] = {} => initpid[q] # p

\* One thread of a process calls init and close.
OnlyMain == \A p \in Procs, t \in Threads : t # Main => at[p][t].op \in InCall

ConnInv == Fresh /\ OnlyMain /\ \A p \in Procs : ConnOK(p)

\* No process has a connection before the first init.
LEMMA ConnInit == LifecycleInit => ConnInv
  <1> SUFFICES ASSUME LifecycleInit PROVE ConnInv
    OBVIOUS
  <1>1. /\ \A p \in Procs : p # None
        /\ Main \in Threads /\ Parent \in Procs
    BY LifecycleAssumption DEF None
  <1>2. /\ \A p \in Procs : gbl[p] = None /\ initpid[p] = None
        /\ \A p \in Procs, t \in Threads : at[p][t].op = "idle"
        /\ senders = {} /\ ready = {}
    BY DEF LifecycleInit, Idle
  <1> QED
    BY <1>1, <1>2 DEF ConnInv, Fresh, OnlyMain, ConnOK, InCall, NoSender

\* What a process has is not touched.
LEMMA ConnFrame ==
  ASSUME NEW x \in Procs, ConnOK(x), gbl'[x] = gbl[x], initpid'[x] = initpid[x], client'[x] = client[x],
         threads'[x] = threads[x], x \in ready' <=> x \in ready,
         \A c \in 1..MaxBeelines : <<x, c>> \in senders' <=> <<x, c>> \in senders,
         <<x, gbl[x]>> \in senders' <=> <<x, gbl[x]>> \in senders,
         \/ at'[x][Main] = at[x][Main]
         \/ at'[x][Main].op \in InCall /\ at[x][Main].op \in InCall
  PROVE  ConnOK(x)'
  <1>1. Works(x)' <=> Works(x)
    BY DEF Works
  <1>2. NoSender(x)' <=> NoSender(x)
    BY DEF NoSender
  <1>3. at'[x][Main].op \in InCall /\ at[x][Main].op \in InCall => ConnOK(x)'
    BY <1>1, <1>2 DEF ConnOK, InCall
  <1>4. at'[x][Main] = at[x][Main] => ConnOK(x)'
    BY <1>1, <1>2 DEF ConnOK
  <1> QED
    BY <1>3, <1>4

\* A thread other than the one that initialises moves, or that one within a call.
LEMMA CallMoves ==
  ASSUME TypeInv, ConnInv, NEW p \in Procs, NEW t \in Threads, UNCHANGED memory, UNCHANGED ready,
         at[p][t].op \in InCall, NEW r \in AtSet, r.op \in InCall, at' = at \/ at' = [at EXCEPT ![p][t] = r]
  PROVE  ConnInv'
  <1>1. at \in [Procs -> [Threads -> AtSet]] /\ Main \in Threads
    BY LifecycleAssumption DEF TypeInv, AtOK
  <1>2. ASSUME NEW q \in Procs, NEW u \in Threads
        PROVE  at'[q][u] = at[q][u] \/ (at'[q][u].op \in InCall /\ at[q][u].op \in InCall)
    <2>1. CASE at' = at
      BY <2>1
    <2>2. CASE at' = [at EXCEPT ![p][t] = r] /\ q = p /\ u = t
      <3>1. at'[p][t] = r
        BY <1>1, <2>2
      <3> QED
        BY <2>2, <3>1
    <2>3. CASE at' = [at EXCEPT ![p][t] = r] /\ (q # p \/ u # t)
      BY <1>1, <2>3
    <2> QED
      BY <2>1, <2>2, <2>3
  <1>3. ASSUME NEW x \in Procs PROVE ConnOK(x)'
    BY <1>1, <1>2, ConnFrame DEF ConnInv, memory
  <1> QED
    BY <1>1, <1>2, <1>3 DEF ConnInv, Fresh, OnlyMain, memory

\* A step of init or close in one process leaves the other processes alone.
LEMMA MainMoves ==
  ASSUME TypeInv, ConnInv, NEW p \in Procs, UNCHANGED threads, Fresh',
         \A q \in Procs : q # p => /\ gbl'[q] = gbl[q] /\ client'[q] = client[q] /\ initpid'[q] = initpid[q]
                                   /\ at'[q] = at[q]
                                   /\ (q \in ready' <=> q \in ready)
                                   /\ \A c : <<q, c>> \in senders' <=> <<q, c>> \in senders,
         \A t \in Threads : t # Main => at'[p][t].op = at[p][t].op,
         ConnOK(p)'
  PROVE  ConnInv'
  <1>1. ASSUME NEW x \in Procs, x # p PROVE ConnOK(x)'
    BY <1>1, ConnFrame DEF ConnInv
  <1>2. OnlyMain'
    BY DEF ConnInv, OnlyMain
  <1> QED
    BY <1>1, <1>2 DEF ConnInv

\* Step by step through init, close and fork.
LEMMA ConnStep ==
  ASSUME TypeInv, ConnInv, [LifecycleNext]_lvars
  PROVE  ConnInv'
  <1> USE DEF Here
  <1>1. /\ MemoryOK /\ AtOK /\ WorkOK /\ Len(beelines) \in Nat /\ Main \in Threads
        /\ \A q \in Procs : q # None
        /\ Fresh /\ OnlyMain /\ \A q \in Procs : ConnOK(q)
        /\ MaxBeelines \in Nat /\ Len(beelines) <= MaxBeelines
    BY Lengths, LifecycleAssumption DEF TypeInv, ConnInv, None, MemoryOK
  <1>2. ASSUME NEW p \in Procs, NEW t \in Threads, NEW op \in InCall, NEW on \in Nat,
               Goto(p, t, op, on), at[p][t].op \in InCall, UNCHANGED memory, UNCHANGED ready
        PROVE  ConnInv'
    <2> DEFINE r == [op |-> op, on |-> on, sure |-> op = "start" /\ p \in ready]
    <2>1. r \in AtSet /\ r.op \in InCall
      BY <1>2 DEF AtSet, Ops, InCall
    <2>2. at' = [at EXCEPT ![p][t] = r]
      BY <1>2 DEF Goto
    <2> HIDE DEF r
    <2> QED
      BY <1>2, <2>1, <2>2, CallMoves
  <1>3. ASSUME NEW p \in Procs, NEW t \in Threads,
               Return(p, t), at[p][t].op \in InCall, UNCHANGED memory, UNCHANGED ready
        PROVE  ConnInv'
    <2>1. Idle.op \in InCall /\ Idle \in AtSet
      BY DEF Idle, InCall, AtSet, Ops, None
    <2> QED
      BY <1>3, <2>1, CallMoves DEF Return
  <1>4. ASSUME NEW p \in Procs, NEW t \in Threads, StartSpan(p, t) \/ Flush(p, t)
        PROVE  ConnInv'
    <2>1. /\ UNCHANGED memory /\ UNCHANGED ready /\ at[p][t].op \in InCall
          /\ Goto(p, t, "start", gbl[p]) \/ Goto(p, t, "flush", None)
      BY <1>4, LifecycleAssumption DEF StartSpan, Flush, Fetch, InCall
    <2>2. gbl[p] \in Nat /\ None \in Nat
      BY <1>1 DEF MemoryOK, None
    <2> QED
      BY <1>2, <2>1, <2>2, LifecycleAssumption DEF InCall
  <1>5. ASSUME NEW p \in Procs, NEW t \in Threads, StartSpanUse(p, t) \/ FinishSpanUse(p, t) \/ FlushUse(p, t)
        PROVE  ConnInv'
    <2>1. /\ UNCHANGED memory /\ UNCHANGED ready /\ at[p][t].op \in InCall
          /\ Return(p, t)
      BY <1>5, LifecycleAssumption DEF StartSpanUse, FinishSpanUse, FlushUse, InCall
    <2> QED
      BY <1>3, <2>1
  <1>6. ASSUME UNCHANGED <<memory, at, ready>>
        PROVE  ConnInv'
    <2>1. ASSUME NEW x \in Procs PROVE ConnOK(x)'
      BY <1>1, <1>6, ConnFrame DEF memory
    <2> QED
      BY <1>1, <1>6, <2>1 DEF ConnInv, Fresh, OnlyMain, memory
  <1>7. ASSUME NEW p \in Procs, NEW t \in Threads, NEW s \in DOMAIN spans, FinishSpan(p, t, s)
        PROVE  ConnInv'
    <2>1. UNCHANGED memory /\ UNCHANGED ready /\ at[p][t].op \in InCall
      BY <1>7 DEF FinishSpan, Fetch, InCall
    <2>2. (Goto(p, t, "finish", s) \/ UNCHANGED <<memory, at, ready>>) /\ s \in Nat
      BY <1>1, <1>7, <2>1, Lengths DEF FinishSpan, Fetch
    <2> QED
      BY <1>2, <1>6, <2>1, <2>2 DEF InCall
  <1>8. ASSUME NEW p \in Procs, NEW t \in Threads, InitCheck(p, t)
        PROVE  ConnInv'
    <2>1. /\ t = Main /\ Main \in threads[p] /\ at[p][Main].op = "idle" /\ ConnOK(p)
          /\ UNCHANGED <<threads, gbl, initpid, beelines, senders>>
      BY <1>1, <1>8 DEF InitCheck
    <2>2. at \in [Procs -> [Threads -> AtSet]] /\ ready \subseteq Procs /\ client \in [Procs -> ClientSet]
      BY <1>1 DEF AtOK, MemoryOK
    <2>3. Fresh'
      BY <1>1, <2>1 DEF Fresh
    <2>4. CASE gbl[p] = None /\ Goto(p, t, "make", None) /\ UNCHANGED <<client, ready>>
      <3>1. /\ at'[p][Main].op = "make" /\ \A q \in Procs : q # p => at'[q] = at[q]
            /\ \A u \in Threads : u # Main => at'[p][u] = at[p][u]
        BY <1>1, <2>1, <2>2, <2>4 DEF Goto
      <3>2. NoSender(p) /\ p \notin ready
        BY <2>1, <2>4 DEF ConnOK, InCall
      <3>3. ConnOK(p)'
        BY <2>1, <2>4, <3>1, <3>2 DEF ConnOK, InCall, NoSender
      <3> QED
        BY <2>1, <2>3, <2>4, <3>1, <3>3, MainMoves
    <2>5. CASE gbl[p] # None /\ initpid[p] = p /\ ready' = ready \cup {p} /\ UNCHANGED <<client, at>>
      <3>1. Works(p)
        BY <2>1, <2>5 DEF ConnOK, InCall
      <3>2. ConnOK(p)'
        BY <2>1, <2>5, <3>1 DEF ConnOK, InCall, Works
      <3>3. \A q \in Procs : q # p => (q \in ready' <=> q \in ready)
        BY <2>5
      <3> QED
        BY <2>1, <2>3, <2>5, <3>2, <3>3, MainMoves
    <2>6. CASE /\ gbl[p] # None /\ initpid[p] # p /\ Goto(p, t, "stop_old", gbl[p]) /\ UNCHANGED ready
               /\ client' = [client EXCEPT ![p][gbl[p]] = "closing"]
      <3>1. /\ at'[p][Main].op = "stop_old" /\ \A q \in Procs : q # p => at'[q] = at[q]
            /\ \A u \in Threads : u # Main => at'[p][u] = at[p][u]
        BY <1>1, <2>1, <2>2, <2>6 DEF Goto
      <3>2. \A q \in Procs : q # p => client'[q] = client[q]
        BY <2>2, <2>6
      <3>3. NoSender(p) /\ p \notin ready
        BY <2>1, <2>6 DEF ConnOK, InCall
      <3>4. ConnOK(p)'
        BY <2>1, <2>6, <3>1, <3>3 DEF ConnOK, InCall, NoSender
      <3> QED
        BY <2>1, <2>3, <2>6, <3>1, <3>2, <3>4, MainMoves
    <2> QED
      BY <1>8, <2>4, <2>5, <2>6 DEF InitCheck
  <1>9. ASSUME NEW p \in Procs, NEW t \in Threads, NEW r \in Rates, InitMake(p, t, r)
        PROVE  ConnInv'
    <2> DEFINE b == Len(beelines) + 1
    <2>1. /\ t \in threads[p] /\ at[p][t].op = "make" /\ UNCHANGED <<threads, initpid, ready>>
          /\ b \in 1..MaxBeelines /\ b # None
      BY <1>1, <1>9 DEF InitMake, None
    <2>2. t = Main /\ ConnOK(p) /\ NoSender(p) /\ p \notin ready
      BY <1>1, <2>1 DEF OnlyMain, ConnOK, InCall
    <2>3. /\ at \in [Procs -> [Threads -> AtSet]] /\ client \in [Procs -> ClientSet]
          /\ gbl \in [Procs -> 0..Len(beelines)]
      BY <1>1 DEF AtOK, MemoryOK
    <2>4. Fresh'
      BY <1>1, <2>1 DEF Fresh
    <2>5. /\ at'[p][Main].op = "stamp" /\ \A q \in Procs : q # p => at'[q] = at[q]
          /\ \A u \in Threads : u # Main => at'[p][u] = at[p][u]
      BY <1>1, <1>9, <2>2, <2>3 DEF InitMake, Goto
    <2>6. /\ client'[p][b] = "open" /\ \A q \in Procs : q # p => client'[q] = client[q]
          /\ gbl'[p] = b /\ \A q \in Procs : q # p => gbl'[q] = gbl[q]
      BY <1>9, <2>1, <2>3 DEF InitMake, ClientSet
    <2>7. senders' = senders \cup {<<p, b>>}
      BY <1>9 DEF InitMake
    <2> HIDE DEF b
    <2>8. Works(p)'
      BY <2>1, <2>2, <2>6, <2>7 DEF Works, NoSender
    <2>9. ConnOK(p)'
      BY <2>1, <2>2, <2>5, <2>8 DEF ConnOK, InCall
    <2> QED
      BY <2>1, <2>4, <2>5, <2>6, <2>7, <2>9, MainMoves
  <1>10. ASSUME NEW p \in Procs, NEW t \in Threads, InitStamp(p, t)
         PROVE  ConnInv'
    <2>1. /\ t \in threads[p] /\ at[p][t].op = "stamp" /\ UNCHANGED <<threads, gbl, client, senders>>
          /\ ready' = ready \cup {p}
      BY <1>10 DEF InitStamp
    <2>2. t = Main /\ ConnOK(p) /\ Works(p)
      BY <1>1, <2>1 DEF OnlyMain, ConnOK, InCall
    <2>3. at \in [Procs -> [Threads -> AtSet]] /\ initpid \in [Procs -> Procs \cup {None}]
      BY <1>1 DEF AtOK, MemoryOK
    <2>4. initpid'[p] = p /\ \A q \in Procs : q # p => initpid'[q] = initpid[q]
      BY <1>10, <2>3 DEF InitStamp
    <2>5. Fresh'
      BY <1>1, <2>1, <2>4 DEF Fresh
    <2>6. /\ at'[p][Main].op = "idle" /\ \A q \in Procs : q # p => at'[q] = at[q]
          /\ \A u \in Threads : u # Main => at'[p][u] = at[p][u]
      BY <1>1, <1>10, <2>2, <2>3 DEF InitStamp, Return, Idle
    <2>7. Works(p)' /\ gbl'[p] # None
      BY <2>1, <2>2 DEF Works
    <2>8. ConnOK(p)'
      BY <2>1, <2>2, <2>4, <2>6, <2>7 DEF ConnOK, InCall
    <2> QED
      BY <2>1, <2>4, <2>5, <2>6, <2>8, MainMoves
  <1>11. ASSUME NEW p \in Procs, NEW t \in Threads, Close(p, t)
         PROVE  ConnInv'
    <2>1. /\ t = Main /\ Main \in threads[p] /\ at[p][Main].op = "idle" /\ ConnOK(p)
          /\ UNCHANGED <<threads, gbl, initpid, beelines, senders>>
          /\ gbl[p] # None /\ ready' = ready \ {p}
      BY <1>1, <1>11 DEF Close, Revoke
    <2>2. at \in [Procs -> [Threads -> AtSet]] /\ client \in [Procs -> ClientSet]
      BY <1>1 DEF AtOK, MemoryOK
    <2>3. Fresh'
      BY <1>1, <2>1 DEF Fresh
    <2> DEFINE row == [u \in Threads |->
                 IF u = t THEN [op |-> "stop", on |-> gbl[p], sure |-> FALSE]
                 ELSE [at[p][u] EXCEPT !.sure = FALSE]]
    <2>4. at' = [at EXCEPT ![p] = row]
      BY <1>11, <2>2 DEF Close
    <2>5. \A u \in Threads : u # Main => row[u].op = at[p][u].op
      <3>1. \A r \in AtSet : [r EXCEPT !.sure = FALSE].op = r.op
        BY DEF AtSet
      <3> QED
        BY <2>1, <2>2, <3>1
    <2>6. row[Main].op = "stop" /\ row[Main].on = gbl[p]
      BY <1>1, <2>1
    <2> HIDE DEF row
    <2>7. at'[p] = row /\ \A q \in Procs : q # p => at'[q] = at[q]
      BY <2>2, <2>4
    <2>8. \A q \in Procs : q # p => client'[q] = client[q]
      BY <1>11, <2>2 DEF Close
    <2>9. \A c \in 1..MaxBeelines : <<p, c>> \in senders => c = gbl[p]
      BY <2>1 DEF ConnOK, InCall, Works, NoSender
    <2>10. ConnOK(p)'
      BY <2>1, <2>6, <2>7, <2>9 DEF ConnOK, InCall
    <2>11. \A q \in Procs : q # p => (q \in ready' <=> q \in ready)
      BY <2>1
    <2> QED
      BY <2>1, <2>3, <2>5, <2>7, <2>8, <2>10, <2>11, MainMoves
  <1>12. ASSUME NEW p \in Procs, NEW t \in Threads, Stopped(p, t)
         PROVE  ConnInv'
    <2> DEFINE b == at[p][t].on
    <2>1. /\ t \in threads[p] /\ at[p][t].op \in {"stop", "stop_old"} /\ UNCHANGED <<threads, gbl, initpid, ready>>
          /\ senders' = senders \ {<<p, b>>}
      BY <1>12 DEF Stopped
    <2>2. t = Main /\ ConnOK(p) /\ p \notin ready
      BY <1>1, <2>1 DEF OnlyMain, ConnOK, InCall
    <2>3. at \in [Procs -> [Threads -> AtSet]] /\ client \in [Procs -> ClientSet]
      BY <1>1 DEF AtOK, MemoryOK
    <2>4. Fresh'
      BY <1>1, <2>1 DEF Fresh
    <2>5. /\ at'[p][Main].op \in {"clear", "make"} /\ \A q \in Procs : q # p => at'[q] = at[q]
          /\ \A u \in Threads : u # Main => at'[p][u] = at[p][u]
      BY <1>1, <1>12, <2>2, <2>3 DEF Stopped, Goto
    <2>6. \A q \in Procs : q # p => client'[q] = client[q]
      BY <1>12, <2>3 DEF Stopped
    <2>7. NoSender(p)'
      BY <2>1, <2>2 DEF NoSender, ConnOK
    <2>8. ConnOK(p)'
      BY <2>1, <2>2, <2>5, <2>7 DEF ConnOK, InCall
    <2> QED
      BY <2>1, <2>4, <2>5, <2>6, <2>8, MainMoves
  <1>13. ASSUME NEW p \in Procs, NEW t \in Threads, Clear(p, t)
         PROVE  ConnInv'
    <2>1. /\ t \in threads[p] /\ at[p][t].op = "clear" /\ UNCHANGED <<threads, initpid, client, senders, ready>>
      BY <1>13 DEF Clear
    <2>2. t = Main /\ ConnOK(p) /\ NoSender(p) /\ p \notin ready
      BY <1>1, <2>1 DEF OnlyMain, ConnOK, InCall
    <2>3. at \in [Procs -> [Threads -> AtSet]] /\ gbl \in [Procs -> 0..Len(beelines)]
      BY <1>1 DEF AtOK, MemoryOK
    <2>4. Fresh'
      BY <1>1, <2>1 DEF Fresh
    <2>5. /\ at'[p][Main].op = "idle" /\ \A q \in Procs : q # p => at'[q] = at[q]
          /\ \A u \in Threads : u # Main => at'[p][u] = at[p][u]
      BY <1>1, <1>13, <2>2, <2>3 DEF Clear, Return, Idle
    <2>6. gbl'[p] = None /\ \A q \in Procs : q # p => gbl'[q] = gbl[q]
      BY <1>13, <2>3 DEF Clear
    <2>7. ConnOK(p)'
      BY <2>1, <2>2, <2>5, <2>6 DEF ConnOK, InCall, NoSender
    <2> QED
      BY <2>1, <2>4, <2>5, <2>6, <2>7, MainMoves
  <1>14. ASSUME NEW p \in Procs, NEW t \in Threads, NEW q \in Procs, Fork(p, t, q)
         PROVE  ConnInv'
    <2>1. /\ threads[q] = {} /\ threads' = [threads EXCEPT ![q] = {t}] /\ initpid' = [initpid EXCEPT ![q] = initpid[p]]
          /\ gbl' = [gbl EXCEPT ![q] = gbl[p]] /\ client' = [client EXCEPT ![q] = client[p]]
          /\ UNCHANGED <<at, ready, senders, beelines>>
      BY <1>14 DEF Fork
    <2>2. /\ threads \in [Procs -> SUBSET Threads] /\ initpid \in [Procs -> Procs \cup {None}]
          /\ gbl \in [Procs -> 0..Len(beelines)] /\ client \in [Procs -> ClientSet]
      BY <1>1 DEF MemoryOK
    <2>3. \A x \in Procs : x # q => /\ threads'[x] = threads[x] /\ initpid'[x] = initpid[x]
                                   /\ gbl'[x] = gbl[x] /\ client'[x] = client[x]
      BY <2>1, <2>2
    <2>4. threads'[q] = {t} /\ initpid'[q] = initpid[p]
      BY <2>1, <2>2
    <2>5. Fresh'
      BY <1>1, <2>3, <2>4 DEF Fresh
    <2>6. initpid[q] # q /\ initpid'[q] # q /\ q \notin ready
      BY <1>1, <2>1, <2>4 DEF Fresh, ConnOK
    <2>7. at[q][Main].op = "idle"
      BY <1>1, <2>1 DEF AtOK
    <2>8. NoSender(q)
      BY <1>1, <2>6, <2>7 DEF ConnOK, InCall
    <2>9. ConnOK(q)'
      BY <2>1, <2>6, <2>7, <2>8 DEF ConnOK, InCall, NoSender
    <2>10. ASSUME NEW x \in Procs, x # q PROVE ConnOK(x)'
      BY <1>1, <2>1, <2>3, <2>10, ConnFrame
    <2>11. OnlyMain'
      BY <1>1, <2>1 DEF OnlyMain
    <2> QED
      BY <2>5, <2>9, <2>10, <2>11 DEF ConnInv
  <1>15. ASSUME NEW p \in Procs, Transmit(p)
         PROVE  ConnInv'
    <2>1. UNCHANGED <<memory, at, ready>>
      BY <1>15 DEF Transmit, Deliver
    <2> QED
      BY <1>6, <2>1
  <1>16. CASE UNCHANGED lvars
    BY <1>6, <1>16 DEF lvars
  <1> QED
    BY <1>4, <1>5, <1>7, <1>8, <1>9, <1>10, <1>11, <1>12, <1>13, <1>14, <1>15, <1>16
       DEF LifecycleNext, ThreadStep

\* The connection invariant says more of a process where init has returned.
LEMMA ReadyWorks == TypeInv /\ ConnInv => InitWorks
  <1> SUFFICES ASSUME TypeInv, ConnInv, NEW p \in ready
               PROVE  /\ gbl[p] # None /\ client[p][gbl[p]] = "open"
                      /\ {b \in 1..Len(beelines) : <<p, b>> \in senders} = {gbl[p]}
    BY DEF InitWorks
  <1>1. /\ p \in Procs /\ gbl[p] \in 0..Len(beelines) /\ Len(beelines) \in Nat
        /\ Len(beelines) <= MaxBeelines /\ MaxBeelines \in Nat
    BY Lengths, LifecycleAssumption DEF TypeInv, MemoryOK
  <1>2. gbl[p] # None /\ Works(p)
    BY <1>1 DEF ConnInv, ConnOK
  <1>3. gbl[p] \in 1..Len(beelines) /\ 1..Len(beelines) \subseteq 1..MaxBeelines
    BY <1>1, <1>2 DEF None
  <1> QED
    BY <1>2, <1>3 DEF Works

\* Once init has returned and until close is called, a process has a beeline that it made
\* itself, with an open client, and one transmission thread, that of this client: whoever
\* forked it, however far init or close had come in its parent.
THEOREM InitWorksCorrect == LifecycleSpec => []InitWorks
  <1>1. LifecycleInit => ConnInv
    BY ConnInit
  <1>2. TypeInv /\ ConnInv /\ [LifecycleNext]_lvars => ConnInv'
    BY ConnStep
  <1> QED
    BY <1>1, <1>2, TypeInvCorrect, ReadyWorks, PTL DEF LifecycleSpec

-----------------------------------------------------------------------------
(* Where the event of a span is *)

\* Where a process has the transmission thread of a span, the span is open in one of its
\* threads, or queued, or delivered, and not at two of these places.
PlaceOK(p, s) ==
  <<p, spans[s].bl>> \in senders =>
    /\ \A t, u \in Threads : s \in open[p][t] /\ s \in open[p][u] => t = u
    /\ <<p, s>> \in queue => \A t \in Threads : s \notin open[p][t]
    /\ delivered[s] >= 1 => <<p, s>> \notin queue /\ \A t \in Threads : s \notin open[p][t]

\* Only the process that made a beeline transmits for it: a fork copies events, not threads.
OneSender == \A x, y \in senders : x[2] = y[2] => x[1] = y[1]
SenderRuns == \A x \in senders : threads[x[1]] # {}

PlaceInv ==
  /\ OneSender /\ SenderRuns /\ DeliveredOnce
  /\ \A p \in Procs, s \in 1..Len(spans) : PlaceOK(p, s)

\* No event is anywhere before the first span.
LEMMA PlaceInit == LifecycleInit => PlaceInv
  <1> SUFFICES ASSUME LifecycleInit PROVE PlaceInv
    OBVIOUS
  <1>1. senders = {} /\ spans = << >> /\ Len(spans) = 0 /\ DOMAIN spans = {}
    BY DEF LifecycleInit
  <1> QED
    BY <1>1 DEF PlaceInv, OneSender, SenderRuns, DeliveredOnce, PlaceOK

\* What a process has of a span does not grow.
LEMMA PlaceFrame ==
  ASSUME NEW p \in Procs, NEW s, PlaceOK(p, s), spans'[s] = spans[s], delivered'[s] = delivered[s],
         <<p, spans[s].bl>> \in senders' => <<p, spans[s].bl>> \in senders,
         \A t \in Threads : s \in open'[p][t] => s \in open[p][t],
         <<p, s>> \in queue' => <<p, s>> \in queue
  PROVE  PlaceOK(p, s)'
  <1>1. CASE <<p, spans[s].bl>> \in senders'
    BY <1>1 DEF PlaceOK
  <1>2. CASE <<p, spans[s].bl>> \notin senders'
    BY <1>2 DEF PlaceOK
  <1> QED
    BY <1>1, <1>2

\* A step that makes no span and no transmission thread, and moves no event forward.
LEMMA PlacesShrink ==
  ASSUME TypeInv, PlaceInv, UNCHANGED <<spans, delivered>>, senders' \subseteq senders,
         \A p \in Procs : threads[p] # {} => threads'[p] # {},
         \A p \in Procs : threads[p] # {} =>
           /\ \A t \in Threads : open'[p][t] \subseteq open[p][t]
           /\ \A s \in 1..Len(spans) : <<p, s>> \in queue' => <<p, s>> \in queue
  PROVE  PlaceInv'
  <1>1. senders \subseteq Procs \X (1..Len(beelines))
    BY DEF TypeInv, MemoryOK
  <1>2. OneSender' /\ SenderRuns'
    BY <1>1 DEF PlaceInv, OneSender, SenderRuns
  <1>3. DeliveredOnce'
    BY DEF PlaceInv, DeliveredOnce
  <1>4. ASSUME NEW p \in Procs, NEW s \in 1..Len(spans)
        PROVE  PlaceOK(p, s)'
    <2>1. CASE threads[p] = {}
      <3>1. <<p, spans[s].bl>> \notin senders'
        BY <2>1 DEF PlaceInv, SenderRuns
      <3> QED
        BY <3>1 DEF PlaceOK
    <2>2. CASE threads[p] # {}
      BY <2>2, PlaceFrame DEF PlaceInv
    <2> QED
      BY <2>1, <2>2
  <1> QED
    BY <1>2, <1>3, <1>4 DEF PlaceInv

\* Every action moves an event forward, or copies it to a process that does not send it.
LEMMA PlaceStep ==
  ASSUME TypeInv, PlaceInv, [LifecycleNext]_lvars
  PROVE  PlaceInv'
  <1> USE DEF Here
  <1>1. /\ MemoryOK /\ WorkOK /\ AtOK /\ Len(beelines) \in Nat /\ Len(spans) \in Nat
        /\ DOMAIN spans = 1..Len(spans)
        /\ \A p \in Procs, s \in 1..Len(spans) : PlaceOK(p, s)
        /\ OneSender /\ SenderRuns /\ DeliveredOnce
    BY Lengths DEF TypeInv, PlaceInv
  <1>2. ASSUME UNCHANGED <<spans, delivered, threads, open, queue>>, senders' \subseteq senders
        PROVE  PlaceInv'
    BY <1>2, PlacesShrink
  <1>3. ASSUME NEW p \in Procs, NEW t \in Threads,
               \/ InitCheck(p, t) \/ InitStamp(p, t) \/ Close(p, t) \/ Stopped(p, t) \/ Clear(p, t)
               \/ StartSpan(p, t) \/ Flush(p, t) \/ FlushUse(p, t)
        PROVE  PlaceInv'
    BY <1>2, <1>3 DEF InitCheck, InitStamp, Close, Stopped, Clear, StartSpan, Flush, FlushUse,
                      memory, work
  <1>4. ASSUME NEW p \in Procs, NEW t \in Threads, NEW r \in Rates, InitMake(p, t, r)
        PROVE  PlaceInv'
    <2>1. /\ senders' = senders \cup {<<p, Len(beelines) + 1>>} /\ t \in threads[p]
          /\ UNCHANGED <<spans, delivered, threads, open, queue>>
      BY <1>4 DEF InitMake, work
    <2>2. \A x \in senders : x[1] \in Procs /\ x[2] \in 1..Len(beelines)
      BY <1>1 DEF MemoryOK
    <2>3. OneSender' /\ SenderRuns'
      BY <1>1, <2>1, <2>2 DEF OneSender, SenderRuns
    <2>4. DeliveredOnce'
      BY <1>1, <2>1 DEF DeliveredOnce
    <2>5. ASSUME NEW q \in Procs, NEW s \in 1..Len(spans) PROVE PlaceOK(q, s)'
      <3>1. spans[s].bl \in 1..Len(beelines) /\ spans[s].bl # Len(beelines) + 1
        BY <1>1, SpanParts
      <3>2. <<q, spans[s].bl>> \in senders' => <<q, spans[s].bl>> \in senders
        BY <2>1, <3>1
      <3> QED
        BY <1>1, <2>1, <3>2, PlaceFrame
    <2> QED
      BY <2>1, <2>3, <2>4, <2>5 DEF PlaceInv
  <1>5. ASSUME NEW p \in Procs, NEW t \in Threads, StartSpanUse(p, t)
        PROVE  PlaceInv'
    <2>0. PICK m \in Nat : m = Len(spans) + 1
      BY <1>1
    <2>1. /\ UNCHANGED <<senders, threads, queue>>
          /\ open' = [open EXCEPT ![p][t] = open[p][t] \cup {m}]
          /\ delivered' = Append(delivered, 0)
      BY <1>5, <2>0 DEF StartSpanUse, memory
    <2>2. PICK x : spans' = Append(spans, x)
      BY <1>5 DEF StartSpanUse
    <2>3. Len(spans') = m /\ DOMAIN spans' = 1..m /\ \A s \in 1..Len(spans) : spans'[s] = spans[s]
      BY <1>1, <2>0, <2>2 DEF WorkOK
    <2>4. delivered'[m] = 0 /\ \A s \in 1..Len(spans) : delivered'[s] = delivered[s]
      BY <1>1, <2>0, <2>1 DEF WorkOK
    <2>5. open \in [Procs -> [Threads -> SUBSET (1..Len(spans))]]
      BY <1>1 DEF WorkOK
    <2>6. /\ open'[p][t] = open[p][t] \cup {m}
          /\ \A q \in Procs, u \in Threads : q # p \/ u # t => open'[q][u] = open[q][u]
      BY <2>1, <2>5
    <2>7. m \notin 1..Len(spans) /\ 1..m = 1..Len(spans) \cup {m}
      BY <1>1, <2>0
    <2>8. \A q \in Procs, u \in Threads : m \in open'[q][u] => q = p /\ u = t
      BY <2>5, <2>6, <2>7
    <2>9. \A q \in Procs : <<q, m>> \notin queue'
      BY <1>1, <2>1, <2>7 DEF WorkOK
    <2>10. ASSUME NEW q \in Procs PROVE PlaceOK(q, m)'
      BY <2>4, <2>8, <2>9 DEF PlaceOK
    <2>11. ASSUME NEW q \in Procs, NEW s \in 1..Len(spans) PROVE PlaceOK(q, s)'
      <3>1. \A u \in Threads : s \in open'[q][u] => s \in open[q][u]
        BY <2>6, <2>7
      <3> QED
        BY <1>1, <2>1, <2>3, <2>4, <3>1, PlaceFrame
    <2>12. DeliveredOnce'
      BY <1>1, <2>3, <2>4, <2>7 DEF DeliveredOnce
    <2>13. OneSender' /\ SenderRuns'
      BY <1>1, <2>1 DEF OneSender, SenderRuns
    <2> QED
      BY <2>3, <2>7, <2>10, <2>11, <2>12, <2>13 DEF PlaceInv
  <1>6. ASSUME NEW p \in Procs, NEW t \in Threads, NEW s \in DOMAIN spans, FinishSpan(p, t, s)
        PROVE  PlaceInv'
    <2>1. UNCHANGED <<spans, delivered, threads, queue, senders>>
      BY <1>6 DEF FinishSpan, memory
    <2>2. \A q \in Procs, u \in Threads : open'[q][u] \subseteq open[q][u]
      <3>1. UNCHANGED open \/ open' = [open EXCEPT ![p][t] = open[p][t] \ {s}]
        BY <1>6 DEF FinishSpan
      <3> QED
        BY <1>1, <3>1 DEF WorkOK
    <2> QED
      BY <2>1, <2>2, PlacesShrink
  <1>7. ASSUME NEW p \in Procs, NEW t \in Threads, FinishSpanUse(p, t)
        PROVE  PlaceInv'
    <2>1. PICK s \in 1..Len(spans) : s = at[p][t].on /\ s \in open[p][t]
      BY <1>1, <1>7 DEF FinishSpanUse, AtOK, WorkOK
    <2>2. /\ UNCHANGED <<spans, delivered, threads, senders>>
          /\ open' = [open EXCEPT ![p][t] = open[p][t] \ {s}]
          /\ queue' = queue \/ queue' = queue \cup {<<p, s>>}
      BY <1>7, <2>1 DEF FinishSpanUse, memory
    <2>3. /\ open'[p][t] = open[p][t] \ {s}
          /\ \A q \in Procs, u \in Threads : q # p \/ u # t => open'[q][u] = open[q][u]
      BY <1>1, <2>2 DEF WorkOK
    <2>4. PlaceOK(p, s)'
      <3>1. CASE <<p, spans[s].bl>> \in senders
        <4>1. /\ \A u \in Threads : s \in open[p][u] => u = t
              /\ ~ (delivered[s] >= 1)
          BY <1>1, <2>1, <3>1 DEF PlaceOK
        <4>2. \A u \in Threads : s \notin open'[p][u]
          BY <2>3, <4>1
        <4> QED
          BY <2>2, <4>1, <4>2 DEF PlaceOK
      <3>2. CASE <<p, spans[s].bl>> \notin senders
        BY <2>2, <3>2 DEF PlaceOK
      <3> QED
        BY <3>1, <3>2
    <2>5. ASSUME NEW q \in Procs, NEW v \in 1..Len(spans), q # p \/ v # s PROVE PlaceOK(q, v)'
      <3>1. \A u \in Threads : v \in open'[q][u] => v \in open[q][u]
        BY <2>3
      <3>2. <<q, v>> \in queue' => <<q, v>> \in queue
        BY <2>2, <2>5
      <3> QED
        BY <1>1, <2>2, <3>1, <3>2, PlaceFrame
    <2>6. OneSender' /\ SenderRuns' /\ DeliveredOnce'
      BY <1>1, <2>2 DEF OneSender, SenderRuns, DeliveredOnce
    <2> QED
      BY <2>2, <2>4, <2>5, <2>6 DEF PlaceInv
  <1>8. ASSUME NEW p \in Procs, NEW t \in Threads, NEW q \in Procs, Fork(p, t, q)
        PROVE  PlaceInv'
    <2>1. /\ threads[q] = {} /\ threads' = [threads EXCEPT ![q] = {t}]
          /\ UNCHANGED <<spans, delivered, senders>>
          /\ queue' = queue \cup {<<q, x[2]>> : x \in {y \in queue : y[1] = p}}
          /\ open' = [open EXCEPT ![q][t] = open[p][t]]
      BY <1>8 DEF Fork
    <2>2. \A x \in Procs : threads[x] # {} => threads'[x] # {}
      BY <1>1, <2>1 DEF MemoryOK
    <2>3. ASSUME NEW x \in Procs, threads[x] # {}
          PROVE  /\ \A u \in Threads : open'[x][u] \subseteq open[x][u]
                 /\ \A s \in 1..Len(spans) : <<x, s>> \in queue' => <<x, s>> \in queue
      <3>1. x # q
        BY <2>1, <2>3
      <3>2. open'[x] = open[x]
        BY <1>1, <2>1, <3>1 DEF WorkOK
      <3> QED
        BY <2>1, <3>1, <3>2
    <2> QED
      BY <2>1, <2>2, <2>3, PlacesShrink
  <1>9. ASSUME NEW p \in Procs, Transmit(p)
        PROVE  PlaceInv'
    <2>1. PICK s \in 1..Len(spans) : Deliver(p, s)
      BY <1>1, <1>9 DEF Transmit
    <2>2. /\ <<p, s>> \in queue /\ <<p, spans[s].bl>> \in senders /\ queue' = queue \ {<<p, s>>}
          /\ delivered' = [delivered EXCEPT ![s] = IF delivered[s] < 2 THEN delivered[s] + 1 ELSE delivered[s]]
          /\ UNCHANGED <<spans, open, senders, threads>>
      BY <2>1 DEF Deliver, memory
    <2>3. delivered \in Seq(0..2) /\ DOMAIN delivered = 1..Len(spans) /\ delivered[s] \in 0..2
      BY <1>1, ElementOfSeq, LenProperties DEF WorkOK
    <2>4. /\ ~ (delivered[s] >= 1)
          /\ \A u \in Threads : s \notin open[p][u]
      BY <1>1, <2>2 DEF PlaceOK
    <2>5. delivered'[s] = 1 /\ \A v \in 1..Len(spans) : v # s => delivered'[v] = delivered[v]
      BY <2>2, <2>3, <2>4
    <2>6. DeliveredOnce'
      BY <1>1, <2>2, <2>5 DEF DeliveredOnce
    <2>7. PlaceOK(p, s)'
      BY <2>2, <2>4 DEF PlaceOK
    <2>8. ASSUME NEW q \in Procs, q # p PROVE PlaceOK(q, s)'
      <3>1. <<q, spans[s].bl>> \notin senders
        BY <1>1, <2>2, <2>8 DEF OneSender
      <3> QED
        BY <2>2, <3>1 DEF PlaceOK
    <2>9. ASSUME NEW q \in Procs, NEW v \in 1..Len(spans), v # s PROVE PlaceOK(q, v)'
      BY <1>1, <2>2, <2>5, <2>9, PlaceFrame
    <2>10. OneSender' /\ SenderRuns'
      BY <1>1, <2>2 DEF OneSender, SenderRuns
    <2> QED
      BY <2>2, <2>6, <2>7, <2>8, <2>9, <2>10 DEF PlaceInv
  <1>10. CASE UNCHANGED lvars
    BY <1>2, <1>10 DEF lvars, memory, work
  <1> QED
    BY <1>3, <1>4, <1>5, <1>6, <1>7, <1>8, <1>9, <1>10 DEF LifecycleNext, ThreadStep

\* The event of a span arrives once at most, although every fork copies the spans that are
\* open and the events that wait, and all copies are finished and sent on.
THEOREM DeliveredOnceCorrect == LifecycleSpec => []DeliveredOnce
  <1>1. LifecycleInit => PlaceInv
    BY PlaceInit
  <1>2. TypeInv /\ PlaceInv /\ [LifecycleNext]_lvars => PlaceInv'
    BY PlaceStep
  <1>3. PlaceInv => DeliveredOnce
    BY DEF PlaceInv
  <1> QED
    BY <1>1, <1>2, <1>3, TypeInvCorrect, PTL DEF LifecycleSpec
=============================================================================
