------------------------------ MODULE Lifecycle -----------------------------
(***************************************************************************)
(* The life of the beeline: init, close and get_beeline of beeline/        *)
(* __init__.py, the module variables _GBL and _INITPID that they share     *)
(* without a lock, and the calls that other threads make meanwhile.        *)
(* One thread calls init and close: two that do it at once can make two    *)
(* clients, or close one twice, and the code does nothing against that.    *)
(* Processes fork: a child has a copy of the memory, queued events and     *)
(* open spans included, and of the threads only the one that forked; the   *)
(* thread that transmits is not among them.                                *)
(*                                                                         *)
(* libhoney is outside this repository and modelled from its use: a Client *)
(* starts a transmission thread, send queues an event, close sends what is *)
(* queued and waits for it, and what is sent to a client that is being     *)
(* closed or is closed is lost.                                            *)
(*                                                                         *)
(* A span is its number; its event belongs to the client of the beeline    *)
(* that made it.  Stacks and contents are the matter of Tracer and         *)
(* TraceFields.  Not modelled: the end of a process, hooks.                *)
(***************************************************************************)
EXTENDS Sampling, Sequences

CONSTANTS
  Procs, Parent,   \* the processes, and the one that is there at the start
  Threads, Main,   \* the threads of a process, and the one that may call init and close
  TraceHash,       \* the hashes of the trace ids
  Rates,           \* the sample rates that init may be given
  MaxBeelines, MaxSpans    \* bounds: the objects made

None == 0

ASSUME LifecycleAssumption ==
  /\ Procs \cap Nat = {} /\ Parent \in Procs /\ Main \in Threads
  /\ TraceHash \subseteq 0..MAX_INT32
  /\ Rates \subseteq Nat \ {0}
  /\ MaxBeelines \in Nat /\ MaxSpans \in Nat

VARIABLES
  threads,    \* threads[p]: the threads that run in process p
  gbl,        \* gbl[p]: _GBL in p
  initpid,    \* initpid[p]: _INITPID in p
  beelines,   \* the Beeline objects: their sample rate
  client,     \* client[p][b]: the state of the client of beeline b in p
  senders,    \* <<p, b>>: the transmission thread of b runs in p
  queue,      \* <<p, s>>: the event of span s waits in p to be sent
  at,         \* at[p][t]: where thread t of p is in the call that it makes
  spans,      \* the Span objects: the hash of their trace and their beeline
  open,       \* open[p][t]: the spans that t has started and not finished
  delivered,  \* delivered[s]: how often the event of s arrived (2: or more)
  dropped,    \* the spans that sampling has dropped
  ready,      \* history: the processes where init has returned and no close begun
  sure,       \* history: <<p, s>>: s is open, and was started by a call made when p was ready
  owed        \* history: the spans of which such a process finished one to be kept

memory == <<threads, gbl, initpid, beelines, client, senders>>
work == <<spans, open, queue, dropped, sure, owed>>
lvars == <<memory, work, delivered, at, ready>>

-----------------------------------------------------------------------------
Idle == [op |-> "idle", on |-> None, sure |-> FALSE]

Here(p, t, op) == t \in threads[p] /\ at[p][t].op = op
Goto(p, t, op, on) ==
  at' = [at EXCEPT ![p][t] = [op |-> op, on |-> on, sure |-> op = "start" /\ p \in ready]]
Return(p, t) == at' = [at EXCEPT ![p][t] = Idle]

(* close *)

\* Nothing is promised any more to what is under way in p.
Revoke(p) ==
  /\ ready' = ready \ {p}
  /\ sure' = {x \in sure : x[1] # p}

Close(p, t) ==
  /\ Here(p, t, "idle") /\ t = Main /\ gbl[p] # None
  /\ client' = [client EXCEPT ![p][gbl[p]] = "closing"]
  /\ at' = [at EXCEPT ![p] = [u \in Threads |->
       IF u = t THEN [op |-> "stop", on |-> gbl[p], sure |-> FALSE] ELSE [@[u] EXCEPT !.sure = FALSE]]]
  /\ Revoke(p)
  /\ UNCHANGED <<threads, gbl, initpid, beelines, senders, spans, open, queue, dropped, owed, delivered>>

Waiting(p, b) == {s \in DOMAIN spans : <<p, s>> \in queue /\ spans[s].bl = b}

\* Client.close returns: it has waited for the transmission thread to send what was
\* queued, if that thread is in this process.
Stopped(p, t) ==
  LET b == at[p][t].on IN
  /\ Here(p, t, "stop") \/ Here(p, t, "stop_old")
  /\ <<p, b>> \in senders => Waiting(p, b) = {}
  /\ client' = [client EXCEPT ![p][b] = "closed"]
  /\ senders' = senders \ {<<p, b>>}
  /\ Goto(p, t, IF at[p][t].op = "stop" THEN "clear" ELSE "make", None)
  /\ UNCHANGED <<threads, gbl, initpid, beelines, work, delivered, ready>>

Clear(p, t) ==
  /\ Here(p, t, "clear")
  /\ gbl' = [gbl EXCEPT ![p] = None]
  /\ Return(p, t)
  /\ UNCHANGED <<threads, initpid, beelines, client, senders, work, delivered, ready>>

(* init *)

\* (mutant) a beeline that is there is good enough, whoever made it.
InitCheckNoPid(p, t) ==
  /\ Here(p, t, "idle") /\ t = Main
  /\ IF gbl[p] # None
     THEN Return(p, t) /\ ready' = ready \cup {p}
     ELSE Goto(p, t, "make", None) /\ UNCHANGED ready
  /\ UNCHANGED <<memory, work, delivered>>

\* (mutant) init again makes a new beeline in the same process, too.
InitCheckAlways(p, t) ==
  /\ Here(p, t, "idle") /\ t = Main
  /\ Goto(p, t, IF gbl[p] = None THEN "make" ELSE "stop_old", gbl[p])
  /\ client' = IF gbl[p] = None THEN client ELSE [client EXCEPT ![p][gbl[p]] = "closing"]
  /\ UNCHANGED <<threads, gbl, initpid, beelines, senders, work, delivered, ready>>

\* (mutant) the child restarts the transmission of the client that it inherited.
InitCheckRestarts(p, t) ==
  /\ Here(p, t, "idle") /\ t = Main
  /\ IF gbl[p] = None
     THEN Goto(p, t, "make", None) /\ UNCHANGED <<senders, initpid, ready>>
     ELSE /\ Return(p, t)
          /\ ready' = ready \cup {p}
          /\ senders' = senders \cup {<<p, gbl[p]>>}
          /\ initpid' = [initpid EXCEPT ![p] = p]
  /\ UNCHANGED <<threads, gbl, beelines, client, work, delivered>>

\* init returns at once if this very process made the beeline; a beeline inherited by
\* a fork is closed and replaced.
InitCheck(p, t) ==
  /\ Here(p, t, "idle") /\ t = Main
  /\ \/ /\ gbl[p] = None
        /\ Goto(p, t, "make", None)
        /\ UNCHANGED <<client, ready>>
     \/ /\ gbl[p] # None /\ initpid[p] = p
        /\ ready' = ready \cup {p}
        /\ UNCHANGED <<client, at>>
     \/ /\ gbl[p] # None /\ initpid[p] # p
        /\ Goto(p, t, "stop_old", gbl[p])
        /\ client' = [client EXCEPT ![p][gbl[p]] = "closing"]
        /\ UNCHANGED ready
  /\ UNCHANGED <<threads, gbl, initpid, beelines, senders, work, delivered>>

InitMake(p, t, rate) ==
  LET b == Len(beelines) + 1 IN
  /\ Here(p, t, "make") /\ b <= MaxBeelines
  /\ beelines' = Append(beelines, rate)
  /\ client' = [client EXCEPT ![p][b] = "open"]
  /\ senders' = senders \cup {<<p, b>>}
  /\ gbl' = [gbl EXCEPT ![p] = b]
  /\ Goto(p, t, "stamp", None)
  /\ UNCHANGED <<threads, initpid, work, delivered, ready>>

InitStamp(p, t) ==
  /\ Here(p, t, "stamp")
  /\ initpid' = [initpid EXCEPT ![p] = p]
  /\ ready' = ready \cup {p}
  /\ Return(p, t)
  /\ UNCHANGED <<threads, gbl, beelines, client, senders, work, delivered>>

-----------------------------------------------------------------------------
(* The calls.  Most of them fetch the beeline once and then use what they have; *)
(* without a beeline they do nothing.                                           *)

\* (mutant) the beeline is used without a look whether there is one.
FetchUnchecked(p, t, op, on) == Here(p, t, "idle") /\ Goto(p, t, op, on)

Fetch(p, t, op, on) == Here(p, t, "idle") /\ gbl[p] # None /\ Goto(p, t, op, on)

StartSpan(p, t) ==
  Fetch(p, t, "start", gbl[p]) /\ UNCHANGED <<memory, work, delivered, ready>>

\* start_trace, or start_span in a trace that the tracer of this beeline has open.
StartSpanUse(p, t) ==
  LET b == at[p][t].on
      inTrace == {spans[s].hash : s \in {x \in open[p][t] : spans[x].bl = b}}
      s == Len(spans) + 1 IN
  /\ Here(p, t, "start") /\ s <= MaxSpans
  /\ \E h \in IF inTrace = {} THEN TraceHash ELSE inTrace :
       spans' = Append(spans, [hash |-> h, bl |-> b])
  /\ open' = [open EXCEPT ![p][t] = @ \cup {s}]
  /\ sure' = IF at[p][t].sure THEN sure \cup {<<p, s>>} ELSE sure
  /\ delivered' = Append(delivered, 0)
  /\ Return(p, t)
  /\ UNCHANGED <<memory, queue, dropped, owed, ready>>

FinishSpan(p, t, s) ==
  /\ s \in open[p][t]
  /\ \/ Fetch(p, t, "finish", s) /\ UNCHANGED open
     \/ /\ Here(p, t, "idle") /\ gbl[p] = None
        /\ open' = [open EXCEPT ![p][t] = @ \ {s}]
        /\ UNCHANGED at
  /\ UNCHANGED <<memory, spans, queue, dropped, sure, owed, delivered, ready>>

\* The event goes to the client of the beeline that made the span, in its state in
\* this process, whichever beeline finish_span is called on.
FinishSpanUse(p, t) ==
  LET s == at[p][t].on
      b == spans[s].bl
      keep == ShouldSample(spans[s].hash, beelines[b]) IN
  /\ Here(p, t, "finish")
  /\ queue' = IF keep /\ client[p][b] = "open" THEN queue \cup {<<p, s>>} ELSE queue
  /\ dropped' = IF keep THEN dropped ELSE dropped \cup {s}
  /\ owed' = IF keep /\ <<p, s>> \in sure THEN owed \cup {s} ELSE owed
  /\ open' = [open EXCEPT ![p][t] = @ \ {s}]
  /\ Return(p, t)
  /\ UNCHANGED <<memory, spans, sure, delivered, ready>>

\* beeline_wrapper of awslambda looks at _GBL before it runs the handler, and reads
\* it again to flush after it.  What the handler itself calls in between is left out.
Flush(p, t) ==
  Fetch(p, t, "flush", None) /\ UNCHANGED <<memory, work, delivered, ready>>

\* Client.flush waits like Client.close.  Without a beeline the call raises, and
\* has changed nothing.
FlushUse(p, t) ==
  /\ Here(p, t, "flush")
  /\ <<p, gbl[p]>> \in senders => Waiting(p, gbl[p]) = {}
  /\ Return(p, t)
  /\ UNCHANGED <<memory, work, delivered, ready>>

-----------------------------------------------------------------------------
(* Outside: the transmission thread, and fork *)

Deliver(p, s) ==
  /\ <<p, s>> \in queue /\ <<p, spans[s].bl>> \in senders
  /\ queue' = queue \ {<<p, s>>}
  /\ delivered' = [delivered EXCEPT ![s] = IF @ < 2 THEN @ + 1 ELSE @]
  /\ UNCHANGED <<memory, spans, open, dropped, sure, owed, at, ready>>

Fork(p, t, q) ==
  /\ Here(p, t, "idle") /\ threads[q] = {}
  /\ threads' = [threads EXCEPT ![q] = {t}]
  /\ gbl' = [gbl EXCEPT ![q] = gbl[p]]
  /\ initpid' = [initpid EXCEPT ![q] = initpid[p]]
  /\ client' = [client EXCEPT ![q] = client[p]]
  /\ queue' = queue \cup {<<q, x[2]>> : x \in {y \in queue : y[1] = p}}
  /\ open' = [open EXCEPT ![q][t] = open[p][t]]
  /\ UNCHANGED <<beelines, senders, spans, dropped, sure, owed, delivered, at, ready>>

-----------------------------------------------------------------------------
LifecycleInit ==
  /\ threads = [p \in Procs |-> IF p = Parent THEN Threads ELSE {}]
  /\ gbl = [p \in Procs |-> None] /\ initpid = [p \in Procs |-> None]
  /\ beelines = <<>> /\ client = [p \in Procs |-> [b \in 1..MaxBeelines |-> "unmade"]]
  /\ senders = {} /\ queue = {}
  /\ at = [p \in Procs |-> [t \in Threads |-> Idle]]
  /\ spans = <<>> /\ open = [p \in Procs |-> [t \in Threads |-> {}]]
  /\ delivered = <<>> /\ dropped = {}
  /\ ready = {} /\ sure = {} /\ owed = {}

ThreadStep(p, t) ==
  \/ InitCheck(p, t) \/ (\E r \in Rates : InitMake(p, t, r)) \/ InitStamp(p, t)
  \/ Close(p, t) \/ Stopped(p, t) \/ Clear(p, t)
  \/ StartSpan(p, t) \/ StartSpanUse(p, t)
  \/ (\E s \in DOMAIN spans : FinishSpan(p, t, s)) \/ FinishSpanUse(p, t)
  \/ Flush(p, t) \/ FlushUse(p, t)
  \/ \E q \in Procs : Fork(p, t, q)

Transmit(p) == \E s \in DOMAIN spans : Deliver(p, s)

LifecycleNext == \E p \in Procs : Transmit(p) \/ \E t \in Threads : ThreadStep(p, t)

\* A transmission thread that has events to send sends them, at the latest after
\* send_frequency.
LifecycleSpec == LifecycleInit /\ [][LifecycleNext]_lvars /\ \A p \in Procs : WF_lvars(Transmit(p))
-----------------------------------------------------------------------------
(* What holds *)

LifecycleTypeOK ==
  /\ threads \in [Procs -> SUBSET Threads]
  /\ gbl \in [Procs -> 0..Len(beelines)]
  /\ initpid \in [Procs -> Procs \cup {None}]
  /\ beelines \in Seq(Rates) /\ Len(beelines) <= MaxBeelines
  /\ client \in [Procs -> [1..MaxBeelines -> {"unmade", "open", "closing", "closed"}]]
  /\ senders \subseteq Procs \X (1..Len(beelines))
  /\ queue \subseteq Procs \X (1..Len(spans))
  /\ at \in [Procs -> [Threads ->
       [op : {"idle", "make", "stamp", "stop", "stop_old", "clear", "start", "finish", "flush"},
        on : Nat, sure : BOOLEAN]]]
  /\ \A p \in Procs, t \in Threads :
       /\ at[p][t].op \in {"stop", "stop_old", "start"} => at[p][t].on \in 1..Len(beelines)
       /\ at[p][t].op = "finish" => at[p][t].on \in open[p][t]
  /\ spans \in Seq([hash : TraceHash, bl : 1..Len(beelines)])
  /\ open \in [Procs -> [Threads -> SUBSET (1..Len(spans))]]
  /\ delivered \in Seq(0..2) /\ Len(delivered) = Len(spans)
  /\ dropped \subseteq 1..Len(spans) /\ owed \subseteq 1..Len(spans)
  /\ ready \subseteq Procs /\ sure \subseteq Procs \X (1..Len(spans))

\* After init has returned, in a forked process too, and until close, the beeline is one
\* that this process made, its client is open, and no other client sends here: "init
\* now works after a process fork" (CHANGELOG.md).
InitWorks ==
  \A p \in ready :
    /\ gbl[p] # None /\ client[p][gbl[p]] = "open"
    /\ {b \in 1..Len(beelines) : <<p, b>> \in senders} = {gbl[p]}

\* No event arrives twice, although a fork copies the queued events and the open
\* spans, and parent and child both go on to send and to finish them.
DeliveredOnce == \A s \in DOMAIN spans : delivered[s] <= 1

\* What was started by a call made after init returned, and finished before close, by
\* whichever thread, arrives if sampling keeps it: the second init, the close of a
\* client with events queued and the forks in between lose nothing of it.
OwedIsDelivered == \A s \in 1..MaxSpans : s \in owed ~> s \in owed /\ delivered[s] = 1

\* The spans of a trace are kept or dropped alike, in different processes and under
\* different beelines too: where the rate is lower all is kept that is kept elsewhere.
TracesWhole ==
  \A s \in dropped, u \in owed :
    spans[s].hash = spans[u].hash => beelines[spans[s].bl] > beelines[spans[u].bl]
=============================================================================
