---------------------------- MODULE Propagation ----------------------------
(***************************************************************************)
(* Traces across services: beeline/propagation, propagate_and_start_trace   *)
(* of the tracer, and the patches of `requests` and `urllib` that put the   *)
(* headers into a call.  Every service runs a beeline with hooks of its own *)
(* choice; its threads serve requests, run jobs and call other services.    *)
(*                                                                         *)
(* A header is a record: its form, and what it says of the trace, of the    *)
(* parent and of the trace fields.  The ids that the beeline generates have *)
(* the form that W3C asks for, an id passed by a caller need not.  The      *)
(* dataset is left out: get_propagation_context never sends one.  So are    *)
(* the flags and the state of W3C: nothing reads what the parser makes of   *)
(* them, and no trace field has the name that the marshaller looks up.      *)
(***************************************************************************)
EXTENDS Tracer

CONSTANTS
  Service,     \* the processes that run a beeline
  ServiceOf,   \* ServiceOf[c]: where the thread c runs
  HexId,       \* the ids of CallerId that have W3C's form
  HooksOf,     \* HooksOf[s]: the pairs of hooks that s may be initialised with
  Field,       \* trace fields that code adds
  NotJson,     \* those whose values json does not encode
  Shared       \* may threads use each other's Sessions?

Parsers == {"honeycomb", "w3c", "default", "none"}
Propagators == {"honeycomb", "w3c", "none"}

ASSUME PropagationAssumption ==
  /\ ServiceOf \in [Ctx -> Service]
  /\ HexId \subseteq CallerId
  /\ HooksOf \in [Service -> SUBSET [parser : Parsers, propagator : Propagators]]
  /\ NotJson \subseteq Field
  /\ Shared \in BOOLEAN

VARIABLES
  config,    \* config[s]: the hooks that service s was initialised with
  tfields,   \* tfields[t]: the fields of the Trace object t
  serving,   \* serving[c]: the root span of the request or job in c, or None
  carrier,   \* carrier[c]: the headers kept by the Session that c owns
  calling,   \* calling[c]: the outbound call that c is in
  wire       \* requests that were sent, each with the thread and the span it is from

propVars == <<config, tfields, serving, carrier, calling, wire>>
allVars == <<vars, propVars>>

-----------------------------------------------------------------------------
(* Headers *)

Header(form, trace, parent, fields) ==
  [form |-> form, trace |-> trace, parent |-> parent, fields |-> fields]

Absent == Header("absent", None, None, {})
NoHeaders == [honeycomb |-> Absent, w3c |-> Absent]

\* The PropagationContext that a parser makes of a header, or no context.
Context(h) == [found |-> TRUE, trace |-> h.trace, parent |-> h.parent]
NoContext == [found |-> FALSE, trace |-> None, parent |-> None]

\* Of a version that is not 1 nothing is taken.
UnmarshalHoneycomb(h) == IF h.form = "1" THEN h ELSE Absent

\* A version that is not 1 makes a context in which nothing is set; a header
\* that cannot be taken apart raises, and makes none.
HoneycombParser(h) ==
  IF h.form \in {"1", "2"} THEN Context(UnmarshalHoneycomb(h)) ELSE NoContext

IsHex(id) == id \notin CallerId \ HexId

\* What unmarshal_traceparent takes; of anything else it makes None.
IsTraceparent(h) == h.form = "00" /\ IsHex(h.trace)

\* To take three values out of None raises.
W3cParser(h) == IF IsTraceparent(h) THEN Context(h) ELSE NoContext

\* A context is true, whatever it holds.
DefaultParser(hs) ==
  IF HoneycombParser(hs.honeycomb).found THEN HoneycombParser(hs.honeycomb) ELSE W3cParser(hs.w3c)

\* Without a hook, and when the hook raises, there is no context.
ParseHttpTrace(parser, hs) ==
  CASE parser = "honeycomb" -> HoneycombParser(hs.honeycomb)
    [] parser = "w3c" -> W3cParser(hs.w3c)
    [] parser = "default" -> DefaultParser(hs)
    [] OTHER -> NoContext

\* json.dumps raises for fields that it cannot encode.
MarshalHoneycomb(trace, parent, fields) ==
  IF fields \cap NotJson = {}
  THEN [NoHeaders EXCEPT !.honeycomb = Header("1", trace, parent, fields)]
  ELSE NoHeaders

\* No field is sent, and a trace id is sent whatever its form.
MarshalTraceparent(trace, parent) ==
  [NoHeaders EXCEPT !.w3c = Header("00", trace, parent, {})]

\* Without a hook, and when the hook raises, there are no headers.
PropagationHook(propagator, trace, parent, fields) ==
  CASE propagator = "honeycomb" -> MarshalHoneycomb(trace, parent, fields)
    [] propagator = "w3c" -> MarshalTraceparent(trace, parent)
    [] OTHER -> NoHeaders

\* (mutant) dict.setdefault: what the Session has stays.
UpdatedKeeps(old, new) ==
  [name \in DOMAIN old |-> IF old[name] = Absent THEN new[name] ELSE old[name]]

\* dict.update.
Updated(old, new) ==
  [name \in DOMAIN old |-> IF new[name] = Absent THEN old[name] ELSE new[name]]

-----------------------------------------------------------------------------
(* Serving *)

\* propagate_and_start_trace: without a context the trace is new, and so it is
\* with a context that has no trace id.  The trace fields of the context are
\* lost, the loop over them comes after the return.
PropagateAndStart(c, hs) ==
  LET pc == ParseHttpTrace(config[ServiceOf[c]].parser, hs) IN
  /\ serving[c] = None /\ calling[c].state = "idle"
  /\ StartTrace(c, pc.trace, pc.parent)
  /\ tfields' = Append(tfields, {})
  /\ serving' = [serving EXCEPT ![c] = NewSpan]
  /\ UNCHANGED <<config, carrier, calling>>

\* A request of one of the services arrives: late, never, or more than once, as
\* libraries send a request again when the answer is late.
Serve(c, m) ==
  /\ PropagateAndStart(c, m.headers)
  /\ UNCHANGED wire

\* What other programs send: headers of their own, in either form, well formed
\* or not, complete or not.
OutsideHoneycomb ==
  {Absent, Header("2", None, None, {}), Header("garbled", None, None, {})} \cup
  {Header("1", id, p, {}) : id \in CallerId \cup {None}, p \in {None, Remote}}

OutsideW3c == {Absent} \cup {Header("00", id, Remote, {}) : id \in CallerId}

ServeOutside(c) ==
  /\ \E h \in OutsideHoneycomb, w \in OutsideW3c :
       PropagateAndStart(c, [honeycomb |-> h, w3c |-> w])
  /\ UNCHANGED wire

\* (mutant) the Trace of a job has no fields of its own.
StartJobBare(c) ==
  /\ serving[c] = None /\ calling[c].state = "idle"
  /\ \E id \in CallerId \cup {None} : StartTrace(c, id, None)
  /\ serving' = [serving EXCEPT ![c] = NewSpan]
  /\ UNCHANGED <<config, tfields, carrier, calling, wire>>

\* A job of the application starts a trace by itself.
StartJob(c) ==
  /\ serving[c] = None /\ calling[c].state = "idle"
  /\ \E id \in CallerId \cup {None} : StartTrace(c, id, None)
  /\ tfields' = Append(tfields, {})
  /\ serving' = [serving EXCEPT ![c] = NewSpan]
  /\ UNCHANGED <<config, carrier, calling, wire>>

EndServing(c) ==
  /\ serving[c] # None /\ calling[c].state = "idle"
  /\ \E o \in Outcomes : FinishTrace(c, serving[c], o)
  /\ serving' = [serving EXCEPT ![c] = None]
  /\ UNCHANGED <<sending, decorated, config, tfields, carrier, calling, wire>>

AddTraceField(c, f) ==
  /\ current[c] # None
  /\ tfields' = [tfields EXCEPT ![current[c]] = @ \cup {f}]
  /\ UNCHANGED <<vars, config, serving, carrier, calling, wire>>

-----------------------------------------------------------------------------
(* Calling: the wrappers of Session.request and of urlopen *)

Idle == [state |-> "idle", span |-> None, carrier |-> None, headers |-> NoHeaders]

\* (mutant) the headers are made before the span is started.
OutboundParentEarly(c) == ActiveSpan(c)

\* The span that get_propagation_context names: the one just started.
OutboundParent(c) == ActiveSpan(c)'

\* c uses the Session that x owns.
MayUse(c, x) == x = c \/ (Shared /\ ServiceOf[x] = ServiceOf[c])

\* The span is started, the headers are made and go into the Session x, or, with
\* None, into an object made for this call.  Outside a trace there is no span,
\* and no headers.
BeginCall(c, x) ==
  /\ calling[c].state = "idle"
  /\ x # None => MayUse(c, x)
  /\ IF current[c] # None
     THEN StartSpan(c, None)
     ELSE UNCHANGED vars
  /\ LET new == IF current[c] = None THEN NoHeaders
                ELSE PropagationHook(config[ServiceOf[c]].propagator,
                       traces[current[c]].id, OutboundParent(c), tfields[current[c]])
     IN /\ carrier' = IF x = None THEN carrier ELSE [carrier EXCEPT ![x] = Updated(@, new)]
        /\ calling' = [calling EXCEPT ![c] =
             [state |-> "prepared", span |-> IF current[c] = None THEN None ELSE NewSpan,
              carrier |-> x, headers |-> new]]
  /\ UNCHANGED <<config, tfields, serving, wire>>

\* urlopen sends a Request object made for the call, or given to it for this call
\* only; a Session sends the headers that it has when the request goes out.
SentHeaders(c) ==
  IF calling[c].carrier = None THEN calling[c].headers ELSE carrier[calling[c].carrier]

SendCall(c) ==
  /\ calling[c].state = "prepared"
  /\ wire' = wire \cup {[headers |-> SentHeaders(c), by |-> c, from |-> calling[c].span]}
  /\ calling' = [calling EXCEPT ![c].state = "sent"]
  /\ UNCHANGED <<vars, config, tfields, serving, carrier>>

\* The answer arrives or the call raises, before the request is out or after.
EndCall(c) ==
  /\ calling[c].state # "idle"
  /\ IF calling[c].span = None
     THEN UNCHANGED vars
     ELSE /\ \E o \in Outcomes : FinishSpan(c, calling[c].span, o)
          /\ UNCHANGED <<sending, decorated>>
  /\ calling' = [calling EXCEPT ![c] = Idle]
  /\ UNCHANGED <<config, tfields, serving, carrier, wire>>

-----------------------------------------------------------------------------
\* beeline.init of every service, with the hooks that it was given.
Configs ==
  {hooks \in [Service -> UNION Range(HooksOf)] : \A s \in Service : hooks[s] \in HooksOf[s]}

PropagationInit ==
  /\ Init
  /\ config \in Configs
  /\ tfields = <<>>
  /\ serving = [c \in Ctx |-> None]
  /\ carrier = [c \in Ctx |-> NoHeaders]
  /\ calling = [c \in Ctx |-> Idle]
  /\ wire = {}

PropagationNext == \E c \in Ctx :
  \/ \E m \in wire : Serve(c, m)
  \/ ServeOutside(c) \/ StartJob(c) \/ EndServing(c)
  \/ \E f \in Field : AddTraceField(c, f)
  \/ \E x \in Ctx \cup {None} : BeginCall(c, x)
  \/ SendCall(c) \/ EndCall(c)

PropagationSpec == PropagationInit /\ [][PropagationNext]_allVars

-----------------------------------------------------------------------------
(* What the services see of each other *)

HeaderSet ==
  [form : {"absent", "1", "2", "garbled", "00"}, trace : CallerId \cup (0..Len(traces)),
   parent : (0..Len(spans)) \cup {Remote}, fields : SUBSET Field]

HeadersSet == [honeycomb : HeaderSet, w3c : HeaderSet]

\* Headers, on the wire or kept by a Session, name traces and spans that were
\* made; a call holds the span it has started.
PropagationTypeOK ==
  /\ config \in Configs
  /\ tfields \in Seq(SUBSET Field) /\ Len(tfields) = Len(traces)
  /\ serving \in [Ctx -> 0..Len(spans)]
  /\ carrier \in [Ctx -> HeadersSet]
  /\ calling \in [Ctx -> [state : {"idle", "prepared", "sent"}, span : 0..Len(spans),
                         carrier : Ctx \cup {None}, headers : HeadersSet]]
  /\ wire \subseteq [headers : HeadersSet, by : Ctx, from : 0..Len(spans)]

\* d understands the headers that c sends.
Understands(d, c, id) ==
  LET p == config[ServiceOf[c]].propagator
      q == config[ServiceOf[d]].parser
  IN \/ p = "honeycomb" /\ q \in {"honeycomb", "default"}
     \/ p = "w3c" /\ q \in {"w3c", "default"} /\ IsHex(id)

\* A request that was sent from within a trace is served within that trace, as a
\* child of the span of the very call, if the service understands its headers,
\* and in a trace of its own if not.  What a Session sends from outside a trace is
\* up to the calls that it was used for before, patch/requests.py:13-19.
ContinuesCall ==
  [][ \A c \in Ctx : \A m \in wire : Serve(c, m) /\ m.from # None =>
        LET n == Last(spans') IN
        IF Understands(c, m.by, spans[m.from].trace)
        THEN n.trace = spans[m.from].trace /\ n.parent = m.from
        ELSE n.trace = NewTrace /\ n.parent = None ]_allVars

\* The headers of a call made in a trace name the span of that very call, none
\* that the Session kept from an earlier one: patch/test_requests.py:38-39, "confirm that the injected trace
\* context references the child span wrapping the request call".
CarriesOwnSpan ==
  \A m \in wire : \A h \in Range(m.headers) \ {Absent} :
    m.from # None => h.parent = m.from /\ h.trace = spans[m.from].trace

\* Over all services together a trace that a beeline began is one tree: its only
\* span without a parent is marked as the root, and every other span, whichever
\* service made it, hangs under an older span of the same trace.
TraceIsOneTree ==
  \A s \in DOMAIN spans :
    LET n == spans[s] IN
    /\ n.parent \notin {None, Remote} => n.parent < s /\ spans[n.parent].trace = n.trace
    /\ n.parent = None => n.type = "root"
    /\ n.type = "root" /\ n.trace \notin CallerId =>
         \A u \in DOMAIN spans : spans[u].type = "root" /\ spans[u].trace = n.trace => u = s
=============================================================================
