# Verification of beeline-python in TLA+

This directory models the Honeycomb beeline for Python (`src/beeline`): the
state that its calls keep for each thread or task, what the calls do to it in
every order, and what the events that reach Honeycomb say as a result. TLC
checks the models on small instances; the TLA+ proof system (TLAPS) proves every
invariant and action property that the passing runs check, for every number of
processes, threads, traces and spans. Liveness stays with TLC.

    tlc -workers 2 -config Blocks.cfg MCBlocks.tla    # one run
    tlapm BlocksProofs.tla                            # one module's proofs

`PROJECT.json` lists the runs with what each shows, the source lines of every
definition, a mutant for every property, the hazards, the findings and the
theorems.

## The system

| component | state | operations | hard behaviour |
|---|---|---|---|
| Tracer core (`trace.py`, `__init__.py`) | `_trace` of each context: a mutable `Trace` with an id, the stack of unfinished `Span`s, fields, rollups, a dataset | start_trace, start_span, finish_span, finish_trace, new_event, send_event, send_all | any order of calls, hooks that raise half way, a loop that must end |
| Blocks and `traced_thread` (`trace.py`, `__init__.py`) | none of their own: a `with` block holds its span, a decorated function a copy of a `Trace` | `with tracer`, `@traced` (generators too), `traced_thread` | threads that share or inherit mutable objects, pools |
| Asyncio tracer (`aiotrace.py`) | a context variable with the `Trace`, inherited by tasks | task factory, `@untraced` | copies made later than the tasks, tokens given back after awaits |
| Fields, rollups, dataset (`trace.py`) | `Trace.fields`, `rollup_fields`, `dataset`; the event's data | add/remove_trace_field, add/remove_context_field, add_rollup_field | fields must reach all spans of a trace and none of another |
| Sampling (`trace.py`) | none | `_should_sample`, `_run_hooks_and_send` | 32-bit hash, rate 1, different rates along a trace, hooks |
| Propagation (`propagation/`, `trace.py`) | header strings, `PropagationContext` | marshal/unmarshal, hooks, get_propagation_context, propagate_and_start_trace | round trips between services of different versions |
| HTTP client patches (`patch/`) | headers of a `requests.Session` | wrap a request in a span, add headers | state that outlives the request |
| Lifecycle (`__init__.py`) | the globals `_GBL` and `_INITPID`; of each Beeline a libhoney client with a queue and a transmission thread | init, close, get_beeline, the calls that read the global, once or twice | threads that fetched the beeline before a close or look again after it, forks that copy events and no threads |
| Middleware (`middleware/`) | the root span of a request, in a local variable, the WSGI environment or `flask.g`; the query span per thread (`state.span`) | request started / answered / streamed / raised / torn down, queries before / after / error | thread reuse, callbacks that a framework leaves out or calls twice, hooks that raise in them |
| Test helper, logging | - | - | none |

Everything meets in the `Trace` object. A call reads `tracer_impl._trace`
(`threading.local` or `ContextVar`), changes that object and its spans in place,
and sends finished events to the libhoney client, whose thread reads them later.
Threads and tasks meet where a `Trace` is handed over: `traced_thread` copies it
for the functions it decorates, the task factory for each task. Middleware and
patches call the tracer like an application does; propagation carries a trace
id, a parent id, a dataset and the trace fields between processes.

What makes each part correct:

* the tracer core: stacks are paths of one trace, contexts never reach each
  other's stacks, send_all ends with nothing left;
* blocks: every event goes out once, after its block; the spans of a trace are
  one tree and mirror the nesting of the code, across threads;
* tasks: a task works on its own copy from its first step, `@untraced` gives
  back exactly what it took away;
* fields: an event has the fields added in its trace, all of them and no other,
  and is not touched after it was sent;
* propagation: what one service sends, the next one takes over;
* sampling: a trace is kept or dropped alike wherever it passes;
* lifecycle: after init a process has its own working connection, and what is
  finished between init and close arrives, once, whatever forks in between;
* middleware: one request, one tree, reported once, also on reused threads.

## The modules

    SpanTree                      what is promised: a forest, paths as values
       ^ refined by
    Tracer  <---- Blocks <---- TraceFields
       ^              (each EXTENDS the one on its left)
       +----- AsyncTasks
       +----- Propagation
       +----- Middleware

    Sampling <---- Lifecycle

`Tracer` is the heap: `traces` and `spans` are the objects made so far, an index
is a reference, 0 is `None`, and `current[c]` is `_trace` in context `c`. There
is one action per call. Its client is free: any call, in any order, on any span.
`Trace` objects are mutable cells on purpose: that two contexts may refer to one
of them is what can go wrong. `send_all` is the one call that is cut into steps
(`sending` is its local variable), as it reads the active span in one turn of
its loop and finishes it in the next; the other calls touch only the caller's
own Trace: `Private` says that it is its own, `Isolated` that a call made in one
context changes no other context's stack, whoever's span it finishes. An event is its span's
index; `sent` counts how often it went to the client. What sampling and the
hooks make of it is an outcome: sent, dropped, or an exception, after which
`finish_span` and `finish_trace` leave stack and `_trace` as they are.

`Blocks` gives the tracer the client it is written for: blocks that are left
innermost first, requests that start traces, decorated functions run as jobs on
threads with nothing else open. `Generators` and `Reuse` admit the two ways in
which documented uses break the nesting. `base` and `running` record what a job
took over and whether it still runs; the code has no such state.

`SpanTree` is the abstract specification. A context has a path, a value that
nobody shares, and there is no `Trace`. `GrowsTrees` (in `Blocks`) says that the
shared mutable objects implement it: each call is one step of `SpanTree` or a
stutter, under `path <- Stack(c)`, `own <- Len(blocks[c])`,
`handed <- the stacks of waiting copies`.

`AsyncTasks` gives the tracer asyncio's client. A task is `created` with its
creator's variable and has its own copy only after `FirstStep`. Its frames are
blocks and `@untraced` calls; a frame may wait for the tasks created in it. Any
call may be followed by an await, so steps of tasks interleave freely.

`TraceFields` moves the data with the blocks: `tdata` for each Trace object,
`sdata` for each event. A field name is a number, how often `app.` stands in
front of it, as this is all that the code looks at; a value is the id of the
trace it was written in, so that a field in the wrong trace shows. `asked`
records, for each Trace object, the trace fields that the code wants, a copy's
together with those wanted before it was made; nothing reads it but properties.
What holds of one object, that its spans have the fields asked for and the root
the total, does not hold of a trace with its copies: `lost_total` shows it for
the total, and the list after the findings names the fields.

`Propagation` puts several beelines side by side: each thread belongs to a
service, and each service is initialised with a parser and a propagation hook.
The heap of `Tracer` is the heap of all services together, so that an index is
also an id that no two services draw alike. A thread serves a request (`Serve`,
of another service, or `ServeOutside`), or runs a job, and in between makes
calls: `BeginCall` starts the span and makes the headers, `SendCall` puts the
request on the wire, `EndCall` finishes the span, after an answer or an error.
`wire` keeps all requests, so each may be served late, never, or twice, in any
order. A header is a record of what a parser can tell from it: its form (version
1 or 2, or garbled; a traceparent), a trace id, a parent id, the trace fields.
Ids that a beeline generates have the form that W3C asks for; `CallerId \ HexId`
are those that have not. `carrier` is the headers of the `requests.Session` of a
thread; `None` in its place is `urlopen`, whose request is made for the call.
Its thread uses it inside traces and outside of them; outside, a call makes no
headers, and sends those that `patch/requests.py:17` left in the Session. With
`Shared = TRUE` threads of a service also use each other's Sessions, and
`ContinuesCall` does not hold: one thread's call goes out with another's headers.

`Middleware` is a third client of `Tracer`: the four shapes that the five
middleware packages have (`framework` is chosen once, at the start of a process).
`job[c]` is the request of a thread: where its code is (`app`, `streaming` while
Django's body is read, `late` after the trace was finished), its root span, and
`open`, what the application has begun and not ended. Each callback is an action:
`Arrive` is `propagate_and_start_trace`, and then `DjangoAnswer`, `DjangoStream`
and its two ends, `DjangoAgain` (the `except AttributeError` that runs the request
again), `FlaskTeardown`, `WsgiAnswer` (the wrapped `start_response` of Werkzeug,
Bottle and Flask without signals), `LambdaReturn` and `LambdaFlush`. `dbspan` is
the `state.span` of Flask's query hooks. The application may leave blocks open,
answer twice, raise before it answers, and give up a stream; hooks may raise in
every callback. `tidy`, a history variable, says that a request saw none of this.
`made[s]` records whose code made a span; `Owner` is the request, or nobody
between two requests. `state.span` is a `threading.local` whose attribute is set
to `None` only in the thread that makes the middleware (`flask/__init__.py:66`). In
another thread, `handle_error` before the first query raises AttributeError, having
changed nothing of what is modelled; that is a step that stutters, and `None`
stands for the attribute that is not there.

`Lifecycle` leaves the tracer aside and looks at what is around it: the global
that every call reads first, init and close in the steps between which other
threads run (`at[p][t]` is a program counter with the local variable), processes
that fork at any moment, and the queue and the transmission thread of each client.
A span is its number, with the hash of its trace and the beeline that made it. A
fork copies globals, clients' states, queued events and the forking thread's open
spans, not the transmission threads (`senders`). `ready`, `sure` and `owed` are
history variables: a process where init has returned and close was not called,
the spans that were started there, and those of them that it finished and that
sampling keeps. Calls read the global once (`Fetch`); `beeline_wrapper` of Lambda
reads it again for its flush (`Flush`, `FlushUse`), which waits for the
transmission thread, or raises when the beeline was closed in between.
libhoney is modelled from its use.

`Sampling` is the decision itself, on a hash of `HashSize` values. The code
compares the hash with the quotient `MAX_INT32 / rate` as floats; the model
compares products of integers, which decides alike as both fit in 53 bits.

Proofs:

    TracerProofs  <---- BlocksProofs <---- FieldsProofs
       ^                    (each EXTENDS the one on its left)
       +----- TasksProofs
       +----- PropagationProofs
       +----- MiddlewareProofs <---- ReportProofs

    LifecycleProofs

## The runs

| run | question | bounds |
|---|---|---|
| `tracer` | what holds of stacks, contexts and send_all under any calls, hooks that raise included | 2 threads, 2 Trace objects, 3 spans, one caller's id |
| `unpaired` | what is left when functions run twice and generators close late | 2 threads, 3 Trace objects, 4 spans, one caller's id |
| `tasks` | are tasks apart, is `@untraced` transparent | 3 tasks, 2 frames each, 3 Trace objects, 3 spans |
| `fields` | are the spans trees that mirror the nesting, is the forest implemented; do fields stay in their trace, and reach every span that their thread starts or finishes; is a trace that stays in its thread reported whole | 2 threads, 3 Trace objects, 3 spans, one caller's id, a name with the prefix and one without, one dataset, two rollups through each Trace |
| `propagation` | does what is called continue the trace of the very call, also when it is served twice or late; are traces trees across services | 2 services of one thread, 3 Trace objects, 4 spans, all parsers, one caller's id that W3C does not allow, one field |
| `middleware` | does each request keep to its own tree, is a tidy one reported once with its root last, does it leave its thread clean; does a thread report only what is its own | 2 threads, 3 Trace objects, 4 spans, one caller's id, all four shapes of framework, hooks that raise |
| `lifecycle` | does init work after any closes and forks, does what is owed arrive, once, are traces kept whole | 2 processes, 2 threads each, 2 beelines, 2 spans of one trace, hashes below 32, rates 2 and 3 |
| `shared_copy`, `lost_total`, `prefixed_field`, `stale_session`, `view_twice` | violated: see the findings | as the run of the same module or less; `view_twice` with Django alone |

Why the bounds are enough to be interesting: with two threads and three Trace
objects a trace, its copy in a second thread and a trace that replaces one of
them exist at once; three or four spans give a root, a nested block and blocks
on both sides of a hand-over. Each property is known to fail on these instances
for a mutated definition (`mutants`). `MaxTraces`, `MaxSpans`, `MaxFrames`,
`MaxRollup` and `MaxBeelines` stop the client from making more; they disable
calls, so the runs of clients say `CHECK_DEADLOCK FALSE`. `tracer` has finish_span always enabled
once there is a span. Where symmetry is used (threads, tasks that are not the
main one) all checked properties are safety properties.

In `middleware` four spans let a request with a block or a query be followed, on
the same thread or beside it, by another one with a block; each framework is a
choice of the initial state, so one run covers all. In `lifecycle` two beelines
are the one that is inherited and the one that replaces it (or one closed and one
made after), the two spans are of one trace (hash 15), which rate 2 keeps and
rate 3 drops, so that parent and child may decide differently about it.
`MCLifecycle` also has TLC evaluate `OneInRate`: of the 32 hashes each rate keeps
its share, to within one.

Fairness: `tracer` has the liveness property `SendAllTerminates`. It assumes weak
fairness of one thing: a thread that is inside the loop of `send_all` gets to run
its next turn, in which no hook raises. A thread that is not blocked is
scheduled, and nothing in the loop blocks. The exception is left out of the
fairness because it is an exit: the loop must end without it. `lifecycle` has
`OwedIsDelivered`, under weak fairness of the transmission threads of each process:
a thread of libhoney that has events in its queue sends them, at the latest after
`send_frequency`. Nothing is assumed of init, close or the calls: a close that
never goes on must not keep an event from arriving.

Actions that a run cannot take are there for another: `ExitGenerator` only in
`unpaired`. `propagation` drops every event and `fields` sends every one: what
hooks do with events is asked in `tracer`.

The four spans of `propagation` are a root, two calls one after the other (the
second finds the headers of the first in the Session) and the span that serves one
of them, or a root, a call, and two spans that serve it; the third Trace object is
for that second time, or for a trace of the caller's in between.
`OutsideHoneycomb` has headers of an unknown version, and they are sent
beside others, but no property says what should come of such a pair.

Two bounds are state constraints, defined in the MC modules. `OneKind`: a state of
`fields` that has both trace or context fields and rollups or a dataset is checked
but not followed, since no action reads the one to write the other. `FieldsEarly`:
in `propagation` a state with trace fields is followed up to the fourth span only;
fields are part of a header and, with all of them fit for json, decide nothing.

In `fields` the name 0 has no prefix and may be removed, the name 1 begins with
`app.`; both are the field `app.x` of the event. A removal of the name 1 takes away
`app.app.x` (`trace.py:289`) where the field is `app.x` (`trace.py:275`). What
`NewSpansCarryAsked` and `OpenSpansGetAsked` say of such names is what is left of
the promise (`Spared`, `Struck`), and `prefixed_field` is the case that breaks it.
Removals of names with the prefix are left to that run and to the theorems: they
need a second key, which is too much for `fields`. Two rollups through each Trace
let sums have several addends in one span, in different spans and on both sides of
a copy.

## What is proved

For every set of contexts, ids and names and every bound:

* `TypeCorrect`, `PathsCorrect`, `StackIdsCorrect`, `PrivateCorrect`, `IsolatedCorrect`,
  `SendAllCorrect` (`TracerProofs`): the invariants and action properties of the
  run `tracer` under any calls. `HeapOK /\ RefsOK` (objects are well formed,
  references refer to objects) is inductive and gives the types. For paths it is
  strengthened by `PathsOK`: every stack has the trace's id, ascending parents
  and a root at the bottom only; the step that matters is `Pop`, which takes the
  top of a path and leaves a path. `PrivateInv` adds that waiting copies are
  nobody's `_trace` and no two contexts share one, which each call keeps because
  it changes only the object behind its own `_trace` (`OthersKept`); without the
  second half a call in one thread could move a stack that another one is proved
  to own. `HeldInv` adds that what `send_all` holds is the active span.
* `BlocksTypeCorrect` and `SentOnceCorrect` (`BlocksProofs`) follow from `EventsInv`, which needs
  neither nesting nor private copies: an open block is open in one place
  (`OpenOnce`), nobody finishes a span but the block that opened it, and sent
  counts 0 or 1 accordingly.
* `BalancedCorrect`, `ParentRunningCorrect`, `SpansFormTreesCorrect`,
  `GrowsTreesCorrect` rest on `MatchedInv`, which adds to `EventsInv` that the
  stack behind `_trace` is `base \o blocks` and never empty. Each action is first
  reduced to what it does to the path of one context (`Begins`, `Deepens`,
  `Closes`, `Gives`, `Takes`, `Stays`: lemma `MatchedSteps`); the theorems then
  split on these six effects and no longer on the calls. `GrowsTreesCorrect` is
  the refinement: these effects are the actions of `SpanTree`.
* `NoTraceLeftCorrect` (`BlocksProofs`) says when a thread has no trace left over,
  and holds with `Reuse` and `Generators` too. `LeftInv` adds to `EventsInv` and
  `PathsOK` that the block of the root of a Trace is open while a context that
  began it uses it (`RootsOpen`), that no stack in use is empty (`StacksUsed`) and
  that the bottom of a stack that a job took over is of no block of those who
  share it (`BottomsKept`); without the last, two runs of one job could empty
  the stack that both of them use.
* `FieldsTypeCorrect`, `OwnFieldsCorrect` (`FieldsProofs`): no field leaves its
  trace. That the blocks move as in `Blocks` is a lemma, which carries over the
  invariants of `BlocksProofs`.
  `OwnFields` speaks of events only; `DataInv` adds the same of Trace objects
  (`TraceOwn`), from which spans are filled. It needs `MatchedInv`: that the
  span a call writes to is of the trace that is current, which is where
  `finish_span` takes the missing fields from.
* `FrozenWhenSentCorrect`: the span that a call writes to is the last of the open
  blocks, whose event `EventsOK` says is not out (`ActiveUnsent`), or, with no
  block open, the last of the stack that a job took over (`JobOn`), which is the
  one exception that the property makes.
* `NewSpansCarryAskedCorrect`, `OpenSpansGetAskedCorrect`: the fields of a Trace
  object are at least (`AskedKept`) and at most (`KeptAsked`) those that were asked
  for through it, or before it was copied through the Trace it is a copy of. For
  any names: the two halves are off by what a removal of a name with the prefix
  takes away instead (`Struck`) and leaves there (`Spared`), which the proof
  brought to light. If no such name is removed both sets are empty.
* `UncopiedIsWholeCorrect`: in a trace of which there is one Trace object the root
  has the total of the rollups and all spans have its dataset. `TotalsInv`: each
  span was made under a Trace object of its id (`SpansHeld`), copies are never
  the only ones (`CopiesNotAlone`), the rollup of a Trace object that is alone is
  the sum over its spans (`SumsOK`), they share its dataset (`DatasetsOK`), and
  once the root is finished its total stays that of the Trace, on which nobody
  works any more (`EndedOK`). Sums are folds, and
  what is needed of them (`SumOne`, `SumPlusOne`, `SumPlusZero`, `SumSame`) would
  be proved by induction; the proofs take a least counterexample instead
  (`Smallest`, from the well-foundedness of `<`), as no prover here can
  instantiate the library's induction theorems.
* `TasksTypeCorrect`, `TasksApartCorrect`, `TasksBalancedCorrect`,
  `AttachedHasParentCorrect`, `AwaitedStartsInsideCorrect` (`TasksProofs`), for any
  number of tasks and depth of frames. `TasksApart` speaks of `_trace` in running
  tasks, but an `@untraced` call holds a Trace in its token and puts it back; so
  `HoldApart` says that no Trace object is referred to twice by the running
  tasks, tokens included. `TasksFine` describes each level of a task (the ground
  and every `@untraced` call above it): the stack that the level has or will get
  back is what the level began with and then the blocks open in it. What a task
  finds at its first step is its creator's stack at that time and not at creation
  (`aiotrace.py:29`); `WaitsOK` says that until the first step of a task that is
  waited for, only its creator can reach that Trace and the creator's frame is
  still there. `AttachedWaits` carries this up to the main task.
* `PropagationTypeCorrect`, `TraceIsOneTreeCorrect`, `PropagatedIdsCorrect`
  (`PropagationProofs`), whatever the services, parsers and hooks, the order of
  the requests, and with Sessions that are shared. `PropInv` is `CoreInv` (ids,
  paths that no one shares, the root at the bottom of the stack while a context
  has its trace, `Rooted`, and every span hung below one of its trace, `HangsOK`,
  `RootsOK`) and `HeaderInv`: each header that a Session keeps, that a call has
  made or that is on the wire names a trace and a span that were made, or an id
  of somebody else. `ContinuesCallCorrect` and `CarriesOwnSpanCorrect` are about
  one call; `MadeInv` says that the headers that a call made in a trace would go
  out with, and those on the wire, are those of that call's own span, and that a
  Session keeps none but such as its service's hook overwrites in the next call
  made in a trace. They assume `~Shared` and `NotJson = {}`; the run
  `stale_session` shows what becomes of `CarriesOwnSpan` without the second. Of
  requests made outside a trace they say nothing.
* `MiddlewareTypeCorrect`, `RequestsApart` (`MiddlewareProofs`).
  `MiddlewareInv` adds to the types what a callback relies on: a request past
  `Arrive` has a root, and what is open was made. `OwnTree` is not
  inductive, as it says nothing of stacks; `TreeInv` adds `StackOwned`: while a
  request runs, every span on the stack of its thread was made by that request.
  Nothing need be said of a stack that an earlier request left: what is made on it
  between two requests is nobody's, and `Arrive` lets it go. The steps are reduced to
  those that trim a stack (`ClosingStep`), those that start a trace
  (`StartTraceOwns`) and those that put a span on top (`OpeningStep`).
* `StackIsOpenCorrect`, `ReportedOnceCorrect`, `RootLastCorrect`, `ReportsOwnCorrect`
  (`ReportProofs`).
  `ReportInv` adds to the invariants above where the code of a request may be
  (`FrameInv`) and, for tidy requests, that the stack is the root and then what is
  open (`TidyInv`). For the counts of events that is not enough, as what was begun
  and is not open must be known to be out: `BooksInv` says what is recorded as made
  by which request, apart from each other, and `CountInv` of each such span whether
  its event went out and, on Lambda, was flushed. `LastInv` is for
  untidy requests as well: while something made by a request can still be
  sent, its root was not. For Flask that is `FlaskOK`: the teardown finishes the
  root only when it is the active span, and blocks that are left late keep it
  from being that. `ReportsOwn` too is for untidy requests: what a callback
  finishes is the root, the innermost open block, the span on top of the stack,
  which `StackOwned` says is of this request, or the query in `state.span`.
* `LifecycleTypeCorrect`, `InitWorksCorrect`, `DeliveredOnceCorrect`,
  `TracesWholeCorrect`, `SamplingNests` (`LifecycleProofs`). `LifecycleTypeOK` says
  that a call under way refers to a beeline that was made and to a span that its
  thread has open; `TypeInv` adds which calls a thread may be in (`AtOK`). `InitWorks` speaks of ready processes only;
  `ConnInv` says for every place in init and close which transmission threads run,
  and that no process but itself ever stamps `_INITPID` with its pid (`Fresh`),
  which is why the check for a fork in init cannot be fooled by inherited memory.
  `DeliveredOnce` needs `PlaceInv`: where a process has the transmission thread of
  a span's client, the span is at one place only (open in one thread, queued,
  or delivered), and no other process has that thread (`OneSender`); copies
  that forks make are where nothing sends them. `TracesWhole` follows from
  `SampleInv` (each recorded decision is what `_should_sample` still says) and
  `SamplingNests`.

The stronger invariants were first checked by TLC as invariants of the run of
their module (or of it with the other choices of its constants), then proved.

Assumptions: the named ASSUMEs of the modules (constants are of the right kind,
ids are not numbers), and, where a theorem says so:

* `~Reuse` (a decorated function runs once) and `~Generators` (blocks are left
  innermost first): `shared_copy` and `unpaired` show what is lost without them
  and what is not;
* `~Shared` (a Session is used by one thread) and `NotJson = {}` (trace fields can
  be encoded): `stale_session`.

Only model-checked: liveness (`SendAllTerminates`, `OwedIsDelivered`), as fairness
rests on ENABLED, which the provers do not have, and `OneInRate`, a count that TLC
evaluates on 32 hashes. `SendAllFlushes`, the safety half of `SendAllTerminates`,
and `DeliveredOnce`, that of `OwedIsDelivered`, are proved. The provers have no
induction over data, so a fact about a fold is proved by a least counterexample,
where one is needed.

## Findings

Five statements of the documentation, the comments and the tests that the code
does not keep, each with a run that ends in a counterexample.

* `shared_copy`: `traced_thread` copies the Trace once per decoration
  (`__init__.py:842`), so a function that a pool runs twice has both runs push on
  one stack, and blocks become children of the other run's blocks.
* `view_twice`: the Django middleware takes every `AttributeError` for the missing
  `execute_wrapper` of an old Django, that of a hook included, and runs the view
  again for the same request (`middleware/django/__init__.py:172`).
* `stale_session`: the patch of `requests` puts headers into the Session and
  takes none away (`patch/requests.py:17`); after a trace field that json cannot
  encode, the hook raises and a call carries the headers of an earlier one.
* `lost_total`: the copy of a Trace has rollups of its own (`trace.py:41`), so the
  total of the root lacks what a decorated function or a task added, although it
  is documented as the sum "across all spans" (`__init__.py:467-468`).
* `prefixed_field`: `remove_trace_field` does not find a field whose name was given
  with the prefix (`trace.py:289`), which goes on to new spans against
  `__init__.py:502-504`.

Three more, which follow from the definitions and have no run of their own:

* `propagate_and_start_trace` returns before it adds the trace fields of the
  request (`trace.py:215`), though "Trace context fields will be propagated to
  downstream services" (`__init__.py:486-488`): `PropagateAndStart` gives the new
  Trace no fields.
* Fields are copied once (`trace.py:43`, `FieldsDecorate`), so a trace field added
  in one thread afterwards is not on the spans that another one starts, although
  "all other future spans in this trace" are to have it (`__init__.py:486-487`).
  `NewSpansCarryAsked` states what does hold, for one Trace object.
* `DjangoRequest` (`middleware/django/__init__.py:14-15`) and `beeline_wrapper`
  (`middleware/awslambda/__init__.py:125`, `163`) look for the beeline and fetch it
  again to use it, as does the deprecated `add_field` (`__init__.py:400-401`); a
  close in between has them call an attribute of None, in spite of "only write log
  if beeline has been initalised" and "don't blow up the world". Only the flush,
  which waits, is in `Lifecycle` (`FlushUse`).

Behaviour that the models show and that contradicts nothing written down: the
wrapper of `traced_thread` leaves its trace in the thread, and a later undecorated
job continues it (`__init__.py:846`); a task that first runs after its creator's
root block was left reports a second root (`aiotrace.py:29`); a request that a
Session sends outside a trace carries the headers of its last call
(`patch/requests.py:17`); a Flask view that leaves a span open has the teardown
finish that span and not the root (`middleware/flask/__init__.py:33`), so
`StackIsOpen` and `ReportedOnce` leave such requests out; a request of Werkzeug that raises before `start_response`, and a
Django stream that is given up, leave their trace to the thread until the next
request replaces it (`OwnTree` holds all the same).

## What is not modelled

* The content of events beyond the fields: names, durations, error fields, the
  version fields; the queue, batching and retries of libhoney.
* Values of rollups: the one rollup field counts ones.
* A task factory that somebody else installed; `copy_context().run` by hand.
* Of propagation: the dataset (`get_propagation_context` never sets one), the
  flags and the state of W3C (nothing reads what the parser makes of them), the
  parser and propagation hooks that an application writes itself, ids that
  contain a comma, and the deprecated `marshal_trace_context`.
* Of the middleware: what the events contain, `query_start_time` (one attribute
  for all threads, data that no guard reads), a streamed answer that another
  thread reads (ASGI), a process without a beeline, `process_view` and
  `process_exception`, which only add fields; the AttributeError of `handle_error`
  in a thread that has made no query (it changes nothing, see above).
* Of the lifecycle: two threads that call init or close at once (nothing in the
  code is against it, two clients can be made), the end of a process and
  `atexit`, hooks, which `Tracer` has, and the calls that a Lambda handler makes
  between the look and the flush of its wrapper.
* The patches of Jinja2 and Tornado (a span around a call; `send_now`), the test
  helper, logging: they keep no state.

## Plan

Done: all the modules above, with their runs, and proofs of every invariant and
action property that the passing runs check. Left:

1. An abstract specification of `Propagation`, in which a call hands its span to
   what serves it and there are no headers, and a proof that `Propagation`
   implements it: `HeaderInv` and `MadeInv` are most of the way there.
2. `Lifecycle` over `Tracer`, so that hooks, stacks and a close meet in one state.
