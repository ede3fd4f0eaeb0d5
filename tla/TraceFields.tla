---------------------------- MODULE TraceFields ----------------------------
(***************************************************************************)
(* What the events of a trace carry: the fields and rollups that code adds  *)
(* while its blocks are open, and the dataset.  Blocks says when spans are  *)
(* opened and closed; here each of its steps also moves the data.           *)
(*                                                                         *)
(* A field name is told by how many times "app." stands in front of it,     *)
(* which is all that add_trace_field and remove_trace_field look at.  A     *)
(* field's value is told by the id of the trace that it was written in.     *)
(* The fields that the beeline sets by itself (name, trace.*, duration) are *)
(* left out, and there is one rollup field, to which 1 is added at a time.  *)
(***************************************************************************)
EXTENDS Blocks

CONSTANTS
  Name,       \* names of trace fields that the code adds
  Removable,  \* those that it also removes
  Dataset,    \* datasets that a caller may start a trace with
  MaxRollup   \* bound: rollups added through one Trace object

ASSUME FieldsAssumption ==
  /\ Name \subseteq Nat
  /\ Removable \subseteq Name
  /\ Dataset \cap Nat = {}
  /\ MaxRollup \in Nat

VARIABLES
  tdata,   \* tdata[t]: fields, rollup_fields and dataset of the Trace object t
  sdata,   \* sdata[s]: the data of the event of s, and rollup_fields of s
  asked    \* history: asked[t]: the trace fields that were added, and not removed since,
           \* through t, or before t was copied through the Trace it is a copy of

dataVars == <<tdata, sdata, asked>>
fieldVars == <<allVars, dataVars>>

\* add_trace_field puts the prefix where it is missing, remove_trace_field always.
AddKey(n) == IF n = 0 THEN 1 ELSE n
RemoveKey(n) == n + 1

Key == {AddKey(n) : n \in Name} \cup {RemoveKey(n) : n \in Removable}

Keys(fields) == {k \in Key : fields[k] # None}

-----------------------------------------------------------------------------
(* Spans opened, closed and handed over *)

\* (mutant) the Trace that was current is used again, with its fields.
FreshTraceKeeps(c, d) ==
  [fields |-> IF current[c] = None THEN [k \in Key |-> None] ELSE tdata[current[c]].fields,
   rollup |-> 0, dataset |-> d]

FreshTrace(c, d) == [fields |-> [k \in Key |-> None], rollup |-> 0, dataset |-> d]

\* A new event starts with the fields of its trace.  What the caller passes as
\* context is like a context field added at once.
OpenData(c, d) ==
  /\ IF NewTrace \in DOMAIN traces'
     THEN tdata' = Append(tdata, FreshTrace(c, d)) /\ asked' = Append(asked, {})
     ELSE UNCHANGED <<tdata, asked>>
  /\ sdata' = Append(sdata,
       [fields |-> tdata'[current'[c]].fields, rollup |-> 0, total |-> 0, dataset |-> None])

FieldsEnter(c) == Enter(c) /\ OpenData(c, None)

\* Only a request's headers name a dataset, and then a parent too.
FieldsEnterTrace(c) ==
  /\ EnterTrace(c)
  /\ \E d \in Dataset \cup {None} :
       /\ d # None => Last(spans').parent = Remote
       /\ OpenData(c, d)

\* (mutant) trace fields reach the spans that start later, and no other.
FinishDataLate(c, s) ==
  LET t == tdata[current[c]] IN
  sdata' = [sdata EXCEPT
    ![s].dataset = IF t.dataset # None THEN t.dataset ELSE @,
    ![s].total = IF spans[s].root THEN t.rollup ELSE @]

\* finish_span completes the event from whatever trace is current: the dataset,
\* the totals if it is a root span's, and the trace fields it does not have.
FinishData(c, s) ==
  LET t == tdata[current[c]] IN
  IF current[c] = None THEN UNCHANGED sdata ELSE
  sdata' = [sdata EXCEPT
    ![s].dataset = IF t.dataset # None THEN t.dataset ELSE @,
    ![s].total = IF spans[s].root THEN t.rollup ELSE @,
    ![s].fields = [k \in Key |-> IF @[k] # None THEN @[k] ELSE t.fields[k]]]

FieldsExit(c) ==
  Exit(c) /\ FinishData(c, Last(blocks[c])) /\ UNCHANGED <<tdata, asked>>

\* The copy has the fields of the Trace, but neither its rollups nor its dataset.
FieldsDecorate(c) ==
  /\ Decorate(c)
  /\ tdata' = Append(tdata,
       [fields |-> tdata[current[c]].fields, rollup |-> 0, dataset |-> None])
  /\ asked' = Append(asked, asked[current[c]])
  /\ UNCHANGED sdata

FieldsJob(c) == (RunJob(c) \/ EndJob(c)) /\ UNCHANGED dataVars

-----------------------------------------------------------------------------
(* Fields and rollups *)

SetContext(c, k, value) ==
  sdata' = IF ActiveSpan(c) = None THEN sdata
           ELSE [sdata EXCEPT ![ActiveSpan(c)].fields[k] = value]

AddContextField(c, k) ==
  /\ ActiveSpan(c) # None
  /\ SetContext(c, k, traces[current[c]].id)
  /\ UNCHANGED <<allVars, tdata, asked>>

RemoveContextField(c, k) ==
  /\ ActiveSpan(c) # None
  /\ SetContext(c, k, None)
  /\ UNCHANGED <<allVars, tdata, asked>>

AddTraceField(c, n) ==
  /\ current[c] # None
  /\ SetContext(c, AddKey(n), traces[current[c]].id)
  /\ tdata' = [tdata EXCEPT ![current[c]].fields[AddKey(n)] = traces[current[c]].id]
  /\ asked' = [asked EXCEPT ![current[c]] = @ \cup {AddKey(n)}]
  /\ UNCHANGED allVars

\* (mutant) the field leaves the span and stays in the trace.
RemoveTraceFieldSpanOnly(c, n) ==
  /\ current[c] # None
  /\ SetContext(c, RemoveKey(n), None)
  /\ asked' = [asked EXCEPT ![current[c]] = @ \ {AddKey(n)}]
  /\ UNCHANGED <<allVars, tdata>>

\* pop raises when the trace has no such field; the span's is gone by then.
RemoveTraceField(c, n) ==
  /\ current[c] # None
  /\ SetContext(c, RemoveKey(n), None)
  /\ tdata' = [tdata EXCEPT ![current[c]].fields[RemoveKey(n)] = None]
  /\ asked' = [asked EXCEPT ![current[c]] = @ \ {AddKey(n)}]
  /\ UNCHANGED allVars

\* (mutant) the call returns once the active span has the value.
AddRollupFieldSpanOnly(c) ==
  /\ current[c] # None
  /\ tdata[current[c]].rollup < MaxRollup
  /\ ActiveSpan(c) # None
  /\ sdata' = [sdata EXCEPT ![ActiveSpan(c)].rollup = @ + 1]
  /\ UNCHANGED <<allVars, tdata, asked>>

AddRollupField(c) ==
  /\ current[c] # None
  /\ tdata[current[c]].rollup < MaxRollup
  /\ tdata' = [tdata EXCEPT ![current[c]].rollup = @ + 1]
  /\ sdata' = IF ActiveSpan(c) = None THEN sdata
              ELSE [sdata EXCEPT ![ActiveSpan(c)].rollup = @ + 1]
  /\ UNCHANGED <<allVars, asked>>

-----------------------------------------------------------------------------
FieldsInit ==
  /\ BlocksInit
  /\ tdata = <<>>
  /\ sdata = <<>>
  /\ asked = <<>>

FieldsNext == \E c \in Ctx :
  \/ FieldsEnter(c) \/ FieldsEnterTrace(c) \/ FieldsExit(c)
  \/ FieldsDecorate(c) \/ FieldsJob(c)
  \/ \E k \in Key : AddContextField(c, k) \/ RemoveContextField(c, k)
  \/ \E n \in Name : AddTraceField(c, n)
  \/ \E n \in Removable : RemoveTraceField(c, n)
  \/ AddRollupField(c)

FieldsSpec == FieldsInit /\ [][FieldsNext]_fieldVars

-----------------------------------------------------------------------------
(* What the events carry *)

\* A Trace object has fields, one total and a dataset, a span the same and a
\* rollup of its own; there is data for every object that was made.
FieldsTypeOK ==
  LET Fields == [Key -> CallerId \cup (0..Len(traces))] IN
  /\ BlocksTypeOK
  /\ tdata \in Seq([fields : Fields, rollup : 0..MaxRollup, dataset : Dataset \cup {None}])
  /\ sdata \in Seq([fields : Fields, rollup : Nat, total : 0..MaxRollup, dataset : Dataset \cup {None}])
  /\ asked \in Seq(SUBSET Key)
  /\ Len(tdata) = Len(traces) /\ Len(asked) = Len(traces) /\ Len(sdata) = Len(spans)

\* An event has only fields that were added in its own trace: nothing that a
\* request added shows up in the next request that its thread serves, in a job
\* that the thread takes, or in what another thread does meanwhile.
OwnFields ==
  \A s \in DOMAIN spans : \A k \in Key : sdata[s].fields[k] \in {None, spans[s].trace}

\* An event that went to the client is not written again: the client sends it
\* from a thread of its own.  A job is the exception, as long as it has opened
\* no block: its calls go to the span of the thread that decorated it
\* (trace.py:243-246), which may have been sent since.
FrozenWhenSent ==
  [][ \A s \in DOMAIN spans :
        sent[s] > 0 /\ sdata'[s] # sdata[s] =>
          \E c \in Ctx : blocks[c] = <<>> /\ base[c] # <<>> /\ Last(base[c]) = s ]_fieldVars

\* Where a name with the prefix is removed, the field of that name stays, and
\* one with the prefix twice goes in its place (trace.py:289-294).
Spared == Removable \ {0}
Struck == {RemoveKey(n) : n \in Removable \ {0}}

\* A span starts with exactly the trace fields that were asked for in its thread,
\* or in the thread that handed the trace over, before it did: "also to all other
\* future spans in this trace" and "will prevent the field from being propagated
\* to new spans" (beeline/__init__.py:486-487, 502-504), read for one Trace
\* object, and but for removals of names that have the prefix.
NewSpansCarryAsked ==
  [][ \A c \in Ctx :
        Len(blocks'[c]) > Len(blocks[c]) =>
          LET carried == Keys(Last(sdata').fields) IN
          /\ asked'[current'[c]] \ carried \subseteq Struck
          /\ carried \ asked'[current'[c]] \subseteq Spared ]_fieldVars

\* And when it is sent it has those that its thread has asked for while it was
\* open, in inner blocks too: finish_span's "propagate trace fields that may have
\* been added in later spans" (trace.py:159).  What a job below it asks for goes
\* to the copy of the Trace that the job has, and is not promised.
OpenSpansGetAsked ==
  [][ \A c \in Ctx :
        Len(blocks'[c]) < Len(blocks[c]) =>
          asked[current[c]] \ Keys(sdata'[Last(blocks[c])].fields) \subseteq Struck ]_fieldVars

TracesOf(id) == {t \in DOMAIN traces : traces[t].id = id}
SpansOf(id) == {s \in DOMAIN spans : spans[s].trace = id}

RollupsOf(id) == FoldFunctionOnSet(+, 0, [s \in DOMAIN spans |-> sdata[s].rollup], SpansOf(id))

Finished(s) == \A c \in Ctx : s \notin ToSet(blocks[c])

\* A trace that stays in its thread is reported whole: its spans all go to one
\* dataset, and the root's total is the sum of what the spans have.
UncopiedIsWhole ==
  \A s \in DOMAIN spans :
    spans[s].root /\ Finished(s) /\ Cardinality(TracesOf(spans[s].trace)) = 1 =>
      /\ sdata[s].total = RollupsOf(spans[s].trace)
      /\ \A u \in SpansOf(spans[s].trace) : sdata[u].dataset = sdata[s].dataset

-----------------------------------------------------------------------------
(* What is promised for a trace, and does not hold of its copies *)

\* When the root of a trace is sent, its total is the sum over all its spans: "this
\* field will be summed across all spans and added to the trace as a total"
\* (beeline/__init__.py:467-468).
TotalIsWhole ==
  [][ \A s \in DOMAIN spans :
        spans[s].root /\ sent'[s] > sent[s] =>
          sdata'[s].total = RollupsOf(spans[s].trace)' ]_fieldVars

\* A field that was removed is on no span that starts then: remove_trace_field
\* "will prevent the field from being propagated to new spans" (__init__.py:502-504).
RemovedStaysAway ==
  [][ \A c \in Ctx :
        Len(blocks'[c]) > Len(blocks[c]) =>
          Keys(Last(sdata').fields) \subseteq asked'[current'[c]] ]_fieldVars
=============================================================================
