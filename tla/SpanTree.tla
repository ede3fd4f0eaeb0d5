------------------------------ MODULE SpanTree ------------------------------
(***************************************************************************)
(* What tracing promises to code that brackets its work with               *)
(* `with tracer(name)` or @traced: a forest of spans that grows at the      *)
(* place where the code runs.  There is no Trace object here, no `_trace`   *)
(* and no shared stack: a context has a path, a value of its own.          *)
(***************************************************************************)
EXTENDS Naturals, SequencesExt

CONSTANTS Ctx, CallerId, Remote, None

VARIABLES
  path,     \* path[c]: the spans around the code that runs in c, outermost first
  own,      \* own[c]: how many of them, from the innermost, c started itself
  spans,    \* the spans made so far, with their place in the forest
  sent,     \* sent[s]: how often the event of s went out
  handed    \* paths given to functions that wait for their thread

treeVars == <<path, own, spans, sent, handed>>

\* A trace id passed by the caller may be any trace's; a generated one is new.
FreshOrCallers(id) == id \in CallerId \/ \A s \in DOMAIN spans : spans[s].trace # id

\* The next span, n, is made and c runs inside it.
Opens(c, n, outer) ==
  /\ spans' = Append(spans, n)
  /\ sent' = Append(sent, 0)
  /\ path' = [path EXCEPT ![c] = Append(outer, Len(spans) + 1)]

\* A block entered with nothing of c's own running starts a tree.
StartTree(c) ==
  /\ own[c] = 0
  /\ LET n == Last(spans') IN
     /\ spans' # <<>>
     /\ FreshOrCallers(n.trace)
     /\ n.parent \in {None, Remote}
     /\ n = [trace |-> n.trace, parent |-> n.parent, root |-> TRUE,
             type |-> IF n.parent = None THEN "root" ELSE "subroot"]
     /\ Opens(c, n, <<>>)
  /\ own' = [own EXCEPT ![c] = 1]
  /\ UNCHANGED handed

\* A block entered inside another hangs its span under that one's.
Grow(c) ==
  /\ path[c] # <<>>
  /\ LET up == Last(path[c]) IN
     Opens(c, [trace |-> spans[up].trace, parent |-> up, root |-> FALSE, type |-> "child"], path[c])
  /\ own' = [own EXCEPT ![c] = @ + 1]
  /\ UNCHANGED handed

\* A block left takes the innermost span, which goes out once or is dropped.
Leave(c) ==
  /\ own[c] > 0
  /\ LET s == Last(path[c]) IN
     /\ sent[s] = 0
     /\ sent' \in {sent, [sent EXCEPT ![s] = 1]}
  /\ path' = [path EXCEPT ![c] = Front(@)]
  /\ own' = [own EXCEPT ![c] = @ - 1]
  /\ UNCHANGED <<spans, handed>>

\* A function is given the path it was decorated on, to run elsewhere.
HandOver(c) ==
  /\ path[c] # <<>>
  /\ handed' = handed \cup {path[c]}
  /\ UNCHANGED <<path, own, spans, sent>>

\* A thread runs such a function.
TakeOver(c) ==
  /\ own[c] = 0
  /\ path'[c] \in handed
  /\ path' = [path EXCEPT ![c] = path'[c]]
  /\ handed \ {path'[c]} \subseteq handed' /\ handed' \subseteq handed
  /\ UNCHANGED <<own, spans, sent>>

TreeInit ==
  /\ path = [c \in Ctx |-> <<>>]
  /\ own = [c \in Ctx |-> 0]
  /\ spans = <<>>
  /\ sent = <<>>
  /\ handed = {}

TreeNext ==
  \E c \in Ctx : StartTree(c) \/ Grow(c) \/ Leave(c) \/ HandOver(c) \/ TakeOver(c)

TreeSpec == TreeInit /\ [][TreeNext]_treeVars
=============================================================================
