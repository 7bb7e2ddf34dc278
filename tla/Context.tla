-------------------------------- MODULE Context --------------------------------
(***************************************************************************)
(* Context of flare-core-base (context/core.rs): contexts form a forest; a *)
(* context carries a cancellation token and, or not, a deadline, which its *)
(* children inherit and may narrow, and runs futures until it is cancelled *)
(* or its deadline has passed.                                             *)
(*                                                                         *)
(* Contexts are numbered in the order in which they are made, and a token  *)
(* by the context it was made for.  The metadata and the TypeMap that a    *)
(* context carries along are left out: what counts is that insert_data and *)
(* remove_data make a context that shares the token, while with_user_id    *)
(* and the like make a child.                                              *)
(***************************************************************************)
EXTENDS Naturals

CONSTANTS
    None,
    MaxContexts, \* bound on the contexts of a behaviour
    MaxTime      \* bound on the time, and on deadlines

ASSUME ContextAssumption ==
    MaxContexts \in Nat /\ MaxTime \in Nat /\ None \notin Nat

VARIABLES
    now,
    count,     \* contexts made
    parent,    \* ContextInner.parent, 0 for a root
    deadline,  \* ContextInner.deadline
    token,     \* ContextInner.cancel_token
    lineage,   \* the tokens whose cancellation cancels the token: it and those above it
    cancelled, \* the tokens that are cancelled
    timers,    \* the contexts of with_deadline whose timer task sleeps
    runs,      \* what became of a future that run was given
    asked      \* the tokens that cancel was called on

vars == <<now, count, parent, deadline, token, lineage, cancelled, timers, runs, asked>>
tree == <<parent, deadline, token, lineage>>

Contexts == 1..MaxContexts
Made == 1..count
Time == 0..MaxTime

IsCancelled(c) == token[c] \in cancelled
Passed(c) == deadline[c] # None /\ deadline[c] <= now

Init ==
    /\ now = 0 /\ count = 0
    /\ parent = [c \in Contexts |-> 0]
    /\ deadline = [c \in Contexts |-> None]
    /\ token = [c \in Contexts |-> c]
    /\ lineage = [c \in Contexts |-> {c}]
    /\ cancelled = {} /\ timers = {} /\ asked = {}
    /\ runs = [c \in Contexts |-> "idle"]

------------------------------------------------------------------------------
(***************************************************************************)
(* Making contexts                                                         *)
(***************************************************************************)

\* a new context takes the next number, and the fields given
Make(p, d, t, l) ==
    /\ count < MaxContexts
    /\ count' = count + 1
    /\ parent' = [parent EXCEPT ![count + 1] = p]
    /\ deadline' = [deadline EXCEPT ![count + 1] = d]
    /\ token' = [token EXCEPT ![count + 1] = t]
    /\ lineage' = [lineage EXCEPT ![count + 1] = l]
    /\ UNCHANGED <<now, runs, asked>>

\* root and with_request_id
Root ==
    /\ Make(0, None, count + 1, {count + 1})
    /\ UNCHANGED <<cancelled, timers>>

\* mutant: the child gets a token of its own
LineageAlone(p) == {count + 1}

\* child_token
ChildLineage(p) == lineage[p] \cup {count + 1}

\* a token made under a cancelled one is cancelled
WithChildToken(p) ==
    IF IsCancelled(p) THEN cancelled \cup {count + 1} ELSE cancelled

\* child, and with_trace_id, with_user_id, ... which change a copy of a child
Child ==
    /\ \E p \in Made :
          /\ Make(p, deadline[p], count + 1, ChildLineage(p))
          /\ cancelled' = WithChildToken(p)
    /\ UNCHANGED timers

\* mutant: the parent's deadline does not bound the child's
EffectiveAsAsked(p, d) == d

Effective(p, d) == IF deadline[p] # None /\ deadline[p] < d THEN deadline[p] ELSE d

\* the timer task that with_deadline spawns
NewTimer(p) == {count + 1}

\* with_deadline, and with_timeout whose deadline is not before now
WithDeadline ==
    \E p \in Made, d \in Time :
       LET e == Effective(p, d) IN
       /\ Make(p, e, count + 1, ChildLineage(p))
       /\ \/ /\ e <= now
             /\ cancelled' = cancelled \cup {count + 1}
             /\ UNCHANGED timers
          \/ /\ e > now
             /\ cancelled' = WithChildToken(p)
             /\ timers' = timers \cup NewTimer(p)

\* insert_data and remove_data
CopyWithData ==
    /\ \E c \in Made : Make(parent[c], deadline[c], token[c], lineage[c])
    /\ UNCHANGED <<cancelled, timers>>

------------------------------------------------------------------------------
(***************************************************************************)
(* Cancelling and running                                                  *)
(***************************************************************************)

\* the tokens that are cancelled with t
Below(t) == {token[c] : c \in {x \in Made : t \in lineage[x]}}

Cancel ==
    /\ \E c \in Made :
          /\ cancelled' = cancelled \cup Below(token[c])
          /\ asked' = asked \cup {token[c]}
    /\ UNCHANGED <<now, count, tree, timers, runs>>

\* the task that with_deadline spawns wakes up
TimerFires(c) ==
    /\ c \in timers /\ deadline[c] <= now
    /\ timers' = timers \ {c}
    /\ cancelled' = cancelled \cup Below(token[c])
    /\ UNCHANGED <<now, count, tree, runs, asked>>

RunBecomes(c, r) ==
    /\ runs' = [runs EXCEPT ![c] = r]
    /\ UNCHANGED <<now, count, tree, cancelled, timers, asked>>

\* run polls the future, unless the deadline has passed; a cancelled token is only
\* looked at in the select
StartRun ==
    \E c \in Made :
       /\ runs[c] = "idle"
       /\ RunBecomes(c, IF Passed(c) THEN "none" ELSE "running")

\* the future ends first: select and timeout let it
FutureEnds ==
    \E c \in Made : runs[c] = "running" /\ RunBecomes(c, "some")

\* mutant: only the deadline stops a run
StopRunAtDeadline(c) == runs[c] = "running" /\ Passed(c) /\ RunBecomes(c, "none")

\* the select sees the token, or the timeout the deadline
StopRun(c) ==
    /\ runs[c] = "running"
    /\ IsCancelled(c) \/ Passed(c)
    /\ RunBecomes(c, "none")

Tick ==
    /\ now < MaxTime
    /\ now' = now + 1
    /\ UNCHANGED <<count, tree, cancelled, timers, runs, asked>>

Next ==
    \/ Root \/ Child \/ WithDeadline \/ CopyWithData
    \/ Cancel \/ StartRun \/ FutureEnds \/ Tick
    \/ \E c \in Made : TimerFires(c) \/ StopRun(c)

Spec == Init /\ [][Next]_vars

\* Time passes, and Tokio wakes the timer tasks and polls what is run; a future that
\* is run need not end.
Fairness ==
    /\ WF_vars(Tick)
    /\ \A c \in Contexts :
          WF_vars(c \in Made /\ TimerFires(c)) /\ WF_vars(c \in Made /\ StopRun(c))

FairSpec == Spec /\ Fairness

------------------------------------------------------------------------------
(***************************************************************************)
(* Properties                                                              *)
(***************************************************************************)

\* Types of the forest and of what is cancelled, timed and run.
TypeOK ==
    /\ now \in Time /\ count \in 0..MaxContexts
    /\ parent \in [Contexts -> 0..MaxContexts]
    /\ deadline \in [Contexts -> Time \cup {None}]
    /\ token \in [Contexts -> Contexts]
    /\ lineage \in [Contexts -> SUBSET Contexts]
    /\ cancelled \subseteq Contexts /\ timers \subseteq Contexts /\ asked \subseteq Contexts
    /\ runs \in [Contexts -> {"idle", "running", "some", "none"}]

\* No chain of children outlasts the deadline of a context above them.
DeadlineNarrows ==
    \A c \in Made :
       parent[c] # 0 /\ deadline[parent[c]] # None =>
          deadline[c] # None /\ deadline[c] <= deadline[parent[c]]

\* Cancelling a context cancels its children, those made later and those made by
\* copying included.
CancelReachesChildren ==
    \A c \in Made : parent[c] # 0 /\ IsCancelled(parent[c]) => IsCancelled(c)

\* A context is cancelled for a reason: cancel was called, or a deadline has passed,
\* on it or above it; never for what happens below or beside it.
CancelledForReason ==
    \A c \in Made : IsCancelled(c) =>
       \/ lineage[c] \cap asked # {}
       \/ \E a \in Made : token[a] \in lineage[c] /\ Passed(a)

\* What runs in a context that is cancelled, at it or above it, is stopped.
CancelStopsRuns ==
    \A c \in Contexts : (c \in Made /\ IsCancelled(c)) ~> runs[c] # "running"

==============================================================================
