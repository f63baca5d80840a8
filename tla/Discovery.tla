----------------------------- MODULE Discovery -----------------------------
(***************************************************************************)
(* Service discovery: discover of internal/icloud/discovery.go and of      *)
(* internal/contacts/discovery.go.  Both run at most one attempt at a time *)
(* under discoverMu; other callers wait for it on a channel or give up at  *)
(* the end of their own context.  A failure is not kept: the next caller,  *)
(* or a waiter that wakes up, runs an attempt of its own.                  *)
(*                                                                         *)
(* A caller runs at most one attempt, so an attempt, its channel and its   *)
(* result are named by the caller that owns it.                            *)
(***************************************************************************)
EXTENDS Naturals

CONSTANTS
  Callers,  \* calls of discover
  Steps,    \* PROPFINDs of an attempt: 2 for the calendar, more for contacts
  None      \* no caller

ASSUME ConstantsAssumption ==
  /\ Steps \in Nat \ {0}
  /\ None \notin Callers

VARIABLES
  state,        \* the attempt whose result is published (None: not discovered)
  discovering,  \* the attempt in flight
  closed,       \* the attempts whose channel is closed
  pc,           \* where each caller is
  ctxDone,      \* its context has ended
  waiting,      \* the channel it waits on
  progress,     \* PROPFINDs of its attempt that succeeded
  failed,       \* its attempt failed
  reply,        \* what discover returned to it
  used          \* the locations it read after discover returned nil

vars == <<state, discovering, closed, pc, ctxDone, waiting, progress, failed, reply, used>>

Init ==
  /\ state = None
  /\ discovering = None
  /\ closed = {}
  /\ pc = [c \in Callers |-> "idle"]
  /\ ctxDone = [c \in Callers |-> FALSE]
  /\ waiting = [c \in Callers |-> None]
  /\ progress = [c \in Callers |-> 0]
  /\ failed = [c \in Callers |-> FALSE]
  /\ reply = [c \in Callers |-> "none"]
  /\ used = [c \in Callers |-> None]

Goto(c, where) == pc' = [pc EXCEPT ![c] = where]

Call(c) ==
  /\ pc[c] = "idle"
  /\ Goto(c, "enter")
  /\ UNCHANGED <<state, discovering, closed, ctxDone, waiting, progress, failed,
                 reply, used>>

\* The context of a call ends: its deadline or a cancellation.
Expire(c) ==
  /\ ~ctxDone[c]
  /\ pc[c] # "done"
  /\ ctxDone' = [ctxDone EXCEPT ![c] = TRUE]
  /\ UNCHANGED <<state, discovering, closed, pc, waiting, progress, failed, reply, used>>

-----------------------------------------------------------------------------
(* One pass of the loop under discoverMu. *)

LookupDiscovered(c) ==
  /\ pc[c] = "enter"
  /\ state # None
  /\ Goto(c, "nil")
  /\ UNCHANGED <<state, discovering, closed, ctxDone, waiting, progress, failed,
                 reply, used>>

LookupInFlight(c) ==
  /\ pc[c] = "enter"
  /\ state = None
  /\ discovering # None
  /\ waiting' = [waiting EXCEPT ![c] = discovering]
  /\ Goto(c, "wait")
  /\ UNCHANGED <<state, discovering, closed, ctxDone, progress, failed, reply, used>>

\* Mutant: an attempt in flight does not keep a second one from starting.
StartAnyway(c) ==
  /\ pc[c] = "enter"
  /\ state = None
  /\ discovering' = c
  /\ Goto(c, "run")
  /\ UNCHANGED <<state, closed, ctxDone, waiting, progress, failed, reply, used>>

Start(c) ==
  /\ pc[c] = "enter"
  /\ state = None
  /\ discovering = None
  /\ discovering' = c
  /\ Goto(c, "run")
  /\ UNCHANGED <<state, closed, ctxDone, waiting, progress, failed, reply, used>>

Fail(c) ==
  /\ Goto(c, "done")
  /\ reply' = [reply EXCEPT ![c] = "error"]

\* The channel is closed: look again.
Wake(c) ==
  /\ pc[c] = "wait"
  /\ waiting[c] \in closed
  /\ Goto(c, "enter")
  /\ UNCHANGED <<state, discovering, closed, ctxDone, waiting, progress, failed,
                 reply, used>>

\* Mutant: a waiter listens to its context only once the attempt is over.
WakeCancelledLate(c) ==
  /\ pc[c] = "wait"
  /\ ctxDone[c]
  /\ waiting[c] \in closed
  /\ Fail(c)
  /\ UNCHANGED <<state, discovering, closed, ctxDone, waiting, progress, failed, used>>

WakeCancelled(c) ==
  /\ pc[c] = "wait"
  /\ ctxDone[c]
  /\ Fail(c)
  /\ UNCHANGED <<state, discovering, closed, ctxDone, waiting, progress, failed, used>>

-----------------------------------------------------------------------------
(* The attempt: doDiscover and runDiscovery, outside the mutex. *)

\* The attempt has failed or has made all its requests.
Over(c) == failed[c] \/ progress[c] = Steps

\* A PROPFIND is answered with usable locations.
Propfind(c) ==
  /\ pc[c] = "run"
  /\ ~Over(c)
  /\ progress' = [progress EXCEPT ![c] = @ + 1]
  /\ UNCHANGED <<state, discovering, closed, pc, ctxDone, waiting, failed, reply, used>>

\* A PROPFIND fails or its answer is malformed, ambiguous, too large or outside
\* the allowed hosts; for contacts, also the ten seconds of the attempt are over.
PropfindFails(c) ==
  /\ pc[c] = "run"
  /\ ~Over(c)
  /\ failed' = [failed EXCEPT ![c] = TRUE]
  /\ UNCHANGED <<state, discovering, closed, pc, ctxDone, waiting, progress, reply, used>>

\* The attempt runs under its owner's context.
PropfindCancelled(c) == ctxDone[c] /\ PropfindFails(c)

\* Mutant: a failed attempt publishes what it has.
PublishAlways(c) == c

\* Only a complete attempt is published.
Publish(c) == IF failed[c] THEN state ELSE c

\* Mutant: the channel is closed after a success only.
CloseOnSuccess(c) == IF failed[c] THEN closed ELSE closed \cup {c}

Close(c) == closed \cup {c}

\* The second critical section: publish, clear, close, return.
Finish(c) ==
  /\ pc[c] = "run"
  /\ Over(c)
  /\ state' = Publish(c)
  /\ discovering' = None
  /\ closed' = Close(c)
  /\ IF failed[c] THEN Fail(c) ELSE Goto(c, "nil") /\ UNCHANGED reply
  /\ UNCHANGED <<ctxDone, waiting, progress, failed, used>>

\* The caller goes on and reads the locations, without the mutex.
Use(c) ==
  /\ pc[c] = "nil"
  /\ used' = [used EXCEPT ![c] = state]
  /\ reply' = [reply EXCEPT ![c] = "nil"]
  /\ Goto(c, "done")
  /\ UNCHANGED <<state, discovering, closed, ctxDone, waiting, progress, failed>>

-----------------------------------------------------------------------------

\* The steps of a caller that depend on nobody else.
LocalStep(c) ==
  \/ LookupDiscovered(c) \/ LookupInFlight(c) \/ Start(c)
  \/ Wake(c) \/ WakeCancelled(c) \/ PropfindCancelled(c) \/ Finish(c) \/ Use(c)

Answer(c) == Propfind(c) \/ PropfindFails(c)

Next == \E c \in Callers : Call(c) \/ Expire(c) \/ LocalStep(c) \/ Answer(c)

Spec == Init /\ [][Next]_vars

\* Goroutines run and the HTTP client honours the end of a context.  Nothing is
\* assumed of the server or of the contexts.
FairSpec == Spec /\ \A c \in Callers : WF_vars(LocalStep(c))

-----------------------------------------------------------------------------
(* Properties. *)

\* The shape of the client's discovery state and of the callers.
TypeOK ==
  /\ state \in Callers \cup {None}
  /\ discovering \in Callers \cup {None}
  /\ closed \in SUBSET Callers
  /\ pc \in [Callers -> {"idle", "enter", "wait", "run", "nil", "done"}]
  /\ ctxDone \in [Callers -> BOOLEAN]
  /\ waiting \in [Callers -> Callers \cup {None}]
  /\ progress \in [Callers -> 0..Steps]
  /\ failed \in [Callers -> BOOLEAN]
  /\ reply \in [Callers -> {"none", "nil", "error"}]
  /\ used \in [Callers -> Callers \cup {None}]

\* discover is single flight: never two attempts at once, and none at all once a
\* result is published.
SingleFlight ==
  \A c \in Callers : pc[c] = "run" =>
    /\ state = None
    /\ \A d \in Callers : pc[d] = "run" => d = c

\* No waiter is forgotten: the channel it waits on is closed, or its owner is still
\* running the attempt and will close it.  An attempt that ends without closing
\* its channel would hold its waiters until their deadlines.
NoLostWakeup ==
  \A c \in Callers :
    pc[c] = "wait" => waiting[c] \in closed \cup {d \in Callers : pc[d] = "run"}

\* Everyone who got nil reads the same locations, those of an attempt in which
\* every PROPFIND succeeded, although they are read without the mutex.
OneCompleteResult ==
  \A c \in Callers : reply[c] = "nil" =>
    /\ used[c] # None
    /\ progress[used[c]] = Steps /\ ~failed[used[c]]
    /\ \A d \in Callers : reply[d] = "nil" => used[d] = used[c]

\* A caller fails only for reasons of its own: its attempt failed or its context
\* ended.  The failure of the attempt it waited for makes it try again.
OwnFailureOnly ==
  \A c \in Callers : reply[c] = "error" => failed[c] \/ ctxDone[c]

\* discovery.go: callers "can cancel without waiting for the in-flight caller's
\* network deadline".  A caller whose context ends returns, even when the attempt
\* of another caller hangs for ever.
CancelledReturns ==
  \A c \in Callers : (ctxDone[c] /\ pc[c] # "idle") ~> (pc[c] = "done")

\* If the server answers, every caller returns without the help of its deadline,
\* however many attempts before its own have failed.
AnsweredReturns ==
  (\A c \in Callers : WF_vars(Answer(c))) =>
    \A c \in Callers : (pc[c] = "enter") ~> (pc[c] = "done")
=============================================================================
