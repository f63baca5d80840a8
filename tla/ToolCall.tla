------------------------------ MODULE ToolCall ------------------------------
(***************************************************************************)
(* One MCP tool call through the timeout middleware, and the stdio server  *)
(* around it (cmd/icloud-mcp/main.go, cmd/icloud-mcp/bounded_stdio.go).    *)
(*                                                                         *)
(* Each call runs in two goroutines: the middleware, which answers the     *)
(* client, and the handler, which the middleware abandons after the grace  *)
(* period.  They share a slot of the handlerSlots channel, a buffered      *)
(* outcome channel and a context.  Handlers may hang for ever; Go's select *)
(* takes any ready case; timers fire at any time after they are set.       *)
(*                                                                         *)
(* The mcp-go stdio server is external: it hands calls to workers, and its *)
(* Listen returns once the input has ended or its context is cancelled and *)
(* every worker has its answer.                                            *)
(***************************************************************************)
EXTENDS Naturals, FiniteSets

CONSTANTS
  Calls,        \* tool calls
  ToolNames,    \* the tools that may be called
  MaxInFlight,  \* maxInFlightHandlers
  NoTool        \* the tool of a call that was not made

\* The tools that change Calendar, Contacts or Mail state, as the registration
\* groups them; every other tool only reads.
MutatingTools ==
  {"create_event", "update_event", "delete_event",
   "create_contact", "update_contact", "delete_contact",
   "set_message_flags", "move_message", "trash_message",
   "send_message", "reply_message"}

ASSUME SlotsAssumption == MaxInFlight \in Nat \ {0} /\ NoTool \notin ToolNames

VARIABLES
  call,      \* where the middleware is
  tool,      \* the tool of each call
  handler,   \* where the handler goroutine is
  outcome,   \* a result sits in the call's buffered channel
  ctxDone,   \* the call's context is cancelled or past its deadline
  slots,     \* how many tokens the handlerSlots channel holds
  sent,      \* the handler has dispatched a mutation to iCloud
  reply,     \* what the client was told
  input,     \* stdin: open, at a normal end, or failed
  stopping,  \* the server's context is cancelled
  terminal,  \* the error that cancelOnReadError recorded
  exit       \* what listenBoundedStdio returned

vars == <<call, tool, handler, outcome, ctxDone, slots, sent, reply,
          input, stopping, terminal, exit>>

Init ==
  /\ call = [c \in Calls |-> "absent"]
  /\ tool = [c \in Calls |-> NoTool]
  /\ handler = [c \in Calls |-> "none"]
  /\ outcome = [c \in Calls |-> FALSE]
  /\ ctxDone = [c \in Calls |-> FALSE]
  /\ slots = 0
  /\ sent = [c \in Calls |-> FALSE]
  /\ reply = [c \in Calls |-> "none"]
  /\ input = "open"
  /\ stopping = FALSE
  /\ terminal = "none"
  /\ exit = "none"

server == <<input, stopping, terminal, exit>>

-----------------------------------------------------------------------------
(* The middleware. *)

\* A worker takes the request; its context descends from the server's.
Receive(c, t) ==
  /\ call[c] = "absent"
  /\ exit = "none"
  /\ input = "open"
  /\ call' = [call EXCEPT ![c] = "entered"]
  /\ tool' = [tool EXCEPT ![c] = t]
  /\ ctxDone' = [ctxDone EXCEPT ![c] = stopping]
  /\ UNCHANGED <<handler, outcome, slots, sent, reply, server>>

\* isMutationToolName
IsMutationToolName(name) ==
  name \in {"create_event", "update_event", "delete_event",
            "create_contact", "update_contact", "delete_contact",
            "set_message_flags", "move_message", "trash_message", "send_message"}

\* toolTimeoutResult: guidance on reconciliation goes to mutation tools only.
ToolTimeoutResult(name) ==
  IF IsMutationToolName(name) THEN "timeout_reconcile" ELSE "timeout"

\* Every return cancels the call's context.
Answer(c, r) ==
  /\ call' = [call EXCEPT ![c] = "answered"]
  /\ reply' = [reply EXCEPT ![c] = r]
  /\ ctxDone' = [ctxDone EXCEPT ![c] = TRUE]

\* The context is already over when the call comes in.
EnterExpired(c) ==
  /\ call[c] = "entered"
  /\ ctxDone[c]
  /\ Answer(c, ToolTimeoutResult(tool[c]))
  /\ UNCHANGED <<tool, handler, outcome, slots, sent, server>>

EnterQueue(c) ==
  /\ call[c] = "entered"
  /\ ~ctxDone[c]
  /\ call' = [call EXCEPT ![c] = "acquire"]
  /\ UNCHANGED <<tool, handler, outcome, ctxDone, slots, sent, reply, server>>

AcquireSlot(c) ==
  /\ call[c] = "acquire"
  /\ slots < MaxInFlight
  /\ slots' = slots + 1
  /\ call' = [call EXCEPT ![c] = "recheck"]
  /\ UNCHANGED <<tool, handler, outcome, ctxDone, sent, reply, server>>

\* Mutant: the deadline is noticed only once a slot is free.
AcquireExpiredOnSlot(c) ==
  /\ call[c] = "acquire"
  /\ ctxDone[c]
  /\ slots < MaxInFlight
  /\ Answer(c, ToolTimeoutResult(tool[c]))
  /\ UNCHANGED <<tool, handler, outcome, slots, sent, server>>

AcquireExpired(c) ==
  /\ call[c] = "acquire"
  /\ ctxDone[c]
  /\ Answer(c, ToolTimeoutResult(tool[c]))
  /\ UNCHANGED <<tool, handler, outcome, slots, sent, server>>

\* Mutant: the slot won at the deadline is not given back.
RecheckExpiredLeaks(c) ==
  /\ call[c] = "recheck"
  /\ ctxDone[c]
  /\ Answer(c, ToolTimeoutResult(tool[c]))
  /\ UNCHANGED <<tool, handler, outcome, slots, sent, server>>

\* The slot was won together with the deadline: it is given back at once.
RecheckExpired(c) ==
  /\ call[c] = "recheck"
  /\ ctxDone[c]
  /\ slots' = slots - 1
  /\ Answer(c, ToolTimeoutResult(tool[c]))
  /\ UNCHANGED <<tool, handler, outcome, sent, server>>

StartHandler(c) ==
  /\ call[c] = "recheck"
  /\ ~ctxDone[c]
  /\ call' = [call EXCEPT ![c] = "select"]
  /\ handler' = [handler EXCEPT ![c] = "running"]
  /\ UNCHANGED <<tool, outcome, ctxDone, slots, sent, reply, server>>

\* The outcome arrives, before the deadline or during the grace period.
TakeOutcome(c) ==
  /\ call[c] \in {"select", "grace"}
  /\ outcome[c]
  /\ outcome' = [outcome EXCEPT ![c] = FALSE]
  /\ Answer(c, "result")
  /\ UNCHANGED <<tool, handler, slots, sent, server>>

SeeDeadline(c) ==
  /\ call[c] = "select"
  /\ ctxDone[c]
  /\ call' = [call EXCEPT ![c] = "grace"]
  /\ UNCHANGED <<tool, handler, outcome, ctxDone, slots, sent, reply, server>>

\* The slot stays with the handler, which may still be running.
GraceExpires(c) ==
  /\ call[c] = "grace"
  /\ Answer(c, ToolTimeoutResult(tool[c]))
  /\ UNCHANGED <<tool, handler, outcome, slots, sent, server>>

-----------------------------------------------------------------------------
(* The handler goroutine.  The recovery middleware turns a panic into a      *)
(* result.                                                                   *)

Dispatch(c) ==
  /\ handler[c] = "running"
  /\ tool[c] \in MutatingTools
  /\ ~sent[c]
  /\ sent' = [sent EXCEPT ![c] = TRUE]
  /\ UNCHANGED <<call, tool, handler, outcome, ctxDone, slots, reply, server>>

\* The buffered channel takes the result even when nobody reads it any more.
HandlerReturn(c) ==
  /\ handler[c] = "running"
  /\ handler' = [handler EXCEPT ![c] = "returned"]
  /\ outcome' = [outcome EXCEPT ![c] = TRUE]
  /\ UNCHANGED <<call, tool, ctxDone, slots, sent, reply, server>>

ReleaseSlot(c) ==
  /\ handler[c] = "returned"
  /\ handler' = [handler EXCEPT ![c] = "exited"]
  /\ slots' = slots - 1
  /\ UNCHANGED <<call, tool, outcome, ctxDone, sent, reply, server>>

\* The deadline of the call, or the client's cancellation.
Expire(c) ==
  /\ call[c] \notin {"absent", "answered"}
  /\ ~ctxDone[c]
  /\ ctxDone' = [ctxDone EXCEPT ![c] = TRUE]
  /\ UNCHANGED <<call, tool, handler, outcome, slots, sent, reply, server>>

-----------------------------------------------------------------------------
(* The stdio server. *)

\* Cancelling the server's context cancels that of every call.
CancelAll == ctxDone' = [c \in Calls |-> ctxDone[c] \/ call[c] # "absent"]

\* Mutant: the error is recorded but the handlers are not cancelled.
ReadErrorNoCancel(kind) ==
  /\ input = "open"
  /\ exit = "none"
  /\ input' = kind
  /\ terminal' = IF terminal = "none" THEN kind ELSE terminal
  /\ stopping' = TRUE
  /\ UNCHANGED <<call, tool, handler, outcome, ctxDone, slots, sent, reply, exit>>

\* cancelOnReadError.Read: the first terminal error is recorded, and every
\* handler is cancelled before Listen waits for its workers.
ReadError(kind) ==
  /\ input = "open"
  /\ exit = "none"
  /\ input' = kind
  /\ terminal' = IF terminal = "none" THEN kind ELSE terminal
  /\ stopping' = TRUE
  /\ CancelAll
  /\ UNCHANGED <<call, tool, handler, outcome, slots, sent, reply, exit>>

\* SIGTERM or SIGINT.
Signal ==
  /\ exit = "none"
  /\ ~stopping
  /\ stopping' = TRUE
  /\ CancelAll
  /\ UNCHANGED <<call, tool, handler, outcome, slots, sent, reply, input,
                 terminal, exit>>

\* Mutant: a cancelled context counts as a clean end, whatever cancelled it.
ListenCancelledIsClean ==
  /\ exit = "none"
  /\ stopping
  /\ \A c \in Calls : call[c] \in {"absent", "answered"}
  /\ exit' = "ok"
  /\ UNCHANGED <<call, tool, handler, outcome, ctxDone, slots, sent, reply,
                 input, stopping, terminal>>

\* A recorded framing failure wins over the cancellation it caused.
ListenBoundedStdio ==
  /\ exit = "none"
  /\ stopping
  /\ \A c \in Calls : call[c] \in {"absent", "answered"}
  /\ exit' = IF terminal = "failed" THEN "error" ELSE "ok"
  /\ UNCHANGED <<call, tool, handler, outcome, ctxDone, slots, sent, reply,
                 input, stopping, terminal>>

Middleware(c) ==
  \/ EnterExpired(c) \/ EnterQueue(c)
  \/ AcquireSlot(c) \/ AcquireExpired(c)
  \/ RecheckExpired(c) \/ StartHandler(c)
  \/ TakeOutcome(c) \/ SeeDeadline(c) \/ GraceExpires(c)

Handler(c) == Dispatch(c) \/ HandlerReturn(c) \/ ReleaseSlot(c)

Next ==
  \/ \E c \in Calls :
       \/ \E t \in ToolNames : Receive(c, t)
       \/ Middleware(c) \/ Handler(c) \/ Expire(c)
  \/ \E kind \in {"eof", "failed"} : ReadError(kind)
  \/ Signal
  \/ ListenBoundedStdio

Spec == Init /\ [][Next]_vars

\* The middleware goroutine is scheduled and its grace timer fires; Listen
\* returns when it can.  Nothing is assumed of handlers or of deadlines.
FairSpec ==
  /\ Spec
  /\ \A c \in Calls : WF_vars(Middleware(c))
  /\ WF_vars(ListenBoundedStdio)

-----------------------------------------------------------------------------
(* Properties. *)

\* The shape of the state of calls, handlers and the server.
TypeOK ==
  /\ call \in [Calls -> {"absent", "entered", "acquire", "recheck", "select",
                         "grace", "answered"}]
  /\ tool \in [Calls -> ToolNames \cup {NoTool}]
  /\ handler \in [Calls -> {"none", "running", "returned", "exited"}]
  /\ outcome \in [Calls -> BOOLEAN]
  /\ ctxDone \in [Calls -> BOOLEAN]
  /\ slots \in 0..MaxInFlight
  /\ sent \in [Calls -> BOOLEAN]
  /\ reply \in [Calls -> {"none", "result", "timeout", "timeout_reconcile"}]
  /\ input \in {"open", "eof", "failed"}
  /\ stopping \in BOOLEAN
  /\ terminal \in {"none", "eof", "failed"}
  /\ exit \in {"none", "ok", "error"}

\* Calls that own a token of handlerSlots.
SlotHolders ==
  {c \in Calls : call[c] = "recheck" \/ handler[c] \in {"running", "returned"}}

\* The tokens in handlerSlots are exactly the calls that own one: an abandoned
\* handler keeps its slot until it exits, no path leaks or returns one twice,
\* and so no more than MaxInFlight handlers ever run, whatever was answered.
SlotAccounting == slots = Cardinality(SlotHolders)

\* A framing failure that ended the input is what the process reports, also
\* when the cancellation it triggered, or a signal, wins the race.
ReadFailureReported ==
  exit # "none" => (exit = "error" <=> input = "failed")

\* If the timers of the calls fire, every call is answered, even when every handler
\* hangs and holds its slot.
CallAnswered ==
  (\A c \in Calls : WF_vars(Expire(c))) =>
    \A c \in Calls : (call[c] = "entered") ~> (call[c] = "answered")

\* Once the input has ended or a signal has come the server stops, without
\* waiting for any handler or for any tool deadline.
ServerStops == stopping ~> (exit # "none")
=============================================================================
