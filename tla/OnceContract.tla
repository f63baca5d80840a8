---------------------------- MODULE OnceContract ----------------------------
(***************************************************************************)
(* What a caller of a keyed mutation is promised, whatever cache provides  *)
(* it (the update cache of internal/mcptools/idempotency.go or the send    *)
(* cache of internal/mail/send_idempotency.go):                            *)
(*                                                                         *)
(*  - a key is held by at most one execution at a time, and an execution   *)
(*    starts only on a key that nobody holds;                              *)
(*  - a key is given up only by an execution whose result is known; an     *)
(*    execution whose effect is uncertain holds its key for ever;          *)
(*  - a duplicate request is answered with the result of an execution of   *)
(*    the same key with the same parameters, and only once that execution  *)
(*    has ended.                                                           *)
(*                                                                         *)
(* The module has no clock, no mutex, no channel and no capacity: those    *)
(* belong to the two implementations.                                      *)
(***************************************************************************)
CONSTANTS
  Calls,     \* tool calls, each an MCP request in flight or finished
  Keys,      \* idempotency keys
  Params,    \* parameter hashes / fingerprints
  None,      \* "no call", "no request", "no answer"
  Refused    \* the answer of a call that neither ran nor was given a result

VARIABLES
  ask,       \* ask[c]: the request of call c, or None
  holder,    \* holder[k]: the call whose execution holds key k, or None
  fate,      \* fate[c]: what became of c's own execution
  answer     \* answer[c]: the call whose result c returned, Refused, or None

vars == <<ask, holder, fate, answer>>

Requests == [key : Keys, params : Params]

Init ==
  /\ ask = [c \in Calls |-> None]
  /\ holder = [k \in Keys |-> None]
  /\ fate = [c \in Calls |-> "none"]
  /\ answer = [c \in Calls |-> None]

\* A key may be given up by an execution that ended with a known result.
MayRelease(h) ==
  { g \in [Keys -> Calls \cup {None}] :
      \A k \in Keys :
        \/ g[k] = h[k]
        \/ g[k] = None /\ h[k] # None /\ fate[h[k]] = "known" }

Open(c) == ask[c] # None /\ fate[c] = "none" /\ answer[c] = None

Ask(c) ==
  /\ ask[c] = None
  /\ \E r \in Requests : ask' = [ask EXCEPT ![c] = r]
  /\ UNCHANGED <<holder, fate, answer>>

Execute(c) ==
  /\ Open(c)
  /\ \E g \in MayRelease(holder) :
       /\ g[ask[c].key] = None
       /\ holder' = [g EXCEPT ![ask[c].key] = c]
  /\ fate' = [fate EXCEPT ![c] = "running"]
  /\ UNCHANGED <<ask, answer>>

Settle(c) ==
  /\ fate[c] = "running"
  /\ \E f \in {"known", "uncertain"} : fate' = [fate EXCEPT ![c] = f]
  /\ answer' = [answer EXCEPT ![c] = c]
  /\ UNCHANGED <<ask, holder>>

Replay(c, d) ==
  /\ Open(c)
  /\ fate[d] \in {"known", "uncertain"}
  /\ ask[d] = ask[c]
  /\ answer' = [answer EXCEPT ![c] = d]
  /\ holder' \in MayRelease(holder)
  /\ UNCHANGED <<ask, fate>>

Refuse(c) ==
  /\ Open(c)
  /\ answer' = [answer EXCEPT ![c] = Refused]
  /\ holder' \in MayRelease(holder)
  /\ UNCHANGED <<ask, fate>>

\* A call may give keys up while it is told to wait for a running execution.
Defer(c) ==
  /\ Open(c)
  /\ holder' \in MayRelease(holder)
  /\ UNCHANGED <<ask, fate, answer>>

Next ==
  \E c \in Calls :
    \/ Ask(c)
    \/ Execute(c)
    \/ Settle(c)
    \/ \E d \in Calls : Replay(c, d)
    \/ Refuse(c)
    \/ Defer(c)

Spec == Init /\ [][Next]_vars
=============================================================================
