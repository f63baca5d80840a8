-------------------------- MODULE IdempotencyStore --------------------------
(***************************************************************************)
(* The process-local idempotency cache shared by update_event and          *)
(* update_contact (internal/mcptools/idempotency.go) together with the two *)
(* handlers that use it (update_event.go, contacts_write.go).              *)
(*                                                                         *)
(* The store's mutex makes beginContext's look-up-or-claim and complete    *)
(* each one atomic step.  Everything else interleaves: a waiter sleeps on  *)
(* the channel of an entry object that may be purged from the map while it *)
(* sleeps, contexts are cancelled at any moment, the service may return,   *)
(* panic or hang, and a mutation whose outcome is unknown may still be     *)
(* applied by the server after the handler has gone.                       *)
(*                                                                         *)
(* An entry object is named by the call that claimed it, so that a waiter  *)
(* can hold the pointer after the map has dropped it.                      *)
(*                                                                         *)
(* Requests without idempotency_key never touch the store: they go         *)
(* straight to the service call and are left out here.                     *)
(***************************************************************************)
EXTENDS Naturals, FiniteSets

CONSTANTS
  Calls,       \* MCP tool calls, one handler goroutine each
  CallerKeys,  \* the idempotency_key strings callers choose
  Params,      \* values of hashIdempotencyParams (SHA-256, taken as injective)
  MaxEntries,  \* maxIdempotencyEntries
  TTL,         \* idempotencyTTL, in clock ticks
  MaxTime,     \* bound on the clock, for model checking
  None         \* a nil pointer, or a call that has not been made

Tools == {"update_event", "update_contact"}

ASSUME ConstantsAssumption ==
  /\ MaxEntries \in Nat \ {0}
  /\ TTL \in Nat \ {0}
  /\ MaxTime \in Nat
  /\ None \notin Calls
  /\ None \notin CallerKeys
  /\ None \notin [key : Tools \X CallerKeys, params : Params]

VARIABLES
  pc,          \* where each handler is
  req,         \* req[c]: the parsed request of call c
  ctxDone,     \* ctxDone[c]: c's context is cancelled or past its deadline
  entries,     \* the map: namespaced key -> entry object, or None
  entry,       \* the entry objects, by claiming call
  waitOn,      \* the entry object whose done channel a waiter selects on
  waitUntil,   \* when the waiter's own timer fires
  svc,         \* how the service call of an owner ended
  applied,     \* the server has applied the mutation of this call
  reply,       \* what the handler returned
  now,         \* the store's clock
  claimedAt,   \* history: when a call claimed its key (0: never)
  finishedAt   \* history: when complete recorded its outcome (0: never)

vars == <<pc, req, ctxDone, entries, entry, waitOn, waitUntil, svc, applied,
          reply, now, claimedAt, finishedAt>>

\* namespacedIdempotencyKey: the tool name isolates the caller's key.
NamespacedKey(tool, key) == <<tool, key>>
NsKeys == Tools \X CallerKeys

Requests == [tool : Tools, key : CallerKeys, params : Params]
NoRequest == [tool |-> "none", key |-> None, params |-> None]
KeyOf(c) == NamespacedKey(req[c].tool, req[c].key)
\* Mutant: the hash covers the tool name only.
SameHashToolOnly(c, d) == req[c].tool = req[d].tool

\* hashIdempotencyParams hashes the tool name with the parsed parameters.
SameHash(c, d) == req[c].tool = req[d].tool /\ req[c].params = req[d].params

\* The ways a service call can end.  "uncertain" stands for outcome_unknown, an
\* internal_error and an error without a code; "definite" for every other code.
ServiceResults == {"success", "definite", "uncertain", "panic"}

\* What complete stores.  A response that cannot be formatted after a
\* successful write and a handler that never produced a result are retained.
Classes == {"success", "definite", "uncertain", "format_error", "unrecorded"}
\* Mutant: every recorded result expires.
KnownWhateverClass(class) == class \in Classes

Known(class) == class \in {"success", "definite"}

Blank == [pending |-> FALSE, expires |-> 0, outcome |-> "none"]

NoReply == [kind |-> "none", of |-> None, class |-> "none"]
Reply(kind, d, class) == [kind |-> kind, of |-> d, class |-> class]

Init ==
  /\ pc = [c \in Calls |-> "idle"]
  /\ req = [c \in Calls |-> NoRequest]
  /\ ctxDone = [c \in Calls |-> FALSE]
  /\ entries = [k \in NsKeys |-> None]
  /\ entry = [c \in Calls |-> Blank]
  /\ waitOn = [c \in Calls |-> None]
  /\ waitUntil = [c \in Calls |-> 0]
  /\ svc = [c \in Calls |-> "none"]
  /\ applied = [c \in Calls |-> FALSE]
  /\ reply = [c \in Calls |-> NoReply]
  /\ now = 1
  /\ claimedAt = [c \in Calls |-> 0]
  /\ finishedAt = [c \in Calls |-> 0]

-----------------------------------------------------------------------------
(* The handlers up to the claim. *)

\* A request that fails local validation or authorization is denied before it
\* reaches the store or the service.
Deny(c) ==
  /\ pc[c] = "idle"
  /\ pc' = [pc EXCEPT ![c] = "done"]
  /\ reply' = [reply EXCEPT ![c] = Reply("denied", None, "none")]
  /\ UNCHANGED <<req, ctxDone, entries, entry, waitOn, waitUntil, svc, applied,
                 now, claimedAt, finishedAt>>

\* A valid keyed request goes to the store.
Accept(c, r) ==
  /\ pc[c] = "idle"
  /\ req' = [req EXCEPT ![c] = r]
  /\ pc' = [pc EXCEPT ![c] = "begin"]
  /\ UNCHANGED <<ctxDone, entries, entry, waitOn, waitUntil, svc, applied,
                 reply, now, claimedAt, finishedAt>>

UpdateEvent(c) ==
  \E k \in CallerKeys, p \in Params :
    Accept(c, [tool |-> "update_event", key |-> k, params |-> p])

UpdateContact(c) ==
  \E k \in CallerKeys, p \in Params :
    Accept(c, [tool |-> "update_contact", key |-> k, params |-> p])

-----------------------------------------------------------------------------
(* beginContext: one pass through the mutex. *)

\* Mutant: the zero expiry of a retained result is not special.
ExpiredZeroToo(d) == ~entry[d].pending /\ entry[d].expires <= now

\* purgeLocked drops the completed entries whose expiry is set and reached.
Expired(d) ==
  /\ ~entry[d].pending
  /\ entry[d].expires # 0
  /\ entry[d].expires <= now

PurgeLocked ==
  [k \in NsKeys |->
     IF entries[k] # None /\ Expired(entries[k]) THEN None ELSE entries[k]]

LiveEntries(m) == {k \in NsKeys : m[k] # None}

Return(c, r) ==
  /\ pc' = [pc EXCEPT ![c] = "done"]
  /\ reply' = [reply EXCEPT ![c] = r]

\* The context is checked under the lock, before the purge.
BeginCancelled(c) ==
  /\ pc[c] = "begin"
  /\ ctxDone[c]
  /\ Return(c, Reply("timeout", None, "none"))
  /\ UNCHANGED <<req, ctxDone, entries, entry, waitOn, waitUntil, svc, applied,
                 now, claimedAt, finishedAt>>

Lookup(c) ==
  /\ pc[c] = "begin"
  /\ ~ctxDone[c]
  /\ entries' = PurgeLocked
  /\ UNCHANGED <<req, ctxDone, svc, applied, now, finishedAt>>

\* Different parameters conflict, whether or not the entry is still pending.
BeginConflict(c) ==
  /\ Lookup(c)
  /\ LET d == PurgeLocked[KeyOf(c)]
     IN  /\ d # None
         /\ ~SameHash(c, d)
         /\ Return(c, Reply("conflict", None, "none"))
  /\ UNCHANGED <<entry, waitOn, waitUntil, claimedAt>>

BeginHit(c) ==
  /\ Lookup(c)
  /\ LET d == PurgeLocked[KeyOf(c)]
     IN  /\ d # None
         /\ SameHash(c, d)
         /\ ~entry[d].pending
         /\ Return(c, Reply("hit", d, entry[d].outcome))
  /\ UNCHANGED <<entry, waitOn, waitUntil, claimedAt>>

BeginWait(c) ==
  /\ Lookup(c)
  /\ LET d == PurgeLocked[KeyOf(c)]
     IN  /\ d # None
         /\ SameHash(c, d)
         /\ entry[d].pending
         /\ waitOn' = [waitOn EXCEPT ![c] = d]
  /\ waitUntil' = [waitUntil EXCEPT ![c] = now + TTL]
  /\ pc' = [pc EXCEPT ![c] = "wait"]
  /\ UNCHANGED <<entry, reply, claimedAt>>

BeginFull(c) ==
  /\ Lookup(c)
  /\ PurgeLocked[KeyOf(c)] = None
  /\ Cardinality(LiveEntries(PurgeLocked)) >= MaxEntries
  /\ Return(c, Reply("refused", None, "none"))
  /\ UNCHANGED <<entry, waitOn, waitUntil, claimedAt>>

BeginClaim(c) ==
  /\ pc[c] = "begin"
  /\ ~ctxDone[c]
  /\ PurgeLocked[KeyOf(c)] = None
  /\ Cardinality(LiveEntries(PurgeLocked)) < MaxEntries
  /\ entries' = [PurgeLocked EXCEPT ![KeyOf(c)] = c]
  /\ entry' = [entry EXCEPT ![c] = [Blank EXCEPT !.pending = TRUE]]
  /\ claimedAt' = [claimedAt EXCEPT ![c] = now]
  /\ pc' = [pc EXCEPT ![c] = "service"]
  /\ UNCHANGED <<req, ctxDone, waitOn, waitUntil, svc, applied, reply, now,
                 finishedAt>>

-----------------------------------------------------------------------------
(* beginContext: the select of a waiter.  When several cases are ready Go    *)
(* takes any of them.                                                        *)

\* The done channel is closed.  The waiter reads the outcome through its own
\* pointer, so a purge in between costs it nothing; its context is checked last.
WakeDone(c) ==
  /\ pc[c] = "wait"
  /\ ~entry[waitOn[c]].pending
  /\ Return(c, IF ctxDone[c]
               THEN Reply("timeout", None, "none")
               ELSE Reply("hit", waitOn[c], entry[waitOn[c]].outcome))
  /\ UNCHANGED <<req, ctxDone, entries, entry, waitOn, waitUntil, svc, applied,
                 now, claimedAt, finishedAt>>

\* Mutant: the select has no ctx.Done case.
WakeCancelledByTimer(c) ==
  /\ pc[c] = "wait"
  /\ ctxDone[c]
  /\ now >= waitUntil[c]
  /\ Return(c, Reply("timeout", None, "none"))
  /\ UNCHANGED <<req, ctxDone, entries, entry, waitOn, waitUntil, svc, applied,
                 now, claimedAt, finishedAt>>

WakeCancelled(c) ==
  /\ pc[c] = "wait"
  /\ ctxDone[c]
  /\ Return(c, Reply("timeout", None, "none"))
  /\ UNCHANGED <<req, ctxDone, entries, entry, waitOn, waitUntil, svc, applied,
                 now, claimedAt, finishedAt>>

\* Mutant: a waiter that runs out of patience drops the owner's claim.
WakeTimerTakesOver(c) ==
  /\ pc[c] = "wait"
  /\ now >= waitUntil[c]
  /\ entries' = [entries EXCEPT ![KeyOf(c)] = None]
  /\ pc' = [pc EXCEPT ![c] = "begin"]
  /\ UNCHANGED <<req, ctxDone, entry, waitOn, waitUntil, svc, applied, reply,
                 now, claimedAt, finishedAt>>

\* A timer releases only this waiter, never the owner's claim.
WakeTimer(c) ==
  /\ pc[c] = "wait"
  /\ now >= waitUntil[c]
  /\ Return(c, Reply(IF ctxDone[c] THEN "timeout" ELSE "refused", None, "none"))
  /\ UNCHANGED <<req, ctxDone, entries, entry, waitOn, waitUntil, svc, applied,
                 now, claimedAt, finishedAt>>

-----------------------------------------------------------------------------
(* The service call of an owner, and complete. *)

\* The mutation ends.  Success means the server applied it, a definite error
\* that it did not; otherwise it may or may not have been applied (yet).
ServiceReturn(c, r) ==
  /\ pc[c] = "service"
  /\ svc' = [svc EXCEPT ![c] = r]
  /\ \E a \in BOOLEAN :
       /\ r = "success" => a
       /\ r = "definite" => ~a
       /\ applied' = [applied EXCEPT ![c] = a]
  /\ pc' = [pc EXCEPT ![c] = "finish"]
  /\ UNCHANGED <<req, ctxDone, entries, entry, waitOn, waitUntil, reply, now,
                 claimedAt, finishedAt>>

\* The class under which the handler records a result; a result that is missing
\* or does not fit the cache is replaced by a placeholder and retained.
ClassOf(r, formatted) ==
  CASE r = "panic"                                         -> "unrecorded"
    [] r = "success" /\ ~formatted                         -> "format_error"
    [] r \in {"definite", "uncertain"} /\ ~formatted       -> "unrecorded"
    [] OTHER                                               -> r

\* complete() records the outcome, sets an expiry only for a known one, and
\* closes the done channel.  It does nothing for an entry that is not there.
Complete(c) ==
  /\ pc[c] = "finish"
  /\ \E formatted \in BOOLEAN :
       LET class == ClassOf(svc[c], formatted)
           mine  == /\ entries[KeyOf(c)] # None
                    /\ entry[entries[KeyOf(c)]].pending
                    /\ SameHash(c, entries[KeyOf(c)])
           d     == entries[KeyOf(c)]
       IN  /\ Return(c, Reply("own", c, class))
           /\ entry' = IF mine
                       THEN [entry EXCEPT ![d] =
                              [pending |-> FALSE, outcome |-> class,
                               expires |-> IF Known(class) THEN now + TTL ELSE 0]]
                       ELSE entry
           /\ finishedAt' = IF mine THEN [finishedAt EXCEPT ![d] = now]
                                    ELSE finishedAt
  /\ UNCHANGED <<req, ctxDone, entries, waitOn, waitUntil, svc, applied, now,
                 claimedAt>>

-----------------------------------------------------------------------------
(* The environment. *)

\* The tool deadline, a client's cancellation or a shutdown.  Only beginContext
\* reads the context; what it does to the service call is part of ServiceReturn.
CancelContext(c) ==
  /\ pc[c] \in {"begin", "wait"}
  /\ ~ctxDone[c]
  /\ ctxDone' = [ctxDone EXCEPT ![c] = TRUE]
  /\ UNCHANGED <<pc, req, entries, entry, waitOn, waitUntil, svc, applied,
                 reply, now, claimedAt, finishedAt>>

\* A dispatched mutation of unknown outcome reaches the server late.
LateApply(c) ==
  /\ svc[c] \in {"uncertain", "panic"}
  /\ ~applied[c]
  /\ applied' = [applied EXCEPT ![c] = TRUE]
  /\ UNCHANGED <<pc, req, ctxDone, entries, entry, waitOn, waitUntil, svc,
                 reply, now, claimedAt, finishedAt>>

Tick ==
  /\ now < MaxTime
  /\ now' = now + 1
  /\ UNCHANGED <<pc, req, ctxDone, entries, entry, waitOn, waitUntil, svc,
                 applied, reply, claimedAt, finishedAt>>

Begin(c) ==
  \/ BeginCancelled(c) \/ BeginConflict(c) \/ BeginHit(c)
  \/ BeginWait(c) \/ BeginFull(c) \/ BeginClaim(c)

Wake(c) == WakeDone(c) \/ WakeCancelled(c) \/ WakeTimer(c)

Next ==
  \/ \E c \in Calls :
       \/ Deny(c) \/ UpdateEvent(c) \/ UpdateContact(c)
       \/ Begin(c) \/ Wake(c)
       \/ \E r \in ServiceResults : ServiceReturn(c, r)
       \/ Complete(c) \/ CancelContext(c) \/ LateApply(c)
  \/ Tick

Spec == Init /\ [][Next]_vars

\* Handlers keep running and the tool deadline fires; nothing is assumed of the
\* service, of callers or of the clock.
Fairness ==
  \A c \in Calls :
    /\ WF_vars(Begin(c))
    /\ WF_vars(Wake(c))
    /\ WF_vars(Complete(c))
    /\ WF_vars(CancelContext(c))

FairSpec == Spec /\ Fairness

-----------------------------------------------------------------------------
(* Properties. *)

\* The shape of the state: pointers, stages and records of the store and of the
\* handlers.
TypeOK ==
  /\ pc \in [Calls -> {"idle", "begin", "wait", "service", "finish", "done"}]
  /\ req \in [Calls -> Requests \cup {NoRequest}]
  /\ ctxDone \in [Calls -> BOOLEAN]
  /\ entries \in [NsKeys -> Calls \cup {None}]
  /\ entry \in [Calls -> [pending : BOOLEAN, expires : Nat,
                          outcome : Classes \cup {"none"}]]
  /\ waitOn \in [Calls -> Calls \cup {None}]
  /\ waitUntil \in [Calls -> Nat]
  /\ svc \in [Calls -> ServiceResults \cup {"none"}]
  /\ applied \in [Calls -> BOOLEAN]
  /\ reply \in [Calls -> [kind : {"none", "denied", "conflict", "hit", "timeout",
                                  "refused", "own"},
                          of : Calls \cup {None},
                          class : Classes \cup {"none"}]]
  /\ now \in Nat \ {0}
  /\ claimedAt \in [Calls -> Nat]
  /\ finishedAt \in [Calls -> Nat]

\* Two calls used the same tool with the same caller-chosen key.
SameKey(c, d) ==
  /\ req[c] # NoRequest
  /\ req[c].tool = req[d].tool
  /\ req[c].key = req[d].key

\* The execution of a ended with a known result whose 15 minutes were over when
\* b claimed the key.
OverBefore(a, b) ==
  /\ finishedAt[a] # 0
  /\ entry[a].outcome \in {"success", "definite"}
  /\ finishedAt[a] + TTL <= claimedAt[b]

\* Two calls with the same tool and key both reach the service only when one of
\* them had completed with a known result a full TTL before the other claimed
\* the key: no overlap, no repeat of an uncertain, interrupted or unformatted
\* one, no early repeat (beginContext, complete, purgeLocked).
RepeatOnlyAfterKnownExpiry ==
  \A c, d \in Calls :
    (c # d /\ SameKey(c, d) /\ claimedAt[c] # 0 /\ claimedAt[d] # 0)
      => OverBefore(c, d) \/ OverBefore(d, c)

\* A duplicate that is answered from the cache gets the result of a finished
\* call with its own tool, key and parameters, and that result tells the truth
\* about what the server applied, also when the entry was purged meanwhile.
ReplayTellsTheTruth ==
  \A c \in Calls :
    reply[c].kind = "hit" =>
      LET d == reply[c].of
      IN  /\ d \in Calls \ {c}
          /\ SameKey(c, d)
          /\ req[c].params = req[d].params
          /\ pc[d] = "done"
          /\ reply[c].class = "success" => applied[d]
          /\ reply[c].class = "definite" => ~applied[d]

\* The map forgets a key only when its result is known and its time is over;
\* pending and uncertain claims are never evicted to make room.
ForgetsOnlyKnownExpired ==
  [][\A k \in NsKeys :
       (entries[k] # None /\ entries'[k] # entries[k])
         => /\ entry[entries[k]].outcome \in {"success", "definite"}
            /\ finishedAt[entries[k]] + TTL <= now]_vars

\* A keyed call is never stuck behind another one, not even behind an owner
\* whose service call never returns: it is answered, or it becomes the owner.
\* Calls differ only by name, so it is enough to follow one of them.
KeyedCallAnswered ==
  LET c == CHOOSE c \in Calls : TRUE
  IN  (pc[c] \in {"begin", "wait"}) ~> (pc[c] \in {"service", "done"})

-----------------------------------------------------------------------------
(* The store implements the contract of OnceContract; a call that the store   *)
(* turns away was refused.                                                    *)

Fate(c) ==
  IF claimedAt[c] = 0 THEN "none"
  ELSE IF entry[c].pending THEN "running"
  ELSE IF entry[c].outcome \in {"success", "definite"} THEN "known" ELSE "uncertain"

Answer(c) ==
  CASE reply[c].kind \in {"none", "denied"} -> None
    [] reply[c].kind \in {"own", "hit"}     -> reply[c].of
    [] OTHER                                -> "refused"

AskOf == [c \in Calls |-> IF req[c] = NoRequest THEN None
                          ELSE [key |-> KeyOf(c), params |-> req[c].params]]
FateOf == [c \in Calls |-> Fate(c)]
AnswerOf == [c \in Calls |-> Answer(c)]

Contract == INSTANCE OnceContract WITH
  Keys <- NsKeys, Refused <- "refused",
  ask <- AskOf, holder <- entries, fate <- FateOf, answer <- AnswerOf

\* Every step of the cache and of its two handlers is a step of the contract: a
\* key is held by one execution, only known results give it up, and duplicates
\* get the result of an ended execution of the same request.
ImplementsContract == Contract!Spec

=============================================================================
