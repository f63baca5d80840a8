------------------------------ MODULE MailSend ------------------------------
(***************************************************************************)
(* Sending mail: Client.SendMessage with the send idempotency cache        *)
(* (internal/mail/send_idempotency.go) and the SMTP submission sendOnce    *)
(* (internal/mail/smtp.go).  reply_message builds a request from a source  *)
(* message and goes through the same SendMessage (reply.go).  No tool call *)
(* sets ArchiveSent: the handler refuses the argument archive_sent         *)
(* (mail_handlers.go:267), so the Sent copy of sendOnce is left out.       *)
(*                                                                         *)
(* The SMTP server is external: a command is answered definitively         *)
(* (4xx/5xx), or the reply is lost, or the reply makes the parser panic.   *)
(* A message whose final reply is missing may be delivered at once, later  *)
(* or never.                                                               *)
(*                                                                         *)
(* A claim is named by the call that made it; claims are never dropped     *)
(* while the process lives.                                                *)
(***************************************************************************)
EXTENDS Naturals, FiniteSets

CONSTANTS
  Calls,         \* send_message and reply_message calls
  Keys,          \* idempotency_key strings
  Contents,      \* sender, recipients, subject, body and reply headers
  Recipients,    \* the recipients of a message
  MaxEntries,    \* maxSendIdempotencyEntries
  SendSlots,     \* capacity of sendSem
  None           \* no key, no call

ASSUME ConstantsAssumption ==
  /\ MaxEntries \in Nat \ {0}
  /\ SendSlots \in Nat \ {0}
  /\ IsFiniteSet(Recipients) /\ Recipients # {}
  /\ None \notin Calls \cup Keys \cup [key : Keys, params : Contents]

VARIABLES
  pc,          \* where each call is
  req,         \* the request
  ctxDone,     \* the call's context is over
  entries,     \* the cache: key -> claiming call
  closed,      \* the claim's done channel is closed
  sem,         \* tokens in sendSem
  tried,       \* recipients for which RCPT was issued
  envelope,    \* recipients the server accepted
  started,     \* dataPhase.started
  delivered,   \* recipients the server has sent the message to
  result,      \* the status that sendOnce produced
  reply        \* what SendMessage returned, and from whose submission

vars == <<pc, req, ctxDone, entries, closed, sem, tried, envelope, started,
          delivered, result, reply>>

Requests == [key : Keys \cup {None}, content : Contents]
NoRequest == [key |-> None, content |-> None]
NoReply == [kind |-> "none", of |-> None]

\* sendRequestFingerprint
Fingerprint(r) == r.content

Init ==
  /\ pc = [c \in Calls |-> "idle"]
  /\ req = [c \in Calls |-> NoRequest]
  /\ ctxDone = [c \in Calls |-> FALSE]
  /\ entries = [k \in Keys |-> None]
  /\ closed = [c \in Calls |-> FALSE]
  /\ sem = 0
  /\ tried = [c \in Calls |-> {}]
  /\ envelope = [c \in Calls |-> {}]
  /\ started = [c \in Calls |-> FALSE]
  /\ delivered = [c \in Calls |-> {}]
  /\ result = [c \in Calls |-> "none"]
  /\ reply = [c \in Calls |-> NoReply]

cache == <<entries, closed>>
smtp == <<sem, tried, envelope, started, delivered>>

-----------------------------------------------------------------------------
(* SendMessage and claim. *)

Goto(c, where) == pc' = [pc EXCEPT ![c] = where]
Return(c, kind, d) ==
  /\ Goto(c, "done")
  /\ reply' = [reply EXCEPT ![c] = [kind |-> kind, of |-> d]]

\* A request without a key is submitted directly; a key goes to the cache.
SendMessage(c, r) ==
  /\ pc[c] = "idle"
  /\ req' = [req EXCEPT ![c] = r]
  /\ Goto(c, IF r.key = None THEN "prepare" ELSE "claim")
  /\ UNCHANGED <<ctxDone, cache, smtp, result, reply>>

\* An invalid key, and for a reply a source message that cannot be read, that
\* changed, or that yields no valid recipient, end the call before the cache.
Deny(c) ==
  /\ pc[c] = "idle"
  /\ Return(c, "refused", None)
  /\ UNCHANGED <<req, ctxDone, cache, smtp, result>>

\* ReplyMessage, with the source message read.
ReplyMessage(c, r) == SendMessage(c, r)

Existing(c) == entries[req[c].key]

ClaimConflict(c) ==
  /\ pc[c] = "claim"
  /\ Existing(c) # None
  /\ Fingerprint(req[Existing(c)]) # Fingerprint(req[c])
  /\ Return(c, "conflict", None)
  /\ UNCHANGED <<req, ctxDone, cache, smtp, result>>

\* Mutant: a duplicate does not wait for the owner.
ClaimReplayNoWait(c) ==
  /\ pc[c] = "claim"
  /\ Existing(c) # None
  /\ Fingerprint(req[Existing(c)]) = Fingerprint(req[c])
  /\ Return(c, "hit", Existing(c))
  /\ UNCHANGED <<req, ctxDone, cache, smtp, result>>

\* A duplicate waits for the owner; it reads the result when done is closed.
ClaimReplay(c) ==
  /\ pc[c] = "claim"
  /\ Existing(c) # None
  /\ Fingerprint(req[Existing(c)]) = Fingerprint(req[c])
  /\ closed[Existing(c)]
  /\ Return(c, "hit", Existing(c))
  /\ UNCHANGED <<req, ctxDone, cache, smtp, result>>

ClaimCancelled(c) ==
  /\ pc[c] = "claim"
  /\ Existing(c) # None
  /\ Fingerprint(req[Existing(c)]) = Fingerprint(req[c])
  /\ ctxDone[c]
  /\ Return(c, "refused", None)
  /\ UNCHANGED <<req, ctxDone, cache, smtp, result>>

ClaimFull(c) ==
  /\ pc[c] = "claim"
  /\ Existing(c) = None
  /\ Cardinality({k \in Keys : entries[k] # None}) >= MaxEntries
  /\ Return(c, "refused", None)
  /\ UNCHANGED <<req, ctxDone, cache, smtp, result>>

Claim(c) ==
  /\ pc[c] = "claim"
  /\ Existing(c) = None
  /\ Cardinality({k \in Keys : entries[k] # None}) < MaxEntries
  /\ entries' = [entries EXCEPT ![req[c].key] = c]
  /\ Goto(c, "prepare")
  /\ UNCHANGED <<req, ctxDone, closed, smtp, result, reply>>

-----------------------------------------------------------------------------
(* sendOnce, up to DATA.  Status rejected stands for every result that says  *)
(* the message was not submitted, with whatever error code.                  *)

Finish(c, status) ==
  /\ Goto(c, "finish")
  /\ result' = [result EXCEPT ![c] = status]

\* Sending is disabled, the message is invalid or not permitted, or the local
\* limiter has no token.
PrepareFails(c) ==
  /\ pc[c] = "prepare"
  /\ Finish(c, "rejected")
  /\ UNCHANGED <<req, ctxDone, cache, smtp, reply>>

Prepare(c) ==
  /\ pc[c] = "prepare"
  /\ Goto(c, "acquire")
  /\ UNCHANGED <<req, ctxDone, cache, smtp, result, reply>>

AcquireSem(c) ==
  /\ pc[c] = "acquire"
  /\ sem < SendSlots
  /\ sem' = sem + 1
  /\ Goto(c, "connect")
  /\ UNCHANGED <<req, ctxDone, cache, tried, envelope, started, delivered,
                 result, reply>>

AcquireCancelled(c) ==
  /\ pc[c] = "acquire"
  /\ ctxDone[c]
  /\ Finish(c, "rejected")
  /\ UNCHANGED <<req, ctxDone, cache, smtp, reply>>

\* Leaving the session: the deferred release of the semaphore, and the close.
Leave(c, status) ==
  /\ sem' = sem - 1
  /\ Finish(c, status)

\* Dial, STARTTLS, AUTH and MAIL FROM.
Connect(c) ==
  /\ pc[c] = "connect"
  /\ Goto(c, "rcpt")
  /\ UNCHANGED <<req, ctxDone, cache, smtp, result, reply>>

ConnectFails(c) ==
  /\ pc[c] = "connect"
  /\ Leave(c, "rejected")
  /\ UNCHANGED <<req, ctxDone, cache, tried, envelope, started, delivered, reply>>

\* A definitive answer to one RCPT, yes or no, and on to the next recipient (in
\* the order of the request; here in any order).
Rcpt(c, a, yes) ==
  /\ pc[c] = "rcpt"
  /\ a \in Recipients \ tried[c]
  /\ tried' = [tried EXCEPT ![c] = @ \cup {a}]
  /\ envelope' = [envelope EXCEPT ![c] = IF yes THEN @ \cup {a} ELSE @]
  /\ UNCHANGED <<pc, req, ctxDone, cache, sem, started, delivered,
                 result, reply>>

\* No definitive answer: the remaining recipients are not attempted.
RcptLost(c, a) ==
  /\ pc[c] = "rcpt"
  /\ a \in Recipients \ tried[c]
  /\ tried' = [tried EXCEPT ![c] = @ \cup {a}]
  /\ Leave(c, "rejected")
  /\ UNCHANGED <<req, ctxDone, cache, envelope, started, delivered, reply>>

\* Mutant: the message goes to the recipients that were accepted.
AllRejected(c) == envelope[c] = {}

\* One rejected recipient is enough not to send to anybody.
AnyRejected(c) == envelope[c] # Recipients

RcptRejected(c) ==
  /\ pc[c] = "rcpt"
  /\ tried[c] = Recipients
  /\ AnyRejected(c)
  /\ Leave(c, "rejected")
  /\ UNCHANGED <<req, ctxDone, cache, tried, envelope, started, delivered, reply>>

-----------------------------------------------------------------------------
(* DATA: the command, and the payload with its final reply.                  *)

DataStart(c) ==
  /\ pc[c] = "rcpt"
  /\ tried[c] = Recipients
  /\ ~AnyRejected(c)
  /\ started' = [started EXCEPT ![c] = TRUE]
  /\ Goto(c, "payload")
  /\ UNCHANGED <<req, ctxDone, cache, sem, tried, envelope, delivered,
                 result, reply>>

\* The server does not answer 354: nothing of the message has been written.
DataRefused(c) ==
  /\ pc[c] = "rcpt"
  /\ tried[c] = Recipients
  /\ ~AnyRejected(c)
  /\ Leave(c, "rejected")
  /\ UNCHANGED <<req, ctxDone, cache, tried, envelope, started, delivered, reply>>

DataRejected(c) ==
  /\ pc[c] = "payload"
  /\ Leave(c, "rejected")
  /\ UNCHANGED <<req, ctxDone, cache, tried, envelope, started, delivered, reply>>

\* Connection loss, deadline, short write or panic after 354.
LostStatus == "unknown"

DataLost(c) ==
  /\ pc[c] = "payload"
  /\ Leave(c, LostStatus)
  /\ \E arrived \in BOOLEAN :
       delivered' = [delivered EXCEPT ![c] = IF arrived THEN envelope[c] ELSE {}]
  /\ UNCHANGED <<req, ctxDone, cache, tried, envelope, started, reply>>

DataAccepted(c) ==
  /\ pc[c] = "payload"
  /\ Leave(c, "accepted")
  /\ delivered' = [delivered EXCEPT ![c] = envelope[c]]
  /\ UNCHANGED <<req, ctxDone, cache, tried, envelope, started, reply>>

\* Mutant: a panic always counts as not submitted.
RecoveredRejected(c) == "rejected"

\* A panic in the SMTP library: sendOnce recovers and classifies by phase.
RecoveredStatus(c) == IF started[c] THEN "unknown" ELSE "rejected"

Panic(c) ==
  /\ pc[c] \in {"connect", "rcpt", "payload"}
  /\ Leave(c, RecoveredStatus(c))
  /\ \E arrived \in BOOLEAN :
       delivered' = [delivered EXCEPT ![c] =
                       IF arrived /\ started[c] THEN envelope[c] ELSE {}]
  /\ UNCHANGED <<req, ctxDone, cache, tried, envelope, started, reply>>

\* Mutant: the key is freed for a retry when the outcome is unknown.
CompleteForgetsUnknown(c) ==
  /\ pc[c] = "finish"
  /\ closed' = [closed EXCEPT ![c] = req[c].key # None]
  /\ entries' = [k \in Keys |->
                   IF k = req[c].key /\ result[c] = "unknown" THEN None
                   ELSE entries[k]]
  /\ Return(c, "own", c)
  /\ UNCHANGED <<req, ctxDone, smtp, result>>

\* Mutant: a rejected submission returns without closing its claim.
CompleteLeavesOpen(c) ==
  /\ pc[c] = "finish"
  /\ closed' = [closed EXCEPT ![c] = req[c].key # None /\ result[c] # "rejected"]
  /\ Return(c, "own", c)
  /\ UNCHANGED <<req, ctxDone, entries, smtp, result>>

\* complete closes the claim of a keyed call; the caller gets its own result.
Complete(c) ==
  /\ pc[c] = "finish"
  /\ closed' = [closed EXCEPT ![c] = req[c].key # None]
  /\ Return(c, "own", c)
  /\ UNCHANGED <<req, ctxDone, entries, smtp, result>>

-----------------------------------------------------------------------------
(* The environment. *)

CancelContext(c) ==
  /\ pc[c] \in {"claim", "acquire"}
  /\ ~ctxDone[c]
  /\ ctxDone' = [ctxDone EXCEPT ![c] = TRUE]
  /\ UNCHANGED <<pc, req, cache, smtp, result, reply>>

\* The server finishes a submission whose final reply the client never saw.
LateDelivery(c) ==
  /\ started[c]
  /\ pc[c] \in {"finish", "done"}
  /\ result[c] = "unknown"
  /\ delivered[c] = {}
  /\ delivered' = [delivered EXCEPT ![c] = envelope[c]]
  /\ UNCHANGED <<pc, req, ctxDone, cache, sem, tried, envelope, started, result, reply>>

ClaimStep(c) ==
  \/ ClaimConflict(c) \/ ClaimReplay(c) \/ ClaimCancelled(c)
  \/ ClaimFull(c) \/ Claim(c)

SendOnce(c) ==
  \/ PrepareFails(c) \/ Prepare(c) \/ AcquireSem(c) \/ AcquireCancelled(c)
  \/ Connect(c) \/ ConnectFails(c)
  \/ \E a \in Recipients : RcptLost(c, a) \/ \E yes \in BOOLEAN : Rcpt(c, a, yes)
  \/ RcptRejected(c) \/ DataStart(c) \/ DataRefused(c) \/ DataRejected(c)
  \/ DataLost(c) \/ DataAccepted(c) \/ Panic(c)

Next ==
  \E c \in Calls :
    \/ \E r \in Requests : SendMessage(c, r) \/ ReplyMessage(c, r)
    \/ Deny(c) \/ ClaimStep(c) \/ SendOnce(c) \/ Complete(c)
    \/ CancelContext(c) \/ LateDelivery(c)

Spec == Init /\ [][Next]_vars

\* Every step of a submission ends: connections carry the deadline of the call
\* and are closed when its context is.
FairSpec ==
  /\ Spec
  /\ \A c \in Calls : /\ WF_vars(ClaimStep(c))
                      /\ WF_vars(SendOnce(c))
                      /\ WF_vars(Complete(c))

-----------------------------------------------------------------------------
(* Properties. *)

\* The shape of the state of calls, cache and submission.
TypeOK ==
  /\ pc \in [Calls -> {"idle", "claim", "prepare", "acquire", "connect", "rcpt",
                       "payload", "finish", "done"}]
  /\ req \in [Calls -> Requests \cup {NoRequest}]
  /\ ctxDone \in [Calls -> BOOLEAN]
  /\ entries \in [Keys -> Calls \cup {None}]
  /\ closed \in [Calls -> BOOLEAN]
  /\ sem \in 0..SendSlots
  /\ tried \in [Calls -> SUBSET Recipients]
  /\ envelope \in [Calls -> SUBSET Recipients]
  /\ started \in [Calls -> BOOLEAN]
  /\ delivered \in [Calls -> SUBSET Recipients]
  /\ result \in [Calls -> {"none", "accepted", "rejected", "unknown"}]
  /\ reply \in [Calls -> [kind : {"none", "conflict", "hit", "refused", "own"},
                          of : Calls \cup {None}]]

\* Calls with the same key put at most one message on the wire, whatever
\* happened to the first one and however long ago ("never submits again").
OneSubmissionPerKey ==
  \A c, d \in Calls :
    (c # d /\ req[c].key # None /\ req[c].key = req[d].key)
      => ~(started[c] /\ started[d])

\* What a caller is told about a submission, its own or a replayed one, is true
\* and stays true: accepted went to every recipient, rejected to none.
StatusTellsTheTruth ==
  \A c \in Calls :
    reply[c].kind \in {"own", "hit"} =>
      LET d == reply[c].of
      IN  /\ result[d] = "accepted" => delivered[d] = Recipients
          /\ result[d] = "rejected" => delivered[d] = {}

\* A message goes to all its recipients or to none, also when some are refused
\* ("it never submits an accepted subset").
NeverASubset == \A c \in Calls : delivered[c] \in {{}, Recipients}

\* Every call ends without help from its own deadline: an owner's submission
\* ends and always closes its claim, so a duplicate is answered too, and the
\* submission slot comes free for whoever waits for it.  Calls differ only by
\* name, so it is enough to follow one of them.
SendAnswered ==
  LET c == CHOOSE c \in Calls : TRUE
  IN  (pc[c] # "idle") ~> (pc[c] = "done")

-----------------------------------------------------------------------------
(* The keyed part of the cache implements OnceContract and never gives a key  *)
(* up.                                                                        *)

Keyed(c) == req[c].key # None

Fate(c) ==
  CASE ~Keyed(c) \/ entries[req[c].key] # c   -> "none"
    [] Keyed(c) /\ entries[req[c].key] = c
         /\ ~closed[c]                        -> "running"
    [] OTHER                                  -> "uncertain"

AskOf == [c \in Calls |-> IF Keyed(c)
                          THEN [key |-> req[c].key, params |-> Fingerprint(req[c])]
                          ELSE None]
FateOf == [c \in Calls |-> Fate(c)]
AnswerOf == [c \in Calls |-> CASE ~Keyed(c) \/ reply[c].kind = "none"          -> None
                               [] Keyed(c) /\ reply[c].kind \in {"own", "hit"} -> reply[c].of
                               [] OTHER                                        -> "refused"]

Contract == INSTANCE OnceContract WITH
  Params <- Contents, Refused <- "refused",
  ask <- AskOf, holder <- entries, fate <- FateOf, answer <- AnswerOf

\* Every step of the send cache is a step of the contract in which results are
\* kept for ever: a key is executed once, duplicates get that execution's end.
ImplementsContract == Contract!Spec
=============================================================================
