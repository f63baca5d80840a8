---------------------------- MODULE MailMutation ----------------------------
(***************************************************************************)
(* Mail mutations over IMAP: set_message_flags, move_message and           *)
(* trash_message (internal/mail/mutation.go), the session they run in      *)
(* (mutate, imapAttempt and mapIMAPError of internal/mail/service.go) and  *)
(* the commands of internal/mail/imapadapter/session.go.                   *)
(*                                                                         *)
(* The mailbox is shared: other clients change flags, mark and expunge     *)
(* messages, and may recreate the mailbox under a new UIDVALIDITY.  The    *)
(* connection may break at any moment, and the server may still execute a  *)
(* command whose client has gone.                                          *)
(*                                                                         *)
(* The IMAP server is external.  A command for a UID that does not exist   *)
(* is answered OK and does nothing (RFC 9051, 6.4.9); a session whose      *)
(* mailbox was recreated executes nothing more.  It may send a FETCH of    *)
(* its own accord with any answer, so the FETCH that a conditional STORE   *)
(* collects may be one too many, or one without a MODSEQ.                  *)
(***************************************************************************)
EXTENDS Naturals, FiniteSets

CONSTANTS
  Calls,           \* tool calls
  Msgs,            \* messages of the source mailbox, by UID
  Slots,           \* capacity of mutationSem
  MaxMod,          \* bound on the MODSEQs the server hands out
  MaxValidity,     \* bound on the UIDVALIDITY values of the mailbox
  None             \* no message, no FETCH

ASSUME ConstantsAssumption ==
  /\ Slots \in Nat \ {0}
  /\ MaxMod \in Nat \ {0}
  /\ MaxValidity \in Nat \ {0}
  /\ None \notin Msgs \cup [mod : 0..MaxMod, flag : BOOLEAN]

VARIABLES
  caps,      \* the capabilities of the server
  validity,  \* the UIDVALIDITY of the mailbox
  box,       \* the messages of the mailbox
  pc,        \* where each call is
  req,       \* its request
  sem,       \* tokens in mutationSem
  session,   \* the UIDVALIDITY of the mailbox its session has selected (0: none)
  cmd,       \* the last command it dispatched
  wire,      \* that command: not sent, at large, executed or dropped
  answer,    \* the tagged answer on its way back
  fetched,   \* the FETCH that came with a conditional STORE
  did,       \* history: what the server did for this call
  touched,   \* history: the UIDVALIDITY under which it did so (0: nothing done)
  reply      \* what the call returned

vars == <<caps, validity, box, pc, req, sem, session, cmd, wire, answer, fetched,
          did, touched, reply>>

Mods == 1..MaxMod
Message == [in : BOOLEAN, flag : BOOLEAN, deleted : BOOLEAN, mod : Mods]
Fresh == [in |-> TRUE, flag |-> FALSE, deleted |-> FALSE, mod |-> 1]
NoRequest == [op |-> "none", msg |-> None, validity |-> 0, add |-> FALSE, modseq |-> 0]
Commands == {"store", "cstore", "move", "copy", "mark", "expunge"}
Effects == {"flag", "copy", "mark", "remove"}

\* The FETCH data that came with a conditional STORE.
Fetch == [mod : 0..MaxMod, flag : BOOLEAN]

\* FETCH data that cannot be used: not exactly one for the UID, or no MODSEQ.
Unusable == [mod |-> 0, flag |-> FALSE]

Init ==
  /\ caps \in [move : BOOLEAN, uidplus : BOOLEAN, condstore : BOOLEAN]
  /\ validity = 1
  /\ box = [m \in Msgs |-> Fresh]
  /\ pc = [c \in Calls |-> "idle"]
  /\ req = [c \in Calls |-> NoRequest]
  /\ sem = 0
  /\ session = [c \in Calls |-> 0]
  /\ cmd = [c \in Calls |-> "none"]
  /\ wire = [c \in Calls |-> "none"]
  /\ answer = [c \in Calls |-> "none"]
  /\ fetched = [c \in Calls |-> None]
  /\ did = [c \in Calls |-> {}]
  /\ touched = [c \in Calls |-> 0]
  /\ reply = [c \in Calls |-> "none"]

server == <<caps, validity, box>>
command == <<session, cmd, wire, answer, fetched, did, touched>>

-----------------------------------------------------------------------------
(* The call and its session, up to the first command that changes anything.  *)

Goto(c, where) == pc' = [pc EXCEPT ![c] = where]

\* The arguments are invalid or out of scope, mutations are disabled, or the
\* local limiter has no token.
Deny(c) ==
  /\ pc[c] = "idle"
  /\ Goto(c, "done")
  /\ reply' = [reply EXCEPT ![c] = "error"]
  /\ UNCHANGED <<server, req, sem, command>>

Accept(c, r) ==
  /\ pc[c] = "idle"
  /\ req' = [req EXCEPT ![c] = r]
  /\ Goto(c, "acquire")
  /\ UNCHANGED <<server, sem, command, reply>>

\* The caller's identity and MODSEQ come from an earlier read.
SetMessageFlags(c, m, add, modseq) ==
  Accept(c, [op |-> "flags", msg |-> m, validity |-> validity, add |-> add,
             modseq |-> modseq])

MoveMessage(c, m) ==
  Accept(c, [NoRequest EXCEPT !.op = "move", !.msg = m, !.validity = validity])

\* trash_message takes its destination from LIST and then moves the same way.
TrashMessage(c, m) == MoveMessage(c, m)

\* acquire, on the mutation semaphore.
Acquire(c) ==
  /\ pc[c] = "acquire"
  /\ sem < Slots
  /\ sem' = sem + 1
  /\ Goto(c, "select")
  /\ UNCHANGED <<server, req, command, reply>>

AcquireCancelled(c) ==
  /\ pc[c] = "acquire"
  /\ Goto(c, "done")
  /\ reply' = [reply EXCEPT ![c] = "error"]
  /\ UNCHANGED <<server, req, sem, command>>

\* Every return of mutate closes the session and releases the semaphore.
Return(c, r) ==
  /\ Goto(c, "done")
  /\ reply' = [reply EXCEPT ![c] = r]
  /\ sem' = sem - 1

\* Dialling, logging in, LIST and its policy, SELECT or FETCH fails, or the
\* library panics; nothing has been dispatched.
OpenFails(c) ==
  /\ pc[c] \in {"select", "fetch"}
  /\ Return(c, "error")
  /\ UNCHANGED <<server, req, command>>

\* Mutant: the UIDVALIDITY of the selected mailbox is not compared.
SameMailboxUnchecked(c) == TRUE

SameMailbox(c) == validity = req[c].validity

\* SELECT for writing, with the check of UIDVALIDITY.
Select(c) ==
  /\ pc[c] = "select"
  /\ \/ /\ SameMailbox(c)
        /\ session' = [session EXCEPT ![c] = validity]
        /\ Goto(c, "fetch")
        /\ UNCHANGED <<sem, reply>>
     \/ /\ ~SameMailbox(c)
        /\ Return(c, "concurrent_modification")
        /\ UNCHANGED session
  /\ UNCHANGED <<server, req, cmd, wire, answer, fetched, did, touched>>

\* The message must exist before anything is dispatched.
FetchFlags(c) ==
  /\ pc[c] = "fetch"
  /\ session[c] = validity
  /\ \/ box[req[c].msg].in /\ Goto(c, "dispatch") /\ UNCHANGED <<sem, reply>>
     \/ ~box[req[c].msg].in /\ Return(c, "not_found")
  /\ UNCHANGED <<server, req, command>>

Send(c, k) ==
  /\ cmd' = [cmd EXCEPT ![c] = k]
  /\ wire' = [wire EXCEPT ![c] = "sent"]
  /\ answer' = [answer EXCEPT ![c] = "none"]
  /\ Goto(c, "sent")
  /\ UNCHANGED <<sem, reply>>

\* With CONDSTORE a flag change needs a MODSEQ and is conditional.
FlagCommand(c) ==
  CASE caps.condstore /\ req[c].modseq # 0 -> "cstore"
    [] caps.condstore /\ req[c].modseq = 0 -> "none"
    [] ~caps.condstore                     -> "store"

\* Native MOVE, or COPY when UIDPLUS allows to expunge one message.
MoveCommand == IF caps.move THEN "move" ELSE IF caps.uidplus THEN "copy" ELSE "none"

Dispatch(c) ==
  LET k == IF req[c].op = "flags" THEN FlagCommand(c) ELSE MoveCommand
  IN  /\ pc[c] = "dispatch"
      /\ \/ k # "none" /\ Send(c, k)
         \/ k = "none" /\ Return(c, "error") /\ UNCHANGED <<cmd, wire, answer>>
      /\ UNCHANGED <<server, req, session, fetched, did, touched>>

-----------------------------------------------------------------------------
(* The server. *)

\* The tagged answer; nobody reads it when the client has gone.
Tag(c, a) == answer' = [answer EXCEPT ![c] = IF pc[c] = "sent" THEN a ELSE @]

\* The command takes effect on the message, in the mailbox it was selected in.
Effect(c, new, effects, a) ==
  /\ box' = [box EXCEPT ![req[c].msg] = new]
  /\ did' = [did EXCEPT ![c] = @ \cup effects]
  /\ touched' = [touched EXCEPT ![c] = IF effects = {} THEN @ ELSE validity]
  /\ Tag(c, a)

Ready(c, k) ==
  /\ wire[c] = "sent"
  /\ cmd[c] = k
  /\ session[c] = validity
  /\ wire' = [wire EXCEPT ![c] = "executed"]
  /\ UNCHANGED <<caps, validity, pc, req, sem, session, cmd, reply>>

\* A STORE of the flags bumps the MODSEQ, unless nothing changes.
Stored(c, b) ==
  IF b.flag = req[c].add THEN b ELSE [b EXCEPT !.flag = req[c].add, !.mod = @ + 1]

ExecuteStore(c) ==
  LET b == box[req[c].msg]
  IN  /\ Ready(c, "store")
      /\ b.mod < MaxMod
      /\ Effect(c, IF b.in THEN Stored(c, b) ELSE b, IF b.in THEN {"flag"} ELSE {}, "ok")
      /\ UNCHANGED fetched

\* UNCHANGEDSINCE.  The tagged MODIFIED code of a failure is discarded by the
\* library, so an answer is OK either way and only the FETCH tells.  A server may
\* also send one after a failure, with the state that made the condition fail.
ExecuteConditional(c) ==
  LET b     == box[req[c].msg]
      holds == b.in /\ b.mod <= req[c].modseq
      state(x) == [mod |-> x.mod, flag |-> x.flag]
  IN  /\ Ready(c, "cstore")
      /\ b.mod < MaxMod
      /\ Effect(c, IF holds THEN Stored(c, b) ELSE b, IF holds THEN {"flag"} ELSE {}, "ok")
      /\ \E f \in {Unusable} \cup (IF holds THEN {state(Stored(c, b))}
                                  ELSE IF b.in THEN {state(b), None} ELSE {None}) :
           fetched' = [fetched EXCEPT ![c] = f]

\* MOVE and COPY of a message; COPYUID may be missing or unusable.
ExecuteMove(c) ==
  LET b == box[req[c].msg]
  IN  /\ Ready(c, "move")
      /\ \/ b.in /\ \E a \in {"copyuid", "ok", "bad_copyuid"} :
                      Effect(c, [b EXCEPT !.in = FALSE], {"copy", "remove"}, a)
         \/ ~b.in /\ Effect(c, b, {}, "ok")
      /\ UNCHANGED fetched

ExecuteCopy(c) ==
  LET b == box[req[c].msg]
  IN  /\ Ready(c, "copy")
      /\ \/ b.in /\ \E a \in {"copyuid", "ok", "bad_copyuid"} :
                      Effect(c, b, {"copy"}, a)
         \/ ~b.in /\ Effect(c, b, {}, "ok")
      /\ UNCHANGED fetched

ExecuteMark(c) ==
  LET b == box[req[c].msg]
  IN  /\ Ready(c, "mark")
      /\ Effect(c, [b EXCEPT !.deleted = @ \/ b.in], IF b.in THEN {"mark"} ELSE {}, "ok")
      /\ UNCHANGED fetched

ExecuteExpunge(c) ==
  LET b    == box[req[c].msg]
      gone == b.in /\ b.deleted
  IN  /\ Ready(c, "expunge")
      /\ Effect(c, IF gone THEN [b EXCEPT !.in = FALSE] ELSE b,
                IF gone THEN {"remove"} ELSE {}, "ok")
      /\ UNCHANGED fetched

\* A tagged NO or BAD: the command was not executed.
Refuse(c) ==
  /\ wire[c] = "sent"
  /\ wire' = [wire EXCEPT ![c] = "dropped"]
  /\ Tag(c, "no")
  /\ UNCHANGED <<server, pc, req, sem, session, cmd, fetched, did, touched, reply>>

-----------------------------------------------------------------------------
(* The answers. *)

\* Mutant: a tagged OK is enough.
ValidateTaggedOK(c) == "success"

\* validateConditionalStore: no FETCH is a conflict, one that cannot be used a
\* protocol error, a definite one; one with a higher MODSEQ, or one that shows the
\* requested flags, is a success.
ValidateConditionalStore(c) ==
  CASE fetched[c] = None            -> "concurrent_modification"
    [] fetched[c] = Unusable        -> "protocol_error"
    [] fetched[c] \notin {None, Unusable} /\ (\/ fetched[c].mod > req[c].modseq
                                             \/ fetched[c].flag = req[c].add)
                                    -> "success"
    [] OTHER                        -> "concurrent_modification"

\* Mutant: a refused COPY does not stop the fallback.
OutcomeGoesOn(c, k, a) ==
  CASE k = "copy"                            -> "mark"
    [] k = "mark" /\ a # "no"                -> "expunge"
    [] k = "mark" /\ a = "no"                -> "copied_not_marked"
    [] k = "expunge" /\ a = "no"             -> "marked_not_expunged"
    [] k # "mark" /\ k # "copy" /\ a # "no"  -> "success"
    [] OTHER                                 -> "error"

\* Mutant: every refusal after COPY is blamed on the first step.
OutcomeBlamesMark(c, k, a) ==
  CASE a = "no" /\ k \in {"mark", "expunge"}         -> "copied_not_marked"
    [] a = "no" /\ k \notin {"mark", "expunge"}      -> "error"
    [] k = "copy" /\ a = "copyuid"                   -> "mark"
    [] k = "mark" /\ a = "ok"                        -> "expunge"
    [] OTHER                                         -> "outcome_unknown"

\* What an answer to command k means: the next command or step, or the result.
\* COPY must name the copy before the source is touched; MOVE need not.
Outcome(c, k, a) ==
  CASE a = "no" /\ k = "mark"                        -> "copied_not_marked"
    [] a = "no" /\ k = "expunge"                     -> "marked_not_expunged"
    [] a = "no" /\ k \notin {"mark", "expunge"}      -> "error"
    [] a = "bad_copyuid"                             -> "outcome_unknown"
    [] k = "store" /\ a = "ok"                       -> "verify"
    [] k = "cstore" /\ a = "ok"                      -> ValidateConditionalStore(c)
    [] k = "move" /\ a = "copyuid"                   -> "success"
    [] k = "move" /\ a = "ok"                        -> "success_no_copyuid"
    [] k = "copy" /\ a = "copyuid"                   -> "mark"
    [] k = "copy" /\ a = "ok"                        -> "outcome_unknown"
    [] k = "mark" /\ a = "ok"                        -> "expunge"
    [] k = "expunge" /\ a = "ok"                     -> "success"

Receive(c) ==
  LET o == Outcome(c, cmd[c], answer[c])
  IN  /\ pc[c] = "sent"
      /\ answer[c] # "none"
      /\ \/ o \in Commands /\ Send(c, o)
         \/ /\ o = "verify"
            /\ Goto(c, "verify")
            /\ UNCHANGED <<cmd, wire, answer, sem, reply>>
         \/ /\ o \notin Commands \cup {"verify"}
            /\ Return(c, o)
            /\ UNCHANGED <<cmd, wire, answer>>
      /\ UNCHANGED <<server, req, session, fetched, did, touched>>

\* Mutant: a break of the connection is a plain error.
LostOutcomeError(c) == "error"

\* Connection loss, deadline, an oversized answer or a panic after a dispatch:
\* the error is ambiguous.
LostOutcome(c) == "outcome_unknown"

Lose(c) ==
  /\ pc[c] \in {"sent", "verify"}
  /\ Return(c, LostOutcome(c))
  /\ answer' = [answer EXCEPT ![c] = "none"]
  /\ UNCHANGED <<server, req, session, cmd, wire, fetched, did, touched>>

\* Reading the flags back after an unconditional STORE.
Verify(c) ==
  /\ pc[c] = "verify"
  /\ \/ /\ session[c] = validity
        /\ box[req[c].msg].in
        /\ Return(c, "success")
     \/ Return(c, "success_incomplete")
  /\ UNCHANGED <<server, req, command>>

-----------------------------------------------------------------------------
(* The other clients of the mailbox. *)

Other(m, new) ==
  /\ box' = [box EXCEPT ![m] = new]
  /\ UNCHANGED <<caps, validity, pc, req, sem, command, reply>>

OtherFlag(m) ==
  /\ box[m].in
  /\ box[m].mod < MaxMod
  /\ Other(m, [box[m] EXCEPT !.flag = ~@, !.mod = @ + 1])

OtherMark(m) == box[m].in /\ Other(m, [box[m] EXCEPT !.deleted = ~@])

OtherExpunge(m) ==
  box[m].in /\ box[m].deleted /\ Other(m, [box[m] EXCEPT !.in = FALSE])

\* The mailbox is deleted and created again: every UID means another message.
Recreate ==
  /\ validity < MaxValidity
  /\ validity' = validity + 1
  /\ box' = [m \in Msgs |-> Fresh]
  /\ UNCHANGED <<caps, pc, req, sem, command, reply>>

Execute(c) ==
  \/ ExecuteStore(c) \/ ExecuteConditional(c) \/ ExecuteMove(c)
  \/ ExecuteCopy(c) \/ ExecuteMark(c) \/ ExecuteExpunge(c)

\* The steps of a call once it has been accepted.
CallStep(c) ==
  \/ Acquire(c) \/ AcquireCancelled(c) \/ OpenFails(c) \/ Select(c)
  \/ FetchFlags(c) \/ Dispatch(c) \/ Receive(c) \/ Lose(c) \/ Verify(c)

Next ==
  \/ \E c \in Calls :
       \/ \E m \in Msgs :
            \/ \E add \in BOOLEAN, modseq \in {0, box[m].mod} :
                 SetMessageFlags(c, m, add, modseq)
            \/ MoveMessage(c, m) \/ TrashMessage(c, m)
       \/ Deny(c) \/ CallStep(c) \/ Execute(c) \/ Refuse(c)
  \/ \E m \in Msgs : OtherFlag(m) \/ OtherMark(m) \/ OtherExpunge(m)
  \/ Recreate

Spec == Init /\ [][Next]_vars

-----------------------------------------------------------------------------
(* Properties. *)

\* The shape of the mailbox and the calls.
TypeOK ==
  /\ caps \in [move : BOOLEAN, uidplus : BOOLEAN, condstore : BOOLEAN]
  /\ validity \in 1..MaxValidity
  /\ box \in [Msgs -> Message]
  /\ pc \in [Calls -> {"idle", "acquire", "select", "fetch", "dispatch", "sent",
                       "verify", "done"}]
  /\ req \in [Calls -> [op : {"none", "flags", "move"},
                        msg : Msgs \cup {None}, validity : 0..MaxValidity,
                        add : BOOLEAN, modseq : 0..MaxMod]]
  /\ sem \in 0..Slots
  /\ session \in [Calls -> 0..MaxValidity]
  /\ cmd \in [Calls -> Commands \cup {"none"}]
  /\ wire \in [Calls -> {"none", "sent", "executed", "dropped"}]
  /\ answer \in [Calls -> {"none", "ok", "no", "copyuid", "bad_copyuid"}]
  /\ fetched \in [Calls -> Fetch \cup {None}]
  /\ did \in [Calls -> SUBSET Effects]
  /\ touched \in [Calls -> 0..MaxValidity]
  /\ reply \in [Calls -> {"none", "error", "not_found", "concurrent_modification",
                          "outcome_unknown", "copied_not_marked", "success",
                          "marked_not_expunged", "success_incomplete",
                          "success_no_copyuid", "protocol_error"}]

\* moveWithSession never endangers a message: the source is marked or removed
\* for a call only when the server has made the copy for that call, also when
\* commands are executed after the call has ended.
CopyBeforeRemoval ==
  \A c \in Calls : did[c] \cap {"mark", "remove"} # {} => "copy" \in did[c]

\* A call changes only the message its caller named: nothing is done under a
\* UIDVALIDITY other than the caller's, even if the mailbox is recreated between
\* any two steps.
NamedMessageOnly == \A c \in Calls : touched[c] \in {0, req[c].validity}

\* What a call reports is true, now and for ever after.  An error that is neither
\* outcome_unknown, partial_failure nor a protocol_error changed nothing and has no
\* command at large; partial_failure names the step that was reached and the later
\* steps do not happen; complete success of a move means that the message was copied
\* for it (native MOVE: and removed).  Two reports of validateConditionalStore
\* (session.go:582) tell less than the documents say.  A protocol_error after a
\* tagged OK, though a definite error to mapIMAPError, leaves open whether the flags
\* were stored; nothing more will happen.  And success of a flag change means that the
\* flags were stored for this call, or that a conditional STORE was shown a MODSEQ
\* above the caller's, which another client's change gives as well: the server may
\* have stored nothing, against "A stale MODSEQ changes no flags and returns
\* concurrent_modification" (docs/mail-compatibility.md:171).
AnswerIsTrue ==
  \A c \in Calls :
    /\ reply[c] \in {"error", "not_found", "concurrent_modification"} =>
         did[c] = {} /\ wire[c] # "sent"
    /\ reply[c] = "protocol_error" =>
         cmd[c] = "cstore" /\ did[c] \subseteq {"flag"} /\ wire[c] # "sent"
    /\ reply[c] = "copied_not_marked" => did[c] = {"copy"} /\ wire[c] # "sent"
    /\ reply[c] = "marked_not_expunged" =>
         "copy" \in did[c] /\ "remove" \notin did[c] /\ wire[c] # "sent"
    /\ reply[c] = "success" =>
         IF req[c].op = "flags"
         THEN "flag" \in did[c] \/ (cmd[c] = "cstore" /\ fetched[c].mod > req[c].modseq)
         ELSE "copy" \in did[c] /\ (cmd[c] = "move" => "remove" \in did[c])
=============================================================================
