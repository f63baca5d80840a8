------------------------- MODULE MailMutationProofs -------------------------
(***************************************************************************)
(* Proofs about MailMutation, for any number of calls, messages, MODSEQs   *)
(* and mutation slots, and for servers with any capabilities.              *)
(*                                                                         *)
(* WorkInv says what the server can have done for a call by the command it *)
(* was last sent and by what became of that command: an effect that is not *)
(* listed there cannot happen any more, so an answer that is true when it  *)
(* is given stays true.  VanishedInv is what makes reading the flags back  *)
(* after an unconditional STORE worth something: a STORE that did nothing  *)
(* found no message, and a UID that is gone does not come back before the  *)
(* mailbox is recreated, which the session would notice.                   *)
(***************************************************************************)
EXTENDS MailMutation, FiniteSetTheorems, TLAPS

Session == {"select", "fetch", "dispatch", "sent", "verify"}

\* The request, the session and the wire, by the stage of a call.
StageInv(c) ==
  /\ pc[c] \notin {"idle", "done"} \/ wire[c] # "none" =>
       req[c].op \in {"flags", "move"} /\ req[c].msg \in Msgs
  /\ pc[c] \in {"fetch", "dispatch", "sent", "verify"} \/ wire[c] # "none" =>
       session[c] = req[c].validity
  /\ pc[c] \in {"idle", "acquire", "select", "fetch", "dispatch"} => wire[c] = "none"
  /\ pc[c] \in {"sent", "verify"} => wire[c] # "none"
  /\ pc[c] = "verify" => cmd[c] = "store" /\ wire[c] = "executed"
  /\ pc[c] = "done" <=> reply[c] # "none"
  /\ wire[c] = "sent" => pc[c] = "sent" \/ reply[c] = "outcome_unknown"
  /\ session[c] <= validity

\* What the server has done for a call, by the last command and its fate.
WorkInv(c) ==
  /\ wire[c] = "none" => did[c] = {} /\ touched[c] = 0 /\ answer[c] = "none"
  /\ wire[c] # "none" => cmd[c] \in IF req[c].op = "flags" THEN {"store", "cstore"}
                                    ELSE {"move", "copy", "mark", "expunge"}
  /\ wire[c] # "none" /\ cmd[c] \in {"store", "cstore"} => did[c] \subseteq {"flag"}
  /\ wire[c] # "none" /\ cmd[c] = "move" => did[c] \in {{}, {"copy", "remove"}}
  /\ wire[c] # "none" /\ cmd[c] = "copy" => did[c] \subseteq {"copy"}
  /\ wire[c] # "none" /\ cmd[c] \in {"mark", "expunge"} =>
       "copy" \in did[c] /\ did[c] \subseteq {"copy", "mark", "remove"}
  /\ wire[c] # "none" /\ cmd[c] = "mark" => "remove" \notin did[c]
  /\ wire[c] \in {"sent", "dropped"} =>
       /\ cmd[c] \in {"store", "cstore", "move", "copy"} => did[c] = {}
       /\ cmd[c] = "mark" => did[c] = {"copy"}
       /\ cmd[c] = "expunge" => "remove" \notin did[c]
  /\ touched[c] \in {0, req[c].validity}

\* What an answer, and the FETCH of a conditional STORE, tell of the command.
AnswerInv(c) ==
  /\ wire[c] = "sent" => answer[c] = "none"
  /\ answer[c] = "no" => wire[c] = "dropped"
  /\ answer[c] \in {"ok", "copyuid", "bad_copyuid"} => wire[c] = "executed"
  /\ answer[c] \in {"copyuid", "bad_copyuid"} =>
       cmd[c] \in {"move", "copy"} /\ "copy" \in did[c]
  /\ cmd[c] = "cstore" /\ wire[c] = "executed" =>
       /\ fetched[c] = None => did[c] = {}
       /\ fetched[c] \notin {None, Unusable} =>
            /\ fetched[c].mod > req[c].modseq \/ fetched[c].flag = req[c].add
            /\ "flag" \in did[c] \/ fetched[c].mod > req[c].modseq

\* AnswerIsTrue for one call.
ReplyInv(c) ==
  /\ reply[c] \in {"error", "not_found", "concurrent_modification"} =>
       did[c] = {} /\ wire[c] # "sent"
  /\ reply[c] = "protocol_error" =>
       cmd[c] = "cstore" /\ did[c] \subseteq {"flag"} /\ wire[c] # "sent"
  /\ reply[c] = "copied_not_marked" => did[c] = {"copy"} /\ wire[c] # "sent"
  /\ reply[c] = "marked_not_expunged" =>
       "copy" \in did[c] /\ "remove" \notin did[c] /\ wire[c] # "sent"
  /\ reply[c] = "success" =>
       IF req[c].op = "flags"
       THEN "flag" \in did[c] \/ (cmd[c] = "cstore" /\ fetched[c].mod > req[c].modseq)
       ELSE "copy" \in did[c] /\ (cmd[c] = "move" => "remove" \in did[c])

CallInv(c) == StageInv(c) /\ WorkInv(c) /\ AnswerInv(c) /\ ReplyInv(c)

\* A STORE that did nothing found no message, and there is none as long as the
\* session's mailbox exists.
VanishedInv ==
  \A c \in Calls :
    /\ wire[c] = "executed" /\ cmd[c] = "store" /\ "flag" \notin did[c]
    /\ session[c] = validity
    => ~box[req[c].msg].in

InSession == {c \in Calls : pc[c] \in Session}

\* A slot is taken by every call that is in a session, and by nothing else.
SlotInv == IsFiniteSet(InSession) /\ sem = Cardinality(InSession)

IndInv ==
  /\ TypeOK
  /\ SlotInv
  /\ VanishedInv
  /\ \A c \in Calls : CallInv(c)

-----------------------------------------------------------------------------
(* The mutation slots. *)

\* A step that neither opens nor ends a session leaves the slots alone.
LEMMA SlotKept ==
  ASSUME IndInv, NEW c \in Calls, NEW where, Goto(c, where),
         (where \in Session) <=> (pc[c] \in Session), UNCHANGED sem
  PROVE  SlotInv' /\ sem' \in 0..Slots
<1>1. InSession' = InSession
  BY DEF InSession, Goto, IndInv, TypeOK
<1> QED BY <1>1 DEF SlotInv, IndInv, TypeOK

\* A session begins.
LEMMA SlotTaken ==
  ASSUME IndInv, NEW c \in Calls, NEW where \in Session, Goto(c, where),
         pc[c] \notin Session, sem < Slots, sem' = sem + 1
  PROVE  SlotInv' /\ sem' \in 0..Slots
<1>1. InSession' = InSession \cup {c} /\ c \notin InSession
  BY DEF InSession, Goto, IndInv, TypeOK
<1>2. IsFiniteSet(InSession') /\ Cardinality(InSession') = Cardinality(InSession) + 1
  BY <1>1, FS_AddElement DEF IndInv, SlotInv
<1>3. sem' \in 0..Slots
  BY ConstantsAssumption DEF IndInv, TypeOK
<1> QED BY <1>2, <1>3 DEF SlotInv, IndInv

\* A session ends.
LEMMA SlotFreed ==
  ASSUME IndInv, NEW c \in Calls, Goto(c, "done"), pc[c] \in Session, sem' = sem - 1
  PROVE  SlotInv' /\ sem' \in 0..Slots
<1>1. InSession' = InSession \ {c} /\ c \in InSession
  BY DEF InSession, Session, Goto, IndInv, TypeOK
<1>2. /\ IsFiniteSet(InSession') /\ Cardinality(InSession') = Cardinality(InSession) - 1
      /\ Cardinality(InSession') \in Nat
  BY <1>1, FS_RemoveElement, FS_CardinalityType DEF IndInv, SlotInv
<1>3. sem' = Cardinality(InSession')
  BY <1>2 DEF SlotInv, IndInv
<1>4. sem' \in 0..Slots
  BY <1>2, <1>3, ConstantsAssumption DEF IndInv, TypeOK
<1> QED BY <1>2, <1>3, <1>4 DEF SlotInv

-----------------------------------------------------------------------------
(* The steps of one call. *)

\* Nothing changes for the calls that do not take the step.
OthersKept(c) ==
  \A d \in Calls \ {c} :
    /\ pc'[d] = pc[d] /\ req'[d] = req[d] /\ session'[d] = session[d] /\ cmd'[d] = cmd[d]
    /\ wire'[d] = wire[d] /\ answer'[d] = answer[d] /\ fetched'[d] = fetched[d]
    /\ did'[d] = did[d] /\ touched'[d] = touched[d] /\ reply'[d] = reply[d]

\* What one call does, in a mailbox where no message comes back, concerns no
\* other call.
LEMMA LocalKeeps ==
  ASSUME IndInv, NEW c \in Calls, OthersKept(c), UNCHANGED validity,
         \A m \in Msgs : ~box[m].in => ~box'[m].in,
         TypeOK', SlotInv', CallInv(c)',
         wire'[c] = "executed" /\ cmd'[c] = "store" /\ "flag" \notin did'[c]
           /\ session'[c] = validity => ~box'[req'[c].msg].in
  PROVE  IndInv'
<1>1. ASSUME NEW d \in Calls \ {c} PROVE CallInv(d)'
  <2>1. CallInv(d)
    BY DEF IndInv
  <2>2. StageInv(d)' /\ WorkInv(d)'
    BY <2>1 DEF OthersKept, CallInv, StageInv, WorkInv
  <2>3. AnswerInv(d)' /\ ReplyInv(d)'
    BY <2>1 DEF OthersKept, CallInv, AnswerInv, ReplyInv
  <2> QED BY <2>2, <2>3 DEF CallInv
<1>2. ASSUME NEW d \in Calls, wire'[d] = "executed", cmd'[d] = "store",
             "flag" \notin did'[d], session'[d] = validity'
      PROVE  ~box'[req'[d].msg].in
  <2>1. CASE d = c
    BY <1>2, <2>1
  <2>2. CASE d # c
    <3>1. /\ wire[d] = "executed" /\ cmd[d] = "store" /\ "flag" \notin did[d]
          /\ session[d] = validity /\ req'[d] = req[d]
      BY <1>2, <2>2 DEF OthersKept
    <3>2. ~box[req[d].msg].in
      BY <3>1 DEF IndInv, VanishedInv
    <3>3. req[d].msg \in Msgs
      BY <3>1 DEF IndInv, CallInv, StageInv
    <3> QED BY <3>1, <3>2, <3>3
  <2> QED BY <2>1, <2>2
<1>3. VanishedInv'
  BY <1>2 DEF VanishedInv
<1> QED BY <1>1, <1>3 DEF IndInv

\* The request is accepted: it names the mailbox as it is now.
LEMMA StartKeeps ==
  ASSUME IndInv, NEW c \in Calls, NEW r,
         r \in [op : {"flags", "move"}, msg : Msgs, validity : {validity},
                add : BOOLEAN, modseq : 0..MaxMod],
         Accept(c, r)
  PROVE  IndInv'
<1> USE DEF Accept, Goto, server, command
<1>1. /\ pc[c] = "idle" /\ pc'[c] = "acquire" /\ req'[c] = r
      /\ \A d \in Calls \ {c} : pc'[d] = pc[d] /\ req'[d] = req[d]
  BY DEF IndInv, TypeOK
<1>2. r.op \in {"flags", "move"} /\ r.msg \in Msgs
  OBVIOUS
<1>3. SlotInv' /\ sem' \in 0..Slots
  BY <1>1, SlotKept DEF Session
<1>4. r \in [op : {"none", "flags", "move"}, msg : Msgs \cup {None},
             validity : 0..MaxValidity, add : BOOLEAN, modseq : 0..MaxMod]
  BY ConstantsAssumption DEF IndInv, TypeOK
<1>5. req' \in [Calls -> [op : {"none", "flags", "move"}, msg : Msgs \cup {None},
                          validity : 0..MaxValidity, add : BOOLEAN, modseq : 0..MaxMod]]
  BY <1>4 DEF IndInv, TypeOK
<1>6. TypeOK'
  BY <1>3, <1>5 DEF IndInv, TypeOK
<1>7. CallInv(c)
  BY DEF IndInv
<1>8. wire[c] = "none" /\ did[c] = {} /\ touched[c] = 0 /\ answer[c] = "none" /\ reply[c] = "none"
  BY <1>1, <1>7 DEF CallInv, StageInv, WorkInv
<1>9. StageInv(c)'
  BY <1>1, <1>2, <1>7, <1>8 DEF CallInv, StageInv
<1>10. WorkInv(c)' /\ AnswerInv(c)' /\ ReplyInv(c)'
  BY <1>8 DEF WorkInv, AnswerInv, ReplyInv
<1>11. OthersKept(c)
  BY <1>1 DEF OthersKept
<1> QED BY <1>3, <1>6, <1>8, <1>9, <1>10, <1>11, LocalKeeps DEF CallInv

\* A call that has dispatched nothing ends, with an error.
LEMMA FailKeeps ==
  ASSUME IndInv, NEW c \in Calls,
         pc[c] \in {"idle", "acquire", "select", "fetch", "dispatch"},
         NEW r \in {"error", "not_found", "concurrent_modification"},
         Goto(c, "done"), reply' = [reply EXCEPT ![c] = r],
         SlotInv', sem' \in 0..Slots,
         UNCHANGED <<server, req, command>>
  PROVE  IndInv'
<1> USE DEF Goto, server, command
<1>1. /\ pc'[c] = "done" /\ reply'[c] = r
      /\ \A d \in Calls \ {c} : pc'[d] = pc[d] /\ reply'[d] = reply[d]
  BY DEF IndInv, TypeOK
<1>2. TypeOK'
  BY DEF IndInv, TypeOK
<1>3. CallInv(c)
  BY DEF IndInv
<1>4. wire[c] = "none" /\ did[c] = {}
  BY <1>3 DEF CallInv, StageInv, WorkInv
<1>5. StageInv(c)'
  BY <1>1, <1>3, <1>4 DEF CallInv, StageInv
<1>6. WorkInv(c)' /\ AnswerInv(c)' /\ ReplyInv(c)'
  BY <1>1, <1>3, <1>4 DEF CallInv, WorkInv, AnswerInv, ReplyInv
<1>7. OthersKept(c)
  BY <1>1 DEF OthersKept
<1> QED BY <1>2, <1>4, <1>5, <1>6, <1>7, LocalKeeps DEF CallInv

\* From the semaphore to the last check before a command.
LEMMA OpenKeeps ==
  ASSUME IndInv, NEW c \in Calls,
         Acquire(c) \/ AcquireCancelled(c) \/ OpenFails(c) \/ Select(c) \/ FetchFlags(c)
  PROVE  IndInv'
<1> USE DEF server, command
<1>1. CallInv(c)
  BY DEF IndInv
<1>2. ASSUME pc[c] \in {"acquire", "select", "fetch"},
             NEW where \in {"select", "fetch", "dispatch"}, Goto(c, where),
             SlotInv', sem' \in 0..Slots,
             NEW v \in 0..MaxValidity, session' = [session EXCEPT ![c] = v], v <= validity,
             where \in {"fetch", "dispatch"} => v = req[c].validity,
             UNCHANGED <<server, req, cmd, wire, answer, fetched, did, touched, reply>>
      PROVE  IndInv'
  <2> USE <1>2 DEF Goto
  <2>1. /\ pc'[c] = where /\ session'[c] = v
        /\ \A d \in Calls \ {c} : pc'[d] = pc[d] /\ session'[d] = session[d]
    BY DEF IndInv, TypeOK
  <2>2. TypeOK'
    BY DEF IndInv, TypeOK
  <2>3. wire[c] = "none"
    BY <1>1 DEF CallInv, StageInv
  <2>4. StageInv(c)'
    BY <1>1, <2>1, <2>3 DEF CallInv, StageInv
  <2>5. WorkInv(c)' /\ AnswerInv(c)' /\ ReplyInv(c)'
    BY <1>1 DEF CallInv, WorkInv, AnswerInv, ReplyInv
  <2>6. OthersKept(c)
    BY <2>1 DEF OthersKept
  <2> QED BY <2>2, <2>3, <2>4, <2>5, <2>6, LocalKeeps DEF CallInv
<1>3. session = [session EXCEPT ![c] = session[c]] /\ session[c] \in 0..MaxValidity
  BY DEF IndInv, TypeOK
<1>4. validity \in 0..MaxValidity /\ session[c] <= validity
  BY <1>1, ConstantsAssumption DEF IndInv, TypeOK, CallInv, StageInv
<1>5. CASE Acquire(c)
  <2>1. SlotInv' /\ sem' \in 0..Slots
    BY <1>5, SlotTaken DEF Acquire, Session
  <2> QED BY <1>2, <1>3, <1>4, <1>5, <2>1 DEF Acquire
<1>6. CASE AcquireCancelled(c)
  <2>1. SlotInv' /\ sem' \in 0..Slots
    BY <1>6, SlotKept DEF AcquireCancelled, Session
  <2> QED BY <1>6, <2>1, FailKeeps DEF AcquireCancelled
<1>7. ASSUME pc[c] \in {"select", "fetch", "dispatch"},
             NEW r \in {"error", "not_found", "concurrent_modification"}, Return(c, r),
             UNCHANGED <<server, req, command>>
      PROVE  IndInv'
  <2>1. SlotInv' /\ sem' \in 0..Slots
    BY <1>7, SlotFreed DEF Return, Session
  <2> QED BY <1>7, <2>1, FailKeeps DEF Return
<1>8. CASE OpenFails(c)
  BY <1>7, <1>8 DEF OpenFails
<1>9. CASE Select(c)
  <2>1. CASE SameMailbox(c) /\ session' = [session EXCEPT ![c] = validity] /\ Goto(c, "fetch")
             /\ UNCHANGED <<sem, reply>>
    <3>1. SlotInv' /\ sem' \in 0..Slots
      BY <1>9, <2>1, SlotKept DEF Select, Session
    <3>2. /\ pc[c] = "select" /\ validity = req[c].validity
          /\ UNCHANGED <<server, req, cmd, wire, answer, fetched, did, touched, reply>>
      BY <1>9, <2>1 DEF Select, SameMailbox
    <3>3. validity <= validity
      BY <1>4
    <3> QED BY <1>2, <1>4, <2>1, <3>1, <3>2, <3>3
  <2>2. CASE ~SameMailbox(c) /\ Return(c, "concurrent_modification") /\ UNCHANGED session
    BY <1>7, <1>9, <2>2 DEF Select
  <2> QED BY <1>9, <2>1, <2>2 DEF Select
<1>10. CASE FetchFlags(c)
  <2>1. CASE Goto(c, "dispatch") /\ UNCHANGED <<sem, reply>>
    <3>1. SlotInv' /\ sem' \in 0..Slots
      BY <1>10, <2>1, SlotKept DEF FetchFlags, Session
    <3>2. session[c] = req[c].validity
      BY <1>1, <1>10 DEF FetchFlags, CallInv, StageInv
    <3> QED BY <1>2, <1>3, <1>4, <1>10, <2>1, <3>1, <3>2 DEF FetchFlags
  <2>2. CASE Return(c, "not_found")
    BY <1>7, <1>10, <2>2 DEF FetchFlags
  <2> QED BY <1>10, <2>1, <2>2 DEF FetchFlags
<1> QED BY <1>5, <1>6, <1>8, <1>9, <1>10

\* A command goes out: the first one, or the next one of the fallback once the
\* one before has done its part.
LEMMA SendKeeps ==
  ASSUME IndInv, NEW c \in Calls, NEW k \in Commands, Send(c, k),
         \/ pc[c] = "dispatch" /\ k \in IF req[c].op = "flags" THEN {"store", "cstore"}
                                        ELSE {"move", "copy"}
         \/ pc[c] = "sent" /\ cmd[c] = "copy" /\ "copy" \in did[c] /\ k = "mark"
         \/ pc[c] = "sent" /\ cmd[c] = "mark" /\ k = "expunge",
         UNCHANGED <<server, req, session, fetched, did, touched>>
  PROVE  IndInv'
<1> USE DEF Send, Goto, server
<1>1. /\ pc'[c] = "sent" /\ cmd'[c] = k /\ wire'[c] = "sent" /\ answer'[c] = "none"
      /\ \A d \in Calls \ {c} : /\ pc'[d] = pc[d] /\ cmd'[d] = cmd[d]
                                /\ wire'[d] = wire[d] /\ answer'[d] = answer[d]
  BY DEF IndInv, TypeOK
<1>2. SlotInv' /\ sem' \in 0..Slots
  BY SlotKept DEF Session
<1>3. TypeOK'
  BY <1>2 DEF IndInv, TypeOK, Commands
<1>4. CallInv(c)
  BY DEF IndInv
<1>5. reply[c] = "none" /\ session[c] = req[c].validity
  BY <1>4 DEF CallInv, StageInv
<1>6. StageInv(c)'
  BY <1>1, <1>4, <1>5 DEF CallInv, StageInv
<1>7. WorkInv(c)'
  <2>1. CASE pc[c] = "dispatch"
    <3>1. did[c] = {} /\ touched[c] = 0
      BY <1>4, <2>1 DEF CallInv, StageInv, WorkInv
    <3>2. k \in IF req[c].op = "flags" THEN {"store", "cstore"} ELSE {"move", "copy"}
      BY <2>1
    <3> QED BY <1>1, <3>1, <3>2 DEF WorkInv
  <2>2. CASE pc[c] = "sent" /\ cmd[c] = "copy" /\ "copy" \in did[c] /\ k = "mark"
    <3>1. wire[c] # "none"
      BY <1>4, <2>2 DEF CallInv, StageInv
    <3>2. did[c] = {"copy"}
      BY <1>4, <2>2, <3>1 DEF CallInv, WorkInv
    <3> QED BY <1>1, <1>4, <2>2, <3>1, <3>2 DEF CallInv, WorkInv
  <2>3. CASE pc[c] = "sent" /\ cmd[c] = "mark" /\ k = "expunge"
    <3>1. wire[c] # "none" /\ "copy" \in did[c]
      BY <1>4, <2>3 DEF CallInv, StageInv, WorkInv
    <3> QED BY <1>1, <1>4, <2>3, <3>1 DEF CallInv, WorkInv
  <2> QED BY <2>1, <2>2, <2>3
<1>8. AnswerInv(c)' /\ ReplyInv(c)'
  BY <1>1, <1>5 DEF AnswerInv, ReplyInv
<1>9. OthersKept(c)
  BY <1>1 DEF OthersKept
<1> QED BY <1>1, <1>2, <1>3, <1>6, <1>7, <1>8, <1>9, LocalKeeps DEF CallInv

\* The first command, or none for want of a capability or a MODSEQ.
LEMMA DispatchKeeps ==
  ASSUME IndInv, NEW c \in Calls, Dispatch(c)
  PROVE  IndInv'
<1> DEFINE k == IF req[c].op = "flags" THEN FlagCommand(c) ELSE MoveCommand
<1>1. /\ pc[c] = "dispatch"
      /\ \/ k # "none" /\ Send(c, k)
         \/ k = "none" /\ Return(c, "error") /\ UNCHANGED <<cmd, wire, answer>>
      /\ UNCHANGED <<server, req, session, fetched, did, touched>>
  BY DEF Dispatch
<1>2. k \in {"none"} \cup (IF req[c].op = "flags" THEN {"store", "cstore"}
                           ELSE {"move", "copy"})
  BY DEF FlagCommand, MoveCommand
<1> HIDE DEF k
<1>3. CASE k # "none" /\ Send(c, k)
  BY <1>1, <1>2, <1>3, SendKeeps DEF Commands
<1>4. CASE k = "none" /\ Return(c, "error") /\ UNCHANGED <<cmd, wire, answer>>
  <2>1. SlotInv' /\ sem' \in 0..Slots
    BY <1>1, <1>4, SlotFreed DEF Return, Session
  <2> QED BY <1>1, <1>4, <2>1, FailKeeps DEF Return, command
<1> QED BY <1>1, <1>3, <1>4

-----------------------------------------------------------------------------
(* The server. *)

\* What a command may do: its effects, the answer to it and the FETCH.
Lawful(c, k, new, effects, a) ==
  /\ new \in Message /\ (~box[req[c].msg].in => ~new.in)
  /\ effects \subseteq Effects
  /\ k \in {"store", "cstore"} => effects \subseteq {"flag"}
  /\ k = "store" /\ effects = {} => ~new.in
  /\ k = "move" => effects \in {{}, {"copy", "remove"}}
  /\ k = "copy" => effects \subseteq {"copy"}
  /\ k = "mark" => effects \subseteq {"mark"}
  /\ k = "expunge" => effects \subseteq {"remove"}
  /\ a \in {"ok", "copyuid", "bad_copyuid"}
  /\ a # "ok" => k \in {"move", "copy"} /\ "copy" \in effects
  /\ fetched' \in [Calls -> Fetch \cup {None}]
  /\ \A d \in Calls \ {c} : fetched'[d] = fetched[d]
  /\ k = "cstore" =>
       /\ fetched'[c] = None => effects = {}
       /\ fetched'[c] \notin {None, Unusable} =>
            /\ fetched'[c].mod > req[c].modseq \/ fetched'[c].flag = req[c].add
            /\ "flag" \in effects \/ fetched'[c].mod > req[c].modseq

\* A command is executed for a call that waits for it or has given up on it.
LEMMA EffectKeeps ==
  ASSUME IndInv, NEW c \in Calls, NEW k \in Commands, NEW new, NEW effects, NEW a,
         Ready(c, k), Effect(c, new, effects, a), Lawful(c, k, new, effects, a)
  PROVE  IndInv'
<1>1. CallInv(c)
  BY DEF IndInv
<1>2. /\ wire[c] = "sent" /\ cmd[c] = k /\ session[c] = validity
      /\ req[c].validity = validity /\ req[c].msg \in Msgs
      /\ pc[c] = "sent" \/ reply[c] = "outcome_unknown"
      /\ answer[c] = "none"
  BY <1>1 DEF Ready, CallInv, StageInv, AnswerInv
<1>3. /\ wire'[c] = "executed" /\ did'[c] = did[c] \cup effects
      /\ touched'[c] \in {touched[c], validity}
      /\ answer'[c] \in {a, "none"}
      /\ \A d \in Calls \ {c} : /\ wire'[d] = wire[d] /\ did'[d] = did[d]
                                /\ touched'[d] = touched[d] /\ answer'[d] = answer[d]
  BY <1>2 DEF Ready, Effect, Tag, IndInv, TypeOK
<1>4. /\ box'[req[c].msg] = new
      /\ \A m \in Msgs \ {req[c].msg} : box'[m] = box[m]
      /\ box' \in [Msgs -> Message]
  BY <1>2 DEF Effect, Lawful, IndInv, TypeOK
<1>5. UNCHANGED <<caps, validity, pc, req, sem, session, cmd, reply>>
  BY DEF Ready
<1>6. \A m \in Msgs : ~box[m].in => ~box'[m].in
  BY <1>4 DEF Lawful
<1>7. TypeOK'
  <2>1. /\ wire' \in [Calls -> {"none", "sent", "executed", "dropped"}]
        /\ did' \in [Calls -> SUBSET Effects]
    BY DEF Ready, Effect, Lawful, IndInv, TypeOK
  <2>2. touched' \in [Calls -> 0..MaxValidity]
    <3>1. validity \in 0..MaxValidity
      BY ConstantsAssumption DEF IndInv, TypeOK
    <3> QED BY <3>1 DEF Effect, IndInv, TypeOK
  <2>3. answer' \in [Calls -> {"none", "ok", "no", "copyuid", "bad_copyuid"}]
    BY DEF Effect, Tag, Lawful, IndInv, TypeOK
  <2> QED BY <1>4, <1>5, <2>1, <2>2, <2>3 DEF Lawful, IndInv, TypeOK
<1>8. SlotInv'
  BY <1>5 DEF IndInv, SlotInv, InSession
<1>9. StageInv(c)'
  BY <1>1, <1>2, <1>3, <1>5 DEF CallInv, StageInv
<1>10. WorkInv(c)'
  <2>1. did[c] = {} \/ k \in {"mark", "expunge"}
    BY <1>1, <1>2 DEF CallInv, WorkInv, Commands
  <2>2. /\ k = "mark" => did[c] = {"copy"}
        /\ k = "expunge" => "copy" \in did[c] /\ did[c] \subseteq {"copy", "mark", "remove"}
        /\ k \in IF req[c].op = "flags" THEN {"store", "cstore"}
                 ELSE {"move", "copy", "mark", "expunge"}
        /\ touched[c] \in {0, validity}
    BY <1>1, <1>2 DEF CallInv, WorkInv
  <2>3. touched'[c] \in {0, req'[c].validity}
    BY <1>2, <1>3, <1>5, <2>2
  <2>4. did'[c] = did[c] \cup effects /\ cmd'[c] = k
    BY <1>2, <1>3, <1>5
  <2>5. CASE k \in {"store", "cstore", "move", "copy"}
    <3>1. did'[c] = effects
      BY <2>1, <2>4, <2>5
    <3> QED BY <1>3, <1>5, <2>2, <2>3, <2>4, <2>5, <3>1 DEF WorkInv, Lawful
  <2>6. CASE k \in {"mark", "expunge"}
    <3>1. /\ "copy" \in did'[c] /\ did'[c] \subseteq {"copy", "mark", "remove"}
          /\ k = "mark" => "remove" \notin did'[c]
      BY <2>2, <2>4, <2>6 DEF Lawful
    <3> QED BY <1>3, <1>5, <2>2, <2>3, <2>4, <2>6, <3>1 DEF WorkInv
  <2> QED BY <2>5, <2>6 DEF Commands
<1>11. AnswerInv(c)'
  <2>1. k = "cstore" => did'[c] = effects
    BY <1>1, <1>2, <1>3 DEF CallInv, WorkInv
  <2> QED BY <1>2, <1>3, <1>5, <2>1 DEF AnswerInv, Lawful
<1>12. ReplyInv(c)'
  BY <1>1, <1>2, <1>5 DEF CallInv, StageInv, ReplyInv
<1>13. OthersKept(c)
  BY <1>3, <1>5 DEF OthersKept, Lawful
<1>14. cmd'[c] = "store" /\ "flag" \notin did'[c] => ~box'[req'[c].msg].in
  <2>1. cmd'[c] = "store" /\ "flag" \notin did'[c] => k = "store" /\ effects = {}
    BY <1>2, <1>3, <1>5 DEF Lawful
  <2> QED BY <1>4, <1>5, <2>1 DEF Lawful
<1> QED BY <1>5, <1>6, <1>7, <1>8, <1>9, <1>10, <1>11, <1>12, <1>13, <1>14, LocalKeeps DEF CallInv

\* A tagged NO or BAD.
LEMMA RefuseKeeps ==
  ASSUME IndInv, NEW c \in Calls, Refuse(c)
  PROVE  IndInv'
<1>1. CallInv(c)
  BY DEF IndInv
<1>2. /\ wire[c] = "sent" /\ answer[c] = "none"
      /\ UNCHANGED <<server, pc, req, sem, session, cmd, fetched, did, touched, reply>>
  BY <1>1 DEF Refuse, CallInv, AnswerInv
<1>3. /\ wire'[c] = "dropped" /\ answer'[c] \in {"no", "none"}
      /\ \A d \in Calls \ {c} : wire'[d] = wire[d] /\ answer'[d] = answer[d]
  BY <1>2 DEF Refuse, Tag, IndInv, TypeOK
<1>4. TypeOK'
  BY DEF Refuse, Tag, server, IndInv, TypeOK
<1>5. SlotInv'
  BY <1>2 DEF IndInv, SlotInv, InSession
<1>6. StageInv(c)'
  BY <1>1, <1>2, <1>3 DEF CallInv, StageInv, server
<1>7. WorkInv(c)'
  BY <1>1, <1>2, <1>3 DEF CallInv, WorkInv
<1>8. AnswerInv(c)' /\ ReplyInv(c)'
  BY <1>1, <1>2, <1>3 DEF CallInv, AnswerInv, ReplyInv
<1>9. OthersKept(c)
  BY <1>2, <1>3 DEF OthersKept
<1> QED BY <1>2, <1>3, <1>4, <1>5, <1>6, <1>7, <1>8, <1>9, LocalKeeps DEF CallInv, server

\* The message a command at large is about.
LEMMA NamedMessage ==
  ASSUME IndInv, NEW c \in Calls, wire[c] = "sent"
  PROVE  /\ req[c].msg \in Msgs /\ box[req[c].msg] \in Message
         /\ req[c].add \in BOOLEAN /\ req[c].modseq \in 0..MaxMod
<1>1. CallInv(c)
  BY DEF IndInv
<1> QED BY <1>1 DEF CallInv, StageInv, IndInv, TypeOK

\* A STORE leaves a message where it is and sets the flags.
LEMMA StoredMessage ==
  ASSUME NEW c \in Calls, NEW b \in Message, b.mod < MaxMod, req[c].add \in BOOLEAN
  PROVE  /\ Stored(c, b) \in Message /\ Stored(c, b).in = b.in
         /\ Stored(c, b).flag = req[c].add
<1>1. CASE b.flag = req[c].add
  BY <1>1 DEF Stored
<1>2. CASE b.flag # req[c].add
  <2>1. b.mod + 1 \in Mods
    BY ConstantsAssumption DEF Message, Mods
  <2> QED BY <1>2, <2>1 DEF Stored, Message
<1> QED BY <1>1, <1>2

\* Every command of the server is lawful.
LEMMA ExecuteKeeps ==
  ASSUME IndInv, NEW c \in Calls, Execute(c)
  PROVE  IndInv'
<1> DEFINE b == box[req[c].msg]
<1>1. wire[c] = "sent"
  BY DEF Execute, ExecuteStore, ExecuteConditional, ExecuteMove, ExecuteCopy, ExecuteMark,
         ExecuteExpunge, Ready
<1>2. b \in Message /\ req[c].add \in BOOLEAN /\ req[c].modseq \in 0..MaxMod
  BY <1>1, NamedMessage
<1>3. fetched \in [Calls -> Fetch \cup {None}]
  BY DEF IndInv, TypeOK
<1>4. CASE ExecuteStore(c)
  <2> DEFINE new == IF b.in THEN Stored(c, b) ELSE b
             effects == IF b.in THEN {"flag"} ELSE {}
  <2>1. Ready(c, "store") /\ Effect(c, new, effects, "ok") /\ b.mod < MaxMod /\ UNCHANGED fetched
    BY <1>4 DEF ExecuteStore
  <2>2. Lawful(c, "store", new, effects, "ok")
    BY <1>2, <1>3, <2>1, StoredMessage DEF Lawful, Effects
  <2> HIDE DEF new, effects
  <2> QED BY <2>1, <2>2, EffectKeeps DEF Commands
<1>5. CASE ExecuteConditional(c)
  <2> DEFINE holds == b.in /\ b.mod <= req[c].modseq
             new == IF holds THEN Stored(c, b) ELSE b
             effects == IF holds THEN {"flag"} ELSE {}
             state(x) == [mod |-> x.mod, flag |-> x.flag]
  <2>1. Ready(c, "cstore") /\ Effect(c, new, effects, "ok") /\ b.mod < MaxMod
    BY <1>5 DEF ExecuteConditional
  <2>0. PICK news \in {Unusable} \cup (IF holds THEN {state(Stored(c, b))}
                                      ELSE IF b.in THEN {state(b), None} ELSE {None}) :
          fetched' = [fetched EXCEPT ![c] = news]
    BY <1>5 DEF ExecuteConditional
  <2>2. Stored(c, b) \in Message /\ Stored(c, b).in = b.in /\ Stored(c, b).flag = req[c].add
    BY <1>2, <2>1, StoredMessage
  <2>3. /\ news \in Fetch \cup {None}
        /\ news = None => ~holds
        /\ news \notin {None, Unusable} /\ holds => news.flag = req[c].add
        /\ news \notin {None, Unusable} /\ ~holds => news.mod > req[c].modseq
    <3>1. Unusable \in Fetch /\ None \notin Fetch
      BY ConstantsAssumption DEF Unusable, Fetch
    <3>2. CASE news = Unusable
      BY <3>1, <3>2
    <3>3. CASE holds /\ news = state(Stored(c, b))
      <4>1. news \in Fetch /\ news.flag = req[c].add
        BY <2>2, <3>3, ConstantsAssumption DEF Message, Mods, Fetch
      <4> QED BY <3>1, <3>3, <4>1
    <3>4. CASE ~holds /\ b.in /\ news = state(b)
      <4>1. news \in Fetch /\ news.mod > req[c].modseq
        BY <1>2, <3>4, ConstantsAssumption DEF Message, Mods, Fetch
      <4> QED BY <3>1, <3>4, <4>1
    <3>5. CASE ~holds /\ news = None
      BY <3>5
    <3> HIDE DEF holds, state
    <3> QED BY <3>2, <3>3, <3>4, <3>5
  <2>4. /\ fetched' \in [Calls -> Fetch \cup {None}]
        /\ fetched'[c] = news /\ \A d \in Calls \ {c} : fetched'[d] = fetched[d]
    BY <1>3, <2>0, <2>3
  <2>5. /\ new \in Message /\ (~b.in => ~new.in) /\ effects \subseteq {"flag"}
        /\ holds <=> effects # {} /\ (holds => "flag" \in effects)
    BY <1>2, <2>2
  <2> HIDE DEF new, effects, holds
  <2>6. Lawful(c, "cstore", new, effects, "ok")
    BY <2>3, <2>4, <2>5 DEF Lawful, Effects
  <2> QED BY <2>1, <2>6, EffectKeeps DEF Commands
<1>6. CASE ExecuteMove(c)
  <2>1. Ready(c, "move") /\ UNCHANGED fetched
    BY <1>6 DEF ExecuteMove
  <2>2. ASSUME NEW a \in {"copyuid", "ok", "bad_copyuid"},
               Effect(c, [b EXCEPT !.in = FALSE], {"copy", "remove"}, a)
        PROVE  IndInv'
    <3>1. Lawful(c, "move", [b EXCEPT !.in = FALSE], {"copy", "remove"}, a)
      BY <1>2, <1>3, <2>1 DEF Lawful, Effects, Message
    <3> QED BY <2>1, <2>2, <3>1, EffectKeeps DEF Commands
  <2>3. CASE Effect(c, b, {}, "ok")
    <3>1. Lawful(c, "move", b, {}, "ok")
      BY <1>2, <1>3, <2>1 DEF Lawful, Effects
    <3> QED BY <2>1, <2>3, <3>1, EffectKeeps DEF Commands
  <2> QED BY <1>6, <2>2, <2>3 DEF ExecuteMove
<1>7. CASE ExecuteCopy(c)
  <2>1. Ready(c, "copy") /\ UNCHANGED fetched
    BY <1>7 DEF ExecuteCopy
  <2>2. ASSUME NEW a \in {"copyuid", "ok", "bad_copyuid"}, Effect(c, b, {"copy"}, a)
        PROVE  IndInv'
    <3>1. Lawful(c, "copy", b, {"copy"}, a)
      BY <1>2, <1>3, <2>1 DEF Lawful, Effects
    <3> QED BY <2>1, <2>2, <3>1, EffectKeeps DEF Commands
  <2>3. CASE Effect(c, b, {}, "ok")
    <3>1. Lawful(c, "copy", b, {}, "ok")
      BY <1>2, <1>3, <2>1 DEF Lawful, Effects
    <3> QED BY <2>1, <2>3, <3>1, EffectKeeps DEF Commands
  <2> QED BY <1>7, <2>2, <2>3 DEF ExecuteCopy
<1>8. CASE ExecuteMark(c)
  <2> DEFINE new == [b EXCEPT !.deleted = @ \/ b.in]
             effects == IF b.in THEN {"mark"} ELSE {}
  <2>1. Ready(c, "mark") /\ Effect(c, new, effects, "ok") /\ UNCHANGED fetched
    BY <1>8 DEF ExecuteMark
  <2>2. new \in Message /\ new.in = b.in
    <3>1. (b.deleted \/ b.in) \in BOOLEAN
      BY Zenon
    <3> QED BY <1>2, <3>1 DEF Message
  <2>3. effects \subseteq {"mark"}
    OBVIOUS
  <2> HIDE DEF new, effects
  <2>4. Lawful(c, "mark", new, effects, "ok")
    BY <1>3, <2>1, <2>2, <2>3 DEF Lawful, Effects
  <2> QED BY <2>1, <2>4, EffectKeeps DEF Commands
<1>9. CASE ExecuteExpunge(c)
  <2> DEFINE gone == b.in /\ b.deleted
             new == IF gone THEN [b EXCEPT !.in = FALSE] ELSE b
             effects == IF gone THEN {"remove"} ELSE {}
  <2>1. Ready(c, "expunge") /\ Effect(c, new, effects, "ok") /\ UNCHANGED fetched
    BY <1>9 DEF ExecuteExpunge
  <2>2. Lawful(c, "expunge", new, effects, "ok")
    BY <1>2, <1>3, <2>1 DEF Lawful, Effects, Message
  <2> HIDE DEF new, effects
  <2> QED BY <2>1, <2>2, EffectKeeps DEF Commands
<1> QED BY <1>4, <1>5, <1>6, <1>7, <1>8, <1>9 DEF Execute

-----------------------------------------------------------------------------
(* The answers. *)

\* A call that has dispatched a command ends, with a true reply.
LEMMA ReplyKeeps ==
  ASSUME IndInv, NEW c \in Calls, pc[c] \in {"sent", "verify"},
         NEW r, r \in {"error", "concurrent_modification", "outcome_unknown", "success",
                       "copied_not_marked", "marked_not_expunged", "success_incomplete",
                       "success_no_copyuid", "protocol_error"},
         Return(c, r), answer' \in {answer, [answer EXCEPT ![c] = "none"]},
         r # "outcome_unknown" => wire[c] # "sent",
         r \in {"error", "concurrent_modification"} => did[c] = {},
         r = "protocol_error" => cmd[c] = "cstore",
         r = "copied_not_marked" => did[c] = {"copy"},
         r = "marked_not_expunged" => "copy" \in did[c] /\ "remove" \notin did[c],
         r = "success" =>
           IF req[c].op = "flags"
           THEN "flag" \in did[c] \/ (cmd[c] = "cstore" /\ fetched[c].mod > req[c].modseq)
           ELSE "copy" \in did[c] /\ (cmd[c] = "move" => "remove" \in did[c]),
         UNCHANGED <<server, req, session, cmd, wire, fetched, did, touched>>
  PROVE  IndInv'
<1> USE DEF Return, Goto, server
<1>1. /\ pc'[c] = "done" /\ reply'[c] = r /\ answer'[c] \in {answer[c], "none"}
      /\ \A d \in Calls \ {c} :
           pc'[d] = pc[d] /\ reply'[d] = reply[d] /\ answer'[d] = answer[d]
  BY DEF IndInv, TypeOK
<1>2. SlotInv' /\ sem' \in 0..Slots
  BY SlotFreed DEF Session
<1>3. TypeOK'
  BY <1>2 DEF IndInv, TypeOK
<1>4. CallInv(c)
  BY DEF IndInv
<1>5. StageInv(c)'
  BY <1>1, <1>4 DEF CallInv, StageInv
<1>6. WorkInv(c)' /\ AnswerInv(c)'
  BY <1>1, <1>4 DEF CallInv, WorkInv, AnswerInv
<1>7. ReplyInv(c)'
  <2>1. r = "protocol_error" => did[c] \subseteq {"flag"}
    BY <1>4 DEF CallInv, StageInv, WorkInv
  <2> QED BY <1>1, <2>1 DEF ReplyInv
<1>8. OthersKept(c)
  BY <1>1 DEF OthersKept
<1>9. wire[c] = "executed" /\ cmd[c] = "store" /\ "flag" \notin did[c] /\ session[c] = validity
        => ~box[req[c].msg].in
  BY DEF IndInv, VanishedInv
<1> QED BY <1>2, <1>3, <1>5, <1>6, <1>7, <1>8, <1>9, LocalKeeps DEF CallInv

\* The command is answered, and the answer is read.
LEMMA ReceiveKeeps ==
  ASSUME IndInv, NEW c \in Calls, Receive(c)
  PROVE  IndInv'
<1> DEFINE o == Outcome(c, cmd[c], answer[c])
<1>1. /\ pc[c] = "sent" /\ answer[c] # "none"
      /\ UNCHANGED <<server, req, session, fetched, did, touched>>
      /\ \/ o \in Commands /\ Send(c, o)
         \/ /\ o = "verify" /\ Goto(c, "verify")
            /\ UNCHANGED <<cmd, wire, answer, sem, reply>>
         \/ o \notin Commands \cup {"verify"} /\ Return(c, o) /\ UNCHANGED <<cmd, wire, answer>>
  BY DEF Receive
<1>2. CallInv(c)
  BY DEF IndInv
<1>3. /\ answer[c] \in {"ok", "no", "copyuid", "bad_copyuid"}
      /\ cmd[c] \in {"store", "cstore", "move", "copy", "mark", "expunge"}
      /\ wire[c] = IF answer[c] = "no" THEN "dropped" ELSE "executed"
      /\ answer[c] \in {"copyuid", "bad_copyuid"} => cmd[c] \in {"move", "copy"}
  BY <1>1, <1>2 DEF CallInv, StageInv, WorkInv, AnswerInv, IndInv, TypeOK
<1>4. /\ cmd[c] \in {"store", "cstore"} <=> req[c].op = "flags"
      /\ cmd[c] \in {"mark", "expunge"} => "copy" \in did[c]
  BY <1>2, <1>3 DEF CallInv, WorkInv
<1>5. ASSUME NEW r \in {"error", "concurrent_modification", "outcome_unknown", "success",
                        "copied_not_marked", "marked_not_expunged", "success_no_copyuid",
                        "protocol_error"},
             o = r,
             r \in {"error", "concurrent_modification"} => did[c] = {},
             r = "protocol_error" => cmd[c] = "cstore",
             r = "copied_not_marked" => did[c] = {"copy"},
             r = "marked_not_expunged" => "copy" \in did[c] /\ "remove" \notin did[c],
             r = "success" =>
               IF req[c].op = "flags"
               THEN "flag" \in did[c] \/ (cmd[c] = "cstore" /\ fetched[c].mod > req[c].modseq)
               ELSE "copy" \in did[c] /\ (cmd[c] = "move" => "remove" \in did[c])
      PROVE  IndInv'
  <2>1. Return(c, r) /\ UNCHANGED <<cmd, wire, answer>>
    BY <1>1, <1>5 DEF Commands
  <2>2. wire[c] # "sent"
    BY <1>3
  <2> HIDE DEF o
  <2> QED BY <1>1, <1>5, <2>1, <2>2, ReplyKeeps
<1>6. CASE answer[c] = "no"
  <2>1. /\ cmd[c] \in {"store", "cstore", "move", "copy"} => did[c] = {}
        /\ cmd[c] = "mark" => did[c] = {"copy"}
        /\ cmd[c] = "expunge" => "remove" \notin did[c]
    BY <1>2, <1>3, <1>6 DEF CallInv, WorkInv
  <2>2. o = IF cmd[c] = "mark" THEN "copied_not_marked"
            ELSE IF cmd[c] = "expunge" THEN "marked_not_expunged" ELSE "error"
    BY <1>3, <1>6 DEF Outcome
  <2> HIDE DEF o
  <2> QED BY <1>3, <1>4, <1>5, <2>1, <2>2
<1>7. CASE answer[c] = "bad_copyuid" \/ (answer[c] = "ok" /\ cmd[c] = "copy")
  <2>1. o = "outcome_unknown"
    BY <1>3, <1>7 DEF Outcome
  <2> HIDE DEF o
  <2> QED BY <1>5, <2>1
<1>8. CASE answer[c] = "ok" /\ cmd[c] = "store"
  <2>1. o = "verify"
    BY <1>8 DEF Outcome
  <2>2. Goto(c, "verify") /\ UNCHANGED <<cmd, wire, answer, sem, reply>>
    BY <1>1, <2>1 DEF Commands
  <2>3. pc'[c] = "verify" /\ \A d \in Calls \ {c} : pc'[d] = pc[d]
    BY <2>2 DEF Goto, IndInv, TypeOK
  <2>4. SlotInv' /\ sem' \in 0..Slots
    BY <1>1, <2>2, SlotKept DEF Session
  <2>5. TypeOK'
    BY <1>1, <2>2, <2>4 DEF Goto, server, IndInv, TypeOK
  <2>6. StageInv(c)'
    BY <1>1, <1>2, <1>3, <1>8, <2>2, <2>3 DEF CallInv, StageInv, server
  <2>7. WorkInv(c)' /\ AnswerInv(c)' /\ ReplyInv(c)'
    BY <1>1, <1>2, <2>2 DEF CallInv, WorkInv, AnswerInv, ReplyInv
  <2>8. OthersKept(c)
    BY <1>1, <2>2, <2>3 DEF OthersKept
  <2>9. wire[c] = "executed" /\ cmd[c] = "store" /\ "flag" \notin did[c]
          /\ session[c] = validity => ~box[req[c].msg].in
    BY DEF IndInv, VanishedInv
  <2> QED BY <1>1, <2>2, <2>4, <2>5, <2>6, <2>7, <2>8, <2>9, LocalKeeps DEF CallInv, server
<1>9. CASE answer[c] = "ok" /\ cmd[c] = "cstore"
  <2>1. o = ValidateConditionalStore(c)
    BY <1>9 DEF Outcome
  <2>2. /\ fetched[c] = None => did[c] = {}
        /\ fetched[c] \notin {None, Unusable} =>
            /\ fetched[c].mod > req[c].modseq \/ fetched[c].flag = req[c].add
            /\ "flag" \in did[c] \/ fetched[c].mod > req[c].modseq
    BY <1>2, <1>3, <1>9 DEF CallInv, AnswerInv
  <2>3. /\ fetched[c] = None => o = "concurrent_modification"
        /\ fetched[c] = Unusable /\ fetched[c] # None => o = "protocol_error"
        /\ fetched[c] \notin {None, Unusable} => o = "success"
    <3>1. None # Unusable
      <4>1. Unusable \in [mod : 0..MaxMod, flag : BOOLEAN]
        BY ConstantsAssumption DEF Unusable
      <4> QED BY <4>1, ConstantsAssumption
    <3> QED BY <2>1, <2>2, <3>1 DEF ValidateConditionalStore
  <2> HIDE DEF o
  <2> QED BY <1>4, <1>5, <1>9, <2>2, <2>3
<1>10. CASE cmd[c] = "move" /\ answer[c] \in {"ok", "copyuid"}
  <2>1. o = IF answer[c] = "ok" THEN "success_no_copyuid" ELSE "success"
    BY <1>10 DEF Outcome
  <2>2. answer[c] = "copyuid" => "copy" \in did[c] /\ "remove" \in did[c]
    BY <1>2, <1>3, <1>10 DEF CallInv, WorkInv, AnswerInv
  <2> HIDE DEF o
  <2> QED BY <1>4, <1>5, <1>10, <2>1, <2>2
<1>11. CASE cmd[c] = "copy" /\ answer[c] = "copyuid"
  <2>1. o = "mark"
    BY <1>11 DEF Outcome
  <2>2. "copy" \in did[c]
    BY <1>2, <1>11 DEF CallInv, AnswerInv
  <2>3. Send(c, "mark")
    BY <1>1, <2>1 DEF Commands
  <2> QED BY <1>1, <1>11, <2>2, <2>3, SendKeeps DEF Commands
<1>12. CASE cmd[c] = "mark" /\ answer[c] = "ok"
  <2>1. o = "expunge"
    BY <1>12 DEF Outcome
  <2>2. Send(c, "expunge")
    BY <1>1, <2>1 DEF Commands
  <2> QED BY <1>1, <1>12, <2>2, SendKeeps DEF Commands
<1>13. CASE cmd[c] = "expunge" /\ answer[c] = "ok"
  <2>1. o = "success"
    BY <1>13 DEF Outcome
  <2> HIDE DEF o
  <2> QED BY <1>4, <1>5, <1>13, <2>1
<1> QED BY <1>3, <1>6, <1>7, <1>8, <1>9, <1>10, <1>11, <1>12, <1>13

\* The connection is lost, or the flags are read back.
LEMMA EndKeeps ==
  ASSUME IndInv, NEW c \in Calls, Lose(c) \/ Verify(c)
  PROVE  IndInv'
<1>1. CallInv(c)
  BY DEF IndInv
<1>2. CASE Lose(c)
  BY <1>2, ReplyKeeps DEF Lose, LostOutcome
<1>3. CASE Verify(c)
  <2>1. /\ pc[c] = "verify" /\ UNCHANGED <<server, req, command>>
        /\ cmd[c] = "store" /\ wire[c] = "executed" /\ req[c].op = "flags"
    BY <1>1, <1>3 DEF Verify, CallInv, StageInv, WorkInv
  <2>2. CASE session[c] = validity /\ box[req[c].msg].in /\ Return(c, "success")
    <3>1. "flag" \in did[c]
      BY <2>1, <2>2 DEF IndInv, VanishedInv
    <3> QED BY <2>1, <2>2, <3>1, ReplyKeeps DEF command
  <2>3. CASE Return(c, "success_incomplete")
    BY <2>1, <2>3, ReplyKeeps DEF command
  <2> QED BY <1>3, <2>2, <2>3 DEF Verify
<1> QED BY <1>2, <1>3

-----------------------------------------------------------------------------
(* The other clients of the mailbox. *)

\* Another client changes a message that is there.
LEMMA OtherKeeps ==
  ASSUME IndInv, NEW m \in Msgs, OtherFlag(m) \/ OtherMark(m) \/ OtherExpunge(m)
  PROVE  IndInv'
<1>1. PICK new \in Message : box[m].in /\ Other(m, new)
  <2>1. box[m] \in Message
    BY DEF IndInv, TypeOK
  <2>2. CASE OtherFlag(m)
    <3>1. box[m].mod + 1 \in Mods
      BY <2>1, <2>2, ConstantsAssumption DEF OtherFlag, Message, Mods
    <3>2. [box[m] EXCEPT !.flag = ~@, !.mod = @ + 1] \in Message
      BY <2>1, <3>1 DEF Message
    <3> QED BY <2>2, <3>2 DEF OtherFlag
  <2>3. CASE OtherMark(m)
    <3>1. [box[m] EXCEPT !.deleted = ~@] \in Message
      BY <2>1 DEF Message
    <3> QED BY <2>3, <3>1 DEF OtherMark
  <2>4. CASE OtherExpunge(m)
    <3>1. [box[m] EXCEPT !.in = FALSE] \in Message
      BY <2>1 DEF Message
    <3> QED BY <2>4, <3>1 DEF OtherExpunge
  <2> QED BY <2>2, <2>3, <2>4
<1>2. UNCHANGED <<caps, validity, pc, req, sem, session, cmd, wire, answer, fetched, did,
                  touched, reply>>
  BY <1>1 DEF Other, command
<1>3. /\ box' \in [Msgs -> Message] /\ \A n \in Msgs : ~box[n].in => ~box'[n].in
  BY <1>1 DEF Other, IndInv, TypeOK
<1>4. TypeOK' /\ SlotInv'
  BY <1>2, <1>3 DEF IndInv, TypeOK, SlotInv, InSession
<1>5. ASSUME NEW c \in Calls PROVE CallInv(c)'
  <2>1. CallInv(c)
    BY DEF IndInv
  <2> QED BY <1>2, <2>1 DEF CallInv, StageInv, WorkInv, AnswerInv, ReplyInv
<1>6. VanishedInv'
  BY <1>2, <1>3 DEF IndInv, VanishedInv, CallInv, StageInv
<1> QED BY <1>4, <1>5, <1>6 DEF IndInv

\* The mailbox is recreated: every session is in a mailbox that is gone.
LEMMA RecreateKeeps ==
  ASSUME IndInv, Recreate
  PROVE  IndInv'
<1>1. /\ validity' = validity + 1 /\ validity \in 1..MaxValidity /\ validity' \in 1..MaxValidity
      /\ UNCHANGED <<caps, pc, req, sem, session, cmd, wire, answer, fetched, did, touched,
                     reply>>
  BY ConstantsAssumption DEF Recreate, command, IndInv, TypeOK
<1>2. box' \in [Msgs -> Message]
  BY ConstantsAssumption DEF Recreate, Fresh, Message, Mods
<1>3. TypeOK' /\ SlotInv'
  BY <1>1, <1>2 DEF IndInv, TypeOK, SlotInv, InSession
<1>4. \A c \in Calls : session[c] \in 0..MaxValidity /\ session[c] < validity'
  BY <1>1 DEF IndInv, TypeOK, CallInv, StageInv
<1>5. ASSUME NEW c \in Calls PROVE CallInv(c)'
  <2>1. CallInv(c)
    BY DEF IndInv
  <2>2. StageInv(c)'
    BY <1>1, <1>4, <2>1 DEF CallInv, StageInv
  <2> QED BY <1>1, <2>1, <2>2 DEF CallInv, WorkInv, AnswerInv, ReplyInv
<1>6. VanishedInv'
  BY <1>1, <1>4 DEF VanishedInv
<1> QED BY <1>3, <1>5, <1>6 DEF IndInv

-----------------------------------------------------------------------------
(* The invariant is inductive. *)

\* The empty mailbox session.
LEMMA InitHolds == Init => IndInv
<1> SUFFICES ASSUME Init PROVE IndInv
  OBVIOUS
<1>1. TypeOK
  <2>1. Fresh \in Message
    BY ConstantsAssumption DEF Fresh, Message, Mods
  <2>2. 0 \in 0..MaxValidity /\ 0 \in 0..MaxMod /\ 0 \in 0..Slots /\ 1 \in 1..MaxValidity
    BY ConstantsAssumption
  <2> QED BY <2>1, <2>2 DEF Init, TypeOK, NoRequest, Effects
<1>2. SlotInv
  <2>1. InSession = {}
    BY DEF Init, InSession, Session
  <2> QED BY <2>1, FS_EmptySet DEF SlotInv, Init
<1>3. VanishedInv
  BY DEF Init, VanishedInv
<1>4. \A c \in Calls : CallInv(c)
  BY ConstantsAssumption DEF Init, CallInv, StageInv, WorkInv, AnswerInv, ReplyInv, NoRequest
<1> QED BY <1>1, <1>2, <1>3, <1>4 DEF IndInv

\* Every step of the calls, the server and the other clients keeps it.
LEMMA NextKeeps == IndInv /\ [Next]_vars => IndInv'
<1> SUFFICES ASSUME IndInv, [Next]_vars PROVE IndInv'
  OBVIOUS
<1>1. ASSUME NEW c \in Calls, NEW m \in Msgs, NEW add \in BOOLEAN,
             NEW modseq \in {0, box[m].mod}, SetMessageFlags(c, m, add, modseq)
      PROVE  IndInv'
  <2>1. modseq \in 0..MaxMod
    BY <1>1, ConstantsAssumption DEF IndInv, TypeOK, Message, Mods
  <2> QED BY <1>1, <2>1, StartKeeps DEF SetMessageFlags
<1>2. ASSUME NEW c \in Calls, NEW m \in Msgs, MoveMessage(c, m) \/ TrashMessage(c, m)
      PROVE  IndInv'
  <2> DEFINE r == [NoRequest EXCEPT !.op = "move", !.msg = m, !.validity = validity]
  <2>1. 0 \in 0..MaxMod
    BY ConstantsAssumption
  <2>2. r \in [op : {"flags", "move"}, msg : Msgs, validity : {validity},
               add : BOOLEAN, modseq : 0..MaxMod]
    BY <2>1 DEF NoRequest
  <2>3. Accept(c, r)
    BY <1>2 DEF MoveMessage, TrashMessage
  <2> HIDE DEF r
  <2> QED BY <2>2, <2>3, StartKeeps
<1>3. ASSUME NEW c \in Calls, Deny(c) PROVE IndInv'
  <2>1. SlotInv' /\ sem' \in 0..Slots
    BY <1>3, SlotKept DEF Deny, Session
  <2> QED BY <1>3, <2>1, FailKeeps DEF Deny
<1>4. ASSUME NEW c \in Calls, CallStep(c) PROVE IndInv'
  BY <1>4, OpenKeeps, DispatchKeeps, ReceiveKeeps, EndKeeps DEF CallStep
<1>5. ASSUME NEW c \in Calls, Execute(c) \/ Refuse(c) PROVE IndInv'
  BY <1>5, ExecuteKeeps, RefuseKeeps
<1>6. ASSUME NEW m \in Msgs, OtherFlag(m) \/ OtherMark(m) \/ OtherExpunge(m) PROVE IndInv'
  BY <1>6, OtherKeeps
<1>7. CASE Recreate
  BY <1>7, RecreateKeeps
<1>8. CASE UNCHANGED vars
  <2>1. TypeOK' /\ SlotInv' /\ VanishedInv'
    BY <1>8 DEF vars, IndInv, TypeOK, SlotInv, InSession, VanishedInv
  <2>2. ASSUME NEW c \in Calls PROVE CallInv(c)'
    <3>1. CallInv(c)
      BY DEF IndInv
    <3> QED BY <1>8, <3>1 DEF vars, CallInv, StageInv, WorkInv, AnswerInv, ReplyInv
  <2> QED BY <2>1, <2>2 DEF IndInv
<1> QED BY <1>1, <1>2, <1>3, <1>4, <1>5, <1>6, <1>7, <1>8 DEF Next

-----------------------------------------------------------------------------
(* The theorems. *)

\* The mailbox, the calls and the commands keep their shape; the counter of
\* mutationSem never leaves its range.
THEOREM TypeCorrect == Spec => []TypeOK
<1>1. IndInv => TypeOK
  BY DEF IndInv
<1> QED BY <1>1, InitHolds, NextKeeps, PTL DEF Spec

\* moveWithSession never marks or removes a source the server has not copied for
\* this call, whichever answers are lost and however late commands are executed.
THEOREM CopiedFirst == Spec => []CopyBeforeRemoval
<1>1. IndInv => CopyBeforeRemoval
  <2> SUFFICES ASSUME IndInv, NEW c \in Calls, did[c] \cap {"mark", "remove"} # {}
               PROVE  "copy" \in did[c]
    BY DEF CopyBeforeRemoval
  <2>1. CallInv(c) /\ cmd[c] \in Commands \cup {"none"}
    BY DEF IndInv, TypeOK
  <2>2. wire[c] # "none"
    BY <2>1 DEF CallInv, WorkInv
  <2>3. cmd[c] \notin {"store", "cstore", "copy"}
    BY <2>1, <2>2 DEF CallInv, WorkInv
  <2>4. cmd[c] \in {"move", "mark", "expunge"}
    BY <2>1, <2>2, <2>3 DEF CallInv, WorkInv
  <2> QED BY <2>1, <2>2, <2>4 DEF CallInv, WorkInv
<1> QED BY <1>1, InitHolds, NextKeeps, PTL DEF Spec

\* The UIDVALIDITY check and the session keep every change to the mailbox the
\* caller has seen, wherever a recreation falls between two steps.
THEOREM OnlyNamedMessage == Spec => []NamedMessageOnly
<1>1. IndInv => NamedMessageOnly
  BY DEF IndInv, CallInv, WorkInv, NamedMessageOnly
<1> QED BY <1>1, InitHolds, NextKeeps, PTL DEF Spec

\* What a call reports is true and stays true, with every server, whatever FETCH
\* comes with a conditional STORE: only a protocol_error leaves open whether the flags
\* were stored, and only a MODSEQ above the caller's passes for a success of its own.
THEOREM TrueAnswers == Spec => []AnswerIsTrue
<1>1. IndInv => AnswerIsTrue
  BY DEF IndInv, CallInv, ReplyInv, AnswerIsTrue
<1> QED BY <1>1, InitHolds, NextKeeps, PTL DEF Spec

\* Every way out of a session gives its slot back exactly once: never more than
\* Slots sessions are open, and with none open no slot is lost.
THEOREM SessionsBounded ==
  Spec => [](/\ sem = Cardinality({c \in Calls : pc[c] \in {"select", "fetch", "dispatch",
                                                            "sent", "verify"}})
             /\ sem <= Slots)
<1>1. IndInv => /\ sem = Cardinality({c \in Calls : pc[c] \in {"select", "fetch", "dispatch",
                                                               "sent", "verify"}})
                /\ sem <= Slots
  BY ConstantsAssumption DEF IndInv, SlotInv, InSession, Session, TypeOK
<1> QED BY <1>1, InitHolds, NextKeeps, PTL DEF Spec
=============================================================================
