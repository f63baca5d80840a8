--------------------------- MODULE MailSendProofs ---------------------------
(***************************************************************************)
(* Proofs about MailSend, for any number of calls, keys, contents,         *)
(* recipients, cache entries and submission slots.                         *)
(*                                                                         *)
(* HoldInv is the reason why a key is submitted once: from the claim to    *)
(* the end of time the call that may submit, or has submitted, holds its   *)
(* key.  CallInv ties what a call has put on the wire to what it may say   *)
(* about it, stage by stage.  Slots are counted by the calls that are in a *)
(* session; nothing is assumed of Calls.                                   *)
(***************************************************************************)
EXTENDS MailSend, FiniteSetTheorems, TLAPS

Session == {"connect", "rcpt", "payload"}
Submitting == {"prepare", "acquire", "finish"} \cup Session

\* What a call knows and has done, by its stage.
CallInv(c) ==
  /\ pc[c] = "idle" => req[c] = NoRequest
  /\ pc[c] \notin {"idle", "done"} => req[c] \in Requests
  /\ pc[c] = "claim" => req[c].key # None
  /\ pc[c] # "done" => reply[c] = NoReply /\ ~closed[c]
  /\ closed[c] => req[c].key # None
  /\ pc[c] \in {"idle", "claim", "prepare", "acquire", "connect", "rcpt"} => ~started[c]
  /\ pc[c] = "payload" => started[c]
  /\ started[c] => envelope[c] = Recipients
  /\ pc[c] \notin {"finish", "done"} => result[c] = "none"
  /\ reply[c].kind \in {"own", "hit"} => reply[c].of \in Calls

\* What the status says about the recipients.
OutcomeInv(c) ==
  /\ delivered[c] \in {{}, Recipients}
  /\ result[c] = "accepted" => delivered[c] = Recipients
  /\ result[c] \in {"none", "rejected"} => delivered[c] = {}

\* The cache maps a key to a call of that key which is past its claim, and a
\* call that may submit under a key, or has, is the one.
HoldInv ==
  /\ \A k \in Keys : entries[k] # None =>
       req[entries[k]].key = k /\ pc[entries[k]] \notin {"idle", "claim"}
  /\ \A c \in Calls :
       req[c].key # None /\ (pc[c] \in Submitting \/ started[c] \/ closed[c])
         => entries[req[c].key] = c

InSession == {c \in Calls : pc[c] \in Session}

\* A slot is taken by every call that is in a session, and by nothing else.
SlotInv == IsFiniteSet(InSession) /\ sem = Cardinality(InSession)

IndInv ==
  /\ TypeOK
  /\ SlotInv
  /\ HoldInv
  /\ \A c \in Calls : CallInv(c) /\ OutcomeInv(c)

-----------------------------------------------------------------------------
(* The submission slots. *)

\* A step that neither opens nor ends a session leaves the slots alone.
LEMMA SlotKept ==
  ASSUME IndInv, NEW c \in Calls, NEW where, Goto(c, where),
         (where \in Session) <=> (pc[c] \in Session), UNCHANGED sem
  PROVE  SlotInv' /\ sem' \in 0..SendSlots
<1>1. InSession' = InSession
  BY DEF InSession, Goto, IndInv, TypeOK
<1> QED BY <1>1 DEF SlotInv, IndInv, TypeOK

\* A session begins.
LEMMA SlotTaken ==
  ASSUME IndInv, NEW c \in Calls, NEW where \in Session, Goto(c, where), pc[c] \notin Session,
         sem < SendSlots, sem' = sem + 1
  PROVE  SlotInv' /\ sem' \in 0..SendSlots
<1>1. InSession' = InSession \cup {c} /\ c \notin InSession
  BY DEF InSession, Goto, IndInv, TypeOK
<1>2. IsFiniteSet(InSession') /\ Cardinality(InSession') = Cardinality(InSession) + 1
  BY <1>1, FS_AddElement DEF IndInv, SlotInv
<1>3. sem' \in 0..SendSlots
  BY ConstantsAssumption DEF IndInv, TypeOK
<1> QED BY <1>2, <1>3 DEF SlotInv, IndInv

\* A session ends.
LEMMA SlotFreed ==
  ASSUME IndInv, NEW c \in Calls, NEW where, where \notin Session, Goto(c, where),
         pc[c] \in Session, sem' = sem - 1
  PROVE  SlotInv' /\ sem' \in 0..SendSlots
<1>1. InSession' = InSession \ {c} /\ c \in InSession
  BY DEF InSession, Goto, IndInv, TypeOK
<1>2. /\ IsFiniteSet(InSession') /\ Cardinality(InSession') = Cardinality(InSession) - 1
      /\ Cardinality(InSession') \in Nat
  BY <1>1, FS_RemoveElement, FS_CardinalityType DEF IndInv, SlotInv
<1>3. sem' = Cardinality(InSession')
  BY <1>2 DEF SlotInv, IndInv
<1>4. sem' \in 0..SendSlots
  BY <1>2, <1>3, ConstantsAssumption DEF IndInv, TypeOK
<1> QED BY <1>2, <1>3, <1>4 DEF SlotInv

-----------------------------------------------------------------------------
(* The steps of one call. *)

\* Nothing changes for the calls that do not take the step.
OthersKept(c) ==
  \A d \in Calls \ {c} :
    /\ pc'[d] = pc[d] /\ req'[d] = req[d] /\ reply'[d] = reply[d] /\ closed'[d] = closed[d]
    /\ started'[d] = started[d] /\ envelope'[d] = envelope[d]
    /\ result'[d] = result[d] /\ delivered'[d] = delivered[d]

\* What one call does concerns no other call's stage and outcome.
LEMMA OthersKeep ==
  ASSUME IndInv, NEW c \in Calls, OthersKept(c), CallInv(c)', OutcomeInv(c)'
  PROVE  \A d \in Calls : CallInv(d)' /\ OutcomeInv(d)'
<1> SUFFICES ASSUME NEW d \in Calls \ {c} PROVE CallInv(d)' /\ OutcomeInv(d)'
  OBVIOUS
<1>1. CallInv(d) /\ OutcomeInv(d)
  BY DEF IndInv
<1> QED BY <1>1 DEF OthersKept, CallInv, OutcomeInv

\* A step that leaves requests and keys alone and does not turn back.
LEMMA OnwardKeeps ==
  ASSUME IndInv, NEW c \in Calls, OthersKept(c), UNCHANGED <<req, entries>>,
         pc'[c] \notin {"idle", "claim"},
         pc'[c] \in Submitting \/ started'[c] \/ closed'[c]
           => pc[c] \in Submitting \/ started[c] \/ closed[c],
         TypeOK', SlotInv', CallInv(c)', OutcomeInv(c)'
  PROVE  IndInv'
<1>1. \A d \in Calls : CallInv(d)' /\ OutcomeInv(d)'
  BY OthersKeep
<1>2. HoldInv'
  BY DEF IndInv, TypeOK, HoldInv, OthersKept
<1> QED BY <1>1, <1>2 DEF IndInv

\* A call ends before it has claimed or submitted anything.
LEMMA ReturnKeeps ==
  ASSUME IndInv, NEW c \in Calls, pc[c] \in {"idle", "claim"},
         NEW r \in {"refused", "conflict", "hit"}, NEW d \in Calls \cup {None},
         r = "hit" => d \in Calls, Return(c, r, d),
         UNCHANGED <<req, ctxDone, cache, smtp, result>>
  PROVE  IndInv'
<1> USE DEF Return, Goto, cache, smtp
<1>1. /\ pc'[c] = "done" /\ reply'[c] = [kind |-> r, of |-> d]
      /\ \A e \in Calls \ {c} : pc'[e] = pc[e] /\ reply'[e] = reply[e]
  BY DEF IndInv, TypeOK
<1>2. OthersKept(c)
  BY <1>1 DEF OthersKept
<1>3. SlotInv' /\ sem' \in 0..SendSlots
  BY SlotKept DEF Session
<1>4. TypeOK'
  BY <1>3 DEF IndInv, TypeOK
<1>5. CallInv(c) /\ OutcomeInv(c)
  BY DEF IndInv
<1>6. CallInv(c)' /\ OutcomeInv(c)'
  BY <1>1, <1>5 DEF CallInv, OutcomeInv
<1> QED BY <1>1, <1>2, <1>3, <1>4, <1>5, <1>6, OnwardKeeps DEF Submitting, Session, CallInv

\* SendMessage and ReplyMessage: the request is known; it goes to the cache or
\* straight to the submission.
LEMMA RequestKeeps ==
  ASSUME IndInv, NEW c \in Calls, NEW r \in Requests, SendMessage(c, r)
  PROVE  IndInv'
<1> DEFINE where == IF r.key = None THEN "prepare" ELSE "claim"
<1>1. /\ pc[c] = "idle" /\ Goto(c, where)
      /\ req' = [req EXCEPT ![c] = r]
      /\ UNCHANGED <<ctxDone, entries, closed, sem, tried, envelope, started, delivered,
                     result, reply>>
  BY DEF SendMessage, cache, smtp
<1>2. /\ where \in {"prepare", "claim"}
      /\ where = "prepare" => r.key = None
      /\ where = "claim" => r.key # None
  OBVIOUS
<1> HIDE DEF where
<1>3. /\ pc'[c] = where /\ req'[c] = r
      /\ \A d \in Calls \ {c} : pc'[d] = pc[d] /\ req'[d] = req[d]
  BY <1>1 DEF Goto, IndInv, TypeOK
<1>4. SlotInv' /\ sem' \in 0..SendSlots
  BY <1>1, <1>2, SlotKept DEF Session
<1>5. TypeOK'
  BY <1>1, <1>2, <1>4 DEF Goto, IndInv, TypeOK
<1>6. CallInv(c) /\ OutcomeInv(c)
  BY DEF IndInv
<1>7. /\ ~started[c] /\ ~closed[c]
      /\ delivered[c] = {}
  BY <1>1, <1>6 DEF CallInv, OutcomeInv
<1>8. CallInv(c)'
  BY <1>1, <1>2, <1>3, <1>6 DEF CallInv
<1>9. OutcomeInv(c)'
  BY <1>1, <1>3, <1>6, <1>7 DEF OutcomeInv
<1>10. \A d \in Calls : CallInv(d)' /\ OutcomeInv(d)'
  BY <1>1, <1>3, <1>8, <1>9, OthersKeep DEF OthersKept
<1>11. HoldInv'
  BY <1>1, <1>2, <1>3, <1>7 DEF HoldInv, IndInv, TypeOK, Submitting, Session
<1> QED BY <1>4, <1>5, <1>10, <1>11 DEF IndInv

\* The key is free and the call takes it.
LEMMA ClaimKeeps ==
  ASSUME IndInv, NEW c \in Calls, Claim(c)
  PROVE  IndInv'
<1>1. /\ pc[c] = "claim" /\ entries[req[c].key] = None
      /\ entries' = [entries EXCEPT ![req[c].key] = c]
      /\ Goto(c, "prepare")
      /\ UNCHANGED <<req, ctxDone, closed, sem, tried, envelope, started, delivered,
                     result, reply>>
  BY DEF Claim, Existing, smtp
<1>2. CallInv(c) /\ OutcomeInv(c)
  BY DEF IndInv
<1>3. req[c] \in Requests /\ req[c].key \in Keys /\ req[c].key # None
  BY <1>1, <1>2 DEF CallInv, Requests
<1>4. pc'[c] = "prepare" /\ \A d \in Calls \ {c} : pc'[d] = pc[d]
  BY <1>1 DEF Goto, IndInv, TypeOK
<1>5. /\ entries'[req[c].key] = c
      /\ \A k \in Keys \ {req[c].key} : entries'[k] = entries[k]
  BY <1>1, <1>3 DEF IndInv, TypeOK
<1>6. SlotInv' /\ sem' \in 0..SendSlots
  BY <1>1, SlotKept DEF Session
<1>7. TypeOK'
  BY <1>1, <1>6 DEF Goto, IndInv, TypeOK
<1>8. CallInv(c)' /\ OutcomeInv(c)'
  BY <1>1, <1>2, <1>3, <1>4 DEF CallInv, OutcomeInv
<1>9. \A d \in Calls : CallInv(d)' /\ OutcomeInv(d)'
  BY <1>1, <1>4, <1>8, OthersKeep DEF OthersKept
<1>10. HoldInv'
  <2>1. \A k \in Keys : entries'[k] # None =>
           req'[entries'[k]].key = k /\ pc'[entries'[k]] \notin {"idle", "claim"}
    BY <1>1, <1>4, <1>5 DEF HoldInv, IndInv, TypeOK
  <2>2. ASSUME NEW d \in Calls, req[d].key # None,
               pc'[d] \in Submitting \/ started[d] \/ closed[d]
        PROVE  entries'[req[d].key] = d
    <3>1. CASE d = c
      BY <1>5, <3>1
    <3>2. CASE d # c
      <4>1. entries[req[d].key] = d
        BY <1>4, <2>2, <3>2 DEF HoldInv, IndInv
      <4>2. req[d].key \in Keys
        BY <2>2 DEF IndInv, TypeOK, Requests, NoRequest
      <4> QED BY <1>1, <1>5, <4>1, <4>2, ConstantsAssumption
    <3> QED BY <3>1, <3>2
  <2> QED BY <1>1, <2>1, <2>2 DEF HoldInv
<1> QED BY <1>6, <1>7, <1>9, <1>10 DEF IndInv

\* The submission ends with a status that says the truth about the recipients.
LEMMA FinishKeeps ==
  ASSUME IndInv, NEW c \in Calls, pc[c] \in {"prepare", "acquire", "connect", "rcpt", "payload"},
         NEW s \in {"accepted", "rejected", "unknown"}, Finish(c, s),
         NEW x \in {{}, Recipients}, delivered' = [delivered EXCEPT ![c] = x],
         s = "rejected" => x = {}, s = "accepted" => x = Recipients,
         SlotInv', sem' \in 0..SendSlots, tried' \in [Calls -> SUBSET Recipients],
         UNCHANGED <<req, ctxDone, cache, envelope, started, reply>>
  PROVE  IndInv'
<1> USE DEF Finish, Goto, cache
<1>1. /\ pc'[c] = "finish" /\ delivered'[c] = x
      /\ result'[c] = s
      /\ \A d \in Calls \ {c} :
           pc'[d] = pc[d] /\ delivered'[d] = delivered[d] /\ result'[d] = result[d]
  BY DEF IndInv, TypeOK
<1>2. TypeOK'
  BY DEF IndInv, TypeOK
<1>3. CallInv(c) /\ OutcomeInv(c)
  BY DEF IndInv
<1>4. CallInv(c)'
  BY <1>1, <1>3 DEF CallInv
<1>5. OutcomeInv(c)'
  BY <1>1, <1>3 DEF CallInv, OutcomeInv
<1>6. OthersKept(c)
  BY <1>1 DEF OthersKept
<1> QED BY <1>1, <1>2, <1>4, <1>5, <1>6, OnwardKeeps DEF Submitting, Session

\* From the claim to the session.
LEMMA PrepareKeeps ==
  ASSUME IndInv, NEW c \in Calls,
         PrepareFails(c) \/ Prepare(c) \/ AcquireSem(c) \/ AcquireCancelled(c) \/ Connect(c)
  PROVE  IndInv'
<1> USE DEF cache, smtp
<1>1. CallInv(c) /\ OutcomeInv(c)
  BY DEF IndInv
<1>2. CASE PrepareFails(c) \/ AcquireCancelled(c)
  <2>1. /\ pc[c] \in {"prepare", "acquire"} /\ Finish(c, "rejected")
        /\ UNCHANGED <<req, ctxDone, cache, smtp, reply>>
    BY <1>2 DEF PrepareFails, AcquireCancelled
  <2>2. SlotInv' /\ sem' \in 0..SendSlots
    BY <2>1, SlotKept DEF Finish, Session
  <2>3. delivered[c] = {}
    BY <1>1, <2>1 DEF CallInv, OutcomeInv
  <2>4. delivered' = [delivered EXCEPT ![c] = {}] /\ tried' \in [Calls -> SUBSET Recipients]
    BY <2>1, <2>3 DEF IndInv, TypeOK
  <2> QED BY <2>1, <2>2, <2>4, FinishKeeps
<1>3. ASSUME NEW from \in {"prepare", "acquire", "connect"},
             NEW where \in {"acquire", "connect", "rcpt"},
             pc[c] = from, Goto(c, where), SlotInv', sem' \in 0..SendSlots,
             UNCHANGED <<req, ctxDone, cache, tried, envelope, started, delivered, result, reply>>
      PROVE  IndInv'
  <2>1. pc'[c] = where /\ \A d \in Calls \ {c} : pc'[d] = pc[d]
    BY <1>3 DEF Goto, IndInv, TypeOK
  <2>2. TypeOK'
    BY <1>3 DEF Goto, IndInv, TypeOK
  <2>3. CallInv(c)' /\ OutcomeInv(c)'
    BY <1>1, <1>3, <2>1 DEF CallInv, OutcomeInv
  <2>4. OthersKept(c)
    BY <1>3, <2>1 DEF OthersKept
  <2> QED BY <1>3, <2>1, <2>2, <2>3, <2>4, OnwardKeeps DEF Submitting, Session
<1>4. CASE Prepare(c)
  BY <1>3, <1>4, SlotKept DEF Prepare, Session
<1>5. CASE AcquireSem(c)
  BY <1>3, <1>5, SlotTaken DEF AcquireSem, Session
<1>6. CASE Connect(c)
  BY <1>3, <1>6, SlotKept DEF Connect, Session
<1> QED BY <1>2, <1>4, <1>5, <1>6

\* RCPT by RCPT, and the DATA command.
LEMMA EnvelopeKeeps ==
  ASSUME IndInv, NEW c \in Calls,
         DataStart(c) \/ \E a \in Recipients, yes \in BOOLEAN : Rcpt(c, a, yes)
  PROVE  IndInv'
<1> USE DEF cache
<1>1. CallInv(c) /\ OutcomeInv(c)
  BY DEF IndInv
<1>2. CASE DataStart(c)
  <2>1. /\ pc[c] = "rcpt" /\ envelope[c] = Recipients
        /\ started' = [started EXCEPT ![c] = TRUE]
        /\ Goto(c, "payload")
        /\ UNCHANGED <<req, ctxDone, cache, sem, tried, envelope, delivered, result, reply>>
    BY <1>2 DEF DataStart, AnyRejected
  <2>2. /\ pc'[c] = "payload" /\ started'[c]
        /\ \A d \in Calls \ {c} : pc'[d] = pc[d] /\ started'[d] = started[d]
    BY <2>1 DEF Goto, IndInv, TypeOK
  <2>3. SlotInv' /\ sem' \in 0..SendSlots
    BY <2>1, SlotKept DEF Session
  <2>4. TypeOK'
    BY <2>1, <2>3 DEF Goto, IndInv, TypeOK
  <2>5. CallInv(c)' /\ OutcomeInv(c)'
    BY <1>1, <2>1, <2>2 DEF CallInv, OutcomeInv
  <2>6. OthersKept(c)
    BY <2>1, <2>2 DEF OthersKept
  <2> QED BY <2>1, <2>2, <2>3, <2>4, <2>5, <2>6, OnwardKeeps DEF Submitting, Session
<1>3. ASSUME NEW a \in Recipients, NEW yes \in BOOLEAN, Rcpt(c, a, yes)
      PROVE  IndInv'
  <2>1. /\ pc[c] = "rcpt"
        /\ tried' = [tried EXCEPT ![c] = @ \cup {a}]
        /\ envelope' = [envelope EXCEPT ![c] = IF yes THEN @ \cup {a} ELSE @]
        /\ UNCHANGED <<pc, req, ctxDone, cache, sem, started, delivered, result, reply>>
    BY <1>3 DEF Rcpt
  <2>2. /\ tried' \in [Calls -> SUBSET Recipients] /\ envelope' \in [Calls -> SUBSET Recipients]
        /\ \A d \in Calls \ {c} : envelope'[d] = envelope[d]
    BY <2>1 DEF IndInv, TypeOK
  <2>3. SlotInv'
    BY <2>1 DEF IndInv, SlotInv, InSession
  <2>4. TypeOK'
    BY <2>1, <2>2 DEF IndInv, TypeOK
  <2>5. CallInv(c)' /\ OutcomeInv(c)'
    BY <1>1, <2>1 DEF CallInv, OutcomeInv
  <2>6. OthersKept(c)
    BY <2>1, <2>2 DEF OthersKept
  <2> QED BY <2>1, <2>3, <2>4, <2>5, <2>6, OnwardKeeps DEF Submitting, Session
<1> QED BY <1>2, <1>3

\* The ways out of a session.  Before 354 nothing has been delivered and nothing
\* will be; after it all recipients may have the message, now or later.
LEMMA LeaveKeeps ==
  ASSUME IndInv, NEW c \in Calls,
         \/ ConnectFails(c) \/ RcptRejected(c) \/ DataRefused(c) \/ DataRejected(c)
         \/ DataLost(c) \/ DataAccepted(c) \/ Panic(c) \/ \E a \in Recipients : RcptLost(c, a)
  PROVE  IndInv'
<1> USE DEF cache
<1>1. CallInv(c) /\ OutcomeInv(c)
  BY DEF IndInv
<1>2. ASSUME pc[c] \in {"connect", "rcpt", "payload"}, NEW s \in {"accepted", "rejected", "unknown"},
             Leave(c, s), NEW x \in {{}, Recipients}, s = "rejected" => x = {},
             s = "accepted" => x = Recipients,
             delivered' = [delivered EXCEPT ![c] = x],
             tried' \in [Calls -> SUBSET Recipients],
             UNCHANGED <<req, ctxDone, cache, envelope, started, reply>>
      PROVE  IndInv'
  <2>1. SlotInv' /\ sem' \in 0..SendSlots
    BY <1>2, SlotFreed DEF Leave, Finish, Session
  <2> QED BY <1>2, <2>1, FinishKeeps DEF Leave
<1>3. pc[c] \in {"connect", "rcpt", "payload"} =>
        delivered[c] = {} /\ delivered = [delivered EXCEPT ![c] = {}]
  BY <1>1 DEF CallInv, OutcomeInv, IndInv, TypeOK
<1>4. tried \in [Calls -> SUBSET Recipients]
  BY DEF IndInv, TypeOK
<1>5. CASE ConnectFails(c) \/ RcptRejected(c) \/ DataRefused(c) \/ DataRejected(c)
  <2>1. /\ pc[c] \in {"connect", "rcpt", "payload"} /\ Leave(c, "rejected")
        /\ UNCHANGED <<req, ctxDone, cache, tried, envelope, started, delivered, reply>>
    BY <1>5 DEF ConnectFails, RcptRejected, DataRefused, DataRejected
  <2> QED BY <1>2, <1>3, <1>4, <2>1
<1>6. ASSUME NEW a \in Recipients, RcptLost(c, a) PROVE IndInv'
  <2>1. /\ pc[c] = "rcpt" /\ Leave(c, "rejected") /\ tried' = [tried EXCEPT ![c] = @ \cup {a}]
        /\ UNCHANGED <<req, ctxDone, cache, envelope, started, delivered, reply>>
    BY <1>6 DEF RcptLost
  <2>2. tried' \in [Calls -> SUBSET Recipients]
    BY <1>4, <2>1
  <2> QED BY <1>2, <1>3, <2>1, <2>2
<1>7. CASE DataLost(c)
  <2>1. /\ pc[c] = "payload" /\ Leave(c, "unknown")
        /\ UNCHANGED <<req, ctxDone, cache, tried, envelope, started, reply>>
    BY <1>7 DEF DataLost, LostStatus
  <2>2. PICK x \in {{}, Recipients} : delivered' = [delivered EXCEPT ![c] = x]
    BY <1>1, <1>7 DEF DataLost, CallInv
  <2> QED BY <1>2, <1>4, <2>1, <2>2
<1>8. CASE Panic(c)
  <2> DEFINE s == RecoveredStatus(c)
  <2>1. /\ pc[c] \in {"connect", "rcpt", "payload"} /\ Leave(c, s)
        /\ UNCHANGED <<req, ctxDone, cache, tried, envelope, started, reply>>
    BY <1>8 DEF Panic
  <2>2. PICK x \in {{}, Recipients} : /\ delivered' = [delivered EXCEPT ![c] = x]
                                      /\ ~started[c] => x = {}
    BY <1>1, <1>8 DEF Panic, CallInv
  <2>3. s \in {"rejected", "unknown"} /\ (s = "rejected" => ~started[c])
    BY DEF RecoveredStatus
  <2> HIDE DEF s
  <2> QED BY <1>2, <1>4, <2>1, <2>2, <2>3
<1>9. CASE DataAccepted(c)
  <2>1. /\ pc[c] = "payload" /\ Leave(c, "accepted")
        /\ delivered' = [delivered EXCEPT ![c] = Recipients]
        /\ UNCHANGED <<req, ctxDone, cache, tried, envelope, started, reply>>
    BY <1>1, <1>9 DEF DataAccepted, CallInv
  <2> QED BY <1>2, <1>4, <2>1
<1> QED BY <1>5, <1>6, <1>7, <1>8, <1>9

\* complete: the claim is closed for ever and the caller gets its own result.
LEMMA CompleteKeeps ==
  ASSUME IndInv, NEW c \in Calls, Complete(c)
  PROVE  IndInv'
<1>1. /\ pc[c] = "finish" /\ Return(c, "own", c)
      /\ closed' = [closed EXCEPT ![c] = req[c].key # None]
      /\ UNCHANGED <<req, ctxDone, entries, sem, tried, envelope, started, delivered, result>>
  BY DEF Complete, smtp
<1>2. CallInv(c) /\ OutcomeInv(c)
  BY DEF IndInv
<1>3. /\ pc'[c] = "done" /\ reply'[c] = [kind |-> "own", of |-> c]
      /\ closed'[c] => req[c].key # None
      /\ \A d \in Calls \ {c} : pc'[d] = pc[d] /\ reply'[d] = reply[d] /\ closed'[d] = closed[d]
  BY <1>1 DEF Return, Goto, IndInv, TypeOK
<1>4. SlotInv' /\ sem' \in 0..SendSlots
  BY <1>1, SlotKept DEF Return, Session
<1>5. closed' \in [Calls -> BOOLEAN]
  BY <1>1 DEF IndInv, TypeOK
<1>6. TypeOK'
  BY <1>1, <1>4, <1>5 DEF Return, Goto, IndInv, TypeOK
<1>7. CallInv(c)' /\ OutcomeInv(c)'
  BY <1>1, <1>2, <1>3 DEF CallInv, OutcomeInv
<1>8. OthersKept(c)
  BY <1>1, <1>3 DEF OthersKept
<1> QED BY <1>1, <1>3, <1>4, <1>6, <1>7, <1>8, OnwardKeeps DEF Submitting, Session

\* Contexts end and servers deliver late at any moment.
LEMMA EnvironmentKeeps ==
  ASSUME IndInv, NEW c \in Calls, CancelContext(c) \/ LateDelivery(c)
  PROVE  IndInv'
<1> USE DEF cache, smtp
<1>1. CallInv(c) /\ OutcomeInv(c)
  BY DEF IndInv
<1>2. UNCHANGED <<pc, sem, req, entries, closed, started, envelope, result, reply>>
  BY DEF CancelContext, LateDelivery
<1>3. SlotInv' /\ HoldInv'
  BY <1>2 DEF IndInv, SlotInv, InSession, HoldInv
<1>4. TypeOK'
  <2>1. CASE CancelContext(c)
    BY <2>1 DEF CancelContext, IndInv, TypeOK
  <2>2. CASE LateDelivery(c)
    <3>1. delivered' \in [Calls -> SUBSET Recipients]
      BY <2>2 DEF LateDelivery, IndInv, TypeOK
    <3> QED BY <2>2, <3>1 DEF LateDelivery, IndInv, TypeOK
  <2> QED BY <2>1, <2>2
<1>5. \A d \in Calls : \/ delivered'[d] = delivered[d]
                       \/ delivered'[d] = Recipients /\ result[d] = "unknown"
  BY <1>1 DEF CancelContext, LateDelivery, CallInv, IndInv, TypeOK
<1>6. \A d \in Calls : CallInv(d)' /\ OutcomeInv(d)'
  BY <1>2, <1>5 DEF IndInv, CallInv, OutcomeInv
<1> QED BY <1>3, <1>4, <1>6 DEF IndInv

-----------------------------------------------------------------------------
\* Calls that have not begun and an empty cache.
LEMMA InitHolds == Init => IndInv
<1> SUFFICES ASSUME Init PROVE IndInv
  OBVIOUS
<1>1. 0 \in 0..SendSlots
  BY ConstantsAssumption
<1>2. TypeOK
  BY <1>1 DEF Init, TypeOK, NoReply
<1>3. SlotInv
  <2>1. InSession = {}
    BY DEF Init, InSession, Session
  <2> QED BY <2>1, FS_EmptySet DEF Init, SlotInv
<1>4. HoldInv
  BY DEF Init, HoldInv, NoRequest
<1>5. \A c \in Calls : CallInv(c) /\ OutcomeInv(c)
  BY DEF Init, CallInv, OutcomeInv, NoReply
<1> QED BY <1>2, <1>3, <1>4, <1>5 DEF IndInv

\* Every step of a call and of its environment keeps it.
LEMMA NextKeeps == IndInv /\ [Next]_vars => IndInv'
<1> SUFFICES ASSUME IndInv, [Next]_vars PROVE IndInv'
  OBVIOUS
<1>1. ASSUME NEW c \in Calls, NEW r \in Requests, SendMessage(c, r) \/ ReplyMessage(c, r)
      PROVE  IndInv'
  BY <1>1, RequestKeeps DEF ReplyMessage
<1>2. ASSUME NEW c \in Calls, Deny(c) \/ ClaimStep(c) PROVE IndInv'
  <2>1. CASE Deny(c) \/ ClaimConflict(c) \/ ClaimCancelled(c) \/ ClaimFull(c)
    BY <2>1, ReturnKeeps DEF Deny, ClaimConflict, ClaimCancelled, ClaimFull
  <2>2. CASE ClaimReplay(c)
    <3>1. req[c].key \in Keys
      BY <2>2 DEF ClaimReplay, IndInv, CallInv, Requests
    <3>2. Existing(c) \in Calls
      BY <2>2, <3>1 DEF ClaimReplay, Existing, IndInv, TypeOK
    <3> QED BY <2>2, <3>2, ReturnKeeps DEF ClaimReplay
  <2> QED BY <1>2, <2>1, <2>2, ClaimKeeps DEF ClaimStep
<1>3. ASSUME NEW c \in Calls, SendOnce(c) PROVE IndInv'
  BY <1>3, PrepareKeeps, EnvelopeKeeps, LeaveKeeps DEF SendOnce
<1>4. CASE UNCHANGED vars
  <2>1. SlotInv' /\ HoldInv' /\ TypeOK'
    BY <1>4 DEF vars, IndInv, SlotInv, InSession, HoldInv, TypeOK
  <2>2. \A c \in Calls : CallInv(c)' /\ OutcomeInv(c)'
    BY <1>4 DEF vars, IndInv, CallInv, OutcomeInv
  <2> QED BY <2>1, <2>2 DEF IndInv
<1> QED BY <1>1, <1>2, <1>3, <1>4, CompleteKeeps, EnvironmentKeeps DEF Next

\* Calls, cache and submission keep their types.
THEOREM TypeCorrect == Spec => []TypeOK
<1>1. IndInv => TypeOK
  BY DEF IndInv
<1> QED BY <1>1, InitHolds, NextKeeps, PTL DEF Spec

\* Whatever is lost, however calls interleave and whatever became of the first
\* submission, no second message goes out under a key.
THEOREM SubmitsOnce == Spec => []OneSubmissionPerKey
<1>1. IndInv => OneSubmissionPerKey
  BY DEF IndInv, HoldInv, OneSubmissionPerKey
<1> QED BY <1>1, InitHolds, NextKeeps, PTL DEF Spec

\* What the caller, or a duplicate, is told about a submission is true and stays
\* true, also when the server delivers late.
THEOREM TruthfulStatus == Spec => []StatusTellsTheTruth
<1>1. IndInv => StatusTellsTheTruth
  BY DEF IndInv, CallInv, OutcomeInv, StatusTellsTheTruth
<1> QED BY <1>1, InitHolds, NextKeeps, PTL DEF Spec

\* Whichever recipients the server refuses and wherever the session breaks, the
\* message goes to all its recipients or to none.
THEOREM AllOrNone == Spec => []NeverASubset
<1>1. IndInv => NeverASubset
  BY DEF IndInv, OutcomeInv, NeverASubset
<1> QED BY <1>1, InitHolds, NextKeeps, PTL DEF Spec

\* Every way out of a session, a panic in the library included, gives its slot
\* back exactly once: never more than SendSlots sessions are open, and with
\* none open no slot is lost.
THEOREM SessionsBounded ==
  Spec => [](/\ sem = Cardinality({c \in Calls : pc[c] \in {"connect", "rcpt", "payload"}})
             /\ sem <= SendSlots)
<1>1. IndInv => /\ sem = Cardinality({c \in Calls : pc[c] \in {"connect", "rcpt", "payload"}})
                /\ sem <= SendSlots
  BY ConstantsAssumption DEF IndInv, SlotInv, InSession, Session, TypeOK
<1> QED BY <1>1, InitHolds, NextKeeps, PTL DEF Spec

-----------------------------------------------------------------------------
(* The send cache implements OnceContract.                                   *)

\* A step that leaves requests, keys, claims and replies alone is invisible.
LEMMA Invisible ==
  ASSUME UNCHANGED <<req, entries, closed, reply>>
  PROVE  UNCHANGED Contract!vars
  BY DEF Contract!vars, AskOf, FateOf, AnswerOf, Fate, Keyed, Fingerprint

\* A keyed call that is looking its key up is open.
LEMMA ClaimingIsOpen ==
  ASSUME IndInv, NEW c \in Calls, pc[c] = "claim"
  PROVE  /\ req[c].key \in Keys /\ req[c].content \in Contents
         /\ AskOf[c] = [key |-> req[c].key, params |-> req[c].content]
         /\ Contract!Open(c)
<1>1. req[c] \in Requests /\ req[c].key # None /\ reply[c] = NoReply
  BY DEF IndInv, CallInv
<1>2. req[c].key \in Keys /\ req[c].content \in Contents
  BY <1>1 DEF Requests
<1>3. AskOf[c] = [key |-> req[c].key, params |-> req[c].content] /\ AskOf[c] # None
  BY <1>1, <1>2, ConstantsAssumption DEF AskOf, Keyed, Fingerprint
<1>4. entries[req[c].key] # c
  BY <1>2, ConstantsAssumption DEF IndInv, HoldInv
<1>5. FateOf[c] = "none"
  BY <1>4 DEF FateOf, Fate
<1>6. AnswerOf[c] = None
  BY <1>1 DEF AnswerOf, NoReply
<1> QED BY <1>2, <1>3, <1>5, <1>6 DEF Contract!Open

\* Keeping every key is allowed.
LEMMA KeepingIsAllowed ==
  ASSUME IndInv
  PROVE  entries \in Contract!MayRelease(entries)
  BY DEF IndInv, TypeOK, Contract!MayRelease

\* A call that returns from the cache is refused or replays an ended execution.
LEMMA ReturnImplements ==
  ASSUME IndInv, NEW c \in Calls, pc[c] = "claim",
         NEW r \in {"refused", "conflict", "hit"}, NEW d, Return(c, r, d),
         r = "hit" => /\ d = Existing(c) /\ d \in Calls /\ closed[d]
                      /\ Fingerprint(req[d]) = Fingerprint(req[c]),
         UNCHANGED <<req, ctxDone, cache, smtp, result>>
  PROVE  Contract!Next
<1> USE DEF cache
<1>1. /\ req[c].key \in Keys /\ Contract!Open(c)
      /\ AskOf[c] = [key |-> req[c].key, params |-> req[c].content]
  BY ClaimingIsOpen
<1>2. AskOf' = AskOf /\ FateOf' = FateOf
  BY DEF AskOf, FateOf, Fate, Keyed, Fingerprint
<1>3. entries' \in Contract!MayRelease(entries)
  BY KeepingIsAllowed
<1>4. AnswerOf' = [AnswerOf EXCEPT ![c] = IF r = "hit" THEN d ELSE "refused"]
  <2>1. req[c].key # None
    BY DEF IndInv, CallInv
  <2>2. /\ reply'[c].kind = r /\ reply'[c].of = d
        /\ \A e \in Calls \ {c} : reply'[e] = reply[e]
    BY DEF Return, IndInv, TypeOK
  <2> QED BY <2>1, <2>2 DEF AnswerOf, Keyed
<1>5. CASE r # "hit"
  <2>1. Contract!Refuse(c)
    BY <1>1, <1>2, <1>3, <1>4, <1>5 DEF Contract!Refuse
  <2> QED BY <2>1 DEF Contract!Next
<1>6. CASE r = "hit"
  <2>1. d \in Calls /\ entries[req[c].key] = d /\ req[d].key = req[c].key /\ req[c].key # None
    BY <1>1, <1>6, ConstantsAssumption DEF Existing, IndInv, HoldInv, CallInv
  <2>2. FateOf[d] = "uncertain"
    BY <1>6, <2>1 DEF FateOf, Fate, Keyed
  <2>3. AskOf[d] = AskOf[c]
    BY <1>6, <2>1 DEF AskOf, Keyed
  <2>4. Contract!Replay(c, d)
    BY <1>1, <1>2, <1>3, <1>4, <1>6, <2>2, <2>3 DEF Contract!Replay
  <2> QED BY <2>1, <2>4 DEF Contract!Next
<1> QED BY <1>5, <1>6

\* A request with a key is an Ask; one without is none of the cache's business.
LEMMA RequestImplements ==
  ASSUME IndInv, NEW c \in Calls, NEW r \in Requests, SendMessage(c, r)
  PROVE  Contract!Next \/ UNCHANGED Contract!vars
<1>1. /\ req[c] = NoRequest /\ reply[c] = NoReply
      /\ req'[c] = r /\ \A d \in Calls \ {c} : req'[d] = req[d]
      /\ UNCHANGED <<entries, closed, reply>>
  BY DEF SendMessage, cache, IndInv, TypeOK, CallInv
<1>2. \A k \in Keys : entries[k] # c
  BY ConstantsAssumption DEF SendMessage, IndInv, HoldInv
<1>3. FateOf' = FateOf
  <2>1. ASSUME NEW d \in Calls PROVE Fate(d)' = Fate(d)
    <3>1. CASE d = c
      <4>1. r.key = None \/ entries[r.key] # c
        BY <1>2 DEF Requests
      <4> QED BY <1>1, <3>1, <4>1 DEF Fate, Keyed, NoRequest
    <3>2. CASE d # c
      BY <1>1, <3>2 DEF Fate, Keyed
    <3> QED BY <3>1, <3>2
  <2> QED BY <2>1 DEF FateOf
<1>4. AnswerOf' = AnswerOf
  <2>1. \A d \in Calls : AnswerOf'[d] = AnswerOf[d]
    BY <1>1 DEF AnswerOf, Keyed, NoReply
  <2> QED BY <2>1 DEF AnswerOf
<1>5. CASE r.key = None
  <2>1. AskOf' = AskOf
    BY <1>1, <1>5 DEF AskOf, Keyed, NoRequest
  <2> QED BY <1>1, <1>3, <1>4, <2>1 DEF Contract!vars
<1>6. CASE r.key # None
  <2>1. [key |-> r.key, params |-> r.content] \in Contract!Requests
    BY <1>6 DEF Contract!Requests, Requests
  <2>2. AskOf[c] = None
    BY <1>1 DEF AskOf, Keyed, NoRequest
  <2>3. AskOf' = [AskOf EXCEPT ![c] = [key |-> r.key, params |-> r.content]]
    BY <1>1, <1>6 DEF AskOf, Keyed, Fingerprint
  <2>4. Contract!Ask(c)
    BY <1>1, <1>3, <1>4, <2>1, <2>2, <2>3 DEF Contract!Ask
  <2> QED BY <2>4 DEF Contract!Next
<1> QED BY <1>5, <1>6

\* The claim of a free key is the start of its execution.
LEMMA ClaimImplements ==
  ASSUME IndInv, NEW c \in Calls, Claim(c)
  PROVE  Contract!Next
<1>1. /\ pc[c] = "claim" /\ entries[req[c].key] = None
      /\ entries' = [entries EXCEPT ![req[c].key] = c]
      /\ UNCHANGED <<req, closed, reply>>
  BY DEF Claim, Existing
<1>2. /\ req[c].key \in Keys /\ Contract!Open(c)
      /\ AskOf[c] = [key |-> req[c].key, params |-> req[c].content]
  BY <1>1, ClaimingIsOpen
<1>3. AskOf' = AskOf /\ AnswerOf' = AnswerOf
  BY <1>1 DEF AskOf, AnswerOf, Keyed, Fingerprint
<1>4. entries \in Contract!MayRelease(entries)
  BY KeepingIsAllowed
<1>5. /\ req[c].key # None /\ ~closed[c]
      /\ entries'[req[c].key] = c
      /\ \A k \in Keys \ {req[c].key} : entries'[k] = entries[k]
  BY <1>1, <1>2 DEF IndInv, TypeOK, CallInv
<1>6. Fate(c)' = "running"
  BY <1>1, <1>5 DEF Fate, Keyed
<1>7. ASSUME NEW d \in Calls \ {c} PROVE Fate(d)' = Fate(d)
  <2>1. CASE req[d].key = None
    BY <1>1, <2>1 DEF Fate, Keyed
  <2>2. CASE req[d].key = req[c].key
    BY <1>1, <1>5, <2>2, ConstantsAssumption DEF Fate, Keyed
  <2>3. CASE req[d].key # None /\ req[d].key # req[c].key
    <3>1. req[d].key \in Keys
      BY <2>3 DEF IndInv, TypeOK, Requests, NoRequest
    <3> QED BY <1>1, <1>5, <2>3, <3>1 DEF Fate, Keyed
  <2> QED BY <2>1, <2>2, <2>3
<1>8. FateOf' = [FateOf EXCEPT ![c] = "running"]
  BY <1>6, <1>7 DEF FateOf
<1>9. AskOf[c].key = req[c].key
  BY <1>2
<1>10. \E g \in Contract!MayRelease(entries) :
         g[AskOf[c].key] = None /\ entries' = [g EXCEPT ![AskOf[c].key] = c]
  BY <1>1, <1>4, <1>9, Zenon
<1>11. Contract!Execute(c)
  BY <1>2, <1>3, <1>8, <1>10 DEF Contract!Execute
<1> QED BY <1>11 DEF Contract!Next

\* complete settles the execution of a keyed call.
LEMMA CompleteImplements ==
  ASSUME IndInv, NEW c \in Calls, Complete(c)
  PROVE  Contract!Next \/ UNCHANGED Contract!vars
<1>1. /\ pc[c] = "finish" /\ ~closed[c] /\ UNCHANGED <<req, entries>>
      /\ reply'[c].kind = "own" /\ reply'[c].of = c
      /\ \A d \in Calls \ {c} : reply'[d] = reply[d] /\ closed'[d] = closed[d]
  BY DEF Complete, Return, IndInv, TypeOK, CallInv
<1>2. closed'[c] <=> req[c].key # None
  BY DEF Complete, IndInv, TypeOK
<1>3. AskOf' = AskOf
  BY <1>1 DEF AskOf, Keyed, Fingerprint
<1>4. \A d \in Calls \ {c} : Fate(d)' = Fate(d)
  BY <1>1 DEF Fate, Keyed
<1>5. CASE req[c].key = None
  <2>1. FateOf' = FateOf
    BY <1>1, <1>4, <1>5 DEF FateOf, Fate, Keyed
  <2>2. AnswerOf' = AnswerOf
    BY <1>1, <1>5 DEF AnswerOf, Keyed
  <2> QED BY <1>1, <1>3, <2>1, <2>2 DEF Contract!vars
<1>6. CASE req[c].key # None
  <2>1. entries[req[c].key] = c
    BY <1>1, <1>6 DEF IndInv, HoldInv, Submitting
  <2>2. Fate(c) = "running" /\ Fate(c)' = "uncertain"
    BY <1>1, <1>2, <1>6, <2>1 DEF Fate, Keyed
  <2>3. FateOf[c] = "running" /\ FateOf' = [FateOf EXCEPT ![c] = "uncertain"]
    BY <1>4, <2>2 DEF FateOf
  <2>4. AnswerOf' = [AnswerOf EXCEPT ![c] = c]
    BY <1>1, <1>6 DEF AnswerOf, Keyed
  <2>5. Contract!Settle(c)
    BY <1>1, <1>3, <2>3, <2>4 DEF Contract!Settle
  <2> QED BY <2>5 DEF Contract!Next
<1> QED BY <1>5, <1>6

\* The send cache, with everything that happens to the submissions and whatever
\* the servers do, is an implementation of the contract of OnceContract in which
\* no key is ever given up.
THEOREM SendImplementsContract == Spec => ImplementsContract
<1>1. Init => Contract!Init
  <2> SUFFICES ASSUME Init PROVE Contract!Init
    OBVIOUS
  <2>1. AskOf = [c \in Calls |-> None]
    BY DEF Init, AskOf, Keyed, NoRequest
  <2>2. FateOf = [c \in Calls |-> "none"]
    BY DEF Init, FateOf, Fate, Keyed, NoRequest
  <2>3. AnswerOf = [c \in Calls |-> None]
    BY DEF Init, AnswerOf, Keyed, NoRequest
  <2> QED BY <2>1, <2>2, <2>3 DEF Init, Contract!Init
<1>2. ASSUME IndInv, [Next]_vars PROVE [Contract!Next]_(Contract!vars)
  <2>1. ASSUME NEW c \in Calls, NEW r \in Requests, SendMessage(c, r) \/ ReplyMessage(c, r)
        PROVE  Contract!Next \/ UNCHANGED Contract!vars
    BY <1>2, <2>1, RequestImplements DEF ReplyMessage
  <2>2. ASSUME NEW c \in Calls, Deny(c) PROVE UNCHANGED Contract!vars
    <3>1. /\ req[c] = NoRequest /\ UNCHANGED <<req, entries, closed>>
          /\ \A d \in Calls \ {c} : reply'[d] = reply[d]
      BY <1>2, <2>2 DEF Deny, Return, cache, IndInv, TypeOK, CallInv
    <3>2. AskOf' = AskOf /\ FateOf' = FateOf
      BY <3>1 DEF AskOf, FateOf, Fate, Keyed, Fingerprint
    <3>3. AnswerOf' = AnswerOf
      BY <3>1 DEF AnswerOf, Keyed, NoRequest
    <3> QED BY <3>1, <3>2, <3>3 DEF Contract!vars
  <2>3. ASSUME NEW c \in Calls, ClaimStep(c) PROVE Contract!Next
    <3>1. CASE ClaimConflict(c) \/ ClaimCancelled(c) \/ ClaimFull(c)
      BY <1>2, <3>1, ReturnImplements DEF ClaimConflict, ClaimCancelled, ClaimFull
    <3>2. CASE ClaimReplay(c)
      <4>1. req[c].key \in Keys
        BY <1>2, <3>2, ClaimingIsOpen DEF ClaimReplay
      <4>2. Existing(c) \in Calls
        BY <1>2, <3>2, <4>1 DEF ClaimReplay, Existing, IndInv, TypeOK
      <4> QED BY <1>2, <3>2, <4>2, ReturnImplements DEF ClaimReplay
    <3> QED BY <1>2, <2>3, <3>1, <3>2, ClaimImplements DEF ClaimStep
  <2>4. ASSUME NEW c \in Calls, SendOnce(c) \/ CancelContext(c) \/ LateDelivery(c)
        PROVE  UNCHANGED Contract!vars
    BY <2>4, Invisible DEF SendOnce, PrepareFails, Prepare, AcquireSem, AcquireCancelled,
       Connect, ConnectFails, RcptLost, Rcpt, RcptRejected, DataStart, DataRefused,
       DataRejected, DataLost, DataAccepted, Panic,
       CancelContext, LateDelivery, cache
  <2>5. CASE UNCHANGED vars
    BY <2>5, Invisible DEF vars
  <2> QED BY <1>2, <2>1, <2>2, <2>3, <2>4, <2>5, CompleteImplements DEF Next
<1> QED BY <1>1, <1>2, InitHolds, NextKeeps, PTL DEF Spec, ImplementsContract, Contract!Spec
=============================================================================
