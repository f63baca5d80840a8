--------------------------- MODULE ToolCallProofs ---------------------------
(***************************************************************************)
(* Proofs about ToolCall, for any number of calls and any capacity of      *)
(* handlerSlots.                                                           *)
(*                                                                         *)
(* SlotAccounting is not inductive: a slot that RecheckExpired or          *)
(* ReleaseSlot gives back must be one that the call holds exactly once.    *)
(* StageInv says so: a middleware that has not started its handler has no  *)
(* handler, and one that waits for a handler has one.  The set of holders  *)
(* is finite because it starts empty and grows by one call at a time, so   *)
(* nothing is assumed of Calls.                                            *)
(***************************************************************************)
EXTENDS ToolCall, FiniteSetTheorems, TLAPS

\* How far the middleware is tells whether the handler goroutine exists.
StageInv ==
  \A c \in Calls :
    /\ call[c] \in {"absent", "entered", "acquire", "recheck"} => handler[c] = "none"
    /\ call[c] \in {"select", "grace"} => handler[c] # "none"

\* The recorded error is the way the input ended.
TerminalInv == terminal = IF input = "open" THEN "none" ELSE input

IndInv ==
  /\ TypeOK
  /\ StageInv
  /\ IsFiniteSet(SlotHolders)
  /\ SlotAccounting
  /\ TerminalInv
  /\ ReadFailureReported

\* What the calls and the semaphore must satisfy; the server's part is separate.
CallInv == TypeOK /\ StageInv /\ IsFiniteSet(SlotHolders) /\ SlotAccounting

ServerInv == TerminalInv /\ ReadFailureReported

-----------------------------------------------------------------------------
(* Lemmas about the set of slot holders. *)

\* A step after which the same calls hold a slot keeps the accounting.
LEMMA SameHolders ==
  ASSUME CallInv, SlotHolders' = SlotHolders, slots' = slots
  PROVE  (IsFiniteSet(SlotHolders) /\ SlotAccounting)'
  BY DEF CallInv, SlotAccounting

\* The holders depend on where middleware and handler are, and on nothing else.
LEMMA HoldersFrame ==
  ASSUME UNCHANGED <<call, handler>>
  PROVE  SlotHolders' = SlotHolders
  BY DEF SlotHolders

\* A call that takes a slot becomes a holder.
LEMMA HolderAdded ==
  ASSUME CallInv, NEW c \in Calls, c \notin SlotHolders,
         SlotHolders' = SlotHolders \cup {c}, slots' = slots + 1
  PROVE  (IsFiniteSet(SlotHolders) /\ SlotAccounting)'
<1>1. /\ IsFiniteSet(SlotHolders \cup {c})
      /\ Cardinality(SlotHolders \cup {c}) = Cardinality(SlotHolders) + 1
  BY FS_AddElement DEF CallInv
<1> QED BY <1>1 DEF CallInv, SlotAccounting

\* A call that gives its slot back is a holder no more, and there was a slot to
\* give back.
LEMMA HolderRemoved ==
  ASSUME CallInv, NEW c \in Calls, c \in SlotHolders,
         SlotHolders' = SlotHolders \ {c}, slots' = slots - 1
  PROVE  /\ (IsFiniteSet(SlotHolders) /\ SlotAccounting)'
         /\ slots > 0
<1>1. /\ IsFiniteSet(SlotHolders \ {c})
      /\ Cardinality(SlotHolders \ {c}) = Cardinality(SlotHolders) - 1
      /\ Cardinality(SlotHolders \ {c}) \in Nat
  BY FS_RemoveElement, FS_CardinalityType DEF CallInv
<1>2. slots \in Nat
  BY SlotsAssumption DEF CallInv, TypeOK
<1> QED BY <1>1, <1>2 DEF CallInv, SlotAccounting

\* The middleware answers with a result or with one of the two timeouts.
LEMMA TimeoutType ==
  ASSUME NEW name
  PROVE  ToolTimeoutResult(name) \in {"timeout", "timeout_reconcile"}
  BY DEF ToolTimeoutResult

-----------------------------------------------------------------------------
(* One lemma per group of steps. *)

LEMMA MiddlewareKeeps ==
  ASSUME CallInv, NEW c \in Calls, Middleware(c)
  PROVE  CallInv'
<1> USE DEF CallInv
<1>1. CASE EnterExpired(c)
  <2>1. TypeOK' /\ StageInv'
    BY <1>1, TimeoutType DEF EnterExpired, Answer, TypeOK, StageInv, server
  <2>2. SlotHolders' = SlotHolders
    BY <1>1 DEF EnterExpired, Answer, TypeOK, SlotHolders
  <2> QED BY <1>1, <2>1, <2>2, SameHolders DEF EnterExpired
<1>2. CASE EnterQueue(c)
  <2>1. TypeOK' /\ StageInv'
    BY <1>2 DEF EnterQueue, TypeOK, StageInv, server
  <2>2. SlotHolders' = SlotHolders
    BY <1>2 DEF EnterQueue, TypeOK, SlotHolders
  <2> QED BY <1>2, <2>1, <2>2, SameHolders DEF EnterQueue
<1>3. CASE AcquireSlot(c)
  <2>1. TypeOK' /\ StageInv'
    BY <1>3, SlotsAssumption DEF AcquireSlot, TypeOK, StageInv, server
  <2>2. SlotHolders' = SlotHolders \cup {c} /\ c \notin SlotHolders
    BY <1>3 DEF AcquireSlot, TypeOK, StageInv, SlotHolders
  <2> QED BY <1>3, <2>1, <2>2, HolderAdded DEF AcquireSlot
<1>4. CASE AcquireExpired(c)
  <2>1. TypeOK' /\ StageInv'
    BY <1>4, TimeoutType DEF AcquireExpired, Answer, TypeOK, StageInv, server
  <2>2. SlotHolders' = SlotHolders
    BY <1>4 DEF AcquireExpired, Answer, TypeOK, SlotHolders
  <2> QED BY <1>4, <2>1, <2>2, SameHolders DEF AcquireExpired
<1>5. CASE RecheckExpired(c)
  <2>1. SlotHolders' = SlotHolders \ {c} /\ c \in SlotHolders
    BY <1>5 DEF RecheckExpired, Answer, TypeOK, StageInv, SlotHolders
  <2>2. (IsFiniteSet(SlotHolders) /\ SlotAccounting)' /\ slots > 0
    BY <1>5, <2>1, HolderRemoved DEF RecheckExpired
  <2>3. TypeOK' /\ StageInv'
    BY <1>5, <2>2, TimeoutType, SlotsAssumption
       DEF RecheckExpired, Answer, TypeOK, StageInv, server
  <2> QED BY <2>2, <2>3
<1>6. CASE StartHandler(c)
  <2>1. TypeOK' /\ StageInv'
    BY <1>6 DEF StartHandler, TypeOK, StageInv, server
  <2>2. SlotHolders' = SlotHolders
    BY <1>6 DEF StartHandler, TypeOK, SlotHolders
  <2> QED BY <1>6, <2>1, <2>2, SameHolders DEF StartHandler
<1>7. CASE TakeOutcome(c)
  <2>1. TypeOK' /\ StageInv'
    BY <1>7 DEF TakeOutcome, Answer, TypeOK, StageInv, server
  <2>2. SlotHolders' = SlotHolders
    BY <1>7 DEF TakeOutcome, Answer, TypeOK, SlotHolders
  <2> QED BY <1>7, <2>1, <2>2, SameHolders DEF TakeOutcome
<1>8. CASE SeeDeadline(c)
  <2>1. TypeOK' /\ StageInv'
    BY <1>8 DEF SeeDeadline, TypeOK, StageInv, server
  <2>2. SlotHolders' = SlotHolders
    BY <1>8 DEF SeeDeadline, TypeOK, SlotHolders
  <2> QED BY <1>8, <2>1, <2>2, SameHolders DEF SeeDeadline
<1>9. CASE GraceExpires(c)
  <2>1. TypeOK' /\ StageInv'
    BY <1>9, TimeoutType DEF GraceExpires, Answer, TypeOK, StageInv, server
  <2>2. SlotHolders' = SlotHolders
    BY <1>9 DEF GraceExpires, Answer, TypeOK, SlotHolders
  <2> QED BY <1>9, <2>1, <2>2, SameHolders DEF GraceExpires
<1> QED BY <1>1, <1>2, <1>3, <1>4, <1>5, <1>6, <1>7, <1>8, <1>9 DEF Middleware

LEMMA HandlerKeeps ==
  ASSUME CallInv, NEW c \in Calls, Handler(c)
  PROVE  CallInv'
<1> USE DEF CallInv
<1>1. CASE Dispatch(c)
  <2>1. TypeOK' /\ StageInv'
    BY <1>1 DEF Dispatch, TypeOK, StageInv, server
  <2> QED BY <1>1, <2>1, HoldersFrame, SameHolders DEF Dispatch
<1>2. CASE HandlerReturn(c)
  <2>1. TypeOK' /\ StageInv'
    BY <1>2 DEF HandlerReturn, TypeOK, StageInv, server
  <2>2. SlotHolders' = SlotHolders
    BY <1>2 DEF HandlerReturn, TypeOK, SlotHolders
  <2> QED BY <1>2, <2>1, <2>2, SameHolders DEF HandlerReturn
<1>3. CASE ReleaseSlot(c)
  <2>1. SlotHolders' = SlotHolders \ {c} /\ c \in SlotHolders
    BY <1>3 DEF ReleaseSlot, TypeOK, StageInv, SlotHolders
  <2>2. (IsFiniteSet(SlotHolders) /\ SlotAccounting)' /\ slots > 0
    BY <1>3, <2>1, HolderRemoved DEF ReleaseSlot
  <2>3. TypeOK' /\ StageInv'
    BY <1>3, <2>2, SlotsAssumption DEF ReleaseSlot, TypeOK, StageInv, server
  <2> QED BY <2>2, <2>3
<1> QED BY <1>1, <1>2, <1>3 DEF Handler

\* New calls, deadlines and the stdio server leave slots and holders alone.
LEMMA EnvironmentKeeps ==
  ASSUME CallInv,
         \/ \E c \in Calls : Expire(c) \/ \E t \in ToolNames : Receive(c, t)
         \/ \E kind \in {"eof", "failed"} : ReadError(kind)
         \/ Signal
         \/ ListenBoundedStdio
  PROVE  CallInv'
<1> USE DEF CallInv
<1>1. ASSUME NEW c \in Calls, NEW t \in ToolNames, Receive(c, t)
      PROVE  CallInv'
  <2>1. TypeOK' /\ StageInv'
    BY <1>1 DEF Receive, TypeOK, StageInv, server
  <2>2. SlotHolders' = SlotHolders
    BY <1>1 DEF Receive, TypeOK, StageInv, SlotHolders
  <2> QED BY <1>1, <2>1, <2>2, SameHolders DEF Receive
<1>2. ASSUME NEW c \in Calls, Expire(c)
      PROVE  CallInv'
  <2>1. TypeOK' /\ StageInv'
    BY <1>2 DEF Expire, TypeOK, StageInv, server
  <2> QED BY <1>2, <2>1, HoldersFrame, SameHolders DEF Expire
<1>3. ASSUME NEW kind \in {"eof", "failed"}, ReadError(kind)
      PROVE  CallInv'
  <2>1. ctxDone' \in [Calls -> BOOLEAN]
    BY <1>3 DEF ReadError, CancelAll, TypeOK
  <2>2. TypeOK' /\ StageInv'
    BY <1>3, <2>1 DEF ReadError, TypeOK, StageInv
  <2> QED BY <1>3, <2>2, HoldersFrame, SameHolders DEF ReadError
<1>4. CASE Signal
  <2>1. ctxDone' \in [Calls -> BOOLEAN]
    BY <1>4 DEF Signal, CancelAll, TypeOK
  <2>2. TypeOK' /\ StageInv'
    BY <1>4, <2>1 DEF Signal, TypeOK, StageInv
  <2> QED BY <1>4, <2>2, HoldersFrame, SameHolders DEF Signal
<1>5. CASE ListenBoundedStdio
  <2>1. TypeOK' /\ StageInv'
    BY <1>5 DEF ListenBoundedStdio, TypeOK, StageInv
  <2> QED BY <1>5, <2>1, HoldersFrame, SameHolders DEF ListenBoundedStdio
<1> QED BY <1>1, <1>2, <1>3, <1>4, <1>5

\* The server records how the input ended once, and reports it when it returns.
LEMMA ServerKeeps ==
  ASSUME TypeOK, ServerInv, [Next]_vars
  PROVE  ServerInv'
<1> USE DEF ServerInv, TerminalInv, ReadFailureReported, TypeOK
<1>1. CASE UNCHANGED server
  BY <1>1 DEF server
<1>2. ASSUME NEW kind \in {"eof", "failed"}, ReadError(kind)
      PROVE  ServerInv'
  BY <1>2 DEF ReadError
<1>3. CASE Signal
  BY <1>3 DEF Signal
<1>4. CASE ListenBoundedStdio
  BY <1>4 DEF ListenBoundedStdio
<1>5. ASSUME NEW c \in Calls,
             \/ \E t \in ToolNames : Receive(c, t)
             \/ Middleware(c) \/ Handler(c) \/ Expire(c)
      PROVE  UNCHANGED server
  BY <1>5 DEF Receive, Middleware, EnterExpired, EnterQueue, AcquireSlot,
     AcquireExpired, RecheckExpired, StartHandler, TakeOutcome, SeeDeadline,
     GraceExpires, Handler, Dispatch, HandlerReturn, ReleaseSlot, Expire
<1>6. CASE UNCHANGED vars
  BY <1>6 DEF vars
<1> QED BY <1>1, <1>2, <1>3, <1>4, <1>5, <1>6 DEF Next

-----------------------------------------------------------------------------
\* An idle server without calls satisfies the inductive invariant.
LEMMA InitHolds == Init => IndInv
<1> SUFFICES ASSUME Init PROVE IndInv
  OBVIOUS
<1>1. TypeOK
  <2>1. slots \in 0..MaxInFlight
    BY SlotsAssumption DEF Init
  <2>2. stopping \in BOOLEAN
    BY Zenon DEF Init
  <2> QED BY <2>1, <2>2 DEF Init, TypeOK
<1>2. SlotHolders = {}
  BY DEF Init, SlotHolders
<1>3. IsFiniteSet(SlotHolders) /\ SlotAccounting
  BY <1>2, FS_EmptySet DEF Init, SlotAccounting
<1>4. StageInv /\ TerminalInv /\ ReadFailureReported
  BY DEF Init, StageInv, TerminalInv, ReadFailureReported
<1> QED BY <1>1, <1>3, <1>4 DEF IndInv

LEMMA NextKeeps == IndInv /\ [Next]_vars => IndInv'
<1> SUFFICES ASSUME IndInv, [Next]_vars PROVE IndInv'
  OBVIOUS
<1>1. CallInv /\ ServerInv
  BY DEF IndInv, CallInv, ServerInv
<1>2. ASSUME Next PROVE CallInv'
  BY <1>1, <1>2, MiddlewareKeeps, HandlerKeeps, EnvironmentKeeps DEF Next
<1>3. ASSUME UNCHANGED vars PROVE CallInv'
  <2>1. TypeOK' /\ StageInv'
    BY <1>1, <1>3 DEF vars, CallInv, TypeOK, StageInv
  <2> QED BY <1>1, <1>3, <2>1, HoldersFrame, SameHolders DEF vars, CallInv
<1>4. ServerInv'
  BY <1>1, ServerKeeps DEF CallInv
<1> QED BY <1>2, <1>3, <1>4 DEF IndInv, CallInv, ServerInv

\* Calls, handlers, slots and the server keep their types.
THEOREM TypeCorrect == Spec => []TypeOK
<1>1. IndInv => TypeOK
  BY DEF IndInv
<1> QED BY <1>1, InitHolds, NextKeeps, PTL DEF Spec

\* Whatever the middleware answers and whenever handlers return, the tokens in
\* handlerSlots are the calls that own one: none leaks, none is returned twice.
THEOREM SlotsAccounted == Spec => []SlotAccounting
<1>1. IndInv => SlotAccounting
  BY DEF IndInv
<1> QED BY <1>1, InitHolds, NextKeeps, PTL DEF Spec

\* The bound that the slots are for: however many calls were answered with a
\* timeout while their handlers went on, at most MaxInFlight handler goroutines
\* exist (maxInFlightHandlers of main.go).
THEOREM HandlersBounded ==
  Spec => [](/\ IsFiniteSet({c \in Calls : handler[c] \in {"running", "returned"}})
             /\ Cardinality({c \in Calls : handler[c] \in {"running", "returned"}})
                  <= MaxInFlight)
<1> DEFINE Live == {c \in Calls : handler[c] \in {"running", "returned"}}
<1>1. IndInv => IsFiniteSet(Live) /\ Cardinality(Live) <= MaxInFlight
  <2> SUFFICES ASSUME IndInv
               PROVE  IsFiniteSet(Live) /\ Cardinality(Live) <= MaxInFlight
    OBVIOUS
  <2>1. Live \in SUBSET SlotHolders
    BY DEF SlotHolders
  <2>2. IsFiniteSet(Live) /\ Cardinality(Live) <= Cardinality(SlotHolders)
    BY <2>1, FS_Subset DEF IndInv
  <2>3. Cardinality(SlotHolders) \in 0..MaxInFlight /\ Cardinality(Live) \in Nat
    BY <2>2, FS_CardinalityType DEF IndInv, SlotAccounting, TypeOK
  <2> HIDE DEF Live
  <2> QED BY <2>2, <2>3, SlotsAssumption
<1> QED BY <1>1, InitHolds, NextKeeps, PTL DEF Spec

\* A framing failure is what the process reports, whoever wins the race between
\* the failure, the cancellation it causes and a signal.
THEOREM FailureReported == Spec => []ReadFailureReported
<1>1. IndInv => ReadFailureReported
  BY DEF IndInv
<1> QED BY <1>1, InitHolds, NextKeeps, PTL DEF Spec
=============================================================================
