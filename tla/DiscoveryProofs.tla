-------------------------- MODULE DiscoveryProofs --------------------------
(***************************************************************************)
(* Safety of service discovery for any number of callers and of requests   *)
(* per attempt.                                                            *)
(***************************************************************************)
EXTENDS Discovery, TLAPS

\* The attempt in flight is the one whose owner is running it, and nothing is
\* published while it runs.
OwnerInv ==
  /\ \A c \in Callers : pc[c] = "run" <=> discovering = c
  /\ discovering # None => state = None

\* The published attempt is complete, nil is returned only after a publication,
\* and whoever has read the locations has read the published ones.
ResultInv ==
  /\ state # None => progress[state] = Steps /\ ~failed[state]
  /\ \A c \in Callers : pc[c] = "nil" => state # None
  /\ \A c \in Callers : reply[c] = "nil" => state # None /\ used[c] = state

IndInv == TypeOK /\ OwnerInv /\ ResultInv /\ NoLostWakeup /\ OwnFailureOnly

\* The initial state of a client satisfies the invariant.
LEMMA InitInd == Init => IndInv
  BY ConstantsAssumption
  DEF Init, IndInv, TypeOK, OwnerInv, ResultInv, NoLostWakeup, OwnFailureOnly

\* Every step of discover preserves the types.
LEMMA NextType == TypeOK /\ [Next]_vars => TypeOK'
<1> SUFFICES ASSUME TypeOK, [Next]_vars PROVE TypeOK'
  OBVIOUS
<1> USE ConstantsAssumption DEF TypeOK, Goto, Fail
<1>1. ASSUME NEW c \in Callers, Call(c) PROVE TypeOK'
  BY <1>1 DEF Call
<1>2. ASSUME NEW c \in Callers, Expire(c) PROVE TypeOK'
  BY <1>2 DEF Expire
<1>3. ASSUME NEW c \in Callers, LocalStep(c) PROVE TypeOK'
  <2>1. CASE LookupDiscovered(c)  BY <2>1 DEF LookupDiscovered
  <2>2. CASE LookupInFlight(c)    BY <2>2 DEF LookupInFlight
  <2>3. CASE Start(c)             BY <2>3 DEF Start
  <2>4. CASE Wake(c)              BY <2>4 DEF Wake
  <2>5. CASE WakeCancelled(c)     BY <2>5 DEF WakeCancelled
  <2>6. CASE PropfindCancelled(c) BY <2>6 DEF PropfindCancelled, PropfindFails
  <2>7. CASE Finish(c)            BY <2>7 DEF Finish, Publish, Close
  <2>8. CASE Use(c)               BY <2>8 DEF Use
  <2> QED BY <1>3, <2>1, <2>2, <2>3, <2>4, <2>5, <2>6, <2>7, <2>8 DEF LocalStep
<1>4. ASSUME NEW c \in Callers, Answer(c) PROVE TypeOK'
  <2>1. CASE Propfind(c)          BY <2>1 DEF Propfind, Over
  <2>2. CASE PropfindFails(c)     BY <2>2 DEF PropfindFails
  <2> QED BY <1>4, <2>1, <2>2 DEF Answer
<1>5. CASE UNCHANGED vars
  BY <1>5 DEF vars
<1> QED BY <1>1, <1>2, <1>3, <1>4, <1>5 DEF Next

\* Every step preserves who owns the attempt in flight.
LEMMA NextOwner == TypeOK /\ OwnerInv /\ [Next]_vars => OwnerInv'
<1> SUFFICES ASSUME TypeOK, OwnerInv, [Next]_vars PROVE OwnerInv'
  OBVIOUS
<1> USE ConstantsAssumption DEF TypeOK, OwnerInv, Goto, Fail
<1>1. ASSUME NEW c \in Callers, Call(c) PROVE OwnerInv'
  BY <1>1 DEF Call
<1>2. ASSUME NEW c \in Callers, Expire(c) PROVE OwnerInv'
  BY <1>2 DEF Expire
<1>3. ASSUME NEW c \in Callers, LocalStep(c) PROVE OwnerInv'
  <2>1. CASE LookupDiscovered(c)  BY <2>1 DEF LookupDiscovered
  <2>2. CASE LookupInFlight(c)    BY <2>2 DEF LookupInFlight
  <2>3. CASE Start(c)             BY <2>3 DEF Start
  <2>4. CASE Wake(c)              BY <2>4 DEF Wake
  <2>5. CASE WakeCancelled(c)     BY <2>5 DEF WakeCancelled
  <2>6. CASE PropfindCancelled(c) BY <2>6 DEF PropfindCancelled, PropfindFails
  <2>7. CASE Finish(c)            BY <2>7 DEF Finish
  <2>8. CASE Use(c)               BY <2>8 DEF Use
  <2> QED BY <1>3, <2>1, <2>2, <2>3, <2>4, <2>5, <2>6, <2>7, <2>8 DEF LocalStep
<1>4. ASSUME NEW c \in Callers, Answer(c) PROVE OwnerInv'
  BY <1>4 DEF Answer, Propfind, PropfindFails
<1>5. CASE UNCHANGED vars
  BY <1>5 DEF vars
<1> QED BY <1>1, <1>2, <1>3, <1>4, <1>5 DEF Next

\* Every step preserves what is published and what was read of it.
LEMMA NextResult == TypeOK /\ OwnerInv /\ ResultInv /\ [Next]_vars => ResultInv'
<1> SUFFICES ASSUME TypeOK, OwnerInv, ResultInv, [Next]_vars PROVE ResultInv'
  OBVIOUS
<1> USE ConstantsAssumption DEF TypeOK, ResultInv, Goto, Fail
<1>1. ASSUME NEW c \in Callers, Call(c) PROVE ResultInv'
  BY <1>1 DEF Call
<1>2. ASSUME NEW c \in Callers, Expire(c) PROVE ResultInv'
  BY <1>2 DEF Expire
<1>3. ASSUME NEW c \in Callers, PropfindFails(c) PROVE ResultInv'
  BY <1>3 DEF PropfindFails, OwnerInv
<1>4. ASSUME NEW c \in Callers, LocalStep(c) PROVE ResultInv'
  <2>1. CASE LookupDiscovered(c)  BY <2>1 DEF LookupDiscovered
  <2>2. CASE LookupInFlight(c)    BY <2>2 DEF LookupInFlight
  <2>3. CASE Start(c)             BY <2>3 DEF Start
  <2>4. CASE Wake(c)              BY <2>4 DEF Wake
  <2>5. CASE WakeCancelled(c)     BY <2>5 DEF WakeCancelled
  <2>6. CASE PropfindCancelled(c) BY <1>3, <2>6 DEF PropfindCancelled
  <2>7. CASE Finish(c)
    <3>1. state = None /\ pc[c] = "run"
      BY <2>7 DEF Finish, OwnerInv
    <3>2. CASE failed[c]          BY <2>7, <3>1, <3>2 DEF Finish, Publish
    <3>3. CASE ~failed[c]         BY <2>7, <3>1, <3>3 DEF Finish, Publish, Over
    <3> QED BY <3>2, <3>3
  <2>8. CASE Use(c)               BY <2>8 DEF Use
  <2> QED BY <1>4, <2>1, <2>2, <2>3, <2>4, <2>5, <2>6, <2>7, <2>8 DEF LocalStep
<1>5. ASSUME NEW c \in Callers, Propfind(c) PROVE ResultInv'
  BY <1>5 DEF Propfind, OwnerInv
<1>6. CASE UNCHANGED vars
  BY <1>6 DEF vars
<1> QED BY <1>1, <1>2, <1>3, <1>4, <1>5, <1>6 DEF Next, Answer

\* Every step keeps each waiter's channel open for a live attempt, or closed.
LEMMA NextWakeup == TypeOK /\ OwnerInv /\ NoLostWakeup /\ [Next]_vars => NoLostWakeup'
<1> SUFFICES ASSUME TypeOK, OwnerInv, NoLostWakeup, [Next]_vars PROVE NoLostWakeup'
  OBVIOUS
<1> USE ConstantsAssumption DEF TypeOK, NoLostWakeup, Goto, Fail
<1>1. ASSUME NEW c \in Callers, Call(c) PROVE NoLostWakeup'
  BY <1>1 DEF Call
<1>2. ASSUME NEW c \in Callers, Expire(c) PROVE NoLostWakeup'
  BY <1>2 DEF Expire
<1>3. ASSUME NEW c \in Callers, LocalStep(c) PROVE NoLostWakeup'
  <2>1. CASE LookupDiscovered(c)  BY <2>1 DEF LookupDiscovered
  <2>2. CASE LookupInFlight(c)
    <3>1. discovering \in Callers /\ pc[discovering] = "run" /\ discovering # c
      BY <2>2 DEF LookupInFlight, OwnerInv
    <3> QED BY <2>2, <3>1 DEF LookupInFlight
  <2>3. CASE Start(c)             BY <2>3 DEF Start
  <2>4. CASE Wake(c)              BY <2>4 DEF Wake
  <2>5. CASE WakeCancelled(c)     BY <2>5 DEF WakeCancelled
  <2>6. CASE PropfindCancelled(c) BY <2>6 DEF PropfindCancelled, PropfindFails
  <2>7. CASE Finish(c)            BY <2>7 DEF Finish, Close
  <2>8. CASE Use(c)               BY <2>8 DEF Use
  <2> QED BY <1>3, <2>1, <2>2, <2>3, <2>4, <2>5, <2>6, <2>7, <2>8 DEF LocalStep
<1>4. ASSUME NEW c \in Callers, Answer(c) PROVE NoLostWakeup'
  BY <1>4 DEF Answer, Propfind, PropfindFails
<1>5. CASE UNCHANGED vars
  BY <1>5 DEF vars
<1> QED BY <1>1, <1>2, <1>3, <1>4, <1>5 DEF Next
\* Every step leaves errors explained: an attempt that failed stays failed and a
\* context that ended stays ended.
LEMMA NextOwnFailure == TypeOK /\ OwnFailureOnly /\ [Next]_vars => OwnFailureOnly'
<1> SUFFICES ASSUME TypeOK, OwnFailureOnly, [Next]_vars PROVE OwnFailureOnly'
  OBVIOUS
<1> USE DEF TypeOK, OwnFailureOnly, Goto, Fail
<1>1. ASSUME NEW c \in Callers, Call(c) PROVE OwnFailureOnly'
  BY <1>1 DEF Call
<1>2. ASSUME NEW c \in Callers, Expire(c) PROVE OwnFailureOnly'
  BY <1>2 DEF Expire
<1>3. ASSUME NEW c \in Callers, LocalStep(c) PROVE OwnFailureOnly'
  <2>1. CASE LookupDiscovered(c)  BY <2>1 DEF LookupDiscovered
  <2>2. CASE LookupInFlight(c)    BY <2>2 DEF LookupInFlight
  <2>3. CASE Start(c)             BY <2>3 DEF Start
  <2>4. CASE Wake(c)              BY <2>4 DEF Wake
  <2>5. CASE WakeCancelled(c)     BY <2>5 DEF WakeCancelled
  <2>6. CASE PropfindCancelled(c) BY <2>6 DEF PropfindCancelled, PropfindFails
  <2>7. CASE Finish(c)            BY <2>7 DEF Finish
  <2>8. CASE Use(c)               BY <2>8 DEF Use
  <2> QED BY <1>3, <2>1, <2>2, <2>3, <2>4, <2>5, <2>6, <2>7, <2>8 DEF LocalStep
<1>4. ASSUME NEW c \in Callers, Answer(c) PROVE OwnFailureOnly'
  BY <1>4 DEF Answer, Propfind, PropfindFails
<1>5. CASE UNCHANGED vars
  BY <1>5 DEF vars
<1> QED BY <1>1, <1>2, <1>3, <1>4, <1>5 DEF Next

\* The invariant holds in every reachable state.
LEMMA Inductive == Spec => []IndInv
<1>1. Init => IndInv
  BY InitInd
<1>2. IndInv /\ [Next]_vars => IndInv'
  BY NextType, NextOwner, NextResult, NextWakeup, NextOwnFailure DEF IndInv
<1> QED BY <1>1, <1>2, PTL DEF Spec

\* At no time do two callers run a discovery, and none runs once one has been
\* published, for any number of callers.
THEOREM SingleFlightSafe == Spec => []SingleFlight
<1>1. IndInv => SingleFlight
  BY ConstantsAssumption DEF IndInv, TypeOK, OwnerInv, SingleFlight
<1> QED BY <1>1, Inductive, PTL

\* Every waiter's channel is closed or will be closed by a caller that is still
\* running its attempt.
THEOREM WakeupSafe == Spec => []NoLostWakeup
<1>1. IndInv => NoLostWakeup
  BY DEF IndInv
<1> QED BY <1>1, Inductive, PTL

\* All callers that got nil use one and the same complete result.
THEOREM ResultSafe == Spec => []OneCompleteResult
<1>1. IndInv => OneCompleteResult
  BY ConstantsAssumption DEF IndInv, TypeOK, ResultInv, OneCompleteResult
<1> QED BY <1>1, Inductive, PTL

\* No caller is given the failure of somebody else's attempt.
THEOREM OwnFailureSafe == Spec => []OwnFailureOnly
<1>1. IndInv => OwnFailureOnly
  BY DEF IndInv
<1> QED BY <1>1, Inductive, PTL
=============================================================================
