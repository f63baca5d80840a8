----------------------- MODULE IdempotencyStoreProofs -----------------------
(***************************************************************************)
(* Proofs about IdempotencyStore, for any number of calls, keys and        *)
(* parameters, any capacity and any TTL.                                   *)
(*                                                                         *)
(* RepeatOnlyAfterKnownExpiry is not inductive: it relates the history of  *)
(* two calls and says nothing of the map.  ClaimInv ties the map to the    *)
(* history: a claim that has left the map has a known result whose time is *)
(* over, so that whoever finds the key free may take it.                   *)
(***************************************************************************)
EXTENDS IdempotencyStore, TLAPS

\* The map points at the claim of the key's own owner.
MapInv ==
  \A k \in NsKeys : entries[k] # None =>
    /\ claimedAt[entries[k]] # 0
    /\ KeyOf(entries[k]) = k

\* Where a handler is determines what it has claimed and finished.
StageInv ==
  \A c \in Calls :
    /\ pc[c] = "idle" => req[c] = NoRequest
    /\ pc[c] \in {"begin", "wait", "service", "finish"} => req[c] \in Requests
    /\ pc[c] \in {"idle", "begin", "wait"} => claimedAt[c] = 0
    /\ pc[c] \in {"service", "finish"} => claimedAt[c] # 0 /\ finishedAt[c] = 0
    /\ pc[c] = "wait" => waitOn[c] \in Calls
    /\ pc[c] = "finish" => svc[c] \in ServiceResults
    /\ claimedAt[c] # 0 => req[c] \in Requests
    /\ finishedAt[c] # 0 => claimedAt[c] # 0

\* A claim holds its key until its result is known and its time is over.
ClaimInv ==
  \A c \in Calls : claimedAt[c] # 0 =>
    /\ finishedAt[c] = 0 => entries[KeyOf(c)] = c /\ entry[c].pending
    /\ finishedAt[c] # 0 =>
         /\ ~entry[c].pending
         /\ entry[c].outcome \in {"success", "definite"}
              => entry[c].expires = finishedAt[c] + TTL
         /\ entry[c].outcome \notin {"success", "definite"}
              => entry[c].expires = 0 /\ entries[KeyOf(c)] = c
         /\ entries[KeyOf(c)] # c => finishedAt[c] + TTL <= now

IndInv ==
  /\ TypeOK
  /\ MapInv
  /\ StageInv
  /\ ClaimInv
  /\ RepeatOnlyAfterKnownExpiry

-----------------------------------------------------------------------------
(* The key of a request that has been accepted is a key of the map. *)
LEMMA KeyOfType ==
  ASSUME NEW c \in Calls, req[c] \in Requests
  PROVE  KeyOf(c) \in NsKeys
  BY DEF KeyOf, NamespacedKey, NsKeys, Requests

\* Purging leaves each key alone, or frees the key of a known and expired claim
\* (purgeLocked).
LEMMA PurgeFrees ==
  ASSUME TypeOK, NEW k \in NsKeys
  PROVE  /\ PurgeLocked \in [NsKeys -> Calls \cup {None}]
         /\ \/ PurgeLocked[k] = entries[k]
            \/ /\ PurgeLocked[k] = None
               /\ entries[k] \in Calls
               /\ Expired(entries[k])
  BY DEF PurgeLocked, TypeOK

\* Actions that touch neither the map nor the history keep what relates them.
LEMMA FrameKeeps ==
  ASSUME IndInv, UNCHANGED <<entries, entry, claimedAt, finishedAt, req, now>>
  PROVE  MapInv' /\ ClaimInv' /\ RepeatOnlyAfterKnownExpiry'
  BY DEF IndInv, MapInv, ClaimInv, RepeatOnlyAfterKnownExpiry, KeyOf,
         NamespacedKey, SameKey, OverBefore

\* A purge alone keeps it too.
LEMMA PurgeKeeps ==
  ASSUME IndInv, entries' = PurgeLocked,
         UNCHANGED <<entry, claimedAt, finishedAt, req, now>>
  PROVE  MapInv' /\ ClaimInv' /\ RepeatOnlyAfterKnownExpiry'
<1>1. MapInv'
  <2> SUFFICES ASSUME NEW k \in NsKeys, entries'[k] # None
               PROVE  claimedAt[entries'[k]] # 0 /\ KeyOf(entries'[k]) = k
    BY DEF MapInv, KeyOf, NamespacedKey
  <2>1. entries'[k] = entries[k]
    BY PurgeFrees DEF IndInv
  <2> QED BY <2>1 DEF IndInv, MapInv
<1>2. ClaimInv'
  <2> SUFFICES ASSUME NEW c \in Calls, claimedAt[c] # 0
               PROVE
       /\ finishedAt[c] = 0 => entries'[KeyOf(c)] = c /\ entry[c].pending
       /\ finishedAt[c] # 0 =>
            /\ ~entry[c].pending
            /\ entry[c].outcome \in {"success", "definite"}
                 => entry[c].expires = finishedAt[c] + TTL
            /\ entry[c].outcome \notin {"success", "definite"}
                 => entry[c].expires = 0 /\ entries'[KeyOf(c)] = c
            /\ entries'[KeyOf(c)] # c => finishedAt[c] + TTL <= now
    BY DEF ClaimInv, KeyOf, NamespacedKey
  <2>1. KeyOf(c) \in NsKeys
    BY KeyOfType DEF IndInv, StageInv
  <2>2. CASE entries'[KeyOf(c)] = entries[KeyOf(c)]
    BY <2>2 DEF IndInv, ClaimInv
  <2>3. CASE entries[KeyOf(c)] # c
    <3>1. entries'[KeyOf(c)] # c
      BY <2>1, <2>3, PurgeFrees, ConstantsAssumption DEF IndInv
    <3> QED BY <2>3, <3>1 DEF IndInv, ClaimInv
  <2>4. CASE entries[KeyOf(c)] = c /\ Expired(c)
    BY <2>4, ConstantsAssumption DEF IndInv, ClaimInv, Expired, TypeOK
  <2> QED BY <2>1, <2>2, <2>3, <2>4, PurgeFrees DEF IndInv
<1>3. RepeatOnlyAfterKnownExpiry'
  BY DEF IndInv, RepeatOnlyAfterKnownExpiry, SameKey, OverBefore
<1> QED BY <1>1, <1>2, <1>3

-----------------------------------------------------------------------------
(* One lemma per kind of step. *)

\* The steps that leave the map, the entries and the history alone: denials,
\* waiters that wake, contexts, and the service itself.
Quiet(c) ==
  \/ Deny(c)
  \/ BeginCancelled(c)
  \/ Wake(c)
  \/ \E r \in ServiceResults : ServiceReturn(c, r)
  \/ CancelContext(c)
  \/ LateApply(c)

LEMMA QuietKeeps ==
  ASSUME IndInv, NEW c \in Calls, Quiet(c)
  PROVE  IndInv'
<1> USE DEF IndInv
<1>1. UNCHANGED <<entries, entry, claimedAt, finishedAt, req, now>>
  BY DEF Quiet, Deny, BeginCancelled, Wake, WakeDone, WakeCancelled, WakeTimer,
         ServiceReturn, CancelContext, LateApply
<1>2. CASE Deny(c)
  BY <1>1, <1>2, FrameKeeps DEF TypeOK, StageInv, Deny, Reply
<1>3. CASE BeginCancelled(c)
  BY <1>1, <1>3, FrameKeeps DEF TypeOK, StageInv, BeginCancelled, Return, Reply
<1>4. CASE WakeDone(c)
  <2>1. entry[waitOn[c]].outcome \in Classes \cup {"none"} /\ waitOn[c] \in Calls
    BY <1>4 DEF TypeOK, StageInv, WakeDone
  <2>2. TypeOK'
    BY <1>1, <1>4, <2>1 DEF TypeOK, WakeDone, Return, Reply
  <2>3. StageInv'
    BY <1>1, <1>4 DEF TypeOK, StageInv, WakeDone, Return
  <2> QED BY <1>1, <2>2, <2>3, FrameKeeps
<1>5. CASE WakeCancelled(c)
  BY <1>1, <1>5, FrameKeeps DEF TypeOK, StageInv, WakeCancelled, Return, Reply
<1>6. CASE WakeTimer(c)
  BY <1>1, <1>6, FrameKeeps DEF TypeOK, StageInv, WakeTimer, Return, Reply
<1>7. ASSUME NEW r \in ServiceResults, ServiceReturn(c, r)
      PROVE  IndInv'
  BY <1>1, <1>7, FrameKeeps DEF TypeOK, StageInv, ServiceReturn
<1>8. CASE CancelContext(c)
  BY <1>1, <1>8, FrameKeeps DEF TypeOK, StageInv, CancelContext
<1>9. CASE LateApply(c)
  BY <1>1, <1>9, FrameKeeps DEF TypeOK, StageInv, LateApply
<1> QED BY <1>2, <1>3, <1>4, <1>5, <1>6, <1>7, <1>8, <1>9 DEF Quiet, Wake

\* A duplicate that is answered or told to wait, and a call that finds the cache
\* full, change the map by a purge only.
LEMMA PurgeOnlyKeeps ==
  ASSUME IndInv, NEW c \in Calls,
         BeginConflict(c) \/ BeginHit(c) \/ BeginWait(c) \/ BeginFull(c)
  PROVE  IndInv'
<1> USE DEF IndInv
<1>1. /\ entries' = PurgeLocked
      /\ UNCHANGED <<entry, claimedAt, finishedAt, req, now>>
  BY DEF BeginConflict, BeginHit, BeginWait, BeginFull, Lookup
<1>2. entries' \in [NsKeys -> Calls \cup {None}]
  BY <1>1 DEF PurgeLocked, TypeOK
<1>3. KeyOf(c) \in NsKeys
  BY KeyOfType DEF BeginConflict, BeginHit, BeginWait, BeginFull, Lookup, StageInv
<1>4. CASE BeginConflict(c)
  BY <1>1, <1>2, <1>4, PurgeKeeps
     DEF TypeOK, StageInv, BeginConflict, Lookup, Return, Reply
<1>5. CASE BeginHit(c)
  <2>1. PurgeLocked[KeyOf(c)] \in Calls
    BY <1>1, <1>2, <1>3, <1>5 DEF BeginHit
  <2>2. entry[PurgeLocked[KeyOf(c)]].outcome \in Classes \cup {"none"}
    BY <2>1 DEF TypeOK
  <2>3. TypeOK'
    BY <1>1, <1>2, <1>5, <2>1, <2>2
       DEF TypeOK, BeginHit, Lookup, Return, Reply
  <2>4. StageInv'
    BY <1>1, <1>5 DEF TypeOK, StageInv, BeginHit, Lookup, Return
  <2> QED BY <1>1, <2>3, <2>4, PurgeKeeps
<1>6. CASE BeginWait(c)
  <2>1. PurgeLocked[KeyOf(c)] \in Calls
    BY <1>1, <1>2, <1>3, <1>6 DEF BeginWait
  <2>2. TypeOK'
    BY <1>1, <1>2, <1>6, <2>1, ConstantsAssumption
       DEF TypeOK, BeginWait, Lookup
  <2>3. StageInv'
    BY <1>1, <1>6, <2>1 DEF TypeOK, StageInv, BeginWait, Lookup
  <2> QED BY <1>1, <2>2, <2>3, PurgeKeeps
<1>7. CASE BeginFull(c)
  BY <1>1, <1>2, <1>7, PurgeKeeps
     DEF TypeOK, StageInv, BeginFull, Lookup, Return, Reply
<1> QED BY <1>4, <1>5, <1>6, <1>7

\* A new request has no claim, so no fact about claims speaks of it yet.
LEMMA AcceptKeeps ==
  ASSUME IndInv, NEW c \in Calls, NEW r \in Requests, Accept(c, r)
  PROVE  IndInv'
<1> USE DEF IndInv
<1>1. claimedAt[c] = 0 /\ UNCHANGED <<entries, entry, claimedAt, finishedAt, now>>
  BY DEF Accept, StageInv
<1>2. \A d \in Calls \ {c} : req'[d] = req[d] /\ KeyOf(d)' = KeyOf(d)
  BY DEF Accept, TypeOK, KeyOf, NamespacedKey
<1>3. TypeOK'
  BY DEF Accept, TypeOK
<1>4. StageInv'
  BY <1>3 DEF Accept, TypeOK, StageInv
<1>5. MapInv'
  <2> SUFFICES ASSUME NEW k \in NsKeys, entries[k] # None
               PROVE  claimedAt[entries[k]] # 0 /\ KeyOf(entries[k])' = k
    BY <1>1 DEF MapInv, KeyOf
  <2>1. entries[k] \in Calls \ {c}
    BY <1>1 DEF MapInv, TypeOK
  <2>2. KeyOf(entries[k])' = KeyOf(entries[k])
    BY <1>1, <1>2, <2>1 DEF KeyOf, NamespacedKey
  <2> QED BY <2>2 DEF MapInv
<1>6. ClaimInv'
  <2> SUFFICES ASSUME NEW d \in Calls, claimedAt[d] # 0
               PROVE  KeyOf(d)' = KeyOf(d)
    BY <1>1 DEF ClaimInv
  <2> QED BY <1>1, <1>2
<1>7. RepeatOnlyAfterKnownExpiry'
  <2> SUFFICES ASSUME NEW d \in Calls, NEW e \in Calls, d # e, SameKey(d, e)',
                      claimedAt[d] # 0, claimedAt[e] # 0
               PROVE  (OverBefore(d, e) \/ OverBefore(e, d))'
    BY <1>1 DEF RepeatOnlyAfterKnownExpiry
  <2>1. SameKey(d, e)
    BY <1>1, <1>2 DEF SameKey
  <2> QED BY <1>1, <2>1 DEF RepeatOnlyAfterKnownExpiry, OverBefore
<1> QED BY <1>3, <1>4, <1>5, <1>6, <1>7

\* The clock only makes more claims old enough.
LEMMA TickKeeps ==
  ASSUME IndInv, Tick
  PROVE  IndInv'
<1> USE DEF IndInv, Tick
<1>1. TypeOK'
  BY DEF TypeOK
<1>2. MapInv' /\ StageInv' /\ RepeatOnlyAfterKnownExpiry'
  BY DEF MapInv, StageInv, RepeatOnlyAfterKnownExpiry, KeyOf, SameKey, OverBefore
<1>3. ClaimInv'
  <2> SUFFICES ASSUME NEW c \in Calls, claimedAt[c] # 0, finishedAt[c] # 0,
                      entries[KeyOf(c)] # c
               PROVE  finishedAt[c] + TTL <= now + 1
    BY DEF ClaimInv, KeyOf
  <2> QED BY ConstantsAssumption DEF ClaimInv, TypeOK
<1> QED BY <1>1, <1>2, <1>3

\* Whoever finds the key free may take it: every earlier claim of the key has
\* left the map, so its result is known and its time is over.
LEMMA ClaimKeeps ==
  ASSUME IndInv, NEW c \in Calls, BeginClaim(c)
  PROVE  IndInv'
<1> USE DEF IndInv
<1>1. /\ req[c] \in Requests /\ claimedAt[c] = 0 /\ finishedAt[c] = 0
      /\ UNCHANGED <<req, finishedAt, now>>
  BY DEF BeginClaim, StageInv
<1>2. KeyOf(c) \in NsKeys
  BY <1>1, KeyOfType
<1>3. PurgeLocked \in [NsKeys -> Calls \cup {None}]
  BY DEF PurgeLocked, TypeOK
<1>4. /\ entries' = [PurgeLocked EXCEPT ![KeyOf(c)] = c]
      /\ entry' = [entry EXCEPT ![c] = [Blank EXCEPT !.pending = TRUE]]
      /\ claimedAt' = [claimedAt EXCEPT ![c] = now]
  BY DEF BeginClaim
<1>5. claimedAt'[c] # 0 /\ \A d \in Calls \ {c} : claimedAt'[d] = claimedAt[d]
  BY <1>4 DEF TypeOK
<1>6. \A d \in Calls \ {c} : entry'[d] = entry[d]
  BY <1>4 DEF TypeOK
<1>7. \A d \in Calls : KeyOf(d)' = KeyOf(d)
  BY <1>1 DEF KeyOf, NamespacedKey
<1>8. entry'[c].pending
  BY <1>4 DEF TypeOK, Blank
<1>9. TypeOK'
  <2>1. entry' \in [Calls -> [pending : BOOLEAN, expires : Nat,
                              outcome : Classes \cup {"none"}]]
    BY <1>4 DEF TypeOK, Blank
  <2>2. entries' \in [NsKeys -> Calls \cup {None}]
    BY <1>3, <1>4
  <2> QED BY <2>1, <2>2 DEF TypeOK, BeginClaim
<1>10. StageInv'
  BY <1>1, <1>5 DEF StageInv, BeginClaim, TypeOK
<1>11. MapInv'
  <2> SUFFICES ASSUME NEW k \in NsKeys, entries'[k] # None
               PROVE  claimedAt'[entries'[k]] # 0 /\ KeyOf(entries[k])' = k
    BY DEF MapInv
  <2>1. CASE k = KeyOf(c)
    BY <1>1, <1>3, <1>4, <1>5, <2>1 DEF KeyOf, NamespacedKey
  <2>2. CASE k # KeyOf(c)
    <3>1. entries'[k] = entries[k] /\ entries[k] \in Calls
      BY <1>3, <1>4, <2>2, PurgeFrees
    <3>2. claimedAt[entries[k]] # 0 /\ KeyOf(entries[k]) = k
      BY <3>1 DEF MapInv
    <3>3. KeyOf(entries[k])' = KeyOf(entries[k])
      BY <1>1, <3>1 DEF KeyOf, NamespacedKey
    <3> QED BY <1>1, <1>5, <3>1, <3>2, <3>3
  <2> QED BY <2>1, <2>2
<1>12. \A d \in Calls \ {c} : claimedAt[d] # 0 /\ KeyOf(d) = KeyOf(c)
          => OverBefore(d, c)'
  <2> SUFFICES ASSUME NEW d \in Calls \ {c}, claimedAt[d] # 0,
                      KeyOf(d) = KeyOf(c)
               PROVE  OverBefore(d, c)'
    OBVIOUS
  <2>1. /\ finishedAt[d] # 0
        /\ entry[d].outcome \in {"success", "definite"}
        /\ finishedAt[d] + TTL <= now
    <3>1. CASE entries[KeyOf(c)] # d
      BY <3>1 DEF ClaimInv
    <3>2. CASE entries[KeyOf(c)] = d
      <4>1. PurgeLocked[KeyOf(c)] # entries[KeyOf(c)]
        BY <3>2, ConstantsAssumption DEF BeginClaim
      <4>2. Expired(d)
        BY <1>2, <3>2, <4>1, PurgeFrees
      <4> QED BY <3>2, <4>2, ConstantsAssumption DEF ClaimInv, Expired, TypeOK
    <3> QED BY <3>1, <3>2
  <2>2. claimedAt'[c] = now
    BY <1>4 DEF TypeOK
  <2> QED BY <1>1, <1>6, <2>1, <2>2 DEF OverBefore
<1>13. ClaimInv'
  <2> SUFFICES ASSUME NEW d \in Calls, claimedAt'[d] # 0
               PROVE
       /\ finishedAt[d] = 0 => entries'[KeyOf(d)] = d /\ entry'[d].pending
       /\ finishedAt[d] # 0 =>
            /\ ~entry'[d].pending
            /\ entry'[d].outcome \in {"success", "definite"}
                 => entry'[d].expires = finishedAt[d] + TTL
            /\ entry'[d].outcome \notin {"success", "definite"}
                 => entry'[d].expires = 0 /\ entries'[KeyOf(d)] = d
            /\ entries'[KeyOf(d)] # d => finishedAt[d] + TTL <= now
    BY <1>1, <1>7 DEF ClaimInv
  <2>1. CASE d = c
    BY <1>1, <1>2, <1>3, <1>4, <1>8, <2>1
  <2>2. CASE d # c
    <3>1. claimedAt[d] # 0 /\ entry'[d] = entry[d] /\ KeyOf(d) \in NsKeys
      BY <1>5, <1>6, <2>2, KeyOfType DEF StageInv
    <3>2. CASE KeyOf(d) = KeyOf(c)
      <4>1. /\ finishedAt[d] # 0
            /\ entry[d].outcome \in {"success", "definite"}
            /\ finishedAt[d] + TTL <= now
        BY <1>1, <1>4, <1>12, <2>2, <3>1, <3>2 DEF OverBefore, TypeOK
      <4> QED BY <3>1, <4>1 DEF ClaimInv
    <3>3. CASE KeyOf(d) # KeyOf(c) /\ PurgeLocked[KeyOf(d)] = entries[KeyOf(d)]
      BY <1>3, <1>4, <3>1, <3>3 DEF ClaimInv
    <3>4. CASE /\ KeyOf(d) # KeyOf(c)
               /\ PurgeLocked[KeyOf(d)] = None
               /\ Expired(entries[KeyOf(d)])
      <4>1. entries'[KeyOf(d)] = None
        BY <1>3, <1>4, <3>1, <3>4
      <4>2. CASE entries[KeyOf(d)] = d
        BY <3>1, <3>4, <4>2, ConstantsAssumption DEF ClaimInv, Expired, TypeOK
      <4>3. CASE entries[KeyOf(d)] # d
        BY <3>1, <4>1, <4>3, ConstantsAssumption DEF ClaimInv
      <4> QED BY <4>2, <4>3
    <3> QED BY <3>1, <3>2, <3>3, <3>4, PurgeFrees
  <2> QED BY <2>1, <2>2
<1>14. RepeatOnlyAfterKnownExpiry'
  <2> SUFFICES ASSUME NEW d \in Calls, NEW e \in Calls, d # e, SameKey(d, e)',
                      claimedAt'[d] # 0, claimedAt'[e] # 0
               PROVE  (OverBefore(d, e) \/ OverBefore(e, d))'
    BY DEF RepeatOnlyAfterKnownExpiry
  <2>1. SameKey(d, e) /\ KeyOf(d) = KeyOf(e)
    BY <1>1 DEF SameKey, KeyOf, NamespacedKey
  <2>2. CASE d = c \/ e = c
    BY <1>5, <1>12, <2>1, <2>2
  <2>3. CASE d # c /\ e # c
    BY <1>1, <1>5, <1>6, <2>1, <2>3 DEF RepeatOnlyAfterKnownExpiry, OverBefore
  <2> QED BY <2>2, <2>3
<1> QED BY <1>9, <1>10, <1>11, <1>13, <1>14

\* The owner that finishes still holds its key, so complete finds its own entry.
LEMMA CompleteKeeps ==
  ASSUME IndInv, NEW c \in Calls, Complete(c)
  PROVE  IndInv'
<1> USE DEF IndInv
<1>1. /\ req[c] \in Requests /\ claimedAt[c] # 0 /\ finishedAt[c] = 0
      /\ svc[c] \in ServiceResults
      /\ UNCHANGED <<req, entries, now, claimedAt>>
  BY DEF Complete, StageInv
<1>2. entries[KeyOf(c)] = c /\ entry[c].pending
  BY <1>1 DEF ClaimInv
<1>3. PICK formatted \in BOOLEAN :
         LET class == ClassOf(svc[c], formatted)
         IN  /\ Return(c, Reply("own", c, class))
             /\ entry' = [entry EXCEPT ![c] =
                           [pending |-> FALSE, outcome |-> class,
                            expires |-> IF Known(class) THEN now + TTL ELSE 0]]
             /\ finishedAt' = [finishedAt EXCEPT ![c] = now]
  BY <1>2, ConstantsAssumption DEF Complete, SameHash
<1> DEFINE class == ClassOf(svc[c], formatted)
<1>4. class \in Classes
  BY <1>1 DEF ClassOf, ServiceResults, Classes
<1>5. /\ entry'[c] = [pending |-> FALSE, outcome |-> class,
                      expires |-> IF Known(class) THEN now + TTL ELSE 0]
      /\ finishedAt'[c] = now
      /\ \A d \in Calls \ {c} : entry'[d] = entry[d] /\ finishedAt'[d] = finishedAt[d]
  BY <1>3 DEF TypeOK
<1> HIDE DEF class
<1>6. \A d \in Calls : KeyOf(d)' = KeyOf(d)
  BY <1>1 DEF KeyOf, NamespacedKey
<1>7. TypeOK'
  <2>1. entry' \in [Calls -> [pending : BOOLEAN, expires : Nat,
                              outcome : Classes \cup {"none"}]]
    BY <1>3, <1>4, ConstantsAssumption DEF TypeOK, class
  <2>2. reply' = [reply EXCEPT ![c] = [kind |-> "own", of |-> c, class |-> class]]
    BY <1>3 DEF Return, Reply, class
  <2>3. pc' = [pc EXCEPT ![c] = "done"] /\ finishedAt' = [finishedAt EXCEPT ![c] = now]
    BY <1>3 DEF Return
  <2> QED BY <1>1, <1>4, <2>1, <2>2, <2>3 DEF TypeOK, Complete
<1>8. StageInv'
  BY <1>1, <1>3, <1>5 DEF StageInv, TypeOK, Complete, Return
<1>9. MapInv'
  BY <1>1 DEF MapInv, KeyOf, NamespacedKey
<1>10. ClaimInv'
  <2> SUFFICES ASSUME NEW d \in Calls, claimedAt[d] # 0
               PROVE
       /\ finishedAt'[d] = 0 => entries[KeyOf(d)] = d /\ entry'[d].pending
       /\ finishedAt'[d] # 0 =>
            /\ ~entry'[d].pending
            /\ entry'[d].outcome \in {"success", "definite"}
                 => entry'[d].expires = finishedAt'[d] + TTL
            /\ entry'[d].outcome \notin {"success", "definite"}
                 => entry'[d].expires = 0 /\ entries[KeyOf(d)] = d
            /\ entries[KeyOf(d)] # d => finishedAt'[d] + TTL <= now
    BY <1>1, <1>6 DEF ClaimInv
  <2>1. CASE d = c
    BY <1>2, <1>5, <2>1 DEF TypeOK, Known
  <2>2. CASE d # c
    BY <1>5, <2>2 DEF ClaimInv
  <2> QED BY <2>1, <2>2
<1>11. RepeatOnlyAfterKnownExpiry'
  <2> SUFFICES ASSUME NEW d \in Calls, NEW e \in Calls, d # e, SameKey(d, e),
                      claimedAt[d] # 0, claimedAt[e] # 0
               PROVE  (OverBefore(d, e) \/ OverBefore(e, d))'
    BY <1>1 DEF RepeatOnlyAfterKnownExpiry, SameKey
  <2>1. OverBefore(d, e) \/ OverBefore(e, d)
    BY DEF RepeatOnlyAfterKnownExpiry
  <2> QED BY <1>1, <1>5, <2>1 DEF OverBefore
<1> QED BY <1>7, <1>8, <1>9, <1>10, <1>11

-----------------------------------------------------------------------------
\* An empty store satisfies the inductive invariant.
LEMMA InitHolds == Init => IndInv
<1> SUFFICES ASSUME Init PROVE IndInv
  OBVIOUS
<1>1. TypeOK
  BY DEF Init, TypeOK, Blank, NoReply
<1>2. MapInv /\ StageInv /\ ClaimInv /\ RepeatOnlyAfterKnownExpiry
  BY DEF Init, MapInv, StageInv, ClaimInv, RepeatOnlyAfterKnownExpiry
<1> QED BY <1>1, <1>2 DEF IndInv

\* Every step of the store, of its handlers and of their environment keeps it.
LEMMA NextKeeps == IndInv /\ [Next]_vars => IndInv'
<1> SUFFICES ASSUME IndInv, [Next]_vars PROVE IndInv'
  OBVIOUS
<1>1. ASSUME NEW c \in Calls, UpdateEvent(c) PROVE IndInv'
  <2>1. PICK k \in CallerKeys, p \in Params :
           Accept(c, [tool |-> "update_event", key |-> k, params |-> p])
    BY <1>1 DEF UpdateEvent
  <2>2. [tool |-> "update_event", key |-> k, params |-> p] \in Requests
    BY DEF Requests, Tools
  <2> QED BY <2>1, <2>2, AcceptKeeps
<1>2. ASSUME NEW c \in Calls, UpdateContact(c) PROVE IndInv'
  <2>1. PICK k \in CallerKeys, p \in Params :
           Accept(c, [tool |-> "update_contact", key |-> k, params |-> p])
    BY <1>2 DEF UpdateContact
  <2>2. [tool |-> "update_contact", key |-> k, params |-> p] \in Requests
    BY DEF Requests, Tools
  <2> QED BY <2>1, <2>2, AcceptKeeps
<1>3. ASSUME NEW c \in Calls, Quiet(c) PROVE IndInv'
  BY <1>3, QuietKeeps
<1>4. ASSUME NEW c \in Calls, Begin(c) PROVE IndInv'
  BY <1>3, <1>4, PurgeOnlyKeeps, ClaimKeeps DEF Begin, Quiet
<1>5. ASSUME NEW c \in Calls, Complete(c) PROVE IndInv'
  BY <1>5, CompleteKeeps
<1>6. CASE Tick
  BY <1>6, TickKeeps
<1>7. CASE UNCHANGED vars
  <2>1. UNCHANGED <<entries, entry, claimedAt, finishedAt, req, now>>
    BY <1>7 DEF vars
  <2>2. TypeOK' /\ StageInv'
    BY <1>7 DEF vars, IndInv, TypeOK, StageInv
  <2> QED BY <2>1, <2>2, FrameKeeps DEF IndInv
<1> QED BY <1>1, <1>2, <1>3, <1>4, <1>5, <1>6, <1>7 DEF Next, Quiet

\* The store, its handlers and its environment keep their types.
THEOREM TypeCorrect == Spec => []TypeOK
<1>1. IndInv => TypeOK
  BY DEF IndInv
<1> QED BY <1>1, InitHolds, NextKeeps, PTL DEF Spec

\* Whatever the number of calls, keys and entries and however long the service
\* takes, two calls of one key both reach the service only when the first had
\* completed with a known result a full TTL before the other claimed the key.
THEOREM RepeatSafe == Spec => []RepeatOnlyAfterKnownExpiry
<1>1. IndInv => RepeatOnlyAfterKnownExpiry
  BY DEF IndInv
<1> QED BY <1>1, InitHolds, NextKeeps, PTL DEF Spec

\* The map gives a key up only when its result is known and its time is over.
THEOREM ForgetSafe == Spec => ForgetsOnlyKnownExpired
<1>1. ASSUME IndInv, [Next]_vars, NEW k \in NsKeys, entries[k] # None,
             entries'[k] # entries[k]
      PROVE  /\ entry[entries[k]].outcome \in {"success", "definite"}
             /\ finishedAt[entries[k]] + TTL <= now
  <2>1. PurgeLocked[k] # entries[k] /\ entries[k] \in Calls
    <3>1. PICK c \in Calls : Begin(c)
      BY <1>1 DEF Next, vars, Deny, UpdateEvent, UpdateContact, Accept, Wake,
         WakeDone, WakeCancelled, WakeTimer, ServiceReturn, Complete,
         CancelContext, LateApply, Tick
    <3>2. CASE BeginCancelled(c)
      BY <1>1, <3>2 DEF BeginCancelled
    <3>3. CASE entries' = PurgeLocked
      BY <1>1, <3>3 DEF IndInv, TypeOK
    <3>4. CASE BeginClaim(c)
      BY <1>1, <3>4, PurgeFrees DEF BeginClaim, IndInv, TypeOK
    <3> QED BY <3>1, <3>2, <3>3, <3>4 DEF Begin, BeginConflict, BeginHit,
               BeginWait, BeginFull, Lookup
  <2>2. Expired(entries[k])
    BY <1>1, <2>1, PurgeFrees DEF IndInv
  <2>3. claimedAt[entries[k]] # 0
    BY <1>1 DEF IndInv, MapInv
  <2> QED BY <1>1, <2>1, <2>2, <2>3, ConstantsAssumption
          DEF IndInv, ClaimInv, Expired, TypeOK
<1>2. IndInv /\ [Next]_vars =>
        [\A k \in NsKeys :
           (entries[k] # None /\ entries'[k] # entries[k])
             => /\ entry[entries[k]].outcome \in {"success", "definite"}
                /\ finishedAt[entries[k]] + TTL <= now]_vars
  BY <1>1
<1> QED BY <1>2, InitHolds, NextKeeps, PTL DEF Spec, ForgetsOnlyKnownExpired

-----------------------------------------------------------------------------
(* What a replayed result says.  On top of the above, TruthInv follows a     *)
(* result from the service through the entry to the duplicates.              *)

\* Call d made the request that c repeats.
Original(c, d) ==
  /\ d \in Calls \ {c} /\ claimedAt[d] # 0
  /\ SameKey(c, d) /\ req[c].params = req[d].params

TruthOf(c) ==
  /\ pc[c] # "done" => reply[c] = NoReply
  /\ pc[c] \notin {"finish", "done"} => svc[c] = "none"
  /\ svc[c] = "success" => applied[c]
  /\ svc[c] = "definite" => ~applied[c]
  /\ finishedAt[c] # 0 => pc[c] = "done"
  /\ finishedAt[c] # 0 <=> entry[c].outcome # "none"
  /\ entry[c].outcome = "success" => svc[c] = "success"
  /\ entry[c].outcome = "definite" => svc[c] = "definite"
  /\ pc[c] = "wait" => Original(c, waitOn[c])
  /\ reply[c].kind = "hit" =>
       /\ Original(c, reply[c].of)
       /\ finishedAt[reply[c].of] # 0
       /\ reply[c].class = entry[reply[c].of].outcome

TruthInv == \A c \in Calls : TruthOf(c)

\* The entry that a look-up finds belongs to a request with the same tool and key
\* that has been claimed, by another call.
LEMMA LookupFinds ==
  ASSUME IndInv, NEW c \in Calls, pc[c] = "begin",
         PurgeLocked[KeyOf(c)] # None, SameHash(c, PurgeLocked[KeyOf(c)])
  PROVE  Original(c, PurgeLocked[KeyOf(c)])
<1> DEFINE d == PurgeLocked[KeyOf(c)]
<1>1. req[c] \in Requests /\ claimedAt[c] = 0 /\ KeyOf(c) \in NsKeys
  BY KeyOfType DEF IndInv, StageInv
<1>2. d \in Calls /\ d = entries[KeyOf(c)]
  BY <1>1, PurgeFrees DEF IndInv
<1>3. claimedAt[d] # 0 /\ KeyOf(d) = KeyOf(c)
  BY <1>1, <1>2 DEF IndInv, MapInv
<1> HIDE DEF d
<1>4. req[c].key = req[d].key
  BY <1>3 DEF KeyOf, NamespacedKey
<1>5. req[c].tool = req[d].tool /\ req[c].params = req[d].params
  BY DEF SameHash, d
<1>6. req[c] # NoRequest
  BY <1>1 DEF Requests, NoRequest, Tools
<1> QED BY <1>1, <1>2, <1>3, <1>4, <1>5, <1>6 DEF Original, SameKey, d

\* The owner that completes finds its own entry pending under its key.
LEMMA CompleteOwn ==
  ASSUME IndInv, NEW c \in Calls, Complete(c)
  PROVE  \E formatted \in BOOLEAN :
           LET class == ClassOf(svc[c], formatted)
           IN  /\ Return(c, Reply("own", c, class))
               /\ entry' = [entry EXCEPT ![c] =
                             [pending |-> FALSE, outcome |-> class,
                              expires |-> IF Known(class) THEN now + TTL ELSE 0]]
               /\ finishedAt' = [finishedAt EXCEPT ![c] = now]
<1>1. claimedAt[c] # 0 /\ finishedAt[c] = 0
  BY DEF Complete, IndInv, StageInv
<1>2. entries[KeyOf(c)] = c /\ entry[c].pending
  BY <1>1 DEF IndInv, ClaimInv
<1> QED BY <1>2, ConstantsAssumption DEF Complete, SameHash

\* A claim with an entry that is no longer pending has finished.
LEMMA DoneIsFinished ==
  ASSUME IndInv, NEW d \in Calls, claimedAt[d] # 0, ~entry[d].pending
  PROVE  finishedAt[d] # 0
  BY DEF IndInv, ClaimInv

\* A call that stops waiting or asking gets nothing, or the result of a finished
\* original.
LEMMA ReturnTells ==
  ASSUME IndInv, TruthInv, NEW c \in Calls, pc[c] \in {"idle", "begin", "wait"},
         NEW r, Return(c, r),
         r.kind = "hit" => /\ Original(c, r.of) /\ finishedAt[r.of] # 0
                           /\ r.class = entry[r.of].outcome,
         UNCHANGED <<req, entry, waitOn, svc, applied, claimedAt, finishedAt>>
  PROVE  TruthInv'
<1>1. /\ pc'[c] = "done" /\ reply'[c] = r
      /\ \A d \in Calls \ {c} : pc'[d] = pc[d] /\ reply'[d] = reply[d]
  BY DEF Return, IndInv, TypeOK
<1>2. ASSUME NEW d \in Calls, NEW e PROVE Original(d, e)' = Original(d, e)
  BY DEF Original, SameKey
<1>3. ASSUME NEW d \in Calls PROVE TruthOf(d)'
  <2>1. TruthOf(d)
    BY DEF TruthInv
  <2>2. CASE d = c
    BY <1>1, <1>2, <2>1, <2>2 DEF TruthOf
  <2>3. CASE d # c
    BY <1>1, <1>2, <2>1, <2>3 DEF TruthOf
  <2> QED BY <2>2, <2>3
<1> QED BY <1>3 DEF TruthInv

\* The steps of a call up to its claim.
LEMMA BeginTells ==
  ASSUME IndInv, TruthInv, NEW c \in Calls, Deny(c) \/ Begin(c) \/ Wake(c)
  PROVE  TruthInv'
<1>1. ASSUME NEW k \in {"denied", "timeout", "conflict", "refused"},
             pc[c] \in {"idle", "begin", "wait"}, Return(c, Reply(k, None, "none")),
             UNCHANGED <<req, entry, waitOn, svc, applied, claimedAt, finishedAt>>
      PROVE  TruthInv'
  <2> DEFINE r == Reply(k, None, "none")
  <2>1. r.kind # "hit" /\ Return(c, r)
    BY <1>1 DEF Reply
  <2> HIDE DEF r
  <2> QED BY <1>1, <2>1, ReturnTells
<1>2. CASE Deny(c) \/ BeginCancelled(c) \/ BeginConflict(c) \/ BeginFull(c)
  BY <1>1, <1>2 DEF Deny, BeginCancelled, BeginConflict, BeginFull, Lookup, Return
<1>3. CASE WakeCancelled(c) \/ WakeTimer(c)
  BY <1>1, <1>3 DEF WakeCancelled, WakeTimer
<1>4. ASSUME NEW d \in Calls, pc[c] \in {"begin", "wait"}, Original(c, d), ~entry[d].pending,
             Return(c, Reply("hit", d, entry[d].outcome)),
             UNCHANGED <<req, entry, waitOn, svc, applied, claimedAt, finishedAt>>
      PROVE  TruthInv'
  <2> DEFINE r == Reply("hit", d, entry[d].outcome)
  <2>1. r.of = d /\ r.class = entry[d].outcome /\ Return(c, r)
    BY <1>4 DEF Reply
  <2>2. finishedAt[d] # 0
    BY <1>4, DoneIsFinished DEF Original
  <2> HIDE DEF r
  <2> QED BY <1>4, <2>1, <2>2, ReturnTells
<1>5. CASE BeginHit(c)
  <2> DEFINE d == PurgeLocked[KeyOf(c)]
  <2>1. /\ pc[c] = "begin" /\ d # None /\ SameHash(c, d) /\ ~entry[d].pending
        /\ Return(c, Reply("hit", d, entry[d].outcome))
        /\ UNCHANGED <<req, entry, waitOn, svc, applied, claimedAt, finishedAt>>
    BY <1>5 DEF BeginHit, Lookup
  <2>2. Original(c, d) /\ d \in Calls
    BY <2>1, LookupFinds DEF Original
  <2> HIDE DEF d
  <2> QED BY <1>4, <2>1, <2>2
<1>6. CASE WakeDone(c)
  <2>1. /\ pc[c] = "wait" /\ ~entry[waitOn[c]].pending
        /\ Original(c, waitOn[c]) /\ waitOn[c] \in Calls
        /\ UNCHANGED <<req, entry, waitOn, svc, applied, claimedAt, finishedAt>>
    BY <1>6 DEF WakeDone, TruthInv, TruthOf, Original
  <2>2. CASE ctxDone[c]
    BY <1>1, <1>6, <2>1, <2>2 DEF WakeDone
  <2>3. CASE ~ctxDone[c]
    BY <1>4, <1>6, <2>1, <2>3 DEF WakeDone
  <2> QED BY <2>2, <2>3
<1>7. CASE BeginWait(c)
  <2> DEFINE d == PurgeLocked[KeyOf(c)]
  <2>1. /\ pc[c] = "begin" /\ d # None /\ SameHash(c, d)
        /\ waitOn' = [waitOn EXCEPT ![c] = d] /\ pc' = [pc EXCEPT ![c] = "wait"]
        /\ UNCHANGED <<req, entry, svc, applied, reply, claimedAt, finishedAt>>
    BY <1>7 DEF BeginWait, Lookup
  <2>2. Original(c, d)
    BY <2>1, LookupFinds
  <2> HIDE DEF d
  <2>3. /\ pc'[c] = "wait" /\ waitOn'[c] = d
        /\ \A e \in Calls \ {c} : pc'[e] = pc[e] /\ waitOn'[e] = waitOn[e]
    BY <2>1 DEF IndInv, TypeOK
  <2>4. ASSUME NEW e \in Calls, NEW f PROVE Original(e, f)' = Original(e, f)
    BY <2>1 DEF Original, SameKey
  <2>5. ASSUME NEW e \in Calls PROVE TruthOf(e)'
    <3>1. TruthOf(e)
      BY DEF TruthInv
    <3>2. finishedAt[c] = 0
      BY <2>1 DEF TruthInv, TruthOf
    <3> QED BY <2>1, <2>2, <2>3, <2>4, <3>1, <3>2 DEF TruthOf
  <2> QED BY <2>5 DEF TruthInv
<1>8. CASE BeginClaim(c)
  <2>1. /\ pc[c] = "begin" /\ pc' = [pc EXCEPT ![c] = "service"]
        /\ entry' = [entry EXCEPT ![c] = [Blank EXCEPT !.pending = TRUE]]
        /\ claimedAt' = [claimedAt EXCEPT ![c] = now]
        /\ UNCHANGED <<req, waitOn, svc, applied, reply, finishedAt>>
    BY <1>8 DEF BeginClaim
  <2>2. claimedAt[c] = 0 /\ finishedAt[c] = 0
    BY <2>1 DEF IndInv, StageInv
  <2>3. /\ pc'[c] = "service" /\ entry'[c].outcome = "none" /\ claimedAt'[c] # 0
        /\ \A e \in Calls \ {c} :
             pc'[e] = pc[e] /\ entry'[e] = entry[e] /\ claimedAt'[e] = claimedAt[e]
    BY <2>1 DEF IndInv, TypeOK, Blank
  <2>4. ASSUME NEW e \in Calls, NEW f, Original(e, f) PROVE Original(e, f)' /\ f # c /\ f \in Calls
    BY <2>1, <2>2, <2>3, <2>4 DEF Original, SameKey
  <2>5. ASSUME NEW e \in Calls PROVE TruthOf(e)'
    <3>1. TruthOf(e)
      BY DEF TruthInv
    <3>2. CASE e = c
      BY <2>1, <2>2, <2>3, <3>1, <3>2 DEF TruthOf, NoReply
    <3>3. CASE e # c
      BY <2>1, <2>3, <2>4, <3>1, <3>3 DEF TruthOf
    <3> QED BY <3>2, <3>3
  <2> QED BY <2>5 DEF TruthInv
<1> QED BY <1>2, <1>3, <1>5, <1>6, <1>7, <1>8 DEF Begin, Wake

\* The service ends, or reaches the server late.
LEMMA ServiceTells ==
  ASSUME IndInv, TruthInv, NEW c \in Calls,
         LateApply(c) \/ \E r \in ServiceResults : ServiceReturn(c, r)
  PROVE  TruthInv'
<1>1. UNCHANGED <<req, entry, waitOn, reply, claimedAt, finishedAt>>
  BY DEF LateApply, ServiceReturn
<1>2. ASSUME NEW e \in Calls, NEW f PROVE Original(e, f)' = Original(e, f)
  BY <1>1 DEF Original, SameKey
<1>3. CASE LateApply(c)
  <2>1. /\ svc[c] \in {"uncertain", "panic"} /\ UNCHANGED <<pc, svc>>
        /\ \A e \in Calls \ {c} : applied'[e] = applied[e]
    BY <1>3 DEF LateApply, IndInv, TypeOK
  <2>2. ASSUME NEW e \in Calls PROVE TruthOf(e)'
    <3>1. TruthOf(e)
      BY DEF TruthInv
    <3> QED BY <1>1, <1>2, <2>1, <3>1 DEF TruthOf
  <2> QED BY <2>2 DEF TruthInv
<1>4. ASSUME NEW r \in ServiceResults, ServiceReturn(c, r) PROVE TruthInv'
  <2>1. pc[c] = "service" /\ pc' = [pc EXCEPT ![c] = "finish"] /\ svc' = [svc EXCEPT ![c] = r]
    BY <1>4 DEF ServiceReturn
  <2>2. /\ r = "success" => applied'[c]
        /\ r = "definite" => ~applied'[c]
        /\ \A e \in Calls \ {c} : applied'[e] = applied[e]
    BY <1>4 DEF ServiceReturn, IndInv, TypeOK
  <2>3. /\ pc'[c] = "finish" /\ svc'[c] = r
        /\ \A e \in Calls \ {c} : pc'[e] = pc[e] /\ svc'[e] = svc[e]
    BY <2>1 DEF IndInv, TypeOK
  <2>4. ASSUME NEW e \in Calls PROVE TruthOf(e)'
    <3>1. TruthOf(e)
      BY DEF TruthInv
    <3>2. CASE e = c
      BY <1>1, <1>2, <2>1, <2>2, <2>3, <3>1, <3>2 DEF TruthOf
    <3>3. CASE e # c
      BY <1>1, <1>2, <2>2, <2>3, <3>1, <3>3 DEF TruthOf
    <3> QED BY <3>2, <3>3
  <2> QED BY <2>4 DEF TruthInv
<1> QED BY <1>3, <1>4

\* complete records a class that says what the service said.
LEMMA CompleteTells ==
  ASSUME IndInv, TruthInv, NEW c \in Calls, Complete(c)
  PROVE  TruthInv'
<1>1. /\ pc[c] = "finish" /\ svc[c] \in ServiceResults /\ finishedAt[c] = 0
      /\ UNCHANGED <<req, waitOn, svc, applied, claimedAt>>
  BY DEF Complete, IndInv, StageInv
<1>2. PICK formatted \in BOOLEAN :
        LET class == ClassOf(svc[c], formatted)
        IN  /\ Return(c, Reply("own", c, class))
            /\ entry' = [entry EXCEPT ![c] =
                          [pending |-> FALSE, outcome |-> class,
                           expires |-> IF Known(class) THEN now + TTL ELSE 0]]
            /\ finishedAt' = [finishedAt EXCEPT ![c] = now]
  BY CompleteOwn
<1> DEFINE class == ClassOf(svc[c], formatted)
<1>3. /\ class # "none"
      /\ class = "success" => svc[c] = "success"
      /\ class = "definite" => svc[c] = "definite"
  BY <1>1 DEF ClassOf, ServiceResults
<1>4. /\ pc'[c] = "done" /\ reply'[c].kind = "own"
      /\ \A e \in Calls \ {c} : pc'[e] = pc[e] /\ reply'[e] = reply[e]
  BY <1>2 DEF Return, Reply, IndInv, TypeOK
<1>5. /\ entry'[c].outcome = class /\ finishedAt'[c] # 0
      /\ \A e \in Calls \ {c} : entry'[e] = entry[e] /\ finishedAt'[e] = finishedAt[e]
  BY <1>2 DEF IndInv, TypeOK
<1> HIDE DEF class
<1>6. ASSUME NEW e \in Calls, NEW f PROVE Original(e, f)' = Original(e, f)
  BY <1>1 DEF Original, SameKey
<1>7. ASSUME NEW e \in Calls PROVE TruthOf(e)'
  <2>1. TruthOf(e)
    BY DEF TruthInv
  <2>2. CASE e = c
    BY <1>1, <1>3, <1>4, <1>5, <1>6, <2>1, <2>2 DEF TruthOf
  <2>3. CASE e # c
    <3>1. reply[e].kind = "hit" => reply[e].of \in Calls \ {c}
      BY <1>1, <2>1 DEF TruthOf, Original
    <3> QED BY <1>1, <1>4, <1>5, <1>6, <2>1, <2>3, <3>1 DEF TruthOf
  <2> QED BY <2>2, <2>3
<1> QED BY <1>7 DEF TruthInv

\* A new request repeats nothing yet and nobody repeats it.
LEMMA AcceptTells ==
  ASSUME IndInv, TruthInv, NEW c \in Calls, NEW r \in Requests, Accept(c, r)
  PROVE  TruthInv'
<1>1. /\ pc[c] = "idle" /\ pc' = [pc EXCEPT ![c] = "begin"] /\ req' = [req EXCEPT ![c] = r]
      /\ claimedAt[c] = 0
      /\ UNCHANGED <<entry, waitOn, svc, applied, reply, claimedAt, finishedAt>>
  BY DEF Accept, IndInv, StageInv
<1>2. /\ pc'[c] = "begin"
      /\ \A e \in Calls \ {c} : pc'[e] = pc[e] /\ req'[e] = req[e]
  BY <1>1 DEF IndInv, TypeOK
<1>3. ASSUME NEW e \in Calls \ {c}, NEW f, Original(e, f) PROVE Original(e, f)'
  BY <1>1, <1>2, <1>3 DEF Original, SameKey
<1>4. ASSUME NEW e \in Calls PROVE TruthOf(e)'
  <2>1. TruthOf(e)
    BY DEF TruthInv
  <2>2. CASE e = c
    BY <1>1, <1>2, <2>1, <2>2 DEF TruthOf, NoReply
  <2>3. CASE e # c
    BY <1>1, <1>2, <1>3, <2>1, <2>3 DEF TruthOf
  <2> QED BY <2>2, <2>3
<1> QED BY <1>4 DEF TruthInv

\* Truth is kept by every step.
LEMMA TruthKept == IndInv /\ TruthInv /\ [Next]_vars => TruthInv'
<1> SUFFICES ASSUME IndInv, TruthInv, [Next]_vars PROVE TruthInv'
  OBVIOUS
<1>1. ASSUME NEW c \in Calls, UpdateEvent(c) \/ UpdateContact(c) PROVE TruthInv'
  <2>1. PICK t \in Tools, k \in CallerKeys, p \in Params :
           Accept(c, [tool |-> t, key |-> k, params |-> p])
    BY <1>1 DEF UpdateEvent, UpdateContact, Tools
  <2>2. [tool |-> t, key |-> k, params |-> p] \in Requests
    BY DEF Requests
  <2> QED BY <2>1, <2>2, AcceptTells
<1>2. ASSUME UNCHANGED <<pc, req, entry, waitOn, svc, applied, reply, claimedAt, finishedAt>>
      PROVE  TruthInv'
  BY <1>2 DEF TruthInv, TruthOf, Original, SameKey
<1>3. ASSUME NEW c \in Calls, CancelContext(c) PROVE TruthInv'
  BY <1>2, <1>3 DEF CancelContext
<1>4. CASE Tick \/ UNCHANGED vars
  BY <1>2, <1>4 DEF Tick, vars
<1> QED BY <1>1, <1>3, <1>4, BeginTells, ServiceTells, CompleteTells DEF Next

\* However long the owner takes, whether or not its entry has been purged by the
\* time a waiter wakes, and however late a dispatched mutation is applied: a
\* replayed result is the result of the same request and true.
THEOREM ReplaySafe == Spec => []ReplayTellsTheTruth
<1>1. Init => TruthInv
  BY DEF Init, TruthInv, TruthOf, Blank, NoReply
<1>2. IndInv /\ TruthInv => ReplayTellsTheTruth
  BY DEF TruthInv, TruthOf, Original, ReplayTellsTheTruth
<1> QED BY <1>1, <1>2, InitHolds, NextKeeps, TruthKept, PTL DEF Spec

-----------------------------------------------------------------------------
(* The cache implements OnceContract.                                        *)

\* A step that leaves requests, map, entries, claims and replies alone is invisible.
LEMMA Invisible ==
  ASSUME UNCHANGED <<req, entries, entry, claimedAt, reply>>
  PROVE  UNCHANGED Contract!vars
  BY DEF Contract!vars, AskOf, FateOf, AnswerOf, Fate, Answer, KeyOf, NamespacedKey

\* A purge gives up only keys of known results (purgeLocked).
LEMMA PurgeIsAllowed ==
  ASSUME IndInv
  PROVE  /\ PurgeLocked \in Contract!MayRelease(entries)
         /\ entries \in Contract!MayRelease(entries)
<1>1. PurgeLocked \in [NsKeys -> Calls \cup {None}] /\ entries \in [NsKeys -> Calls \cup {None}]
  BY DEF IndInv, TypeOK, PurgeLocked
<1>2. ASSUME NEW k \in NsKeys, PurgeLocked[k] # entries[k]
      PROVE  PurgeLocked[k] = None /\ entries[k] # None /\ FateOf[entries[k]] = "known"
  <2>1. PurgeLocked[k] = None /\ entries[k] \in Calls /\ Expired(entries[k])
    BY <1>2, PurgeFrees DEF IndInv
  <2>2. entries[k] # None
    BY <2>1, ConstantsAssumption
  <2>3. claimedAt[entries[k]] # 0
    BY <2>2 DEF IndInv, MapInv
  <2>4. entry[entries[k]].outcome \in {"success", "definite"} /\ ~entry[entries[k]].pending
    BY <2>1, <2>3, DoneIsFinished DEF IndInv, ClaimInv, Expired
  <2>5. Fate(entries[k]) = "known"
    BY <2>3, <2>4 DEF Fate
  <2> QED BY <2>1, <2>2, <2>5 DEF FateOf
<1> QED BY <1>1, <1>2 DEF Contract!MayRelease

\* A call that has not been answered and holds no claim is open.
LEMMA AskingIsOpen ==
  ASSUME IndInv, TruthInv, NEW c \in Calls, pc[c] \in {"begin", "wait"}
  PROVE  /\ AskOf[c] = [key |-> KeyOf(c), params |-> req[c].params]
         /\ KeyOf(c) \in NsKeys
         /\ Contract!Open(c)
<1>1. req[c] \in Requests /\ claimedAt[c] = 0 /\ reply[c] = NoReply
  BY DEF IndInv, StageInv, TruthInv, TruthOf
<1>2. req[c] # NoRequest /\ req[c].params \in Params
  BY <1>1 DEF Requests, NoRequest, Tools
<1>3. KeyOf(c) \in NsKeys
  BY <1>1, KeyOfType
<1>4. AskOf[c] = [key |-> KeyOf(c), params |-> req[c].params]
  BY <1>2 DEF AskOf
<1>5. AskOf[c] # None
  <2>1. [key |-> KeyOf(c), params |-> req[c].params] \in [key : NsKeys, params : Params]
    BY <1>2, <1>3
  <2> QED BY <1>4, <2>1, ConstantsAssumption DEF NsKeys
<1>6. FateOf[c] = "none"
  BY <1>1 DEF FateOf, Fate
<1>7. AnswerOf[c] = None
  BY <1>1 DEF AnswerOf, Answer, NoReply
<1> QED BY <1>3, <1>4, <1>5, <1>6, <1>7 DEF Contract!Open

\* A call that returns without a claim is refused or replays an ended execution.
LEMMA ReturnImplements ==
  ASSUME IndInv, TruthInv, NEW c \in Calls, pc[c] \in {"begin", "wait"},
         NEW k \in {"timeout", "conflict", "refused", "hit"}, NEW d, NEW class,
         Return(c, Reply(k, d, class)),
         k = "hit" => Original(c, d) /\ ~entry[d].pending,
         entries' \in {entries, PurgeLocked},
         UNCHANGED <<req, entry, claimedAt>>
  PROVE  Contract!Next
<1>1. /\ Contract!Open(c) /\ req[c] \in Requests
      /\ AskOf[c] = [key |-> KeyOf(c), params |-> req[c].params]
  BY AskingIsOpen DEF IndInv, StageInv
<1>2. AskOf' = AskOf /\ FateOf' = FateOf
  BY DEF AskOf, FateOf, Fate, KeyOf, NamespacedKey
<1>3. entries' \in Contract!MayRelease(entries)
  BY PurgeIsAllowed
<1>4. AnswerOf' = [AnswerOf EXCEPT ![c] = IF k = "hit" THEN d ELSE "refused"]
  <2>1. /\ reply'[c].kind = k /\ reply'[c].of = d
        /\ \A e \in Calls \ {c} : reply'[e] = reply[e]
    BY DEF Return, Reply, IndInv, TypeOK
  <2> QED BY <2>1 DEF AnswerOf, Answer
<1>5. CASE k # "hit"
  <2>1. Contract!Refuse(c)
    BY <1>1, <1>2, <1>3, <1>4, <1>5 DEF Contract!Refuse
  <2> QED BY <2>1 DEF Contract!Next
<1>6. CASE k = "hit"
  <2>1. d \in Calls /\ claimedAt[d] # 0 /\ ~entry[d].pending
    BY <1>6 DEF Original
  <2>2. FateOf[d] \in {"known", "uncertain"}
    BY <2>1 DEF FateOf, Fate
  <2>3. req[d] \in Requests /\ req[d] # NoRequest
    BY <2>1 DEF IndInv, StageInv, Requests, NoRequest, Tools
  <2>4. AskOf[d] = [key |-> KeyOf(d), params |-> req[d].params]
    BY <2>1, <2>3 DEF AskOf
  <2>5. AskOf[d] = AskOf[c]
    BY <1>1, <1>6, <2>4 DEF Original, SameKey, KeyOf, NamespacedKey
  <2>6. Contract!Replay(c, d)
    BY <1>1, <1>2, <1>3, <1>4, <1>6, <2>2, <2>5 DEF Contract!Replay
  <2> QED BY <2>1, <2>6 DEF Contract!Next
<1> QED BY <1>5, <1>6

\* beginContext: one pass through the mutex, or the end of a wait.
LEMMA BeginImplements ==
  ASSUME IndInv, TruthInv, NEW c \in Calls, Begin(c) \/ Wake(c)
  PROVE  Contract!Next
<1>1. CASE BeginCancelled(c) \/ BeginConflict(c) \/ BeginFull(c)
  BY <1>1, ReturnImplements DEF BeginCancelled, BeginConflict, BeginFull, Lookup
<1>2. CASE WakeCancelled(c) \/ WakeTimer(c)
  BY <1>2, ReturnImplements DEF WakeCancelled, WakeTimer
<1>3. CASE BeginHit(c)
  <2> DEFINE d == PurgeLocked[KeyOf(c)]
  <2>1. /\ pc[c] = "begin" /\ d # None /\ SameHash(c, d) /\ ~entry[d].pending
        /\ Return(c, Reply("hit", d, entry[d].outcome))
        /\ entries' = PurgeLocked /\ UNCHANGED <<req, entry, claimedAt>>
    BY <1>3 DEF BeginHit, Lookup
  <2>2. Original(c, d)
    BY <2>1, LookupFinds
  <2> HIDE DEF d
  <2> QED BY <2>1, <2>2, ReturnImplements
<1>4. CASE WakeDone(c)
  <2>1. /\ pc[c] = "wait" /\ Original(c, waitOn[c]) /\ ~entry[waitOn[c]].pending
        /\ UNCHANGED <<req, entries, entry, claimedAt>>
    BY <1>4 DEF WakeDone, TruthInv, TruthOf
  <2>2. CASE ctxDone[c]
    BY <1>4, <2>1, <2>2, ReturnImplements DEF WakeDone
  <2>3. CASE ~ctxDone[c]
    BY <1>4, <2>1, <2>3, ReturnImplements DEF WakeDone
  <2> QED BY <2>2, <2>3
<1>5. CASE BeginWait(c)
  <2>1. /\ pc[c] = "begin" /\ entries' = PurgeLocked
        /\ UNCHANGED <<req, entry, claimedAt, reply>>
    BY <1>5 DEF BeginWait, Lookup
  <2>2. Contract!Open(c) /\ entries' \in Contract!MayRelease(entries)
    BY <2>1, AskingIsOpen, PurgeIsAllowed
  <2>3. AskOf' = AskOf /\ FateOf' = FateOf /\ AnswerOf' = AnswerOf
    BY <2>1 DEF AskOf, FateOf, AnswerOf, Fate, Answer, KeyOf, NamespacedKey
  <2>4. Contract!Defer(c)
    BY <2>2, <2>3 DEF Contract!Defer
  <2> QED BY <2>4 DEF Contract!Next
<1>6. CASE BeginClaim(c)
  <2>1. /\ pc[c] = "begin" /\ PurgeLocked[KeyOf(c)] = None
        /\ entries' = [PurgeLocked EXCEPT ![KeyOf(c)] = c]
        /\ entry' = [entry EXCEPT ![c] = [Blank EXCEPT !.pending = TRUE]]
        /\ claimedAt' = [claimedAt EXCEPT ![c] = now]
        /\ UNCHANGED <<req, reply>>
    BY <1>6 DEF BeginClaim
  <2>2. /\ Contract!Open(c)
        /\ AskOf[c] = [key |-> KeyOf(c), params |-> req[c].params]
    BY <2>1, AskingIsOpen
  <2>3. AskOf[c].key = KeyOf(c) /\ PurgeLocked \in Contract!MayRelease(entries)
    BY <2>2, PurgeIsAllowed
  <2>4. \E g \in Contract!MayRelease(entries) :
          g[AskOf[c].key] = None /\ entries' = [g EXCEPT ![AskOf[c].key] = c]
    BY <2>1, <2>3, Zenon
  <2>5. AskOf' = AskOf /\ AnswerOf' = AnswerOf
    BY <2>1 DEF AskOf, AnswerOf, Answer, KeyOf, NamespacedKey
  <2>6. /\ claimedAt'[c] # 0 /\ entry'[c].pending
        /\ \A e \in Calls \ {c} : claimedAt'[e] = claimedAt[e] /\ entry'[e] = entry[e]
    BY <2>1 DEF IndInv, TypeOK, Blank
  <2>7. Fate(c)' = "running" /\ \A e \in Calls \ {c} : Fate(e)' = Fate(e)
    BY <2>6 DEF Fate
  <2>8. FateOf' = [FateOf EXCEPT ![c] = "running"]
    BY <2>7 DEF FateOf
  <2>9. Contract!Execute(c)
    BY <2>2, <2>4, <2>5, <2>8 DEF Contract!Execute
  <2> QED BY <2>9 DEF Contract!Next
<1> QED BY <1>1, <1>2, <1>3, <1>4, <1>5, <1>6 DEF Begin, Wake

\* complete settles the owner's execution.
LEMMA CompleteImplements ==
  ASSUME IndInv, TruthInv, NEW c \in Calls, Complete(c)
  PROVE  Contract!Next
<1>1. /\ claimedAt[c] # 0 /\ finishedAt[c] = 0 /\ UNCHANGED <<req, entries, claimedAt>>
  BY DEF Complete, IndInv, StageInv
<1>2. entry[c].pending
  BY <1>1 DEF IndInv, ClaimInv
<1>3. PICK formatted \in BOOLEAN :
        LET class == ClassOf(svc[c], formatted)
        IN  /\ Return(c, Reply("own", c, class))
            /\ entry' = [entry EXCEPT ![c] =
                          [pending |-> FALSE, outcome |-> class,
                           expires |-> IF Known(class) THEN now + TTL ELSE 0]]
            /\ finishedAt' = [finishedAt EXCEPT ![c] = now]
  BY CompleteOwn
<1>4. /\ ~entry'[c].pending
      /\ \A e \in Calls \ {c} : entry'[e] = entry[e]
  BY <1>3 DEF IndInv, TypeOK
<1>5. /\ reply'[c].kind = "own" /\ reply'[c].of = c
      /\ \A e \in Calls \ {c} : reply'[e] = reply[e]
  BY <1>3 DEF Return, Reply, IndInv, TypeOK
<1>6. AskOf' = AskOf
  BY <1>1 DEF AskOf, KeyOf, NamespacedKey
<1>7. AnswerOf' = [AnswerOf EXCEPT ![c] = c]
  BY <1>5 DEF AnswerOf, Answer
<1>8. /\ Fate(c) = "running" /\ Fate(c)' \in {"known", "uncertain"}
      /\ \A e \in Calls \ {c} : Fate(e)' = Fate(e)
  BY <1>1, <1>2, <1>4 DEF Fate
<1>9. PICK f \in {"known", "uncertain"} : FateOf' = [FateOf EXCEPT ![c] = f]
  BY <1>8 DEF FateOf
<1>10. FateOf[c] = "running"
  BY <1>8 DEF FateOf
<1>11. Contract!Settle(c)
  BY <1>1, <1>6, <1>7, <1>9, <1>10 DEF Contract!Settle
<1> QED BY <1>11 DEF Contract!Next

\* A keyed request is an Ask; a denied one never reaches the cache.
LEMMA RequestImplements ==
  ASSUME IndInv, TruthInv, NEW c \in Calls, NEW r \in Requests, Accept(c, r)
  PROVE  Contract!Next
<1>1. /\ req[c] = NoRequest /\ req'[c] = r /\ \A d \in Calls \ {c} : req'[d] = req[d]
      /\ UNCHANGED <<entries, entry, claimedAt, reply>>
  BY DEF Accept, IndInv, TypeOK, StageInv
<1>2. FateOf' = FateOf /\ AnswerOf' = AnswerOf
  BY <1>1 DEF FateOf, AnswerOf, Fate, Answer
<1>3. AskOf[c] = None
  BY <1>1 DEF AskOf
<1> DEFINE q == [key |-> <<r.tool, r.key>>, params |-> r.params]
<1>4. r # NoRequest /\ q \in Contract!Requests
  BY DEF Requests, NoRequest, Tools, NsKeys, Contract!Requests
<1>5. AskOf' = [AskOf EXCEPT ![c] = q]
  <2>1. AskOf'[c] = q
    BY <1>1, <1>4 DEF AskOf, KeyOf, NamespacedKey
  <2>2. ASSUME NEW d \in Calls \ {c} PROVE AskOf'[d] = AskOf[d]
    BY <1>1 DEF AskOf, KeyOf, NamespacedKey
  <2>3. AskOf' = [d \in Calls |-> AskOf'[d]] /\ AskOf = [d \in Calls |-> AskOf[d]]
    BY DEF AskOf
  <2> HIDE DEF q
  <2> QED BY <2>1, <2>2, <2>3
<1> HIDE DEF q
<1>6. Contract!Ask(c)
  BY <1>1, <1>2, <1>3, <1>4, <1>5 DEF Contract!Ask
<1> QED BY <1>6 DEF Contract!Next

\* The cache with its clock, its purges, its waiters and its bounded map is an
\* implementation of the contract of OnceContract.
THEOREM CacheImplementsContract == Spec => ImplementsContract
<1>1. Init => Contract!Init
  <2> SUFFICES ASSUME Init PROVE Contract!Init
    OBVIOUS
  <2>1. AskOf = [c \in Calls |-> None]
    BY DEF Init, AskOf
  <2>2. FateOf = [c \in Calls |-> "none"]
    BY DEF Init, FateOf, Fate
  <2>3. AnswerOf = [c \in Calls |-> None]
    BY DEF Init, AnswerOf, Answer, NoReply
  <2> QED BY <2>1, <2>2, <2>3 DEF Init, Contract!Init
<1>2. Init => TruthInv
  BY DEF Init, TruthInv, TruthOf, Blank, NoReply
<1>3. ASSUME IndInv, TruthInv, [Next]_vars PROVE [Contract!Next]_(Contract!vars)
  <2>1. ASSUME NEW c \in Calls, UpdateEvent(c) \/ UpdateContact(c) PROVE Contract!Next
    <3>1. PICK t \in Tools, k \in CallerKeys, p \in Params :
             Accept(c, [tool |-> t, key |-> k, params |-> p])
      BY <2>1 DEF UpdateEvent, UpdateContact, Tools
    <3>2. [tool |-> t, key |-> k, params |-> p] \in Requests
      BY DEF Requests
    <3> QED BY <1>3, <3>1, <3>2, RequestImplements
  <2>2. ASSUME NEW c \in Calls, Deny(c) PROVE UNCHANGED Contract!vars
    <3>1. /\ reply[c] = NoReply /\ reply'[c].kind = "denied"
          /\ \A d \in Calls \ {c} : reply'[d] = reply[d]
          /\ UNCHANGED <<req, entries, entry, claimedAt>>
      BY <1>3, <2>2 DEF Deny, Reply, IndInv, TypeOK, TruthInv, TruthOf
    <3>2. AskOf' = AskOf /\ FateOf' = FateOf
      BY <3>1 DEF AskOf, FateOf, Fate, KeyOf, NamespacedKey
    <3>3. AnswerOf' = AnswerOf
      BY <3>1 DEF AnswerOf, Answer, NoReply
    <3> QED BY <3>1, <3>2, <3>3 DEF Contract!vars
  <2>3. ASSUME NEW c \in Calls,
               \/ \E r \in ServiceResults : ServiceReturn(c, r)
               \/ CancelContext(c) \/ LateApply(c)
        PROVE  UNCHANGED Contract!vars
    BY <2>3, Invisible DEF ServiceReturn, CancelContext, LateApply
  <2>4. CASE Tick \/ UNCHANGED vars
    BY <2>4, Invisible DEF Tick, vars
  <2> QED BY <1>3, <2>1, <2>2, <2>3, <2>4, BeginImplements, CompleteImplements DEF Next
<1> QED BY <1>1, <1>2, <1>3, InitHolds, NextKeeps, TruthKept, PTL
        DEF Spec, ImplementsContract, Contract!Spec
=============================================================================
