------------------------- MODULE CalendarWriteProofs ------------------------
(***************************************************************************)
(* Proofs about CalendarWrite, for any number of calls, events, resources, *)
(* cached locations and versions.                                          *)
(*                                                                         *)
(* That a write replaces the version its call has read cannot be seen in   *)
(* one step: If-Match compares the resource with the caller's ETag, which  *)
(* may be older than what was read.  ReadInv carries the read forward: at  *)
(* any later time the resource is gone, or still what was read, or newer   *)
(* than both what was read and what the caller named.  So the condition    *)
(* can hold only in the second case.                                       *)
(***************************************************************************)
EXTENDS CalendarWrite, TLAPS

\* Versions are handed out in order: whatever the collection holds, a call has
\* read or a caller names is not newer than the clock.
ClockInv ==
  /\ \A h \in Hrefs : store[h] # None => store[h].ver <= clock
  /\ \A c \in Calls :
       /\ req[c].etag # None => req[c].etag <= clock
       /\ found[c] # None => found[c] <= clock

\* Where a call is determines its request, its path and what it has read.
StageInv ==
  \A c \in Calls :
    /\ pc[c] \notin {"idle", "done"} => req[c].op \in Ops /\ req[c].uid \in Targets
    /\ pc[c] \in {"exists", "put"} => req[c].op = "create" /\ path[c] \in Hrefs
    /\ pc[c] \in {"cached", "direct", "report", "reget", "modify"} =>
         req[c].op # "create"
    /\ pc[c] \in {"cached", "reget"} => path[c] \in Hrefs
    /\ pc[c] \in {"idle", "exists", "put", "cached", "direct", "report", "reget"} =>
         found[c] = None
    /\ pc[c] = "modify" => found[c] # None
    /\ found[c] # None => path[c] \in Hrefs

\* What is on the wire, and under which condition.
ConditionInv ==
  \A c \in Calls :
    /\ pc[c] \notin {"sent", "done"} => wire[c] = "none"
    /\ pc[c] = "sent" => wire[c] # "none"
    /\ applied[c] <=> wire[c] = "executed"
    /\ wire[c] # "none" =>
         /\ path[c] \in Hrefs /\ req[c].uid \in Targets /\ req[c].op \in Ops
         /\ req[c].op = "create" => match[c] = NoneMatch
         /\ req[c].op # "create" =>
              /\ found[c] # None
              /\ match[c] = IF req[c].etag # None THEN req[c].etag ELSE found[c]

\* A definite status tells what became of the request.
StatusInv ==
  \A c \in Calls :
    /\ status[c] = "2xx" => wire[c] = "executed"
    /\ status[c] \in {"412", "404", "429", "4xx"} => wire[c] = "dropped"
    /\ pc[c] # "done" => reply[c] = "none"

\* What a call has read is still there, or gone, or replaced by something newer
\* than what was read and than what the caller named.
ReadInv ==
  \A c \in Calls : found[c] # None /\ store[path[c]] # None =>
    \/ store[path[c]].uid = req[c].uid /\ store[path[c]].ver = found[c]
    \/ /\ store[path[c]].ver > found[c]
       /\ req[c].etag # None => store[path[c]].ver > req[c].etag

IndInv ==
  /\ TypeOK
  /\ ClockInv
  /\ StageInv
  /\ ConditionInv
  /\ StatusInv
  /\ ReadInv
  /\ ReplacesWhatItRead
  /\ ReplyIsDefinite

-----------------------------------------------------------------------------
(* What the steps of a call have in common. *)

\* The location cache only ever holds paths of the collection.
LEMMA LocationsType ==
  ASSUME TypeOK, NEW u \in Targets, NEW h \in Hrefs, PutLocation(u, h) \/ EvictLocation(u)
  PROVE  locations' \in [Targets -> Hrefs \cup {None}]
<1>1. CASE EvictLocation(u)
  BY <1>1 DEF EvictLocation, TypeOK
<1>2. CASE PutLocation(u, h)
  BY <1>2 DEF PutLocation, TypeOK
<1> QED BY <1>1, <1>2

\* A call that has sent nothing may return anything but success.
LEMMA ReturnUnsent ==
  ASSUME IndInv, NEW c \in Calls, pc[c] \notin {"sent", "done"},
         NEW r \in {"conflict", "not_found", "error", "concurrent_modification",
                    "dry_run", "nothing_to_do"},
         Return(c, r),
         locations' \in [Targets -> Hrefs \cup {None}],
         UNCHANGED <<server, req, path, found, match, write>>
  PROVE  IndInv'
<1> USE DEF IndInv, Return, Goto, write, server
<1>1. TypeOK'
  BY DEF TypeOK
<1>2. ClockInv' /\ StageInv' /\ ReadInv'
  BY DEF TypeOK, ClockInv, StageInv, ReadInv
<1>3. ConditionInv' /\ StatusInv'
  BY DEF TypeOK, ConditionInv, StatusInv
<1>4. ReplacesWhatItRead' /\ ReplyIsDefinite'
  BY DEF TypeOK, ConditionInv, ReplacesWhatItRead, ReplyIsDefinite
<1> QED BY <1>1, <1>2, <1>3, <1>4

\* A call that goes on to another step of its lookup, or to the PUT of a create.
LEMMA SearchOn ==
  ASSUME IndInv, NEW c \in Calls,
         NEW h \in Hrefs \cup {None}, path' = [path EXCEPT ![c] = h],
         \/ /\ pc[c] \in {"cached", "direct", "report"}
            /\ \/ Goto(c, "direct") \/ Goto(c, "report")
               \/ Goto(c, "reget") /\ h \in Hrefs
         \/ pc[c] = "exists" /\ Goto(c, "put") /\ h \in Hrefs,
         locations' \in [Targets -> Hrefs \cup {None}],
         UNCHANGED <<server, req, found, match, write, reply>>
  PROVE  IndInv'
<1> USE DEF IndInv, Goto, write, server
<1>1. TypeOK'
  BY DEF TypeOK
<1>2. found[c] = None /\ wire[c] = "none" /\ ~applied[c]
  BY DEF StageInv, ConditionInv
<1>3. StageInv'
  BY <1>2 DEF TypeOK, StageInv
<1>4. ClockInv' /\ ReadInv'
  BY <1>2 DEF TypeOK, ClockInv, ReadInv
<1>5. ConditionInv' /\ StatusInv'
  BY <1>2 DEF TypeOK, ConditionInv, StatusInv
<1>6. ReplacesWhatItRead' /\ ReplyIsDefinite'
  BY <1>2 DEF TypeOK, ReplacesWhatItRead, ReplyIsDefinite
<1> QED BY <1>1, <1>3, <1>4, <1>5, <1>6

\* The full object is read: from here on its version is the one to replace.
LEMMA FoundKeeps ==
  ASSUME IndInv, NEW c \in Calls, NEW h \in Hrefs,
         pc[c] \in {"cached", "direct", "reget"}, Matches(c, h), Found(c, h),
         locations' \in [Targets -> Hrefs \cup {None}],
         UNCHANGED <<server, req, match, write, reply>>
  PROVE  IndInv'
<1> USE DEF IndInv, Found, Goto, write, server
<1>1. /\ store[h] \in Objects /\ store[h].uid = req[c].uid
      /\ store[h].ver \in Versions /\ store[h].ver <= clock
      /\ store[h].ver # None
  BY ConstantsAssumption DEF TypeOK, Matches, Objects, Versions, ClockInv
<1>2. found'[c] = store[h].ver /\ path'[c] = h
  BY DEF TypeOK
<1>3. \A d \in Calls \ {c} : found'[d] = found[d] /\ path'[d] = path[d] /\ pc'[d] = pc[d]
  BY DEF TypeOK
<1>4. wire[c] = "none" /\ ~applied[c]
  BY DEF ConditionInv
<1>5. TypeOK'
  BY <1>1 DEF TypeOK
<1>6. ClockInv'
  BY <1>1, <1>2, <1>3 DEF ClockInv
<1>7. StageInv'
  BY <1>1, <1>2, <1>3 DEF TypeOK, StageInv
<1>8. ConditionInv' /\ StatusInv'
  BY <1>2, <1>3, <1>4 DEF TypeOK, ConditionInv, StatusInv
<1>9. ReadInv'
  BY <1>1, <1>2, <1>3 DEF ReadInv
<1>10. ReplacesWhatItRead' /\ ReplyIsDefinite'
  BY <1>3, <1>4 DEF TypeOK, ReplacesWhatItRead, ReplyIsDefinite
<1> QED BY <1>5, <1>6, <1>7, <1>8, <1>9, <1>10

\* A write goes out, with If-None-Match for a create and otherwise with the
\* caller's ETag or the one that was read.
LEMMA SendKeeps ==
  ASSUME IndInv, NEW c \in Calls,
         NEW e \in Versions \cup {NoneMatch}, Send(c, e),
         \/ pc[c] = "put" /\ e = NoneMatch
         \/ /\ pc[c] = "modify"
            /\ e = IF req[c].etag # None THEN req[c].etag ELSE found[c],
         UNCHANGED <<server, locations, req, path, found, status, applied, replaced,
                     reply>>
  PROVE  IndInv'
<1> USE DEF IndInv, Send, Goto, server
<1>1. TypeOK'
  BY DEF TypeOK, Conditions
<1>2. wire[c] = "none" /\ ~applied[c]
  BY DEF ConditionInv
<1>3. ClockInv' /\ StageInv' /\ ReadInv'
  BY DEF TypeOK, ClockInv, StageInv, ReadInv
<1>4. ConditionInv'
  BY <1>2 DEF TypeOK, StageInv, ConditionInv
<1>5. StatusInv'
  BY <1>2 DEF TypeOK, StatusInv
<1>6. ReplacesWhatItRead' /\ ReplyIsDefinite'
  BY <1>2 DEF TypeOK, StatusInv, ReplacesWhatItRead, ReplyIsDefinite
<1> QED BY <1>1, <1>3, <1>4, <1>5, <1>6

-----------------------------------------------------------------------------
(* One lemma per group of steps. *)

\* The requests come in.
LEMMA RequestKeeps ==
  ASSUME IndInv, NEW c \in Calls, NEW u \in Targets,
         \/ \E generated \in BOOLEAN : CreateEvent(c, u, generated)
         \/ \E e \in (1..clock) \cup {None} :
              \/ UpdateEvent(c, u, e)
              \/ \E o \in Ops, dry \in BOOLEAN : DeleteEvent(c, u, e, o, dry)
  PROVE  IndInv'
<1> USE DEF IndInv, Goto, write, server
<1>1. ASSUME NEW r \in [op : Ops, uid : Targets, etag : Versions \cup {None}, dry : BOOLEAN],
             NEW h \in Hrefs \cup {None}, NEW where,
             pc[c] = "idle", r.etag # None => r.etag <= clock,
             IF r.op = "create" THEN where \in {"exists", "put"} /\ h \in Hrefs
             ELSE where = "direct" \/ (where = "cached" /\ h \in Hrefs),
             req' = [req EXCEPT ![c] = r],
             path' = [path EXCEPT ![c] = h],
             Goto(c, where),
             UNCHANGED <<server, locations, found, match, write, reply>>
      PROVE  IndInv'
  <2>1. TypeOK'
    BY <1>1 DEF TypeOK
  <2>2. found[c] = None /\ wire[c] = "none" /\ ~applied[c] /\ reply[c] = "none"
    BY <1>1 DEF StageInv, ConditionInv, StatusInv
  <2>3. \A d \in Calls \ {c} : req'[d] = req[d] /\ path'[d] = path[d] /\ pc'[d] = pc[d]
    BY <1>1 DEF TypeOK
  <2>4. req'[c] = r /\ path'[c] = h /\ pc'[c] = where
    BY <1>1 DEF TypeOK
  <2>5. ClockInv' /\ ReadInv'
    BY <1>1, <2>2, <2>3, <2>4 DEF ClockInv, ReadInv
  <2>6. StageInv'
    BY <1>1, <2>2, <2>3, <2>4 DEF StageInv
  <2>7. ConditionInv' /\ StatusInv'
    BY <1>1, <2>2, <2>3, <2>4 DEF ConditionInv, StatusInv
  <2>8. ReplacesWhatItRead' /\ ReplyIsDefinite'
    BY <1>1, <2>2, <2>3 DEF ReplacesWhatItRead, ReplyIsDefinite
  <2> QED BY <2>1, <2>5, <2>6, <2>7, <2>8
<1>2. \A e \in (1..clock) \cup {None} : e \in Versions \cup {None} /\ (e # None => e <= clock)
  BY ConstantsAssumption DEF TypeOK, Versions
<1>3. ASSUME NEW generated \in BOOLEAN, CreateEvent(c, u, generated)
      PROVE  IndInv'
  <2> DEFINE r == [NoRequest EXCEPT !.op = "create", !.uid = u]
  <2>1. /\ r \in [op : Ops, uid : Targets, etag : Versions \cup {None}, dry : BOOLEAN]
        /\ r.op = "create" /\ r.etag = None
    BY DEF NoRequest, Ops
  <2>2. DirectPath[u] \in Hrefs
    BY ConstantsAssumption
  <2>3. /\ pc[c] = "idle"
        /\ req' = [req EXCEPT ![c] = r]
        /\ path' = [path EXCEPT ![c] = DirectPath[u]]
        /\ Goto(c, IF generated THEN "put" ELSE "exists")
        /\ UNCHANGED <<server, locations, found, match, write, reply>>
    BY <1>3 DEF CreateEvent
  <2> HIDE DEF r
  <2> QED BY <1>1, <2>1, <2>2, <2>3
<1>4. ASSUME NEW e \in (1..clock) \cup {None}, NEW o \in {"update", "delete", "delete_occurrence"},
             NEW dry \in BOOLEAN,
             Locate(c, [op |-> o, uid |-> u, etag |-> e, dry |-> dry])
      PROVE  IndInv'
  <2> DEFINE r == [op |-> o, uid |-> u, etag |-> e, dry |-> dry]
  <2>1. r \in [op : Ops, uid : Targets, etag : Versions \cup {None}, dry : BOOLEAN]
    BY <1>2 DEF Ops
  <2>2. /\ r.uid = u /\ r.op # "create"
        /\ r.etag # None => r.etag <= clock
        /\ locations[u] \in Hrefs \cup {None}
    BY <1>2 DEF TypeOK
  <2>3. /\ pc[c] = "idle"
        /\ req' = [req EXCEPT ![c] = r]
        /\ path' = [path EXCEPT ![c] = locations[u]]
        /\ Goto(c, IF locations[u] = None THEN "direct" ELSE "cached")
        /\ UNCHANGED <<server, locations, found, match, write, reply>>
    BY <1>4 DEF Locate
  <2> HIDE DEF r
  <2>4. CASE locations[u] = None
    BY <1>1, <2>1, <2>2, <2>3, <2>4
  <2>5. CASE locations[u] # None
    BY <1>1, <2>1, <2>2, <2>3, <2>5
  <2> QED BY <2>4, <2>5
<1> QED BY <1>3, <1>4 DEF UpdateEvent, DeleteEvent

\* findEventByUID.
LEMMA FindKeeps ==
  ASSUME IndInv, NEW c \in Calls, Find(c)
  PROVE  IndInv'
<1> USE DEF IndInv
<1>1. CASE GetCached(c)
  BY <1>1, FoundKeeps DEF GetCached, StageInv, TypeOK
<1>2. CASE GetCachedOther(c)
  <2>1. req[c].uid \in Targets /\ path[c] \in Hrefs
    BY <1>2 DEF GetCachedOther, StageInv
  <2> QED BY <1>2, <2>1, LocationsType, ReturnUnsent DEF GetCachedOther
<1>3. CASE GetCachedGone(c)
  <2>1. req[c].uid \in Targets /\ path[c] \in Hrefs
    BY <1>3 DEF GetCachedGone, StageInv
  <2>2. path' = [path EXCEPT ![c] = path[c]]
    BY <1>3 DEF GetCachedGone, TypeOK
  <2> QED BY <1>3, <2>1, <2>2, LocationsType, SearchOn DEF GetCachedGone
<1>4. CASE GetDirect(c)
  <2> DEFINE h == DirectPath[req[c].uid]
  <2>1. req[c].uid \in Targets /\ h \in Hrefs
    BY <1>4, ConstantsAssumption DEF GetDirect, StageInv
  <2>2. CASE Matches(c, h) /\ Found(c, h) /\ PutLocation(req[c].uid, h) /\ UNCHANGED reply
    BY <1>4, <2>1, <2>2, LocationsType, FoundKeeps DEF GetDirect
  <2>3. CASE Return(c, "error") /\ UNCHANGED <<locations, path, found>>
    BY <1>4, <2>3, ReturnUnsent DEF GetDirect, TypeOK
  <2>4. CASE Goto(c, "report") /\ UNCHANGED <<locations, path, found, reply>>
    <3>1. path' = [path EXCEPT ![c] = path[c]] /\ path[c] \in Hrefs \cup {None}
      BY <2>4 DEF TypeOK
    <3> QED BY <1>4, <2>4, <3>1, SearchOn DEF GetDirect, TypeOK
  <2> QED BY <1>4, <2>2, <2>3, <2>4 DEF GetDirect
<1>5. CASE Report(c)
  <2>1. ASSUME NEW h \in Hrefs, path' = [path EXCEPT ![c] = h], Goto(c, "reget"),
               UNCHANGED reply
        PROVE  IndInv'
    BY <1>5, <2>1, SearchOn DEF Report, TypeOK
  <2>2. CASE Return(c, "not_found") /\ UNCHANGED path
    BY <1>5, <2>2, ReturnUnsent DEF Report, TypeOK
  <2> QED BY <1>5, <2>1, <2>2 DEF Report
<1>6. CASE Reget(c)
  <2>1. req[c].uid \in Targets /\ path[c] \in Hrefs
    BY <1>6 DEF Reget, StageInv
  <2>2. CASE Matches(c, path[c])
    BY <1>6, <2>1, <2>2, LocationsType, FoundKeeps DEF Reget
  <2>3. CASE ~Matches(c, path[c])
    BY <1>6, <2>3, ReturnUnsent DEF Reget, TypeOK
  <2> QED BY <2>2, <2>3
<1> QED BY <1>1, <1>2, <1>3, <1>4, <1>5, <1>6 DEF Find

\* From the object to the write.
LEMMA ModifyKeeps ==
  ASSUME IndInv, NEW c \in Calls,
         \/ Deny(c) \/ ReadFails(c) \/ ModifyFails(c) \/ Modify(c)
         \/ AlreadyExcluded(c) \/ CreateExists(c) \/ CreatePut(c)
  PROVE  IndInv'
<1> USE DEF IndInv
<1>1. CASE Deny(c) \/ ReadFails(c) \/ ModifyFails(c) \/ AlreadyExcluded(c)
  BY <1>1, ReturnUnsent DEF Deny, ReadFails, ModifyFails, AlreadyExcluded, TypeOK
<1>2. CASE CreateExists(c)
  <2>1. CASE Return(c, "conflict")
    BY <1>2, <2>1, ReturnUnsent DEF CreateExists, TypeOK
  <2>2. CASE Goto(c, "put") /\ UNCHANGED reply
    <3>1. path' = [path EXCEPT ![c] = path[c]] /\ path[c] \in Hrefs
      BY <1>2 DEF CreateExists, TypeOK, StageInv
    <3> QED BY <1>2, <2>2, <3>1, SearchOn DEF CreateExists, TypeOK
  <2> QED BY <1>2, <2>1, <2>2 DEF CreateExists
<1>3. CASE CreatePut(c)
  BY <1>3, SendKeeps DEF CreatePut
<1>4. CASE Modify(c)
  <2>1. PICK given \in {found[c], None} :
          \/ ETagOf(c, given) = None /\ Return(c, "concurrent_modification") /\ UNCHANGED <<match, wire>>
          \/ Return(c, "dry_run") /\ UNCHANGED <<match, wire>>
          \/ ETagOf(c, given) # None /\ Send(c, ETagOf(c, given)) /\ UNCHANGED reply
    BY <1>4 DEF Modify
  <2>2. /\ pc[c] = "modify"
        /\ UNCHANGED <<server, locations, req, path, found, status, applied, replaced>>
    BY <1>4 DEF Modify
  <2>3. CASE Return(c, "concurrent_modification") /\ UNCHANGED <<match, wire>>
    BY <2>2, <2>3, ReturnUnsent DEF TypeOK, write
  <2>4. CASE Return(c, "dry_run") /\ UNCHANGED <<match, wire>>
    BY <2>2, <2>4, ReturnUnsent DEF TypeOK, write
  <2>5. CASE ETagOf(c, given) # None /\ Send(c, ETagOf(c, given)) /\ UNCHANGED reply
    <3>1. /\ ETagOf(c, given) = IF req[c].etag # None THEN req[c].etag ELSE found[c]
          /\ ETagOf(c, given) \in Versions
      BY <2>5 DEF ETagOf, TypeOK
    <3> QED BY <2>2, <2>5, <3>1, SendKeeps
  <2> QED BY <2>1, <2>3, <2>4, <2>5
<1> QED BY <1>1, <1>2, <1>3, <1>4

\* The answer comes back, or is lost.
LEMMA AnswerKeeps ==
  ASSUME IndInv, NEW c \in Calls, Receive(c) \/ Lose(c)
  PROVE  IndInv'
<1> USE DEF IndInv, Return, Goto, write, server
<1>1. CASE Receive(c)
  <2> DEFINE r == Classify(req[c].op, status[c])
  <2>1. /\ pc[c] = "sent" /\ status[c] # "none" /\ wire[c] # "none"
        /\ req[c].uid \in Targets /\ path[c] \in Hrefs
    BY <1>1 DEF Receive, ConditionInv
  <2>2. /\ r \in {"success", "conflict", "not_found", "error", "concurrent_modification",
                  "rate_limited", "outcome_unknown"}
        /\ r = "success" => wire[c] = "executed" \/ (req[c].op = "delete" /\ status[c] = "404")
        /\ r \notin {"success", "outcome_unknown"} => wire[c] = "dropped"
    BY <2>1 DEF Classify, StatusInv, TypeOK
  <2>3. locations' \in [Targets -> Hrefs \cup {None}]
    BY <1>1, <2>1, LocationsType DEF Receive, TypeOK
  <2>4. Return(c, r) /\ UNCHANGED <<store, clock, req, path, found, match, wire, status,
                                    applied, replaced>>
    BY <1>1 DEF Receive
  <2> HIDE DEF r
  <2>5. TypeOK'
    BY <2>2, <2>3, <2>4 DEF TypeOK
  <2>6. ClockInv' /\ StageInv' /\ ReadInv'
    BY <2>1, <2>4 DEF TypeOK, ClockInv, StageInv, ReadInv
  <2>7. ConditionInv' /\ StatusInv'
    BY <2>1, <2>4 DEF TypeOK, ConditionInv, StatusInv
  <2>8. ReplacesWhatItRead' /\ ReplyIsDefinite'
    BY <2>2, <2>4 DEF TypeOK, ConditionInv, ReplacesWhatItRead, ReplyIsDefinite
  <2> QED BY <2>5, <2>6, <2>7, <2>8
<1>2. CASE Lose(c)
  <2>1. /\ pc[c] = "sent"
        /\ Return(c, "outcome_unknown")
        /\ status' = [status EXCEPT ![c] = "none"]
        /\ UNCHANGED <<store, clock, locations, req, path, found, match, wire, applied,
                       replaced>>
    BY <1>2 DEF Lose, Classify
  <2>2. TypeOK'
    BY <2>1 DEF TypeOK
  <2>3. ClockInv' /\ StageInv' /\ ReadInv'
    BY <2>1 DEF TypeOK, ClockInv, StageInv, ReadInv
  <2>4. ConditionInv' /\ StatusInv'
    BY <2>1 DEF TypeOK, ConditionInv, StatusInv
  <2>5. ReplacesWhatItRead' /\ ReplyIsDefinite'
    BY <2>1 DEF TypeOK, StatusInv, ReplacesWhatItRead, ReplyIsDefinite
  <2> QED BY <2>2, <2>3, <2>4, <2>5
<1> QED BY <1>1, <1>2

\* The server or a gateway answers without executing anything.
LEMMA RefuseKeeps ==
  ASSUME IndInv, NEW c \in Calls,
         Gateway(c) \/ \E s \in {"412", "404", "429", "4xx"} : Refuse(c, s)
  PROVE  IndInv'
<1> USE DEF IndInv, server
<1>1. CASE Gateway(c)
  <2>1. TypeOK'
    BY <1>1 DEF Gateway, TypeOK
  <2>2. ClockInv' /\ StageInv' /\ ReadInv'
    BY <1>1 DEF Gateway, ClockInv, StageInv, ReadInv
  <2>3. ConditionInv' /\ StatusInv'
    BY <1>1 DEF Gateway, TypeOK, ConditionInv, StatusInv
  <2>4. ReplacesWhatItRead' /\ ReplyIsDefinite'
    BY <1>1 DEF Gateway, TypeOK, StatusInv, ReplacesWhatItRead, ReplyIsDefinite
  <2> QED BY <2>1, <2>2, <2>3, <2>4
<1>2. ASSUME NEW s \in {"412", "404", "429", "4xx"}, Refuse(c, s)
      PROVE  IndInv'
  <2>1. TypeOK'
    BY <1>2 DEF Refuse, Respond, TypeOK
  <2>2. ClockInv' /\ StageInv' /\ ReadInv'
    BY <1>2 DEF Refuse, ClockInv, StageInv, ReadInv
  <2>3. ConditionInv' /\ StatusInv'
    BY <1>2 DEF Refuse, Respond, TypeOK, ConditionInv, StatusInv
  <2>4. ReplacesWhatItRead' /\ ReplyIsDefinite'
    BY <1>2 DEF Refuse, Respond, TypeOK, ConditionInv, StatusInv, ReplacesWhatItRead,
       ReplyIsDefinite
  <2> QED BY <2>1, <2>2, <2>3, <2>4
<1> QED BY <1>1, <1>2

\* A store whose changed resources are gone or carry the next version keeps what
\* was read from it in order.
LEMMA NewerStore ==
  ASSUME IndInv, NEW new \in [Hrefs -> Objects \cup {None}],
         clock' \in {clock, clock + 1}, store' = new,
         \A h \in Hrefs : new[h] # None =>
           new[h] = store[h] \/ (new[h].ver = clock + 1 /\ clock' = clock + 1),
         UNCHANGED <<req, path, found>>
  PROVE  ClockInv' /\ ReadInv'
<1> USE DEF IndInv
<1>1. clock \in Nat /\ clock' \in Nat
  BY ConstantsAssumption DEF TypeOK
<1>2. \A h \in Hrefs : store[h] # None => store[h].ver \in Nat
  BY ConstantsAssumption DEF TypeOK, Objects, Versions
<1>3. \A c \in Calls : /\ found[c] # None => found[c] \in Nat /\ path[c] \in Hrefs
                       /\ req[c].etag # None => req[c].etag \in Nat
  BY ConstantsAssumption DEF TypeOK, Versions, StageInv
<1>4. ClockInv'
  BY <1>1, <1>2, <1>3 DEF ClockInv
<1>5. ReadInv'
  <2> SUFFICES ASSUME NEW c \in Calls, found[c] # None, new[path[c]] # None
               PROVE  \/ new[path[c]].uid = req[c].uid /\ new[path[c]].ver = found[c]
                      \/ /\ new[path[c]].ver > found[c]
                         /\ req[c].etag # None => new[path[c]].ver > req[c].etag
    BY DEF ReadInv
  <2>1. CASE new[path[c]] = store[path[c]]
    BY <2>1 DEF ReadInv
  <2>2. CASE new[path[c]].ver = clock + 1
    BY <1>1, <1>3, <2>2 DEF ClockInv
  <2> QED BY <1>3, <2>1, <2>2
<1> QED BY <1>4, <1>5

\* The server executes a write: by ReadInv the condition holds only for the very
\* version that the call has read.
LEMMA ExecuteKeeps ==
  ASSUME IndInv, NEW c \in Calls, Execute(c)
  PROVE  IndInv'
<1> USE DEF IndInv
<1>1. /\ wire[c] = "sent" /\ Precondition(c)
      /\ path[c] \in Hrefs /\ req[c].uid \in Targets /\ req[c].uid \in Uids
      /\ wire' = [wire EXCEPT ![c] = "executed"]
      /\ applied' = [applied EXCEPT ![c] = TRUE]
      /\ replaced' = [replaced EXCEPT ![c] = store[path[c]]]
      /\ Respond(c, "2xx")
      /\ UNCHANGED <<locations, pc, req, path, found, match, reply>>
  BY ConstantsAssumption DEF Execute, ConditionInv
<1>2. /\ clock' \in {clock, clock + 1} /\ clock' \in 0..MaxVersions
      /\ store' \in [Hrefs -> Objects \cup {None}]
      /\ \A h \in Hrefs : store'[h] # None =>
           store'[h] = store[h] \/ (store'[h].ver = clock + 1 /\ clock' = clock + 1)
  <2>1. CASE req[c].op = "delete"
    BY <1>1, <2>1 DEF Execute, TypeOK
  <2>2. CASE req[c].op # "delete"
    <3>1. clock < MaxVersions /\ clock' = clock + 1 /\ clock + 1 \in Versions
      BY <2>2, ConstantsAssumption DEF Execute, TypeOK, Versions
    <3>2. store' = [store EXCEPT ![path[c]] = [uid |-> req[c].uid, ver |-> clock + 1]]
      BY <2>2 DEF Execute
    <3>3. [uid |-> req[c].uid, ver |-> clock + 1] \in Objects
      BY <1>1, <3>1 DEF Objects
    <3> QED BY <1>1, <3>1, <3>2, <3>3, ConstantsAssumption DEF TypeOK, Versions
  <2> QED BY <2>1, <2>2
<1>3. TypeOK'
  BY <1>1, <1>2 DEF TypeOK, Respond
<1>4. ClockInv' /\ ReadInv'
  BY <1>1, <1>2, NewerStore
<1>5. StageInv' /\ ConditionInv' /\ StatusInv'
  BY <1>1 DEF TypeOK, Respond, StageInv, ConditionInv, StatusInv
<1>6. IF req[c].op = "create" THEN store[path[c]] = None
      ELSE /\ store[path[c]] # None
           /\ store[path[c]].uid = req[c].uid
           /\ store[path[c]].ver = found[c]
           /\ req[c].etag \in {None, store[path[c]].ver}
  <2>1. CASE req[c].op = "create"
    BY <1>1, <2>1 DEF ConditionInv, Precondition
  <2>2. CASE req[c].op # "create"
    <3>1. /\ found[c] # None /\ found[c] \in Versions
          /\ match[c] = IF req[c].etag # None THEN req[c].etag ELSE found[c]
          /\ match[c] \in Versions
      BY <1>1, <2>2 DEF ConditionInv, TypeOK
    <3>2. store[path[c]] # None /\ store[path[c]].ver = match[c]
      BY <1>1, <3>1 DEF Precondition
    <3>3. ~(store[path[c]].ver > match[c])
      BY <3>1, <3>2, ConstantsAssumption DEF Versions
    <3> QED BY <2>2, <3>1, <3>2, <3>3 DEF ReadInv
  <2> QED BY <2>1, <2>2
<1>7. ReplacesWhatItRead'
  BY <1>1, <1>6 DEF TypeOK, ReplacesWhatItRead
<1>8. ReplyIsDefinite'
  BY <1>1 DEF TypeOK, Respond, StatusInv, ReplyIsDefinite
<1> QED BY <1>3, <1>4, <1>5, <1>7, <1>8

\* Other clients only ever make resources vanish or become newer.
LEMMA OtherKeeps ==
  ASSUME IndInv,
         \E h \in Hrefs : \/ \E u \in Uids : OtherWrite(h, u)
                          \/ OtherDelete(h)
                          \/ \E g \in Hrefs : OtherMove(g, h)
  PROVE  IndInv'
<1> USE DEF IndInv
<1>1. UNCHANGED <<locations, pc, req, path, found, match, wire, status, applied, replaced, reply>>
  BY DEF OtherWrite, OtherDelete, OtherMove, Other, write
<1>2. /\ clock' \in {clock, clock + 1} /\ clock' \in 0..MaxVersions
      /\ store' \in [Hrefs -> Objects \cup {None}]
      /\ \A h \in Hrefs : store'[h] # None =>
           store'[h] = store[h] \/ (store'[h].ver = clock + 1 /\ clock' = clock + 1)
  <2>1. ASSUME NEW h \in Hrefs, NEW u \in Uids, clock < MaxVersions
        PROVE  /\ clock + 1 \in 0..MaxVersions
               /\ [uid |-> u, ver |-> clock + 1] \in Objects
    BY <2>1, ConstantsAssumption DEF TypeOK, Objects, Versions
  <2>2. ASSUME NEW h \in Hrefs, NEW u \in Uids, OtherWrite(h, u) PROVE <1>2!:
    BY <2>1, <2>2 DEF OtherWrite, Other, TypeOK
  <2>3. ASSUME NEW h \in Hrefs, OtherDelete(h) PROVE <1>2!:
    BY <2>3 DEF OtherDelete, Other, TypeOK
  <2>4. ASSUME NEW g \in Hrefs, NEW h \in Hrefs, OtherMove(g, h) PROVE <1>2!:
    <3>1. store[g].uid \in Uids
      BY <2>4 DEF OtherMove, TypeOK, Objects
    <3> QED BY <2>1, <2>4, <3>1 DEF OtherMove, Other, TypeOK
  <2> QED BY <2>2, <2>3, <2>4
<1>3. TypeOK'
  BY <1>1, <1>2 DEF TypeOK
<1>4. ClockInv' /\ ReadInv'
  BY <1>1, <1>2, NewerStore
<1>5. StageInv' /\ ConditionInv' /\ StatusInv' /\ ReplacesWhatItRead' /\ ReplyIsDefinite'
  BY <1>1 DEF StageInv, ConditionInv, StatusInv, ReplacesWhatItRead, ReplyIsDefinite
<1> QED BY <1>3, <1>4, <1>5

-----------------------------------------------------------------------------
\* Calls that have not begun, on an empty collection or one with one event.
LEMMA InitHolds == Init => IndInv
<1> SUFFICES ASSUME Init PROVE IndInv
  OBVIOUS
<1>1. /\ store \in [Hrefs -> Objects \cup {None}]
      /\ clock \in 0..MaxVersions
      /\ \A h \in Hrefs : store[h] # None => store[h].ver <= clock
  BY ConstantsAssumption DEF Init, Objects, Versions
<1>2. TypeOK
  BY <1>1 DEF Init, TypeOK, NoRequest, Conditions
<1>3. ClockInv
  BY <1>1 DEF Init, ClockInv, NoRequest
<1>4. StageInv /\ ConditionInv /\ StatusInv /\ ReadInv
  BY DEF Init, StageInv, ConditionInv, StatusInv, ReadInv
<1>5. ReplacesWhatItRead /\ ReplyIsDefinite
  BY DEF Init, ReplacesWhatItRead, ReplyIsDefinite
<1> QED BY <1>2, <1>3, <1>4, <1>5 DEF IndInv

\* Every step of a call, of the server and of the other clients keeps it.
LEMMA NextKeeps == IndInv /\ [Next]_vars => IndInv'
<1> SUFFICES ASSUME IndInv, [Next]_vars PROVE IndInv'
  OBVIOUS
<1>1. ASSUME NEW c \in Calls, CallStep(c) PROVE IndInv'
  BY <1>1, FindKeeps, ModifyKeeps, AnswerKeeps DEF CallStep
<1>2. CASE UNCHANGED vars
  BY <1>2 DEF vars, IndInv, TypeOK, ClockInv, StageInv, ConditionInv, StatusInv, ReadInv,
     ReplacesWhatItRead, ReplyIsDefinite
<1> QED BY <1>1, <1>2, RequestKeeps, ExecuteKeeps, RefuseKeeps, OtherKeeps DEF Next

\* The collection, the location cache and the calls keep their types.
THEOREM TypeCorrect == Spec => []TypeOK
<1>1. IndInv => TypeOK
  BY DEF IndInv
<1> QED BY <1>1, InitHolds, NextKeeps, PTL DEF Spec

\* No update is lost and no stranger is touched, for any number of calls and
\* other clients: a write that takes effect replaces the version that its call
\* has read, of the event it is about, and the version the caller named.
THEOREM NoLostUpdate == Spec => []ReplacesWhatItRead
<1>1. IndInv => ReplacesWhatItRead
  BY DEF IndInv
<1> QED BY <1>1, InitHolds, NextKeeps, PTL DEF Spec

\* Whatever is lost, delayed or answered by a gateway, a definite answer is true
\* and stays true.
THEOREM DefiniteReplies == Spec => []ReplyIsDefinite
<1>1. IndInv => ReplyIsDefinite
  BY DEF IndInv
<1> QED BY <1>1, InitHolds, NextKeeps, PTL DEF Spec
=============================================================================
