------------------------- MODULE ContactWriteProofs -------------------------
(***************************************************************************)
(* Proofs about ContactWrite, for any number of calls, contacts, resources *)
(* and versions, and any number of network places, retries and redirects.  *)
(*                                                                         *)
(* ReadInv is the reason why a write replaces what was read, as for        *)
(* calendars; it speaks of the time before the write is executed, because  *)
(* the read-back may go on at another resource.  FreshInv is the reason    *)
(* why a returned ETag is fresh: the server keeps UIDs unique, so that     *)
(* after a write nothing older carries the contact's UID.  The places are  *)
(* counted by the calls that are online; nothing is assumed of Calls.      *)
(***************************************************************************)
EXTENDS ContactWrite, FiniteSetTheorems, TLAPS

\* Versions are handed out in order.
ClockInv ==
  /\ \A h \in Hrefs : store[h] # None => store[h].ver <= clock
  /\ \A c \in Calls :
       /\ req[c].etag # None => req[c].etag <= clock
       /\ found[c] # None => found[c] <= clock
       /\ wrote[c] # None => wrote[c] <= clock

\* Where a call is determines its request, its path and what it has read.
StageInv ==
  \A c \in Calls :
    /\ pc[c] \notin {"idle", "done"} => req[c].op \in Ops /\ req[c].uid \in Targets
    /\ pc[c] \in {"report", "get", "modify"} => req[c].op # "create"
    /\ pc[c] \in {"get", "reget", "modify", "write", "sent"} => path[c] \in Hrefs
    /\ pc[c] \in {"idle", "report", "get"} => found[c] = None
    /\ pc[c] = "modify" => found[c] # None
    /\ pc[c] = "reget" => wire[c] = "executed"
    /\ pc[c] # "done" => reply[c] = NoReply
    /\ found[c] # None => path[c] \in Hrefs
    /\ reply[c].etag # None => reply[c].code = "success"

\* What is on the wire, and under which condition.
ConditionInv ==
  \A c \in Calls :
    /\ pc[c] \in {"idle", "report", "get", "modify", "write"} => wire[c] = "none"
    /\ pc[c] = "sent" => wire[c] # "none"
    /\ wrote[c] # None <=> wire[c] = "executed"
    /\ pc[c] = "write" \/ wire[c] = "sent" =>
         /\ path[c] \in Hrefs /\ req[c].uid \in Targets /\ req[c].op \in Ops
         /\ req[c].op = "create" => match[c] = NoneMatch
         /\ req[c].op # "create" =>
              /\ found[c] # None
              /\ match[c] = IF req[c].etag # None THEN req[c].etag ELSE found[c]

\* A definite status tells what became of the request.
StatusInv ==
  \A c \in Calls :
    /\ status[c] = "2xx" => wire[c] = "executed"
    /\ status[c] \in {"412", "uid", "404", "429", "4xx"} => wire[c] = "dropped"

\* Until the write is executed, what the call has read is still there, or gone, or
\* replaced by something newer than what was read and than what the caller named.
ReadInv ==
  \A c \in Calls :
    found[c] # None /\ wire[c] \in {"none", "sent"} /\ store[path[c]] # None =>
      \/ store[path[c]].uid = req[c].uid /\ store[path[c]].ver = found[c]
      \/ /\ store[path[c]].ver > found[c]
         /\ req[c].etag # None => store[path[c]].ver > req[c].etag

\* After a write nothing older than it carries the UID of its contact.
FreshInv ==
  \A c \in Calls, h \in Hrefs :
    wrote[c] # None /\ store[h] # None /\ store[h].uid = req[c].uid
      => store[h].ver >= wrote[c]

Online == {c \in Calls : online[c]}

\* Places are counted by the calls that are online, and a call that waits for the
\* answer to its write is.
PlaceInv ==
  /\ IsFiniteSet(Online)
  /\ PlaceOnlyOnline
  /\ \A c \in Calls : pc[c] = "sent" => online[c]

Safety == ContactReplacesWhatItRead /\ ContactReplyIsDefinite /\ ReturnedETagIsFresh

IndInv ==
  /\ TypeOK
  /\ PlaceInv
  /\ ClockInv
  /\ StageInv
  /\ ConditionInv
  /\ StatusInv
  /\ ReadInv
  /\ FreshInv
  /\ Safety

-----------------------------------------------------------------------------
(* The network places. *)

\* The counters of the reads and of the places have their types.
CountsTyped ==
  /\ sem \in 0..Slots
  /\ online \in [Calls -> BOOLEAN]
  /\ retries \in [Calls -> 0..(MaxReadAttempts - 1)]
  /\ hops \in [Calls -> 0..MaxRedirects]

\* A step of a call that is not online, and does not go online, leaves the places.
LEMMA PlacesKept ==
  ASSUME IndInv, NEW c \in Calls, NEW where, where # "sent", ~online[c],
         Goto(c, where), UNCHANGED <<sem, online>>
  PROVE  PlaceInv'
<1>1. Online' = Online
  BY DEF Online
<1>2. \A d \in Calls \ {c} : pc'[d] = pc[d]
  BY DEF Goto, IndInv, TypeOK
<1> QED BY <1>1, <1>2 DEF Goto, IndInv, TypeOK, PlaceInv, PlaceOnlyOnline, Reading, Online

\* A call goes online: it takes a place.
LEMMA PlaceTaken ==
  ASSUME IndInv, NEW c \in Calls, NEW where, ~online[c], sem < Slots,
         where \in {"report", "get", "reget", "sent"}, Goto(c, where),
         sem' = sem + 1, online' = [online EXCEPT ![c] = TRUE]
  PROVE  PlaceInv' /\ sem' \in 0..Slots /\ online' \in [Calls -> BOOLEAN]
<1>1. Online' = Online \cup {c} /\ c \notin Online
  BY DEF Online, IndInv, TypeOK
<1>2. IsFiniteSet(Online') /\ Cardinality(Online') = Cardinality(Online) + 1
  BY <1>1, FS_AddElement DEF IndInv, PlaceInv
<1>3. sem' = Cardinality(Online')
  BY <1>2 DEF IndInv, PlaceInv, PlaceOnlyOnline, Online
<1>4. /\ sem' \in 0..Slots
      /\ online' \in [Calls -> BOOLEAN]
  BY ConstantsAssumption DEF IndInv, TypeOK
<1>5. \A d \in Calls : /\ online'[d] => Reading(d)' \/ pc'[d] = "sent"
                       /\ pc'[d] = "sent" => online'[d]
  BY DEF Goto, IndInv, TypeOK, PlaceInv, PlaceOnlyOnline, Reading
<1> QED BY <1>2, <1>3, <1>4, <1>5 DEF PlaceInv, PlaceOnlyOnline, Online

\* An attempt is over: the call that held the place gives it back.
LEMMA PlaceReleased ==
  ASSUME IndInv, NEW c \in Calls, NEW where, online[c], where # "sent",
         Goto(c, where), Release(c)
  PROVE  PlaceInv' /\ sem' \in 0..Slots /\ online' \in [Calls -> BOOLEAN]
<1>1. Online' = Online \ {c} /\ c \in Online
  BY DEF Online, Release, IndInv, TypeOK
<1>2. /\ IsFiniteSet(Online') /\ Cardinality(Online') = Cardinality(Online) - 1
      /\ Cardinality(Online') \in Nat
  BY <1>1, FS_RemoveElement, FS_CardinalityType DEF IndInv, PlaceInv
<1>3. sem' = Cardinality(Online')
  BY <1>2 DEF Release, IndInv, PlaceInv, PlaceOnlyOnline, Online
<1>4. sem' \in 0..Slots
  BY <1>2, <1>3, ConstantsAssumption DEF Release, IndInv, TypeOK
<1>5. online' \in [Calls -> BOOLEAN]
  BY DEF Release, IndInv, TypeOK
<1>6. \A d \in Calls : /\ online'[d] => Reading(d)' \/ pc'[d] = "sent"
                       /\ pc'[d] = "sent" => online'[d]
  BY DEF Goto, Release, IndInv, TypeOK, PlaceInv, PlaceOnlyOnline, Reading
<1> QED BY <1>2, <1>3, <1>4, <1>5, <1>6 DEF PlaceInv, PlaceOnlyOnline, Online

\* The same with the counts of the next read.
LEMMA AttemptOver ==
  ASSUME IndInv, NEW c \in Calls, NEW where, online[c], where # "sent",
         Goto(c, where), Release(c), FreshRead(c) \/ UNCHANGED <<retries, hops>>
  PROVE  PlaceInv' /\ CountsTyped'
<1>1. PlaceInv' /\ sem' \in 0..Slots /\ online' \in [Calls -> BOOLEAN]
  BY PlaceReleased
<1>2. 0 \in 0..(MaxReadAttempts - 1) /\ 0 \in 0..MaxRedirects
  BY ConstantsAssumption
<1>3. retries \in [Calls -> 0..(MaxReadAttempts - 1)] /\ hops \in [Calls -> 0..MaxRedirects]
  BY DEF IndInv, TypeOK
<1>4. retries' \in [Calls -> 0..(MaxReadAttempts - 1)] /\ hops' \in [Calls -> 0..MaxRedirects]
  BY <1>2, <1>3 DEF FreshRead
<1> QED BY <1>1, <1>4 DEF CountsTyped

\* Steps of the server and of other clients do not concern the places.
LEMMA PlacesUntouched ==
  ASSUME IndInv, UNCHANGED <<sem, online, pc, retries, hops>>
  PROVE  PlaceInv' /\ CountsTyped'
<1>1. Online' = Online
  BY DEF Online
<1> QED BY <1>1 DEF IndInv, TypeOK, PlaceInv, PlaceOnlyOnline, Reading, Online, CountsTyped

-----------------------------------------------------------------------------
(* What the steps of a call have in common. *)

\* A call that has sent nothing may return anything but success.
LEMMA ReturnUnsent ==
  ASSUME IndInv, NEW c \in Calls, pc[c] \in {"idle", "report", "get", "modify", "write"},
         NEW r \in {"not_found", "error", "concurrent_modification", "dry_run"},
         Return(c, r, None), CountsTyped', PlaceInv',
         UNCHANGED <<server, req, path, found, match, wire, status, history>>
  PROVE  IndInv'
<1> USE DEF IndInv, Return, Goto, server, history
<1>1. TypeOK'
  BY DEF TypeOK, CountsTyped
<1>2. ClockInv' /\ StageInv' /\ ReadInv' /\ FreshInv'
  BY DEF TypeOK, ClockInv, StageInv, ReadInv, FreshInv
<1>3. ConditionInv' /\ StatusInv'
  BY DEF TypeOK, ConditionInv, StatusInv
<1>4. Safety'
  BY DEF TypeOK, ConditionInv, Safety, ContactReplacesWhatItRead, ContactReplyIsDefinite,
     ReturnedETagIsFresh
<1> QED BY <1>1, <1>2, <1>3, <1>4

\* After the write a call returns success, with an ETag that is not older than it.
LEMMA ReturnWritten ==
  ASSUME IndInv, NEW c \in Calls, pc[c] = "reget",
         NEW e \in Versions \cup {None}, e # None => e >= wrote[c],
         Return(c, "success", e), CountsTyped', PlaceInv',
         UNCHANGED <<server, req, path, found, match, wire, status, history>>
  PROVE  IndInv'
<1> USE DEF IndInv, Return, Goto, server, history
<1>1. TypeOK'
  BY DEF TypeOK, CountsTyped
<1>2. ClockInv' /\ StageInv' /\ ReadInv' /\ FreshInv'
  BY DEF TypeOK, ClockInv, StageInv, ReadInv, FreshInv
<1>3. ConditionInv' /\ StatusInv'
  BY DEF TypeOK, ConditionInv, StatusInv
<1>4. Safety'
  BY DEF TypeOK, StageInv, ConditionInv, Safety, ContactReplacesWhatItRead,
     ContactReplyIsDefinite, ReturnedETagIsFresh
<1> QED BY <1>1, <1>2, <1>3, <1>4

\* A read goes on: another attempt, another resource, or from REPORT to GET.
LEMMA ReadOn ==
  ASSUME IndInv, NEW c \in Calls, Reading(c),
         NEW h \in Hrefs \cup {None}, path' = [path EXCEPT ![c] = h],
         NEW where, Goto(c, where),
         where = pc[c] \/ (pc[c] = "report" /\ where = "get"),
         where # "report" => h \in Hrefs,
         CountsTyped', PlaceInv',
         UNCHANGED <<server, req, found, match, wire, status, history, reply>>
  PROVE  IndInv'
<1> USE DEF IndInv, Goto, server, history
<1>1. TypeOK'
  BY DEF TypeOK, CountsTyped, Reading
<1>2. pc[c] # "reget" => found[c] = None /\ wire[c] = "none"
  BY DEF Reading, StageInv, ConditionInv
<1>3. pc[c] = "reget" => wire[c] = "executed" /\ h \in Hrefs
  BY DEF StageInv
<1>4. \A d \in Calls \ {c} : pc'[d] = pc[d] /\ path'[d] = path[d]
  BY DEF TypeOK
<1>5. pc'[c] = where /\ path'[c] = h
  BY DEF TypeOK
<1>6. ClockInv' /\ FreshInv'
  BY DEF ClockInv, FreshInv
<1>7. StageInv'
  BY <1>2, <1>3, <1>4, <1>5 DEF StageInv, Reading
<1>8. ReadInv'
  BY <1>2, <1>3, <1>4, <1>5 DEF ReadInv, Reading
<1>9. ConditionInv' /\ StatusInv'
  BY <1>2, <1>3, <1>4, <1>5 DEF ConditionInv, StatusInv, Reading
<1>10. Safety'
  BY DEF Safety, ContactReplacesWhatItRead, ContactReplyIsDefinite, ReturnedETagIsFresh
<1> QED BY <1>1, <1>6, <1>7, <1>8, <1>9, <1>10

-----------------------------------------------------------------------------
(* One lemma per group of steps. *)

\* The requests come in.
LEMMA RequestKeeps ==
  ASSUME IndInv, NEW c \in Calls, NEW u \in Targets,
         \/ \E h \in Hrefs : CreateContact(c, u, h)
         \/ \E e \in (1..clock) \cup {None} :
              \/ UpdateContact(c, u, e)
              \/ \E dry \in BOOLEAN : DeleteContact(c, u, e, dry)
  PROVE  IndInv'
<1> USE DEF IndInv, server, history
<1>1. ASSUME NEW r \in [op : Ops, uid : Targets, etag : Versions \cup {None}, dry : BOOLEAN],
             NEW where \in {"write", "report"},
             pc[c] = "idle", r.etag # None => r.etag <= clock,
             req' = [req EXCEPT ![c] = r],
             IF where = "write"
             THEN /\ r.op = "create" /\ match' = [match EXCEPT ![c] = NoneMatch]
                  /\ \E h \in Hrefs : path' = [path EXCEPT ![c] = h]
             ELSE r.op # "create" /\ UNCHANGED <<path, match>>,
             Goto(c, where),
             UNCHANGED <<server, sem, online, retries, hops, found, wire, status, history, reply>>
      PROVE  IndInv'
  <2>1. /\ found[c] = None /\ wire[c] = "none" /\ wrote[c] = None /\ reply[c] = NoReply
        /\ ~online[c]
    BY <1>1 DEF StageInv, ConditionInv, PlaceInv, PlaceOnlyOnline, Reading
  <2>2. PlaceInv'
    BY <1>1, <2>1, PlacesKept
  <2>3. req'[c] = r /\ pc'[c] = where /\ (where = "write" => path'[c] \in Hrefs /\ match'[c] = NoneMatch)
    BY <1>1 DEF Goto, TypeOK
  <2>4. \A d \in Calls \ {c} : /\ req'[d] = req[d] /\ pc'[d] = pc[d]
                               /\ path'[d] = path[d] /\ match'[d] = match[d]
    BY <1>1 DEF Goto, TypeOK
  <2>5. TypeOK'
    BY <1>1 DEF Goto, TypeOK
  <2>6. ClockInv' /\ ReadInv' /\ FreshInv'
    BY <1>1, <2>1, <2>3, <2>4 DEF ClockInv, ReadInv, FreshInv
  <2>7. StageInv'
    BY <1>1, <2>1, <2>3, <2>4 DEF StageInv
  <2>8. ConditionInv' /\ StatusInv'
    BY <1>1, <2>1, <2>3, <2>4 DEF ConditionInv, StatusInv
  <2>9. Safety'
    BY <1>1, <2>1, <2>3, <2>4 DEF Safety, ContactReplacesWhatItRead, ContactReplyIsDefinite,
       ReturnedETagIsFresh, NoReply
  <2> QED BY <2>2, <2>5, <2>6, <2>7, <2>8, <2>9
<1>2. \A e \in (1..clock) \cup {None} : e \in Versions \cup {None} /\ (e # None => e <= clock)
  BY ConstantsAssumption DEF TypeOK, Versions
<1>3. ASSUME NEW h \in Hrefs, CreateContact(c, u, h)
      PROVE  IndInv'
  <2> DEFINE r == [NoRequest EXCEPT !.op = "create", !.uid = u]
  <2>1. /\ r \in [op : Ops, uid : Targets, etag : Versions \cup {None}, dry : BOOLEAN]
        /\ r.op = "create" /\ r.etag = None
    BY DEF NoRequest, Ops
  <2>2. /\ pc[c] = "idle"
        /\ req' = [req EXCEPT ![c] = r]
        /\ path' = [path EXCEPT ![c] = h]
        /\ match' = [match EXCEPT ![c] = NoneMatch]
        /\ Goto(c, "write")
        /\ UNCHANGED <<server, sem, online, retries, hops, found, wire, status, history, reply>>
    BY <1>3 DEF CreateContact
  <2> HIDE DEF r
  <2> QED BY <1>1, <2>1, <2>2
<1>4. ASSUME NEW e \in (1..clock) \cup {None}, NEW o \in {"update", "delete"}, NEW dry \in BOOLEAN,
             FindByUID(c, [op |-> o, uid |-> u, etag |-> e, dry |-> dry])
      PROVE  IndInv'
  <2> DEFINE r == [op |-> o, uid |-> u, etag |-> e, dry |-> dry]
  <2>1. /\ r \in [op : Ops, uid : Targets, etag : Versions \cup {None}, dry : BOOLEAN]
        /\ r.op # "create"
        /\ r.etag # None => r.etag <= clock
    BY <1>2 DEF Ops
  <2>2. /\ pc[c] = "idle"
        /\ req' = [req EXCEPT ![c] = r]
        /\ Goto(c, "report")
        /\ UNCHANGED <<path, match>>
        /\ UNCHANGED <<server, sem, online, retries, hops, found, wire, status, history, reply>>
    BY <1>4 DEF FindByUID
  <2> HIDE DEF r
  <2> QED BY <1>1, <2>1, <2>2
<1> QED BY <1>3, <1>4 DEF UpdateContact, DeleteContact

\* doDAV for reads: attempts, retries, redirects, failures and answers.
LEMMA ReadKeeps ==
  ASSUME IndInv, NEW c \in Calls, Read(c)
  PROVE  IndInv'
<1> USE DEF IndInv
<1>1. Reading(c) => /\ pc[c] \in {"report", "get", "reget"}
                    /\ pc' = pc => Goto(c, pc[c])
                    /\ path' = path => path' = [path EXCEPT ![c] = path[c]]
                    /\ path[c] \in Hrefs \cup {None}
                    /\ pc[c] # "report" => path[c] \in Hrefs
  BY DEF Reading, Goto, TypeOK, StageInv
<1>2. CASE StartRead(c)
  <2>1. /\ Reading(c) /\ ~online[c] /\ sem < Slots
        /\ sem' = sem + 1 /\ online' = [online EXCEPT ![c] = TRUE]
        /\ UNCHANGED <<server, pc, req, path, retries, hops, found, match, wire, status,
                       history, reply>>
    BY <1>2 DEF StartRead
  <2>2. PlaceInv' /\ sem' \in 0..Slots /\ online' \in [Calls -> BOOLEAN]
    BY <1>1, <2>1, PlaceTaken
  <2>3. CountsTyped'
    BY <2>1, <2>2 DEF CountsTyped, TypeOK
  <2> QED BY <1>1, <2>1, <2>2, <2>3, ReadOn
<1>3. CASE RetryRead(c)
  <2>1. /\ Reading(c) /\ online[c] /\ Release(c) /\ retries[c] + 1 < MaxReadAttempts
        /\ retries' = [retries EXCEPT ![c] = @ + 1]
        /\ UNCHANGED <<server, pc, req, path, hops, found, match, wire, status,
                       history, reply>>
    BY <1>3 DEF RetryRead
  <2>2. PlaceInv' /\ sem' \in 0..Slots /\ online' \in [Calls -> BOOLEAN]
    BY <1>1, <2>1, PlaceReleased
  <2>3. retries[c] + 1 \in 0..(MaxReadAttempts - 1)
    BY <2>1, ConstantsAssumption DEF TypeOK
  <2>4. retries' \in [Calls -> 0..(MaxReadAttempts - 1)]
    BY <2>1, <2>3 DEF TypeOK
  <2>5. CountsTyped'
    BY <2>1, <2>2, <2>4 DEF CountsTyped, TypeOK
  <2> QED BY <1>1, <2>1, <2>2, <2>5, ReadOn
<1>4. ASSUME NEW h \in Hrefs, RedirectRead(c, h) PROVE IndInv'
  <2>1. /\ Reading(c) /\ online[c] /\ Release(c) /\ hops[c] < MaxRedirects
        /\ hops' = [hops EXCEPT ![c] = @ + 1]
        /\ path' = [path EXCEPT ![c] = IF pc[c] = "report" THEN path[c] ELSE h]
        /\ UNCHANGED <<server, pc, req, retries, found, match, wire, status, history, reply>>
    BY <1>4 DEF RedirectRead
  <2>2. PlaceInv' /\ sem' \in 0..Slots /\ online' \in [Calls -> BOOLEAN]
    BY <1>1, <2>1, PlaceReleased
  <2>3. hops[c] + 1 \in 0..MaxRedirects
    BY <2>1, ConstantsAssumption DEF TypeOK
  <2>4. hops' \in [Calls -> 0..MaxRedirects]
    BY <2>1, <2>3 DEF TypeOK
  <2>5. CountsTyped'
    BY <2>1, <2>2, <2>4 DEF CountsTyped, TypeOK
  <2> QED BY <1>1, <2>1, <2>2, <2>5, ReadOn
<1>5. CASE ReadRefused(c)
  <2>1. /\ Reading(c) /\ ~online[c] /\ Return(c, ReadFailureCode(c), None)
        /\ UNCHANGED <<server, sem, online, req, path, retries, hops, found, match, wire,
                       status, history>>
    BY <1>5 DEF ReadRefused
  <2>2. PlaceInv' /\ CountsTyped'
    BY <2>1, PlacesKept DEF Return, CountsTyped, TypeOK
  <2> QED BY <1>1, <2>1, <2>2, ReturnUnsent, ReturnWritten DEF ReadFailureCode
<1>6. CASE ReadFails(c)
  <2>1. /\ Reading(c) /\ online[c] /\ Release(c) /\ Return(c, ReadFailureCode(c), None)
        /\ UNCHANGED <<server, req, path, retries, hops, found, match, wire, status, history>>
    BY <1>6 DEF ReadFails
  <2>2. PlaceInv' /\ CountsTyped'
    BY <2>1, PlaceReleased DEF Return, CountsTyped, TypeOK
  <2> QED BY <1>1, <2>1, <2>2, ReturnUnsent, ReturnWritten DEF ReadFailureCode
<1>7. ASSUME online[c], Release(c), NEW where, where # "sent", Goto(c, where),
             FreshRead(c) \/ UNCHANGED <<retries, hops>>
      PROVE  PlaceInv' /\ CountsTyped'
  BY <1>7, AttemptOver
<1>8. CASE Report(c)
  <2>1. ASSUME NEW h \in Hrefs, path' = [path EXCEPT ![c] = h], Goto(c, "get"), UNCHANGED reply
        PROVE  IndInv'
    BY <1>7, <1>8, <2>1, ReadOn DEF Report, Reading
  <2>2. CASE Return(c, "not_found", None) /\ UNCHANGED path
    BY <1>7, <1>8, <2>2, ReturnUnsent DEF Report, Return
  <2> QED BY <1>8, <2>1, <2>2 DEF Report
<1>9. CASE ReportWithoutRows(c)
  BY <1>7, <1>9, ReturnUnsent DEF ReportWithoutRows, Return
<1>10. CASE GetObject(c)
  <2>1. /\ pc[c] = "get" /\ online[c] /\ Release(c) /\ FreshRead(c)
        /\ UNCHANGED <<server, req, path, match, wire, status, history>>
    BY <1>10 DEF GetObject
  <2>2. CASE ~Matches(c, path[c])
    <3>1. PICK r \in {"not_found", "error"} : Return(c, r, None) /\ UNCHANGED found
      BY <1>10, <2>2 DEF GetObject
    <3> QED BY <1>7, <2>1, <3>1, ReturnUnsent DEF Return
  <2>3. CASE Matches(c, path[c])
    <3>1. /\ found' = [found EXCEPT ![c] = store[path[c]].ver]
          /\ Goto(c, "modify") /\ UNCHANGED reply
      BY <1>10, <2>3 DEF GetObject
    <3>2. path[c] \in Hrefs /\ wire[c] = "none" /\ wrote[c] = None
      BY <2>1 DEF StageInv, ConditionInv
    <3>3. /\ store[path[c]].uid = req[c].uid
          /\ store[path[c]].ver \in Versions /\ store[path[c]].ver <= clock
          /\ store[path[c]].ver # None
      BY <2>3, <3>2, ConstantsAssumption DEF TypeOK, Matches, Objects, Versions, ClockInv
    <3>4. PlaceInv' /\ CountsTyped'
      BY <1>7, <2>1, <3>1
    <3>5. TypeOK'
      BY <2>1, <3>1, <3>3, <3>4 DEF TypeOK, CountsTyped, Goto, server, history
    <3>6. found'[c] = store[path[c]].ver /\ pc'[c] = "modify"
      BY <3>1 DEF TypeOK, Goto
    <3>7. \A d \in Calls \ {c} : found'[d] = found[d] /\ pc'[d] = pc[d]
      BY <3>1 DEF TypeOK, Goto
    <3>8. ClockInv' /\ ReadInv' /\ FreshInv'
      BY <2>1, <3>3, <3>6, <3>7 DEF ClockInv, ReadInv, FreshInv, server, history
    <3>9. StageInv'
      BY <2>1, <3>1, <3>2, <3>3, <3>6, <3>7 DEF StageInv
    <3>10. ConditionInv' /\ StatusInv'
      BY <2>1, <3>2, <3>6, <3>7 DEF ConditionInv, StatusInv, history
    <3>11. Safety'
      BY <2>1, <3>1, <3>2, <3>6, <3>7 DEF Safety, ContactReplacesWhatItRead,
         ContactReplyIsDefinite, ReturnedETagIsFresh, history
    <3> QED BY <3>4, <3>5, <3>8, <3>9, <3>10, <3>11
  <2> QED BY <2>2, <2>3
<1>11. CASE Reget(c)
  <2>1. /\ pc[c] = "reget" /\ Matches(c, path[c]) /\ online[c] /\ Release(c)
        /\ Return(c, "success", store[path[c]].ver)
        /\ UNCHANGED <<server, req, path, retries, hops, found, match, wire, status, history>>
    BY <1>11 DEF Reget
  <2>2. path[c] \in Hrefs /\ wrote[c] # None
    BY <2>1 DEF StageInv, ConditionInv
  <2>3. store[path[c]].ver \in Versions /\ store[path[c]].ver >= wrote[c]
    BY <2>1, <2>2 DEF Matches, TypeOK, Objects, FreshInv
  <2>4. PlaceInv' /\ CountsTyped'
    BY <1>7, <2>1 DEF Return
  <2> QED BY <2>1, <2>3, <2>4, ReturnWritten
<1> QED BY <1>2, <1>3, <1>4, <1>5, <1>6, <1>8, <1>9, <1>10, <1>11 DEF Read

\* Refusals, the dry run and the condition of the write.
LEMMA ModifyKeeps ==
  ASSUME IndInv, NEW c \in Calls,
         Deny(c) \/ ModifyFails(c) \/ DryRun(c) \/ WriteRefused(c) \/ Modify(c)
  PROVE  IndInv'
<1> USE DEF IndInv
<1>1. /\ pc[c] \in {"idle", "modify", "write"} /\ ~online[c]
      /\ UNCHANGED <<sem, online, retries, hops>>
  BY DEF Deny, ModifyFails, DryRun, WriteRefused, Modify, PlaceInv, PlaceOnlyOnline, Reading
<1>2. CountsTyped'
  BY <1>1 DEF CountsTyped, TypeOK
<1>3. CASE Deny(c) \/ ModifyFails(c) \/ DryRun(c) \/ WriteRefused(c)
  <2>1. PICK r \in {"error", "concurrent_modification", "dry_run"} : Return(c, r, None)
    BY <1>3 DEF Deny, ModifyFails, DryRun, WriteRefused
  <2>2. PlaceInv'
    BY <1>1, <2>1, PlacesKept DEF Return
  <2>3. UNCHANGED <<server, req, path, found, match, wire, status, history>>
    BY <1>3 DEF Deny, ModifyFails, DryRun, WriteRefused
  <2> QED BY <1>1, <1>2, <2>1, <2>2, <2>3, ReturnUnsent
<1>4. CASE Modify(c)
  <2>1. /\ pc[c] = "modify" /\ Goto(c, "write")
        /\ match' = [match EXCEPT ![c] = ConditionOf(c)]
        /\ UNCHANGED <<server, req, path, found, wire, status, history, reply>>
    BY <1>4 DEF Modify
  <2>2. PlaceInv'
    BY <1>1, <2>1, PlacesKept
  <2>3. /\ found[c] # None /\ path[c] \in Hrefs /\ req[c].op \in Ops /\ req[c].op # "create"
        /\ req[c].uid \in Targets /\ wire[c] = "none"
    BY <2>1 DEF StageInv, ConditionInv
  <2>4. /\ ConditionOf(c) = IF req[c].etag # None THEN req[c].etag ELSE found[c]
        /\ ConditionOf(c) \in Versions
    BY <2>3 DEF ConditionOf, TypeOK
  <2>5. TypeOK'
    BY <1>2, <2>1, <2>4 DEF TypeOK, CountsTyped, Goto, server, history
  <2>6. pc'[c] = "write" /\ match'[c] = ConditionOf(c)
    BY <2>1 DEF Goto, TypeOK
  <2>7. \A d \in Calls \ {c} : pc'[d] = pc[d] /\ match'[d] = match[d]
    BY <2>1 DEF Goto, TypeOK
  <2>8. ClockInv' /\ ReadInv' /\ FreshInv'
    BY <2>1 DEF ClockInv, ReadInv, FreshInv, server, history
  <2>9. StageInv'
    BY <2>1, <2>3, <2>6, <2>7 DEF StageInv
  <2>10. ConditionInv' /\ StatusInv'
    BY <2>1, <2>3, <2>4, <2>6, <2>7 DEF ConditionInv, StatusInv, history
  <2>11. Safety'
    BY <2>1 DEF Safety, ContactReplacesWhatItRead, ContactReplyIsDefinite,
       ReturnedETagIsFresh, history
  <2> QED BY <2>2, <2>5, <2>8, <2>9, <2>10, <2>11
<1> QED BY <1>3, <1>4

\* The write goes out.
LEMMA SendKeeps ==
  ASSUME IndInv, NEW c \in Calls, Send(c)
  PROVE  IndInv'
<1> USE DEF IndInv
<1>1. /\ pc[c] = "write" /\ Goto(c, "sent") /\ sem < Slots
      /\ sem' = sem + 1 /\ online' = [online EXCEPT ![c] = TRUE]
      /\ wire' = [wire EXCEPT ![c] = "sent"]
      /\ UNCHANGED <<server, req, path, retries, hops, found, match, status, history, reply>>
  BY DEF Send
<1>2. ~online[c]
  BY <1>1 DEF PlaceInv, PlaceOnlyOnline, Reading
<1>3. PlaceInv' /\ sem' \in 0..Slots /\ online' \in [Calls -> BOOLEAN]
  BY <1>1, <1>2, PlaceTaken
<1>4. TypeOK'
  BY <1>1, <1>3 DEF TypeOK, Goto, server, history
<1>5. pc'[c] = "sent" /\ wire'[c] = "sent" /\ wire[c] = "none" /\ wrote[c] = None
  BY <1>1 DEF Goto, TypeOK, ConditionInv
<1>6. \A d \in Calls \ {c} : pc'[d] = pc[d] /\ wire'[d] = wire[d]
  BY <1>1 DEF Goto, TypeOK
<1>7. reply[c] = NoReply
  BY <1>1 DEF StageInv
<1>8. ClockInv' /\ ReadInv' /\ FreshInv'
  BY <1>1, <1>5, <1>6 DEF ClockInv, ReadInv, FreshInv, server, history
<1>9. StageInv'
  BY <1>1, <1>5, <1>6 DEF StageInv
<1>10. ConditionInv' /\ StatusInv'
  BY <1>1, <1>5, <1>6 DEF ConditionInv, StatusInv, history
<1>11. Safety'
  BY <1>1, <1>5, <1>6, <1>7 DEF Safety, ContactReplacesWhatItRead, ContactReplyIsDefinite,
     ReturnedETagIsFresh, history, NoReply
<1> QED BY <1>3, <1>4, <1>8, <1>9, <1>10, <1>11

\* A call that has sent its write returns what it knows about it.
LEMMA ReturnSent ==
  ASSUME IndInv, NEW c \in Calls, pc[c] = "sent",
         NEW r \in {"success", "conflict", "not_found", "error", "concurrent_modification",
                    "rate_limited", "outcome_unknown"},
         r = "success" => wire[c] = "executed",
         r \notin {"success", "outcome_unknown"} => wire[c] = "dropped",
         Return(c, r, None), CountsTyped', PlaceInv',
         UNCHANGED <<server, req, path, found, match, wire, status, history>>
  PROVE  IndInv'
<1> USE DEF IndInv, Return, Goto, server, history
<1>1. TypeOK'
  BY DEF TypeOK, CountsTyped
<1>2. ClockInv' /\ StageInv' /\ ReadInv' /\ FreshInv'
  BY DEF TypeOK, ClockInv, StageInv, ReadInv, FreshInv
<1>3. ConditionInv' /\ StatusInv'
  BY DEF TypeOK, ConditionInv, StatusInv
<1>4. Safety'
  BY DEF TypeOK, ConditionInv, Safety, ContactReplacesWhatItRead, ContactReplyIsDefinite,
     ReturnedETagIsFresh
<1> QED BY <1>1, <1>2, <1>3, <1>4

\* The answer to the write comes back, or is lost.
LEMMA AnswerKeeps ==
  ASSUME IndInv, NEW c \in Calls, Receive(c) \/ Lose(c)
  PROVE  IndInv'
<1> USE DEF IndInv
<1>1. pc[c] = "sent" /\ online[c] /\ Release(c)
  BY DEF Receive, Lose, PlaceInv
<1>2. CASE Receive(c)
  <2> DEFINE r == ClassifyWrite(req[c].op, status[c])
  <2>1. /\ status[c] # "none" /\ FreshRead(c)
        /\ UNCHANGED <<server, req, found, match, wire, status, history>>
    BY <1>2 DEF Receive
  <2>2. /\ r \in {"success", "conflict", "not_found", "error", "concurrent_modification",
                  "rate_limited", "outcome_unknown"}
        /\ r = "success" => wire[c] = "executed"
        /\ r \notin {"success", "outcome_unknown"} => wire[c] = "dropped"
    BY <2>1 DEF ClassifyWrite, StatusInv, TypeOK
  <2>3. \/ Return(c, r, None) /\ UNCHANGED path
        \/ /\ r = "success" /\ Goto(c, "reget") /\ UNCHANGED reply
           /\ UNCHANGED path \/ \E h \in Hrefs : path' = [path EXCEPT ![c] = h]
    BY <1>2 DEF Receive
  <2> HIDE DEF r
  <2>4. CASE Return(c, r, None) /\ UNCHANGED path
    <3>1. PlaceInv' /\ CountsTyped'
      BY <1>1, <2>1, <2>4, AttemptOver DEF Return
    <3> QED BY <1>1, <2>1, <2>2, <2>4, <3>1, ReturnSent
  <2>5. CASE /\ r = "success" /\ Goto(c, "reget") /\ UNCHANGED reply
             /\ UNCHANGED path \/ \E h \in Hrefs : path' = [path EXCEPT ![c] = h]
    <3>1. PlaceInv' /\ CountsTyped'
      BY <1>1, <2>1, <2>5, AttemptOver
    <3>2. wire[c] = "executed" /\ path[c] \in Hrefs
      BY <1>1, <2>2, <2>5 DEF StageInv
    <3>3. path'[c] \in Hrefs /\ pc'[c] = "reget"
      BY <2>5, <3>2 DEF TypeOK, Goto
    <3>4. \A d \in Calls \ {c} : path'[d] = path[d] /\ pc'[d] = pc[d]
      BY <2>5 DEF TypeOK, Goto
    <3>5. path' \in [Calls -> Hrefs \cup {None}]
      BY <2>5 DEF TypeOK
    <3>6. TypeOK'
      BY <2>1, <2>5, <3>1, <3>5 DEF TypeOK, CountsTyped, Goto, server, history
    <3>7. ClockInv' /\ FreshInv'
      BY <2>1 DEF ClockInv, FreshInv, server, history
    <3>8. ReadInv'
      BY <2>1, <3>2, <3>4 DEF ReadInv, server
    <3>9. StageInv'
      BY <1>1, <2>1, <2>5, <3>2, <3>3, <3>4 DEF StageInv
    <3>10. ConditionInv' /\ StatusInv'
      BY <2>1, <3>2, <3>3, <3>4 DEF ConditionInv, StatusInv, history
    <3>11. Safety'
      BY <2>1, <2>5 DEF Safety, ContactReplacesWhatItRead, ContactReplyIsDefinite,
         ReturnedETagIsFresh, history
    <3> QED BY <3>1, <3>6, <3>7, <3>8, <3>9, <3>10, <3>11
  <2> QED BY <2>3, <2>4, <2>5
<1>3. CASE Lose(c)
  <2>1. /\ Return(c, "outcome_unknown", None)
        /\ UNCHANGED <<server, req, path, retries, hops, found, match, wire, status, history>>
    BY <1>3 DEF Lose, ClassifyWrite
  <2>2. PlaceInv' /\ CountsTyped'
    BY <1>1, <2>1, AttemptOver DEF Return
  <2> QED BY <1>1, <2>1, <2>2, ReturnSent
<1> QED BY <1>2, <1>3

\* The server or a gateway answers without executing anything.
LEMMA RefuseKeeps ==
  ASSUME IndInv, NEW c \in Calls,
         Gateway(c) \/ \E s \in {"412", "uid", "404", "429", "4xx"} : Refuse(c, s)
  PROVE  IndInv'
<1> USE DEF IndInv, server, history
<1>1. PlaceInv' /\ CountsTyped'
  BY PlacesUntouched DEF Gateway, Refuse
<1>2. CASE Gateway(c)
  <2>1. TypeOK'
    BY <1>1, <1>2 DEF Gateway, TypeOK, CountsTyped
  <2>2. ClockInv' /\ StageInv' /\ ReadInv' /\ FreshInv'
    BY <1>2 DEF Gateway, ClockInv, StageInv, ReadInv, FreshInv
  <2>3. ConditionInv' /\ StatusInv'
    BY <1>2 DEF Gateway, TypeOK, ConditionInv, StatusInv
  <2>4. Safety'
    BY <1>2 DEF Gateway, Safety, ContactReplacesWhatItRead, ContactReplyIsDefinite,
       ReturnedETagIsFresh
  <2> QED BY <1>1, <2>1, <2>2, <2>3, <2>4
<1>3. ASSUME NEW s \in {"412", "uid", "404", "429", "4xx"}, Refuse(c, s)
      PROVE  IndInv'
  <2>1. /\ wire[c] = "sent"
        /\ wire' = [wire EXCEPT ![c] = "dropped"]
        /\ status' = [status EXCEPT ![c] = IF pc[c] = "sent" THEN s ELSE status[c]]
        /\ UNCHANGED <<store, clock, pc, req, path, found, match, wrote, replaced, reply>>
    BY <1>3 DEF Refuse, Respond
  <2>2. TypeOK'
    BY <1>1, <2>1 DEF TypeOK, CountsTyped
  <2>3. ClockInv' /\ FreshInv'
    BY <2>1 DEF ClockInv, FreshInv
  <2>4. StageInv' /\ ReadInv'
    BY <2>1 DEF TypeOK, StageInv, ReadInv
  <2>5. ConditionInv' /\ StatusInv'
    BY <2>1 DEF TypeOK, ConditionInv, StatusInv
  <2>6. Safety'
    BY <2>1 DEF TypeOK, Safety, ContactReplacesWhatItRead, ContactReplyIsDefinite,
       ReturnedETagIsFresh
  <2> QED BY <1>1, <2>2, <2>3, <2>4, <2>5, <2>6
<1> QED BY <1>2, <1>3

\* A book whose changed resources are gone or carry the next version keeps what
\* was read from it, and what was written to it, in order.
LEMMA NewerStore ==
  ASSUME IndInv, NEW new \in [Hrefs -> Objects \cup {None}],
         clock' \in {clock, clock + 1}, store' = new,
         \A h \in Hrefs : new[h] # None =>
           new[h] = store[h] \/ (new[h].ver = clock + 1 /\ clock' = clock + 1),
         \A d \in Calls : wire'[d] \in {"none", "sent"} => wire[d] \in {"none", "sent"},
         \A d \in Calls : wrote'[d] = wrote[d] \/ wrote'[d] = 0 \/ wrote'[d] = clock',
         UNCHANGED <<req, path, found>>
  PROVE  /\ ClockInv'
         /\ ReadInv'
         /\ \A d \in Calls, h \in Hrefs :
              /\ wrote[d] # None /\ wrote'[d] = wrote[d]
              /\ new[h] # None /\ new[h].uid = req[d].uid
              => new[h].ver >= wrote'[d]
<1> USE DEF IndInv
<1>1. clock \in Nat /\ clock' \in Nat
  BY ConstantsAssumption DEF TypeOK
<1>2. \A h \in Hrefs : store[h] # None => store[h].ver \in Nat
  BY ConstantsAssumption DEF TypeOK, Objects, Versions
<1>3. \A d \in Calls : /\ found[d] # None => found[d] \in Nat /\ path[d] \in Hrefs
                       /\ req[d].etag # None => req[d].etag \in Nat
                       /\ wrote[d] # None => wrote[d] \in Nat
  BY ConstantsAssumption DEF TypeOK, Versions, StageInv
<1>4. ClockInv'
  BY <1>1, <1>2, <1>3 DEF ClockInv
<1>5. ReadInv'
  <2> SUFFICES ASSUME NEW d \in Calls, found[d] # None, wire[d] \in {"none", "sent"},
                      new[path[d]] # None
               PROVE  \/ new[path[d]].uid = req[d].uid /\ new[path[d]].ver = found[d]
                      \/ /\ new[path[d]].ver > found[d]
                         /\ req[d].etag # None => new[path[d]].ver > req[d].etag
    BY DEF ReadInv
  <2>1. CASE new[path[d]] = store[path[d]]
    BY <2>1 DEF ReadInv
  <2>2. CASE new[path[d]].ver = clock + 1
    BY <1>1, <1>3, <2>2 DEF ClockInv
  <2> QED BY <1>3, <2>1, <2>2
<1>6. ASSUME NEW d \in Calls, NEW h \in Hrefs, wrote[d] # None,
             new[h] # None, new[h].uid = req[d].uid
      PROVE  new[h].ver >= wrote[d]
  <2>1. CASE new[h] = store[h]
    BY <1>6, <2>1 DEF FreshInv
  <2>2. CASE new[h].ver = clock + 1
    BY <1>1, <1>3, <1>6, <2>2 DEF ClockInv
  <2> QED BY <1>6, <2>1, <2>2
<1> QED BY <1>4, <1>5, <1>6

\* The server executes a write: by ReadInv the condition holds only for the very
\* version that the call has read, and nothing else carries the UID.
LEMMA ExecuteKeeps ==
  ASSUME IndInv, NEW c \in Calls, Execute(c)
  PROVE  IndInv'
<1> USE DEF IndInv
<1>1. /\ wire[c] = "sent" /\ Precondition(c) /\ wrote[c] = None
      /\ path[c] \in Hrefs /\ req[c].uid \in Targets /\ req[c].uid \in Uids
      /\ wire' = [wire EXCEPT ![c] = "executed"]
      /\ replaced' = [replaced EXCEPT ![c] = store[path[c]]]
      /\ status' = [status EXCEPT ![c] = IF pc[c] = "sent" THEN "2xx" ELSE status[c]]
      /\ UNCHANGED <<sem, pc, online, req, path, retries, hops, found, match, reply>>
  BY ConstantsAssumption DEF Execute, Respond, ConditionInv
<1>2. /\ clock' \in {clock, clock + 1} /\ clock' \in 0..MaxVersions
      /\ store' \in [Hrefs -> Objects \cup {None}]
      /\ \A h \in Hrefs : store'[h] # None =>
           store'[h] = store[h] \/ (store'[h].ver = clock + 1 /\ clock' = clock + 1)
  <2>1. CASE req[c].op = "delete"
    <3>1. store' = [store EXCEPT ![path[c]] = None] /\ clock' = clock
      BY <2>1 DEF Execute
    <3> QED BY <1>1, <3>1 DEF TypeOK
  <2>2. CASE req[c].op # "delete"
    <3>1. clock < MaxVersions /\ clock' = clock + 1 /\ clock + 1 \in Versions
      BY <2>2, ConstantsAssumption DEF Execute, TypeOK, Versions
    <3>2. store' = [store EXCEPT ![path[c]] = [uid |-> req[c].uid, ver |-> clock + 1]]
      BY <2>2 DEF Execute
    <3>3. [uid |-> req[c].uid, ver |-> clock + 1] \in Objects
      BY <1>1, <3>1 DEF Objects
    <3> QED BY <1>1, <3>1, <3>2, <3>3, ConstantsAssumption DEF TypeOK, Versions
  <2> QED BY <2>1, <2>2
<1>3. /\ wrote' = [wrote EXCEPT ![c] = IF req[c].op = "delete" THEN 0 ELSE clock']
      /\ wrote'[c] \in {0, clock'} /\ wrote'[c] \in 0..MaxVersions /\ wrote'[c] # None
      /\ \A d \in Calls \ {c} : wrote'[d] = wrote[d]
  <2>1. wrote' = [wrote EXCEPT ![c] = IF req[c].op = "delete" THEN 0 ELSE clock']
    BY DEF Execute
  <2>2. wrote'[c] \in {0, clock'} /\ \A d \in Calls \ {c} : wrote'[d] = wrote[d]
    BY <2>1 DEF TypeOK
  <2>3. 0 \in 0..MaxVersions
    BY ConstantsAssumption
  <2> QED BY <1>2, <2>1, <2>2, <2>3, ConstantsAssumption
<1>4. TypeOK'
  <2>1. wrote' \in [Calls -> 0..MaxVersions \cup {None}]
    BY <1>3 DEF TypeOK
  <2> QED BY <1>1, <1>2, <2>1 DEF TypeOK
<1>5. /\ wire'[c] = "executed"
      /\ \A d \in Calls \ {c} : wire'[d] = wire[d]
  BY <1>1 DEF TypeOK
<1>6. /\ ClockInv' /\ ReadInv'
      /\ \A d \in Calls, h \in Hrefs :
           /\ wrote[d] # None /\ wrote'[d] = wrote[d]
           /\ store'[h] # None /\ store'[h].uid = req[d].uid
           => store'[h].ver >= wrote'[d]
  <2>1. \A d \in Calls : wrote'[d] = wrote[d] \/ wrote'[d] = 0 \/ wrote'[d] = clock'
    BY <1>3
  <2>2. \A d \in Calls : wire'[d] \in {"none", "sent"} => wire[d] \in {"none", "sent"}
    BY <1>5
  <2> QED BY <1>1, <1>2, <2>1, <2>2, NewerStore
<1>7. StageInv' /\ StatusInv'
  BY <1>1 DEF TypeOK, StageInv, StatusInv
<1>8. ConditionInv'
  BY <1>1, <1>3, <1>5 DEF ConditionInv
<1>9. ASSUME NEW h \in Hrefs, store'[h] # None, store'[h].uid = req[c].uid
      PROVE  store'[h].ver >= wrote'[c]
  <2>1. store'[h].ver \in Nat
    BY <1>2, <1>9 DEF Objects, Versions
  <2>2. CASE req[c].op = "delete"
    BY <1>3, <2>1, <2>2 DEF TypeOK
  <2>3. CASE req[c].op # "delete"
    <3>1. /\ store' = [store EXCEPT ![path[c]] = [uid |-> req[c].uid, ver |-> clock + 1]]
          /\ wrote'[c] = clock + 1
      BY <2>3 DEF Execute, TypeOK
    <3>2. h = path[c]
      BY <1>1, <1>9, <3>1 DEF Precondition, UidFree, TypeOK
    <3> QED BY <1>1, <2>1, <3>1, <3>2 DEF TypeOK
  <2> QED BY <2>2, <2>3
<1>10. FreshInv'
  BY <1>1, <1>3, <1>6, <1>9 DEF FreshInv
<1>11. IF req[c].op = "create" THEN store[path[c]] = None
       ELSE /\ store[path[c]] # None
            /\ store[path[c]].uid = req[c].uid
            /\ store[path[c]].ver = found[c]
            /\ req[c].etag \in {None, store[path[c]].ver}
  <2>1. CASE req[c].op = "create"
    BY <1>1, <2>1 DEF ConditionInv, Precondition
  <2>2. CASE req[c].op # "create"
    <3>1. /\ found[c] # None /\ found[c] \in Versions
          /\ match[c] = IF req[c].etag # None THEN req[c].etag ELSE found[c]
          /\ match[c] \in Versions
      BY <1>1, <2>2 DEF ConditionInv, TypeOK
    <3>2. store[path[c]] # None /\ store[path[c]].ver = match[c]
      BY <1>1, <3>1 DEF Precondition
    <3>3. ~(store[path[c]].ver > match[c])
      BY <3>1, <3>2, ConstantsAssumption DEF Versions
    <3> QED BY <1>1, <2>2, <3>1, <3>2, <3>3 DEF ReadInv
  <2> QED BY <2>1, <2>2
<1>12. /\ replaced'[c] = store[path[c]]
       /\ req[c].op # "create" => store[path[c]] = [uid |-> req[c].uid, ver |-> found[c]]
       /\ \A d \in Calls \ {c} : replaced'[d] = replaced[d]
  BY <1>1, <1>11 DEF TypeOK, Objects
<1>13. ContactReplacesWhatItRead'
  BY <1>1, <1>3, <1>11, <1>12 DEF Safety, ContactReplacesWhatItRead
<1>14. ContactReplyIsDefinite'
  BY <1>1, <1>3, <1>5 DEF Safety, ContactReplyIsDefinite
<1>15. ReturnedETagIsFresh'
  <2>1. reply[c].etag = None
    BY <1>1 DEF StageInv, Safety, ContactReplyIsDefinite
  <2> QED BY <1>1, <1>3, <2>1 DEF Safety, ReturnedETagIsFresh
<1> QED BY <1>1, <1>4, <1>6, <1>7, <1>8, <1>10, <1>13, <1>14, <1>15, PlacesUntouched DEF Safety

\* Other clients only ever make resources vanish or become newer.
LEMMA OtherKeeps ==
  ASSUME IndInv,
         \E h \in Hrefs : (\E u \in Uids : OtherWrite(h, u)) \/ OtherDelete(h)
  PROVE  IndInv'
<1> USE DEF IndInv
<1>1. UNCHANGED <<sem, pc, online, req, path, retries, hops, found, match, wire, status,
                  wrote, replaced, reply>>
  BY DEF OtherWrite, OtherDelete, Other, history
<1>2. /\ clock' \in {clock, clock + 1} /\ clock' \in 0..MaxVersions
      /\ store' \in [Hrefs -> Objects \cup {None}]
      /\ \A h \in Hrefs : store'[h] # None =>
           store'[h] = store[h] \/ (store'[h].ver = clock + 1 /\ clock' = clock + 1)
  <2>1. ASSUME NEW u \in Uids, clock < MaxVersions
        PROVE  /\ clock + 1 \in 0..MaxVersions
               /\ [uid |-> u, ver |-> clock + 1] \in Objects
    BY <2>1, ConstantsAssumption DEF TypeOK, Objects, Versions
  <2>2. ASSUME NEW h \in Hrefs, NEW u \in Uids, OtherWrite(h, u) PROVE <1>2!:
    BY <2>1, <2>2 DEF OtherWrite, Other, TypeOK
  <2>3. ASSUME NEW h \in Hrefs, OtherDelete(h) PROVE <1>2!:
    BY <2>3 DEF OtherDelete, Other, TypeOK
  <2> QED BY <2>2, <2>3
<1>3. TypeOK'
  BY <1>1, <1>2 DEF TypeOK
<1>4. ClockInv' /\ ReadInv' /\ FreshInv'
  BY <1>1, <1>2, NewerStore DEF FreshInv
<1>5. StageInv' /\ ConditionInv' /\ StatusInv' /\ Safety'
  BY <1>1 DEF StageInv, ConditionInv, StatusInv, Safety, ContactReplacesWhatItRead,
     ContactReplyIsDefinite, ReturnedETagIsFresh
<1> QED BY <1>1, <1>3, <1>4, <1>5, PlacesUntouched

-----------------------------------------------------------------------------
\* Calls that have not begun, on an empty book or one with one contact.
LEMMA InitHolds == Init => IndInv
<1> SUFFICES ASSUME Init PROVE IndInv
  OBVIOUS
<1>1. /\ store \in [Hrefs -> Objects \cup {None}]
      /\ clock \in 0..MaxVersions
      /\ \A h \in Hrefs : store[h] # None => store[h].ver <= clock
  BY ConstantsAssumption DEF Init, Objects, Versions
<1>2. 0 \in 0..Slots /\ 0 \in 0..(MaxReadAttempts - 1) /\ 0 \in 0..MaxRedirects
  BY ConstantsAssumption
<1>3. TypeOK
  BY <1>1, <1>2 DEF Init, TypeOK, NoRequest, NoReply
<1>4. PlaceInv
  <2>1. Online = {}
    BY DEF Init, Online
  <2> QED BY <2>1, FS_EmptySet DEF Init, PlaceInv, PlaceOnlyOnline, Online
<1>5. ClockInv
  BY <1>1 DEF Init, ClockInv, NoRequest
<1>6. StageInv /\ ConditionInv /\ StatusInv /\ ReadInv /\ FreshInv
  BY DEF Init, NoReply, StageInv, ConditionInv, StatusInv, ReadInv, FreshInv
<1>7. Safety
  BY DEF Init, Safety, ContactReplacesWhatItRead, ContactReplyIsDefinite, ReturnedETagIsFresh,
     NoReply
<1> QED BY <1>3, <1>4, <1>5, <1>6, <1>7 DEF IndInv

\* Every step of a call, of the server and of the other clients keeps it.
LEMMA NextKeeps == IndInv /\ [Next]_vars => IndInv'
<1> SUFFICES ASSUME IndInv, [Next]_vars PROVE IndInv'
  OBVIOUS
<1>1. ASSUME NEW c \in Calls, Write(c) PROVE IndInv'
  BY <1>1, ModifyKeeps, SendKeeps, AnswerKeeps DEF Write
<1>2. CASE UNCHANGED vars
  <2>1. PlaceInv'
    BY <1>2, PlacesUntouched DEF vars
  <2> QED BY <1>2, <2>1 DEF vars, IndInv, TypeOK, ClockInv, StageInv, ConditionInv,
     StatusInv, ReadInv, FreshInv, Safety, ContactReplacesWhatItRead, ContactReplyIsDefinite,
     ReturnedETagIsFresh
<1> QED BY <1>1, <1>2, RequestKeeps, ReadKeeps, ModifyKeeps, ExecuteKeeps, RefuseKeeps,
     OtherKeeps DEF Next

\* The book, the semaphore and the calls keep their types; the counts of
\* retries and redirects stay below their limits.
THEOREM TypeCorrect == Spec => []TypeOK
<1>1. IndInv => TypeOK
  BY DEF IndInv
<1> QED BY <1>1, InitHolds, NextKeeps, PTL DEF Spec

\* No update of a contact is lost and no stranger is touched, whatever redirects
\* and other clients do between the lookup, the GET and the write.
THEOREM ContactNoLostUpdate == Spec => []ContactReplacesWhatItRead
<1>1. IndInv => ContactReplacesWhatItRead
  BY DEF IndInv, Safety
<1> QED BY <1>1, InitHolds, NextKeeps, PTL DEF Spec

\* Whatever is lost, delayed or answered by a gateway, and however the read-back
\* ends, a definite answer is true and stays true.
THEOREM ContactDefiniteReplies == Spec => []ContactReplyIsDefinite
<1>1. IndInv => ContactReplyIsDefinite
  BY DEF IndInv, Safety
<1> QED BY <1>1, InitHolds, NextKeeps, PTL DEF Spec

\* The read-back never returns the ETag of a version older than the write, even
\* when a Location or a redirect sends it to another resource.
THEOREM FreshETags == Spec => []ReturnedETagIsFresh
<1>1. IndInv => ReturnedETagIsFresh
  BY DEF IndInv, Safety
<1> QED BY <1>1, InitHolds, NextKeeps, PTL DEF Spec

\* Network places are neither leaked nor given back twice, for any number of
\* calls: they are held by exactly the requests that are on the network.
THEOREM PlacesAccounted == Spec => []PlaceOnlyOnline
<1>1. IndInv => PlaceOnlyOnline
  BY DEF IndInv, PlaceInv
<1> QED BY <1>1, InitHolds, NextKeeps, PTL DEF Spec
=============================================================================
