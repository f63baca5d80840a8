---------------------------- MODULE ContactWrite ----------------------------
(***************************************************************************)
(* Contact mutations against one CardDAV address book: CreateContact,      *)
(* UpdateContact and DeleteContact of internal/contacts/operations.go over *)
(* doDAV of dav.go, behind the handlers of mcptools/contacts_write.go.     *)
(*                                                                         *)
(* doDAV sends one request at a time, each attempt under one of the shared *)
(* network places.  A read is retried on 429 and gateway statuses and      *)
(* follows redirects inside the book; a write is sent once.  A created     *)
(* contact gets a random resource name, so only the server's UID check     *)
(* keeps a repeated create from making a second contact.                   *)
(*                                                                         *)
(* The server and the other clients of the book are external: conditions   *)
(* are enforced, UIDs are unique in the book, ETags are never reused, and  *)
(* a request the client gave up on may still be executed.                  *)
(***************************************************************************)
EXTENDS Naturals, FiniteSets

CONSTANTS
  Calls,           \* tool calls
  Uids,            \* contact UIDs
  Targets,         \* the UIDs the calls are about
  Hrefs,           \* resource names in the book
  Slots,           \* capacity of the client's semaphore
  MaxReadAttempts, \* maxReadAttempts
  MaxRedirects,    \* maxRedirects
  MaxVersions,     \* bound on the versions the server hands out
  None             \* no resource, no ETag

Ops == {"create", "update", "delete"}

ASSUME ConstantsAssumption ==
  /\ Targets \subseteq Uids
  /\ {Slots, MaxReadAttempts, MaxVersions} \subseteq Nat \ {0}
  /\ MaxRedirects \in Nat
  /\ None \notin Hrefs \cup (0..MaxVersions)

VARIABLES
  store,     \* the book: href -> [uid, ver], or None
  clock,     \* the last version the server handed out
  sem,       \* places taken in the client's semaphore
  pc,        \* where each call is
  online,    \* the call has a request on the network
  req,       \* its operation, UID, caller ETag and whether it is a dry run
  path,      \* the resource it works on
  retries,   \* retries of the current read
  hops,      \* redirects of the current read
  found,     \* the version it read
  match,     \* the condition of its write: If-Match a version, or 0: If-None-Match *
  wire,      \* its write: not sent, at large, executed or dropped
  status,    \* the status of the answer to the write
  wrote,     \* history: the version its write made, 0 for a delete
  replaced,  \* history: what that write replaced
  reply      \* what the call returned

vars == <<store, clock, sem, pc, online, req, path, retries, hops, found, match,
          wire, status, wrote, replaced, reply>>

Versions == 1..MaxVersions
NoneMatch == 0
Objects == [uid : Uids, ver : Versions]
NoRequest == [op |-> "none", uid |-> None, etag |-> None, dry |-> FALSE]
NoReply == [code |-> "none", etag |-> None]

Init ==
  /\ \/ store = [h \in Hrefs |-> None] /\ clock = 0
     \/ /\ \E u \in Uids, h \in Hrefs :
             store = [g \in Hrefs |-> IF g = h THEN [uid |-> u, ver |-> 1] ELSE None]
        /\ clock = 1
  /\ sem = 0
  /\ pc = [c \in Calls |-> "idle"]
  /\ online = [c \in Calls |-> FALSE]
  /\ req = [c \in Calls |-> NoRequest]
  /\ path = [c \in Calls |-> None]
  /\ retries = [c \in Calls |-> 0]
  /\ hops = [c \in Calls |-> 0]
  /\ found = [c \in Calls |-> None]
  /\ match = [c \in Calls |-> None]
  /\ wire = [c \in Calls |-> "none"]
  /\ status = [c \in Calls |-> "none"]
  /\ wrote = [c \in Calls |-> None]
  /\ replaced = [c \in Calls |-> None]
  /\ reply = [c \in Calls |-> NoReply]

server == <<store, clock>>
history == <<wrote, replaced>>

Goto(c, where) == pc' = [pc EXCEPT ![c] = where]
Return(c, code, etag) ==
  /\ Goto(c, "done")
  /\ reply' = [reply EXCEPT ![c] = [code |-> code, etag |-> etag]]

\* The next request starts with fresh counts.
FreshRead(c) == retries' = [retries EXCEPT ![c] = 0] /\ hops' = [hops EXCEPT ![c] = 0]

-----------------------------------------------------------------------------
(* The calls. *)

\* Arguments, scope, discovery or local validation refuse the request.
Deny(c) ==
  /\ pc[c] = "idle"
  /\ Return(c, "error", None)
  /\ UNCHANGED <<server, sem, online, req, path, retries, hops, found, match, wire,
                 status, history>>

\* A random resource name, which nobody uses; the UID is the caller's or random.
CreateContact(c, u, h) ==
  /\ pc[c] = "idle"
  /\ store[h] = None
  /\ \A d \in Calls : path[d] # h
  /\ req' = [req EXCEPT ![c] = [NoRequest EXCEPT !.op = "create", !.uid = u]]
  /\ path' = [path EXCEPT ![c] = h]
  /\ match' = [match EXCEPT ![c] = NoneMatch]
  /\ Goto(c, "write")
  /\ UNCHANGED <<server, sem, online, retries, hops, found, wire, status, history, reply>>

\* UpdateContact and DeleteContact look the contact up; a caller's ETag is one it
\* has been given before.
FindByUID(c, r) ==
  /\ pc[c] = "idle"
  /\ req' = [req EXCEPT ![c] = r]
  /\ Goto(c, "report")
  /\ UNCHANGED <<server, sem, online, path, retries, hops, found, match, wire, status,
                 history, reply>>

UpdateContact(c, u, e) ==
  FindByUID(c, [op |-> "update", uid |-> u, etag |-> e, dry |-> FALSE])

DeleteContact(c, u, e, dry) ==
  FindByUID(c, [op |-> "delete", uid |-> u, etag |-> e, dry |-> dry])

-----------------------------------------------------------------------------
(* doDAV for reads: REPORT, GET, and the GET after a write. *)

Reading(c) == pc[c] \in {"report", "get", "reget"}

\* acquire: one place per attempt.
StartRead(c) ==
  /\ Reading(c)
  /\ ~online[c]
  /\ sem < Slots
  /\ sem' = sem + 1
  /\ online' = [online EXCEPT ![c] = TRUE]
  /\ UNCHANGED <<server, pc, req, path, retries, hops, found, match, wire, status,
                 history, reply>>

\* The attempt is over: its place is given back.
Release(c) == sem' = sem - 1 /\ online' = [online EXCEPT ![c] = FALSE]

\* 429, 502, 503 or 504, and attempts are left: back off, then try again.
RetryRead(c) ==
  /\ Reading(c)
  /\ online[c]
  /\ retries[c] + 1 < MaxReadAttempts
  /\ retries' = [retries EXCEPT ![c] = @ + 1]
  /\ Release(c)
  /\ UNCHANGED <<server, pc, req, path, hops, found, match, wire, status, history, reply>>

\* Mutant: the place of a redirected attempt is not given back.
RedirectReadLeaks(c, h) ==
  /\ Reading(c)
  /\ online[c]
  /\ hops[c] < MaxRedirects
  /\ hops' = [hops EXCEPT ![c] = @ + 1]
  /\ path' = [path EXCEPT ![c] = IF pc[c] = "report" THEN @ ELSE h]
  /\ online' = [online EXCEPT ![c] = FALSE]
  /\ UNCHANGED <<server, sem, pc, req, retries, found, match, wire, status, history, reply>>

\* A redirect inside the book: a GET goes on at another resource.
RedirectRead(c, h) ==
  /\ Reading(c)
  /\ online[c]
  /\ hops[c] < MaxRedirects
  /\ hops' = [hops EXCEPT ![c] = @ + 1]
  /\ path' = [path EXCEPT ![c] = IF pc[c] = "report" THEN @ ELSE h]
  /\ Release(c)
  /\ UNCHANGED <<server, pc, req, retries, found, match, wire, status, history, reply>>

\* A read that fails ends a lookup; after a write it only leaves the result
\* incomplete.
ReadFailureCode(c) == IF pc[c] = "reget" THEN "success" ELSE "error"

\* The rate limit refuses the attempt or the context ends, before a request is
\* on the network.
ReadRefused(c) ==
  /\ Reading(c)
  /\ ~online[c]
  /\ Return(c, ReadFailureCode(c), None)
  /\ UNCHANGED <<server, sem, online, req, path, retries, hops, found, match, wire,
                 status, history>>

\* Transport error, timeout, the last retry or redirect, a redirect out of the
\* book, a body that is too large or malformed, another UID, a bad ETag.
ReadFails(c) ==
  /\ Reading(c)
  /\ online[c]
  /\ Release(c)
  /\ Return(c, ReadFailureCode(c), None)
  /\ UNCHANGED <<server, req, path, retries, hops, found, match, wire, status, history>>

\* GET of h returns the contact that the call is about.
Matches(c, h) == store[h] # None /\ store[h].uid = req[c].uid

\* The UID query: no row, or the resource to fetch in full.
Report(c) ==
  /\ pc[c] = "report"
  /\ online[c]
  /\ Release(c)
  /\ FreshRead(c)
  /\ \/ /\ \E h \in Hrefs : Matches(c, h) /\ path' = [path EXCEPT ![c] = h]
        /\ Goto(c, "get")
        /\ UNCHANGED reply
     \/ /\ \A h \in Hrefs : ~Matches(c, h)
        /\ Return(c, "not_found", None)
        /\ UNCHANGED path
  /\ UNCHANGED <<server, req, found, match, wire, status, history>>

\* A 2xx answer other than 207 counts as an answer without rows.
ReportWithoutRows(c) ==
  /\ pc[c] = "report"
  /\ online[c]
  /\ Release(c)
  /\ Return(c, "not_found", None)
  /\ UNCHANGED <<server, req, path, retries, hops, found, match, wire, status, history>>

\* The full object with its ETag; the URL it came from is the one to write to.
GetObject(c) ==
  /\ pc[c] = "get"
  /\ online[c]
  /\ Release(c)
  /\ FreshRead(c)
  /\ \/ /\ Matches(c, path[c])
        /\ found' = [found EXCEPT ![c] = store[path[c]].ver]
        /\ Goto(c, "modify")
        /\ UNCHANGED reply
     \/ /\ ~Matches(c, path[c])
        /\ Return(c, IF store[path[c]] = None THEN "not_found" ELSE "error", None)
        /\ UNCHANGED found
  /\ UNCHANGED <<server, req, path, match, wire, status, history>>

\* Mutant: the caller is given the ETag that was read before the write.
RegetStale(c) ==
  /\ pc[c] = "reget"
  /\ online[c]
  /\ Matches(c, path[c])
  /\ Release(c)
  /\ Return(c, "success", found[c])
  /\ UNCHANGED <<server, req, path, retries, hops, found, match, wire, status, history>>

\* The normalized object after a write gives the ETag to return.
Reget(c) ==
  /\ pc[c] = "reget"
  /\ online[c]
  /\ Matches(c, path[c])
  /\ Release(c)
  /\ Return(c, "success", store[path[c]].ver)
  /\ UNCHANGED <<server, req, path, retries, hops, found, match, wire, status, history>>

-----------------------------------------------------------------------------
(* From the object to the write. *)

\* The contact is a group or vCard 4.0, the patch leaves no name, the card grows
\* too large, or the server gave no usable ETag.
ModifyFails(c) ==
  /\ pc[c] = "modify"
  /\ Return(c, "error", None)
  /\ UNCHANGED <<server, sem, online, req, path, retries, hops, found, match, wire,
                 status, history>>

\* Mutant: the ETag that was just read wins over the caller's.
ConditionOfFound(c) == found[c]

\* The caller's ETag, or else the one that came with the object.
ConditionOf(c) == IF req[c].etag # None THEN req[c].etag ELSE found[c]

Modify(c) ==
  /\ pc[c] = "modify"
  /\ ~req[c].dry
  /\ match' = [match EXCEPT ![c] = ConditionOf(c)]
  /\ Goto(c, "write")
  /\ UNCHANGED <<server, sem, online, req, path, retries, hops, found, wire, status,
                 history, reply>>

\* A dry run compares the caller's ETag itself.
DryRun(c) ==
  /\ pc[c] = "modify"
  /\ req[c].dry
  /\ Return(c, IF ConditionOf(c) = found[c] THEN "dry_run" ELSE "concurrent_modification",
            None)
  /\ UNCHANGED <<server, sem, online, req, path, retries, hops, found, match, wire,
                 status, history>>

\* The rate limit refuses the write, or the context ends before it is sent.
WriteRefused(c) ==
  /\ pc[c] = "write"
  /\ Return(c, "error", None)
  /\ UNCHANGED <<server, sem, online, req, path, retries, hops, found, match, wire,
                 status, history>>

Send(c) ==
  /\ pc[c] = "write"
  /\ sem < Slots
  /\ sem' = sem + 1
  /\ online' = [online EXCEPT ![c] = TRUE]
  /\ wire' = [wire EXCEPT ![c] = "sent"]
  /\ Goto(c, "sent")
  /\ UNCHANGED <<server, req, path, retries, hops, found, match, status, history, reply>>

-----------------------------------------------------------------------------
(* The server. *)

UidFree(u, h) == \A g \in Hrefs \ {h} : store[g] # None => store[g].uid # u

Precondition(c) ==
  /\ match[c] = NoneMatch => store[path[c]] = None
  /\ match[c] \in Versions => store[path[c]] # None /\ store[path[c]].ver = match[c]
  /\ UidFree(req[c].uid, path[c])

\* An answer to a client that has gone is dropped.
Respond(c, s) ==
  status' = [status EXCEPT ![c] = IF pc[c] = "sent" THEN s ELSE @]

Execute(c) ==
  /\ wire[c] = "sent"
  /\ Precondition(c)
  /\ IF req[c].op = "delete"
     THEN /\ store' = [store EXCEPT ![path[c]] = None]
          /\ wrote' = [wrote EXCEPT ![c] = 0]
          /\ UNCHANGED clock
     ELSE /\ clock < MaxVersions
          /\ clock' = clock + 1
          /\ store' = [store EXCEPT ![path[c]] = [uid |-> req[c].uid, ver |-> clock + 1]]
          /\ wrote' = [wrote EXCEPT ![c] = clock + 1]
  /\ wire' = [wire EXCEPT ![c] = "executed"]
  /\ replaced' = [replaced EXCEPT ![c] = store[path[c]]]
  /\ Respond(c, "2xx")
  /\ UNCHANGED <<sem, pc, online, req, path, retries, hops, found, match, reply>>

\* A failed condition, a UID conflict, a missing resource, 429, or another 4xx.
Refuse(c, s) ==
  /\ wire[c] = "sent"
  /\ \/ s = "412" /\ ~Precondition(c)
     \/ s = "uid" /\ ~UidFree(req[c].uid, path[c])
     \/ s = "404" /\ match[c] \in Versions /\ store[path[c]] = None
     \/ s \in {"429", "4xx"}
  /\ wire' = [wire EXCEPT ![c] = "dropped"]
  /\ Respond(c, s)
  /\ UNCHANGED <<server, sem, pc, online, req, path, retries, hops, found, match,
                 history, reply>>

\* A gateway answers 3xx, 408 or 5xx in the server's place.
Gateway(c) ==
  /\ pc[c] = "sent"
  /\ status[c] # "5xx"
  /\ status' = [status EXCEPT ![c] = "5xx"]
  /\ UNCHANGED <<server, sem, pc, online, req, path, retries, hops, found, match, wire,
                 history, reply>>

\* Mutant: 408 and gateway statuses of a write are definite failures.
ClassifyWriteDefinite(op, s) ==
  CASE s = "2xx"                   -> "success"
    [] s = "412" /\ op = "create"  -> "conflict"
    [] s = "412" /\ op # "create"  -> "concurrent_modification"
    [] s = "uid"                   -> "conflict"
    [] s = "404"                   -> "not_found"
    [] s = "429"                   -> "rate_limited"
    [] s \in {"4xx", "5xx"}        -> "error"
    [] s = "lost"                  -> "outcome_unknown"

\* doDAV, then classifyDAVError and classifyStatus.
ClassifyWrite(op, s) ==
  CASE s = "2xx"                   -> "success"
    [] s = "412" /\ op = "create"  -> "conflict"
    [] s = "412" /\ op # "create"  -> "concurrent_modification"
    [] s = "uid"                   -> "conflict"
    [] s = "404"                   -> "not_found"
    [] s = "429"                   -> "rate_limited"
    [] s = "4xx"                   -> "error"
    [] s \in {"5xx", "lost"}       -> "outcome_unknown"

\* Any answer but success ends the call, and so does the success of a delete.  A
\* created or updated contact is read back; the Location of a created one may
\* be another resource of the book, or unusable, which ends the call too.
Receive(c) ==
  /\ pc[c] = "sent"
  /\ status[c] # "none"
  /\ Release(c)
  /\ FreshRead(c)
  /\ LET code == ClassifyWrite(req[c].op, status[c])
     IN  \/ /\ code # "success" \/ req[c].op \in {"delete", "create"}
            /\ Return(c, code, None)
            /\ UNCHANGED path
         \/ /\ code = "success"
            /\ req[c].op # "delete"
            /\ Goto(c, "reget")
            /\ \/ UNCHANGED path
               \/ /\ req[c].op = "create"
                  /\ \E h \in Hrefs : path' = [path EXCEPT ![c] = h]
            /\ UNCHANGED reply
  /\ UNCHANGED <<server, req, found, match, wire, status, history>>

\* A transport error or the deadline after the write was sent.
Lose(c) ==
  /\ pc[c] = "sent"
  /\ Release(c)
  /\ Return(c, ClassifyWrite(req[c].op, "lost"), None)
  /\ UNCHANGED <<server, req, path, retries, hops, found, match, wire, status, history>>

-----------------------------------------------------------------------------
(* The other clients of the book. *)

Other(new) ==
  /\ store' = new
  /\ UNCHANGED <<sem, pc, online, req, path, retries, hops, found, match, wire, status,
                 history, reply>>

OtherWrite(h, u) ==
  /\ clock < MaxVersions
  /\ UidFree(u, h)
  /\ clock' = clock + 1
  /\ Other([store EXCEPT ![h] = [uid |-> u, ver |-> clock + 1]])

OtherDelete(h) ==
  /\ store[h] # None
  /\ UNCHANGED clock
  /\ Other([store EXCEPT ![h] = None])

Read(c) ==
  \/ StartRead(c) \/ RetryRead(c) \/ ReadRefused(c) \/ ReadFails(c)
  \/ Report(c) \/ ReportWithoutRows(c) \/ GetObject(c) \/ Reget(c)
  \/ \E h \in Hrefs : RedirectRead(c, h)

Write(c) ==
  \/ ModifyFails(c) \/ Modify(c) \/ DryRun(c) \/ WriteRefused(c) \/ Send(c)
  \/ Receive(c) \/ Lose(c)

Next ==
  \/ \E c \in Calls :
       \/ Deny(c) \/ Read(c) \/ Write(c) \/ Execute(c) \/ Gateway(c)
       \/ \E u \in Targets :
            \/ \E h \in Hrefs : CreateContact(c, u, h)
            \/ \E e \in (1..clock) \cup {None} :
                 \/ UpdateContact(c, u, e)
                 \/ \E dry \in BOOLEAN : DeleteContact(c, u, e, dry)
       \/ \E s \in {"412", "uid", "404", "429", "4xx"} : Refuse(c, s)
  \/ \E h \in Hrefs :
       \/ \E u \in Uids : OtherWrite(h, u)
       \/ OtherDelete(h)

Spec == Init /\ [][Next]_vars

-----------------------------------------------------------------------------
(* Properties. *)

\* The shape of the book, the semaphore and the calls.
TypeOK ==
  /\ store \in [Hrefs -> Objects \cup {None}]
  /\ clock \in 0..MaxVersions
  /\ sem \in 0..Slots
  /\ pc \in [Calls -> {"idle", "report", "get", "modify", "write", "sent", "reget", "done"}]
  /\ online \in [Calls -> BOOLEAN]
  /\ req \in [Calls -> [op : Ops \cup {"none"}, uid : Targets \cup {None},
                        etag : Versions \cup {None}, dry : BOOLEAN]]
  /\ path \in [Calls -> Hrefs \cup {None}]
  /\ retries \in [Calls -> 0..(MaxReadAttempts - 1)]
  /\ hops \in [Calls -> 0..MaxRedirects]
  /\ found \in [Calls -> Versions \cup {None}]
  /\ match \in [Calls -> Versions \cup {NoneMatch, None}]
  /\ wire \in [Calls -> {"none", "sent", "executed", "dropped"}]
  /\ status \in [Calls -> {"none", "2xx", "412", "uid", "404", "429", "4xx", "5xx"}]
  /\ wrote \in [Calls -> 0..MaxVersions \cup {None}]
  /\ replaced \in [Calls -> Objects \cup {None}]
  /\ reply \in [Calls -> [code : {"none", "success", "conflict", "not_found", "error",
                                  "concurrent_modification", "rate_limited", "dry_run",
                                  "outcome_unknown"},
                          etag : Versions \cup {None}]]

\* Whatever redirects, foreign edits and foreign deletes happen between the
\* lookup, the GET and the write, the patched or deleted contact is the one
\* the call names, in the very version that was read, and in the version the
\* caller named if it named one.  A create replaces nothing.
ContactReplacesWhatItRead ==
  \A c \in Calls :
    wrote[c] # None =>
      IF req[c].op = "create" THEN replaced[c] = None
      ELSE /\ replaced[c] = [uid |-> req[c].uid, ver |-> found[c]]
           /\ req[c].etag # None => req[c].etag = found[c]

\* A definite answer stays true: success was executed, any other definite
\* answer (a refusal, a failed read, a dry run) was not and will not be.  In
\* particular a read-back that fails never turns an executed write into a
\* failure, and a gateway's answer never into a refusal.
ContactReplyIsDefinite ==
  \A c \in Calls :
    /\ reply[c].code = "success" => wrote[c] # None
    /\ reply[c].code \notin {"none", "success", "outcome_unknown"}
         => wrote[c] = None /\ wire[c] # "sent"

\* The ETag that a create or update returns is that of its own write or of a
\* later version of the contact, never of what it replaced.
ReturnedETagIsFresh ==
  \A c \in Calls : reply[c].etag # None => reply[c].etag >= wrote[c]

\* A place is held exactly while a request is on the network: not during the
\* back-off, not after a redirect, and not by a call that has returned.
PlaceOnlyOnline ==
  /\ sem = Cardinality({c \in Calls : online[c]})
  /\ \A c \in Calls : online[c] => Reading(c) \/ pc[c] = "sent"
=============================================================================
