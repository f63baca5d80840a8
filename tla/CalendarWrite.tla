--------------------------- MODULE CalendarWrite ----------------------------
(***************************************************************************)
(* Calendar mutations against a shared CalDAV collection: CreateEvent,     *)
(* UpdateEvent and DeleteEvent of internal/icloud/client.go, the lookup by *)
(* UID with its location cache (client.go, location_cache.go), and the     *)
(* classification of what a PUT or DELETE returns (dav.go, retry.go).      *)
(*                                                                         *)
(* Reads and writes are separate requests, so other clients of the same    *)
(* calendar edit, delete, move and replace events between them.  A request *)
(* may be lost, its answer may be lost or replaced by a gateway error, and *)
(* a request the client has given up on may still be executed later.       *)
(*                                                                         *)
(* The server is external.  It enforces If-Match and If-None-Match, keeps  *)
(* UIDs unique in the collection, and gives every version of a resource an *)
(* ETag it never used before.  An event's content is abstracted to its UID *)
(* and version.                                                            *)
(***************************************************************************)
EXTENDS Naturals, FiniteSets

CONSTANTS
  Calls,        \* tool calls
  Uids,         \* event UIDs
  Targets,      \* the UIDs the calls are about
  Hrefs,        \* resource paths in the collection
  DirectPath,   \* DirectPath[u]: <collection>/<u>.ics
  MaxLocations, \* maxCachedEventLocations
  MaxVersions,  \* bound on the versions the server hands out
  None          \* no resource, no location, no ETag

Ops == {"create", "update", "delete", "delete_occurrence"}

ASSUME ConstantsAssumption ==
  /\ Targets \subseteq Uids
  /\ DirectPath \in [Targets -> Hrefs]
  /\ MaxLocations \in Nat \ {0}
  /\ MaxVersions \in Nat \ {0}
  /\ None \notin Hrefs \cup (0..MaxVersions)

VARIABLES
  store,      \* the collection: href -> [uid, ver], or None
  clock,      \* the last version the server handed out
  locations,  \* the location cache: UID -> href, or None
  pc,         \* where each call is
  req,        \* its operation, UID, caller ETag and whether it is a dry run
  path,       \* the href it works on
  found,      \* the version it read
  match,      \* the condition it sends
  wire,       \* its PUT or DELETE: not sent, at large, executed or dropped
  status,     \* the status of the answer on its way back
  applied,    \* history: the server executed its write
  replaced,   \* history: what that write replaced
  reply       \* what the call returned

vars == <<store, clock, locations, pc, req, path, found, match, wire, status,
          applied, replaced, reply>>

Versions == 1..MaxVersions
\* The condition of a write: If-Match with a version, If-None-Match: *, or none.
NoneMatch == 0
Conditions == Versions \cup {NoneMatch, None}
Objects == [uid : Uids, ver : Versions]
NoRequest == [op |-> "none", uid |-> None, etag |-> None, dry |-> FALSE]

\* The collection starts empty or with one event under any name; earlier lookups
\* have left any locations in the cache.
Init ==
  /\ \/ store = [h \in Hrefs |-> None] /\ clock = 0
     \/ /\ \E u \in Uids, h \in Hrefs :
             store = [g \in Hrefs |-> IF g = h THEN [uid |-> u, ver |-> 1] ELSE None]
        /\ clock = 1
  /\ locations \in [Targets -> Hrefs \cup {None}]
  /\ Cardinality({u \in Targets : locations[u] # None}) <= MaxLocations
  /\ pc = [c \in Calls |-> "idle"]
  /\ req = [c \in Calls |-> NoRequest]
  /\ path = [c \in Calls |-> None]
  /\ found = [c \in Calls |-> None]
  /\ match = [c \in Calls |-> None]
  /\ wire = [c \in Calls |-> "none"]
  /\ status = [c \in Calls |-> "none"]
  /\ applied = [c \in Calls |-> FALSE]
  /\ replaced = [c \in Calls |-> None]
  /\ reply = [c \in Calls |-> "none"]

server == <<store, clock>>
write == <<wire, status, applied, replaced>>

Goto(c, where) == pc' = [pc EXCEPT ![c] = where]
Return(c, r) == Goto(c, "done") /\ reply' = [reply EXCEPT ![c] = r]

-----------------------------------------------------------------------------
(* The requests.  A caller's ETag is one it has been given before.            *)

\* Local validation, discovery or the resource scope refuses the request.
Deny(c) ==
  /\ pc[c] = "idle"
  /\ Return(c, "error")
  /\ UNCHANGED <<server, locations, req, path, found, match, write>>

\* A client UID is looked up before the PUT; a generated one is not.
CreateEvent(c, u, generated) ==
  /\ pc[c] = "idle"
  /\ req' = [req EXCEPT ![c] = [NoRequest EXCEPT !.op = "create", !.uid = u]]
  /\ path' = [path EXCEPT ![c] = DirectPath[u]]
  /\ Goto(c, IF generated THEN "put" ELSE "exists")
  /\ UNCHANGED <<server, locations, found, match, write, reply>>

\* UpdateEvent and DeleteEvent look the event up by UID.
Locate(c, r) ==
  /\ pc[c] = "idle"
  /\ req' = [req EXCEPT ![c] = r]
  /\ path' = [path EXCEPT ![c] = locations[r.uid]]
  /\ Goto(c, IF locations[r.uid] = None THEN "direct" ELSE "cached")
  /\ UNCHANGED <<server, locations, found, match, write, reply>>

UpdateEvent(c, u, e) ==
  Locate(c, [op |-> "update", uid |-> u, etag |-> e, dry |-> FALSE])

DeleteEvent(c, u, e, o, dry) ==
  /\ o \in {"delete", "delete_occurrence"}
  /\ Locate(c, [op |-> o, uid |-> u, etag |-> e, dry |-> dry])

-----------------------------------------------------------------------------
(* findEventByUID.  Any read may fail, after its retries, without effect.     *)

ReadFails(c) ==
  /\ pc[c] \in {"exists", "cached", "direct", "report", "reget"}
  /\ Return(c, "error")
  /\ UNCHANGED <<server, locations, req, path, found, match, write>>

\* The cache forgets its oldest entry (here: any entry) when it is full.
PutLocation(u, h) ==
  LET known == {v \in Targets : locations[v] # None}
  IN  \/ /\ u \in known \/ Cardinality(known) < MaxLocations
         /\ locations' = [locations EXCEPT ![u] = h]
      \/ /\ u \notin known
         /\ Cardinality(known) >= MaxLocations
         /\ \E v \in known : locations' = [locations EXCEPT ![v] = None, ![u] = h]

EvictLocation(u) == locations' = [locations EXCEPT ![u] = None]

\* Mutant: whatever is at the path is taken for the event.
MatchesAnything(c, h) == store[h] # None

\* The object that a GET of h returns belongs to the call's UID.
Matches(c, h) == store[h] # None /\ store[h].uid = req[c].uid

\* Keep the full object, with the version it has now.
Found(c, h) ==
  /\ found' = [found EXCEPT ![c] = store[h].ver]
  /\ path' = [path EXCEPT ![c] = h]
  /\ Goto(c, "modify")

\* The cached location still holds the event.
GetCached(c) ==
  /\ pc[c] = "cached"
  /\ Matches(c, path[c])
  /\ Found(c, path[c])
  /\ UNCHANGED <<server, locations, req, match, write, reply>>

\* It holds another event: forget the location and fail.
GetCachedOther(c) ==
  /\ pc[c] = "cached"
  /\ store[path[c]] # None
  /\ ~Matches(c, path[c])
  /\ EvictLocation(req[c].uid)
  /\ Return(c, "error")
  /\ UNCHANGED <<server, req, path, found, match, write>>

\* It holds nothing: forget the location and search again.
GetCachedGone(c) ==
  /\ pc[c] = "cached"
  /\ store[path[c]] = None
  /\ EvictLocation(req[c].uid)
  /\ Goto(c, "direct")
  /\ UNCHANGED <<server, req, path, found, match, write, reply>>

GetDirect(c) ==
  /\ pc[c] = "direct"
  /\ LET h == DirectPath[req[c].uid]
     IN  \/ /\ Matches(c, h)
            /\ Found(c, h)
            /\ PutLocation(req[c].uid, h)
            /\ UNCHANGED reply
         \/ /\ store[h] # None
            /\ ~Matches(c, h)
            /\ Return(c, "error")
            /\ UNCHANGED <<locations, path, found>>
         \/ /\ store[h] = None
            /\ Goto(c, "report")
            /\ UNCHANGED <<locations, path, found, reply>>
  /\ UNCHANGED <<server, req, match, write>>

\* REPORT finds the href of an event whose file is not named after its UID.
Report(c) ==
  /\ pc[c] = "report"
  /\ \/ /\ \E h \in Hrefs : Matches(c, h) /\ path' = [path EXCEPT ![c] = h]
        /\ Goto(c, "reget")
        /\ UNCHANGED reply
     \/ /\ \A h \in Hrefs : ~Matches(c, h)
        /\ Return(c, "not_found")
        /\ UNCHANGED path
  /\ UNCHANGED <<server, locations, req, found, match, write>>

\* The object is fetched again: REPORT data is never written back.
Reget(c) ==
  /\ pc[c] = "reget"
  /\ \/ /\ Matches(c, path[c])
        /\ Found(c, path[c])
        /\ PutLocation(req[c].uid, path[c])
        /\ UNCHANGED reply
     \/ /\ ~Matches(c, path[c])
        /\ Return(c, IF store[path[c]] = None THEN "not_found" ELSE "error")
        /\ UNCHANGED <<locations, path, found>>
  /\ UNCHANGED <<server, req, match, write>>

-----------------------------------------------------------------------------
(* From the object to the conditional write. *)

Send(c, e) ==
  /\ match' = [match EXCEPT ![c] = e]
  /\ wire' = [wire EXCEPT ![c] = "sent"]
  /\ Goto(c, "sent")

\* The changes are invalid for the event that was found, the ETag is not a strong
\* one, or the context is over before anything is sent.
ModifyFails(c) ==
  /\ pc[c] \in {"modify", "put"}
  /\ Return(c, "error")
  /\ UNCHANGED <<server, locations, req, path, found, match, write>>

\* Mutant: the ETag that was just read wins over the caller's.
ETagOfFound(c, given) == IF given # None THEN given ELSE req[c].etag

\* The condition: the caller's ETag, or else the one that came with the object.
ETagOf(c, given) == IF req[c].etag # None THEN req[c].etag ELSE given

\* The server may have omitted the ETag: without one the call fails closed.
Modify(c) ==
  /\ pc[c] = "modify"
  /\ \E given \in {found[c], None} :
       LET etag == ETagOf(c, given)
       IN  \/ /\ etag = None
              /\ Return(c, "concurrent_modification")
              /\ UNCHANGED <<match, wire>>
           \/ /\ etag # None
              /\ req[c].dry
              /\ Return(c, "dry_run")
              /\ UNCHANGED <<match, wire>>
           \/ /\ etag # None
              /\ ~req[c].dry
              /\ Send(c, etag)
              /\ UNCHANGED reply
  /\ UNCHANGED <<server, locations, req, path, found, status, applied, replaced>>

\* deleteOccurrence: the occurrence is excluded already and nothing is written;
\* the caller is told success, kept apart here from a success that wrote.
AlreadyExcluded(c) ==
  /\ pc[c] = "modify"
  /\ req[c].op = "delete_occurrence"
  /\ ~req[c].dry
  /\ Return(c, "nothing_to_do")
  /\ UNCHANGED <<server, locations, req, path, found, match, write>>

\* CreateEvent with a client UID first looks whether the resource exists.
CreateExists(c) ==
  /\ pc[c] = "exists"
  /\ \/ store[path[c]] # None /\ Return(c, "conflict")
     \/ store[path[c]] = None /\ Goto(c, "put") /\ UNCHANGED reply
  /\ UNCHANGED <<server, locations, req, path, found, match, write>>

\* Mutant: the look is trusted, the PUT has no If-None-Match.
CreatePutUnconditional(c) ==
  /\ pc[c] = "put"
  /\ Send(c, None)
  /\ UNCHANGED <<server, locations, req, path, found, status, applied, replaced,
                 reply>>

CreatePut(c) ==
  /\ pc[c] = "put"
  /\ Send(c, NoneMatch)
  /\ UNCHANGED <<server, locations, req, path, found, status, applied, replaced,
                 reply>>

-----------------------------------------------------------------------------
(* The server. *)

\* No resource other than h has this UID.
UidFree(u, h) == \A g \in Hrefs \ {h} : store[g] # None => store[g].uid # u

\* If-Match, If-None-Match or no condition at all, and one resource per UID.
Precondition(c) ==
  /\ match[c] = NoneMatch => store[path[c]] = None
  /\ match[c] \in Versions =>
       store[path[c]] # None /\ store[path[c]].ver = match[c]
  /\ UidFree(req[c].uid, path[c])

\* An answer to a client that has gone is dropped.
Respond(c, s) ==
  status' = [status EXCEPT ![c] = IF pc[c] = "sent" THEN s ELSE @]

\* The server executes a PUT or DELETE that is at large, also one whose client
\* has gone.
Execute(c) ==
  /\ wire[c] = "sent"
  /\ Precondition(c)
  /\ IF req[c].op = "delete"
     THEN store' = [store EXCEPT ![path[c]] = None] /\ UNCHANGED clock
     ELSE /\ clock < MaxVersions
          /\ clock' = clock + 1
          /\ store' = [store EXCEPT ![path[c]] = [uid |-> req[c].uid, ver |-> clock + 1]]
  /\ wire' = [wire EXCEPT ![c] = "executed"]
  /\ Respond(c, "2xx")
  /\ applied' = [applied EXCEPT ![c] = TRUE]
  /\ replaced' = [replaced EXCEPT ![c] = store[path[c]]]
  /\ UNCHANGED <<locations, pc, req, path, found, match, reply>>

\* The server refuses: the condition fails, the resource is missing, or it
\* declines for reasons of its own.
Refuse(c, s) ==
  /\ wire[c] = "sent"
  /\ \/ s = "412" /\ ~Precondition(c)
     \/ s = "404" /\ match[c] \in Versions /\ store[path[c]] = None
     \/ s \in {"429", "4xx"}
  /\ wire' = [wire EXCEPT ![c] = "dropped"]
  /\ Respond(c, s)
  /\ UNCHANGED <<server, locations, pc, req, path, found, match, applied,
                 replaced, reply>>

\* A gateway answers 408, 3xx or 5xx while the request is still at large, or
\* replaces the server's answer.
Gateway(c) ==
  /\ pc[c] = "sent"
  /\ status[c] # "5xx"
  /\ status' = [status EXCEPT ![c] = "5xx"]
  /\ UNCHANGED <<server, locations, pc, req, path, found, match, wire, applied,
                 replaced, reply>>

\* Mutant: a gateway error on a mutation is an ordinary failure.
ClassifyGatewayFailed(op, s) ==
  CASE s = "2xx"                     -> "success"
    [] s = "412" /\ op = "create"    -> "conflict"
    [] s = "412" /\ op # "create"    -> "concurrent_modification"
    [] s = "404" /\ op = "delete"    -> "success"
    [] s = "404" /\ op # "delete"    -> "not_found"
    [] s = "429"                     -> "rate_limited"
    [] s \in {"4xx", "5xx"}          -> "error"
    [] s = "lost"                    -> "outcome_unknown"

\* How doCalendarRequest, retryClassifier and the operation read a status.
Classify(op, s) ==
  CASE s = "2xx"                     -> "success"
    [] s = "412" /\ op = "create"    -> "conflict"
    [] s = "412" /\ op # "create"    -> "concurrent_modification"
    [] s = "404" /\ op = "delete"    -> "success"
    [] s = "404" /\ op # "delete"    -> "not_found"
    [] s = "429"                     -> "rate_limited"
    [] s = "4xx"                     -> "error"
    [] s \in {"5xx", "lost"}         -> "outcome_unknown"

\* DeleteEvent evicts the location after a successful series delete.
Receive(c) ==
  /\ pc[c] = "sent"
  /\ status[c] # "none"
  /\ LET r == Classify(req[c].op, status[c])
     IN  /\ Return(c, r)
         /\ IF req[c].op = "delete" /\ r = "success"
            THEN EvictLocation(req[c].uid) ELSE UNCHANGED locations
  /\ UNCHANGED <<server, req, path, found, match, write>>

\* A transport error or the deadline: the answer, if any, is lost.
Lose(c) ==
  /\ pc[c] = "sent"
  /\ Return(c, Classify(req[c].op, "lost"))
  /\ status' = [status EXCEPT ![c] = "none"]
  /\ UNCHANGED <<server, locations, req, path, found, match, wire, applied,
                 replaced>>

-----------------------------------------------------------------------------
(* The other clients of the calendar. *)

Other(new) ==
  /\ store' = new
  /\ UNCHANGED <<locations, pc, req, path, found, match, write, reply>>

OtherWrite(h, u) ==
  /\ clock < MaxVersions
  /\ UidFree(u, h)
  /\ clock' = clock + 1
  /\ Other([store EXCEPT ![h] = [uid |-> u, ver |-> clock + 1]])

OtherDelete(h) ==
  /\ store[h] # None
  /\ UNCHANGED clock
  /\ Other([store EXCEPT ![h] = None])

OtherMove(g, h) ==
  /\ store[g] # None
  /\ store[h] = None
  /\ clock < MaxVersions
  /\ clock' = clock + 1
  /\ Other([store EXCEPT ![g] = None, ![h] = [uid |-> store[g].uid, ver |-> clock + 1]])

Find(c) ==
  \/ GetCached(c) \/ GetCachedOther(c) \/ GetCachedGone(c)
  \/ GetDirect(c) \/ Report(c) \/ Reget(c)

CallStep(c) ==
  \/ Deny(c) \/ ReadFails(c) \/ Find(c) \/ ModifyFails(c) \/ Modify(c) \/ AlreadyExcluded(c)
  \/ CreateExists(c) \/ CreatePut(c) \/ Receive(c) \/ Lose(c)

Next ==
  \/ \E c \in Calls :
       \/ \E u \in Targets :
            \/ \E generated \in BOOLEAN : CreateEvent(c, u, generated)
            \/ \E e \in (1..clock) \cup {None} :
                 \/ UpdateEvent(c, u, e)
                 \/ \E o \in Ops, dry \in BOOLEAN : DeleteEvent(c, u, e, o, dry)
       \/ CallStep(c) \/ Execute(c) \/ Gateway(c)
       \/ \E s \in {"412", "404", "429", "4xx"} : Refuse(c, s)
  \/ \E h \in Hrefs :
       \/ \E u \in Uids : OtherWrite(h, u)
       \/ OtherDelete(h)
       \/ \E g \in Hrefs : OtherMove(g, h)

Spec == Init /\ [][Next]_vars

-----------------------------------------------------------------------------
(* Properties. *)

\* The shape of the collection, the cache and the calls.
TypeOK ==
  /\ store \in [Hrefs -> Objects \cup {None}]
  /\ clock \in 0..MaxVersions
  /\ locations \in [Targets -> Hrefs \cup {None}]
  /\ pc \in [Calls -> {"idle", "exists", "cached", "direct", "report", "reget",
                       "modify", "put", "sent", "done"}]
  /\ req \in [Calls -> [op : Ops \cup {"none"}, uid : Targets \cup {None},
                        etag : Versions \cup {None}, dry : BOOLEAN]]
  /\ path \in [Calls -> Hrefs \cup {None}]
  /\ found \in [Calls -> Versions \cup {None}]
  /\ match \in [Calls -> Conditions]
  /\ wire \in [Calls -> {"none", "sent", "executed", "dropped"}]
  /\ status \in [Calls -> {"none", "2xx", "412", "404", "429", "4xx", "5xx"}]
  /\ applied \in [Calls -> BOOLEAN]
  /\ replaced \in [Calls -> Objects \cup {None}]
  /\ reply \in [Calls -> {"none", "success", "conflict", "not_found", "error",
                          "concurrent_modification", "rate_limited", "dry_run",
                          "nothing_to_do", "outcome_unknown"}]

\* No update is lost and no stranger is touched: a write that takes effect
\* replaces exactly the version its call has read, of the event it is about, and
\* the version its caller named if it named one, whatever the location cache said
\* and whoever wrote in between; a create replaces nothing, not even an event that
\* appeared between its look and its PUT.
ReplacesWhatItRead ==
  \A c \in Calls : applied[c] =>
    IF req[c].op = "create" THEN replaced[c] = None
    ELSE /\ replaced[c] # None
         /\ replaced[c].uid = req[c].uid
         /\ replaced[c].ver = found[c]
         /\ req[c].etag \in {None, replaced[c].ver}

\* What a call reports is true, now and for ever after: success was executed
\* (or the resource to delete was gone), and every other definite answer means
\* the write was not and will not be executed.  Only outcome_unknown is open.
ReplyIsDefinite ==
  \A c \in Calls :
    /\ reply[c] = "success" => applied[c] \/ (req[c].op = "delete" /\ status[c] = "404")
    /\ reply[c] \notin {"none", "success", "outcome_unknown"}
         => ~applied[c] /\ wire[c] # "sent"
=============================================================================
