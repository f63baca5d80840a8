---------------------------- MODULE CalendarReads ---------------------------
(***************************************************************************)
(* search_events and find_free_slots: the selection of calendars, the pool *)
(* of workers that reads them side by side (mcptools/calendar_reads.go),   *)
(* the guarded service with its rate limiter, read slots and retries       *)
(* (icloud/middleware.go), and how a call puts the results together        *)
(* (mcptools/search_events.go, mcptools/find_free_slots.go).               *)
(*                                                                         *)
(* An event is [uid, start, end, allDay, opaque, match]; uid stands for    *)
(* all that the sort of search_events breaks ties by (UID, calendar and    *)
(* title), match is whether its filters keep the event.  What a calendar   *)
(* holds does not change during a behaviour; a read may fail in every way  *)
(* the code tells apart.                                                   *)
(***************************************************************************)
EXTENDS FreeSlots, FiniteSetsExt

CONSTANTS
  Calls,            \* concurrent tool calls
  CalendarList,     \* the discovered calendars, in order
  Scope,            \* the calendars that calendar:read is limited to
  Worlds,           \* possible contents: calendar -> set of events
  SearchArgs,       \* arguments of search_events: [from, to, offset, limit]
  SlotArgs,         \* arguments of find_free_slots: options of FreeSlots
  Workers,          \* calendarReadConcurrency
  ReadSlots,        \* capacity of the read semaphore
  MaxRetries,       \* retries of an unclassified error
  MaxResults,       \* rows a search keeps
  MaxMaterialized,  \* rows a search holds in memory
  MaxRows           \* rows that fit into a response

ASSUME ReadsAssumption ==
  /\ CalendarList \in Seq(ToSet(CalendarList))
  /\ Scope \subseteq ToSet(CalendarList)
  /\ {Workers, ReadSlots} \subseteq Nat \ {0}
  /\ {MaxRetries, MaxResults, MaxMaterialized, MaxRows} \subseteq Nat

Event == [uid : Nat, start : Int, end : Int, allDay : BOOLEAN, opaque : BOOLEAN, match : BOOLEAN]

\* Arguments as the handlers pass them on.  The days of the model go on for two
\* days after the last one on which a slot may begin.
ASSUME ArgsAssumption ==
  /\ \A a \in SearchArgs : a \in [from : Int, to : Int, offset : Nat, limit : Nat]
  /\ \A a \in SlotArgs :
       /\ a \in SlotOptions
       /\ \A d \in CivilDays : WallClock[d][0] <= a.to => d + 2 \in CivilDays

VARIABLES
  world,      \* what the calendars hold
  call,       \* call[c]: its step, tool, arguments, selection and the next index to hand out
  worker,     \* worker[c][w]: its step, the index it reads and the attempts made
  results,    \* results[c][i]: the result of the read of the i-th selected calendar
  slots,      \* read slots in use
  others,     \* of these, the slots that reads of other tools hold
  cancelled,  \* calls whose context is done
  reply       \* reply[c]: the answer of the tool

vars == <<world, call, worker, results, slots, others, cancelled, reply>>

FatalCodes == {"authentication_failed", "protocol_error"}    \* never only a warning
Listing == 0    \* the index of a worker that lists the calendars

NoCall == [pc |-> "new", tool |-> "none", args |-> <<>>, explicit |-> FALSE, sel |-> <<>>, next |-> 1]
AtRest == [pc |-> "idle", index |-> 0, tries |-> 0]
NoReply == [kind |-> "none"]
Failure(code) == [kind |-> "error", code |-> code]
ReadFailed(code) == [error |-> code, events |-> {}, truncated |-> FALSE, skipped |-> {}]

Init ==
  /\ world \in Worlds
  /\ call = [c \in Calls |-> NoCall]
  /\ worker = [c \in Calls |-> [w \in 1..Workers |-> AtRest]]
  /\ results = [c \in Calls |-> <<>>]
  /\ slots = 0 /\ others = 0
  /\ cancelled = {}
  /\ reply = [c \in Calls |-> NoReply]

-----------------------------------------------------------------------------
(* The events a read asks for. *)

\* An all-day event is parsed to the midnights of its dates in UTC.
UtcSpan(e) == IF e.allDay THEN [start |-> e.start * DayMinutes, end |-> e.end * DayMinutes]
              ELSE [start |-> e.start, end |-> e.end]

\* A calendar holds finitely many events; the all-day ones are on days of the
\* model, and no two events of a world have the same place in the sorted rows.
ASSUME WorldsAssumption ==
  \A w \in Worlds :
    /\ \A cal \in ToSet(CalendarList) :
         /\ IsFiniteSet(w[cal]) /\ w[cal] \subseteq Event
         /\ \A e \in w[cal] : e.allDay => {e.start, e.end} \subseteq CivilDays
    /\ \A x, y \in ToSet(CalendarList) : \A e \in w[x], f \in w[y] :
         e # f => e.uid # f.uid \/ UtcSpan(e).start # UtcSpan(f).start

Overlaps(e, range) == UtcSpan(e).start < range.to /\ UtcSpan(e).end > range.from

\* Mutant: the reads cover the requested range only.
QueryRangePlain(c) == [from |-> call[c].args.from, to |-> call[c].args.to]

\* find_free_slots widens its range by the buffers.
QueryRange(c) ==
  LET a == call[c].args
  IN  IF call[c].tool = "search" THEN [from |-> a.from, to |-> a.to]
      ELSE [from |-> a.from - a.after, to |-> a.to + a.before]

EventsOf(cal, range) == {e \in world[cal] : Overlaps(e, range)}

-----------------------------------------------------------------------------
(* The handlers up to the reads. *)

Answer(c, r) ==
  /\ reply' = [reply EXCEPT ![c] = r]
  /\ call' = [call EXCEPT ![c].pc = "done"]

InScope(sel) == ToSet(sel) \subseteq Scope

\* The reads of the selection start: as many workers as there are calendars.
BeginReads(c, a, t, explicit, sel) ==
  /\ call' = [call EXCEPT ![c] = [pc |-> "reading", tool |-> t, args |-> a, explicit |-> explicit,
                                  sel |-> sel, next |-> 1]]
  /\ results' = [results EXCEPT ![c] = [i \in DOMAIN sel |-> ReadFailed("none")]]

\* A call that names its calendars: all of them have to be in scope.
StartExplicit(c) ==
  /\ call[c].pc = "new"
  /\ \E t \in {"search", "slots"}, sel \in {<<CalendarList[i]>> : i \in DOMAIN CalendarList} \cup {CalendarList} :
       \E a \in IF t = "search" THEN SearchArgs ELSE SlotArgs :
         IF InScope(sel)
         THEN BeginReads(c, a, t, TRUE, sel) /\ UNCHANGED reply
         ELSE Answer(c, Failure("authorization_denied")) /\ UNCHANGED results
  /\ UNCHANGED <<world, worker, slots, others, cancelled>>

\* A call without a selection first lists the calendars, through the same guard.
StartDefault(c) ==
  /\ call[c].pc = "new"
  /\ \E t \in {"search", "slots"} :
       \E a \in IF t = "search" THEN SearchArgs ELSE SlotArgs :
         call' = [call EXCEPT ![c] = [pc |-> "listing", tool |-> t, args |-> a, explicit |-> FALSE,
                                      sel |-> <<>>, next |-> 1]]
  /\ worker' = [worker EXCEPT ![c][1] = [pc |-> "limit", index |-> Listing, tries |-> 0]]
  /\ UNCHANGED <<world, results, slots, others, cancelled, reply>>

\* Arguments that do not validate are answered at once.
Refuse(c) ==
  /\ call[c].pc = "new"
  /\ Answer(c, Failure("validation_error"))
  /\ UNCHANGED <<world, worker, results, slots, others, cancelled>>

KeepAllowed(out, cal) == IF cal \in Scope THEN Append(out, cal) ELSE out

\* The calendars of a default selection: search_events leaves out what is not in
\* scope, find_free_slots takes the list as it is.
DefaultSelection(t) ==
  IF t = "search" THEN FoldLeft(KeepAllowed, <<>>, CalendarList) ELSE CalendarList

\* What the handler does with the list, or the error of listing.
Listed(c, code) ==
  LET sel == DefaultSelection(call[c].tool)
      empty == IF call[c].tool = "search" THEN "authorization_denied" ELSE "validation_error"
  IN  CASE code # "none" -> Answer(c, Failure(code)) /\ UNCHANGED results
        [] code = "none" /\ c \in cancelled -> Answer(c, Failure("timeout")) /\ UNCHANGED results
        [] code = "none" /\ c \notin cancelled /\ sel = <<>> ->
             Answer(c, Failure(empty)) /\ UNCHANGED results
        [] OTHER -> BeginReads(c, call[c].args, call[c].tool, FALSE, sel) /\ UNCHANGED reply

-----------------------------------------------------------------------------
(* The worker pool and the guarded service. *)

PoolSize(c) == IF Workers > Len(call[c].sel) THEN Len(call[c].sel) ELSE Workers
Busy(c, w) == worker[c][w].pc \in {"limit", "acquire", "attempt"}

\* The handler hands the next index to a worker that is waiting for one; nothing
\* but a waiting worker ends this wait.
HandOut(c, w) ==
  /\ call[c].pc = "reading" /\ call[c].next <= Len(call[c].sel)
  /\ w <= PoolSize(c) /\ worker[c][w].pc = "idle"
  /\ worker' = [worker EXCEPT ![c][w] = [pc |-> "limit", index |-> call[c].next, tries |-> 0]]
  /\ call' = [call EXCEPT ![c].next = @ + 1]
  /\ UNCHANGED <<world, results, slots, others, cancelled, reply>>

\* Mutant: a worker whose read failed takes no further calendar.
WorkerAfterFailsFast(code) == IF code = "none" THEN AtRest ELSE [AtRest EXCEPT !.pc = "gone"]

\* A worker that has stored its result asks for the next one.
WorkerAfter(code) == AtRest

\* The read of worker w ends with result r.
Return(c, w, r) ==
  /\ worker' = [worker EXCEPT ![c][w] = IF @.index = Listing THEN AtRest ELSE WorkerAfter(r.error)]
  /\ IF worker[c][w].index = Listing
     THEN Listed(c, r.error)
     ELSE /\ results' = [results EXCEPT ![c][worker[c][w].index] = r]
          /\ UNCHANGED <<call, reply>>

\* waitLimiter: a token within maxRateWait, or the call is turned away.
PassLimiter(c, w) ==
  /\ worker[c][w].pc = "limit" /\ c \notin cancelled
  /\ worker' = [worker EXCEPT ![c][w].pc = "acquire"]
  /\ UNCHANGED <<world, call, results, slots, others, cancelled, reply>>

TurnAway(c, w) ==
  /\ worker[c][w].pc = "limit"
  /\ Return(c, w, ReadFailed(IF c \in cancelled THEN "timeout" ELSE "rate_limited"))
  /\ UNCHANGED <<world, slots, others, cancelled>>

\* acquireCalendar: a free slot or a context that is done, whichever is seen.
Acquire(c, w) ==
  /\ worker[c][w].pc = "acquire" /\ slots < ReadSlots
  /\ slots' = slots + 1
  /\ worker' = [worker EXCEPT ![c][w].pc = "attempt"]
  /\ UNCHANGED <<world, call, results, others, cancelled, reply>>

AcquireCancelled(c, w) ==
  /\ worker[c][w].pc = "acquire" /\ c \in cancelled
  /\ Return(c, w, ReadFailed("timeout"))
  /\ UNCHANGED <<world, slots, others, cancelled>>

\* The answer of a read that works, or of one whose expansion had to stop short.
\* reportCalendarQuery passes over a row of the REPORT that has no 200 propstat or no
\* calendar-data, and says so nowhere; skipped, a history field, has its events.
ReadOf(c, w) ==
  IF worker[c][w].index = Listing THEN {ReadFailed("none")}
  ELSE LET all == EventsOf(call[c].sel[worker[c][w].index], QueryRange(c))
           Read(s, x) == [error |-> "none", events |-> all \ (s \cup x), truncated |-> x # {},
                          skipped |-> s]
       IN  UNION {{Read(s, x) : x \in {{}} \cup {{e} : e \in all \ s}} : s \in SUBSET all}

\* An attempt that ends the read: the slot is given back whatever the result.
FinishRead(c, w) ==
  /\ worker[c][w].pc = "attempt"
  /\ \/ \E r \in ReadOf(c, w) : Return(c, w, r)
     \/ c \in cancelled /\ Return(c, w, ReadFailed("timeout"))
     \/ \E code \in FatalCodes \cup {"unavailable"} : Return(c, w, ReadFailed(code))
     \/ worker[c][w].tries = MaxRetries /\ Return(c, w, ReadFailed("internal_error"))
  /\ slots' = slots - 1
  /\ UNCHANGED <<world, others, cancelled>>

\* Only an error without a class is tried again, in the same slot.
RetryRead(c, w) ==
  /\ worker[c][w].pc = "attempt" /\ worker[c][w].tries < MaxRetries /\ c \notin cancelled
  /\ worker' = [worker EXCEPT ![c][w].tries = @ + 1]
  /\ UNCHANGED <<world, call, results, slots, others, cancelled, reply>>

\* get_event and the like use the same slots, for as long as they need.
OtherAcquires ==
  /\ slots < ReadSlots
  /\ slots' = slots + 1 /\ others' = others + 1
  /\ UNCHANGED <<world, call, worker, results, cancelled, reply>>

OtherReleases ==
  /\ others > 0
  /\ slots' = slots - 1 /\ others' = others - 1
  /\ UNCHANGED <<world, call, worker, results, cancelled, reply>>

\* The deadline of the tool call, or its cancellation.
Cancel(c) ==
  /\ call[c].pc \in {"listing", "reading"} /\ c \notin cancelled
  /\ cancelled' = cancelled \cup {c}
  /\ UNCHANGED <<world, call, worker, results, slots, others, reply>>

-----------------------------------------------------------------------------
(* Putting the results together. *)

AllRead(c) == /\ call[c].pc = "reading" /\ call[c].next > Len(call[c].sel)
              /\ \A w \in 1..Workers : ~Busy(c, w)

\* By start, then by uid.
RowBefore(a, b) == \/ UtcSpan(a).start < UtcSpan(b).start
                   \/ UtcSpan(a).start = UtcSpan(b).start /\ a.uid < b.uid
Rows(s, from, to) == SubSeq(s, from, IF to < Len(s) THEN to ELSE Len(s))

\* Mutant: a calendar that could not be read only leaves a warning.
PartialFailureNever(failed) == FALSE

\* A calendar that could not be read makes the answer a partial one.
PartialFailure(failed) == failed # {}

SearchReply(c) ==
  LET n       == Len(call[c].sel)
      read    == results[c]
      failed  == {i \in 1..n : read[i].error # "none"}
      fatal   == {i \in failed : read[i].error \in FatalCodes}
      multi   == n > 1 \/ ~call[c].explicit
      kept    == UNION {{e \in read[i].events : e.match} : i \in 1..n}
      sorted  == InOrder(kept, RowBefore)
      rows    == Rows(sorted, 1, MaxResults)
      page    == Rows(rows, call[c].args.offset + 1, call[c].args.offset + call[c].args.limit)
      stops   == IF multi THEN fatal ELSE failed
      partial == PartialFailure(failed)
  IN  CASE stops # {} -> Failure(read[Min(stops)].error)
        [] stops = {} /\ c \in cancelled -> Failure("timeout")
        [] stops = {} /\ c \notin cancelled /\ Cardinality(kept) > MaxMaterialized ->
             Failure("payload_too_large")
        [] stops = {} /\ c \notin cancelled /\ kept = {} /\ partial -> Failure("partial_failure")
        [] OTHER -> [kind |-> "events", rows |-> Rows(page, 1, MaxRows), total |-> Len(sorted),
                     truncated |-> Len(sorted) > MaxResults \/ Len(page) > MaxRows,
                     expansion |-> \E i \in 1..n : read[i].truncated,
                     partial |-> partial]

\* Mutant: a calendar that could not be read counts as one without events.
IncompleteReadsIgnored(c) == {i \in DOMAIN results[c] : results[c][i].truncated}

\* The reads for which find_free_slots gives up, in order.
IncompleteReads(c) == {i \in DOMAIN results[c] : results[c][i].error # "none" \/ results[c][i].truncated}

SlotsReply(c) ==
  LET bad == IncompleteReads(c)
      a   == call[c].args
      all == UNION {results[c][i].events : i \in DOMAIN results[c]}
  IN  CASE bad # {} -> Failure(LET r == results[c][Min(bad)]
                               IN  IF r.error # "none" THEN r.error ELSE "partial_failure")
        [] bad = {} /\ c \in cancelled -> Failure("timeout")
        [] bad = {} /\ c \notin cancelled /\ ~OptionsValid(a) -> Failure("validation_error")
        [] OTHER -> [kind |-> "slots", slots |-> FindFreeSlots(BusyFromEvents(all, a), a)]

\* All indexes are handed out and the workers are done.
Combine(c) ==
  /\ AllRead(c)
  /\ Answer(c, IF call[c].tool = "search" THEN SearchReply(c) ELSE SlotsReply(c))
  /\ UNCHANGED <<world, worker, results, slots, others, cancelled>>

WorkerStep(c, w) ==
  \/ HandOut(c, w) \/ PassLimiter(c, w) \/ TurnAway(c, w) \/ Acquire(c, w)
  \/ AcquireCancelled(c, w) \/ FinishRead(c, w) \/ RetryRead(c, w)

Start(c) == StartExplicit(c) \/ StartDefault(c) \/ Refuse(c)

\* Every call has been answered.
Finished == (\A c \in Calls : call[c].pc = "done") /\ UNCHANGED vars

Next ==
  \/ \E c \in Calls : Start(c) \/ Cancel(c) \/ Combine(c) \/ \E w \in 1..Workers : WorkerStep(c, w)
  \/ OtherAcquires \/ OtherReleases \/ Finished

\* Deadlines fire, the limiter and the HTTP client end their waits, and a worker
\* or a handler that can go on does.
Fairness ==
  \A c \in Calls : /\ WF_vars(Cancel(c)) /\ WF_vars(Combine(c))
                   /\ \A w \in 1..Workers : WF_vars(WorkerStep(c, w))

Spec == Init /\ [][Next]_vars /\ Fairness

-----------------------------------------------------------------------------
\* The shape of calls and results; a read slot belongs to each running attempt.
TypeOK ==
  /\ world \in Worlds
  /\ \A c \in Calls : /\ call[c].pc \in {"new", "listing", "reading", "done"}
                      /\ DOMAIN results[c] = DOMAIN call[c].sel
  /\ slots \in 0..ReadSlots
  /\ slots = others + Cardinality({p \in Calls \X (1..Workers) : worker[p[1]][p[2]].pc = "attempt"})

AnswerKind(c, k) == call[c].pc = "done" /\ reply[c].kind = k

Touches(slot, span, opts) == slot.start < span.end + opts.after /\ span.start - opts.before < slot.end

\* What an event covers: an all-day one its civil days in the zone of the call.
CivilSpan(e) == [start |-> IF e.allDay THEN WallClock[e.start][0] ELSE e.start,
                 end   |-> IF e.allDay THEN WallClock[e.end][0] ELSE e.end]

\* find_free_slots offers no time at which a selected calendar holds a busy event,
\* buffers included, whichever reads failed, were cut or came in any order
\* (find_free_slots.go: it fails closed and widens the range), with one exception: an
\* event whose row of the REPORT came without its data.  Such a row is skipped in
\* silence (client.go:1019-1022), so a slot may be offered over it, although the tool
\* "fails closed on any incomplete calendar" (docs/caldav-compatibility.md:147).
\* An all-day event counts on request, and if its days in UTC reach into the range
\* too: a read sees no other.  An event that takes no time, buffers included, is not
\* busy (freeslots.go:67).
FreeMeansFree ==
  \A c \in Calls : AnswerKind(c, "slots") =>
    LET a == call[c].args
    IN  \A s \in ToSet(reply[c].slots), i \in DOMAIN call[c].sel :
        \A e \in world[call[c].sel[i]] \ results[c][i].skipped :
          /\ e.opaque
          /\ e.allDay => a.allDayBusy /\ Overlaps(e, [from |-> a.from - a.after, to |-> a.to + a.before])
          /\ CivilSpan(e).start - a.before < CivilSpan(e).end + a.after
          => ~Touches(s, CivilSpan(e), a)

\* An answer of search_events lists events that match, in order; unless it says
\* that a calendar failed or an expansion was cut, its total counts every event that
\* was sent with its data, and unless it is also truncated its rows are the page of
\* these asked for (search_events.go: the merge of the reads).  The events of rows
\* without data are missing from both and no flag tells (client.go:1019-1022).
SearchIsHonest ==
  \A c \in Calls : AnswerKind(c, "events") =>
    LET r   == reply[c]
        a   == call[c].args
        range == [from |-> a.from, to |-> a.to]
        sent  == UNION {EventsOf(call[c].sel[i], range) \ results[c][i].skipped : i \in DOMAIN call[c].sel}
        all == {e \in sent : e.match}
        complete == ~r.partial /\ ~r.expansion
    IN  /\ ToSet(r.rows) \subseteq all
        /\ complete => r.total = Cardinality(all)
        /\ complete /\ ~r.truncated =>
             r.rows = Rows(InOrder(all, RowBefore), a.offset + 1, a.offset + a.limit)

\* Every call that starts is answered, whatever fails or is cancelled: the
\* handler's send to the pool has no other way out than a waiting worker
\* (calendar_reads.go:parallelCalendarReads).
ReadsReturn == \A c \in Calls : (call[c].pc # "new") ~> (call[c].pc = "done")

\* No call reads a calendar that calendar:read is not allowed for
\* (docs/architecture.md: the allowlist is checked in each domain operation path).
ReadsStayInScope == \A c \in Calls : ToSet(call[c].sel) \subseteq Scope
=============================================================================
