# Verification of icloud-mcp

icloud-mcp is a Model Context Protocol server that gives an assistant tools for
iCloud Calendar (CalDAV), Contacts (CardDAV) and Mail (IMAP and SMTP). This
directory holds TLA+ models of the parts where a test can hardly reach the
interesting orders of events: what happens when two calls race, when an answer
is lost, when a server applies a write after the client has given up.

## 1. The system

| Component | State | Operations | What is hard |
|---|---|---|---|
| Stdio server and timeout middleware (`cmd/icloud-mcp/main.go`, `bounded_stdio.go`) | `handlerSlots` channel, per-call context and outcome channel, recorded read error | receive a call, take a slot, run the handler, answer at the deadline, shut down | handlers outlive their answer; slots won at the deadline; shutdown with hung handlers |
| Update idempotency cache (`internal/mcptools/idempotency.go`) | map of entries with a done channel, hash, outcome, expiry | begin, wait, complete, purge | duplicates in flight; uncertain outcomes; entries purged under a waiter; the cache at its limit |
| Calendar writes (`internal/icloud/client.go`, `dav.go`, `retry.go`, `location_cache.go`) | the remote collection, the location cache | find by UID, create, update, delete, delete an occurrence | other clients write in between; stale locations and ETags; gateways answer for a server still at work |
| Mail sending (`internal/mail/smtp.go`, `send_idempotency.go`, `reply.go`) | claims, the send semaphore, the phase of each SMTP session | send, reply | lost final replies; partial recipients; panics of the protocol library |
| Mail mutations (`internal/mail/mutation.go`, `imapadapter/session.go`) | mailboxes shared with other clients, mutation semaphore | set flags, conditional set, move, trash | COPY, STORE and EXPUNGE fail separately; UIDVALIDITY changes |
| Mail reading (`internal/mail/service.go`, `read.go`) | read semaphore | list, search, read | UID paging over a mailbox that changes; results at their size limit |
| Discovery (`internal/icloud/discovery.go`, `internal/contacts/discovery.go`) | discovered flag, in-flight channel, base URLs | discover | single flight with waiters, failure and retry |
| Calendar reads (`internal/mcptools/calendar_reads.go`, `search_events.go`, `find_free_slots.go`, `internal/icloud/middleware.go`) | limiter, read semaphore, worker pool | search events, find free slots | several reads side by side, some failed, some cut, under one deadline |
| Contact writes (`internal/contacts/operations.go`, `dav.go`) | the remote address book, the network semaphore | create, update, delete | as for the calendar, with redirects and a read-back |
| Contact search (`internal/contacts/operations.go`, `internal/mcptools/resources.go`) | none | search over books | budgets, limits and flags that must add up |
| iCalendar and vCard editing (`internal/icloud/client.go`, `ical.go`, `internal/contacts/vcard.go`) | none | patch an object and keep the rest | occurrence, override and exception in every form of dates |
| Recurrence expansion, free slots (`internal/icloud/recurrence.go`, `freeslots.go`) | none | pure algorithms | interval boundaries, nights, clock changes, caps |
| Configuration, capability plan, scopes (`internal/config`, `internal/mcptools/register.go`, `resources.go`) | none after start | decide which tools and resources are available | combinations of switches |
| Security helpers, health, doctor | logs | redact, audit, allow hosts, diagnose | string handling |

A tool call enters through the stdio server, passes the timeout middleware, runs
in a handler of `internal/mcptools`, which validates, authorizes and calls a
service (calendar, contacts or mail). Services talk to iCloud, which other
devices of the same user change at any time. Nothing is persisted: a restart
starts from the empty caches.

## 2. Modules

| Module | Models | Extends |
|---|---|---|
| `OnceContract` | what both idempotency caches promise: one execution per key, until its outcome is known and expired | |
| `IdempotencyStore` | update idempotency cache and the two handlers that use it | |
| `IdempotencyStoreProofs` | theorems about it | `IdempotencyStore`, `TLAPS` |
| `ToolCall` | middleware, handlers and the life of the stdio server | |
| `ToolCallProofs` | theorems about it | `ToolCall`, `TLAPS` |
| `MailSend` | send cache and SMTP submission | |
| `MailSendProofs` | theorems about it | `MailSend`, `TLAPS` |
| `CalendarWrite` | calendar writes against a shared collection | |
| `CalendarWriteProofs` | theorems about it | `CalendarWrite`, `TLAPS` |
| `MailMutation` | set flags, move and trash against a shared mailbox | |
| `MailMutationProofs` | theorems about it | `MailMutation`, `TLAPS` |
| `Discovery` | single-flight discovery of the calendar and contacts services | |
| `DiscoveryProofs` | theorems about it | `Discovery`, `TLAPS` |
| `ContactWrite` | contact writes against a shared address book | |
| `ContactWriteProofs` | theorems about it | `ContactWrite`, `TLAPS` |
| `CalendarReads` | search_events and find_free_slots over several calendars | `FreeSlots` |
| `FreeSlots` | the free-slot computation | |
| `DayWalk` | its loop over the civil days of a window, one step per day | `FreeSlots` |
| `Recurrence` | expansion of a series in a range | |
| `EventEdit` | series and occurrence edits of an iCalendar object, read back and expanded | `Recurrence` |
| `VCardPatch` | patching and creating vCards | |
| `ContactSearch` | the bounded search over address books | |
| `MailRead` | paging of search_messages, body selection of get_message | |
| `Algorithms` | one input at a time for the algorithm modules | `FreeSlots`, `EventEdit`, `VCardPatch`, `ContactSearch`, `MailRead` |
| `ReadProofs` | theorems about `CalendarReads`, `Algorithms` and `DayWalk` | these and `TLAPS` |
| `MC*` | constants, inputs and symmetry of the runs | one of the above |

`IdempotencyStore` and `MailSend` are each shown to implement `OnceContract`
(`ImplementsContract`).

### IdempotencyStore

`beginContext` holds the mutex for one pass through look-up, purge and claim; the
pass is one action per way it can end (`BeginCancelled`, `BeginConflict`,
`BeginHit`, `BeginWait`, `BeginFull`, `BeginClaim`). The waiter's `select` is one
action per case (`WakeDone`, `WakeCancelled`, `WakeTimer`). The service call ends
in `ServiceReturn`, `Complete` is `complete` under the mutex together with the
return of the handler. Entry objects are named by the call that claimed them,
because a waiter holds a pointer that outlives the map's reference. `claimedAt`
and `finishedAt` are history. A request without a key never touches the store and
is left out.

### ToolCall

Two goroutines per call: the middleware (`EnterExpired` to `GraceExpires`) and the
handler (`Dispatch`, `HandlerReturn`, `ReleaseSlot`). `ctxDone` is the call's
context; `Expire` its deadline or the client's cancellation. `ReadError`,
`Signal` and `ListenBoundedStdio` are the server. The mcp-go library is external:
its `Listen` returns once its context is cancelled and its workers have answered.

### MailSend

`SendMessage`, the claim, and `sendOnce` with one action per step that can fail:
prepare, acquire, connect, each RCPT, DATA, payload, panic.
`delivered` is what the mail server does with the message, which the client does
not see; `LateDelivery` is the server acting after the reply was lost. The Sent copy
(`archive.go`) is left out: no tool call reaches it (section 4).

### CalendarWrite

`store` is the remote collection with a version per resource. `Find` is
`findEventByUID` with one action per request. `Execute`, `Refuse` and `Gateway`
are the server and its gateway; a request whose client has gone stays on the wire
and may still be executed. `Other*` are the other clients of the calendar.
ETags are the versions; the server never reuses one, enforces preconditions and
keeps UIDs unique in a collection. The two variants of a write's outcome the
caller cannot tell apart are kept apart as `applied` and `replaced`.

### MailMutation

A call waits for `mutationSem`, selects the mailbox, checks UIDVALIDITY, fetches
the message and dispatches its first command. `Outcome` says what each tagged
answer leads to: the next command of the COPY, mark, expunge fallback, the
verification of a plain STORE, or the result. `Execute*` is the server and takes
effect also when the client has gone (`Lose`); `Other*` and `Recreate` are other
clients. One flag stands for the flags, and the destination mailbox is the fact
that a copy was made. `did` and `touched` are history. The library discards the
tagged MODIFIED code, so a conditional STORE is judged by its FETCH
(`ValidateConditionalStore`). The server sends any: none, one with the new state, one
with the state of a message whose condition failed, or one that cannot be used
(`Fetch`, `Unusable`).

### Discovery

Both services have the same `discover` loop: one pass under the mutex
(`LookupDiscovered`, `LookupInFlight`, `Start`), the waiter's `select` (`Wake`,
`WakeCancelled`), the attempt outside the mutex (`Propfind`, `PropfindFails`,
`PropfindCancelled`) and the second critical section (`Finish`). `Use` is the read
of the locations without the mutex. The attempt's channel is named by its owner,
since a call of `discover` runs at most one attempt. `Steps` is the number of
requests of an attempt: two for the calendar, two and one per home set for
contacts.

### ContactWrite

The protocol of `operations.go` over `doDAV`: one attempt at a time, each under a
place of the shared semaphore (`StartRead`, `Release`, `Send`), reads that are
retried (`RetryRead`) and redirected inside the book (`RedirectRead`), writes that
are sent once. A lookup is a UID query and a full GET; an update or a create is read
back (`Reget`), and a read-back that fails leaves the success standing. The server
(`Execute`, `Refuse`, `Gateway`) and the other clients are external, as in
`CalendarWrite`; a created contact gets a resource name nobody uses, so the server's
UID check is what stops a duplicate.

### CalendarReads

A call validates, resolves its selection (`StartExplicit`, or `StartDefault` and
`Listed` after a listing through the same guard), hands indexes to its workers over
an unbuffered channel (`HandOut`), and combines the results once all are in
(`Combine`). Each read passes the limiter, takes a read slot that other tools use
too (`OtherAcquires`), is retried only for errors without a class and gives the slot
back whatever happens. `SearchReply` and `SlotsReply` are the two handlers' merges.
What a calendar holds is fixed during a behaviour; a read can return all of it, all
but one event with the flag that says so, or any class of error. Any of its rows may
come without data: `ReadOf` passes over them as `reportCalendarQuery` does, and the
history field `skipped` keeps their events for the properties. An all-day event
has civil days; `UtcSpan` is what the parser makes of them, `WallClock` maps civil
time of the configured zone to instants.

### The algorithm modules

`FreeSlots`, `Recurrence`, `EventEdit`, `VCardPatch`, `ContactSearch` and `MailRead`
are operators with the names of the Go functions, each next to the reference
definition it is compared with (`SlotsAreRight`, `Occurrences`, `EditIsExact`,
`PatchIsExact`, `ContactsAreHonest`, `PagingIsComplete`, `BodyIsAccountedFor`).
`Algorithms` picks one input and computes its result in one step, so that a run is
a check of every input of a set.

Time is counted in instants; a civil day has `DayMinutes` of them except where the
clock changes. A recurrence rule is a first start, a step and a count: the rule
library is external, the code around it (lower bound, cap, budget, EXDATE, overrides)
is modelled. An iCalendar object in `EventEdit` keeps the form of its dates (date,
zone, UTC, floating) and of its length (DTEND, DURATION, none), since writing a time
in a form and reading it back is where occurrence edits can go wrong. A vCard is a
sequence of lines `[group, name, value]`. A contact has one sort key: the code sorts
twice, by the name as it is and by the name without blanks at its ends, and the model's
names have none. A book is the rows a REPORT has for it, some without data, and may be
answered with a status other than 207. A mailbox is a set of matching UIDs,
UIDNEXT and UIDVALIDITY, and may change between any two calls of a client that
follows the cursor; how many summaries fit into a page is an input of each call, and
none is possible.

`FreeSlots` has the days of the working-hours loop as a set (`DaysWalked`). `DayWalk` is
that loop: `midnight` goes from what `time.Date` gives for one midnight to what it gives
for the next (`UseDay`, `SkipDay`), and `WalkIsExact` says that the days visited are the
set. The instant at which the clock reaches a day (`DayBegins`) is kept apart from what
`time.Date` gives for its midnight (`WallClock[d][0]`), because on some days that
midnight does not exist. Where that happens at a window's edge or inside it the loop does
not end (section 4), and what `FreeSlots` says is about the other days.

## 3. Runs

| Run | Bounds | States | Shows |
|---|---|---|---|
| `idempotency` | 3 calls, one caller key in both tools, 2 parameter sets, room for 1 claim, TTL 1, clock to 2 | 482,608 | a key runs twice only after a known outcome has expired; replays tell the truth; nothing else is forgotten; the store implements `OnceContract`; a keyed call is answered although the owner of its key hangs |
| `toolcall` | 3 calls, 2 slots | 92,116 | slots are accounted for at every moment; a framing failure is reported; every call is answered although handlers hang and hold every slot; shutdown needs no deadline and no handler |
| `mailsend` | 2 calls, 2 keys or none, 2 contents, 2 recipients, cache of 1, 1 submission slot | 124,336 | one submission per key, truthful status, all recipients or none, `OnceContract`, every send and every duplicate ends |
| `calendar_write` | 2 calls, 1 target and 1 other event, 2 paths, 1 cached location, 2 versions | 1,872,151 | a write replaces exactly what the call read and the caller named, a create nothing; definite replies stay true |
| `contact_write` | 2 calls, 1 target and 1 other contact, 2 resources, 1 place, 2 read attempts, 1 redirect, 2 versions | 1,430,027 | the same for contacts; a returned ETag is not older than the write; a place is held exactly while a request is on the network |
| `mailmutation` | 2 calls, 1 message, 1 slot, MODSEQ to 3, 2 UIDVALIDITYs, all capabilities, any FETCH for a conditional STORE | 2,640,035 | copy before removal, only the named message, and answers (success, partial failure, error) that say what happened, but for the conditional STORE of section 4 |
| `discovery` | 3 callers, 2 requests | 25,814 | single flight, one complete result; a cancelled caller returns whatever the others do; all return when the server answers |
| `calendar_reads` | 1 call, 3 calendars, 2 of them in scope, 2 workers, 2 read slots shared with other tools, 1 retry, 2 worlds of events, any rows without data | 76,508 | no slot is offered over a busy event, a search says what it leaves out, rows without data excepted; every call returns |
| `algorithms` | the input sets of `MCAlgorithms` | 1,010,678 | each algorithm against its reference definition |
| `day_walk` | 76 windows, 12 sets of options, days of four units, a short and a long day | 3,724 | the loop over civil days visits the days it should and comes to its end |
| `western_midnight` | the same windows, a clock set forward at midnight | | the finding of section 4 |
| `free_slots_scope` | 1 call | | the other finding |

Why these bounds are enough to be interesting. Idempotency needs an owner, a
waiter and a newcomer that finds the cache full or the claim purged under the
waiter: three calls, one place. The clock must pass TTL once after a result and may
do so after a repetition: two ticks with TTL 1. Slots need one more caller than
places. A submission needs two recipients to be split and two calls to be
duplicated. A calendar or contact write needs two paths for a moved object and a
second UID to be put where the first was; the second version is a foreign edit
between read and write, or the call's own. A mail mutation needs a foreign change
before and after the read, hence three MODSEQs, and one renumbering. Discovery needs
an owner that fails, a waiter that takes over and a third caller that gives up or
comes late. Calendar reads need more calendars than workers and a slot that another
tool holds. The algorithms' inputs put the edges within reach of each other: days of
four instants with a short and a long one, an overnight window, up to two events
with buffers; series whose occurrences overlap the next day, two exclusions and two
overrides; caps of 1 to 5; cards with a repeated and a grouped property; three books
against budgets of three cards and six bytes, and books with rows without data; six
pages over windows of two UIDs and a scan limit of three, some with room for no
summary.

Symmetry is over calls (and resources where they are interchangeable) and is used in
runs without liveness only: `calendar_write`, `contact_write` and `mailmutation`. The
deadlock check is off where calls are finite in number and a state in which all
have ended is the end of the run, not of the program; `calendar_reads` has a
stuttering step for that state instead and is checked for deadlock.

Fairness. The temporal properties assume that goroutines that can take a step take
it, and, where the property says so, that contexts with a deadline expire and that
timers fire. They assume nothing of the services: a handler, the owner of a key or a
discovery attempt may hang for ever, except in `mailsend` and `calendar_reads`, where
every network operation carries the deadline of the call (`deadlineConn`,
`CommandTimeout`, the request context) and therefore ends. Callers and other clients
are never fair: `calendar_reads` lets other tools keep their read slots for ever.
`ServerStops` and `CancelledReturns` do not even assume that other deadlines fire;
`CallAnswered` and `AnsweredReturns` state the extra fairness they need (the
deadlines; an answer to every PROPFIND) as their hypothesis.

## 4. Findings

* `free_slots_scope`: `find_free_slots` without a selection takes every listed
  calendar (`find_free_slots.go:262`) although it has read the scope and
  `search_events` filters; `docs/architecture.md` says the allowlist is checked in
  each operation path.
* `western_midnight`: in zones west of UTC that set the clock forward at midnight
  (Santiago, Havana, the Azores) `time.Date` gives 23:00 of the day before for the missing
  midnight. `nextLocalCivilDay` (`freeslots.go:266`) of that instant is that instant, so
  the loop over the days of a free window that reaches this day does not end, against its
  comment that the progression is correct on such days. The proof of `DayWalkIsExact`
  met it: without its hypothesis the day does not advance.

Further disagreements met while reading. They have no run; where a property would
meet them its statement says so.

* Timeouts: `isMutationToolName` does not list `reply_message` (`main.go:283`), so a reply
  that outlives its deadline is answered like a read, without the reconciliation
  guidance its comment promises to mutation tools.
* All-day events: reads drop them by their UTC midnights (`recurrence.go:867`), the
  free-slot computation blocks their civil days in the configured zone. Where the two
  differ at the edge of the range, slots on the day of an all-day event are offered,
  against "Count all-day events as busy; default true" (`find_free_slots.go:37`);
  `FreeMeansFree` speaks of the all-day events whose UTC days reach into the range.
* Sending: `docs/mail-compatibility.md:285` and the description of the tool
  (`mail_register.go:170`) say that `send_message` accepts `archive_sent`. The handler
  refuses it (`mail_handlers.go:267`) and nothing sets `ArchiveSent`, so `archive.go` is
  not reached; that the fingerprint leaves the option out (`send_idempotency.go:47`) has
  no effect.
* Flags: `validateConditionalStore` takes any FETCH with a higher MODSEQ as success
  (`session.go:594`). A server that sends the state of a message whose condition
  failed makes it report a change that was not made, against "A stale MODSEQ changes no
  flags and returns `concurrent_modification`" (`docs/mail-compatibility.md:171`). And a
  FETCH that cannot be used, after a tagged OK, is a `protocol_error`
  (`session.go:586`, `597`), which callers take for a definite error although the flags
  were stored. `AnswerIsTrue` excepts these two. `docs/security.md` still says that a flag
  change is rejected before STORE on CONDSTORE servers; the model follows the code.
* Move: a native MOVE without COPYUID is a success (`mutation.go:213`), which is also
  how a server answers for a message expunged after the FETCH.
* Occurrences: the `recurrenceId` that a search prints does not read back as its slot
  for an occurrence of a timed series that was made all-day (the time is lost,
  `search_events.go:454`), nor, under a default zone other than UTC, for floating
  series and for timed overrides of all-day series (`ical.go:492` writes the caller's
  wall clock). `delete_event` then reports success and removes nothing, or another
  occurrence, although `delete_event.go:23` has the caller copy that `recurrenceId`. There
  `EditIsExact` only says that nothing changes elsewhere than at the slots the identifier
  reads as (`NamedSlots`); where `NamesSlot` and `SlotReadsBack` hold it says all.
  Updating an excluded occurrence brings it back, and moving the start of a series leaves
  exceptions at the old slots.
* Mail paging: a truncated page whose rows all vanished between SEARCH and FETCH, or
  whose first summary is over the size limit, gets the scan boundary as its cursor, or
  none, and passes over UIDs it had found (`service.go:390-401`), against "the cursor is
  the oldest returned message. No page is terminal while older searchable UID space
  remains" (`docs/mail-compatibility.md:84`). `PagingIsComplete` excepts exactly the
  messages found for such pages (`skipped`).
* Contact search: rows without address data are passed over (`operations.go:82`), and a
  REPORT answered 2xx other than 207 is an empty book (`operations.go:73`, `dav.go:362`),
  although results "include truncated and scanLimitReached when incomplete"
  (`contacts_read.go:60`). `ContactsAreHonest` promises completeness for books that are
  shown whole (`ShownWhole`). With restricted scopes each book has its own budget
  (`resources.go:189`), `docs/carddav-compatibility.md` describes a shared one.
* Calendar reads: REPORT rows without a 200 propstat or calendar data are passed over
  (`client.go:1019`), though free-slot search "fails closed on any incomplete calendar"
  (`docs/caldav-compatibility.md:147`): the time of such an event is offered, and a search
  lacks it without a flag. `FreeMeansFree` and `SearchIsHonest` except exactly these
  events. "All calendars failed" (`search_events.go:226`) is also said when some were read
  and empty.

## 5. Proofs

Every safety property that a passing run checks on the state machines is also a theorem,
and so are five of the seven that the `algorithms` run checks. They are proved by TLAPS
for every value of the constants: any number of calls, keys, messages, resources, calendars and versions, any capacity. Nothing is assumed of the
finiteness of `Calls`. The assumptions are named and stand in the modules that declare
the constants:

* capacities, TTL and version bounds are positive, `None` is not a piece of data
  (`ConstantsAssumption`, `SlotsAssumption`); the bounds on the clock, versions and
  MODSEQs remain parameters, so a theorem covers every such bound;
* `CalendarReads`: the list of calendars is a sequence, handlers pass on typed
  arguments, and the civil days of the model reach two days past the last slot
  (`ReadsAssumption`, `ArgsAssumption`); a calendar holds finitely many events, its
  all-day events lie on days of the model, and no two events have the same place in the
  sorted rows (`WorldsAssumption`). The last clause stands for the code's tie-breakers
  (`search_events.go:236`: start, UID, calendar, title); `uid` in the model is all of
  them after the start;
* `FreeSlots`: the days are an interval of integers and the clock a function on it
  (`WallClockAssumption`). It is not assumed to be monotonic.

| Theorem | States | Why the property alone is not inductive |
|---|---|---|
| `IdempotencyStoreProofs!RepeatSafe` | `RepeatOnlyAfterKnownExpiry` | it speaks of two histories, not of the map: `ClaimInv` says that a claim stays in the map until its result is known and its time is over, `MapInv` that the map names the owner of its key |
| `ForgetSafe` | `ForgetsOnlyKnownExpired` (a step property) | the purge is treated once (`PurgeFrees`, `PurgeKeeps`) |
| `ReplaySafe` | `ReplayTellsTheTruth` | a waiter reads an entry the map may have dropped: `TruthInv` follows the entry object it holds |
| `CacheImplementsContract` | `ImplementsContract` | every step is a step of `OnceContract` or a stutter; the same for `MailSendProofs!SendImplementsContract` |
| `DiscoveryProofs!SingleFlightSafe`, `WakeupSafe`, `ResultSafe`, `OwnFailureSafe` | `SingleFlight`, `NoLostWakeup`, `OneCompleteResult`, `OwnFailureOnly` (the second and the last are proved only, without a run) | `OwnerInv`: the attempt in flight is the one somebody runs, and nothing is published meanwhile; `ResultInv`: whoever has read the locations has read the published ones |
| `ToolCallProofs!SlotsAccounted`, `HandlersBounded` | `SlotAccounting`; handlers never exceed the capacity | a slot that is given back must be held exactly once: `StageInv` relates middleware and handler; the set of holders is finite because it starts empty and grows one call at a time |
| `FailureReported` | `ReadFailureReported` | `TerminalInv`: the recorded error is the way the input ended |
| `CalendarWriteProofs!NoLostUpdate` | `ReplacesWhatItRead` | If-Match compares with the caller's ETag, which may be older than the read. `ReadInv`: at any later time the resource is gone, is what was read, or is newer than both |
| `DefiniteReplies` | `ReplyIsDefinite` | `StatusInv` and `ConditionInv`: a definite status means that the request is no longer on the wire |
| `ContactWriteProofs!ContactNoLostUpdate`, `ContactDefiniteReplies` | the same for contacts | the same, until the write is executed |
| `FreshETags` | `ReturnedETagIsFresh` | the read-back may go to another resource; `FreshInv`: after a write nothing older carries the contact's UID |
| `PlacesAccounted` | `PlaceOnlyOnline` | `PlaceInv` counts the calls that are online |
| `MailSendProofs!SubmitsOnce` | `OneSubmissionPerKey` | `HoldInv`: from the claim on, the call that may submit or has submitted holds its key |
| `TruthfulStatus`, `AllOrNone` | `StatusTellsTheTruth`, `NeverASubset` | `CallInv` and `OutcomeInv`: what a call may have put on the wire and may say, by its stage |
| `MailSendProofs!SessionsBounded`, `MailMutationProofs!SessionsBounded` | open sessions never exceed the slots | `SlotInv` counts the calls in a session |
| `MailMutationProofs!CopiedFirst`, `OnlyNamedMessage` | `CopyBeforeRemoval`, `NamedMessageOnly` | `WorkInv`: what the server can have done for a call, by its last command and what became of it |
| `TrueAnswers` | `AnswerIsTrue` | `VanishedInv`: a STORE that changed nothing found no message, and a UID does not come back before a renumbering |
| `ReadProofs!OfferedTimesAreFree`, `HonestSearches` | `FreeMeansFree`, `SearchIsHonest` | below |
| `OfferedSlotsAreRight` | `FreeSlotsAreRight` | below, as the rest of this table |
| `DayWalkIsExact` | `WalkIsExact`, if `EveryMidnightExists` | `WalkInv`: the loop stands at the midnight of a day and has visited the wanted days before it |
| `ExpansionsAreExact` | `ExpansionIsExact` | |
| `PagingLosesNothing` | `MailPagingIsComplete` | |
| `BodiesAreAccountedFor` | `MessageBodyIsAccountedFor` | |
| `ContactSearchesAreHonest` | `ContactSearchIsHonest` | |

`TypeCorrect` in each module but `DiscoveryProofs`, where it is a lemma, is the type
invariant.

### ReadProofs

The library's induction theorems cannot be instantiated by the installed provers, but
induction over a *set* of indexes can be had from the least element of a set of numbers
(`LeastElement`, `Induction`). With it a left fold is a trace of its step (`FoldTrace`)
and a sort a list by rank (`Ranks`). These two carry every proof about a loop.

*Free slots.* The lemmas follow the code: `Merges` (the merged intervals are ordered,
apart, and cover the same instants), `Inverts` (the gaps are exactly the instants of the
range that no busy interval holds), `Clips` (what is left of a gap is its part in the
working hours of the wanted days), `Cuts` (slots stay in their segment, in order, and
leave no room for another). `SlotsAvoidBusy` says that no slot meets a busy interval,
`SlotsAreExact` that the segments are exactly the available time and that the slots are
the ones of the reference.

*The calls.* An index that was handed out is being read or has its final result, and
slots are counted by the attempts in progress. So a call that finds its workers idle has
every result (`AllFinal`) and knows that each holds all that was sent with its data
(`ReadResult`), from which `SlotsAreFree` and `SearchAnswer` derive the two
properties. `FreeMeansFree` is stated for the events that take time with their buffers,
as in `freeslots.go:67`, and for the all-day events that a read can see (section 4).

*The day walk.* In a zone in which every midnight exists, the day of a midnight is its own
(`DayOfMidnight`), so each step moves to the next day whatever its length, and at the end
no day of `DaysWalked` is left.

*The expansion.* The lower bound skips no occurrence that reaches into the range
(`KeepsWhatOverlaps`). The rows are the kept starts in order and then the unused overrides:
two lists without repetition that have nothing in common (`JoinedLists`), so cutting
them at the cap repeats nothing, and not cutting loses nothing (`ExpandsExactly`).

*Mail paging.* `ScanFinds` treats the loop over UID windows: what it has found are the
newest matches above its boundary. `PageIsRight` turns that into one page: rows in
descending order below the cursor, and of what matched between the cursor before and the
cursor after only what a page without rows had found is missing (`Passed`). `PagingStep`
keeps this over calls that
fail, over arrivals and expunges, and until a new UIDVALIDITY ends the walk.

*The body of a message.* `FirstPart` is the choice of the part, `ChoosesBody` what is
fetched of it, `FitsMessage` the cut to the size limit.

*The contact search.* Contacts with different UIDs are strictly and totally ordered
(`BeforeOrders`). The scan of a book is a trace whose invariant (`BookScanInv`) says that
all it has are matches that were shown, and that, unless the scan limit was reported, all
matches of the books shown whole so far are in hand; here the one row more that is
requested (`RequestLimit`) is what makes a full budget visible (`BookReport`). The books
of a restricted scope are joined after each was sorted and cut to `limit`: what such a cut
drops comes after `limit` matches that are kept (`Behind`), and stays so in the list of
everything (`JoinInv`), since in the list of a larger set nothing stands further in front
(`LaterInMore`). `SearchIsComplete` puts the handler's own cut on top.

The assumptions on the inputs are those of the code's callers: options that
`find_free_slots` has accepted, on days of the model, and a clock that is not changed at
midnight (`SlotCasesAssumption`, `MidnightsInOrder`); rules with a positive step and finitely many overrides
(`ExpandCasesAssumption`); a positive limit, which `validateSearchOptions` guarantees, and
books without repeated cards (`SearchCasesAssumption`); UIDs below UIDNEXT
(`MailPageCasesAssumption`); parts with their sizes (`MessageCasesAssumption`); days that
begin one after the other and reach past the window (`DayBeginsAssumption`,
`WalkCasesAssumption`). `EveryMidnightExists` is a hypothesis of `DayWalkIsExact`; it is
false in a few zones once a year, and there the loop does not end (section 4).

### Model-checked only

* Liveness, which is outside the reach of the prover: `KeyedCallAnswered`,
  `CallAnswered`, `ServerStops`, `SendAnswered`, `CancelledReturns`, `AnsweredReturns`,
  `ReadsReturn`, `WalkEnds`.
* `CardsAreExact`: the walk over the lines of a vCard filters and concatenates sequences
  whose length depends on the patch; the equality of two filtered sequences needs a theory
  of filters (over concatenation, over `FlattenSeq`) that neither the library nor
  `ReadProofs` has yet.
* `OccurrenceEditIsExact`: it compares two expansions over a fixed range, cap and budget
  (`Shown`), chosen to hold all occurrences of the run's series; for every series it is
  not true as it stands.
* The two violations of section 4.

## 6. What is not modelled

* Text: XML, iCalendar, vCard and MIME syntax, HTML to text, JSON arguments,
  redaction and logging. They keep no state; the models take a parsed request, an
  object or an answer that was found usable, malformed or too large.
* The byte level of the wire guards (IMAP limits, stdio frame limits and the
  replacement of unsafe output frames).
* The rate limiters as token buckets: a refusal is possible whenever a token is
  asked for.
* The recurrence rule library, and the static estimate that rejects rules whose
  BY-selectors need too much work (`recurrence.go:235` to 862): the model has the
  budget of the loop, which holds whatever the estimate says.
* Times in the repeated hour of a clock change, and sizes of text fields.
* The configuration and the table of registered tools: fixed at start, without
  interleavings. The scope checks of the modelled operations are in their models.
* list_mailboxes, list_calendars, get_event, get_contact as tools: one guarded read
  each, whose guard is modelled, and formatting.
* Health and doctor: diagnostics.
* The Sent copy (`archive.go`): no tool call reaches it (section 4).
* A panic inside a discovery attempt. It would leave `discovering` set, since the
  clearing is not deferred, and later callers would wait until their deadlines.

## 7. What comes next

Proofs: `CardsAreExact`, for which the walk of `PatchedLines` would be a `FoldTrace` with
an invariant on the filtered output. Model: the conversion of `recurrenceId` in floating
and all-day series as a run of its own.
