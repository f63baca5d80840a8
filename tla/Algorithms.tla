----------------------------- MODULE Algorithms -----------------------------
(***************************************************************************)
(* The pure algorithms of the program, one input at a time: a job is an    *)
(* algorithm with its input, and one step computes its result.  The input  *)
(* sets are constants.                                                     *)
(***************************************************************************)
EXTENDS FreeSlots, EventEdit, VCardPatch, ContactSearch, MailRead

CONSTANTS ExpandCases, SlotCases, PatchCases, CreateCases, NameCases, SearchCases,
          MailPageCases, MessageCases, EditCases

\* Events and options as find_free_slots passes them on: the days of the model
\* begin before the range and go on for two days after it.
ASSUME SlotCasesAssumption ==
  /\ MidnightsInOrder
  /\ \A c \in SlotCases :
       /\ IsFiniteSet(c.events)
       /\ \A e \in c.events :
            /\ e.start \in Int /\ e.end \in Int /\ {e.allDay, e.opaque} \subseteq BOOLEAN
            /\ e.allDay => {e.start, e.end} \subseteq CivilDays
       /\ c.opts \in SlotOptions
       /\ \E d \in CivilDays : WallClock[d][0] <= c.opts.from
       /\ \A d \in CivilDays : WallClock[d][0] <= c.opts.to => d + 2 \in CivilDays

\* Series and overrides as they come out of a stored event.
ASSUME ExpandCasesAssumption ==
  \A c \in ExpandCases :
    /\ {c.master.first, c.range.from, c.range.to} \subseteq Int
    /\ c.master.step \in Nat \ {0} /\ {c.master.count, c.master.dur, c.cap} \subseteq Nat
    /\ IsFiniteSet(DOMAIN c.overrides)

\* Books in which no card is listed twice.
ASSUME SearchCasesAssumption ==
  \A c \in SearchCases :
    /\ c.books \in Seq(Book) /\ c.limit \in Nat \ {0} /\ {c.restricted, c.honours} \subseteq BOOLEAN
    /\ \A i, j \in DOMAIN c.books : \A x \in DOMAIN c.books[i].rows, y \in DOMAIN c.books[j].rows :
         c.books[i].rows[x].uid = c.books[j].rows[y].uid => i = j /\ x = y

\* Searches that the reader has accepted, of mailboxes as a server shows them.
ASSUME MailPageCasesAssumption ==
  \A c \in MailPageCases :
    /\ c.limit \in Nat \ {0}
    /\ c.steps \in Seq(MailStep)
    /\ \A k \in DOMAIN c.steps : c.steps[k].box.match \subseteq 1..(c.steps[k].box.next - 1)

\* Messages whose structure the reader has accepted.
ASSUME MessageCasesAssumption ==
  \A m \in MessageCases : m.parts \in Seq(Part) /\ {m.maxBody, m.meta} \subseteq Nat

VARIABLES job, result

jobVars == <<job, result>>

Pending == [done |-> FALSE]
Computed(r) == [done |-> TRUE, value |-> r]
Todo(algorithm) == job.algorithm = algorithm /\ ~result.done

JobInit ==
  /\ result = Pending
  /\ \/ \E c \in ExpandCases : job = [algorithm |-> "expand", case |-> c]
     \/ \E c \in SlotCases   : job = [algorithm |-> "slots",  case |-> c]
     \/ \E c \in PatchCases  : job = [algorithm |-> "patch",  case |-> c]
     \/ \E c \in CreateCases : job = [algorithm |-> "create", case |-> c]
     \/ \E c \in NameCases   : job = [algorithm |-> "name",   case |-> c]
     \/ \E c \in SearchCases : job = [algorithm |-> "search", case |-> c]
     \/ \E c \in MailPageCases : job = [algorithm |-> "page", case |-> c]
     \/ \E c \in MessageCases : job = [algorithm |-> "message", case |-> c]
     \/ \E c \in EditCases : job = [algorithm |-> "edit", case |-> c]

Expand ==
  /\ Todo("expand")
  /\ LET c == job.case
     IN  result' = Computed(ExpandOccurrences(c.master, c.overrides, c.range, c.cap, c.work))
  /\ UNCHANGED job

Slots ==
  /\ Todo("slots")
  /\ OptionsValid(job.case.opts)
  /\ LET c == job.case
     IN  result' = Computed(FindFreeSlots(BusyFromEvents(c.events, c.opts), c.opts))
  /\ UNCHANGED job

Patch ==
  /\ Todo("patch")
  /\ ValidCard(job.case.card)
  /\ LET c == job.case
     IN  result' = Computed(EncodePatchedCard(c.card, c.patch, c.max))
  /\ UNCHANGED job

Create ==
  /\ Todo("create")
  /\ result' = Computed(NewV3Card(job.case, <<"uid">>))
  /\ UNCHANGED job

ShowName ==
  /\ Todo("name")
  /\ result' = Computed(PreferredFormattedName(job.case))
  /\ UNCHANGED job

Search ==
  /\ Todo("search")
  /\ LET c == job.case
     IN  result' = Computed(SearchContactsHandler(c.books, c.restricted, c.limit, c.honours))
  /\ UNCHANGED job

PageMail ==
  /\ Todo("page")
  /\ result' = Computed(Paging(job.case.steps, job.case.limit))
  /\ UNCHANGED job

ReadMessage ==
  /\ Todo("message")
  /\ result' = Computed(GetMessage(job.case))
  /\ UNCHANGED job

UpdateStored ==
  /\ Todo("edit")
  /\ job.case.op # "delete"
  /\ LET c == job.case
     IN  result' = Computed(UpdateEvent(c.object, IF c.op = "update" THEN "occurrence" ELSE "series",
                                        RecurrenceID(c.object, c.slot, c.zone), c.up))
  /\ UNCHANGED job

DeleteStored ==
  /\ Todo("edit")
  /\ job.case.op = "delete"
  /\ LET c == job.case
     IN  result' = Computed(DeleteOccurrence(c.object, RecurrenceID(c.object, c.slot, c.zone)))
  /\ UNCHANGED job

JobNext == \/ Expand \/ Slots \/ Patch \/ Create \/ ShowName \/ Search
           \/ PageMail \/ ReadMessage \/ UpdateStored \/ DeleteStored

JobSpec == JobInit /\ [][JobNext]_jobVars

-----------------------------------------------------------------------------
Done(algorithm) == job.algorithm = algorithm /\ result.done

\* An expansion lists occurrences and overrides that reach into the range, none
\* twice; when it is neither cut nor out of budget it lists all of them, also the
\* ones that began before the range and overrides moved into it
\* (recurrence.go:expandOccurrencesContext).
ExpansionIsExact ==
  Done("expand") =>
    LET c == job.case
        r == result.value
        wanted == Occurrences(c.master, c.overrides, c.range)
    IN  ~r.error => /\ ToSet(r.rows) \subseteq wanted
                    /\ IsInjective(r.rows)
                    /\ Len(r.rows) <= c.cap
                    /\ ~r.truncated => ToSet(r.rows) = wanted

\* An occurrence edit changes no occurrence elsewhere than at the slots that the
\* recurrenceId reads as (client.go:applyOccurrenceUpdate, deleteOccurrence).  Where
\* the recurrenceId that search_events printed reads back as the slot of the
\* occurrence, delete_event leaves the series without it and otherwise as before,
\* and update_event shows it with its new fields and the length it had.
\* delete_event.go:23 has the caller "copy search_events.recurrenceId", whatever the
\* series.  That names another slot for a floating series in a default zone other
\* than UTC, for an all-day series whose occurrence was given a time (ical.go:492
\* writes the identifier in the form of the series), and for a timed series whose
\* occurrence was made an all-day one (the printed identifier has lost the time).
\* There the call succeeds and removes nothing or another occurrence, and the
\* conclusion is the first sentence only.
OccurrenceEditIsExact ==
  Done("edit") => EditIsExact(job.case, result.value)

\* find_free_slots offers no instant that is busy, buffered or outside the
\* working hours, also over a night and over a clock change, and overlooks no room
\* for a slot while it is below its limit (freeslots.go:FindFreeSlots).
FreeSlotsAreRight ==
  Done("slots") => SlotsAreRight(result.value, job.case.events, job.case.opts)

\* Updating a contact changes the named properties to the requested values and
\* no other line; a new contact is a card the program itself accepts, with a name
\* (vcard.go:encodePatchedCard, newV3Card, preferredFormattedName).
CardsAreExact ==
  /\ Done("patch") => PatchIsExact(job.case.card, job.case.patch, result.value)
  /\ Done("create") =>
       /\ ValidCard(result.value)
       /\ PatchIsExact(result.value, job.case,
                       EncodePatchedCard(result.value, job.case, Len(result.value)))
       /\ EncodePatchedCard(result.value, job.case, Len(result.value)).card = result.value
  /\ Done("name") => IsPreferred(job.case, result.value)

\* search_contacts leaves no matching contact of a book out without saying so,
\* provided the server shows the book whole.  contacts_read.go:60 promises that
\* results "include truncated and scanLimitReached when incomplete"; that is not
\* so where a REPORT is answered with a 2xx status other than 207 or with a row
\* without address data: the answer then lacks contacts and says nothing
\* (operations.go:73, 82; SearchContacts, resources.go:searchScopedContacts).
ContactSearchIsHonest ==
  Done("search") => ContactsAreHonest(job.case.books, result.value)

\* Following the cursor of search_messages visits messages newest first and none
\* twice, over calls that find messages arrived or expunged, lose the connection or
\* meet a recreated mailbox, and visits every message that stays in the mailbox
\* unless it was found for a page that was cut down to no row at all.  Such a page
\* passes over what was found, and is the last one if the scan had reached UID 1;
\* docs/mail-compatibility.md:84-86 promises "When the count or 256 KiB limit
\* removes summaries, the cursor is the oldest returned message. No page is terminal
\* while older searchable UID space remains." (service.go:SearchMessages, 390-401).
MailPagingIsComplete ==
  Done("page") => PagingIsComplete(job.case.steps, result.value)

\* get_message never passes a shortened body off as the whole one, and its answer
\* fits its limit (read.go:GetMessage, fitMessageResult).
MessageBodyIsAccountedFor ==
  Done("message") => BodyIsAccountedFor(job.case, result.value)
=============================================================================
