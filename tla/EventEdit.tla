----------------------------- MODULE EventEdit -----------------------------
(***************************************************************************)
(* Editing one iCalendar object: a series update, an occurrence update and *)
(* the deletion of an occurrence (client.go:UpdateEvent,                   *)
(* applyOccurrenceUpdate, deleteOccurrence; ical.go), read back with       *)
(* parseVEvent and expanded as search_events does.                         *)
(*                                                                         *)
(* object = [master, step, count, exDates, sequence, overrides].           *)
(* A VEVENT is [form, start, dtend, duration, title]; form is how its      *)
(* dates are written: "date", "tzid", "utc" or "floating".  start and      *)
(* dtend are instants as the program reads them back.  An override also    *)
(* has the slot rec that its RECURRENCE-ID reads as.  A time of a caller   *)
(* is [utc, off]: an instant and the offset it is written with.            *)
(***************************************************************************)
EXTENDS Recurrence

CONSTANTS Day,          \* length of an ordinary day
          MaxSequence,  \* the largest SEQUENCE
          None          \* an absent property or argument

ASSUME EventEditAssumption == Day \in Nat \ {0} /\ MaxSequence \in Nat

Given(x) == x # None

-----------------------------------------------------------------------------
\* Reading.  A day of a DURATION is longer over the clock change where the dates
\* have a zone.
Length(v) ==
  CASE Given(v.dtend)    -> v.dtend - v.start
    [] ~Given(v.dtend) /\ Given(v.duration) -> v.duration.days * Day + v.duration.rest
    [] OTHER             -> IF v.form = "date" THEN Day ELSE 0

Nominal(v) ==
  v.form = "tzid" /\ ~Given(v.dtend) /\ Given(v.duration) /\ v.duration.days > 0

EndOf(v, start) == OccurrenceEnd([dur |-> Length(v), nominal |-> Nominal(v)], start)

ParseMaster(object) ==
  [first |-> object.master.start, step |-> object.step, count |-> object.count,
   dur |-> Length(object.master), nominal |-> Nominal(object.master),
   exDates |-> object.exDates]

Matching(object, slot) == {o \in object.overrides : o.rec = slot}

ParseOverrides(object) ==
  [r \in {o.rec : o \in object.overrides} |->
     LET o == CHOOSE m \in Matching(object, r) : TRUE
     IN  [start |-> o.start, end |-> EndOf(o, o.start)]]

\* The VEVENT that shows the occurrence of the slot.
EventAt(object, slot) ==
  IF Matching(object, slot) # {} THEN CHOOSE m \in Matching(object, slot) : TRUE
  ELSE [object.master EXCEPT !.start = slot, !.dtend =
          IF Given(@) THEN slot + Length(object.master) ELSE None]

\* A recurrenceId as the tools print it and read it back: a day is UTC, a time has
\* the offset of the default zone.
RecurrenceID(object, slot, zone) ==
  IF EventAt(object, slot).form = "date" THEN [utc |-> (slot \div Day) * Day, off |-> 0]
  ELSE [utc |-> slot, off |-> zone]

-----------------------------------------------------------------------------
\* Writing.  What a time reads as once it is written in a form: a date keeps the
\* day, a floating time the wall clock, of the zone the caller wrote it in.
SetDatePropLike(form, t) ==
  CASE form = "date"     -> ((t.utc + t.off) \div Day) * Day
    [] form = "floating" -> t.utc + t.off
    [] OTHER             -> t.utc

ApplyFieldUpdate(v, up) ==
  LET start == IF Given(up.start) THEN SetDatePropLike(v.form, up.start) ELSE v.start
      title == IF Given(up.title) THEN up.title ELSE v.title
  IN  IF Given(up.end)
      THEN [v EXCEPT !.title = title, !.start = start,
                     !.dtend = SetDatePropLike(v.form, up.end), !.duration = None]
      ELSE [v EXCEPT !.title = title, !.start = start]

EndAfterStart(v) == Given(v.dtend) => v.dtend > v.start

\* The end of an occurrence that starts at t, as long as the VEVENT v was.
\* A DURATION stays one.
ApplyOccurrenceDuration(ov, v, t) ==
  LET at(length) == SetDatePropLike(v.form, [t EXCEPT !.utc = @ + length])
  IN  CASE Given(v.dtend) /\ v.dtend > v.start ->
             [ov EXCEPT !.dtend = at(Length(v)), !.duration = None]
        [] ~(Given(v.dtend) /\ v.dtend > v.start) /\ Given(v.duration) ->
             [ov EXCEPT !.dtend = None, !.duration = v.duration]
        [] OTHER ->
             [ov EXCEPT !.dtend = IF v.form = "date" THEN at(Day) ELSE None, !.duration = None]

\* Mutant: a title-only update leaves the end of the master on a new override.
SetsEndMovedOnly(created, up) == Given(up.start) /\ ~Given(up.end)

\* Whether the update derives the end of the occurrence.
SetsEnd(created, up) == (created \/ Given(up.start)) /\ ~Given(up.end)

OverrideFor(object, recID, up) ==
  LET created == Matching(object, recID.utc) = {}
      written == SetDatePropLike(object.master.form, recID)
      base    == IF created THEN [rec |-> written] @@ object.master
                 ELSE CHOOSE m \in Matching(object, recID.utc) : TRUE
      placed  == IF created THEN [base EXCEPT !.start = written] ELSE base
      start   == IF Given(up.start) THEN up.start ELSE recID
      patched == ApplyFieldUpdate(placed, up)
  IN  IF SetsEnd(created, up) THEN ApplyOccurrenceDuration(patched, base, start)
      ELSE patched

ApplyOccurrenceUpdate(object, recID, up) ==
  LET ov == OverrideFor(object, recID, up)
  IN  IF EndAfterStart(ov)
      THEN [object EXCEPT !.overrides = (@ \ Matching(object, recID.utc)) \cup {ov}]
      ELSE None

ApplySeriesUpdate(object, up) ==
  LET master == ApplyFieldUpdate(object.master, up)
  IN  IF EndAfterStart(master) THEN [object EXCEPT !.master = master] ELSE None

\* Every write raises SEQUENCE of the master; a SEQUENCE at its limit fails.
IncrementSequence(object, edited) ==
  IF edited = None \/ object.sequence >= MaxSequence
  THEN [error |-> TRUE, object |-> object]
  ELSE [error |-> FALSE, object |-> [edited EXCEPT !.sequence = @ + 1]]

UpdateEvent(object, scope, recID, up) ==
  IncrementSequence(object, IF scope = "occurrence"
                            THEN ApplyOccurrenceUpdate(object, recID, up)
                            ELSE ApplySeriesUpdate(object, up))

\* Mutant: an override of the deleted occurrence stays.
DroppedOverridesNone(object, recID) == {}

DroppedOverrides(object, recID) == Matching(object, recID.utc)

\* An occurrence that is already excluded and has no override needs no write.
DeleteOccurrence(object, recID) ==
  LET already == recID.utc \in object.exDates
      dropped == DroppedOverrides(object, recID)
  IN  IF already /\ dropped = {} THEN [error |-> FALSE, object |-> object]
      ELSE IncrementSequence(object,
             [object EXCEPT !.overrides = @ \ dropped,
                            !.exDates = IF already THEN @
                                        ELSE @ \cup {SetDatePropLike(object.master.form, recID)}])

-----------------------------------------------------------------------------
\* What search_events lists of the object over all time.
Shown(object) ==
  LET all == [from |-> -100, to |-> 100]
  IN  ToSet(ExpandOccurrences(ParseMaster(object), ParseOverrides(object), all, 100, 100).rows)

At(rows, slot) == {r \in rows : r.slot = slot}

\* The recurrenceId that search_events prints names the slot.  It does not when an
\* occurrence of a timed series was made an all-day one: the time is lost.
NamesSlot(c) == RecurrenceID(c.object, c.slot, c.zone).utc = c.slot

\* Written in the form of the series it reads back as the slot.  Where the default
\* zone is not UTC it does not for a floating series, nor for an all-day series
\* whose occurrence was made a timed one.
SlotReadsBack(c) ==
  SetDatePropLike(c.object.master.form, RecurrenceID(c.object, c.slot, c.zone)) = c.slot

\* The slots that the recurrenceId reads as, before and after it is written.
\* Where they are two, or another than the one it was printed for, a call succeeds
\* and may not touch the occurrence that was meant.
NamedSlots(c) ==
  LET id == RecurrenceID(c.object, c.slot, c.zone)
  IN  {id.utc, SetDatePropLike(c.object.master.form, id)}

\* Everything of an object and of its occurrences that is not at the slots.
Elsewhere(object, slots) ==
  [master    |-> object.master,
   overrides |-> {o \in object.overrides : o.rec \notin slots},
   rows      |-> {x \in Shown(object) : x.slot \notin slots}]

\* The occurrence a caller asked for: new fields, and the length it had.
WantedRow(c) ==
  LET v     == EventAt(c.object, c.slot)
      start == IF Given(c.up.start) THEN SetDatePropLike(v.form, c.up.start) ELSE v.start
  IN  Row(c.slot, start,
          IF Given(c.up.end) THEN SetDatePropLike(v.form, c.up.end) ELSE EndOf(v, start))

\* Whatever the identifier reads as, an occurrence edit changes nothing elsewhere
\* and fails only for an end that is not after the start or a SEQUENCE at its limit.
\* Where it reads back as the slot it was printed for, deleting an occurrence
\* removes it and no other, and updating one shows it with the new fields and its
\* length and changes no other.
\* A series update that keeps its start keeps every slot and every override.
EditIsExact(c, r) ==
  LET before == Shown(c.object)
      after  == Shown(r.object)
      kept   == before \ At(before, c.slot)
  IN  IF r.error
      THEN \/ c.object.sequence = MaxSequence
           \/ c.op = "series"
           \/ c.op = "update" /\ Given(c.up.end) /\
                (NamesSlot(c) => WantedRow(c).end <= WantedRow(c).start)
      ELSE
        /\ c.op # "series" =>
             Elsewhere(r.object, NamedSlots(c)) = Elsewhere(c.object, NamedSlots(c))
        /\ CASE c.op = "delete" -> NamesSlot(c) /\ SlotReadsBack(c) => after = kept
             [] c.op = "update" ->
                  NamesSlot(c) /\ (SlotReadsBack(c) \/ Matching(c.object, c.slot) # {}) =>
                    /\ after = kept \cup {WantedRow(c)}
                    /\ Given(c.up.title) => EventAt(r.object, c.slot).title = c.up.title
             [] c.op = "series" ->
                  ~Given(c.up.start) =>
                    /\ {x.slot : x \in after} = {x.slot : x \in before}
                    /\ r.object.overrides = c.object.overrides
                    /\ ~Given(c.up.end) => after = before
=============================================================================
