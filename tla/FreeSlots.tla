----------------------------- MODULE FreeSlots ------------------------------
(***************************************************************************)
(* The free-slot computation of internal/icloud/freeslots.go: events       *)
(* become busy intervals, are merged, inverted, clipped to working hours   *)
(* of civil days, and cut into slots.                                      *)
(*                                                                         *)
(* Instants are integers.  The time zone is the constant WallClock: the    *)
(* instant that time.Date gives for a wall-clock minute of a civil day, so *)
(* that a day may be shorter or longer than DayMinutes.  Days are numbered *)
(* and stand for their weekday.                                            *)
(***************************************************************************)
EXTENDS Integers, SequencesExt

CONSTANTS
  DayMinutes,  \* minutes of an ordinary civil day
  CivilDays,   \* the days of the model, consecutive integers
  WallClock    \* WallClock[d][m]: the instant of minute m of day d

ASSUME WallClockAssumption ==
  /\ DayMinutes \in Nat \ {0}
  /\ CivilDays \subseteq Int
  /\ \E first, last \in CivilDays : CivilDays = first..last
  /\ WallClock \in [CivilDays -> [0..(DayMinutes - 1) -> Int]]

\* The options that the handler passes on.
SlotOptions ==
  [from : Int, to : Int, dur : Int, limit : Nat, allDayBusy : BOOLEAN, before : Nat, after : Nat,
   hourStart : Nat, hourEnd : Nat, days : SUBSET CivilDays]

Earlier(a, b) == a.start < b.start \/ (a.start = b.start /\ a.end < b.end)

\* Mutant: buffers are applied to the wrong sides.
BusyIntervalSwapped(e, opts) ==
  LET start == IF e.allDay THEN WallClock[e.start][0] ELSE e.start
      end   == IF e.allDay THEN WallClock[e.end][0] ELSE e.end
  IN  [start |-> start - opts.after, end |-> end + opts.before]

\* A timed event covers its instants, an all-day one its civil days in the zone.
BusyInterval(e, opts) ==
  LET start == IF e.allDay THEN WallClock[e.start][0] ELSE e.start
      end   == IF e.allDay THEN WallClock[e.end][0] ELSE e.end
  IN  [start |-> start - opts.before, end |-> end + opts.after]

\* Transparent and cancelled events do not count, nor all-day ones on request.
CountsAsBusy(e, opts) == e.opaque /\ (e.allDay => opts.allDayBusy)

BusyFromEvents(events, opts) ==
  {b \in {BusyInterval(e, opts) : e \in {x \in events : CountsAsBusy(x, opts)}} :
     b.end > b.start}

\* Mutant: the merged interval takes the end of the later one.
MergeIntoShrinking(out, cur) ==
  IF out # <<>> /\ cur.start <= Last(out).end
  THEN Append(Front(out), [Last(out) EXCEPT !.end = cur.end])
  ELSE Append(out, cur)

\* Overlapping and adjacent intervals become one.
MergeInto(out, cur) ==
  IF out # <<>> /\ cur.start <= Last(out).end
  THEN Append(Front(out), [Last(out) EXCEPT !.end = IF cur.end > @ THEN cur.end ELSE @])
  ELSE Append(out, cur)

\* The elements of a finite set in a strict order: the k-th has k - 1 before it.
InOrder(S, before(_, _)) ==
  [k \in 1..Cardinality(S) |-> CHOOSE x \in S : Cardinality({y \in S : before(y, x)}) = k - 1]

MergeIntervals(in) == FoldLeft(MergeInto, <<>>, InOrder(in, Earlier))

\* One busy interval of the walk: the gap in front of it, and the cursor behind it.
Walk(acc, b, from, to) ==
  IF b.end <= from \/ b.start >= to THEN acc
  ELSE [free   |-> IF b.start > acc.cursor
                   THEN acc.free \cup {[start |-> acc.cursor, end |-> b.start]}
                   ELSE acc.free,
        cursor |-> IF b.end > acc.cursor THEN b.end ELSE acc.cursor]

\* The gaps between the merged busy intervals, within the range.
InvertBusy(from, to, busy) ==
  LET walk == FoldLeft(LAMBDA acc, b : Walk(acc, b, from, to), [free |-> {}, cursor |-> from], busy)
  IN  walk.free \cup IF walk.cursor < to
                     THEN {[start |-> walk.cursor, end |-> to]} ELSE {}

LocalTimeOnDay(d, m) ==
  IF m >= DayMinutes THEN WallClock[d + 1][0] ELSE WallClock[d][m]

UsesHours(opts) == opts.hourStart # 0 \/ opts.hourEnd # 0
Overnight(opts) == UsesHours(opts) /\ opts.hourEnd <= opts.hourStart

\* The working segment of a day; an overnight shift belongs to the day it starts.
Segment(d, opts) ==
  IF ~UsesHours(opts)
  THEN [start |-> WallClock[d][0], end |-> WallClock[d + 1][0]]
  ELSE [start |-> LocalTimeOnDay(d, opts.hourStart),
        end   |-> LocalTimeOnDay(IF Overnight(opts) THEN d + 1 ELSE d, opts.hourEnd)]

\* The last day that has begun at instant t: time.In(loc).
DayOf(t) == CHOOSE d \in CivilDays : /\ WallClock[d][0] <= t
                                     /\ \A x \in CivilDays : WallClock[x][0] <= t => x <= d

\* Mutant: the shift that began on the evening before is not looked at.
DaysWalkedFromStart(win, opts) ==
  {d \in CivilDays : /\ d >= DayOf(win.start)
                     /\ WallClock[d][0] <= win.end
                     /\ opts.days # {} => d \in opts.days}

\* The days that are walked for a free window.
DaysWalked(win, opts) ==
  {d \in CivilDays : /\ d >= DayOf(win.start) - (IF Overnight(opts) THEN 1 ELSE 0)
                     /\ WallClock[d][0] <= win.end
                     /\ opts.days # {} => d \in opts.days}

Intersect(a, b) == [start |-> IF b.start > a.start THEN b.start ELSE a.start,
                    end   |-> IF b.end < a.end THEN b.end ELSE a.end]

ClipWorkingHours(free, opts) ==
  MergeIntervals(
    {i \in UNION {{Intersect(w, Segment(d, opts)) : d \in DaysWalked(w, opts)} : w \in free} :
       i.end > i.start})

\* Consecutive slots of the requested length from the start of each window.
SlotsOf(win, dur) ==
  [i \in 1..((win.end - win.start) \div dur) |->
     [start |-> win.start + (i - 1) * dur, end |-> win.start + i * dur]]

CutIntoSlots(windows, dur) == FoldLeft(LAMBDA out, w : out \o SlotsOf(w, dur), <<>>, windows)

FindFreeSlots(busy, opts) ==
  LET free  == InvertBusy(opts.from, opts.to, MergeIntervals(busy))
      slots == CutIntoSlots(ClipWorkingHours(free, opts), opts.dur)
  IN  SubSeq(slots, 1, IF Len(slots) < opts.limit THEN Len(slots) ELSE opts.limit)

\* What FindFreeSlots and the handler refuse.
OptionsValid(opts) ==
  /\ opts.to > opts.from
  /\ opts.dur > 0
  /\ opts.dur <= opts.to - opts.from
  /\ {opts.hourStart, opts.hourEnd} \subseteq 0..DayMinutes

-----------------------------------------------------------------------------
(* What the slots have to be, instant by instant. *)

\* The clock is not set back or forward at midnight: a day begins with its minute
\* 0 and all of its minutes come before the next one.
MidnightsInOrder ==
  \A d \in CivilDays : d + 1 \in CivilDays =>
    \A m \in 0..(DayMinutes - 1) : /\ WallClock[d][0] <= WallClock[d][m]
                                  /\ WallClock[d][m] <= WallClock[d + 1][0]

\* Instant t may be part of a slot.
Available(t, events, opts) ==
  /\ opts.from <= t /\ t < opts.to
  /\ \A e \in events :
       CountsAsBusy(e, opts) =>
         LET start == IF e.allDay THEN WallClock[e.start][0] ELSE e.start
             end   == IF e.allDay THEN WallClock[e.end][0] ELSE e.end
         IN  ~(start - opts.before <= t /\ t < end + opts.after)
  /\ \E d \in CivilDays :
       /\ d + 2 \in CivilDays
       /\ opts.days # {} => d \in opts.days
       /\ Segment(d, opts).start <= t /\ t < Segment(d, opts).end

\* The slots are available throughout, of the right length, apart from each
\* other; and unless the limit was reached nothing of that length is left over.
SlotsAreRight(slots, events, opts) ==
  /\ \A i \in DOMAIN slots :
       /\ slots[i].end - slots[i].start = opts.dur
       /\ \A t \in slots[i].start..(slots[i].end - 1) : Available(t, events, opts)
       /\ \A j \in DOMAIN slots : j < i => slots[j].end <= slots[i].start
  /\ Len(slots) <= opts.limit
  /\ Len(slots) < opts.limit =>
       \A t \in opts.from..(opts.to - opts.dur) :
         (\A x \in t..(t + opts.dur - 1) : Available(x, events, opts)) =>
           \E i \in DOMAIN slots : slots[i].start < t + opts.dur /\ t < slots[i].end
=============================================================================
