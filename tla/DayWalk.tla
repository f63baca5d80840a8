------------------------------ MODULE DayWalk -------------------------------
(***************************************************************************)
(* The loop of clipWorkingHours over the civil days of one free window     *)
(* (internal/icloud/freeslots.go).  FreeSlots has its days as the set      *)
(* DaysWalked; here they are visited one by one, from what time.Date gives *)
(* for a midnight to what it gives for the next.                           *)
(*                                                                         *)
(* WallClock[d][0] is that instant.  DayBegins[d] is the instant at which  *)
(* the clock of the zone reaches day d.  They differ when the clock is set *)
(* forward at midnight: that midnight does not exist, and time.Date may    *)
(* then give an instant of the evening before.                             *)
(***************************************************************************)
EXTENDS FreeSlots

CONSTANTS
  DayBegins,   \* DayBegins[d]: the first instant of civil day d
  WalkCases    \* the windows and their options: [win, opts]

ASSUME DayBeginsAssumption ==
  /\ DayBegins \in [CivilDays -> Int]
  /\ \A x, y \in CivilDays : x < y => DayBegins[x] < DayBegins[y]

\* The days of the model begin two days before a window and go on after it.
ASSUME WalkCasesAssumption ==
  \A c \in WalkCases :
    /\ c.win.start \in Int /\ c.win.end \in Int /\ c.win.start < c.win.end
    /\ c.opts \in SlotOptions
    /\ \E d \in CivilDays : DayBegins[d] <= c.win.start /\ d - 2 \in CivilDays
    /\ \A d \in CivilDays :
         DayBegins[d] <= c.win.end \/ WallClock[d][0] <= c.win.end => d + 2 \in CivilDays

VARIABLES
  trip,     \* the window and the options
  midnight, \* the variable day of the loop
  visited   \* the days whose segment was intersected with the window

walkVars == <<trip, midnight, visited>>

\* The civil day of an instant in the zone: time.In(loc).
LocalDay(t) == CHOOSE d \in CivilDays : /\ DayBegins[d] <= t
                                        /\ \A x \in CivilDays : DayBegins[x] <= t => x <= d

StartOfLocalDay(t) == WallClock[LocalDay(t)][0]
NextLocalCivilDay(t) == WallClock[LocalDay(t) + 1][0]
PrevLocalCivilDay(t) == WallClock[LocalDay(t) - 1][0]

\* Mutant: the walk begins with the day of the window, overnight shifts or not.
FirstDayOfWindow(c) == StartOfLocalDay(c.win.start)

\* The shift of the evening before still covers the morning of the window.
FirstDay(c) ==
  IF Overnight(c.opts) THEN PrevLocalCivilDay(StartOfLocalDay(c.win.start))
  ELSE StartOfLocalDay(c.win.start)

WalkInit ==
  /\ trip \in WalkCases
  /\ midnight = FirstDay(trip)
  /\ visited = {}

Walking == midnight <= trip.win.end
DayFiltered == trip.opts.days # {} /\ LocalDay(midnight) \notin trip.opts.days

\* Mutant: a day that is not asked for is left by continue alone.
SkipDayForever ==
  /\ Walking /\ DayFiltered
  /\ UNCHANGED walkVars

SkipDay ==
  /\ Walking /\ DayFiltered
  /\ midnight' = NextLocalCivilDay(midnight)
  /\ UNCHANGED <<trip, visited>>

UseDay ==
  /\ Walking /\ ~DayFiltered
  /\ visited' = visited \cup {LocalDay(midnight)}
  /\ midnight' = NextLocalCivilDay(midnight)
  /\ UNCHANGED trip

WalkNext == SkipDay \/ UseDay

WalkSpec == WalkInit /\ [][WalkNext]_walkVars /\ WF_walkVars(WalkNext)

\* Every day has its midnight: the clock of the zone is not changed at 00:00.
EveryMidnightExists == \A d \in CivilDays : WallClock[d][0] = DayBegins[d]

-----------------------------------------------------------------------------
\* The loop of clipWorkingHours visits the days of DaysWalked: none is left out,
\* whether it has 23 or 25 hours or only the end of an overnight shift in the window.
WalkIsExact == ~Walking => visited = DaysWalked(trip.win, trip.opts)

\* The loop of clipWorkingHours comes to its end: "progression uses civil date
\* arithmetic so spring-forward (23h) and fall-back (25h) days are correct" (comment
\* of nextLocalCivilDay).  An iteration that leaves the loop where it is goes on
\* for ever; in the model it is a stuttering step.
WalkEnds == <>~Walking
=============================================================================
