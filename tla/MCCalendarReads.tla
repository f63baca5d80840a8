--------------------------- MODULE MCCalendarReads --------------------------
(* Three calendars, days of four instants in a zone half a day west. *)
EXTENDS CalendarReads

CONSTANTS calA, calB, calD, c1

MCCalendarList == <<calA, calB, calD>>
MCCivilDays == -2..5
MCWallClock == [day \in MCCivilDays |-> [m \in 0..3 |-> 4 * day + m + 2]]

Ev(uid, start, end, allDay, opaque, match) ==
  [uid |-> uid, start |-> start, end |-> end, allDay |-> allDay, opaque |-> opaque, match |-> match]

\* An event just before the range, one in it and a transparent one, over two calendars;
\* an all-day event on day 0, which is 2..5 in the zone and 0..3 in UTC.
MCWorlds ==
  { (calA :> {Ev(1, 3, 4, FALSE, TRUE, TRUE), Ev(2, 6, 7, FALSE, FALSE, TRUE)}) @@
    (calB :> {Ev(3, 6, 8, FALSE, TRUE, TRUE)}) @@ (calD :> {}),
    (calA :> {}) @@ (calB :> {Ev(4, 0, 1, TRUE, TRUE, FALSE), Ev(5, 9, 10, FALSE, TRUE, TRUE)}) @@
    (calD :> {Ev(7, 4, 5, FALSE, TRUE, TRUE)}) }

MCSearchArgs == {[from |-> 4, to |-> 9, offset |-> 0, limit |-> 2], [from |-> 5, to |-> 9, offset |-> 1, limit |-> 2]}

\* The second asks for more time than its range has.
Slot(from, to, dur) ==
  [from |-> from, to |-> to, dur |-> dur, limit |-> 3, allDayBusy |-> TRUE, before |-> 1, after |-> 1,
   hourStart |-> 0, hourEnd |-> 0, days |-> {}]
MCSlotArgs == {Slot(4, 9, 1), Slot(-4, -3, 9)}
=============================================================================
