----------------------------- MODULE MCDayWalk ------------------------------
(***************************************************************************)
(* Days of four units; day 1 is one short and day 2 one long.  In the      *)
(* western zone the clock is set forward at the midnight that begins day   *)
(* 1, and time.Date gives the last hour of day 0 for it.                   *)
(***************************************************************************)
EXTENDS DayWalk

MCCivilDays == -4..7

MCDayBegins ==
  [d \in MCCivilDays |-> CASE d < 2 -> 4 * d [] d = 2 -> 7 [] d > 2 -> 12 + 4 * (d - 3)]

MCWallClock ==
  [d \in MCCivilDays |->
     [m \in 0..3 |-> MCDayBegins[d] + (CASE d = 1 /\ m = 3 -> 2 [] d = 2 /\ m = 3 -> 4 [] OTHER -> m)]]

MCWesternClock ==
  [MCWallClock EXCEPT ![1] = [m \in 0..3 |-> MCDayBegins[1] - 1 + m]]

MCWindows == {w \in [start : -3..12, end : {3, 4, 6, 7, 10, 12, 15}] : w.start < w.end}

MCOptions ==
  {[from |-> -3, to |-> 15, dur |-> 1, limit |-> 5, allDayBusy |-> TRUE, before |-> 0, after |-> 0,
    hourStart |-> h[1], hourEnd |-> h[2], days |-> ds] :
     h \in {<<0, 0>>, <<1, 3>>, <<3, 1>>}, ds \in {{}, {0, 2}, {1}, {-1, 3}}}

MCWalkCases == [win : MCWindows, opts : MCOptions]
=============================================================================
