----------------------------- MODULE Recurrence -----------------------------
(***************************************************************************)
(* Expansion of a recurring event within a range: expandOccurrencesContext *)
(* of internal/icloud/recurrence.go with EXDATE, RECURRENCE-ID overrides,  *)
(* the cap on occurrences and the budget of iterator steps.                *)
(*                                                                         *)
(* The rule iterator (rrule-go) is external: it yields first, first+step,  *)
(* ... , count times.  An occurrence lasts dur instants; with a nominal    *)
(* duration the one that spans the clock change lasts one more.            *)
(***************************************************************************)
EXTENDS Integers, SequencesExt

CONSTANT ClockChange  \* the instant of the change to standard time

ASSUME ClockChangeAssumption == ClockChange \in Int

\* The occurrences of the rule (external); the iterator gives them in order.
RuleStarts(master) == {master.first + k * master.step : k \in 0..(master.count - 1)}

\* How many of S come before s; S in order, and the first n of it.
Place(s, S) == Cardinality({x \in S : x < s})
Ascending(S) == [k \in 1..Cardinality(S) |-> CHOOSE s \in S : Place(s, S) = k - 1]
Earliest(S, n) == {s \in S : Place(s, S) < n}

OccurrenceEnd(master, s) ==
  s + master.dur +
    (IF master.nominal /\ s < ClockChange /\ s + master.dur >= ClockChange THEN 1 ELSE 0)

EventOverlaps(start, end, range) == start < range.to /\ end > range.from

\* Mutant: an occurrence that began before the range is dropped.
LowerBoundOfRange(master, range) == range.from

\* How far before the range an occurrence may begin and still reach it.
LowerBound(master, range) ==
  range.from - (IF master.nominal THEN master.dur + 1 ELSE master.dur)

\* The iterator goes past this start.
Skips(master, s, range) ==
  \/ s < LowerBound(master, range)
  \/ s \in master.exDates
  \/ ~EventOverlaps(s, OccurrenceEnd(master, s), range)

IsKept(master, s, range) == s <= range.to /\ ~Skips(master, s, range)

\* The starts that are kept when the cap does not end the loop.
KeptStarts(master, range) == {s \in RuleStarts(master) : IsKept(master, s, range)}

\* How often the iterator is asked: up to the start that overflows the cap, or
\* once more than there are starts up to the end of the range.
Advances(master, range, cap) ==
  LET kept == KeptStarts(master, range)
      UpTo(t) == Cardinality({s \in RuleStarts(master) : s <= t})
  IN  IF Cardinality(kept) > cap THEN UpTo(CHOOSE s \in kept : Place(s, kept) = cap)
      ELSE UpTo(range.to) + 1

Row(slot, start, end) == [slot |-> slot, start |-> start, end |-> end]

\* Mutant: an override that took the place of an occurrence is listed again.
UnusedOverridesAll(overrides, used) == DOMAIN overrides

\* The overrides that replaced no occurrence in range.
UnusedOverrides(overrides, used) == DOMAIN overrides \ used

\* overrides[r] = [start, end] replaces the occurrence that the rule puts at r.
\* The unused overrides follow in no particular order.
ExpandOccurrences(master, overrides, range, cap, work) ==
  LET kept     == KeptStarts(master, range)
      starts   == Earliest(kept, cap)
      used     == starts \cap DOMAIN overrides
      InRange(r) == EventOverlaps(overrides[r].start, overrides[r].end, range)
      RowOf(s) == IF s \in DOMAIN overrides THEN Row(s, overrides[s].start, overrides[s].end)
                  ELSE Row(s, s, OccurrenceEnd(master, s))
      listed   == Ascending({s \in starts : s \in used => InRange(s)})
      rest     == SetToSeq({r \in UnusedOverrides(overrides, used) : InRange(r)})
      slots    == listed \o rest
      length   == IF Len(slots) > cap THEN cap ELSE Len(slots)
  IN  [error     |-> Advances(master, range, cap) > work,
       truncated |-> Cardinality(kept) > cap \/ Len(slots) > cap,
       rows      |-> [i \in 1..length |-> RowOf(slots[i])]]

-----------------------------------------------------------------------------
\* What an expansion has to list: every occurrence of the series that reaches
\* into the range, unless it is excluded or overridden, and every override that
\* does, wherever the occurrence it replaces was.
Occurrences(master, overrides, range) ==
  {Row(s, s, OccurrenceEnd(master, s)) :
     s \in {x \in RuleStarts(master) :
              /\ x \notin master.exDates \cup DOMAIN overrides
              /\ EventOverlaps(x, OccurrenceEnd(master, x), range)}}
  \cup
  {Row(r, overrides[r].start, overrides[r].end) :
     r \in {x \in DOMAIN overrides :
              EventOverlaps(overrides[x].start, overrides[x].end, range)}}
=============================================================================
