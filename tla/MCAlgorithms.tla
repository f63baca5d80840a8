---------------------------- MODULE MCAlgorithms ----------------------------
(* Inputs for the algorithms: small, with the edges in reach of each other. *)
EXTENDS Algorithms

PartialFunctions(D, R) == UNION {[S -> R] : S \in SUBSET D}

\* Day 1 loses its minute 2, day 2 has it twice.
MCWallClock ==
  [d \in -2..5 |->
     CASE d < 1 -> [m \in 0..3 |-> 4 * d + m]
       [] d = 1 -> [m \in 0..3 |-> 4 + (IF m = 3 THEN 2 ELSE m)]
       [] d = 2 -> [m \in 0..3 |-> 7 + (IF m = 3 THEN 4 ELSE m)]
       [] d > 2 -> [m \in 0..3 |-> 12 + 4 * (d - 3) + m]]
MCCivilDays == -2..5

MCSlotEvents ==
  [start : {2, 5, 6}, end : {6, 8}, allDay : {FALSE}, opaque : {TRUE}]
  \cup {[start |-> 1, end |-> 2, allDay |-> TRUE, opaque |-> TRUE],
        [start |-> 8, end |-> 10, allDay |-> FALSE, opaque |-> TRUE],
        [start |-> 3, end |-> 11, allDay |-> FALSE, opaque |-> FALSE]}

MCSlotOptions ==
  [from : {1, 5}, to : {10, 12}, dur : {1, 2}, limit : {2, 20}, allDayBusy : BOOLEAN,
   before : {0, 1}, after : {0, 2}, hourStart : {0, 1, 3}, hourEnd : {0, 1, 2, 4}, days : {{}, {1, 2}}]

MCSlotCases ==
  [events : UNION {kSubset(k, MCSlotEvents) : k \in 0..2}, opts : MCSlotOptions]

MCExpandCases ==
  [master : [first : {0, 2}, step : {1, 2, 3}, count : {1, 4}, dur : {1, 2}, nominal : BOOLEAN,
             exDates : SUBSET {2, 3}],
   overrides : PartialFunctions({2, 3}, [start : {1, 4}, end : {5}]),
   range : {[from |-> 2, to |-> 3], [from |-> 3, to |-> 6], [from |-> 5, to |-> 7]},
   cap : {1, 2, 5}, work : {3, 9}]

\* A series of two or three occurrences in each form of dates and each form of
\* length, every second slot open to an exclusion or an override; days have 4
\* instants and the clock changes at 4.
MCVEvent(form, start, length, title) ==
  [form |-> form, start |-> start, title |-> title,
   dtend |-> IF length.kind = "dtend" THEN start + length.n ELSE None,
   duration |-> IF length.kind = "duration" THEN [days |-> length.n, rest |-> length.rest] ELSE None]
MCLengths(form) ==
  {[kind |-> "none"], [kind |-> "dtend", n |-> 4], [kind |-> "duration", n |-> 1, rest |-> 0]} \cup
  IF form = "date" THEN {} ELSE {[kind |-> "dtend", n |-> 3], [kind |-> "duration", n |-> 0, rest |-> 2],
                                 [kind |-> "duration", n |-> 1, rest |-> 1]}
MCMasters ==
  UNION {{MCVEvent(form, IF form = "date" THEN 0 ELSE 1, length, "old") : length \in MCLengths(form)} :
           form \in {"date", "tzid", "utc", "floating"}}
MCOverrides(slot) ==
  {[rec |-> slot, form |-> form, start |-> start, title |-> "mine", dtend |-> start + 4, duration |-> None] :
     form \in {"date", "tzid"}, start \in {4, 8}}
MCObjects ==
  {object \in
     {[master |-> m, step |-> 4, count |-> 3, exDates |-> {m.start + x : x \in ex},
       sequence |-> IF ex = {} THEN q ELSE 0, overrides |-> o] :
        m \in MCMasters, ex \in SUBSET {0, 4}, q \in {0, 2},
        o \in {{}} \cup {{x} : x \in MCOverrides(4) \cup MCOverrides(5)}} :
   \A o \in object.overrides : o.rec = object.master.start + 4}
MCUpdates ==
  [title : {"new"}, start : {None, [utc |-> 6, off |-> 0], [utc |-> 3, off |-> 2], [utc |-> 3, off |-> -2]},
   end : {None, [utc |-> 9, off |-> 2]}]
  \cup {[title |-> None, start |-> None, end |-> [utc |-> 4, off |-> 0]]}
MCEditCases ==
  LET nothing == [title |-> None, start |-> None, end |-> None]
      edits == [op : {"delete"}, zone : {0, 2, -2}, up : {nothing}]
               \cup [op : {"update"}, zone : {0, 2, -2}, up : MCUpdates]
               \cup [op : {"series"}, zone : {0}, up : MCUpdates]
  IN  {[object |-> x, slot |-> x.master.start + after, op |-> e.op, zone |-> e.zone, up |-> e.up] :
         x \in MCObjects, after \in {0, 4}, e \in edits}

MCCards ==
  LET b == Line("BEGIN", <<"VCARD">>)
      e == Line("END", <<"VCARD">>)
      v3 == Line("VERSION", <<"3.0">>)
      u == Line("UID", <<"u">>)
      fn == Line("FN", <<"f">>)
      n == Line("N", [family |-> <<"x">>, given |-> <<"y">>])
      n0 == Line("N", EmptyName)
      mail == [group |-> "item1", name |-> "EMAIL", value |-> <<"m">>]
      label == [group |-> "item1", name |-> "X-ABLABEL", value |-> <<"l">>]
      note == Line("NOTE", <<"o">>)
  IN  { <<b, v3, u, fn, n, e>>, <<b, v3, n0, fn, u, note, e>>,
        <<b, v3, label, mail, n, fn, mail, u, note, note, e>>,
        <<b, Line("VERSION", <<"4.0">>), u, fn, fn, n, e>> }

\* A patch touches each property or does not.
MCPatches ==
  LET Touch(n, values) == {<<>>} \cup {n :> v : v \in values}
  IN  {fn @@ n @@ note @@ mail @@ tel :
         fn \in Touch("FN", {<<>>, <<"g">>}),
         n \in Touch("N", {EmptyName, [family |-> <<>>, given |-> <<"z">>]}),
         note \in Touch("NOTE", {<<>>, <<"p">>}),
         mail \in Touch("EMAIL", {<<>>, << <<"q">>, <<"m">> >>}),
         tel \in Touch("TEL", {<< <<"1">> >>})} \ {<<>>}

MCPatchCases == [card : MCCards, patch : MCPatches, max : {8, 20}]
MCCreateCases ==
  {p \in MCPatches : /\ DOMAIN p = {"FN", "N", "NOTE", "EMAIL", "TEL"}
                     /\ p["FN"] # <<>> \/ p["N"] # EmptyName}
MCNameCases == TupleOf([value : {<<>>, <<"a">>, <<"b">>}, pref : {1, 2, 100}], 3)

\* Books of up to 3 cards; keys repeat.  One book of some pairs has a row without
\* data or an answer other than 207.
MCBook(base, n, match, size) ==
  [multi |-> TRUE, rows |-> [i \in 1..n |-> [uid |-> base + i, key |-> (base + 2 * i) % 4, match |-> match[i],
                                             data |-> TRUE, size |-> size[i]]]]
MCBooks(base, most) ==
  UNION {{MCBook(base, n, m, z) : m \in [1..n -> BOOLEAN], z \in [1..n -> {1, 2}]} : n \in 0..most}
MCPoorBooks(base, most) ==
  UNION {{[b EXCEPT !.multi = FALSE]} \cup {[b EXCEPT !.rows[i].data = FALSE] : i \in DOMAIN b.rows} :
           b \in {MCBook(base, n, [i \in 1..n |-> i # k], [i \in 1..n |-> 1]) : n \in 1..most, k \in 1..2}}
MCSearchCases ==
  [books : {<<a, b>> : a \in MCBooks(0, 3), b \in MCBooks(10, 3)} \cup
           {<<a, b, c>> : a \in MCBooks(0, 1), b \in MCBooks(10, 2), c \in MCBooks(21, 1)} \cup
           {<<a, b>> : a \in MCPoorBooks(0, 4), b \in MCBooks(10, 2)} \cup
           {<<a, b>> : a \in MCBooks(0, 2), b \in MCPoorBooks(10, 5)},
   restricted : BOOLEAN, limit : {1, 3, 9}, honours : BOOLEAN]

\* Six calls; the mailbox changes before one of them and may be recreated before
\* another, one call loses messages between SEARCH and FETCH, one fails, one meets
\* summaries too large for its result.
MCBox(match, next, validity) == [match |-> match, next |-> next, validity |-> validity]
MCMailSteps ==
  {[k \in 1..6 |->
      [box    |-> MCBox((IF k >= change THEN (match \ expunged) \cup arrived ELSE match),
                        IF k >= change /\ arrived # {} THEN 7 ELSE 6,
                        IF k >= recreate THEN 2 ELSE 1),
       gone   |-> IF k = lose THEN vanish ELSE {},
       fit    |-> IF k = large THEN 0 ELSE 2,
       first  |-> IF k # fault THEN "ok" ELSE IF again = "protocol" THEN again ELSE "unavailable",
       second |-> again]] :
     match \in {{3} \cup x : x \in SUBSET {1, 2, 4, 5}}, change \in {2, 3}, expunged \in {{}, {2}, {3, 4}}, arrived \in {{}, {6}},
     recreate \in {3, 9}, lose \in {1, 2, 9}, vanish \in {{4}, {3, 5}}, fault \in {2, 9}, large \in {1, 2, 9}, again \in {"ok", "unavailable", "protocol"}}
MCMailPageCases == [steps : MCMailSteps, limit : {1, 3}]

MCParts == [kind : {"plain", "html", "file"}, wire : {"ok", "gone", "too_large", "undecodable"}, size : {0, 2, 5}]
MCMessageCases ==
  [selected : {1}, validity : {1, 2}, vanished : BOOLEAN, parts : UNION {TupleOf(MCParts, k) : k \in 0..2},
   allowHtml : BOOLEAN, maxBody : {1, 4, 6}, meta : {1, 2, 6, 7}]
=============================================================================
