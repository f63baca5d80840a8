----------------------------- MODULE VCardPatch -----------------------------
(***************************************************************************)
(* The vCard of a contact: what internal/contacts/vcard.go accepts, what   *)
(* it writes for a new contact and how it patches an existing one without  *)
(* touching the lines it does not know.                                    *)
(*                                                                         *)
(* A card is a sequence of content lines [group, name, value].  Values are *)
(* sequences of words, so that "" is <<>>; the value of N is the pair of a *)
(* family and a given name.  The vCard library's encoder and decoder       *)
(* (external) are inverse on such lines.                                   *)
(***************************************************************************)
EXTENDS Integers, SequencesExt, FiniteSetsExt

CONSTANT MaxValues  \* how many typed values of one name a detail shows

ASSUME MaxValuesAssumption == MaxValues \in Nat

Single == {"FN", "NOTE"}           \* properties a patch gives one text value
Many   == {"EMAIL", "TEL"}         \* properties a patch gives a list of values

Line(name, value) == [group |-> "", name |-> name, value |-> value]

Named(card, name) == SelectSeq(card, LAMBDA l : l.name = name)
Values(card, name) == [i \in DOMAIN Named(card, name) |-> Named(card, name)[i].value]
Count(card, name) == Len(Named(card, name))

-----------------------------------------------------------------------------
(* Reading. *)

EmptyName == [family |-> <<>>, given |-> <<>>]
DisplayFromName(n) == n.given \o n.family

\* validateRawCard and decodeRawCard: what is accepted from the server.
ValidCard(card) ==
  /\ Len(card) >= 5
  /\ card[1] = Line("BEGIN", <<"VCARD">>) /\ Last(card) = Line("END", <<"VCARD">>)
  /\ Count(card, "BEGIN") = 1 /\ Count(card, "END") = 1
  /\ card[2].name = "VERSION" /\ Count(card, "VERSION") = 1 /\ Count(card, "UID") = 1
  /\ card[2].value \in {<<"3.0">>, <<"4.0">>}
  /\ IF card[2].value = <<"4.0">>
     THEN Count(card, "FN") >= 1 /\ Count(card, "N") <= 1
     ELSE Count(card, "FN") = 1 /\ Count(card, "N") = 1
  /\ \A l \in ToSet(card) : l.name \in {"VERSION", "UID", "FN", "N"} => l.group = ""
  /\ Values(card, "UID")[1] # <<>>
  /\ \E v \in ToSet(Values(card, "FN")) : v # <<>>

\* Mutant: the last of several equally preferred names wins.
BetterName(best, field) == best.value = <<>> \/ field.pref <= best.pref

\* Whether a formatted name takes the place of the best one so far.
TakesOver(best, field) == best.value = <<>> \/ field.pref < best.pref

\* One display name out of several: lowest PREF, then document order.
PreferredFormattedName(fields) ==
  FoldLeft(LAMBDA best, f : IF f.value # <<>> /\ TakesOver(best, f) THEN f ELSE best,
           [value |-> <<>>, pref |-> 101], fields).value

\* The typed values a summary or a detail shows.
ModeledTypedValues(card, name) ==
  LET all == Values(card, name)
  IN  SubSeq(all, 1, IF Len(all) > MaxValues THEN MaxValues ELSE Len(all))

-----------------------------------------------------------------------------
(* Writing.  A patch is a function from the names it touches to the new      *)
(* value: a text for a single property, the pair for N, a list for the rest. *)

WantedValues(name, v) ==
  CASE name = "N"       -> <<v>>
    [] name \in Many    -> v
    [] name \in Single  -> IF v = <<>> THEN <<>> ELSE <<v>>

\* A new contact: FN is derived when none was given.
NewV3Card(input, uid) ==
  LET fn == IF input["FN"] = <<>> THEN DisplayFromName(input["N"]) ELSE input["FN"]
      Of(name) == LET vs == WantedValues(name, input[name])
                  IN  [i \in DOMAIN vs |-> Line(name, vs[i])]
  IN  << Line("BEGIN", <<"VCARD">>), Line("VERSION", <<"3.0">>), Line("UID", uid),
         Line("FN", fn) >> \o Of("N") \o Of("NOTE") \o Of("EMAIL") \o Of("TEL")
      \o << Line("END", <<"VCARD">>) >>

\* applyPatch on the decoded card: the values each touched name gets, with the
\* display name derived from the structured one when it was cleared.
PatchedValues(card, patch) ==
  LET n == IF "N" \in DOMAIN patch THEN patch["N"] ELSE Values(card, "N")[1]
  IN  [name \in DOMAIN patch |->
         IF name = "FN" /\ patch["FN"] = <<>> THEN << DisplayFromName(n) >>
         ELSE WantedValues(name, patch[name])]

\* applyPatch refuses a patch that leaves the contact without any name.
LeavesNoName(card, patch) ==
  /\ "FN" \in DOMAIN patch /\ patch["FN"] = <<>>
  /\ (IF "N" \in DOMAIN patch THEN patch["N"] ELSE Values(card, "N")[1]) = EmptyName

NameOrder == << "FN", "N", "NOTE", "EMAIL", "TEL" >>
PatchedPropertyNames(patch) == SelectSeq(NameOrder, LAMBDA n : n \in DOMAIN patch)

\* Mutant: a replaced property is only written where one stood before.
EmitInPlace(values, names, emitted, isLast, l) ==
  IF l.name \in DOMAIN values /\ l.name \notin emitted THEN << l.name >> ELSE <<>>

\* The names whose replacement is written when the walk is at line l: before END
\* every name that has not been, otherwise the name of the line, the first time.
EmitNow(values, names, emitted, isLast, l) ==
  IF isLast THEN SelectSeq(names, LAMBDA n : n \notin emitted)
  ELSE IF l.name \in DOMAIN values /\ l.name \notin emitted THEN << l.name >> ELSE <<>>

\* The walk over the raw lines: unselected lines are copied as they are.
PatchedLines(card, patch) ==
  LET values == PatchedValues(card, patch)
      names  == PatchedPropertyNames(patch)
      Replacement(n) == [i \in DOMAIN values[n] |-> Line(n, values[n][i])]
      Step(acc, i) ==
        LET l    == card[i]
            emit == EmitNow(values, names, acc.emitted, i = Len(card), l)
        IN  [out     |-> acc.out \o FlattenSeq([k \in DOMAIN emit |-> Replacement(emit[k])])
                                 \o (IF l.name \in DOMAIN values THEN <<>> ELSE << l >>),
             emitted |-> acc.emitted \cup ToSet(emit)]
  IN  FoldLeft(Step, [out |-> <<>>, emitted |-> {}], [i \in DOMAIN card |-> i]).out

\* encodePatchedCard, and the version check of UpdateContact; max is the byte
\* limit, in lines.
EncodePatchedCard(card, patch, max) ==
  LET out == PatchedLines(card, patch)
  IN  CASE LeavesNoName(card, patch)     -> [error |-> "validation_error", card |-> <<>>]
        [] ~LeavesNoName(card, patch) /\ Len(out) > max
                                         -> [error |-> "payload_too_large", card |-> <<>>]
        [] ~LeavesNoName(card, patch) /\ Len(out) <= max /\ ~ValidCard(out)
                                         -> [error |-> "protocol_error", card |-> <<>>]
        [] ~LeavesNoName(card, patch) /\ Len(out) <= max /\ ValidCard(out) /\ out[2].value # <<"3.0">>
                                         -> [error |-> "validation_error", card |-> <<>>]
        [] OTHER                         -> [error |-> "", card |-> out]

-----------------------------------------------------------------------------
(* What a patch has to do. *)

\* The lines a patch does not name survive byte for byte and in order, each name
\* it does has exactly the requested values and shows all of them, a cleared display name is the one the
\* structured name spells, and the card that is sent is one the program accepts.
PatchIsExact(card, patch, result) ==
  LET untouched(c) == SelectSeq(c, LAMBDA l : l.name \notin DOMAIN patch)
  IN  IF result.error # "" THEN result.card = <<>>
      ELSE /\ untouched(result.card) = untouched(card)
           /\ ValidCard(result.card)
           /\ \A n \in DOMAIN patch \ {"FN"} :
                Values(result.card, n) = WantedValues(n, patch[n])
           /\ \A n \in DOMAIN patch \cap Many : ModeledTypedValues(result.card, n) = patch[n]
           /\ "FN" \in DOMAIN patch =>
                Values(result.card, "FN") =
                  << IF patch["FN"] # <<>> THEN patch["FN"]
                     ELSE DisplayFromName(Values(result.card, "N")[1]) >>

\* The preferred name is one of the most preferred non-empty ones, and the first.
IsPreferred(fields, value) ==
  LET usable == {i \in DOMAIN fields : fields[i].value # <<>>}
  IN  IF usable = {} THEN value = <<>>
      ELSE LET best == Min({fields[i].pref : i \in usable})
           IN  value = fields[Min({i \in usable : fields[i].pref = best})].value
=============================================================================
