------------------------------ MODULE MailRead ------------------------------
(***************************************************************************)
(* search_messages and get_message (internal/mail/service.go, read.go and  *)
(* imapadapter/session.go): one page of a search by windows of UIDs, the   *)
(* cursor that leads to the next page, and the choice of a message's body. *)
(*                                                                         *)
(* A mailbox is [validity, next, match]: its UIDVALIDITY, its UIDNEXT and  *)
(* the UIDs the criteria hold for.  Between SEARCH and FETCH another       *)
(* client may expunge messages; FETCH answers for the ones that are left.  *)
(***************************************************************************)
EXTENDS Integers, SequencesExt, FiniteSetsExt

CONSTANTS
  Window,         \* UIDs of one UID SEARCH
  MaxUIDsScanned, \* UIDs of one call
  MaxResultBytes, \* size of a message result
  MaxAttachments, \* attachments of a message
  FitSlack        \* what fitMessageResult cuts besides the excess

ASSUME MailReadBounds ==
  /\ {Window, MaxUIDsScanned} \subseteq Nat \ {0}
  /\ {MaxResultBytes, MaxAttachments, FitSlack} \subseteq Nat

Smaller(x, y) == IF x < y THEN x ELSE y
Larger(x, y) == IF x > y THEN x ELSE y
Above(u, S) == Cardinality({v \in S : v > u})

\* The k-th of the UIDs has k - 1 above it; the newest n have fewer than n.
Descending(S) == [k \in 1..Cardinality(S) |-> CHOOSE u \in S : Above(u, S) = k - 1]
Newest(S, n) == {u \in S : Above(u, S) < n}

-----------------------------------------------------------------------------
(* One call of search_messages.  Cursor 0 means that none was given. *)

\* UID SEARCH of one window, and what the adapter checks of the answer.
SearchWindow(box, low, high) == {u \in box.match : low <= u /\ u <= high}

\* The loop over windows, from the highest UID down.
ScanWindow(acc, box, limit) ==
  IF acc.high = 0 \/ acc.scanned >= MaxUIDsScanned \/ Cardinality(acc.found) > limit THEN acc
  ELSE LET width == Smaller(Window, MaxUIDsScanned - acc.scanned)
           low   == IF acc.high >= width THEN acc.high - width + 1 ELSE 1
       IN  [found   |-> acc.found \cup SearchWindow(box, low, acc.high),
            scanned |-> acc.scanned + (acc.high - low + 1),
            high    |-> low - 1]

Scan(box, cursor, limit) ==
  LET top   == box.next - 1
      start == [found |-> {}, scanned |-> 0,
                high |-> IF cursor # 0 /\ cursor - 1 < top THEN cursor - 1 ELSE top]
  IN  FoldLeft(LAMBDA acc, k : ScanWindow(acc, box, limit), start,
               [k \in 1..MaxUIDsScanned |-> k])

\* Mutant: after the scan limit the search goes on below the last match, if any.
ScanLimitCursorLastMatch(high, rows) == IF rows # <<>> THEN Last(rows) ELSE 0

\* After the scan limit the search goes on where the scan stopped.
ScanLimitCursor(high, rows) == high + 1

\* The next cursor; 0 when the answer has none.
NextBeforeUID(cut, scanLimit, high, rows) ==
  CASE cut /\ rows # <<>>             -> Last(rows)
    [] cut /\ rows = <<>> /\ high > 0 -> high + 1
    [] ~cut /\ scanLimit              -> ScanLimitCursor(high, rows)
    [] OTHER                          -> 0

\* The operation of SearchMessages in one IMAP session; gone are the messages that
\* disappear after the SEARCH, and the first fit of the summaries keep the result
\* within its limit of bytes: none of them, if the first is too large by itself.
SearchMessages(box, gone, fit, cursor, validity, limit) ==
  LET scan      == Scan(box, cursor, limit)
      fetched   == Descending(Newest(scan.found, limit) \ gone)
      rows      == SubSeq(fetched, 1, Smaller(fit, Len(fetched)))
      cut       == Cardinality(scan.found) > limit \/ Len(rows) < Len(fetched)
      scanLimit == scan.scanned = MaxUIDsScanned /\ scan.high > 0
  IN  IF cursor # 0 /\ validity # box.validity
      THEN [error |-> "concurrent_modification"]
      ELSE [error |-> "none", rows |-> rows, validity |-> box.validity, truncated |-> cut,
            scanLimit |-> scanLimit, next |-> NextBeforeUID(cut, scanLimit, scan.high, rows)]

\* An attempt that failed in transport is made once more; any other failure is final.
RetryableRead(outcome) == outcome = "unavailable"

Read(first, second, answer) ==
  LET last == IF RetryableRead(first) THEN second ELSE first
  IN  IF last = "ok" THEN answer ELSE [error |-> last]

-----------------------------------------------------------------------------
(* A client that follows the cursor.  step[k] is what the k-th call meets: the *)
(* mailbox, what is expunged under way, how many summaries fit into the result *)
(* and how the attempts go.                                                    *)

MailStep ==
  [box : [match : SUBSET Nat, next : Nat \ {0}, validity : Nat], gone : SUBSET Nat, fit : Nat,
   first : {"ok", "unavailable", "protocol"}, second : {"ok", "unavailable", "protocol"}]

\* skipped is history: what the SEARCH found for pages that were cut down to nothing.
StartPaging == [cursor |-> 0, validity |-> 0, rows |-> <<>>, pages |-> 0, done |-> FALSE,
                error |-> "none", skipped |-> {}]

FollowCursor(acc, step, limit) ==
  LET r == Read(step.first, step.second,
                SearchMessages(step.box, step.gone, step.fit, acc.cursor, acc.validity, limit))
  IN  CASE acc.done -> acc
        [] ~acc.done /\ r.error = "none" ->
             [cursor |-> r.next, validity |-> r.validity, rows |-> acc.rows \o r.rows,
              pages |-> acc.pages + 1, done |-> r.next = 0, error |-> "none",
              skipped |-> acc.skipped \cup IF r.truncated /\ r.rows = <<>>
                                           THEN Scan(step.box, acc.cursor, limit).found ELSE {}]
        [] ~acc.done /\ r.error = "concurrent_modification" ->
             [acc EXCEPT !.done = TRUE, !.error = r.error]
        [] OTHER -> acc   \* the client asks again with the same cursor

Paging(steps, limit) ==
  FoldLeft(LAMBDA acc, s : FollowCursor(acc, s, limit), StartPaging, steps)

\* What paging has to give: messages of one mailbox incarnation in descending
\* order without repetition, and once there is no further cursor every message
\* that matched in all of the calls, except the ones that a SEARCH had found for a
\* page of which the limits, or an expunge before the FETCH, left no row: the
\* cursor of such a page lies below them, or there is none.
PagingIsComplete(steps, result) ==
  LET stayed == {u \in steps[1].box.match : \A k \in DOMAIN steps : u \in steps[k].box.match \ steps[k].gone}
  IN  /\ \A i, j \in DOMAIN result.rows : i < j => result.rows[i] > result.rows[j]
      /\ result.done /\ result.error = "none" => stayed \subseteq ToSet(result.rows) \cup result.skipped
      /\ result.error = "none" /\ result.pages > 0 =>
           \A u \in ToSet(result.rows) :
             \E k \in DOMAIN steps : steps[k].box.validity = result.validity /\ u \in steps[k].box.match

-----------------------------------------------------------------------------
(* get_message.  A part is [kind, wire, size]: "plain" is an inline text part, *)
(* "html" one of HTML, "file" an attachment; wire is how its fetch ends.       *)

Part == [kind : {"plain", "html", "file"}, wire : {"ok", "gone", "too_large", "undecodable"}, size : Nat]

MessageResult == [error |-> "none", body |-> 0, source |-> "none", omitted |-> FALSE,
                  reason |-> "none", warnings |-> {}]

Omit(r, warning) == [r EXCEPT !.omitted = TRUE, !.warnings = @ \cup {warning}]

FirstOf(parts, kind) ==
  parts[CHOOSE i \in DOMAIN parts : /\ parts[i].kind = kind
                                    /\ \A j \in DOMAIN parts : j < i => parts[j].kind # kind]
HasPart(parts, kind) == \E p \in ToSet(parts) : p.kind = kind

\* The plain text, if there is one: all of it or none of it.
PlainBody(part, maxBody) ==
  CASE part.wire = "gone"        -> [MessageResult EXCEPT !.error = "not_found"]
    [] part.wire = "too_large"   -> Omit(MessageResult, "body_too_large")
    [] part.wire = "undecodable" -> Omit(MessageResult, "body_decode_failed")
    [] part.wire = "ok" /\ part.size > maxBody -> Omit(MessageResult, "body_too_large")
    [] OTHER -> [MessageResult EXCEPT !.body = part.size, !.source = "plain_text"]

\* The text of an HTML part, cut to the limit; undecodable stands for malformed too.
HtmlBody(part, maxBody) ==
  LET none == [MessageResult EXCEPT !.reason = "html_only"]
  IN  CASE part.wire = "gone"        -> [MessageResult EXCEPT !.error = "not_found"]
        [] part.wire = "too_large"   -> Omit(none, "html_too_large")
        [] part.wire = "undecodable" -> Omit(none, "html_decode_failed")
        [] OTHER -> [MessageResult EXCEPT
                       !.body = Smaller(part.size, maxBody), !.source = "html_fallback",
                       !.warnings = IF part.size > maxBody THEN {"html_truncated"} ELSE {}]

ChooseBody(parts, allowHtml, maxBody) ==
  CASE HasPart(parts, "plain") -> PlainBody(FirstOf(parts, "plain"), maxBody)
    [] ~HasPart(parts, "plain") /\ HasPart(parts, "html") /\ allowHtml ->
         HtmlBody(FirstOf(parts, "html"), maxBody)
    [] ~HasPart(parts, "plain") /\ HasPart(parts, "html") /\ ~allowHtml ->
         [MessageResult EXCEPT !.reason = "html_only"]
    [] OTHER -> [MessageResult EXCEPT !.reason = "no_plain_text"]

ResultSize(r, meta) == meta + Cardinality(r.warnings) + r.body

\* Mutant: the cut body is not announced.
CutBodySilently(r, meta) ==
  [r EXCEPT !.body = Larger(0, @ - (ResultSize(r, meta) - MaxResultBytes) - FitSlack)]

\* The body is cut until the result fits, with a warning.
CutBody(r, meta) ==
  LET w == [r EXCEPT !.warnings = @ \cup {"body_truncated"}]
  IN  [w EXCEPT !.body = Larger(0, @ - (ResultSize(w, meta) - MaxResultBytes) - FitSlack)]

FitMessageResult(r, meta) ==
  LET cut == IF r.body > 0 THEN CutBody(r, meta) ELSE r
      out == [cut EXCEPT !.body = 0, !.omitted = TRUE]
  IN  CASE r.error # "none" \/ ResultSize(r, meta) <= MaxResultBytes -> r
        [] r.error = "none" /\ ResultSize(r, meta) > MaxResultBytes
             /\ ResultSize(cut, meta) <= MaxResultBytes -> cut
        [] r.error = "none" /\ ResultSize(r, meta) > MaxResultBytes
             /\ ResultSize(cut, meta) > MaxResultBytes /\ ResultSize(out, meta) <= MaxResultBytes -> out
        [] OTHER -> [MessageResult EXCEPT !.error = "payload_too_large"]

\* GetMessage on the mailbox incarnation it selects.
GetMessage(m) ==
  IF m.selected # m.validity THEN [MessageResult EXCEPT !.error = "concurrent_modification"]
  ELSE IF m.vanished THEN [MessageResult EXCEPT !.error = "not_found"]
  ELSE IF Len(SelectSeq(m.parts, LAMBDA p : p.kind = "file")) > MaxAttachments
       THEN [MessageResult EXCEPT !.error = "payload_too_large"]
  ELSE FitMessageResult(ChooseBody(m.parts, m.allowHtml, m.maxBody), m.meta)

\* A body that is shorter than the text of the message is never passed off as all
\* of it: it is omitted, explained or warned of.  A result fits its limit.
BodyIsAccountedFor(m, r) ==
  r.error = "none" =>
    /\ ResultSize(r, m.meta) <= MaxResultBytes
    /\ r.source = "plain_text" => r.body = FirstOf(m.parts, "plain").size \/ r.warnings # {} \/ r.omitted
    /\ r.source = "html_fallback" =>
         /\ m.allowHtml /\ ~HasPart(m.parts, "plain")
         /\ r.body = FirstOf(m.parts, "html").size \/ r.warnings # {} \/ r.omitted
    /\ r.source = "none" => r.body = 0 /\ (r.omitted \/ r.reason # "none")
=============================================================================
