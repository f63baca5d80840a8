---------------------------- MODULE ContactSearch ---------------------------
(***************************************************************************)
(* search_contacts: the scan over address books with its shared budget of  *)
(* cards and bytes (internal/contacts/operations.go), the per-book scan of *)
(* a restricted scope (internal/mcptools/resources.go) and the cuts of the *)
(* result (internal/mcptools/contacts_read.go).                            *)
(*                                                                         *)
(* A card is [uid, key, match, data, size]: uid is its UID and its book,   *)
(* key its name as it is sorted (one key for both sorts: names have no     *)
(* blanks at their ends), match whether the local filter keeps it, data    *)
(* whether its row of a response holds address data with a 200 propstat,   *)
(* size its bytes in a response.  The row with status 507 that a server    *)
(* puts in the place of cards past its own limit is a card without data.   *)
(* A book is [multi, rows]: the cards for which the server's filter holds, *)
(* among them every card that the local filter keeps, and whether the      *)
(* server answers with 207 or with another 2xx status.                     *)
(***************************************************************************)
EXTENDS Integers, SequencesExt, FiniteSetsExt

CONSTANTS
  MaxCardsScanned,  \* cards one SearchContacts decodes
  MaxReportBytes,   \* bytes one SearchContacts reads
  MaxResult         \* summaries that fit into a result

ASSUME SearchBounds == {MaxCardsScanned, MaxReportBytes, MaxResult} \subseteq Nat

Card == [uid : Int, key : Int, match : BOOLEAN, data : BOOLEAN, size : Nat]
Book == [multi : BOOLEAN, rows : Seq(Card)]

Least(a, b) == IF a < b THEN a ELSE b
Prefix(s, n) == SubSeq(s, 1, Least(n, Len(s)))
Bytes(rows) == FoldLeft(LAMBDA sum, r : sum + r.size, 0, rows)
Before(a, b) == a.key < b.key \/ (a.key = b.key /\ a.uid < b.uid)

\* A stable sort: the k-th summary has k - 1 in front of it.
InFront(s, i, j) == Before(s[i], s[j]) \/ (~Before(s[j], s[i]) /\ i < j)
SortSummaries(s) ==
  [k \in DOMAIN s |->
     s[CHOOSE j \in DOMAIN s : Cardinality({i \in DOMAIN s : InFront(s, i, j)}) = k - 1]]

\* The cards of a set, in their order.
Keep(cards, K) == FoldLeft(LAMBDA out, c : IF c \in K THEN Append(out, c) ELSE out, <<>>, cards)

\* The cards that the local filter keeps.
Matches(cards) == Keep(cards, {c \in ToSet(cards) : c.match})

\* Rows without address data are passed over.
WithData(rows) == Keep(rows, {c \in ToSet(rows) : c.data})

\* The rows of a REPORT (external): the server honours nresults or does not.
ServerRows(rows, limit, honours) == IF honours THEN Prefix(rows, limit) ELSE rows

\* Decoding stops at the row limit and says so.
DecodeMultiStatus(rows, rowLimit) ==
  [objects |-> Prefix(rows, rowLimit), overflow |-> Len(rows) > rowLimit]

\* report: the body may not exceed the byte cap; without a 207 it holds no cards
\* and is no error.
Report(book, rowLimit, byteCap, honours) ==
  LET rows    == ServerRows(book.rows, rowLimit, honours)
      decoded == DecodeMultiStatus(IF book.multi THEN rows ELSE <<>>, rowLimit)
  IN  [error |-> Bytes(rows) > byteCap, used |-> Bytes(rows),
       objects |-> WithData(decoded.objects), overflow |-> decoded.overflow]

\* Mutant: the request leaves no room to see that there is one card more.
RequestLimitTight(remainingCards) == remainingCards

RequestLimit(remainingCards) == remainingCards + 1

StartScan == [error |-> FALSE, done |-> FALSE, scanLimit |-> FALSE, matches |-> <<>>,
              cards |-> MaxCardsScanned, bytes |-> MaxReportBytes]

\* One round of the loop over the selected books.
ScanBook(acc, book, isLast, honours) ==
  IF acc.done THEN acc
  ELSE IF acc.cards = 0 \/ acc.bytes = 0
  THEN [acc EXCEPT !.scanLimit = TRUE, !.done = TRUE]
  ELSE LET r        == Report(book, RequestLimit(acc.cards), acc.bytes, honours)
           complete == Least(Len(r.objects), acc.cards)
           limit    == \/ r.overflow
                       \/ Len(r.objects) > complete
                       \/ acc.cards = complete /\ ~isLast
       IN  IF r.error THEN [acc EXCEPT !.error = TRUE, !.done = TRUE]
           ELSE [error |-> FALSE, done |-> limit, scanLimit |-> limit,
                 matches |-> acc.matches \o Matches(Prefix(r.objects, complete)),
                 cards |-> acc.cards - complete, bytes |-> acc.bytes - r.used]

\* SearchContacts over the books, in discovery order.
ScanBooks(books, honours) ==
  FoldLeft(LAMBDA acc, i : ScanBook(acc, books[i], i = Len(books), honours),
           StartScan, [i \in DOMAIN books |-> i])

\* What a scan found, sorted and cut.
ScanResult(scan, cap) ==
  [error |-> scan.error, contacts |-> Prefix(SortSummaries(scan.matches), cap),
   scanLimit |-> scan.scanLimit, truncated |-> Len(scan.matches) > cap]

SearchContacts(books, limit, honours) ==
  ScanResult(ScanBooks(books, honours), Least(limit, MaxResult))

StartJoin == [error |-> FALSE, contacts |-> <<>>, truncated |-> FALSE, scanLimit |-> FALSE]

\* Mutant: what one of the books had to leave out is forgotten.
JoinScopedForgets(acc, part) ==
  [error |-> acc.error \/ part.error, contacts |-> acc.contacts \o part.contacts,
   truncated |-> part.truncated, scanLimit |-> part.scanLimit]

\* The results of a restricted scope's books are joined.
JoinScoped(acc, part) ==
  [error |-> acc.error \/ part.error, contacts |-> acc.contacts \o part.contacts,
   truncated |-> acc.truncated \/ part.truncated, scanLimit |-> acc.scanLimit \/ part.scanLimit]

\* searchScopedContacts with a restricted scope: one scan per allowed book.
JoinBooks(books, limit, honours) ==
  FoldLeft(LAMBDA acc, b : JoinScoped(acc, SearchContacts(<<b>>, limit, honours)), StartJoin, books)

JoinResult(all, limit) ==
  [error |-> all.error, contacts |-> Prefix(SortSummaries(all.contacts), limit),
   truncated |-> all.truncated \/ Len(all.contacts) > limit, scanLimit |-> all.scanLimit]

SearchScoped(books, limit, honours) == JoinResult(JoinBooks(books, limit, honours), limit)

\* The handler's own cuts.
HandlerResult(found, cap) ==
  LET kept == Prefix(found.contacts, cap)
  IN  [error |-> found.error, contacts |-> kept,
       truncated |-> found.truncated \/ kept # found.contacts, scanLimit |-> found.scanLimit]

SearchContactsHandler(books, restricted, limit, honours) ==
  HandlerResult(IF restricted THEN SearchScoped(books, limit, honours)
                ELSE SearchContacts(books, limit, honours),
                Least(limit, MaxResult))

-----------------------------------------------------------------------------
\* The cards that a server shows of a book, and the books that it shows whole.
CardsShown(book) == IF book.multi THEN {c \in ToSet(book.rows) : c.data} ELSE {}
ShownWhole(book) == book.multi /\ \A c \in ToSet(book.rows) : c.data

\* What the answer has to say: it lists matching contacts that the server has
\* shown, each once and in order; a match of a book that was shown whole is listed,
\* or the scan is marked as ended, or the answer is marked as cut and the match
\* comes after everything listed.  Of the other books, with a row without data or
\* an answer other than 207, contacts may be missing and nothing says so, not even
\* for the cards that did come with data: a row without data uses up one of the
\* rows asked for.
ContactsAreHonest(books, result) ==
  LET listed == result.contacts
  IN  ~result.error =>
        /\ \A c \in ToSet(listed) : c.match /\ \E b \in ToSet(books) : c \in CardsShown(b)
        /\ \A i, j \in DOMAIN listed : i < j => Before(listed[i], listed[j])
        /\ ~result.scanLimit =>
             \A b \in ToSet(books) : ShownWhole(b) =>
               \A c \in CardsShown(b) \ ToSet(listed) :
                 c.match => result.truncated /\ \A i \in DOMAIN listed : Before(listed[i], c)
=============================================================================
