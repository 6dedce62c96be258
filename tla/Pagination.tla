----------------------------- MODULE Pagination -----------------------------
(***************************************************************************)
(* Cursor pagination of one table: PaginationRequest and PaginationResult, *)
(* which carry the position of a client from page to page, and             *)
(* PaginationUtils.GetResultAsync, which reads a page.  One client browses *)
(* or enumerates (SourceKnownRepository.PaginateAsync, PaginateAllAsync)   *)
(* while other transactions insert and delete rows, also between the two   *)
(* queries of one request.                                                 *)
(*                                                                         *)
(* A row is its numeric id.  The id of a row says when its transaction     *)
(* began, not when it committed, so rows may appear in any order.          *)
(***************************************************************************)
EXTENDS Integers, Sequences, FiniteSets, SequencesExt

CONSTANTS
  Rows,        \* the ids rows may have, numbers greater than NoId
  PageSizes,   \* the page sizes clients ask for
  MaxJump,     \* the 10 of PaginationRequest.From
  JumpTargets, \* the page numbers clients jump to
  MaxPage,     \* bound: the largest page number requested
  MaxWritable  \* bound: the rows that other transactions touch

ASSUME PaginationAssumption ==
  /\ Rows \subseteq Nat \ {0} /\ IsFiniteSet(Rows)
  /\ PageSizes \subseteq Nat \ {0}
  /\ JumpTargets \subseteq Int
  /\ {MaxJump, MaxWritable} \subseteq Nat
  /\ MaxPage \in Nat \ {0}

NoId == 0           \* Guid.Empty
NotSpecified == -1  \* no total count

VARIABLES
  table,    \* the rows the query of the client ranges over
  writable, \* the rows other transactions may still insert or delete
  pc,       \* "idle", or the query the client waits for: "items", "count"
  request,  \* the request being answered
  items,    \* local of GetResultAsync: the rows the first query returned
  result,   \* the last result, NoResult before the first
  refused,  \* TRUE when the last request ended in a ValidationException
  walk      \* history: what the session was shown, see Opened

vars == <<table, writable, pc, request, items, result, refused, walk>>

Orders == {"asc", "desc"}

(* r stands before s on the pages of a client that sorts by order.         *)
Before(order, r, s) == IF order = "asc" THEN r < s ELSE r > s

(* The i-th row is the one with i - 1 rows before it.                      *)
Sorted(S, order) ==
  [i \in 1..Cardinality(S) |->
     CHOOSE r \in S : Cardinality({x \in S : Before(order, x, r)}) = i - 1]

-----------------------------------------------------------------------------
(* PageCursor and PaginationRequest.                                       *)

(* Mutant: a page number is taken as it is.                                *)
AnyPage(page) == page

AtLeastOne(page) == IF page < 1 THEN 1 ELSE page

Cursor(page, first, last, order) ==
  [page |-> page, first |-> first, last |-> last, order |-> order]

InitialCursor(order) == Cursor(1, NoId, NoId, order)

IsFirstRequest(cursor) == cursor.page = 1 /\ cursor.last = NoId

Request(page, size, cursor, total, update, mark) ==
  [page |-> AtLeastOne(page), size |-> size, cursor |-> cursor,
   total |-> total, update |-> update, mark |-> mark]

DefaultWith(size, order, total, update) ==
  Request(1, size, InitialCursor(order), total, update, FALSE)

Direction(req) ==
  CASE req.page > req.cursor.page \/ IsFirstRequest(req.cursor) -> "next"
    [] req.page < req.cursor.page -> "previous"
    [] OTHER -> "refresh"

PageDifference(req) ==
  IF req.page > req.cursor.page THEN req.page - req.cursor.page
                                ELSE req.cursor.page - req.page

(* Mutant: a jump skips the page it leads to as well.                      *)
SkipWhole(req) == IF PageDifference(req) > 1 THEN PageDifference(req) * req.size ELSE 0

SkipSize(req) ==
  IF PageDifference(req) > 1 THEN (PageDifference(req) - 1) * req.size ELSE 0

(* The id a request continues from: PaginateAsync refuses an empty one.    *)
CursorId(req) ==
  IF Direction(req) = "next" THEN req.cursor.last ELSE req.cursor.first

(* PaginationResultBase.RequestPage: a request that continues from res.    *)
RequestPage(res, page, update, mark) ==
  Request(page, res.request.size,
          Cursor(res.request.page, res.first, res.last,
                 res.request.cursor.order),
          res.total, update, mark)

RequestRefresh(res, update) ==
  RequestPage(res, res.request.page, update, res.hasNext)

(* PaginationRequest.From with a result: the jump is limited to MaxJump    *)
(* pages, and a changed order or size begins again at the first page.      *)
From(res, jumpTo, size, order, update) ==
  LET page == res.request.page
      target == CASE page - jumpTo > MaxJump  -> page + MaxJump
                  [] page - jumpTo < -MaxJump -> page - MaxJump
                  [] OTHER -> jumpTo
  IN IF order # res.request.cursor.order \/ size # res.request.size
     THEN DefaultWith(size, order, res.total, update)
     ELSE IF page = jumpTo THEN RequestRefresh(res, update)
     ELSE RequestPage(res, AtLeastOne(target), update, FALSE)

-----------------------------------------------------------------------------
(* PaginationUtils.                                                        *)

(* Mutant: the next page begins at the cursor instead of after it.         *)
FilterFromCursor(rows, req) ==
  LET c == req.cursor
  IN IF IsFirstRequest(c) THEN rows
     ELSE CASE Direction(req) = "previous" ->
                 {r \in rows : Before(c.order, r, c.first)}
            [] Direction(req) = "next" ->
                 {r \in rows : r = c.last \/ Before(c.order, c.last, r)}
            [] OTHER -> {r \in rows : ~Before(c.order, r, c.first)}

FilterQueryByCursor(rows, req) ==
  LET c == req.cursor
  IN IF IsFirstRequest(c) THEN rows
     ELSE CASE Direction(req) = "refresh" ->
                 {r \in rows : ~Before(c.order, r, c.first)}
            [] Direction(req) = "next" ->
                 {r \in rows : Before(c.order, c.last, r)}
            [] OTHER -> {r \in rows : Before(c.order, r, c.first)}

(* A previous page is read backwards, so that the rows nearest to the      *)
(* cursor come first.                                                      *)
SortByEntityId(rows, req) ==
  IF Direction(req) = "previous"
  THEN Reverse(Sorted(rows, req.cursor.order))
  ELSE Sorted(rows, req.cursor.order)

SkipTake(sorted, skip, take) ==
  SubSeq(sorted, skip + 1,
         IF skip + take < Len(sorted) THEN skip + take ELSE Len(sorted))

(* The rows of a request and one more, in the order of the client.         *)
GetEntities(rows, req) ==
  LET taken == SkipTake(SortByEntityId(FilterQueryByCursor(rows, req), req),
                        SkipSize(req), req.size + 1)
  IN IF Direction(req) = "previous" THEN Reverse(taken) ELSE taken

(* PaginationTotal.Pages.                                                  *)
Pages(total, size) == (total + size - 1) \div size

TrimExcess(read, req) ==
  IF Direction(req) = "previous"
  THEN SubSeq(read, 2, Len(read))
  ELSE SubSeq(read, 1, Len(read) - 1)

(* Mutant: a full page counts as one that has a next page.                 *)
HasExcessWhenFull(read, req) == Len(read) >= req.size

HasExcess(read, req) == Len(read) = req.size + 1

(* The constructor of PaginationResult.                                    *)
Result(read, req, total) ==
  LET shown == IF Len(read) = req.size + 1 THEN TrimExcess(read, req) ELSE read
      more == \/ Direction(req) = "previous"
              \/ Direction(req) = "next" /\ HasExcess(read, req)
  IN [request |-> req,
      items   |-> shown,
      first   |-> IF shown = <<>> THEN NoId ELSE Head(shown),
      last    |-> IF shown = <<>> THEN NoId ELSE Last(shown),
      total   |-> total,
      hasPrevious |-> req.page > 1,
      hasNext |-> IF total = NotSpecified
                  THEN more \/ (req.mark /\ Direction(req) = "refresh")
                  ELSE more \/ req.page < Pages(total, req.size)]

NoResult == [request |-> DefaultWith(1, "asc", NotSpecified, FALSE),
             items |-> <<>>, first |-> NoId, last |-> NoId,
             total |-> NotSpecified, hasPrevious |-> FALSE,
             hasNext |-> FALSE]

-----------------------------------------------------------------------------
(* What the client of a session saw.  stayed: the rows that were there     *)
(* when the session began and still are; shown: the rows of the pages, as  *)
(* long as the client only moved to the next page; path: how it moved;     *)
(* fresh: the table did not change since the oldest total or row was read  *)
(* that the session uses.                                                  *)
Opened == [stayed |-> table, shown |-> <<>>, path |-> "next",
           fresh |-> TRUE]

Unopened == [stayed |-> {}, shown |-> <<>>, path |-> "none", fresh |-> FALSE]

Moved(path) ==
  IF walk.path = "next" /\ path # "next"
  THEN [walk EXCEPT !.path = path, !.shown = <<>>, !.stayed = {}]
  ELSE IF path = "jump" THEN [walk EXCEPT !.path = path] ELSE walk

(* The first query of GetResultAsync is about to run for req, or the       *)
(* request is refused because a cursor id is empty.                        *)
Ask(req) ==
  /\ req.page <= MaxPage
  /\ IF \/ IsFirstRequest(req.cursor)
        \/ {CursorId(req), req.cursor.first, req.cursor.last} \cap {NoId} = {}
     THEN pc' = "items" /\ request' = req /\ refused' = FALSE
     ELSE pc' = "idle" /\ request' = request /\ refused' = TRUE
  /\ UNCHANGED <<table, writable, items, result>>

Init ==
  /\ table \in SUBSET Rows
  /\ writable \in {W \in SUBSET Rows : Cardinality(W) <= MaxWritable}
  /\ pc = "idle"
  /\ request = NoResult.request
  /\ items = <<>>
  /\ result = NoResult
  /\ refused = FALSE
  /\ walk = Unopened

(* A session begins: DefaultWith, or From without a result.                *)
Start(size, order, update) ==
  /\ pc = "idle"
  /\ walk' = Opened
  /\ Ask(DefaultWith(size, order, NotSpecified, update))

(* The client moves as the result tells it.                                *)
NextPage(update) ==
  /\ pc = "idle"
  /\ result.hasNext /\ ~refused
  /\ walk' = Moved("next")
  /\ Ask(RequestPage(result, result.request.page + 1, update, FALSE))

PreviousPage(update) ==
  /\ pc = "idle"
  /\ result.hasPrevious /\ ~refused
  /\ walk' = Moved("back")
  /\ Ask(RequestPage(result, result.request.page - 1, update, FALSE))

Refresh(update) ==
  /\ pc = "idle"
  /\ result # NoResult /\ ~refused
  /\ walk' = Moved("back")
  /\ Ask(RequestRefresh(result, update))

(* PaginateAsync with a result and a page to jump to.                      *)
Jump(jumpTo, size, order, update) ==
  /\ pc = "idle"
  /\ result # NoResult /\ ~refused
  /\ walk' = IF order # result.request.cursor.order
                \/ size # result.request.size
             THEN [Opened EXCEPT !.fresh = walk.fresh] ELSE Moved("jump")
  /\ Ask(From(result, jumpTo, size, order, update))

Publish(read, total) ==
  /\ pc' = "idle"
  /\ result' = Result(read, request, total)
  /\ items' = <<>>
  /\ walk' = IF walk.path = "next"
             THEN [walk EXCEPT !.shown = @ \o result'.items] ELSE walk

ReadItems ==
  /\ pc = "items"
  /\ LET read == GetEntities(table, request)
     IN IF request.update
        THEN pc' = "count" /\ items' = read /\ UNCHANGED <<result, walk>>
        ELSE Publish(read, request.total)
  /\ UNCHANGED <<table, writable, request, refused>>

CountRows ==
  /\ pc = "count"
  /\ Publish(items, Cardinality(table))
  /\ UNCHANGED <<table, writable, request, refused>>

(* Other transactions: a row is inserted once and deleted once.            *)
Insert(r) ==
  /\ r \in writable \ table
  /\ table' = table \cup {r}
  /\ walk' = [walk EXCEPT !.fresh = FALSE]
  /\ UNCHANGED <<writable, pc, request, items, result, refused>>

Delete(r) ==
  /\ r \in writable \cap table
  /\ table' = table \ {r}
  /\ writable' = writable \ {r}
  /\ walk' = [walk EXCEPT !.stayed = @ \ {r}, !.fresh = FALSE]
  /\ UNCHANGED <<pc, request, items, result, refused>>

Next ==
  \/ \E size \in PageSizes, order \in Orders, update \in BOOLEAN :
       \/ Start(size, order, update)
       \/ \E jumpTo \in JumpTargets : Jump(jumpTo, size, order, update)
  \/ \E update \in BOOLEAN :
       NextPage(update) \/ PreviousPage(update) \/ Refresh(update)
  \/ ReadItems
  \/ CountRows
  \/ \E r \in Rows : Insert(r) \/ Delete(r)

Spec == Init /\ [][Next]_vars

-----------------------------------------------------------------------------
(* Type invariant: pages hold at most size rows, in the order of the       *)
(* client, and page numbers are at least one.                              *)
TypeOK ==
  /\ table \subseteq Rows /\ writable \subseteq Rows
  /\ pc \in {"idle", "items", "count"}
  /\ request.page \in 1..MaxPage
  /\ request.total \in {NotSpecified} \cup 0..Cardinality(Rows)
  /\ result.first \in Rows \cup {NoId} /\ result.last \in Rows \cup {NoId}
  /\ Len(result.items) <= result.request.size
  /\ \A i, j \in DOMAIN result.items :
       i < j => Before(result.request.cursor.order,
                       result.items[i], result.items[j])
  /\ walk.path \in {"none", "next", "back", "jump"}

(* A client that moves from page to page with RequestNextPage, as          *)
(* PaginateAllAsync does, sees no row twice and misses no row that stayed, *)
(* whatever is inserted and deleted meanwhile; when the result says that   *)
(* there is no next page it has seen them all.                             *)
WalkSeesWhatStays ==
  walk.path = "next" =>
    /\ \A i, j \in DOMAIN walk.shown :
         i < j => Before(request.cursor.order, walk.shown[i], walk.shown[j])
    /\ \A r \in walk.stayed :
         \/ r \in Range(walk.shown)
         \/ walk.shown = <<>>
         \/ Before(request.cursor.order, Last(walk.shown), r)
    /\ pc = "idle" /\ ~refused /\ ~result.hasNext =>
         walk.stayed \subseteq Range(walk.shown)

(* In a table that did not change since the session began, page n shows    *)
(* the n-th group of rows, whichever way the client came to it: forward,   *)
(* back, by a refresh or by jumps, which skip the pages in between.        *)
PageNumberIsPosition ==
  walk.fresh /\ pc = "idle" /\ result # NoResult /\ ~refused =>
    LET size == result.request.size
        sorted == Sorted(table, result.request.cursor.order)
    IN result.items = SkipTake(sorted, (result.request.page - 1) * size, size)

(* In a table that did not change, a client that follows HasNext and       *)
(* HasPrevious and does not jump is told exactly whether rows follow its   *)
(* page, and is never refused a page.                                      *)
HasNextIsExact ==
  walk.fresh /\ walk.path # "jump" /\ pc = "idle" =>
    /\ ~refused
    /\ result.hasNext <=>
         Cardinality(table) > result.request.page * result.request.size

(* The page that a capped jump goes to.                                    *)
Capped(page, jumpTo) ==
  AtLeastOne(CASE jumpTo > page + MaxJump -> page + MaxJump
               [] jumpTo < page - MaxJump -> page - MaxJump
               [] OTHER -> jumpTo)

(* What the repository says of a jump (SourceKnownRepository.cs:352):      *)
(* "jump distances beyond 10 pages in either direction are capped at 10".  *)
(* A jump from page p towards a page further away than MaxJump goes to the *)
(* page MaxJump away in that direction.                                    *)
JumpIsCapped ==
  [][\A jumpTo \in JumpTargets, size \in PageSizes, order \in Orders,
        update \in BOOLEAN :
       /\ Jump(jumpTo, size, order, update)
       /\ size = result.request.size
       /\ order = result.request.cursor.order
       /\ ~refused'
       => request'.page = Capped(result.request.page, jumpTo)]_vars

=============================================================================
