--------------------------- MODULE SnapshotPaging ---------------------------
(***************************************************************************)
(* Service.Snapshot, which the reports use, and loadItems, which the quality *)
(* tools use: the schema of a board and up to a cap of its items, page by    *)
(* page, while the board changes; loadItems stops at a number of pages too.  *)
(* monday's cursor is external: it stands for the items that were on the     *)
(* board when the first page was asked for and have not been delivered; what *)
(* was archived since is passed over.  A page cut short brings none, but one *)
(* may come with the last item, and then the next page is empty.            *)
(***************************************************************************)
EXTENDS BoardContents, FiniteSets

CONSTANTS
  PageMax,     \* the largest page (100 in the code)
  ReportMax,   \* the configured cap on the items of a report
  Wanted,      \* the caps a caller of Snapshot may ask for
  InspectMax,  \* the most items of loadItems (5000 in the code)
  InspectDefault,  \* how many it reads unless told (500)
  PagesMax,    \* the most pages (50)
  Inspections  \* the [items, pages] a caller of loadItems may ask for; 0 leaves it open

ASSUME PagesAreBounded ==
  {PageMax, ReportMax, InspectMax, InspectDefault, PagesMax} \subseteq Nat \ {0}
ASSUME WantedAreNumbers ==
  Wanted \subseteq Int /\ Inspections \subseteq [items : Int, pages : Int]

\* The cursor is the list of names not yet delivered, or NoCursor.
NoCursor == [none |-> TRUE, rest |-> <<>>]
CursorTo(rest) == [none |-> FALSE, rest |-> rest]
NoBound == -1

VARIABLES
  reading,       \* idle, paging, done, failed
  cap,           \* maxItems, as corrected
  pageCap,       \* maxPages of loadItems, NoBound for Snapshot
  pages,         \* the pages loadItems has read
  schemaGroups,  \* the groups of the schema
  got,           \* the items of the snapshot
  cursor,
  begun,         \* whether the first page was read
  truncated,
  limit,         \* history: the size asked of the last page, 0 before the first
  pending,       \* history: the names on the board when the first page was read
  disturbed      \* history: whether the board has changed since the schema was read

snapshot == <<reading, cap, pageCap, pages, schemaGroups, got, cursor, begun, truncated,
              limit, pending, disturbed>>

SnapshotOK ==
  /\ reading \in {"idle", "paging", "done", "failed"}
  /\ cap \in Nat /\ pageCap \in Nat \cup {NoBound} /\ pages \in Nat
  /\ schemaGroups \in Seq(Group)
  /\ got \in Seq(Entry)
  /\ cursor \in [none : BOOLEAN, rest : Seq(Name)]
  /\ begun \in BOOLEAN /\ truncated \in BOOLEAN /\ disturbed \in BOOLEAN
  /\ limit \in Int
  /\ pending \subseteq Name

SnapshotInit ==
  /\ reading = "idle" /\ cap = 0 /\ pageCap = NoBound /\ pages = 0 /\ schemaGroups = <<>> /\ got = <<>>
  /\ cursor = NoCursor /\ begun = FALSE /\ truncated = FALSE /\ limit = 0
  /\ pending = {} /\ disturbed = FALSE

Smaller(a, b) == IF a < b THEN a ELSE b

CapFor(n) == IF n <= 0 \/ n > ReportMax THEN ReportMax ELSE n

\* The call begins with the schema; when that fails it returns at once, which
\* leaves nothing to say of it.
ReadSchema ==
  /\ reading = "idle"
  /\ \E n \in Wanted : cap' = CapFor(n)
  /\ reading' = "paging" /\ schemaGroups' = groups
  /\ UNCHANGED <<pageCap, pages, got, cursor, begun, truncated, limit, pending, disturbed>>

OrElse(n, fallback) == IF n = 0 THEN fallback ELSE n

\* What is out of bounds is refused, not corrected.
qualityBounds(q) ==
  /\ OrElse(q.items, InspectDefault) \in 1..InspectMax
  /\ OrElse(q.pages, PagesMax) \in 1..PagesMax

\* loadItems begins.
LoadSchema ==
  /\ reading = "idle"
  /\ \E q \in Inspections :
       /\ qualityBounds(q)
       /\ cap' = OrElse(q.items, InspectDefault)
       /\ pageCap' = OrElse(q.pages, PagesMax)
  /\ reading' = "paging" /\ schemaGroups' = groups
  /\ UNCHANGED <<pages, got, cursor, begun, truncated, limit, pending, disturbed>>

\* A flaw: every page is as large as a page can be.
FullPage == PageMax
PageSize == Smaller(PageMax, cap - Len(got))

\* The items still on the board of a list of names, in its order, as they are
\* now.
Now(n) == items[SelectInSeq(items, LAMBDA e : e.name = n)]
InOrder(places) ==
  CHOOSE f \in [1..Cardinality(places) -> places] :
    \A i, j \in DOMAIN f : i < j => f[i] < f[j]
Present(names) ==
  LET places == {k \in DOMAIN names : names[k] \in Names(items)}
  IN [i \in 1..Cardinality(places) |-> Now(names[InOrder(places)[i]])]

\* The names that the cursor, or the board itself, has yet to deliver.
Ahead == IF begun THEN cursor.rest ELSE [k \in DOMAIN items |-> items[k].name]

CountPage == pages' = IF pageCap = NoBound THEN pages ELSE pages + 1
OutOfPages == pageCap # NoBound /\ pages' >= pageCap

\* A flaw: the cut is not marked.
AfterPageUnmarked(all) ==
  IF cursor' = NoCursor \/ Len(all) >= cap \/ OutOfPages THEN reading' = "done" /\ UNCHANGED truncated
  ELSE UNCHANGED <<reading, truncated>>

\* A flaw: only the cap ends the snapshot.
AfterPageByCap(all) ==
  IF Len(all) >= cap THEN reading' = "done" /\ truncated' = (cursor' # NoCursor)
  ELSE UNCHANGED <<reading, truncated>>

\* No cursor ends the snapshot; a cursor at the cap, or at the last page that may
\* be read, means that it is cut.
AfterPage(all) ==
  IF cursor' = NoCursor THEN reading' = "done" /\ UNCHANGED truncated
  ELSE IF Len(all) >= cap \/ OutOfPages THEN reading' = "done" /\ truncated' = TRUE
  ELSE UNCHANGED <<reading, truncated>>

\* A flaw: the page is asked for again from the start.
CursorLost(rest) == CursorTo([k \in DOMAIN items |-> items[k].name])
CursorAfter(rest) == CursorTo(rest)

ReadPage ==
  LET names == SubSeq(Ahead, 1, Smaller(PageSize, Len(Ahead)))
      rest  == SubSeq(Ahead, Len(names) + 1, Len(Ahead))
      page  == Present(names)
  IN /\ reading = "paging"
     /\ limit' = PageSize
     /\ got' = got \o page
     /\ CountPage
     /\ \/ cursor' = CursorAfter(rest) /\ Len(names) = PageSize
        \/ cursor' = NoCursor /\ rest = <<>>
     /\ begun' = TRUE
     /\ pending' = IF begun THEN pending ELSE ToSet(Ahead)
     /\ AfterPage(got')
     /\ UNCHANGED <<cap, pageCap, schemaGroups, disturbed>>

\* An error drops what was read.
PageFails ==
  /\ reading = "paging"
  /\ reading' = "failed" /\ cap' = 0 /\ pageCap' = NoBound /\ pages' = 0
  /\ schemaGroups' = <<>> /\ got' = <<>> /\ cursor' = NoCursor /\ pending' = {}
  /\ begun' = FALSE /\ limit' = 0 /\ disturbed' = FALSE
  /\ UNCHANGED truncated

SnapshotNext == ReadSchema \/ LoadSchema \/ ReadPage \/ PageFails

\* What any change of the board means for a snapshot under way.
Disturb ==
  /\ disturbed' = (disturbed \/ (reading = "paging" /\ <<groups, items>>' # <<groups, items>>))
  /\ UNCHANGED <<reading, cap, pageCap, pages, schemaGroups, got, cursor, begun,
                 truncated, limit, pending>>

\* ---- properties -------------------------------------------------------------

\* A snapshot never holds more items than the configured cap or the caller's
\* smaller one, holds none twice, and asks for pages of a size that monday
\* accepts, the last one cut to what the cap leaves; loadItems reads no more
\* pages than its caller allows.
SnapshotWithinCap ==
  /\ Len(got) <= cap
  /\ IF pageCap = NoBound THEN cap <= ReportMax
     ELSE cap <= InspectMax /\ pages <= pageCap
  /\ begun => limit \in 1..PageMax
  /\ \A i, j \in DOMAIN got : got[i].name = got[j].name => i = j

\* An item that was on the board when paging began and is there when it ends is
\* in the snapshot, unless the snapshot says that it is cut, however the board
\* changed between the pages.
CompleteUnlessTruncated ==
  reading = "done" /\ ~truncated =>
    pending \cap Names(items) \subseteq Names(got)

=============================================================================
