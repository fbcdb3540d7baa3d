------------------------------- MODULE Paging -------------------------------
(***************************************************************************)
(* Lists that are read page by page while other requests change the rows:  *)
(*   "folder"  the clips of a folder, last edited first; the cursor is a    *)
(*             clip, whose place is looked up anew                          *)
(*   "liked"   the favourites, in the same way                              *)
(*   "recent"  viewed clips, last viewed first; the cursor is a view        *)
(*   "viewed"  the latest views and then, in a second read, their clips     *)
(*   "trash"   clips and folders in the trash, two queries merged; the      *)
(*             cursor is one of them                                        *)
(*   "due"     the renewals that a batch run will bill; the cursor is the   *)
(*             place of the last row when it was read                       *)
(* The first three may search. A row is what a list sees of a Clip,         *)
(* ClipView, Folder or Subscription: the time it is sorted by, and whether *)
(* the conditions of the list hold.                                        *)
(***************************************************************************)
EXTENDS Integers, FiniteSets

CONSTANTS
  Items,     \* identifiers, numbers: ties are sorted by identifier
  Deleted,   \* those of them that are folders, in the trash
  Lists,     \* which lists are read: their kind, a search or not, items of a page
  MaxPage,   \* rows that one query of the batch reads at most
  MaxNow,    \* bound on the clock
  MaxWritten,\* bound on the rows that are written during one reading
  None

ASSUME PagingAssumption ==
  /\ Items \subseteq Nat /\ Deleted \subseteq Items /\ IsFiniteSet(Items)
  /\ \A l \in Lists : /\ l.kind \in {"folder", "liked", "recent", "viewed", "trash", "due"}
                      /\ l.search => l.kind \in {"folder", "liked", "recent"}
                      /\ l.limit \in Nat \ {0}
  /\ MaxPage \in Nat \ {0}
  /\ MaxNow \in Nat \ {0} /\ MaxWritten \in Nat
  /\ None \notin Items \cup [at : 0 .. MaxNow + 1, id : Items]

VARIABLES
  now,
  row,
  list,     \* which list is read
  reader,   \* the client, or the batch run, that reads it
  touched,  \* history: rows written since the reading began
  shown,    \* history: how often each row was shown
  doubt     \* history: why the reading may have gone astray

vars == <<now, row, list, reader, touched, shown, doubt>>

(* `in': not deleted, in the folder, liked, viewed, accessible; in the      *)
(* trash; due but for the time.  `title' and `tag': what the search finds.  *)
(* `orders': the due dates that orders exist for.                           *)
Times == 0 .. MaxNow + 1
Rows == [at : Times, in : BOOLEAN, title : BOOLEAN, tag : BOOLEAN, orders : SUBSET Times]

(* `page': ids read for a second query; `due': the page of the batch, with  *)
(* the due dates it read; `count': the renewals the batch has found.        *)
Places == [at : Times, id : Items]
NothingDue == [i \in {} |-> None]
Start == [step |-> "resolve", cursor |-> None, target |-> "title", page |-> {},
          due |-> NothingDue, count |-> 0]

Init ==
  /\ now = 1
  /\ list \in Lists
  /\ row \in [Items -> {r \in Rows : /\ r.at <= 1
                                     /\ (list.search /\ r.in) \/ ~(r.title \/ r.tag)
                                     /\ r.orders \subseteq {r.at}
                                     /\ list.kind = "due" \/ r.orders = {}}]
  /\ reader = Start
  /\ touched = {} /\ doubt = {}
  /\ shown = [i \in Items |-> 0]

-----------------------------------------------------------------------------
(* The order of a list.                                                     *)

(* compareTrashItems: latest first, a clip before a folder, larger id first. *)
TypeOrder(i) == IF list.kind = "trash" /\ i \in Deleted THEN 1 ELSE 0
Latest(i, j) ==
  \/ row[i].at > row[j].at
  \/ row[i].at = row[j].at /\ TypeOrder(i) < TypeOrder(j)
  \/ row[i].at = row[j].at /\ TypeOrder(i) = TypeOrder(j) /\ i > j
(* The batch goes through its page in the order that it read.               *)
DueAt(i) == IF i \in DOMAIN reader.due THEN reader.due[i] ELSE row[i].at
Earliest(i, j) == DueAt(i) < DueAt(j) \/ (DueAt(i) = DueAt(j) /\ i < j)
Before(i, j) == IF list.kind = "due" THEN Earliest(i, j) ELSE Latest(i, j)

First(n, s) == {i \in s : Cardinality({j \in s : Before(j, i)}) < n}
LastOf(s) == CHOOSE i \in s : \A j \in s : ~Before(i, j)

(* buildWhere.                                                              *)
Where(target) ==
  {i \in Items : /\ row[i].in
                 /\ ~list.search \/ (IF target = "title" THEN row[i].title ELSE row[i].tag)}

(* resolveSearchTarget: by tag only if no title matches.                    *)
HasTitleMatches == Where("title") # {}
SearchTargetOrNone == IF ~list.search \/ HasTitleMatches THEN "title" ELSE "none"
SearchTarget == IF ~list.search \/ HasTitleMatches THEN "title" ELSE "tag"

-----------------------------------------------------------------------------
Read(r) ==
  /\ reader' = r
  /\ UNCHANGED <<now, row, list, touched>>
Go(step) == Read([reader EXCEPT !.step = step])

Show(s) == shown' = [i \in Items |-> IF i \in s THEN shown[i] + 1 ELSE shown[i]]
Unread == UNCHANGED <<shown, doubt>>
Fail == Go("failed") /\ Unread

(* buildPage and toCursorPage: one row more than a page was asked for.      *)
TakeLimit == list.limit
Take == list.limit + 1
NextPage(s) ==
  LET page == First(list.limit, s) IN
  /\ Show(page)
  /\ Read(IF page # s THEN [Start EXCEPT !.cursor = LastOf(page)]
          ELSE [Start EXCEPT !.step = "done"])

(* The use cases decide what the search looks at, and whether the cursor    *)
(* belongs to the list, before they read the page.                          *)
Resolved(step) ==
  /\ reader.step = "resolve"
  /\ Read([reader EXCEPT !.target = SearchTarget,
                         !.step = IF reader.cursor = None THEN "find" ELSE step])
  /\ Unread
ResolveTarget == Resolved("validate")
ResolveRecentTarget == Resolved("match")

(* validateClipCursor: the clip itself, whether it is liked (`in' of a      *)
(* favourite says both: the first look does not see a missing like) ...     *)
AfterValidation == IF list.search THEN "match" ELSE "find"
Validate ==
  LET c == reader.cursor IN
  /\ reader.step = "validate"
  /\ \/ list.kind = "liked" /\ Go("isLiked") /\ Unread
     \/ list.kind # "liked" /\ row[c].in /\ Go(AfterValidation) /\ Unread
     \/ ~row[c].in /\ Fail

IsLiked ==
  /\ reader.step = "isLiked"
  /\ IF row[reader.cursor].in THEN Go(AfterValidation) /\ Unread ELSE Fail

(* ... and whether the search finds it; of a view it is all in one.         *)
MatchCursor ==
  /\ reader.step = "match"
  /\ IF reader.cursor \in Where(reader.target) THEN Go("find") /\ Unread ELSE Fail
MatchRecentCursor == MatchCursor

(* The page.  The search is resolved again, and the cursor must be one of   *)
(* the rows again.                                                          *)
After(s, c) == {i \in s : c = None \/ Before(c, i)}
FindPage ==
  LET found == Where(SearchTarget)
      c == reader.cursor IN
  /\ reader.step = "find"
  /\ IF c # None /\ c \notin found THEN Fail
     ELSE /\ NextPage(First(Take, After(found, c)))
          /\ UNCHANGED doubt
FindClips == FindPage         \* sorted by `updatedAt'
FindRecentClips == FindPage   \* sorted by `viewedAt'

(* ListRecentViewedClips: the latest views, and then those of their clips   *)
(* that are still there.                                                    *)
FindViewedIds ==
  /\ reader.step = "resolve"
  /\ Read([reader EXCEPT !.step = "ids", !.page = First(list.limit, Where("title"))])
  /\ Unread

FindClipsByIds ==
  /\ reader.step = "ids"
  /\ Show(reader.page \cap Where("title"))
  /\ Go("done")
  /\ UNCHANGED doubt

(* findDeletedItems: the clips and the folders after the cursor, each as    *)
(* many as the page may need.  Without its cursor the list is at its end.   *)
LaterThan(c) == {i \in Items : row[i].at < row[c].at}
SameTime(c) == {i \in Items : row[i].at = row[c].at}
ClipsAfter(c) ==
  IF c = None THEN Items \ Deleted
  ELSE (LaterThan(c) \cup {i \in SameTime(c) : c \notin Deleted /\ i < c}) \ Deleted
FoldersAfterTime(c) == IF c = None THEN Deleted ELSE LaterThan(c) \cap Deleted
FoldersAfter(c) ==
  IF c = None THEN Deleted
  ELSE (LaterThan(c) \cup {i \in SameTime(c) : c \notin Deleted \/ i < c}) \cap Deleted

CursorGone(c) == c # None /\ ~row[c].in

FindDeletedItems ==
  LET c == reader.cursor
      firstOf(s) == First(Take, s \cap Where("title")) IN
  /\ reader.step = "resolve"
  /\ IF CursorGone(c)
     THEN /\ NextPage({})
          /\ doubt' = doubt \cup {"ended"}
     ELSE /\ NextPage(First(Take, firstOf(ClipsAfter(c)) \cup firstOf(FoldersAfter(c))))
          /\ UNCHANGED doubt

(* findDueAutoRenewalSubscriptions: a page, then which of its rows have an  *)
(* order already; the cursor passes over those too.  A row that moved on is *)
(* found again, and counts again.                                           *)
PageSize == IF list.limit < MaxPage THEN list.limit ELSE MaxPage
DueFrom(c) ==
  {i \in Items : /\ row[i].in /\ row[i].at <= 1
                 /\ c = None \/ row[i].at > c.at \/ (row[i].at = c.at /\ i >= c.id)}
DueAfter(c) ==
  {i \in Items : /\ row[i].in /\ row[i].at <= 1
                 /\ c = None \/ row[i].at > c.at \/ (row[i].at = c.at /\ i > c.id)}

FindDue ==
  /\ reader.step = "resolve"
  /\ LET page == First(PageSize, DueAfter(reader.cursor)) IN
     IF page = {} THEN Read([reader EXCEPT !.step = "done"])
     ELSE Read([reader EXCEPT !.step = "orders", !.due = [i \in page |-> row[i].at],
                              !.cursor = [at |-> row[LastOf(page)].at, id |-> LastOf(page)]])
  /\ Unread

Skipped(page) == {i \in page : reader.due[i] \in row[i].orders}
TakeDue ==
  LET page  == DOMAIN reader.due
      taken == First(list.limit - reader.count, page \ Skipped(page))
      count == reader.count + Cardinality(taken) IN
  /\ reader.step = "orders"
  /\ Show(taken)
  /\ Read([reader EXCEPT !.due = NothingDue, !.count = count,
                         !.step = IF Cardinality(page) < PageSize \/ count = list.limit
                                  THEN "done" ELSE "resolve"])
  /\ UNCHANGED doubt

(* The use cases.                                                           *)
ListFolderClips ==
  list.kind = "folder" /\ (ResolveTarget \/ Validate \/ MatchCursor \/ FindClips)
ListFavoriteClips ==
  /\ list.kind = "liked"
  /\ ResolveTarget \/ Validate \/ IsLiked \/ MatchCursor \/ FindClips
ListRecentClips ==
  /\ list.kind = "recent"
  /\ ResolveRecentTarget \/ MatchRecentCursor \/ FindRecentClips
ListRecentViewedClips == list.kind = "viewed" /\ (FindViewedIds \/ FindClipsByIds)
ListTrashItems == list.kind = "trash" /\ FindDeletedItems
FindDueRenewals == list.kind = "due" /\ (FindDue \/ TakeDue)

Reading ==
  \/ ListFolderClips \/ ListFavoriteClips \/ ListRecentClips \/ ListRecentViewedClips
  \/ ListTrashItems
  \/ FindDueRenewals

-----------------------------------------------------------------------------
(* What other requests do to the rows.                                      *)

Running == reader.step \notin {"done", "failed"}

Write(new) ==
  LET is == {i \in Items : new[i] # row[i]} IN
  /\ Running
  /\ is # {} /\ Cardinality(touched \cup is) <= MaxWritten
  /\ row' = new
  /\ touched' = touched \cup is
  /\ UNCHANGED <<now, list, reader, shown>>
  /\ doubt' = doubt \cup {d \in {"moved"} : list.kind # "due" /\ reader.cursor \in is}
                    \cup {d \in {"switched"} : SearchTarget' # SearchTarget}

Put(is, in, t) ==
  [i \in Items |-> IF i \notin is THEN row[i]
                   ELSE [row[i] EXCEPT !.in = in, !.at = IF t = None THEN @ ELSE t]]
Tagged(is, tag) ==
  [i \in Items |-> IF i \in is THEN [row[i] EXCEPT !.tag = tag] ELSE row[i]]

Views == list.kind \in {"recent", "viewed"}   \* sorted by `viewedAt'

(* Clips are deleted, by id or all of a folder: that sets `updatedAt' too.  *)
SoftDelete(is) ==
  /\ list.kind # "due" /\ \A i \in is : row[i].in = (list.kind # "trash")
  /\ Write(Put(is, list.kind = "trash", IF Views THEN None ELSE now))

(* Restored, or a clip created, with a new `updatedAt'; out of the trash    *)
(* also when they are destroyed.                                            *)
Restore(is) ==
  /\ list.kind # "due" /\ \A i \in is : row[i].in = (list.kind = "trash")
  /\ Write(Put(is, list.kind # "trash", IF Views \/ list.kind = "trash" THEN None ELSE now))

(* A folder is deleted, or restored: those of its clips that are deleted    *)
(* themselves are no items of the trash, or are items again.                *)
DeleteFolder(f, is) ==
  /\ list.kind = "trash" /\ ~row[f].in /\ \A i \in is : row[i].in
  /\ Write([Put(is, FALSE, None) EXCEPT ![f].in = TRUE, ![f].at = now])
RestoreFolder(f, is) ==
  /\ list.kind = "trash" /\ row[f].in /\ \A i \in is : ~row[i].in
  /\ Write([Put(is, TRUE, None) EXCEPT ![f].in = FALSE])

(* Other conditions of a list: the plan and the folder it leaves open, the  *)
(* folder of a clip; a subscription that is cancelled, resumed or pending.  *)
Hide(is) == (\A i \in is : row[i].in) /\ Write(Put(is, FALSE, None))
Reveal(is) == (\A i \in is : ~row[i].in) /\ Write(Put(is, TRUE, None))
Like(i) == list.kind = "liked" /\ ~row[i].in /\ Write(Put({i}, TRUE, None))
Unlike(i) == list.kind = "liked" /\ row[i].in /\ Write(Put({i}, FALSE, None))
RecordView(i) == Views /\ Write(Put({i}, TRUE, now))

UpdateClip(i, title) ==
  /\ list.kind \in {"folder", "liked", "recent"} /\ row[i].in
  /\ list.search \/ ~title
  /\ Write([row EXCEPT ![i].title = title, ![i].at = IF Views THEN @ ELSE now])

(* Tags are written without `updatedAt': those of a clip, or one tag of the *)
(* folder, which is renamed or deleted for all clips that have it.          *)
ReplaceTags(i, tag) == list.search /\ row[i].in /\ Write(Tagged({i}, tag))
UpdateTag(is, tag) ==
  list.search /\ (\A i \in is : row[i].tag # tag) /\ Write(Tagged(is, tag))
DeleteTag(is) == list.search /\ (\A i \in is : row[i].tag) /\ Write(Tagged(is, FALSE))

(* A renewal has its order, and is completed: the due date moves on.        *)
Order(i) == list.kind = "due" /\ Write([row EXCEPT ![i].orders = @ \cup {row[i].at}])
Renew(i) ==
  /\ list.kind = "due" /\ row[i].at < 2
  /\ Write([row EXCEPT ![i].at = @ + 1, ![i].in = TRUE])

(* The batch was given the time when it began and reads no clock.           *)
Tick ==
  /\ Running /\ list.kind # "due" /\ now < MaxNow /\ now' = now + 1
  /\ UNCHANGED <<row, list, reader, touched, shown, doubt>>

Next ==
  \/ Reading
  \/ \E i \in Items :
       \/ Like(i) \/ Unlike(i) \/ RecordView(i) \/ Order(i) \/ Renew(i)
       \/ \E b \in BOOLEAN : UpdateClip(i, b) \/ ReplaceTags(i, b)
  \/ \E is \in SUBSET Items :
       \/ SoftDelete(is) \/ Restore(is) \/ Hide(is) \/ Reveal(is) \/ DeleteTag(is)
       \/ \E f \in Deleted : DeleteFolder(f, is \ Deleted) \/ RestoreFolder(f, is \ Deleted)
       \/ \E b \in BOOLEAN : UpdateTag(is, b)
  \/ Tick

Spec == Init /\ [][Next]_vars

(* The batch awaits its queries one after the other; a client may stop      *)
(* between two pages.                                                       *)
BatchFairness == WF_vars(FindDueRenewals)

-----------------------------------------------------------------------------
Untouched == Items \ touched

(* What the list holds of the rows that nobody wrote.                       *)
Steady ==
  IF list.kind = "due" THEN {i \in Untouched \cap DueAfter(None) : row[i].at \notin row[i].orders}
  ELSE Untouched \cap Where(SearchTarget)

(* Whoever writes what meanwhile, a reading that comes to its end has shown *)
(* every row that stayed as it was.  Not if a page of the trash began at an *)
(* item that had left it, nor if a search changed between title and tag.    *)
Complete ==
  (reader.step = "done" /\ doubt \cap {"ended", "switched"} = {}) =>
    \/ list.kind = "due" /\ reader.count = list.limit
    \/ list.kind = "viewed" /\ Cardinality(reader.page) = list.limit
    \/ \A i \in Steady : shown[i] > 0

(* The rows that stayed are shown in the order of the list, without a gap,  *)
(* when pages and the two tables of the trash are put together.             *)
NoGap ==
  "switched" \notin doubt =>
    \A i, j \in Steady : shown[j] > 0 /\ Before(i, j) => shown[i] > 0

(* A row that stayed is shown once, unless a row that a page ended with was *)
(* written before the next page: then the list may begin anew.  The batch   *)
(* does not depend on that.                                                 *)
NoRepeat ==
  (list.kind = "due" \/ "moved" \notin doubt) => \A i \in Untouched : shown[i] <= 1

(* The batch comes to an end, although rows that have their order fill pages *)
(* without being counted, and renewals put rows ahead of its cursor again. *)
BatchEnds == list.kind = "due" => <>(reader.step = "done")

Cursors == (IF list.kind = "due" THEN Places ELSE Items) \cup {None}
TypeOK ==
  /\ now \in 1 .. MaxNow /\ list \in Lists /\ row \in [Items -> Rows]
  /\ reader \in [step : {"resolve", "validate", "isLiked", "match", "find", "ids",
                         "orders", "done", "failed"},
                 cursor : Cursors, target : {"title", "tag"},
                 page : SUBSET Items, due : UNION {[s -> Times] : s \in SUBSET Items},
                 count : Nat]
  /\ touched \subseteq Items /\ shown \in [Items -> Nat]

-----------------------------------------------------------------------------
(* The inductive invariant says what a reader knows between two statements. *)

Seen == {i \in Items : shown[i] > 0}
UpTo(c) == {i \in Items : i = c \/ Before(i, c)}
DueUpTo(c) == {i \in Items : row[i].at < c.at \/ (row[i].at = c.at /\ i <= c.id)}

(* A page is continued behind its last row.  What stayed up to there was    *)
(* shown, and nothing behind it: a row that is written moves up the list,   *)
(* so it takes nothing along that was not shown, but may leave some behind. *)
ItemReader ==
  LET c == reader.cursor IN
  /\ reader.step \notin {"ids", "orders"}
  /\ reader.step \in {"validate", "isLiked", "match"} => c # None
  /\ Running =>
       /\ "switched" \notin doubt /\ c # None => Steady \cap UpTo(c) \subseteq Seen
       /\ "moved" \notin doubt =>
            \A i \in Untouched \cap Seen : c # None /\ i \in UpTo(c)

(* The ids of the latest views, until their clips are read.                 *)
ViewedReader ==
  /\ reader.step \in {"resolve", "ids", "done"}
  /\ Running => Seen = {}
  /\ reader.step = "ids" =>
       /\ \A i, j \in Steady : j \in reader.page /\ Before(i, j) => i \in reader.page
       /\ Cardinality(reader.page) = list.limit \/ Steady \subseteq reader.page

(* The batch: up to its cursor all is found, or on the page in hand.        *)
DueReader ==
  LET c == reader.cursor
      page == DOMAIN reader.due IN
  /\ reader.step \in {"resolve", "orders", "done"}
  /\ reader.count <= list.limit
  /\ reader.step # "orders" => reader.due = NothingDue
  /\ reader.step = "orders" => c # None
  /\ Running =>
       /\ c # None => Steady \cap DueUpTo(c) \subseteq Seen \cup page
       /\ \A i \in Untouched \cap Seen : c # None /\ i \in DueUpTo(c) /\ i \notin page
       /\ \A i \in Untouched \cap page : i \in DueUpTo(c) /\ reader.due[i] = row[i].at
       /\ reader.step = "orders" /\ Cardinality(page) < PageSize =>
            Steady \subseteq DueUpTo(c)

IInv ==
  /\ TypeOK /\ Complete /\ NoGap /\ NoRepeat
  /\ list.kind # "due" => \A i \in Items : row[i].at <= now
  /\ list.kind = "due" => DueReader
  /\ list.kind = "viewed" => ViewedReader
  /\ list.kind \notin {"due", "viewed"} => ItemReader

=============================================================================
