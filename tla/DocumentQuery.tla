--------------------------- MODULE DocumentQuery ---------------------------
(***************************************************************************)
(* A client walks the documents of a collection page by page, or has them  *)
(* aggregated, while they are edited, deleted and restored and while the   *)
(* permissions of the client change.                                       *)
(*                                                                         *)
(* The server fetches batches, each by one query, decides for every row    *)
(* whether the client may read it, and goes on after the last row of the   *)
(* batch until a page is full.  The cursor, of a batch or of a page, holds *)
(* the sort values of one row as they were read.  Filters only choose      *)
(* among rows as they are and are left out, as is what a row shows.        *)
(***************************************************************************)
EXTENDS Naturals, Sequences, FiniteSets

CONSTANTS RowIds,     \* ids, numbered as the database orders them
          Values,     \* numbers in the sorted field
          Null,
          Sorts,      \* what clients sort by: sequences of [by, kind, desc]
          Limits,     \* page sizes
          MinBatch, MaxBatch,
          ScanLimits, \* rows a request may look at: one number, or several to compare
          MaxWrites   \* bound on the changes around a walk

VARIABLES row,     \* the rows of the content table, by id
          hidden,  \* documents the client may not read
          writes,  \* changes so far, the clock of the rows
          walk

qvars == <<row, hidden, writes, walk>>

(* isScalarStoredField, and the version                                    *)
Kinds == {"text", "textarea", "number", "boolean", "date", "datetime", "select", "enum",
          "relation", "upload", "version"}
SortItems == [by : {"data", "updated", "id"}, kind : Kinds, desc : BOOLEAN]

ASSUME QueryAssumption ==
    /\ RowIds \subseteq Nat /\ IsFiniteSet(RowIds)
    /\ Values \subseteq Nat /\ Null \notin Nat
    /\ Sorts \subseteq Seq(SortItems)
    /\ Limits \subseteq 1..MaxBatch
    /\ ScanLimits \subseteq Nat
    /\ MinBatch \in Nat /\ MaxBatch \in Nat /\ MaxWrites \in Nat

NoRow == [data |-> Null, updated |-> 0, deleted |-> TRUE]
NoWalk == [step |-> "none", touched |-> {}]
NoCursor == <<>>

DefaultSort == <<[by |-> "updated", kind |-> "datetime", desc |-> TRUE]>>
ById == [by |-> "id", kind |-> "text", desc |-> FALSE]

(* normalizeSort                                                           *)
Normalized(sort) ==
    IF \E i \in DOMAIN sort : sort[i].by = "id" THEN sort ELSE Append(sort, ById)

Column(by, d) == CASE by = "data" -> row[d].data
                   [] by = "updated" -> row[d].updated
                   [] by = "id" -> d
Key(sort, d) == [i \in DOMAIN sort |-> Column(sort[i].by, d)]

(* ORDER BY ... NULLS LAST                                                 *)
Precedes(item, v, w) ==
    \/ v # Null /\ w = Null
    \/ v # Null /\ w # Null /\ IF item.desc THEN v > w ELSE v < w
IsBefore(sort, k, l) ==
    \E i \in DOMAIN sort :
        (\A j \in 1..(i - 1) : k[j] = l[j]) /\ Precedes(sort[i], k[i], l[i])

\* Mutant of IsAfter: a comparison with null is not true.
IsAfterAsCompared(sort, k, cursor) ==
    \E i \in DOMAIN sort :
        /\ \A j \in 1..(i - 1) : k[j] = cursor[j]
        /\ cursor[i] # Null /\ k[i] # Null
        /\ IF sort[i].desc THEN k[i] < cursor[i] ELSE k[i] > cursor[i]

(* documentQueryCursorSql: nothing of a branch comes after null.           *)
IsAfter(sort, k, cursor) ==
    \E i \in DOMAIN sort :
        /\ \A j \in 1..(i - 1) : k[j] = cursor[j]
        /\ cursor[i] # Null
        /\ k[i] = Null \/ IF sort[i].desc THEN k[i] < cursor[i] ELSE k[i] > cursor[i]

(* What a value of a column is in a cursor, and what it has to be there.   *)
Written(kind) == CASE kind = "version" -> "string"     \* of a bigint
                   [] kind = "date" -> "datetime"      \* of a Date
                   [] OTHER -> kind
Wanted(kind) == IF kind = "version" THEN "number" ELSE kind
IsAccepted(sort, cursor) ==
    \A i \in DOMAIN cursor : cursor[i] = Null \/ Written(sort[i].kind) = Wanted(sort[i].kind)

-----------------------------------------------------------------------------
QueryInit ==
    /\ row \in [RowIds -> {NoRow} \cup
                        {[data |-> v, updated |-> 0, deleted |-> FALSE] : v \in Values \cup {Null}}]
    /\ hidden \in SUBSET RowIds
    /\ writes = 0 /\ walk = NoWalk

(* The page of a client, or the whole of an aggregate.                     *)
Start(sort, limit, scan, aggregate) ==
    /\ walk.step = "none"
    /\ walk' = [step |-> "query", sort |-> Normalized(sort), limit |-> limit, scan |-> scan,
                aggregate |-> aggregate, cursor |-> NoCursor, batch |-> <<>>, more |-> FALSE,
                scanned |-> 0, visible |-> <<>>, result |-> <<>>, touched |-> {}]
    /\ UNCHANGED <<row, hidden, writes>>

AtLeast(m, n) == IF m < n THEN n ELSE m
AtMost(m, n) == IF m > n THEN n ELSE m
BatchLimit == IF walk.aggregate THEN MaxBatch
              ELSE AtMost(AtLeast(walk.limit + 1, MinBatch), MaxBatch)

(* ORDER BY, over rows whose keys differ.                                  *)
InSortOrder(sort, S) ==
    [n \in 1..Cardinality(S) |->
        CHOOSE x \in S : Cardinality({y \in S : IsBefore(sort, y.key, x.key)}) = n - 1]

(* queryDocuments: one row more than wanted tells that there are more.     *)
QueryBatch ==
    LET Found == {[doc |-> d, key |-> Key(walk.sort, d)] : d \in {e \in RowIds : ~row[e].deleted}}
        After == {x \in Found : walk.cursor = NoCursor \/ IsAfter(walk.sort, x.key, walk.cursor)}
        rows == InSortOrder(walk.sort, After)
    IN /\ walk.step = "query"
       /\ walk' = IF IsAccepted(walk.sort, walk.cursor)
                  THEN [walk EXCEPT !.step = "check",
                                    !.batch = SubSeq(rows, 1, AtMost(Len(rows), BatchLimit)),
                                    !.more = Len(rows) > BatchLimit]
                  ELSE [walk EXCEPT !.step = "refused"]
       /\ UNCHANGED <<row, hidden, writes>>

Over(w) == [w EXCEPT !.step = "done", !.result = @ \o w.visible, !.visible = <<>>]

(* readableDocumentOrNull; a page is full when one more is visible.        *)
CheckRow ==
    LET x == Head(walk.batch)
        w == [walk EXCEPT !.batch = Tail(@), !.scanned = @ + 1, !.cursor = x.key,
                          !.visible = IF x.doc \in hidden THEN @ ELSE Append(@, x)]
    IN /\ walk.step = "check" /\ walk.batch # <<>>
       /\ walk' = CASE ~w.aggregate /\ Len(w.visible) > w.limit ->
                         [w EXCEPT !.step = "page", !.visible = <<>>, !.batch = <<>>,
                                   !.cursor = w.visible[w.limit].key,
                                   !.result = @ \o SubSeq(w.visible, 1, w.limit)]
                    [] w.aggregate /\ w.scanned >= walk.scan ->
                         [w EXCEPT !.step = "truncated"]
                    [] OTHER -> w
       /\ UNCHANGED <<row, hidden, writes>>

EndBatch ==
    /\ walk.step = "check" /\ walk.batch = <<>>
    /\ walk' = CASE ~walk.more -> Over(walk)
                 [] walk.more /\ walk.scanned >= walk.scan -> [walk EXCEPT !.step = "exceeded"]
                 [] OTHER -> [walk EXCEPT !.step = "query"]
    /\ UNCHANGED <<row, hidden, writes>>

(* The client comes back with nextCursor.                                  *)
NextPage ==
    /\ walk.step = "page"
    /\ walk' = [walk EXCEPT !.step = "query", !.scanned = 0]
    /\ UNCHANGED <<row, hidden, writes>>

-----------------------------------------------------------------------------
Touch(d) ==
    /\ walk.step \in {"query", "check", "page"}
    /\ writes < MaxWrites /\ writes' = writes + 1
    /\ walk' = [walk EXCEPT !.touched = @ \cup {d}]

(* upsertProjection, of a document created or edited ...                   *)
Save(d, v) ==
    /\ row[d] = NoRow \/ ~row[d].deleted
    /\ row' = [row EXCEPT ![d] = [data |-> v, updated |-> writes + 1, deleted |-> FALSE]]
    /\ Touch(d) /\ UNCHANGED hidden
(* ... and of one deleted or restored.                                     *)
SetDeleted(d, deleted) ==
    /\ row[d] # NoRow /\ row[d].deleted # deleted
    /\ row' = [row EXCEPT ![d].deleted = deleted, ![d].updated = writes + 1]
    /\ Touch(d) /\ UNCHANGED hidden
SetHidden(d, may) ==
    /\ hidden' = IF may THEN hidden \ {d} ELSE hidden \cup {d}
    /\ hidden' # hidden
    /\ Touch(d) /\ UNCHANGED row

QueryNext ==
    \/ \E scan \in ScanLimits : \/ Start(DefaultSort, MaxBatch, scan, TRUE)
                                \/ \E sort \in Sorts, limit \in Limits : Start(sort, limit, scan, FALSE)
    \/ QueryBatch \/ CheckRow \/ EndBatch \/ NextPage
    \/ \E d \in RowIds : \/ \E v \in Values \cup {Null} : Save(d, v)
                       \/ \E flag \in BOOLEAN : SetDeleted(d, flag) \/ SetHidden(d, flag)

QuerySpec == QueryInit /\ [][QueryNext]_qvars

-----------------------------------------------------------------------------
Seen == walk.result \o walk.visible
Times(d) == Cardinality({i \in DOMAIN Seen : Seen[i].doc = d})
(* Nobody touched them since the walk began, and the client may read them. *)
Steady == {d \in RowIds : d \notin walk.touched /\ ~row[d].deleted /\ d \notin hidden}

(* Whatever happens to the other documents, a walk comes past every        *)
(* document that stays as it is exactly once, in the order asked for, and  *)
(* past none that the client could never read.  It ends early only at the  *)
(* scan limit, or when it is sorted by a column whose values a cursor      *)
(* cannot hold: the version and fields of type date (query, aggregate,     *)
(* queryDocuments).                                                        *)
WalksMissNothing ==
    walk.step # "none" =>
        /\ \A i \in 2..Len(Seen) : IsBefore(walk.sort, Seen[i - 1].key, Seen[i].key)
        /\ \A d \in Steady :
             /\ Times(d) <= 1
             /\ \/ walk.step = "done"
                \/ walk.step \in {"query", "page"} /\ walk.cursor # NoCursor
                   /\ ~IsBefore(walk.sort, walk.cursor, Key(walk.sort, d))
                => Times(d) = 1
        /\ \A d \in hidden \ walk.touched : Times(d) = 0
        /\ walk.step = "refused" =>
             \E i \in DOMAIN walk.sort : walk.sort[i].kind \in {"version", "date"}
        /\ walk.step \in {"truncated", "exceeded"} => walk.scanned >= walk.scan
=============================================================================
