--------------------------- MODULE PackSelection ---------------------------
(***************************************************************************)
(* PUT of a room's pack selection (src/internal/http/room_packs_handlers.go*)
(* and src/internal/storage/room_pack_store.go) by several requests at     *)
(* once, while the catalogue is being imported.  Each request reads the    *)
(* packs of a collection first, if it names one, and then replaces the     *)
(* selection in a transaction at READ COMMITTED: its DELETE removes the    *)
(* rows that were committed when the statement began, and waits for        *)
(* another transaction that is removing one of them; an INSERT ... ON      *)
(* CONFLICT DO NOTHING waits for one that is inserting or removing the     *)
(* same pack, and leaves a row it finds committed alone.                   *)
(*                                                                         *)
(* One room: the selections of two rooms share no row.                     *)
(***************************************************************************)
EXTENDS Catalogue

CONSTANTS
    Requests,    \* the PUTs of the room
    Lists        \* the lists of slugs they may name

ASSUME ListsAssumption == Lists \subseteq (SUBSET Slugs) \ {{}}

VARIABLES
    rows,        \* room_pack_selection of the room: pack, and the request that inserted it
    request      \* the requests; earlier and seen are history

vars == <<imports, rows, request>>

Row == [pack : Slugs, by : Requests]

New == [pc |-> "new", asked |-> {}, todo |-> {}, snapshot |-> {}, deleted |-> {},
        inserted |-> {}, earlier |-> {}, seen |-> {}]

RequestType ==
    [pc : {"new", "resolved", "deleting", "inserting", "committed", "failed"},
     asked : SUBSET Slugs, todo : SUBSET Slugs, snapshot : SUBSET Row, deleted : SUBSET Row,
     inserted : SUBSET Slugs, earlier : SUBSET Requests, seen : SUBSET Requests]

\* With the primary key: one row of a pack.
TypeOK ==
    /\ CatalogueTypeOK
    /\ rows \in SUBSET Row
    /\ \A a, b \in rows : a.pack = b.pack => a = b
    /\ request \in [Requests -> RequestType]

Init ==
    /\ CatalogueInit
    /\ rows = {}
    /\ request = [q \in Requests |-> New]

PutAt(q, pc) == request[q].pc = pc

Committed == {q \in Requests : PutAt(q, "committed")}

\* The requests whose DELETE has begun, unless they have failed.
Begun == {q \in Requests : request[q].pc \in {"deleting", "inserting", "committed"}}

\* The rows and packs a transaction in progress holds.
Removing(q) == IF PutAt(q, "inserting") THEN request[q].deleted ELSE {}
Inserting(q) == IF PutAt(q, "inserting") THEN request[q].inserted ELSE {}

-----------------------------------------------------------------------------
(* A request *)

\* A body with packSlugs.
AskForPacks(q) ==
    /\ PutAt(q, "new")
    /\ \E packs \in Lists :
          request' = [request EXCEPT ![q].pc = "resolved", ![q].asked = packs, ![q].todo = packs]
    /\ UNCHANGED <<imports, rows>>

\* ListPacksForCollection: the public packs linked to it.
PublicPacksOf(c) == {s \in Slugs : <<c, s>> \in links /\ public[s] = TRUE}

\* A body with collectionSlug; a collection without a public pack is a bad request.
AskForCollection(q) ==
    /\ PutAt(q, "new")
    /\ \E c \in Collections :
          /\ PublicPacksOf(c) # {}
          /\ request' = [request EXCEPT ![q].pc = "resolved", ![q].asked = PublicPacksOf(c),
                                        ![q].todo = PublicPacksOf(c)]
    /\ UNCHANGED <<imports, rows>>

\* The DELETE begins: what it will remove is what is committed now.
BeginDelete(q) ==
    /\ PutAt(q, "resolved")
    /\ request' = [request EXCEPT ![q].pc = "deleting", ![q].snapshot = rows,
                      ![q].earlier = Begun, ![q].seen = Committed]
    /\ UNCHANGED <<imports, rows>>

\* It removes what nobody else has removed meanwhile, once nobody is about to.
Delete(q) ==
    /\ PutAt(q, "deleting")
    /\ \A v \in Requests \ {q} : Removing(v) \intersect request[q].snapshot = {}
    /\ request' = [request EXCEPT ![q].pc = "inserting", ![q].deleted = request[q].snapshot \intersect rows]
    /\ UNCHANGED <<imports, rows>>

BugConflictIgnored(q) ==
    /\ PutAt(q, "inserting")
    /\ \E s \in request[q].todo :
          /\ public[s] = TRUE
          /\ request' = [request EXCEPT ![q].todo = @ \ {s}, ![q].inserted = @ \union {s}]
    /\ UNCHANGED <<imports, rows>>

\* SELECT id FROM packs ... is_public=true, then the INSERT.
Insert(q) ==
    /\ PutAt(q, "inserting")
    /\ \E s \in request[q].todo :
          /\ public[s] = TRUE
          /\ \A v \in Requests \ {q} :
                s \notin Inserting(v) \union {row.pack : row \in Removing(v)}
          /\ request' = [request EXCEPT ![q].todo = @ \ {s},
                ![q].inserted = IF \E row \in rows \ request[q].deleted : row.pack = s
                                THEN @ ELSE @ \union {s}]
    /\ UNCHANGED <<imports, rows>>

BugMissingPackSkipped(q) ==
    /\ PutAt(q, "inserting")
    /\ \E s \in request[q].todo :
          public[s] # TRUE /\ request' = [request EXCEPT ![q].todo = @ \ {s}]
    /\ UNCHANGED <<imports, rows>>

\* A pack that is not there, or not public any more: the whole selection is rolled back.
NoSuchPack(q) ==
    /\ PutAt(q, "inserting")
    /\ \E s \in request[q].todo : public[s] # TRUE
    /\ request' = [request EXCEPT ![q].pc = "failed"]
    /\ UNCHANGED <<imports, rows>>

\* UPDATE rooms and COMMIT.
Commit(q) ==
    /\ PutAt(q, "inserting") /\ request[q].todo = {}
    /\ rows' = (rows \ request[q].deleted) \union {[pack |-> s, by |-> q] : s \in request[q].inserted}
    /\ request' = [request EXCEPT ![q].pc = "committed"]
    /\ UNCHANGED imports

\* A statement fails, the 5 s are over, or two requests wait for each other and the
\* database picks this one.
Abort(q) ==
    /\ request[q].pc \in {"resolved", "deleting", "inserting"}
    /\ request' = [request EXCEPT ![q].pc = "failed"]
    /\ UNCHANGED <<imports, rows>>

Put(q) ==
    \/ AskForPacks(q) \/ AskForCollection(q) \/ BeginDelete(q) \/ Delete(q)
    \/ Insert(q) \/ NoSuchPack(q) \/ Commit(q) \/ Abort(q)

Next ==
    \/ CatalogueNext /\ UNCHANGED <<rows, request>>
    \/ \E q \in Requests : Put(q)

Spec == Init /\ [][Next]_vars

-----------------------------------------------------------------------------
\* GET of the selection.
Selected == {row.pack : row \in rows}

\* v's DELETE began after q had committed: what q selected is v's to replace.
Replaced(q) == \E v \in Committed : q \in request[v].seen

\* Requests that overlap may leave the union of what they asked for, or less than each
\* of them; but nothing stays of a request that another one began after, and everything
\* the last one to begin asked for is there (room_pack_store.go:20, :29-32).
SelectionIsRecent ==
    /\ \A row \in rows : PutAt(row.by, "committed") /\ ~Replaced(row.by)
                         /\ row.pack \in request[row.by].asked
    /\ \A q \in Committed :
          Committed \ {q} \subseteq request[q].earlier => request[q].asked \subseteq Selected
=============================================================================
