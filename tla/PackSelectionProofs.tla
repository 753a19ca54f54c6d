------------------------ MODULE PackSelectionProofs ------------------------
(***************************************************************************)
(* PackSelection for any number of requests, packs and imports, and any    *)
(* file to import: its types, with the table's primary key, what is left   *)
(* of requests that overlap, and what an import leaves in the catalogue.   *)
(***************************************************************************)
EXTENDS PackSelection, CatalogueProofs

-----------------------------------------------------------------------------
(* The inductive invariant *)

\* What a request has still to insert and has inserted, it asked for.
Asking ==
    \A q \in Requests :
        /\ request[q].todo \subseteq request[q].asked
        /\ request[q].inserted \subseteq request[q].asked
        /\ request[q].pc \in {"new", "resolved", "deleting"} =>
              request[q].todo = request[q].asked /\ request[q].inserted = {}

\* The requests that have begun did so one after the other, and a later one has seen
\* all the commits an earlier one saw.
Ordered ==
    /\ \A q \in Requests : \A v \in request[q].earlier : request[v].pc \notin {"new", "resolved"}
    /\ \A q \in Begun :
          /\ q \notin request[q].earlier
          /\ request[q].seen \subseteq Committed \intersect request[q].earlier
    /\ \A q, v \in Begun :
          /\ q # v => (v \in request[q].earlier <=> q \notin request[v].earlier)
          /\ v \in request[q].earlier => request[v].seen \subseteq request[q].seen

\* A DELETE takes the rows of the requests it has seen commit, no others.
Snapshots ==
    \A q \in Requests : request[q].pc \in {"deleting", "inserting"} =>
        /\ \A row \in request[q].snapshot : row.by \in request[q].seen
        /\ \A row \in rows : row.by \in request[q].seen => row \in request[q].snapshot

\* Two transactions hold no row and insert no pack in common.
Exclusive ==
    /\ \A q \in Requests : PutAt(q, "inserting") => request[q].deleted = request[q].snapshot \intersect rows
    /\ \A q, v \in Requests : q # v =>
          /\ Removing(q) \intersect Removing(v) = {}
          /\ Inserting(q) \intersect Inserting(v) = {}
    /\ \A q \in Requests : PutAt(q, "inserting") =>
          \A row \in rows \ request[q].deleted : row.pack \notin request[q].inserted

\* A pack an INSERT left alone is still there, or a request that began later has replaced it.
LeftAlone ==
    \A q \in Requests : PutAt(q, "inserting") =>
        \A s \in request[q].asked \ (request[q].todo \union request[q].inserted) :
            \/ \E row \in rows \ request[q].deleted : row.pack = s
            \/ \E v \in Committed : q \in request[v].earlier

PInv ==
    /\ TypeOK /\ Filing /\ ImportInv
    /\ Asking /\ Ordered /\ Snapshots /\ Exclusive /\ LeftAlone /\ SelectionIsRecent

-----------------------------------------------------------------------------
(* What the actions do to the requests *)

\* The other requests are untouched.
Others(q) == \A v \in Requests \ {q} : request'[v] = request[v]

\* The fields of a request, typed.
LEMMA Fields ==
    ASSUME TypeOK, NEW q \in Requests
    PROVE  /\ request[q].asked \in SUBSET Slugs /\ request[q].todo \in SUBSET Slugs
           /\ request[q].snapshot \in SUBSET Row /\ request[q].deleted \in SUBSET Row
           /\ request[q].inserted \in SUBSET Slugs
           /\ request[q].earlier \in SUBSET Requests /\ request[q].seen \in SUBSET Requests
BY DEF TypeOK, RequestType

\* A request's next state is one.
LEMMA Retyped ==
    ASSUME NEW r \in RequestType, NEW packs \in SUBSET Slugs, NEW of \in SUBSET Row,
           NEW e \in SUBSET Requests, NEW c \in SUBSET Requests
    PROVE  /\ [r EXCEPT !.pc = "resolved", !.asked = packs, !.todo = packs] \in RequestType
           /\ [r EXCEPT !.pc = "deleting", !.snapshot = of, !.earlier = e, !.seen = c] \in RequestType
           /\ [r EXCEPT !.pc = "inserting", !.deleted = of] \in RequestType
           /\ \A s \in Slugs :
                 /\ [r EXCEPT !.todo = @ \ {s}, !.inserted = @ \union {s}] \in RequestType
                 /\ [r EXCEPT !.todo = @ \ {s}, !.inserted = @] \in RequestType
BY DEF RequestType

\* A request begins with what it asks for.
Resolves(q) ==
    /\ request[q].pc = "new" /\ request'[q].pc = "resolved"
    /\ request'[q].todo = request'[q].asked /\ request'[q].inserted = request[q].inserted
    /\ request'[q].earlier = request[q].earlier /\ request'[q].seen = request[q].seen
    /\ rows' = rows

LEMMA AskEffect ==
    ASSUME TypeOK, NEW q \in Requests, AskForPacks(q) \/ AskForCollection(q)
    PROVE  Resolves(q) /\ Others(q) /\ request' \in [Requests -> RequestType]
<1>1. ASSUME NEW packs \in SUBSET Slugs, PutAt(q, "new"), rows' = rows,
             request' = [request EXCEPT ![q].pc = "resolved", ![q].asked = packs, ![q].todo = packs]
      PROVE  Resolves(q) /\ Others(q) /\ request' \in [Requests -> RequestType]
    <2>1. request \in [Requests -> RequestType]
        BY DEF TypeOK
    <2>2. Others(q)
        BY <1>1, <2>1 DEF Others
    <2>3. /\ request'[q].pc = "resolved" /\ request'[q].asked = packs /\ request'[q].todo = packs
          /\ request'[q].inserted = request[q].inserted
          /\ request'[q].earlier = request[q].earlier /\ request'[q].seen = request[q].seen
        BY <1>1, <2>1 DEF RequestType
    <2>4. request' \in [Requests -> RequestType]
        BY <1>1, <2>1, Retyped
    <2> QED
        BY <1>1, <2>2, <2>3, <2>4 DEF PutAt, Resolves
<1>2. CASE AskForPacks(q)
    BY <1>1, <1>2, ListsAssumption DEF AskForPacks
<1>3. CASE AskForCollection(q)
    <2>1. PICK c \in Collections :
              request' = [request EXCEPT ![q].pc = "resolved", ![q].asked = PublicPacksOf(c),
                                         ![q].todo = PublicPacksOf(c)]
        BY <1>3 DEF AskForCollection
    <2>2. PublicPacksOf(c) \in SUBSET Slugs
        BY DEF PublicPacksOf
    <2> QED
        BY <1>1, <1>3, <2>1, <2>2 DEF AskForCollection
<1> QED
    BY <1>2, <1>3

\* A request begins its DELETE.
Begins(q) ==
    /\ request[q].pc = "resolved" /\ request'[q].pc = "deleting"
    /\ request'[q].asked = request[q].asked /\ request'[q].todo = request[q].todo
    /\ request'[q].inserted = request[q].inserted /\ request'[q].snapshot = rows
    /\ request'[q].earlier = Begun /\ request'[q].seen = Committed
    /\ rows' = rows

LEMMA BeginEffect ==
    ASSUME TypeOK, NEW q \in Requests, BeginDelete(q)
    PROVE  Begins(q) /\ Others(q) /\ request' \in [Requests -> RequestType]
<1>1. /\ request \in [Requests -> RequestType] /\ rows \in SUBSET Row
      /\ Begun \in SUBSET Requests /\ Committed \in SUBSET Requests
    BY DEF TypeOK, Begun, Committed
<1>2. /\ request[q].pc = "resolved" /\ rows' = rows
      /\ request' = [request EXCEPT ![q].pc = "deleting", ![q].snapshot = rows,
                         ![q].earlier = Begun, ![q].seen = Committed]
    BY DEF BeginDelete, PutAt
<1>3. Others(q)
    BY <1>1, <1>2 DEF Others
<1>4. request' \in [Requests -> RequestType]
    BY <1>1, <1>2, Retyped
<1>5. /\ request'[q].pc = "deleting"
      /\ request'[q].asked = request[q].asked /\ request'[q].todo = request[q].todo
      /\ request'[q].inserted = request[q].inserted /\ request'[q].snapshot = rows
      /\ request'[q].earlier = Begun /\ request'[q].seen = Committed
    BY <1>1, <1>2 DEF RequestType
<1> QED
    BY <1>2, <1>3, <1>4, <1>5 DEF Begins

\* Its DELETE ends.
Deletes(q) ==
    /\ request[q].pc = "deleting" /\ request'[q].pc = "inserting"
    /\ request'[q].asked = request[q].asked /\ request'[q].todo = request[q].todo
    /\ request'[q].inserted = request[q].inserted /\ request'[q].snapshot = request[q].snapshot
    /\ request'[q].earlier = request[q].earlier /\ request'[q].seen = request[q].seen
    /\ request'[q].deleted = request[q].snapshot \intersect rows
    /\ rows' = rows
    /\ \A v \in Requests \ {q} : Removing(v) \intersect request[q].snapshot = {}

LEMMA DeleteEffect ==
    ASSUME TypeOK, NEW q \in Requests, Delete(q)
    PROVE  Deletes(q) /\ Others(q) /\ request' \in [Requests -> RequestType]
<1>1. request \in [Requests -> RequestType] /\ request[q].snapshot \intersect rows \in SUBSET Row
    BY DEF TypeOK
<1>2. /\ request[q].pc = "deleting" /\ rows' = rows
      /\ \A v \in Requests \ {q} : Removing(v) \intersect request[q].snapshot = {}
      /\ request' = [request EXCEPT ![q].pc = "inserting",
                         ![q].deleted = request[q].snapshot \intersect rows]
    BY DEF Delete, PutAt
<1>3. Others(q)
    BY <1>1, <1>2 DEF Others
<1>4. request' \in [Requests -> RequestType]
    BY <1>1, <1>2, Retyped
<1>5. /\ request'[q].pc = "inserting"
      /\ request'[q].asked = request[q].asked /\ request'[q].todo = request[q].todo
      /\ request'[q].inserted = request[q].inserted /\ request'[q].snapshot = request[q].snapshot
      /\ request'[q].earlier = request[q].earlier /\ request'[q].seen = request[q].seen
      /\ request'[q].deleted = request[q].snapshot \intersect rows
    BY <1>1, <1>2 DEF RequestType
<1> QED
    BY <1>2, <1>3, <1>4, <1>5 DEF Deletes

\* It inserts pack s, or leaves the row it finds alone.
Inserts(q, s) ==
    /\ request[q].pc = "inserting" /\ request'[q].pc = "inserting"
    /\ s \in request[q].todo
    /\ request'[q].asked = request[q].asked /\ request'[q].todo = request[q].todo \ {s}
    /\ request'[q].snapshot = request[q].snapshot /\ request'[q].deleted = request[q].deleted
    /\ request'[q].earlier = request[q].earlier /\ request'[q].seen = request[q].seen
    /\ rows' = rows
    /\ \A v \in Requests \ {q} : s \notin Inserting(v) \union {row.pack : row \in Removing(v)}
    /\ \/ /\ \E row \in rows \ request[q].deleted : row.pack = s
          /\ request'[q].inserted = request[q].inserted
       \/ /\ ~\E row \in rows \ request[q].deleted : row.pack = s
          /\ request'[q].inserted = request[q].inserted \union {s}

LEMMA InsertEffect ==
    ASSUME TypeOK, NEW q \in Requests, Insert(q)
    PROVE  (\E s \in Slugs : Inserts(q, s)) /\ Others(q) /\ request' \in [Requests -> RequestType]
<1>1. PICK s \in request[q].todo :
          /\ \A v \in Requests \ {q} : s \notin Inserting(v) \union {row.pack : row \in Removing(v)}
          /\ request' = [request EXCEPT ![q].todo = @ \ {s},
                ![q].inserted = IF \E row \in rows \ request[q].deleted : row.pack = s
                                THEN @ ELSE @ \union {s}]
    BY DEF Insert
<1>2. PutAt(q, "inserting") /\ rows' = rows /\ s \in Slugs
    BY Fields DEF Insert
<1>3. Others(q) /\ request' \in [Requests -> RequestType]
    <2>1. request \in [Requests -> RequestType]
        BY DEF TypeOK
    <2>2. Others(q)
        BY <1>1, <2>1 DEF Others
    <2>3. request' \in [Requests -> RequestType]
        BY <1>1, <1>2, <2>1, Retyped
    <2> QED
        BY <2>2, <2>3
<1>4. Inserts(q, s)
    <2>1. request[q] \in RequestType
        BY DEF TypeOK
    <2>2. /\ request'[q].pc = request[q].pc
          /\ request'[q].asked = request[q].asked /\ request'[q].todo = request[q].todo \ {s}
          /\ request'[q].snapshot = request[q].snapshot /\ request'[q].deleted = request[q].deleted
          /\ request'[q].earlier = request[q].earlier /\ request'[q].seen = request[q].seen
          /\ request'[q].inserted = IF \E row \in rows \ request[q].deleted : row.pack = s
                                    THEN request[q].inserted ELSE request[q].inserted \union {s}
        BY <1>1, <2>1 DEF TypeOK, RequestType
    <2> QED
        BY <1>1, <1>2, <2>2 DEF Inserts, PutAt
<1> QED
    BY <1>2, <1>3, <1>4

\* It commits.
Commits(q) ==
    /\ request[q].pc = "inserting" /\ request'[q].pc = "committed" /\ request[q].todo = {}
    /\ request'[q].asked = request[q].asked /\ request'[q].todo = request[q].todo
    /\ request'[q].inserted = request[q].inserted
    /\ request'[q].earlier = request[q].earlier /\ request'[q].seen = request[q].seen
    /\ rows' = (rows \ request[q].deleted) \union {[pack |-> s, by |-> q] : s \in request[q].inserted}

LEMMA CommitEffect ==
    ASSUME TypeOK, NEW q \in Requests, Commit(q)
    PROVE  Commits(q) /\ Others(q) /\ request' \in [Requests -> RequestType]
<1>1. /\ request' = [request EXCEPT ![q].pc = "committed"] /\ PutAt(q, "inserting")
      /\ request[q].todo = {}
      /\ rows' = (rows \ request[q].deleted) \union {[pack |-> s, by |-> q] : s \in request[q].inserted}
    BY DEF Commit
<1>2. Others(q) /\ request' \in [Requests -> RequestType]
    BY <1>1 DEF TypeOK, RequestType, Others
<1>3. /\ request'[q].pc = "committed"
      /\ request'[q].asked = request[q].asked /\ request'[q].todo = request[q].todo
      /\ request'[q].inserted = request[q].inserted
      /\ request'[q].earlier = request[q].earlier /\ request'[q].seen = request[q].seen
    BY <1>1 DEF TypeOK, RequestType
<1> QED
    BY <1>1, <1>2, <1>3 DEF Commits, PutAt

\* It fails, and nothing of it stays.
Fails(q) ==
    /\ request[q].pc \in {"resolved", "deleting", "inserting"} /\ request'[q].pc = "failed"
    /\ request'[q].asked = request[q].asked /\ request'[q].todo = request[q].todo
    /\ request'[q].inserted = request[q].inserted
    /\ request'[q].earlier = request[q].earlier /\ request'[q].seen = request[q].seen
    /\ rows' = rows

LEMMA FailEffect ==
    ASSUME TypeOK, NEW q \in Requests, NoSuchPack(q) \/ Abort(q)
    PROVE  Fails(q) /\ Others(q) /\ request' \in [Requests -> RequestType]
<1>1. /\ request' = [request EXCEPT ![q].pc = "failed"] /\ rows' = rows
      /\ request[q].pc \in {"resolved", "deleting", "inserting"}
    BY DEF NoSuchPack, Abort, PutAt
<1> QED
    BY <1>1 DEF TypeOK, RequestType, Fails, Others

\* So a step is one of these, or leaves the requests and the rows alone.
Acts(q) == Resolves(q) \/ Begins(q) \/ Deletes(q) \/ (\E s \in Slugs : Inserts(q, s))
              \/ Commits(q) \/ Fails(q)

LEMMA StepEffect ==
    ASSUME TypeOK, [Next]_vars
    PROVE  \/ UNCHANGED <<rows, request>>
           \/ \E q \in Requests : Acts(q) /\ Others(q) /\ request' \in [Requests -> RequestType]
<1>1. ASSUME NEW q \in Requests, Put(q)
      PROVE  Acts(q) /\ Others(q) /\ request' \in [Requests -> RequestType]
    BY <1>1, AskEffect, BeginEffect, DeleteEffect, InsertEffect, CommitEffect, FailEffect DEF Put, Acts
<1> QED
    BY <1>1 DEF Next, vars

-----------------------------------------------------------------------------
(* The requests' part of the invariant *)

\* Where a request's step leaves the sets of those that have begun and committed.
LEMMA SetsStep ==
    ASSUME NEW q \in Requests, Acts(q), Others(q)
    PROVE  /\ Begun \subseteq Requests /\ Committed \subseteq Begun
           /\ \A v \in Requests \ {q} : (v \in Begun' <=> v \in Begun) /\ (v \in Committed' <=> v \in Committed)
           /\ q \notin Committed
           /\ Commits(q) => Committed' = Committed \union {q} /\ Begun' = Begun /\ q \in Begun
           /\ ~Commits(q) => Committed' = Committed
           /\ Begins(q) => q \notin Begun /\ Begun' = Begun \union {q}
           /\ ~Begins(q) => Begun' \subseteq Begun
           /\ \A v \in Requests : request[v].pc \notin {"new", "resolved"}
                                    => request'[v].pc \notin {"new", "resolved"}
<1>1. \A v \in Requests \ {q} : request'[v] = request[v]
    BY DEF Others
<1>2. request[q].pc # "committed" /\ (request'[q].pc = "committed" <=> Commits(q))
    BY DEF Acts, Resolves, Begins, Deletes, Inserts, Commits, Fails
<1>3. /\ Begins(q) => request[q].pc = "resolved" /\ request'[q].pc = "deleting"
      /\ Commits(q) => request[q].pc = "inserting"
      /\ ~Begins(q) /\ request'[q].pc \in {"deleting", "inserting", "committed"}
            => request[q].pc \in {"deleting", "inserting", "committed"}
      /\ request[q].pc \notin {"new", "resolved"} => request'[q].pc \notin {"new", "resolved"}
    BY DEF Acts, Resolves, Begins, Deletes, Inserts, Commits, Fails
<1> QED
    BY <1>1, <1>2, <1>3 DEF Begun, Committed, PutAt

LEMMA AskingStep ==
    ASSUME Asking, NEW q \in Requests, Acts(q), Others(q)
    PROVE  Asking'
<1>1. ASSUME NEW v \in Requests \ {q}
      PROVE  request'[v] = request[v]
    BY DEF Others
<1>2. /\ request'[q].todo \subseteq request'[q].asked
      /\ request'[q].inserted \subseteq request'[q].asked
      /\ request'[q].pc \in {"new", "resolved", "deleting"} =>
            request'[q].todo = request'[q].asked /\ request'[q].inserted = {}
    <2>1. CASE Resolves(q) \/ Begins(q)
        BY <2>1 DEF Asking, Resolves, Begins
    <2>2. CASE Deletes(q) \/ Commits(q) \/ Fails(q)
        BY <2>2 DEF Asking, Deletes, Commits, Fails
    <2>3. CASE \E s \in Slugs : Inserts(q, s)
        BY <2>3 DEF Asking, Inserts
    <2> QED
        BY <2>1, <2>2, <2>3 DEF Acts
<1> QED
    BY <1>1, <1>2 DEF Asking

LEMMA OrderedStep ==
    ASSUME TypeOK, Ordered, NEW q \in Requests, Acts(q), Others(q)
    PROVE  Ordered'
<1>1. \A v \in Requests \ {q} : request'[v] = request[v]
    BY DEF Others
<1>2. /\ Begun \subseteq Requests /\ Committed \subseteq Begun
      /\ \A v \in Requests \ {q} : (v \in Begun' <=> v \in Begun)
      /\ Committed \subseteq Committed' /\ q \notin Committed
      /\ \A v \in Requests : request[v].pc \notin {"new", "resolved"}
                               => request'[v].pc \notin {"new", "resolved"}
    BY SetsStep
<1>3. \A v \in Requests : request[v].earlier \subseteq Requests /\ request[v].seen \subseteq Requests
    BY Fields
<1>4. CASE Begins(q)
    <2>1. q \notin Begun /\ Begun' = Begun \union {q} /\ Committed' = Committed
        BY <1>4, SetsStep DEF Begins, Commits
    <2>2. /\ request'[q].earlier = Begun /\ request'[q].seen = Committed
          /\ request[q].pc = "resolved"
        BY <1>4 DEF Begins
    <2>3. \A v \in Begun : q \notin request[v].earlier
        BY <1>2, <2>2 DEF Ordered
    <2>4. \A v \in Begun : request[v].pc \notin {"new", "resolved"}
        BY DEF Begun
    <2>5. \A v \in Requests : \A w \in request'[v].earlier : request'[w].pc \notin {"new", "resolved"}
        BY <1>1, <1>2, <1>3, <2>2, <2>4 DEF Ordered
    <2>6. ASSUME NEW v \in Begun'
          PROVE  /\ v \notin request'[v].earlier
                 /\ request'[v].seen \subseteq Committed' \intersect request'[v].earlier
        BY <1>1, <1>2, <2>1, <2>2 DEF Ordered
    <2>7. ASSUME NEW v \in Begun', NEW w \in Begun'
          PROVE  /\ v # w => (w \in request'[v].earlier <=> v \notin request'[w].earlier)
                 /\ w \in request'[v].earlier => request'[w].seen \subseteq request'[v].seen
        <3>1. CASE v # q /\ w # q
            BY <1>1, <1>2, <2>1, <3>1 DEF Ordered
        <3>2. CASE v = q /\ w # q
            BY <1>1, <1>2, <2>1, <2>2, <2>3, <3>2 DEF Ordered
        <3>3. CASE v # q /\ w = q
            BY <1>1, <1>2, <2>1, <2>2, <2>3, <3>3 DEF Ordered
        <3>4. CASE v = q /\ w = q
            BY <2>1, <2>2, <3>4
        <3> QED
            BY <3>1, <3>2, <3>3, <3>4
    <2> QED
        BY <2>5, <2>6, <2>7 DEF Ordered
<1>5. CASE ~Begins(q)
    <2>1. Begun' \subseteq Begun
        BY <1>5, SetsStep
    <2>2. request'[q].earlier = request[q].earlier /\ request'[q].seen = request[q].seen
        BY <1>5 DEF Acts, Resolves, Deletes, Inserts, Commits, Fails
    <2>3. \A v \in Requests : request'[v].earlier = request[v].earlier /\ request'[v].seen = request[v].seen
        BY <1>1, <2>2
    <2>4. \A v \in Requests : \A w \in request'[v].earlier : request'[w].pc \notin {"new", "resolved"}
        BY <1>2, <1>3, <2>3 DEF Ordered
    <2>5. ASSUME NEW v \in Begun'
          PROVE  /\ v \notin request'[v].earlier
                 /\ request'[v].seen \subseteq Committed' \intersect request'[v].earlier
        BY <1>2, <2>1, <2>3 DEF Ordered
    <2>6. ASSUME NEW v \in Begun', NEW w \in Begun'
          PROVE  /\ v # w => (w \in request'[v].earlier <=> v \notin request'[w].earlier)
                 /\ w \in request'[v].earlier => request'[w].seen \subseteq request'[v].seen
        BY <1>2, <2>1, <2>3 DEF Ordered
    <2> QED
        BY <2>4, <2>5, <2>6 DEF Ordered
<1> QED
    BY <1>4, <1>5

-----------------------------------------------------------------------------
(* The rows' part of the invariant *)

\* Only a commit changes the rows, and a new row is the committing request's.
LEMMA RowsStep ==
    ASSUME NEW q \in Requests, Acts(q)
    PROVE  /\ ~Commits(q) => rows' = rows
           /\ Commits(q) => \A row \in rows' :
                 \/ row \in rows /\ row \notin request[q].deleted
                 \/ row.by = q /\ row.pack \in request[q].inserted
BY DEF Acts, Resolves, Begins, Deletes, Inserts, Commits, Fails

\* A request in progress has begun, and saw only committed ones.
LEMMA SeenCommitted ==
    ASSUME Ordered, NEW v \in Requests, request[v].pc \in {"deleting", "inserting"}
    PROVE  v \in Begun /\ request[v].seen \subseteq Committed
BY DEF Ordered, Begun

LEMMA SnapshotsStep ==
    ASSUME TypeOK, Ordered, Snapshots, SelectionIsRecent, NEW q \in Requests, Acts(q), Others(q)
    PROVE  Snapshots'
<1>1. \A v \in Requests \ {q} : request'[v] = request[v]
    BY DEF Others
<1>2. CASE Commits(q)
    <2>1. request'[q].pc = "committed" /\ q \notin Committed
        BY <1>2, SetsStep DEF Commits
    <2>2. ASSUME NEW v \in Requests, request'[v].pc \in {"deleting", "inserting"}
          PROVE  /\ \A row \in request'[v].snapshot : row.by \in request'[v].seen
                 /\ \A row \in rows' : row.by \in request'[v].seen => row \in request'[v].snapshot
        <3>1. v # q /\ request'[v] = request[v]
            BY <1>1, <2>1, <2>2
        <3>2. request[v].seen \subseteq Committed
            BY <2>2, <3>1, SeenCommitted
        <3>3. /\ \A row \in request[v].snapshot : row.by \in request[v].seen
              /\ \A row \in rows : row.by \in request[v].seen => row \in request[v].snapshot
            BY <2>2, <3>1 DEF Snapshots
        <3>4. \A row \in rows' : row \in rows \/ row.by = q
            BY <1>2, RowsStep
        <3> QED
            BY <2>1, <3>1, <3>2, <3>3, <3>4
    <2> QED
        BY <2>2 DEF Snapshots
<1>3. CASE ~Commits(q)
    <2>1. rows' = rows
        BY <1>3, RowsStep
    <2>2. request'[q].pc \in {"deleting", "inserting"} =>
            /\ \A row \in request'[q].snapshot : row.by \in request'[q].seen
            /\ \A row \in rows : row.by \in request'[q].seen => row \in request'[q].snapshot
        <3>1. CASE Begins(q)
            <4>1. request'[q].snapshot = rows /\ request'[q].seen = Committed
                BY <3>1 DEF Begins
            <4>2. \A row \in rows : row.by \in Committed
                BY DEF SelectionIsRecent, Committed, TypeOK, Row
            <4> QED
                BY <4>1, <4>2
        <3>2. CASE Deletes(q) \/ \E s \in Slugs : Inserts(q, s)
            BY <3>2 DEF Deletes, Inserts, Snapshots
        <3>3. CASE Resolves(q) \/ Fails(q)
            BY <3>3 DEF Resolves, Fails
        <3> QED
            BY <1>3, <3>1, <3>2, <3>3 DEF Acts
    <2> QED
        BY <1>1, <2>1, <2>2 DEF Snapshots
<1> QED
    BY <1>2, <1>3

LEMMA ExclusiveStep ==
    ASSUME TypeOK, Asking, Ordered, Snapshots, Exclusive, NEW q \in Requests, Acts(q), Others(q)
    PROVE  Exclusive'
<1>1. \A v \in Requests \ {q} :
          /\ request'[v] = request[v]
          /\ Removing(v)' = Removing(v) /\ Inserting(v)' = Inserting(v)
    BY DEF Others, Removing, Inserting, PutAt
<1>2. \A v, w \in Requests : v # w =>
          Removing(v) \intersect Removing(w) = {} /\ Inserting(v) \intersect Inserting(w) = {}
    BY DEF Exclusive
<1>3. ASSUME \A v \in Requests \ {q} :
                 Removing(q)' \intersect Removing(v) = {} /\ Inserting(q)' \intersect Inserting(v) = {}
      PROVE  \A v, w \in Requests : v # w =>
                 (Removing(v) \intersect Removing(w))' = {} /\ (Inserting(v) \intersect Inserting(w))' = {}
    <2>1. ASSUME NEW v \in Requests, NEW w \in Requests, v # w
          PROVE  (Removing(v) \intersect Removing(w))' = {} /\ (Inserting(v) \intersect Inserting(w))' = {}
        <3>1. CASE v = q
            BY <1>1, <1>3, <2>1, <3>1
        <3>2. CASE w = q
            BY <1>1, <1>3, <2>1, <3>2
        <3>3. CASE v # q /\ w # q
            BY <1>1, <1>2, <2>1, <3>3
        <3> QED
            BY <3>1, <3>2, <3>3
    <2> QED
        BY <2>1
<1>4. CASE Commits(q)
    <2>1. /\ request'[q].pc = "committed" /\ request[q].pc = "inserting" /\ q \notin Committed
          /\ rows' = (rows \ request[q].deleted) \union {[pack |-> s, by |-> q] : s \in request[q].inserted}
        BY <1>4, SetsStep DEF Commits
    <2>2. Removing(q)' = {} /\ Inserting(q)' = {}
        BY <2>1 DEF Removing, Inserting, PutAt
    <2>3. Removing(q) = request[q].deleted /\ Inserting(q) = request[q].inserted
        BY <2>1 DEF Removing, Inserting, PutAt
    <2>4. ASSUME NEW v \in Requests, request'[v].pc = "inserting"
          PROVE  /\ request'[v].deleted = request'[v].snapshot \intersect rows'
                 /\ \A row \in rows' \ request'[v].deleted : row.pack \notin request'[v].inserted
        <3>1. v # q /\ request'[v] = request[v]
            BY <1>1, <2>1, <2>4
        <3>2. Removing(v) = request[v].deleted /\ Inserting(v) = request[v].inserted
            BY <2>4, <3>1 DEF Removing, Inserting, PutAt
        <3>3. request[v].deleted \intersect request[q].deleted = {}
            BY <1>2, <2>3, <3>1, <3>2
        <3>4. request[v].inserted \intersect request[q].inserted = {}
            BY <1>2, <2>3, <3>1, <3>2
        <3>5. request[v].deleted = request[v].snapshot \intersect rows
            BY <2>4, <3>1 DEF Exclusive, PutAt
        <3>6. \A row \in rows \ request[v].deleted : row.pack \notin request[v].inserted
            BY <2>4, <3>1 DEF Exclusive, PutAt
        <3>7. \A row \in request[v].snapshot : row.by # q
            <4>1. request[v].seen \subseteq Committed
                BY <2>4, <3>1, SeenCommitted
            <4> QED
                BY <2>1, <2>4, <3>1, <4>1 DEF Snapshots
        <3>8. \A row \in rows' :
                  \/ row \in rows /\ row \notin request[q].deleted
                  \/ row.by = q /\ row.pack \in request[q].inserted
            BY <1>4, RowsStep
        <3>9. request[v].deleted = request[v].snapshot \intersect rows'
            BY <2>1, <3>3, <3>5, <3>7, <3>8
        <3>10. \A row \in rows' \ request[v].deleted : row.pack \notin request[v].inserted
            BY <3>4, <3>6, <3>8
        <3> QED
            BY <3>1, <3>9, <3>10
    <2> QED
        BY <1>3, <2>2, <2>4 DEF Exclusive, PutAt
<1>5. CASE ~Commits(q)
    <2>1. rows' = rows
        BY <1>5, RowsStep
    <2>2. /\ \A v \in Requests \ {q} :
                Removing(q)' \intersect Removing(v) = {} /\ Inserting(q)' \intersect Inserting(v) = {}
          /\ request'[q].pc = "inserting" =>
                /\ request'[q].deleted = request'[q].snapshot \intersect rows
                /\ \A row \in rows \ request'[q].deleted : row.pack \notin request'[q].inserted
        <3>1. CASE Resolves(q) \/ Begins(q) \/ Fails(q)
            <4>1. request'[q].pc # "inserting"
                BY <3>1 DEF Resolves, Begins, Fails
            <4> QED
                BY <4>1 DEF Removing, Inserting, PutAt
        <3>2. CASE Deletes(q)
            <4>1. /\ request'[q].deleted = request[q].snapshot \intersect rows
                  /\ request'[q].snapshot = request[q].snapshot
                  /\ request'[q].inserted = {} /\ request'[q].pc = "inserting"
                  /\ \A v \in Requests \ {q} : Removing(v) \intersect request[q].snapshot = {}
                BY <3>2 DEF Deletes, Asking
            <4>2. Removing(q)' = request'[q].deleted /\ Inserting(q)' = {}
                BY <4>1 DEF Removing, Inserting, PutAt
            <4> QED
                BY <4>1, <4>2
        <3>3. CASE \E s \in Slugs : Inserts(q, s)
            <4>1. PICK s \in Slugs : Inserts(q, s)
                BY <3>3
            <4>2. /\ request'[q].pc = "inserting" /\ request[q].pc = "inserting"
                  /\ request'[q].deleted = request[q].deleted
                  /\ request'[q].snapshot = request[q].snapshot
                  /\ \A v \in Requests \ {q} : s \notin Inserting(v)
                  /\ \/ request'[q].inserted = request[q].inserted
                     \/ /\ \A row \in rows \ request[q].deleted : row.pack # s
                        /\ request'[q].inserted = request[q].inserted \union {s}
                BY <4>1 DEF Inserts
            <4>3. /\ Removing(q)' = request[q].deleted /\ Inserting(q)' = request'[q].inserted
                  /\ Removing(q) = request[q].deleted /\ Inserting(q) = request[q].inserted
                BY <4>2 DEF Removing, Inserting, PutAt
            <4>4. /\ request[q].deleted = request[q].snapshot \intersect rows
                  /\ \A row \in rows \ request[q].deleted : row.pack \notin request[q].inserted
                BY <4>2 DEF Exclusive, PutAt
            <4> QED
                BY <1>2, <4>2, <4>3, <4>4
        <3> QED
            BY <1>5, <3>1, <3>2, <3>3 DEF Acts
    <2>3. \A v \in Requests \ {q} : request'[v].pc = "inserting" =>
              /\ request'[v].deleted = request'[v].snapshot \intersect rows
              /\ \A row \in rows \ request'[v].deleted : row.pack \notin request'[v].inserted
        BY <1>1 DEF Exclusive, PutAt
    <2> QED
        BY <1>3, <2>1, <2>2, <2>3 DEF Exclusive, PutAt
<1> QED
    BY <1>4, <1>5

LEMMA LeftAloneStep ==
    ASSUME TypeOK, Asking, Ordered, Snapshots, Exclusive, LeftAlone,
           NEW q \in Requests, Acts(q), Others(q)
    PROVE  LeftAlone'
<1>1. /\ \A v \in Requests \ {q} : request'[v] = request[v]
      /\ q \notin Committed /\ Committed \subseteq Requests
    BY SetsStep DEF Others
<1>2. CASE Commits(q)
    <2>1. /\ request'[q].pc = "committed" /\ request'[q].earlier = request[q].earlier
          /\ request[q].pc = "inserting"
          /\ rows' = (rows \ request[q].deleted) \union {[pack |-> s, by |-> q] : s \in request[q].inserted}
        BY <1>2 DEF Commits
    <2>2. q \in Begun /\ q \in Committed' /\ Committed \subseteq Committed'
        BY <1>2, SetsStep
    <2>3. ASSUME NEW v \in Requests, request'[v].pc = "inserting",
                 NEW s \in request'[v].asked \ (request'[v].todo \union request'[v].inserted)
          PROVE  \/ \E row \in rows' \ request'[v].deleted : row.pack = s
                 \/ \E w \in Committed' : v \in request'[w].earlier
        <3>1. v # q /\ request'[v] = request[v]
            BY <1>1, <2>1, <2>3
        <3>2. \/ \E row \in rows \ request[v].deleted : row.pack = s
              \/ \E w \in Committed : v \in request[w].earlier
            BY <2>3, <3>1 DEF LeftAlone, PutAt
        <3>3. CASE \E w \in Committed : v \in request[w].earlier
            BY <1>1, <2>2, <3>3
        <3>4. CASE \E row \in rows \ request[v].deleted : row.pack = s
            <4>1. PICK row \in rows \ request[v].deleted : row.pack = s
                BY <3>4
            <4>2. CASE row \notin request[q].deleted
                BY <2>1, <3>1, <4>1, <4>2
            <4>3. CASE row \in request[q].deleted
                <5>1. row.by \in request[q].seen
                    BY <2>1, <4>3 DEF Exclusive, Snapshots, PutAt
                <5>2. row.by \notin request[v].seen
                    BY <2>3, <3>1 DEF Exclusive, Snapshots, PutAt
                <5>3. v \in Begun
                    BY <2>3, <3>1 DEF Begun
                <5>4. v \in request[q].earlier
                    BY <2>2, <3>1, <5>1, <5>2, <5>3 DEF Ordered
                <5> QED
                    BY <2>1, <2>2, <5>4
            <4> QED
                BY <4>2, <4>3
        <3> QED
            BY <3>2, <3>3, <3>4
    <2> QED
        BY <2>3 DEF LeftAlone, PutAt
<1>3. CASE ~Commits(q)
    <2>1. rows' = rows /\ Committed' = Committed
        BY <1>3, RowsStep, SetsStep
    <2>2. \A w \in Committed : request'[w] = request[w]
        BY <1>1
    <2>3. ASSUME request'[q].pc = "inserting",
                 NEW s \in request'[q].asked \ (request'[q].todo \union request'[q].inserted)
          PROVE  \/ \E row \in rows \ request'[q].deleted : row.pack = s
                 \/ \E w \in Committed : q \in request[w].earlier
        <3>1. CASE Deletes(q)
            BY <2>3, <3>1 DEF Deletes, Asking
        <3>2. CASE \E t \in Slugs : Inserts(q, t)
            <4>1. PICK t \in Slugs : Inserts(q, t)
                BY <3>2
            <4>2. /\ request[q].pc = "inserting"
                  /\ request'[q].asked = request[q].asked /\ request'[q].todo = request[q].todo \ {t}
                  /\ request'[q].deleted = request[q].deleted
                  /\ \/ /\ \E row \in rows \ request[q].deleted : row.pack = t
                        /\ request'[q].inserted = request[q].inserted
                     \/ request'[q].inserted = request[q].inserted \union {t}
                BY <4>1 DEF Inserts
            <4>3. CASE s = t
                BY <2>3, <4>2, <4>3
            <4>4. CASE s # t
                <5>1. s \in request[q].asked \ (request[q].todo \union request[q].inserted)
                    BY <2>3, <4>2, <4>4
                <5> QED
                    BY <4>2, <5>1 DEF LeftAlone, PutAt
            <4> QED
                BY <4>3, <4>4
        <3>3. CASE Resolves(q) \/ Begins(q) \/ Fails(q)
            BY <2>3, <3>3 DEF Resolves, Begins, Fails
        <3> QED
            BY <1>3, <3>1, <3>2, <3>3 DEF Acts
    <2>4. ASSUME NEW v \in Requests \ {q}, request'[v].pc = "inserting",
                 NEW s \in request'[v].asked \ (request'[v].todo \union request'[v].inserted)
          PROVE  \/ \E row \in rows \ request'[v].deleted : row.pack = s
                 \/ \E w \in Committed : v \in request[w].earlier
        BY <1>1, <2>4 DEF LeftAlone, PutAt
    <2> QED
        BY <2>1, <2>2, <2>3, <2>4 DEF LeftAlone, PutAt
<1> QED
    BY <1>2, <1>3

\* What the rows tell of their request.
LEMMA OldRows ==
    ASSUME SelectionIsRecent, NEW row \in rows
    PROVE  /\ PutAt(row.by, "committed") /\ row.pack \in request[row.by].asked
           /\ \A v \in Committed : row.by \notin request[v].seen
BY DEF SelectionIsRecent, Replaced

LEMMA RecentStep ==
    ASSUME TypeOK, Asking, Ordered, Snapshots, Exclusive, LeftAlone, SelectionIsRecent,
           NEW q \in Requests, Acts(q), Others(q)
    PROVE  SelectionIsRecent'
<1>1. /\ \A v \in Requests \ {q} : request'[v] = request[v]
      /\ q \notin Committed /\ Committed \subseteq Begun /\ Begun \subseteq Requests
    BY SetsStep DEF Others
<1>2. \A row \in rows : row.by \in Requests /\ row.by \in Committed
    BY OldRows DEF TypeOK, Row, Committed
<1>3. \A v \in Committed : request'[v] = request[v]
    BY <1>1
<1>4. CASE Commits(q)
    <2>1. /\ request'[q].pc = "committed" /\ request[q].todo = {} /\ request[q].pc = "inserting"
          /\ request'[q].asked = request[q].asked
          /\ request'[q].earlier = request[q].earlier /\ request'[q].seen = request[q].seen
          /\ rows' = (rows \ request[q].deleted) \union {[pack |-> s, by |-> q] : s \in request[q].inserted}
        BY <1>4 DEF Commits
    <2>2. q \in Begun /\ Committed' = Committed \union {q}
        BY <1>4, SetsStep
    <2>3. /\ request[q].deleted = request[q].snapshot \intersect rows
          /\ \A row \in request[q].snapshot : row.by \in request[q].seen
          /\ \A row \in rows : row.by \in request[q].seen => row \in request[q].snapshot
        BY <2>1 DEF Exclusive, Snapshots, PutAt
    <2>4. ASSUME NEW row \in rows'
          PROVE  /\ row.by \in Committed'
                 /\ \A v \in Committed' : row.by \notin request'[v].seen
                 /\ row.pack \in request'[row.by].asked
        <3>1. CASE row \in rows /\ row \notin request[q].deleted
            <4>1. row.by \notin request[q].seen
                BY <2>3, <3>1
            <4> QED
                BY <1>2, <1>3, <2>1, <2>2, <3>1, <4>1, OldRows
        <3>2. CASE row.by = q /\ row.pack \in request[q].inserted
            <4>1. \A v \in Committed' : request'[v].seen \subseteq Committed
                BY <1>1, <1>3, <2>1, <2>2 DEF Ordered
            <4>2. row.pack \in request'[q].asked
                BY <2>1, <3>2 DEF Asking
            <4> QED
                BY <1>1, <2>2, <3>2, <4>1, <4>2
        <3> QED
            BY <1>4, <3>1, <3>2, RowsStep
    <2>5. ASSUME NEW u \in Committed', Committed' \ {u} \subseteq request'[u].earlier,
                 NEW s \in request'[u].asked
          PROVE  \E row \in rows' : row.pack = s
        <3>1. CASE u = q
            <4>1. CASE s \in request[q].inserted
                <5>1. [pack |-> s, by |-> q] \in rows'
                    BY <2>1, <4>1
                <5> QED
                    BY <5>1
            <4>2. CASE s \notin request[q].inserted
                <5>1. \/ \E row \in rows \ request[q].deleted : row.pack = s
                      \/ \E w \in Committed : q \in request[w].earlier
                    BY <2>1, <2>5, <3>1, <4>2 DEF LeftAlone, PutAt
                <5>2. \A w \in Committed : q \notin request[w].earlier
                    <6>1. \A w \in Committed : w # q /\ w \in request[q].earlier
                        BY <1>1, <2>1, <2>2, <2>5, <3>1
                    <6> QED
                        BY <1>1, <2>2, <6>1 DEF Ordered
                <5> QED
                    BY <2>1, <5>1, <5>2
            <4> QED
                BY <4>1, <4>2
        <3>2. CASE u # q
            <4>1. u \in Committed /\ request'[u] = request[u] /\ q \in request[u].earlier
                BY <1>3, <2>2, <2>5, <3>2
            <4>2. Committed \ {u} \subseteq request[u].earlier
                BY <2>2, <2>5, <4>1
            <4>3. PICK row \in rows : row.pack = s
                BY <2>5, <4>1, <4>2 DEF SelectionIsRecent, Selected
            <4>4. row \notin request[q].deleted
                <5>1. request[q].seen \subseteq request[u].seen
                    BY <1>1, <2>2, <4>1 DEF Ordered
                <5>2. row.by \notin request[u].seen
                    BY <4>1, OldRows
                <5> QED
                    BY <2>3, <5>1, <5>2
            <4> QED
                BY <2>1, <4>3, <4>4
        <3> QED
            BY <3>1, <3>2
    <2>6. \A row \in rows' : PutAt(row.by, "committed")'
        BY <2>4 DEF Committed
    <2>7. \A row \in rows' : ~Replaced(row.by)'
        BY <2>4 DEF Replaced
    <2> QED
        BY <2>4, <2>5, <2>6, <2>7 DEF SelectionIsRecent, Selected
<1>5. CASE ~Commits(q)
    <2>1. rows' = rows /\ Committed' = Committed
        BY <1>5, RowsStep, SetsStep
    <2>2. \A row \in rows :
              /\ PutAt(row.by, "committed")' /\ ~Replaced(row.by)'
              /\ row.pack \in request'[row.by].asked
        <3>1. ASSUME NEW row \in rows
              PROVE  /\ PutAt(row.by, "committed")' /\ row.pack \in request'[row.by].asked
                     /\ \A v \in Committed' : row.by \notin request'[v].seen
            BY <1>2, <1>3, <2>1, OldRows DEF PutAt
        <3> QED
            BY <3>1 DEF Replaced
    <2>3. \A u \in Committed : Committed \ {u} \subseteq request[u].earlier
                                  => request[u].asked \subseteq Selected
        BY DEF SelectionIsRecent
    <2>4. Selected' = Selected
        BY <2>1 DEF Selected
    <2> QED
        BY <1>3, <2>1, <2>2, <2>3, <2>4 DEF SelectionIsRecent
<1> QED
    BY <1>4, <1>5

-----------------------------------------------------------------------------
(* The types *)

\* A step is the importer's, or leaves it alone.
LEMMA ImportsStep ==
    ASSUME [Next]_vars
    PROVE  CatalogueNext \/ UNCHANGED imports
<1>1. ASSUME NEW q \in Requests, Put(q)
      PROVE  UNCHANGED imports
    BY <1>1 DEF Put, AskForPacks, AskForCollection, BeginDelete, Delete, Insert,
                NoSuchPack, Commit, Abort
<1> QED
    BY <1>1 DEF Next, vars

LEMMA TypeStep ==
    ASSUME TypeOK, Filing, Asking, Exclusive, [Next]_vars
    PROVE  TypeOK'
<1>1. CatalogueTypeOK'
    <2>1. CASE CatalogueNext
        BY <2>1, CatalogueStep DEF TypeOK
    <2>2. CASE UNCHANGED imports
        BY <2>2 DEF TypeOK, CatalogueTypeOK, imports, catalogue
    <2> QED
        BY <2>1, <2>2, ImportsStep
<1>2. CASE UNCHANGED <<rows, request>>
    BY <1>1, <1>2 DEF TypeOK
<1>3. ASSUME NEW q \in Requests, Acts(q), Others(q), request' \in [Requests -> RequestType]
      PROVE  TypeOK'
    <2>1. CASE Commits(q)
        <3>1. /\ rows' = (rows \ request[q].deleted) \union {[pack |-> s, by |-> q] : s \in request[q].inserted}
              /\ request[q].pc = "inserting"
            BY <2>1 DEF Commits
        <3>2. request[q].inserted \in SUBSET Slugs
            BY Fields
        <3>3. /\ rows \in SUBSET Row
              /\ \A a, b \in rows : a.pack = b.pack => a = b
            BY DEF TypeOK
        <3>4. rows' \in SUBSET Row
            BY <3>1, <3>2, <3>3 DEF Row
        <3>5. \A row \in rows \ request[q].deleted : row.pack \notin request[q].inserted
            BY <3>1 DEF Exclusive, PutAt
        <3>6. \A a, b \in rows' : a.pack = b.pack => a = b
            BY <3>1, <3>3, <3>5
        <3> QED
            BY <1>1, <1>3, <3>4, <3>6 DEF TypeOK
    <2>2. CASE ~Commits(q)
        <3>1. rows' = rows
            BY <1>3, <2>2, RowsStep
        <3> QED
            BY <1>1, <1>3, <3>1 DEF TypeOK
    <2> QED
        BY <2>1, <2>2
<1> QED
    BY <1>2, <1>3, StepEffect

-----------------------------------------------------------------------------
(* The theorems *)

LEMMA InitInv ==
    ASSUME Init
    PROVE  PInv
<1>1. /\ rows = {} /\ request = [q \in Requests |-> New]
    BY DEF Init
<1>2. NotRunning \in ImporterType
    BY DEF NotRunning, ImporterType
<1>3. CatalogueTypeOK
    BY <1>2, BoundsAssumption DEF Init, CatalogueInit, CatalogueTypeOK, Times
<1>4. New \in RequestType
    BY DEF New, RequestType
<1>5. Begun = {} /\ Committed = {}
    BY <1>1 DEF Begun, Committed, PutAt, New
<1>6. TypeOK
    BY <1>1, <1>3, <1>4 DEF TypeOK
<1>7. Asking /\ Snapshots /\ LeftAlone
    BY <1>1 DEF Asking, Snapshots, LeftAlone, New, PutAt
<1>11. Filing /\ ImportInv
    BY ImportInit DEF Init
<1>8. Ordered
    BY <1>1, <1>5 DEF Ordered, New
<1>9. Exclusive
    BY <1>1 DEF Exclusive, Removing, Inserting, PutAt, New
<1>10. SelectionIsRecent
    BY <1>1, <1>5 DEF SelectionIsRecent
<1> QED
    BY <1>6, <1>7, <1>8, <1>9, <1>10, <1>11 DEF PInv

LEMMA StepInv ==
    ASSUME PInv, [Next]_vars
    PROVE  PInv'
<1>1. TypeOK /\ Filing /\ ImportInv /\ Asking /\ Ordered /\ Snapshots /\ Exclusive /\ LeftAlone /\ SelectionIsRecent
    BY DEF PInv
<1>2. TypeOK'
    BY <1>1, TypeStep
<1>5. Filing' /\ ImportInv'
    <2>1. CASE CatalogueNext
        BY <1>1, <2>1, FilingStep, ImportInvStep DEF TypeOK
    <2>2. CASE UNCHANGED imports
        <3>1. Filing'
            BY <1>1, <2>2 DEF Filing, imports, PackSlugs
        <3> QED
            BY <1>1, <2>2, <3>1, ImportInvStep DEF TypeOK
    <2> QED
        BY <2>1, <2>2, ImportsStep
<1>3. CASE UNCHANGED <<rows, request>>
    BY <1>1, <1>2, <1>3, <1>5 DEF PInv, Asking, Ordered, Snapshots, Exclusive, LeftAlone,
        SelectionIsRecent, Begun, Committed, Removing, Inserting, PutAt, Replaced, Selected
<1>4. ASSUME NEW q \in Requests, Acts(q), Others(q)
      PROVE  PInv'
    BY <1>1, <1>2, <1>4, <1>5, AskingStep, OrderedStep, SnapshotsStep, ExclusiveStep,
       LeftAloneStep, RecentStep DEF PInv
<1> QED
    BY <1>1, <1>3, <1>4, StepEffect

\* The requests' invariant, whatever the importer does meanwhile.
THEOREM Invariance == Spec => []PInv
<1> QED
    BY InitInv, StepInv, PTL DEF Spec

\* Every state of the tables, the importer and the requests is typed, and the selection
\* has one row of a pack (the primary key of room_pack_selection).
THEOREM TypeCorrect == Spec => []TypeOK
<1>1. PInv => TypeOK
    BY DEF PInv
<1> QED
    BY <1>1, Invariance, PTL

\* PUTs that overlap in any way leave nothing of one that another began after, and all
\* that the last one to begin asked for (room_pack_store.go:20, :29-32).
THEOREM Recent == Spec => []SelectionIsRecent
<1>1. PInv => SelectionIsRecent
    BY DEF PInv
<1> QED
    BY <1>1, Invariance, PTL

\* q's DELETE began after all the other commits, and none came after it.
CommittedLast(q) == q \in Committed /\ Committed \ {q} \subseteq request[q].seen

\* A PUT that overlaps no other one replaces the selection by what it asked for, no more
\* and no less, whatever overlaps came before (room_pack_store.go:20-41).
THEOREM LastReplaces == Spec => [](\A q \in Requests : CommittedLast(q) => Selected = request[q].asked)
<1>1. ASSUME PInv, NEW q \in Requests, CommittedLast(q)
      PROVE  Selected = request[q].asked
    <2>1. q \in Begun /\ request[q].seen \subseteq request[q].earlier
        BY <1>1 DEF PInv, Ordered, CommittedLast, Committed, Begun, PutAt
    <2>2. request[q].asked \subseteq Selected
        BY <1>1, <2>1 DEF PInv, SelectionIsRecent, CommittedLast
    <2>3. ASSUME NEW row \in rows
          PROVE  row.pack \in request[q].asked
        <3>1. row.by \in Committed /\ ~Replaced(row.by) /\ row.pack \in request[row.by].asked
            BY <1>1 DEF PInv, TypeOK, Row, SelectionIsRecent, Committed
        <3>2. row.by = q
            BY <1>1, <3>1 DEF CommittedLast, Replaced
        <3> QED
            BY <3>1, <3>2
    <2> QED
        BY <2>2, <2>3 DEF Selected
<1>2. PInv => \A q \in Requests : CommittedLast(q) => Selected = request[q].asked
    BY <1>1
<1> QED
    BY <1>2, Invariance, PTL

\* An import that has printed "done" leaves the catalogue its file describes, for every
\* file, however names share slugs and wherever earlier runs stopped (main.go:78-96,
\* :112-125, :197).
THEOREM CatalogueIsTheFile == Spec => []ImportIsTheFile
<1>1. PInv => ImportIsTheFile
    BY ImportedIsTheFile DEF PInv, TypeOK
<1> QED
    BY <1>1, Invariance, PTL

=============================================================================
