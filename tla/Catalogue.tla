----------------------------- MODULE Catalogue -----------------------------
(***************************************************************************)
(* The catalogue of packs, characters and collections, and the command     *)
(* that fills it, src/cmd/jsonimporter/main.go.  The importer has no       *)
(* transaction: every upsert commits by itself, and the first one that     *)
(* fails ends the process (must) with what is written so far in place, to  *)
(* be run again.  A name becomes a key through slugify, which maps names   *)
(* that differ in case, accents or punctuation to one slug and takes the   *)
(* time of day for a name with no Latin letter or digit at all.            *)
(***************************************************************************)
EXTENDS Naturals, Sequences, SequencesExt

CONSTANTS
    Franchises, Names, Slugs,
    SlugOf,       \* the slug of a franchise or a name, None when slugify finds no letter in it
    NamesOf,      \* the file: the names of each franchise, in order
    Collections,
    PacksOf,      \* the collections file: the pack slugs of each collection
    MaxRuns,      \* bound: how often the importer is run
    MaxClock,     \* bound: how far time.Now().Unix() goes
    None

Times == 0 .. MaxClock
PackSlugs == Slugs \union Times
Keys == PackSlugs \X PackSlugs      \* characters.(pack_id, canonical_key)

ASSUME BoundsAssumption == MaxRuns \in Nat /\ MaxClock \in Nat
ASSUME SlugOfAssumption == SlugOf \in [Franchises \union Names -> Slugs \union {None}]
ASSUME NamesOfAssumption == NamesOf \in [Franchises -> Seq(Names)]
ASSUME PacksOfAssumption == PacksOf \in [Collections -> SUBSET Slugs]
ASSUME NoneAssumption ==
    None \notin Franchises \union Names \union PackSlugs /\ None \notin BOOLEAN

\* The file has no name that spells out the last resort of slugify, pack_<seconds>.
ASSUME TimesAssumption == Slugs \intersect Times = {}

VARIABLES
    public,       \* packs.is_public, None where there is no row
    packName,     \* pack_translations.name
    charName,     \* characters' names: no key, a row of characters, or its translation
    links,        \* collection_packs
    warned,       \* the packs of collections the importer has said it skipped
    clock,        \* time.Now().Unix()
    importer,     \* the running importer
    runs

catalogue == <<public, packName, charName, links, warned>>
imports == <<catalogue, clock, importer, runs>>

\* A character's row before upsertCharacterTranslation has named it.
Untitled == "untitled"
ASSUME UntitledAssumption == Untitled \notin Names

NotRunning == [pc |-> "exited", public |-> TRUE, todo |-> {}, franchise |-> None,
               slug |-> None, names |-> <<>>, key |-> None, wanted |-> {}]

ImporterType ==
    [pc : {"exited", "pack", "packTranslation", "character", "characterTranslation",
           "collections", "done"},
     public : BOOLEAN, todo : SUBSET Franchises, franchise : Franchises \union {None},
     slug : PackSlugs \union {None}, names : Seq(Names), key : Keys \union {None},
     wanted : SUBSET (Collections \X Slugs)]

CatalogueTypeOK ==
    /\ public \in [PackSlugs -> BOOLEAN \union {None}]
    /\ packName \in [PackSlugs -> Franchises \union {None}]
    /\ charName \in [Keys -> Names \union {Untitled, None}]
    /\ links \in SUBSET (Collections \X Slugs) /\ warned \in SUBSET (Collections \X Slugs)
    /\ clock \in Times /\ runs \in 0 .. MaxRuns
    /\ importer \in ImporterType

CatalogueInit ==
    /\ public = [s \in PackSlugs |-> None] /\ packName = [s \in PackSlugs |-> None]
    /\ charName = [k \in Keys |-> None]
    /\ links = {} /\ warned = {}
    /\ clock = 0 /\ runs = 0 /\ importer = NotRunning

\* slugify: its last resort is fmt.Sprintf("pack_%d", time.Now().Unix()).
Slugify(x) == IF SlugOf[x] = None THEN clock ELSE SlugOf[x]

Wanted == {w \in Collections \X Slugs : w[2] \in PacksOf[w[1]]}

At(pc) == importer.pc = pc

-----------------------------------------------------------------------------
(* The importer's statements, each its own transaction *)

\* The files are read and the names grouped by franchise.
StartImport(isPublic) ==
    /\ importer.pc \in {"exited", "done"} /\ runs < MaxRuns
    /\ runs' = runs + 1
    /\ importer' = [NotRunning EXCEPT !.pc = "pack", !.public = isPublic,
                                      !.todo = Franchises, !.wanted = Wanted]
    /\ UNCHANGED <<catalogue, clock>>

\* An operator named Bug... is a faulty version of the one after it; no action uses
\* it, it stands for a bug the checks must find.
BugFlagKept ==
    /\ At("pack")
    /\ \E f \in importer.todo :
          LET slug == Slugify(f) IN
          /\ public' = [public EXCEPT ![slug] = IF @ = None THEN importer.public ELSE @]
          /\ importer' = [importer EXCEPT !.pc = "packTranslation", !.franchise = f,
                             !.slug = slug, !.names = NamesOf[f], !.todo = @ \ {f}]
    /\ UNCHANGED <<packName, charName, links, warned, clock, runs>>

\* The next franchise, in the order of a Go map: upsertPack.
UpsertPack ==
    /\ At("pack")
    /\ \E f \in importer.todo :
          LET slug == Slugify(f) IN
          /\ public' = [public EXCEPT ![slug] = importer.public]
          /\ importer' = [importer EXCEPT !.pc = "packTranslation", !.franchise = f,
                             !.slug = slug, !.names = NamesOf[f], !.todo = @ \ {f}]
    /\ UNCHANGED <<packName, charName, links, warned, clock, runs>>

UpsertPackTranslation ==
    /\ At("packTranslation")
    /\ packName' = [packName EXCEPT ![importer.slug] = importer.franchise]
    /\ importer' = [importer EXCEPT !.pc = "character"]
    /\ UNCHANGED <<public, charName, links, warned, clock, runs>>

\* ON CONFLICT keeps the row, with its id and its translation.
UpsertCharacter ==
    /\ At("character") /\ importer.names # <<>>
    /\ LET key == <<importer.slug, Slugify(Head(importer.names))>> IN
       /\ charName' = [charName EXCEPT ![key] = IF @ = None THEN Untitled ELSE @]
       /\ importer' = [importer EXCEPT !.pc = "characterTranslation", !.key = key]
    /\ UNCHANGED <<public, packName, links, warned, clock, runs>>

UpsertCharacterTranslation ==
    /\ At("characterTranslation")
    /\ charName' = [charName EXCEPT ![importer.key] = Head(importer.names)]
    /\ importer' = [importer EXCEPT !.pc = "character", !.names = Tail(@)]
    /\ UNCHANGED <<public, packName, links, warned, clock, runs>>

FranchiseDone ==
    /\ At("character") /\ importer.names = <<>>
    /\ importer' = [importer EXCEPT !.pc = IF importer.todo = {} THEN "collections" ELSE "pack"]
    /\ UNCHANGED <<catalogue, clock, runs>>

\* getPackIDBySlug and linkCollectionPack for one pack of one collection.
LinkPack ==
    /\ At("collections")
    /\ \E w \in importer.wanted :
          /\ public[w[2]] # None
          /\ links' = links \union {w}
          /\ importer' = [importer EXCEPT !.wanted = @ \ {w}]
    /\ UNCHANGED <<public, packName, charName, warned, clock, runs>>

\* Any error of the lookup is "pack slug not found": a warning, and on to the next.
SkipPack ==
    /\ At("collections")
    /\ \E w \in importer.wanted :
          /\ warned' = warned \union {w}
          /\ importer' = [importer EXCEPT !.wanted = @ \ {w}]
    /\ UNCHANGED <<public, packName, charName, links, clock, runs>>

Done ==
    /\ At("collections") /\ importer.wanted = {}
    /\ importer' = [importer EXCEPT !.pc = "done"]
    /\ UNCHANGED <<catalogue, clock, runs>>

\* must: a statement failed (its effect is in the tables or not), or the process died.
Exit ==
    /\ importer.pc \notin {"exited", "done"}
    /\ importer' = NotRunning
    /\ UNCHANGED <<catalogue, clock, runs>>

Tick ==
    /\ clock < MaxClock
    /\ clock' = clock + 1
    /\ UNCHANGED <<catalogue, importer, runs>>

ImportStep ==
    \/ UpsertPack \/ UpsertPackTranslation \/ UpsertCharacter \/ UpsertCharacterTranslation
    \/ FranchiseDone \/ LinkPack \/ SkipPack \/ Done

CatalogueNext ==
    \/ \E isPublic \in BOOLEAN : StartImport(isPublic)
    \/ ImportStep \/ Exit \/ Tick

-----------------------------------------------------------------------------
\* The keys the file's names have at every run.
FileKeys ==
    (Slugs \X Slugs) \intersect
        UNION {{<<SlugOf[f], SlugOf[n]>> : n \in ToSet(NamesOf[f])} : f \in Franchises}

\* An import that has printed "done" leaves the catalogue the file describes, wherever
\* earlier runs stopped and whichever names share a slug: each pack and character once,
\* named after one of those that have its slug and with this run's visibility; each pack
\* of a collection linked to it unless a run warned; and nothing else but what was keyed
\* by the time of day (main.go:78-96, :112-125, :197).
ImportIsTheFile ==
    At("done") =>
        /\ \A f \in Franchises : SlugOf[f] # None =>
              /\ public[SlugOf[f]] = importer.public
              /\ packName[SlugOf[f]] # None /\ SlugOf[packName[SlugOf[f]]] = SlugOf[f]
        /\ \A k \in FileKeys : charName[k] \in Names /\ SlugOf[charName[k]] = k[2]
        /\ \A k \in Slugs \X Slugs : charName[k] # None => k \in FileKeys
        /\ Wanted \subseteq links \union warned
=============================================================================
