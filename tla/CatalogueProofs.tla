-------------------------- MODULE CatalogueProofs --------------------------
(***************************************************************************)
(* Lemmas about the importer's steps, for any file, any names and slugs    *)
(* and any number of runs: the types, and that what a run has passed is in *)
(* the tables.  PackSelectionProofs, where the importer runs beside the    *)
(* requests, states the theorems.                                          *)
(***************************************************************************)
EXTENDS Catalogue, SequenceTheorems, TLAPS

-----------------------------------------------------------------------------
(* What the importer knows and what it has done *)

\* The importer knows the pack and the character it is about.
Filing ==
    /\ importer.pc \in {"packTranslation", "character", "characterTranslation"} =>
          importer.slug \in PackSlugs
    /\ importer.pc = "characterTranslation" => importer.names # <<>>

\* The importer is between upsertPack of a franchise and its last character.
InHand == importer.pc \in {"packTranslation", "character", "characterTranslation"}

\* s is what slugify made of x at some time.
Keyed(x, s) ==
    \/ SlugOf[x] # None /\ s = SlugOf[x]
    \/ SlugOf[x] = None /\ s \in Times

\* The importer's locals belong to its franchise, and the names before the present one
\* are done.
HandKnown ==
    InHand =>
        /\ importer.franchise \in Franchises /\ Keyed(importer.franchise, importer.slug)
        /\ ToSet(importer.names) \subseteq ToSet(NamesOf[importer.franchise])

KeyKnown ==
    At("characterTranslation") =>
        \E s \in PackSlugs :
            importer.key = <<importer.slug, s>> /\ Keyed(Head(importer.names), s)

\* Whatever is in the tables under a slug of the file is named after it.
TrueNames ==
    /\ \A s \in Slugs : packName[s] # None => SlugOf[packName[s]] = s
    /\ \A k \in Slugs \X Slugs :
          /\ charName[k] # None => k \in FileKeys
          /\ charName[k] \in Names => SlugOf[charName[k]] = k[2]

\* This run has upserted the pack, its translation, the character.
PackIn(f) == SlugOf[f] # None => public[SlugOf[f]] = importer.public
TitleIn(f) == SlugOf[f] # None => packName[SlugOf[f]] # None
CharIn(f, n) ==
    SlugOf[f] # None /\ SlugOf[n] # None => charName[<<SlugOf[f], SlugOf[n]>>] \in Names

\* The franchises this run is done with.
Behind == IF InHand THEN Franchises \ (importer.todo \union {importer.franchise})
          ELSE Franchises \ importer.todo

\* What this run is done with is in the tables.
Imported ==
    importer.pc # "exited" =>
        /\ \A f \in Behind :
              PackIn(f) /\ TitleIn(f) /\ \A n \in ToSet(NamesOf[f]) : CharIn(f, n)
        /\ InHand =>
              LET f == importer.franchise IN
              /\ PackIn(f) /\ (~At("packTranslation") => TitleIn(f))
              /\ \A n \in ToSet(NamesOf[f]) \ ToSet(importer.names) : CharIn(f, n)
        /\ importer.pc \in {"collections", "done"} => importer.todo = {}
        /\ Wanted \subseteq links \union warned \union importer.wanted
        /\ At("done") => importer.wanted = {}

ImportInv == HandKnown /\ KeyKnown /\ TrueNames /\ Imported

-----------------------------------------------------------------------------
(* Types *)

\* slugify returns one of the slugs.
LEMMA SlugTyped ==
    ASSUME clock \in Times, NEW x \in Franchises \union Names
    PROVE  Slugify(x) \in PackSlugs
BY SlugOfAssumption DEF Slugify, PackSlugs

\* The importer's next state is one.
LEMMA ImporterTyped ==
    ASSUME NEW i \in ImporterType
    PROVE  /\ \A pc \in {"exited", "pack", "packTranslation", "character",
                         "characterTranslation", "collections", "done"} :
                 [i EXCEPT !.pc = pc] \in ImporterType
           /\ \A b \in BOOLEAN :
                 [NotRunning EXCEPT !.pc = "pack", !.public = b, !.todo = Franchises,
                                    !.wanted = Wanted] \in ImporterType
           /\ \A f \in Franchises, s \in PackSlugs :
                 [i EXCEPT !.pc = "packTranslation", !.franchise = f, !.slug = s,
                           !.names = NamesOf[f], !.todo = @ \ {f}] \in ImporterType
           /\ \A key \in Keys :
                 [i EXCEPT !.pc = "characterTranslation", !.key = key] \in ImporterType
           /\ i.names # <<>> =>
                 [i EXCEPT !.pc = "character", !.names = Tail(@)] \in ImporterType
           /\ \A w \in Collections \X Slugs :
                 [i EXCEPT !.wanted = @ \ {w}] \in ImporterType
<1>1. Wanted \in SUBSET (Collections \X Slugs)
    BY DEF Wanted
<1>2. \A f \in Franchises : NamesOf[f] \in Seq(Names)
    BY NamesOfAssumption
<1>3. i.names # <<>> => Tail(i.names) \in Seq(Names)
    BY DEF ImporterType
<1>4. \A pc \in {"exited", "pack", "packTranslation", "character", "characterTranslation",
                 "collections", "done"} : [i EXCEPT !.pc = pc] \in ImporterType
    BY DEF ImporterType
<1>5. NotRunning \in ImporterType
    BY DEF NotRunning, ImporterType
<1>6. \A b \in BOOLEAN :
          [NotRunning EXCEPT !.pc = "pack", !.public = b, !.todo = Franchises,
                             !.wanted = Wanted] \in ImporterType
    BY <1>1, <1>5 DEF ImporterType
<1>7. \A f \in Franchises, s \in PackSlugs :
          [i EXCEPT !.pc = "packTranslation", !.franchise = f, !.slug = s,
                    !.names = NamesOf[f], !.todo = @ \ {f}] \in ImporterType
    BY <1>2 DEF ImporterType
<1>8. \A key \in Keys : [i EXCEPT !.pc = "characterTranslation", !.key = key] \in ImporterType
    BY DEF ImporterType
<1>9. i.names # <<>> => [i EXCEPT !.pc = "character", !.names = Tail(@)] \in ImporterType
    BY <1>3 DEF ImporterType
<1>10. \A w \in Collections \X Slugs : [i EXCEPT !.wanted = @ \ {w}] \in ImporterType
    BY DEF ImporterType
<1> QED
    BY <1>4, <1>6, <1>7, <1>8, <1>9, <1>10

LEMMA CatalogueStep ==
    ASSUME CatalogueTypeOK, Filing, CatalogueNext
    PROVE  CatalogueTypeOK'
<1>1. /\ importer \in ImporterType /\ clock \in Times /\ runs \in 0 .. MaxRuns
      /\ importer.todo \subseteq Franchises /\ importer.names \in Seq(Names)
      /\ importer.slug \in PackSlugs \union {None} /\ importer.key \in Keys \union {None}
      /\ importer.franchise \in Franchises \union {None}
      /\ importer.wanted \subseteq Collections \X Slugs
    BY DEF CatalogueTypeOK, ImporterType
<1>2. CASE UpsertPack
    <2>1. PICK f \in Franchises :
              /\ public' = [public EXCEPT ![Slugify(f)] = importer.public]
              /\ importer' = [importer EXCEPT !.pc = "packTranslation", !.franchise = f,
                                 !.slug = Slugify(f), !.names = NamesOf[f], !.todo = @ \ {f}]
        BY <1>1, <1>2 DEF UpsertPack
    <2>2. importer' \in ImporterType
        BY <1>1, <2>1, SlugTyped, ImporterTyped
    <2>3. importer.public \in BOOLEAN
        BY <1>1 DEF ImporterType
    <2> QED
        BY <1>2, <2>1, <2>2, <2>3 DEF UpsertPack, CatalogueTypeOK
<1>3. CASE UpsertPackTranslation
    BY <1>1, <1>3, ImporterTyped DEF UpsertPackTranslation, CatalogueTypeOK
<1>4. CASE UpsertCharacter
    <2>1. Head(importer.names) \in Names /\ importer.slug \in PackSlugs
        BY <1>1, <1>4 DEF UpsertCharacter, At, Filing
    <2>2. <<importer.slug, Slugify(Head(importer.names))>> \in Keys
        BY <1>1, <2>1, SlugTyped DEF CatalogueTypeOK, Keys
    <2>3. importer' \in ImporterType
        BY <1>1, <1>4, <2>2, ImporterTyped DEF UpsertCharacter
    <2> QED
        BY <1>1, <1>4, <2>2, <2>3 DEF UpsertCharacter, CatalogueTypeOK
<1>5. CASE UpsertCharacterTranslation
    <2>1. Head(importer.names) \in Names /\ importer.names # <<>>
        BY <1>1, <1>5 DEF UpsertCharacterTranslation, At, Filing
    <2> QED
        BY <1>1, <1>5, <2>1, ImporterTyped DEF UpsertCharacterTranslation, CatalogueTypeOK
<1>6. CASE FranchiseDone \/ Done
    BY <1>1, <1>6, ImporterTyped DEF FranchiseDone, Done, CatalogueTypeOK, catalogue
<1>7. CASE LinkPack \/ SkipPack
    <2>1. PICK w \in Collections \X Slugs : importer' = [importer EXCEPT !.wanted = @ \ {w}]
        BY <1>1, <1>7 DEF LinkPack, SkipPack
    <2>2. importer' \in ImporterType
        BY <1>1, <2>1, ImporterTyped
    <2> QED
        BY <1>1, <1>7, <2>2 DEF LinkPack, SkipPack, CatalogueTypeOK
<1>8. CASE \E isPublic \in BOOLEAN : StartImport(isPublic)
    <2>1. PICK isPublic \in BOOLEAN : StartImport(isPublic)
        BY <1>8
    <2>2. importer' \in ImporterType
        BY <1>1, <2>1, ImporterTyped DEF StartImport
    <2>3. runs' \in 0 .. MaxRuns
        BY <1>1, <2>1, BoundsAssumption DEF StartImport
    <2> QED
        BY <2>1, <2>2, <2>3 DEF StartImport, CatalogueTypeOK, catalogue
<1>9. CASE Exit
    BY <1>1, <1>9 DEF Exit, CatalogueTypeOK, catalogue, NotRunning, ImporterType
<1>10. CASE Tick
    <2>1. clock' \in Times
        BY <1>1, <1>10, BoundsAssumption DEF Tick, Times
    <2> QED
        BY <1>1, <1>10, <2>1 DEF Tick, CatalogueTypeOK, catalogue
<1> QED
    BY <1>2, <1>3, <1>4, <1>5, <1>6, <1>7, <1>8, <1>9, <1>10 DEF CatalogueNext, ImportStep

LEMMA FilingStep ==
    ASSUME CatalogueTypeOK, Filing, CatalogueNext
    PROVE  Filing'
<1>1. importer \in ImporterType /\ clock \in Times /\ importer.todo \subseteq Franchises
    BY DEF CatalogueTypeOK, ImporterType
<1>2. CASE UpsertPack
    <2>1. PICK f \in Franchises :
              importer' = [importer EXCEPT !.pc = "packTranslation", !.franchise = f,
                              !.slug = Slugify(f), !.names = NamesOf[f], !.todo = @ \ {f}]
        BY <1>1, <1>2 DEF UpsertPack
    <2>2. importer'.pc = "packTranslation" /\ importer'.slug = Slugify(f)
        BY <1>1, <2>1 DEF ImporterType
    <2> QED
        BY <1>1, <2>2, SlugTyped DEF Filing
<1>3. CASE UpsertPackTranslation
    BY <1>1, <1>3 DEF UpsertPackTranslation, At, Filing, ImporterType
<1>4. CASE UpsertCharacter
    BY <1>1, <1>4 DEF UpsertCharacter, At, Filing, ImporterType
<1>5. CASE UpsertCharacterTranslation
    BY <1>1, <1>5 DEF UpsertCharacterTranslation, At, Filing, ImporterType
<1>6. CASE FranchiseDone \/ LinkPack \/ SkipPack \/ Done
    <2>1. importer'.pc \in {"pack", "collections", "done"}
        BY <1>1, <1>6 DEF FranchiseDone, LinkPack, SkipPack, Done, At, ImporterType
    <2> QED
        BY <2>1 DEF Filing
<1>7. CASE (\E isPublic \in BOOLEAN : StartImport(isPublic)) \/ Exit
    <2>1. importer'.pc \in {"pack", "exited"}
        <3>1. CASE Exit
            BY <3>1 DEF Exit, NotRunning
        <3>2. ASSUME NEW isPublic \in BOOLEAN, StartImport(isPublic)
              PROVE  importer'.pc = "pack"
            <4>1. importer' = [NotRunning EXCEPT !.pc = "pack", !.public = isPublic,
                                                 !.todo = Franchises, !.wanted = Wanted]
                BY <3>2 DEF StartImport
            <4> QED
                BY <4>1 DEF NotRunning
        <3> QED
            BY <1>7, <3>1, <3>2
    <2> QED
        BY <2>1 DEF Filing
<1>8. CASE Tick
    BY <1>8 DEF Tick, Filing, PackSlugs
<1> QED
    BY <1>2, <1>3, <1>4, <1>5, <1>6, <1>7, <1>8 DEF CatalogueNext, ImportStep

-----------------------------------------------------------------------------
(* The steps *)

\* The names of a file are its first one and the rest.
LEMMA HeadAndRest ==
    ASSUME NEW S, NEW s \in Seq(S), s # <<>>
    PROVE  /\ Head(s) \in S /\ Tail(s) \in Seq(S)
           /\ ToSet(s) = {Head(s)} \union ToSet(Tail(s))
<1>1. /\ Head(s) \in S /\ Tail(s) \in Seq(S)
      /\ Len(Tail(s)) = Len(s) - 1
      /\ \A i \in 1 .. Len(Tail(s)) : Tail(s)[i] = s[i + 1]
    BY HeadTailProperties
<1>2. /\ Len(s) \in Nat /\ DOMAIN s = 1 .. Len(s)
      /\ DOMAIN Tail(s) = 1 .. Len(Tail(s))
    BY <1>1, LenProperties
<1>3. Len(s) > 0 /\ Head(s) = s[1]
    BY <1>2, EmptySeq
<1>4. \A i \in 1 .. Len(s) : i # 1 => s[i] = Tail(s)[i - 1] /\ i - 1 \in 1 .. Len(Tail(s))
    BY <1>1, <1>2
<1>5. \A i \in 1 .. Len(Tail(s)) : Tail(s)[i] = s[i + 1] /\ i + 1 \in 1 .. Len(s)
    BY <1>1, <1>2
<1>6. ToSet(s) \subseteq {Head(s)} \union ToSet(Tail(s))
    BY <1>2, <1>3, <1>4 DEF ToSet
<1>7. Head(s) \in ToSet(s) /\ ToSet(Tail(s)) \subseteq ToSet(s)
    BY <1>2, <1>3, <1>5 DEF ToSet
<1> QED
    BY <1>1, <1>6, <1>7

\* slugify at work.
LEMMA SlugKeyed ==
    ASSUME clock \in Times, NEW x \in Franchises \union Names
    PROVE  Keyed(x, Slugify(x)) /\ Slugify(x) \in PackSlugs
BY SlugTyped DEF Keyed, Slugify

\* An importer that runs has typed locals.
LEMMA Locals ==
    ASSUME CatalogueTypeOK
    PROVE  /\ importer \in ImporterType /\ clock \in Times
           /\ importer.todo \subseteq Franchises /\ importer.names \in Seq(Names)
           /\ importer.public \in BOOLEAN
           /\ importer.wanted \subseteq Collections \X Slugs
           /\ public \in [PackSlugs -> BOOLEAN \union {None}]
           /\ packName \in [PackSlugs -> Franchises \union {None}]
           /\ charName \in [Keys -> Names \union {Untitled, None}]
BY DEF CatalogueTypeOK, ImporterType

LEMMA HandStep ==
    ASSUME CatalogueTypeOK, Filing, HandKnown, KeyKnown, CatalogueNext
    PROVE  HandKnown' /\ KeyKnown'
<1>1. /\ importer \in ImporterType /\ clock \in Times /\ importer.names \in Seq(Names)
    BY Locals
<1>2. CASE UpsertPack
    <2>1. PICK f \in Franchises :
              importer' = [importer EXCEPT !.pc = "packTranslation", !.franchise = f,
                              !.slug = Slugify(f), !.names = NamesOf[f], !.todo = @ \ {f}]
        BY <1>2, Locals DEF UpsertPack
    <2>2. /\ importer'.pc = "packTranslation" /\ importer'.franchise = f
          /\ importer'.slug = Slugify(f) /\ importer'.names = NamesOf[f]
        BY <1>1, <2>1 DEF ImporterType
    <2> QED
        BY <1>1, <2>2, SlugKeyed DEF HandKnown, KeyKnown, InHand, At, Keyed
<1>3. CASE UpsertPackTranslation
    BY <1>1, <1>3 DEF UpsertPackTranslation, HandKnown, KeyKnown, InHand, At, ImporterType, Keyed
<1>4. CASE UpsertCharacter
    <2>1. At("character") /\ importer.names # <<>>
        BY <1>4 DEF UpsertCharacter
    <2> DEFINE s == Slugify(Head(importer.names))
    <2>2. importer' = [importer EXCEPT !.pc = "characterTranslation", !.key = <<importer.slug, s>>]
        BY <1>4 DEF UpsertCharacter
    <2>3. Head(importer.names) \in Names
        BY <1>1, <2>1, HeadAndRest
    <2>4. Keyed(Head(importer.names), s) /\ s \in PackSlugs
        BY <1>1, <2>3, SlugKeyed
    <2> HIDE DEF s
    <2>5. /\ importer'.pc = "characterTranslation" /\ importer'.key = <<importer.slug, s>>
          /\ importer'.slug = importer.slug /\ importer'.names = importer.names
          /\ importer'.franchise = importer.franchise
        BY <1>1, <2>2 DEF ImporterType
    <2> QED
        BY <2>1, <2>4, <2>5 DEF HandKnown, KeyKnown, InHand, At, Keyed
<1>5. CASE UpsertCharacterTranslation
    <2>1. importer.names # <<>>
        BY <1>5 DEF UpsertCharacterTranslation, Filing, At
    <2>2. ToSet(Tail(importer.names)) \subseteq ToSet(importer.names)
        BY <1>1, <2>1, HeadAndRest
    <2>3. /\ importer'.pc = "character" /\ importer'.names = Tail(importer.names)
          /\ importer'.slug = importer.slug /\ importer'.franchise = importer.franchise
        BY <1>1, <1>5 DEF UpsertCharacterTranslation, ImporterType
    <2> QED
        BY <1>5, <2>2, <2>3 DEF UpsertCharacterTranslation, HandKnown, KeyKnown, InHand, At, Keyed
<1>6. CASE FranchiseDone \/ LinkPack \/ SkipPack \/ Done
    <2>1. importer'.pc \in {"pack", "collections", "done"}
        BY <1>1, <1>6 DEF FranchiseDone, LinkPack, SkipPack, Done, At, ImporterType
    <2> QED
        BY <2>1 DEF HandKnown, KeyKnown, InHand, At
<1>7. CASE \E isPublic \in BOOLEAN : StartImport(isPublic)
    <2>1. importer'.pc = "pack"
        BY <1>7 DEF StartImport, NotRunning
    <2> QED
        BY <2>1 DEF HandKnown, KeyKnown, InHand, At
<1>8. CASE Exit
    <2>1. importer'.pc = "exited"
        BY <1>8 DEF Exit, NotRunning
    <2> QED
        BY <2>1 DEF HandKnown, KeyKnown, InHand, At
<1>9. CASE Tick
    BY <1>9 DEF Tick, HandKnown, KeyKnown, InHand, At, Keyed
<1> QED
    BY <1>2, <1>3, <1>4, <1>5, <1>6, <1>7, <1>8, <1>9 DEF CatalogueNext, ImportStep

\* The names of a franchise are names.
LEMMA RangeOfNames ==
    ASSUME NEW f \in Franchises
    PROVE  ToSet(NamesOf[f]) \subseteq Names
<1>1. NamesOf[f] \in Seq(Names)
    BY NamesOfAssumption
<1> QED
    BY <1>1, LenProperties, ElementOfSeq DEF ToSet

\* The pair of slugs of a name of the file is one of the file's keys.
LEMMA KeyOfFile ==
    ASSUME NEW f \in Franchises, NEW n \in ToSet(NamesOf[f]), SlugOf[f] # None, SlugOf[n] # None
    PROVE  <<SlugOf[f], SlugOf[n]>> \in FileKeys /\ SlugOf[f] \in Slugs /\ SlugOf[n] \in Slugs
<1>1. n \in Names
    BY NamesOfAssumption, RangeOfNames
<1>2. SlugOf[f] \in Slugs /\ SlugOf[n] \in Slugs
    BY <1>1, SlugOfAssumption
<1> DEFINE KeysOf(g) == {<<SlugOf[g], SlugOf[m]>> : m \in ToSet(NamesOf[g])}
<1>3. <<SlugOf[f], SlugOf[n]>> \in KeysOf(f)
    OBVIOUS
<1>4. KeysOf(f) \in {KeysOf(g) : g \in Franchises}
    OBVIOUS
<1>5. <<SlugOf[f], SlugOf[n]>> \in UNION {KeysOf(g) : g \in Franchises}
    BY <1>3, <1>4, Zenon
<1> QED
    BY <1>2, <1>5 DEF FileKeys

LEMMA TrueNamesStep ==
    ASSUME CatalogueTypeOK, Filing, HandKnown, KeyKnown, TrueNames, CatalogueNext
    PROVE  TrueNames'
<1>1. CASE UNCHANGED <<packName, charName>>
    BY <1>1 DEF TrueNames
<1>2. CASE UpsertPackTranslation
    <2>1. /\ Keyed(importer.franchise, importer.slug) /\ importer.franchise \in Franchises
          /\ packName' = [packName EXCEPT ![importer.slug] = importer.franchise]
          /\ charName' = charName
        BY <1>2 DEF UpsertPackTranslation, HandKnown, InHand, At
    <2>2. \A s \in Slugs : s = importer.slug => SlugOf[importer.franchise] = s
        BY <2>1, TimesAssumption DEF Keyed
    <2>3. \A s \in Slugs : packName'[s] # None => SlugOf[packName'[s]] = s
        BY <2>1, <2>2, Locals DEF TrueNames, PackSlugs
    <2> QED
        BY <2>1, <2>3 DEF TrueNames
<1>3. CASE UpsertCharacter
    <2> DEFINE n == Head(importer.names)
               key == <<importer.slug, Slugify(n)>>
    <2>1. /\ importer.names # <<>> /\ packName' = packName
          /\ charName' = [charName EXCEPT ![key] = IF @ = None THEN Untitled ELSE @]
          /\ importer.franchise \in Franchises /\ Keyed(importer.franchise, importer.slug)
          /\ ToSet(importer.names) \subseteq ToSet(NamesOf[importer.franchise])
        BY <1>3 DEF UpsertCharacter, HandKnown, InHand, At
    <2>2. n \in Names /\ n \in ToSet(NamesOf[importer.franchise])
        BY <2>1, Locals, HeadAndRest
    <2>3. Keyed(n, Slugify(n))
        BY <2>2, Locals, SlugKeyed
    <2>4. key \in Slugs \X Slugs => key \in FileKeys
        <3>1. SUFFICES ASSUME key \in Slugs \X Slugs
                       PROVE  key = <<SlugOf[importer.franchise], SlugOf[n]>>
                              /\ SlugOf[importer.franchise] # None /\ SlugOf[n] # None
            BY <2>1, <2>2, KeyOfFile
        <3>2. importer.slug \in Slugs /\ Slugify(n) \in Slugs
            BY <3>1
        <3> QED
            BY <2>1, <2>3, <3>2, TimesAssumption DEF Keyed
    <2> HIDE DEF n, key
    <2>5. \A k \in Slugs \X Slugs : k \in Keys
        BY DEF Keys, PackSlugs
    <2>6. \A k \in Slugs \X Slugs :
              charName'[k] = charName[k] \/ (k = key /\ charName'[k] = Untitled)
        BY <2>1, <2>5, Locals
    <2> QED
        BY <2>1, <2>4, <2>6, UntitledAssumption DEF TrueNames
<1>4. CASE UpsertCharacterTranslation
    <2> DEFINE n == Head(importer.names)
    <2>1. PICK s \in PackSlugs : importer.key = <<importer.slug, s>> /\ Keyed(n, s)
        BY <1>4 DEF UpsertCharacterTranslation, KeyKnown
    <2>2. /\ importer.names # <<>> /\ packName' = packName
          /\ charName' = [charName EXCEPT ![importer.key] = n]
          /\ importer.franchise \in Franchises /\ Keyed(importer.franchise, importer.slug)
          /\ ToSet(importer.names) \subseteq ToSet(NamesOf[importer.franchise])
        BY <1>4 DEF UpsertCharacterTranslation, HandKnown, InHand, At, Filing
    <2>3. n \in Names /\ n \in ToSet(NamesOf[importer.franchise])
        BY <2>2, Locals, HeadAndRest
    <2>4. importer.key \in Slugs \X Slugs => importer.key \in FileKeys /\ SlugOf[n] = importer.key[2]
        <3>1. SUFFICES ASSUME importer.key \in Slugs \X Slugs
                       PROVE  /\ importer.key = <<SlugOf[importer.franchise], SlugOf[n]>>
                              /\ SlugOf[importer.franchise] # None /\ SlugOf[n] # None
            BY <2>2, <2>3, KeyOfFile
        <3>2. importer.slug \in Slugs /\ s \in Slugs
            BY <2>1, <3>1
        <3> QED
            BY <2>1, <2>2, <3>2, TimesAssumption DEF Keyed
    <2> HIDE DEF n
    <2>5. \A k \in Slugs \X Slugs : k \in Keys
        BY DEF Keys, PackSlugs
    <2>6. \A k \in Slugs \X Slugs :
              charName'[k] = charName[k] \/ (k = importer.key /\ charName'[k] = n)
        BY <2>2, <2>5, Locals
    <2> QED
        BY <2>2, <2>4, <2>6 DEF TrueNames
<1> QED
    BY <1>1, <1>2, <1>3, <1>4 DEF CatalogueNext, ImportStep, StartImport, UpsertPack,
       FranchiseDone, LinkPack, SkipPack, Done, Exit, Tick, catalogue

\* What a run has passed stays in the tables.
LEMMA KeptByUpserts ==
    ASSUME CatalogueTypeOK, Filing, HandKnown, KeyKnown, ImportStep
    PROVE  /\ importer'.public = importer.public
           /\ \A f \in Franchises : /\ PackIn(f) => PackIn(f)'
                                    /\ TitleIn(f) => TitleIn(f)'
           /\ \A f \in Franchises, n \in Names : CharIn(f, n) => CharIn(f, n)'
<1>1. importer'.public = importer.public
    BY Locals DEF ImportStep, UpsertPack, UpsertPackTranslation, UpsertCharacter,
       UpsertCharacterTranslation, FranchiseDone, LinkPack, SkipPack, Done, ImporterType
<1>2. \A f \in Franchises : PackIn(f) => PackIn(f)'
    <2>1. CASE UpsertPack
        <3>1. PICK g \in Franchises : public' = [public EXCEPT ![Slugify(g)] = importer.public]
            BY <2>1, Locals DEF UpsertPack
        <3>2. \A s \in PackSlugs : public'[s] = public[s] \/ public'[s] = importer.public
            BY <3>1, Locals
        <3>3. \A f \in Franchises : SlugOf[f] # None => SlugOf[f] \in PackSlugs
            BY SlugOfAssumption DEF PackSlugs
        <3> QED
            BY <1>1, <3>2, <3>3 DEF PackIn
    <2>2. CASE public' = public
        BY <1>1, <2>2 DEF PackIn
    <2> QED
        BY <2>1, <2>2 DEF ImportStep, UpsertPackTranslation, UpsertCharacter,
           UpsertCharacterTranslation, FranchiseDone, LinkPack, SkipPack, Done, catalogue
<1>3. \A f \in Franchises : TitleIn(f) => TitleIn(f)'
    <2>1. CASE UpsertPackTranslation
        <3>1. /\ packName' = [packName EXCEPT ![importer.slug] = importer.franchise]
              /\ importer.franchise # None
            BY <2>1, NoneAssumption DEF UpsertPackTranslation, HandKnown, InHand, At
        <3>2. \A s \in PackSlugs : packName[s] # None => packName'[s] # None
            BY <3>1, Locals
        <3>3. \A f \in Franchises : SlugOf[f] # None => SlugOf[f] \in PackSlugs
            BY SlugOfAssumption DEF PackSlugs
        <3> QED
            BY <3>2, <3>3 DEF TitleIn
    <2>2. CASE packName' = packName
        BY <2>2 DEF TitleIn
    <2> QED
        BY <2>1, <2>2 DEF ImportStep, UpsertPack, UpsertCharacter,
           UpsertCharacterTranslation, FranchiseDone, LinkPack, SkipPack, Done, catalogue
<1>4. \A f \in Franchises, n \in Names : CharIn(f, n) => CharIn(f, n)'
    <2>1. \A f \in Franchises, n \in Names :
              SlugOf[f] # None /\ SlugOf[n] # None => <<SlugOf[f], SlugOf[n]>> \in Keys
        BY SlugOfAssumption DEF Keys, PackSlugs
    <2>2. \A k \in Keys : charName[k] \in Names => charName'[k] \in Names
        <3>1. CASE UpsertCharacter
            <4>1. PICK key : charName' = [charName EXCEPT ![key] = IF @ = None THEN Untitled ELSE @]
                BY <3>1 DEF UpsertCharacter
            <4> QED
                BY <4>1, Locals, NoneAssumption
        <3>2. CASE UpsertCharacterTranslation
            <4>1. /\ charName' = [charName EXCEPT ![importer.key] = Head(importer.names)]
                  /\ importer.names # <<>>
                BY <3>2 DEF UpsertCharacterTranslation, Filing, At
            <4>2. Head(importer.names) \in Names
                BY <4>1, Locals, HeadAndRest
            <4> QED
                BY <4>1, <4>2, Locals
        <3>3. CASE charName' = charName
            BY <3>3
        <3> QED
            BY <3>1, <3>2, <3>3 DEF ImportStep, UpsertPack, UpsertPackTranslation,
               FranchiseDone, LinkPack, SkipPack, Done, catalogue
    <2> QED
        BY <2>1, <2>2 DEF CharIn
<1> QED
    BY <1>1, <1>2, <1>3, <1>4

\* The parts of Imported, by name.
Complete(f) == PackIn(f) /\ TitleIn(f) /\ \A n \in ToSet(NamesOf[f]) : CharIn(f, n)
HandIn(f) ==
    /\ PackIn(f) /\ (~At("packTranslation") => TitleIn(f))
    /\ \A n \in ToSet(NamesOf[f]) \ ToSet(importer.names) : CharIn(f, n)

\* The steps that touch the catalogue's packs and characters or move between them.
LEMMA ImportedByUpserts ==
    ASSUME CatalogueTypeOK, Filing, HandKnown, KeyKnown, Imported,
           UpsertPack \/ UpsertPackTranslation \/ UpsertCharacter \/ UpsertCharacterTranslation
    PROVE  Imported'
<1>1. /\ importer \in ImporterType /\ importer.names \in Seq(Names)
      /\ importer.todo \subseteq Franchises
    BY Locals
<1>2. /\ \A f \in Franchises : (PackIn(f) => PackIn(f)') /\ (TitleIn(f) => TitleIn(f)')
      /\ \A f \in Franchises : \A n \in ToSet(NamesOf[f]) : CharIn(f, n) => CharIn(f, n)'
    BY KeptByUpserts, RangeOfNames DEF ImportStep
<1>3. /\ importer.pc # "exited" /\ importer'.pc \notin {"exited", "collections", "done"}
      /\ links' = links /\ warned' = warned /\ importer'.wanted = importer.wanted
      /\ InHand' /\ (InHand \/ At("pack"))
    BY <1>1 DEF UpsertPack, UpsertPackTranslation, UpsertCharacter, UpsertCharacterTranslation,
       InHand, At, ImporterType
<1>4. Wanted \subseteq links' \union warned' \union importer'.wanted
    BY <1>3 DEF Imported
<1>5. \A f \in Behind : Complete(f) /\ Complete(f)'
    <2>1. \A f \in Behind : f \in Franchises /\ Complete(f)
        BY <1>3 DEF Imported, Complete, Behind
    <2> QED
        BY <1>2, <2>1 DEF Complete
<1>6. InHand => importer.franchise \in Franchises /\ HandIn(importer.franchise)
    BY <1>3 DEF Imported, HandIn, HandKnown
<1>7. Behind' = Behind /\ \E f \in Franchises : importer'.franchise = f /\ HandIn(f)'
    <2>1. CASE UpsertPack
        <3>1. PICK f \in importer.todo :
                  /\ public' = [public EXCEPT ![Slugify(f)] = importer.public]
                  /\ importer' = [importer EXCEPT !.pc = "packTranslation", !.franchise = f,
                                     !.slug = Slugify(f), !.names = NamesOf[f], !.todo = @ \ {f}]
                  /\ At("pack")
            BY <2>1 DEF UpsertPack
        <3>2. /\ importer'.franchise = f /\ importer'.names = NamesOf[f] /\ f \in Franchises
              /\ importer'.todo = importer.todo \ {f} /\ importer'.pc = "packTranslation"
              /\ importer'.public = importer.public
            BY <1>1, <3>1 DEF ImporterType
        <3>3. Behind' = Behind
            BY <3>1, <3>2 DEF Behind, InHand, At
        <3>4. PackIn(f)'
            <4>1. SlugOf[f] # None => Slugify(f) = SlugOf[f] /\ SlugOf[f] \in PackSlugs
                BY <3>2, SlugOfAssumption DEF Slugify, PackSlugs
            <4> QED
                BY <3>1, <3>2, <4>1, Locals DEF PackIn
        <3> QED
            BY <3>2, <3>3, <3>4 DEF HandIn, At
    <2>2. CASE UpsertPackTranslation
        <3>1. /\ packName' = [packName EXCEPT ![importer.slug] = importer.franchise]
              /\ At("packTranslation") /\ InHand
            BY <2>2 DEF UpsertPackTranslation, InHand, At
        <3>2. /\ importer'.franchise = importer.franchise /\ importer'.names = importer.names
              /\ importer'.todo = importer.todo /\ importer'.pc = "character"
            BY <1>1, <2>2 DEF UpsertPackTranslation, ImporterType
        <3>f. PICK f \in Franchises : f = importer.franchise
            BY <3>1 DEF HandKnown
        <3>3. TitleIn(f)'
            <4>1. SlugOf[f] # None => importer.slug = SlugOf[f] /\ importer.slug \in PackSlugs
                BY <3>1, <3>f, SlugOfAssumption DEF HandKnown, Keyed, PackSlugs
            <4> QED
                BY <3>1, <3>f, <4>1, Locals, NoneAssumption DEF TitleIn
        <3>4. Behind' = Behind
            BY <3>1, <3>2 DEF Behind, InHand, At
        <3> QED
            BY <1>2, <1>6, <3>1, <3>2, <3>f, <3>3, <3>4 DEF HandIn
    <2>3. CASE UpsertCharacter
        <3>1. /\ importer'.franchise = importer.franchise /\ importer'.names = importer.names
              /\ importer'.todo = importer.todo /\ importer'.pc = "characterTranslation"
              /\ At("character") /\ InHand
            BY <1>1, <2>3 DEF UpsertCharacter, ImporterType, At, InHand
        <3>2. Behind' = Behind
            BY <3>1 DEF Behind, InHand, At
        <3> QED
            BY <1>2, <1>6, <3>1, <3>2 DEF HandIn, At, HandKnown
    <2>4. CASE UpsertCharacterTranslation
        <3>1. /\ importer'.franchise = importer.franchise /\ importer'.names = Tail(importer.names)
              /\ importer'.todo = importer.todo /\ importer'.pc = "character"
              /\ charName' = [charName EXCEPT ![importer.key] = Head(importer.names)]
              /\ At("characterTranslation") /\ InHand /\ importer.names # <<>>
            BY <1>1, <2>4 DEF UpsertCharacterTranslation, ImporterType, At, InHand, Filing
        <3>2. PICK f \in Franchises : f = importer.franchise
            BY <3>1 DEF HandKnown
        <3>3. PICK n \in Names : /\ n = Head(importer.names)
                                 /\ ToSet(importer.names) = {n} \union ToSet(Tail(importer.names))
            BY <1>1, <3>1, HeadAndRest
        <3>4. CharIn(f, n)'
            <4>1. PICK s \in PackSlugs : importer.key = <<importer.slug, s>> /\ Keyed(n, s)
                BY <3>1, <3>3 DEF KeyKnown
            <4>2. Keyed(f, importer.slug)
                BY <3>1, <3>2 DEF HandKnown
            <4>3. SlugOf[f] # None /\ SlugOf[n] # None =>
                      importer.key = <<SlugOf[f], SlugOf[n]>> /\ importer.key \in Keys
                BY <4>1, <4>2, SlugOfAssumption DEF Keyed, Keys, PackSlugs
            <4> QED
                BY <3>1, <3>3, <4>3, Locals DEF CharIn
        <3>5. \A m \in ToSet(NamesOf[f]) \ ToSet(Tail(importer.names)) : CharIn(f, m)'
            BY <1>2, <1>6, <3>1, <3>2, <3>3, <3>4 DEF HandIn
        <3>6. PackIn(f)' /\ TitleIn(f)'
            BY <1>2, <1>6, <3>1, <3>2 DEF HandIn, At
        <3>7. Behind' = Behind
            BY <3>1 DEF Behind, InHand, At
        <3> QED
            BY <3>1, <3>2, <3>5, <3>6, <3>7 DEF HandIn
    <2> QED
        BY <2>1, <2>2, <2>3, <2>4
<1> QED
    BY <1>3, <1>4, <1>5, <1>7 DEF Imported, HandIn, Complete, At

LEMMA ImportedStep ==
    ASSUME CatalogueTypeOK, Filing, HandKnown, KeyKnown, Imported, CatalogueNext
    PROVE  Imported'
<1>1. /\ importer \in ImporterType /\ importer.todo \subseteq Franchises
      /\ importer.wanted \subseteq Collections \X Slugs
    BY Locals
<1>2. CASE UpsertPack \/ UpsertPackTranslation \/ UpsertCharacter \/ UpsertCharacterTranslation
    BY <1>2, ImportedByUpserts
<1>3. CASE FranchiseDone
    <2>1. /\ importer.names = <<>> /\ At("character") /\ InHand
          /\ importer'.todo = importer.todo /\ importer'.wanted = importer.wanted
          /\ importer'.pc = (IF importer.todo = {} THEN "collections" ELSE "pack")
          /\ importer'.public = importer.public
          /\ UNCHANGED catalogue
        BY <1>1, <1>3 DEF FranchiseDone, ImporterType, At, InHand
    <2>2. \A f \in Behind : f \in Franchises /\ Complete(f)
        BY <2>1 DEF Imported, Complete, Behind, InHand, At
    <2>3. ToSet(importer.names) = {}
        BY <2>1 DEF ToSet
    <2>4. importer.franchise \in Franchises /\ Complete(importer.franchise)
        BY <2>1, <2>3 DEF Imported, Complete, HandKnown, InHand, At
    <2>5. Behind' \subseteq Behind \union {importer.franchise}
        BY <2>1 DEF Behind, InHand, At
    <2>6. \A f \in Franchises : Complete(f) => Complete(f)'
        BY <2>1 DEF Complete, PackIn, TitleIn, CharIn, catalogue
    <2>7. \A f \in Behind' : Complete(f)'
        BY <2>2, <2>4, <2>5, <2>6
    <2>8. ~InHand' /\ ~At("done")'
        BY <2>1 DEF InHand, At
    <2>9. Wanted \subseteq links' \union warned' \union importer'.wanted
        BY <2>1 DEF Imported, At, catalogue
    <2> QED
        BY <2>1, <2>7, <2>8, <2>9 DEF Imported, Complete
<1>4. CASE LinkPack \/ SkipPack \/ Done
    <2>1. /\ At("collections") /\ importer'.todo = importer.todo
          /\ importer'.pc \in {"collections", "done"} /\ importer'.public = importer.public
          /\ UNCHANGED <<public, packName, charName>>
        BY <1>1, <1>4 DEF LinkPack, SkipPack, Done, At, ImporterType, catalogue
    <2>2. \A f \in Franchises : Complete(f)
        BY <2>1 DEF Imported, Complete, Behind, InHand, At
    <2>3. \A f \in Franchises : Complete(f)'
        BY <2>1, <2>2 DEF Complete, PackIn, TitleIn, CharIn
    <2>4. Wanted \subseteq links \union warned \union importer.wanted /\ importer.todo = {}
        BY <2>1 DEF Imported, At
    <2>5. Wanted \subseteq links' \union warned' \union importer'.wanted
        BY <1>1, <1>4, <2>4 DEF LinkPack, SkipPack, Done, ImporterType, catalogue
    <2>6. At("done")' => importer'.wanted = {}
        BY <1>1, <1>4, <2>1 DEF LinkPack, SkipPack, Done, At, ImporterType
    <2>7. ~InHand' /\ Behind' \subseteq Franchises
        BY <2>1 DEF InHand, Behind
    <2> QED
        BY <2>1, <2>3, <2>4, <2>5, <2>6, <2>7 DEF Imported, Complete
<1>5. CASE \E isPublic \in BOOLEAN : StartImport(isPublic)
    <2>1. PICK isPublic \in BOOLEAN :
              importer' = [NotRunning EXCEPT !.pc = "pack", !.public = isPublic,
                                             !.todo = Franchises, !.wanted = Wanted]
        BY <1>5 DEF StartImport
    <2>2. importer'.pc = "pack" /\ importer'.todo = Franchises /\ importer'.wanted = Wanted
        BY <2>1 DEF NotRunning
    <2> QED
        BY <2>2 DEF Imported, Behind, InHand, At
<1>6. CASE Exit
    <2>1. importer'.pc = "exited"
        BY <1>6 DEF Exit, NotRunning
    <2> QED
        BY <2>1 DEF Imported
<1>7. CASE Tick
    BY <1>7 DEF Tick, catalogue, Imported, Behind, InHand, At, PackIn, TitleIn, CharIn
<1> QED
    BY <1>2, <1>3, <1>4, <1>5, <1>6, <1>7 DEF CatalogueNext, ImportStep

-----------------------------------------------------------------------------
(* The importer's invariant *)

LEMMA ImportInit ==
    ASSUME CatalogueInit
    PROVE  Filing /\ ImportInv
<1>1. importer.pc = "exited"
    BY DEF CatalogueInit, NotRunning
<1>2. TrueNames
    <2>1. \A k \in Slugs \X Slugs : k \in Keys
        BY DEF Keys, PackSlugs
    <2>2. /\ \A s \in Slugs : packName[s] = None
          /\ \A k \in Slugs \X Slugs : charName[k] = None
        BY <2>1 DEF CatalogueInit, PackSlugs
    <2> QED
        BY <2>2, NoneAssumption DEF TrueNames
<1> QED
    BY <1>1, <1>2 DEF ImportInv, Filing, HandKnown, KeyKnown, Imported, InHand, At

LEMMA ImportInvStep ==
    ASSUME CatalogueTypeOK, Filing, ImportInv, CatalogueNext \/ UNCHANGED imports
    PROVE  ImportInv'
<1>1. CASE CatalogueNext
    BY <1>1, HandStep, TrueNamesStep, ImportedStep DEF ImportInv
<1>2. CASE UNCHANGED imports
    BY <1>2 DEF ImportInv, imports, catalogue, HandKnown, KeyKnown, TrueNames, Imported,
       Behind, InHand, At, PackIn, TitleIn, CharIn, Keyed
<1> QED
    BY <1>1, <1>2

\* A run that has ended has put the file into the tables.
LEMMA ImportedIsTheFile ==
    ASSUME CatalogueTypeOK, ImportInv
    PROVE  ImportIsTheFile
<1>1. SUFFICES ASSUME At("done") PROVE ImportIsTheFile
    BY DEF ImportIsTheFile
<1>2. \A f \in Franchises : Complete(f)
    BY <1>1 DEF ImportInv, Imported, Behind, InHand, At, Complete
<1>3. Wanted \subseteq links \union warned
    BY <1>1 DEF ImportInv, Imported, At
<1>4. \A k \in FileKeys : charName[k] \in Names /\ SlugOf[charName[k]] = k[2]
    <2>1. SUFFICES ASSUME NEW k \in FileKeys
                   PROVE  charName[k] \in Names /\ k \in Slugs \X Slugs
        BY DEF ImportInv, TrueNames
    <2>2. PICK f \in Franchises : \E n \in ToSet(NamesOf[f]) : k = <<SlugOf[f], SlugOf[n]>>
        BY DEF FileKeys
    <2>n. PICK n \in ToSet(NamesOf[f]) : k = <<SlugOf[f], SlugOf[n]>>
        BY <2>2
    <2>3. k \in Slugs \X Slugs
        BY DEF FileKeys
    <2>4. SlugOf[f] # None /\ SlugOf[n] # None
        BY <2>n, <2>3, NoneAssumption DEF PackSlugs
    <2> QED
        BY <1>2, <2>n, <2>3, <2>4 DEF Complete, CharIn
<1> QED
    BY <1>2, <1>3, <1>4, SlugOfAssumption DEF ImportIsTheFile, ImportInv, TrueNames, Complete, PackIn, TitleIn, At

=============================================================================
