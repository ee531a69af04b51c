--------------------------- MODULE MCCatalogues ---------------------------
(* Small instances of what is known of authors and of books elsewhere, and *)
(* of how the catalogues are asked.  They share no state; one run checks   *)
(* the parts that concern authors and records, one those that ask.         *)
EXTENDS Naturals, Sequences, FiniteSets, TLC

CONSTANTS Parts, Nil, this, that

VARIABLES part, aliases, aliasFiled, sees, aliasReq, carried, merges,
          filings, shelved, index, spines, matcher, rule, buckets, left,
          edges, united, parent, offered, step, certain, sameAs, item,
          claims, suggested, cluster, named, national, refs, numbers,
          articles, pass, toAsk, answered, found, resolved, card, subjects,
          headings, filled, steps, hasIsbn, hasVolume, fillRow, fillReq,
          fillFiled, credited, fillEdits, walks, listed, ready, lookupCache,
          kept, lookupReq, harder, clock, writes, release, pins, setRow,
          google, mail, sending, health, setCache, said, order, torn, puts,
          restarts,
          store, avail, drawn, loginRow, addr, pinned, sent, loginReq,
          overlap, queue, rows, byIsbn, byWork, ranked, shown, decoding,
          response, refused, page, answer, targetRow, stage, login, key,
          targetEdits

Unused == 0
Threads == {"p1", "p2"}

(* Two that are alike in each part that has them. *)
Pair == {this, that}
Alike == Permutations(Pair)

----------------------------------------------------------------------------
(* Authorship: one request that may merge, one that may undo *)
Spellings == {this, that, "c"}
TwoRequests == {"r1", "r2"}
TwoMembers == {"m1", "m2"}
OneSeesTwo == {("m1" :> Pair) @@ ("m2" :> {})}

Authorship == INSTANCE Authorship WITH Names <- Spellings,
  Members <- TwoMembers, Requests <- TwoRequests, Merging <- {"r1"},
  Undoing <- {"r2"}, Numbers <- {"n1"}, NoRow <- Nil, Shelves <- OneSeesTwo,
  MaxMerges <- 2, MaxFiled <- 1, MaxShelved <- 1, filed <- aliasFiled,
  req <- aliasReq
aliasVars == <<aliases, aliasFiled, sees, aliasReq, carried, merges,
               filings, shelved>>
aliasRests == aliases = Unused /\ aliasFiled = Unused /\ sees = Unused /\
              aliasReq = Unused /\ carried = Unused /\ merges = Unused /\
              filings = Unused /\ shelved = Unused

----------------------------------------------------------------------------
(* Suggestions: J Sa, J O Sa, Ja Sa, Jo Sa, Jo Sa An, Sa, Sa An *)
Written ==
  <<<<<<"j">>, <<"s", "a">>>>,
    <<<<"j">>, <<"o">>, <<"s", "a">>>>,
    <<<<"j", "a">>, <<"s", "a">>>>,
    <<<<"j", "o">>, <<"s", "a">>>>,
    <<<<"j", "o">>, <<"s", "a">>, <<"a", "n">>>>,
    <<<<"s", "a">>>>,
    <<<<"s", "a">>, <<"a", "n">>>>>>
TwoIsnis == {"one", "two"}
TwoPlaces == {1, 7}
SomeBudgets == {0, 3, 100}

Suggestions == INSTANCE Suggestions WITH Names <- Written,
  Isnis <- TwoIsnis, Confirmed <- TwoPlaces, Budgets <- SomeBudgets,
  MaxBucket <- 5, MaxSuggestions <- 2
offerVars == <<index, spines, matcher, rule, buckets, left, edges, united,
               parent, offered>>
offerRests == index = Unused /\ spines = Unused /\ matcher = Unused /\
              rule = Unused /\ buckets = Unused /\ left = Unused /\
              edges = Unused /\ united = Unused /\ parent = Unused /\
              offered = Unused

----------------------------------------------------------------------------
(* Authority *)
OtherNumbers == {"n1", "n2"}

Authority == INSTANCE Authority WITH Numbers <- OtherNumbers
claimVars == <<step, certain, sameAs, item, claims, suggested, cluster,
               named, national, refs, numbers>>
claimRests == step = Unused /\ certain = Unused /\ sameAs = Unused /\
              item = Unused /\ claims = Unused /\ suggested = Unused /\
              cluster = Unused /\ named = Unused /\ national = Unused /\
              refs = Unused /\ numbers = Unused

----------------------------------------------------------------------------
(* WikipediaLinks *)
FourItems == <<"q1", "q2", "q3", "q4">>
Preferred == <<"en", "de">>
Further == <<"es">>

WikipediaLinks == INSTANCE WikipediaLinks WITH Items <- FourItems,
  Prefer <- Preferred, OtherLanguages <- Further, MaxItems <- 3,
  PerRequest <- 2, MaxUnfiltered <- 2, PerUnfilteredRequest <- 1
linkVars == <<articles, pass, toAsk, answered, found, resolved>>
linkRests == articles = Unused /\ pass = Unused /\ toAsk = Unused /\
             answered = Unused /\ found = Unused /\ resolved = Unused

----------------------------------------------------------------------------
(* Records: two subjects a catalogue writes together, two headings, or the *)
(* fields around them; the second label is only ever undeclared            *)
NotSaid == "none"
TwoLabels == {"l1", "l2"}
TwoVocabularies == {"v1", "v2"}
TwoIdentifiers == {"i1", "i2"}
TwoClasses == {"c1", "c2"}
TwoCaptions == {"t1", "t2"}
SaidSubjects ==
  [label : {"l1"}, vocabulary : TwoVocabularies \cup {NotSaid}, identifier : TwoIdentifiers \cup {NotSaid}]
    \cup {[label |-> "l2", vocabulary |-> NotSaid, identifier |-> NotSaid]}
SaidHeadings == [class : TwoClasses, caption : TwoCaptions \cup {NotSaid}]
Plain == [title |-> NotSaid, cover |-> NotSaid, year |-> NotSaid, subjects |-> <<>>, headings |-> <<>>]
UpToTwo(S) == {<<>>} \cup {<<x>> : x \in S} \cup {<<x, y>> : x \in S, y \in S}
SpokenRecords ==
  {[Plain EXCEPT !.subjects = s] : s \in UpToTwo(SaidSubjects)}
    \cup {[Plain EXCEPT !.headings = h] : h \in UpToTwo(SaidHeadings)}
    \cup [title : {NotSaid, "fits", "cut", "long", "number"},
            cover : {NotSaid, "https", "http", "httpFull", "ours", "number"},
            year : {NotSaid, "flag", "outside", "year"}, subjects : {<<>>}, headings : {<<>>}]

Records == INSTANCE Records WITH Labels <- TwoLabels,
  Vocabularies <- TwoVocabularies, Identifiers <- TwoIdentifiers,
  Classes <- TwoClasses, Captions <- TwoCaptions, Spoken <- SpokenRecords,
  MaxSaid <- 3, MaxSteps <- 2
recordVars == <<card, subjects, headings, filled, steps>>
recordRests == card = Unused /\ subjects = Unused /\ headings = Unused /\
               filled = Unused /\ steps = Unused

----------------------------------------------------------------------------
(* Enrichment: one walk through the catalogues beside one other request.   *)
(* The record found is of another volume and silent on two columns         *)
Nothing == "empty"
OneAnswer ==
  {[title |-> Nothing, author |-> "record", language |-> Nothing,
    id |-> "other", cover |-> "remote", asserts |-> TRUE]}

Enrichment == INSTANCE Enrichment WITH Requests <- Pair,
  Answers <- OneAnswer, MaxEdits <- 2, MaxWalks <- 1, row <- fillRow,
  req <- fillReq, filed <- fillFiled, edits <- fillEdits
fillVars == <<hasIsbn, hasVolume, fillRow, fillReq, fillFiled, credited,
              fillEdits, walks>>
fillRests == hasIsbn = Unused /\ hasVolume = Unused /\ fillRow = Unused /\
             fillReq = Unused /\ fillFiled = Unused /\ credited = Unused /\
             fillEdits = Unused /\ walks = Unused

----------------------------------------------------------------------------
(* Lookups: catalogue d collects only the group of ISBN i *)
Catalogues == {"g", "s", "d"}
TwoIsbns == {"i", "j"}
ThePlaces == ("g" :> 1) @@ ("s" :> 2) @@ ("d" :> 3)
TheRemits == ("i" :> Catalogues) @@ ("j" :> {"g", "s"})
TheHouseholds == {Catalogues, {"s"}}

Lookups == INSTANCE Lookups WITH Sources <- Catalogues, Place <- ThePlaces,
  LookupSources <- {"g", "s", "d"}, SearchSources <- {"g", "s"},
  Metered <- {"g"}, NeedsAKey <- {"g"}, SlowSearches <- {"s"},
  Serves <- TheRemits, Isbns <- TwoIsbns, Requests <- Pair,
  Households <- TheHouseholds, AlwaysAsked <- 1, HitTTL <- 1, MissTTL <- 0,
  MaxEntries <- 1, Quarter <- 1, MaxTime <- 1, MaxWrites <- 1,
  cache <- lookupCache, req <- lookupReq
lookupVars == <<listed, ready, lookupCache, kept, lookupReq, harder, clock,
                writes>>
lookupRests == listed = Unused /\ ready = Unused /\ lookupCache = Unused /\
               kept = Unused /\ lookupReq = Unused /\ harder = Unused /\
               clock = Unused /\ writes = Unused

----------------------------------------------------------------------------
(* Settings: two releases, of which the second adds a catalogue in the     *)
(* middle of the order. The rows: none, or one another program wrote, with *)
(* a catalogue twice and an answer that is neither. A page sends what it   *)
(* shows, in part, in another order, of another release, or a catalogue    *)
(* twice                                                                   *)
TheRosters == <<<<"d", "g">>, <<"d", "n", "g">>>>
Says(source, how) == [source |-> source, enabled |-> how]
TheRows == {<<>>, <<Says("n", "off"), Says("g", "odd"), Says("n", "on")>>}
TheLists ==
  {<<Says("d", "off")>>, <<Says("g", "off"), Says("d", "on")>>, <<Says("n", "off"), Says("d", "on")>>,
   <<Says("d", "off"), Says("g", "on"), Says("d", "on")>>}
TheEnvironments == {{}, {"key", "tls"}}

Settings == INSTANCE Settings WITH Rosters <- TheRosters, Google <- "g",
  Environments <- TheEnvironments, Rows <- TheRows, Lists <- TheLists,
  MaxPuts <- 2, MaxRestarts <- 1, MaxFields <- 2, row <- setRow,
  cache <- setCache
setVars == <<release, pins, setRow, google, mail, sending, health, setCache,
             said, order, torn, puts, restarts>>
setRests == release = Unused /\ pins = Unused /\ setRow = Unused /\
            google = Unused /\ mail = Unused /\ sending = Unused /\ health = Unused /\
            setCache = Unused /\ said = Unused /\ order = Unused /\
            torn = Unused /\ puts = Unused /\ restarts = Unused

----------------------------------------------------------------------------
(* Credentials *)
TwoOrigins == {"pub", "home"}
OneServer == {"s1"}

Credentials == INSTANCE Credentials WITH Procs <- Threads, Keys <- Pair,
  Origins <- TwoOrigins, Roster <- "roster", Pub <- "pub",
  Servers <- OneServer, None <- Nil, row <- loginRow, req <- loginReq
loginVars == <<store, avail, drawn, loginRow, addr, pinned, sent, loginReq,
               overlap>>
loginRests == store = Unused /\ avail = Unused /\ drawn = Unused /\
              loginRow = Unused /\ addr = Unused /\ pinned = Unused /\
              sent = Unused /\ loginReq = Unused /\ overlap = Unused

----------------------------------------------------------------------------
(* Matches *)
Rec(source, isbn, title, author, year, language) ==
  [source |-> source, isbn |-> isbn, title |-> title, author |-> author, year |-> year,
   language |-> language]
SomeAnswers ==
  {Rec("open_library", "x", "Zauberberg", Nil, Nil, Nil),
   Rec("open_library", Nil, "Zauberberg", "Mann", 1924, "de"),
   Rec("dnb", "x", "Zauberberg", "Mann", 1924, "de"),
   Rec("dnb", "x", "Zauberberg", "Mann", 1924, "en"),
   Rec("bnf", "y", "Zauberberg", "Mann", 1924, Nil),
   Rec("bnf", "x", "Der Zauberberg", Nil, 1924, Nil),
   Rec("dnb", "y", "Zu Manns Zauberberg", "Rey", 1990, "de"),
   Rec("bnf", "z", Nil, "Mann", 1924, "de")}
Believed == ("open_library" :> 0) @@ ("dnb" :> 3) @@ ("bnf" :> 4)
WordsOf ==
  ("Zauberberg" :> {"zauberberg"}) @@ ("Der Zauberberg" :> {"der", "zauberberg"}) @@
  ("Zu Manns Zauberberg" :> {"zu", "mann", "zauberberg"}) @@ ("Mann" :> {"mann"}) @@
  ("Rey" :> {"rey"})
AskedFor == {"zauberberg", "mann"}

Matches == INSTANCE Matches WITH Pool <- SomeAnswers, MaxMatches <- 4,
  Trust <- Believed, Secondary <- {"bnf"}, Words <- WordsOf,
  Wanted <- AskedFor, Limit <- 3, None <- Nil
matchVars == <<queue, rows, byIsbn, byWork, ranked, shown>>
matchRests == queue = Unused /\ rows = Unused /\ byIsbn = Unused /\
              byWork = Unused /\ ranked = Unused /\ shown = Unused

----------------------------------------------------------------------------
(* Answers *)
Answers == INSTANCE Answers WITH MaxRecords <- 2, MaxFullness <- 1
answerVars == <<decoding, response, refused, page, answer>>
answerRests == decoding = Unused /\ response = Unused /\ refused = Unused /\
               page = Unused /\ answer = Unused

----------------------------------------------------------------------------
(* Targets *)
Targets == INSTANCE Targets WITH MaxEdits <- 2, row <- targetRow,
  edits <- targetEdits
targetVars == <<targetRow, stage, login, key, targetEdits>>
targetRests == targetRow = Unused /\ stage = Unused /\ login = Unused /\
               key = Unused /\ targetEdits = Unused

----------------------------------------------------------------------------
(* One part runs from an initial state of its own; the others rest.        *)
OthersRest(p) ==
  /\ p # "authorship" => aliasRests
  /\ p # "suggestions" => offerRests
  /\ p # "authority" => claimRests
  /\ p # "links" => linkRests
  /\ p # "records" => recordRests
  /\ p # "enrichment" => fillRests
  /\ p # "lookups" => lookupRests
  /\ p # "settings" => setRests
  /\ p # "credentials" => loginRests
  /\ p # "matches" => matchRests
  /\ p # "answers" => answerRests
  /\ p # "targets" => targetRests

Init ==
  /\ part \in Parts
  /\ \/ part = "authorship" /\ Authorship!Init /\ OthersRest(part)
     \/ part = "suggestions" /\ Suggestions!Init /\ OthersRest(part)
     \/ part = "authority" /\ Authority!Init /\ OthersRest(part)
     \/ part = "links" /\ WikipediaLinks!Init /\ OthersRest(part)
     \/ part = "records" /\ Records!Init /\ OthersRest(part)
     \/ part = "enrichment" /\ Enrichment!Init /\ OthersRest(part)
     \/ part = "lookups" /\ Lookups!Init /\ OthersRest(part)
     \/ part = "settings" /\ Settings!Init /\ OthersRest(part)
     \/ part = "credentials" /\ Credentials!Init /\ OthersRest(part)
     \/ part = "matches" /\ Matches!Init /\ OthersRest(part)
     \/ part = "answers" /\ Answers!Init /\ OthersRest(part)
     \/ part = "targets" /\ Targets!Init /\ OthersRest(part)

OthersStay(p) ==
  /\ UNCHANGED part
  /\ p # "authorship" => UNCHANGED aliasVars
  /\ p # "suggestions" => UNCHANGED offerVars
  /\ p # "authority" => UNCHANGED claimVars
  /\ p # "links" => UNCHANGED linkVars
  /\ p # "records" => UNCHANGED recordVars
  /\ p # "enrichment" => UNCHANGED fillVars
  /\ p # "lookups" => UNCHANGED lookupVars
  /\ p # "settings" => UNCHANGED setVars
  /\ p # "credentials" => UNCHANGED loginVars
  /\ p # "matches" => UNCHANGED matchVars
  /\ p # "answers" => UNCHANGED answerVars
  /\ p # "targets" => UNCHANGED targetVars

Next ==
  \/ part = "authorship" /\ Authorship!Next /\ OthersStay(part)
  \/ part = "suggestions" /\ Suggestions!Next /\ OthersStay(part)
  \/ part = "authority" /\ Authority!Next /\ OthersStay(part)
  \/ part = "links" /\ WikipediaLinks!Next /\ OthersStay(part)
  \/ part = "records" /\ Records!Next /\ OthersStay(part)
  \/ part = "enrichment" /\ Enrichment!Next /\ OthersStay(part)
  \/ part = "lookups" /\ Lookups!Next /\ OthersStay(part)
  \/ part = "settings" /\ Settings!Next /\ OthersStay(part)
  \/ part = "credentials" /\ Credentials!Next /\ OthersStay(part)
  \/ part = "matches" /\ Matches!Next /\ OthersStay(part)
  \/ part = "answers" /\ Answers!Next /\ OthersStay(part)
  \/ part = "targets" /\ Targets!Next /\ OthersStay(part)

vars == <<part, aliasVars, offerVars, claimVars, linkVars, recordVars,
          fillVars, lookupVars, setVars, loginVars, matchVars, answerVars,
          targetVars>>

Spec == Init /\ [][Next]_vars

----------------------------------------------------------------------------
ASSUME ConstantsAreFit ==
  /\ Authorship!AuthorshipAssumption /\ WikipediaLinks!ListsAreBounded
  /\ Records!SpokenAreRecords /\ Enrichment!EnrichmentAssumption /\ Lookups!LookupsAssumption /\ Settings!RostersAreOrders
  /\ Credentials!CredentialsAssumption

TypeOK ==
  /\ part = "authorship" => Authorship!TypeOK
  /\ part = "suggestions" => Suggestions!TypeOK
  /\ part = "authority" => Authority!TypeOK
  /\ part = "links" => WikipediaLinks!TypeOK
  /\ part = "records" => Records!TypeOK
  /\ part = "enrichment" => Enrichment!TypeOK
  /\ part = "lookups" => Lookups!TypeOK
  /\ part = "settings" => Settings!TypeOK
  /\ part = "credentials" => Credentials!TypeOK
  /\ part = "matches" => Matches!TypeOK
  /\ part = "answers" => Answers!TypeOK
  /\ part = "targets" => Targets!TypeOK

(* Who wrote what: aliases stay one step deep and numbers are filed under  *)
(* names that were credited (authorship.py); suggestions offer what is     *)
(* alike, and give each reason (authors.py); an authority file is believed *)
(* where it is uncontested (authority.py); a link leads to the first       *)
(* article there is, and a record merged of several says what they say     *)
(* (authority.py, bibliographic.py); the volume a Book is linked to is its *)
(* own, and it is filed under an author who was credited                   *)
(* (routers/books.py, authorship.py).                                      *)
PeopleAreOne ==
  /\ part = "authorship" =>
       /\ Authorship!Flat
       /\ Authorship!FiledUnderACredit
  /\ part = "suggestions" =>
       /\ Suggestions!ExactIsNeverStarved
       /\ Suggestions!OfferedIsAlike
       /\ Suggestions!EveryReasonIsGiven
       /\ Suggestions!DisagreementJoinsNobody
  /\ part = "authority" =>
       /\ Authority!ContestedIsUnsaid
       /\ Authority!NamedBack
       /\ Authority!NothingIsPicked
       /\ Authority!SilenceIsNotAnAnswer
  /\ part = "links" =>
       /\ WikipediaLinks!OutageIsNotAbsence
       /\ WikipediaLinks!PreferredIsLinked
  /\ part = "enrichment" =>
       /\ Enrichment!IdIsOwn
       /\ Enrichment!FiledWasCredited
  /\ part = "records" =>
       /\ Records!FlagIsTrue
       /\ Records!NoCrosswalk
       /\ Records!PlacesAreKept
       /\ Records!NothingIsLost

(* A merge folds all it was asked to, a batch undoes no decision, and a    *)
(* member forgets only what a member sees (authorship.py); a caption given *)
(* stands (bibliographic.py); a fill writes into gaps only, and no         *)
(* enrichment empties a column (routers/books.py).                         *)
DecisionsStay ==
  [][ /\ part = "authorship" =>
           /\ Authorship!MergeFoldsAll
           /\ Authorship!DecisionsStand
           /\ Authorship!ForgetsOnlyWhatIsSeen
      /\ part = "enrichment" =>
           /\ Enrichment!FillFillsGaps
           /\ Enrichment!NothingLost
      /\ part = "records" => Records!CaptionsStand ]_vars

(* What is told of a book is what catalogues told: a miss only when each   *)
(* was asked, a metered one last (catalogue.py); rows of one book, ranked  *)
(* (metadata.py); the record asked for, and no refusal taken for its       *)
(* absence (sru.py, metadata.py).                                          *)
AnswersAreTrue ==
  /\ part = "lookups" =>
       /\ Lookups!CacheIsBounded
       /\ Lookups!OffIsForgotten
       /\ Lookups!EachIsAskedBeforeAMiss
       /\ Lookups!QuotaIsForTheTail
       /\ Lookups!OneAsksHarder
       /\ Lookups!HarderIsGivenBack
  /\ part = "matches" =>
       /\ Matches!TranslationsApart
       /\ Matches!GapsAreFilled
       /\ Matches!TrustedOfTwoIsBelieved
       /\ Matches!NovelLeads
       /\ Matches!WayOut
  /\ part = "answers" =>
       /\ Answers!TheBookAskedFor
       /\ Answers!NoComponentPart
       /\ Answers!PrintBeforeFullness
       /\ Answers!RefusalIsNotAbsence

(* Who is asked, in what order and with which login is what the household  *)
(* and its deployment said last (settings_store.py, sources.py,            *)
(* targets.py); a login goes where it was entered for (credentials.py).    *)
AskedAsConfigured ==
  /\ part = "settings" =>
       /\ Settings!FailureIsOfThese
       /\ Settings!CacheFollowsThePlan
       /\ Settings!SaidStands
       /\ Settings!OrderStands
  /\ part = "credentials" =>
       /\ Credentials!LoginsStayHome
       /\ Credentials!NoStandIn
       /\ Credentials!StoresAgree
  /\ part = "targets" =>
       /\ Targets!NothingRaisesLater
       /\ Targets!ReadyIsAuthenticated
       /\ Targets!StockIsReady
       /\ Targets!WhatIsServedCanBeAsked

(* A lookup that failed is not remembered as a miss, and a hit yields only *)
(* to what began before it (catalogue.py); a setting that the environment  *)
(* pins is not written (settings_store.py); a key is not replaced under a  *)
(* login it sealed (credentials.py).                                       *)
NothingIsOverheard ==
  [][ /\ part = "lookups" =>
           /\ Lookups!FailureIsNoMiss
           /\ Lookups!HitsYieldOnlyToOlder
      /\ part = "settings" => Settings!NothingUnread
      /\ part = "credentials" => Credentials!GenerateStrandsNothing ]_vars
=============================================================================
