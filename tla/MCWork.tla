------------------------------ MODULE MCWork ------------------------------
(* Small instances of the work that must end: walks over the shelf and a   *)
(* feed, transactions that wait for each other, a search through a thread, *)
(* a query served, and senders that fail.  They share no state.            *)
EXTENDS Naturals, Sequences, FiniteSets, TLC

CONSTANTS Parts, Nil, Null, Closing

VARIABLES part, which, route, shelf, cursor, remaining, press, fillDue, fillSeen,
          tried, arisen, engine, table, rows, gone, tx, step, target, at,
          hops, untried, feedSeen, pages, found, truncated, late, next,
          offered, asked, sent, opener, opened, watched, ended, session,
          queue, running, shut, lock, pc, reply, got, assocDue, connection,
          resultset, latched, broken, phase, look, tokens, stack, expects,
          held, clauses, matches, public, moves, request, total, harvest,
          still, on, answer, sendDue, record, run, admin, mishaps, streak,
          unheard

Unused == 0
Threads == {"p1", "p2"}

----------------------------------------------------------------------------
(* Backfill: a batch is one wave of two, so that of the first Book of a    *)
(* batch nothing may be learned and of the second something; the third is  *)
(* in a batch of its own                                                   *)
Backfill == INSTANCE Backfill WITH NumBooks <- 3, MaxBatch <- 2, Wave <- 2,
  MaxArise <- 1, due <- fillDue, seen <- fillSeen
fillVars == <<route, shelf, cursor, remaining, press, fillDue, fillSeen,
              tried, arisen>>
fillRests == route = Unused /\ shelf = Unused /\ cursor = Unused /\
             remaining = Unused /\ press = Unused /\ fillDue = Unused /\
             fillSeen = Unused /\ tried = Unused /\ arisen = Unused

----------------------------------------------------------------------------
(* Ceilings *)
TwoBooks == {"b1", "b2"}
TwoKeys == {"k1", "k2"}

Ceilings == INSTANCE Ceilings WITH Procs <- Threads, Books <- TwoBooks,
  Keys <- TwoKeys, Ceiling <- 1, None <- Nil
rowVars == <<engine, table, rows, gone, tx>>
rowRests == engine = Unused /\ table = Unused /\ rows = Unused /\
            gone = Unused /\ tx = Unused

----------------------------------------------------------------------------
(* FeedWalk *)
FeedPages == {"first", "second", "third", "elsewhere", "file"}
Readable == FeedPages \ {"file"}
Origins == [u \in FeedPages |-> IF u = "elsewhere" THEN "other" ELSE "home"]
Guises ==
  {[outer |-> "private", inner |-> Nil], [outer |-> "linkLocal", inner |-> Nil],
   [outer |-> "public", inner |-> "linkLocal"], [outer |-> "reserved", inner |-> "public"]}

FeedWalk == INSTANCE FeedWalk WITH Urls <- FeedPages, Base <- "first",
  Fetchable <- Readable, Origin <- Origins, Addresses <- Guises,
  MaxPages <- 3, MaxEntries <- 3, MaxRedirects <- 2, PageEntries <- 2,
  None <- Nil, seen <- feedSeen
feedVars == <<step, target, at, hops, untried, feedSeen, pages, found,
              truncated, late, next, offered, asked, sent>>
feedRests == step = Unused /\ target = Unused /\ at = Unused /\
             hops = Unused /\ untried = Unused /\ feedSeen = Unused /\
             pages = Unused /\ found = Unused /\ truncated = Unused /\
             late = Unused /\ next = Unused /\ offered = Unused /\
             asked = Unused /\ sent = Unused

----------------------------------------------------------------------------
(* Z3950 *)
TwoSearches == {"many", "one"}
ItHolds == [a \in TwoSearches |-> IF a = "many" THEN 3 ELSE 1]

Z3950 == INSTANCE Z3950 WITH Askers <- TwoSearches, Hits <- ItHolds,
  Wanted <- 2, None <- Nil, due <- assocDue
assocVars == <<opener, opened, watched, ended, session, queue, running,
               shut, lock, pc, reply, got, assocDue, connection, resultset,
               latched, broken>>
assocRests == opener = Unused /\ opened = Unused /\ watched = Unused /\
              ended = Unused /\ session = Unused /\ queue = Unused /\
              running = Unused /\ shut = Unused /\ lock = Unused /\
              pc = Unused /\ reply = Unused /\ got = Unused /\
              assocDue = Unused /\ connection = Unused /\
              resultset = Unused /\ latched = Unused /\ broken = Unused

----------------------------------------------------------------------------
(* SruServer *)
ThreeBooks == {1, 2, 3}
Texts == ("title" :> <<<<"a">>, <<"b">>, <<"a", "b">>>>) @@
         ("isbn" :> <<Null, <<"a">>, Null>>) @@
         ("description" :> <<Null, <<"b", "a">>, <<"a", "b">>>>)
Indexes == ("" :> [columns |-> {"title", "isbn"}, cost |-> 1]) @@
           ("description" :> [columns |-> {"description"}, cost |-> 3])
Token(kind, text) == [kind |-> kind, text |-> text]
Alphabet ==
  {Token("word", "a"), Token("word", "and"), Token("word", "not"), Token("word", "any"),
   Token("word", "description"), Token("quoted", "a b"),
   Token("open", "("), Token("close", ")")}
Spelled ==
  ("a" :> <<"a">>) @@ ("and" :> <<"and">>) @@ ("not" :> <<"not">>) @@ ("any" :> <<"any">>) @@
  ("description" :> <<"description">>) @@ ("a b" :> <<"a", "b">>)

SruServer == INSTANCE SruServer WITH Books <- ThreeBooks, Column <- Texts,
  Index <- Indexes, Tokens <- Alphabet, Words <- Spelled, MaxTokens <- 5,
  MaxDepth <- 1, MaxClauses <- 3, MaxWords <- 2, Budget <- 6,
  MaxRecords <- 2, MaxMoves <- 1, None <- Nil, End <- Closing
serveVars == <<phase, look, tokens, stack, expects, held, clauses, matches,
               public, moves, request, total, harvest, still>>
serveRests == phase = Unused /\ look = Unused /\ tokens = Unused /\
              stack = Unused /\ expects = Unused /\ held = Unused /\
              clauses = Unused /\ matches = Unused /\ public = Unused /\
              moves = Unused /\ request = Unused /\ total = Unused /\
              harvest = Unused /\ still = Unused

----------------------------------------------------------------------------
(* SenderHealth: two channels, mail first, no mishaps (those are in        *)
(* MCShelves)                                                              *)
TwoChannels == <<"mail", "webhook">>
TheTicker == {"ticker"}
OneAdmin == {"admin"}
TwoOutcomes == {"sent", "unreachable"}

SenderHealth == INSTANCE SenderHealth WITH Channels <- TwoChannels,
  Runners <- TheTicker, Ticker <- "ticker", Admins <- OneAdmin,
  Outcomes <- TwoOutcomes, Window <- 1, MinFailures <- 2, MaxMishaps <- 0,
  due <- sendDue
sendVars == <<on, answer, sendDue, record, run, admin, mishaps, streak,
              unheard>>
sendRests == on = Unused /\ answer = Unused /\ sendDue = Unused /\
             record = Unused /\ run = Unused /\ admin = Unused /\
             mishaps = Unused /\ streak = Unused /\ unheard = Unused

----------------------------------------------------------------------------
(* One part runs from an initial state of its own; the others rest.        *)
OthersRest(p) ==
  /\ p # "backfill" => fillRests
  /\ p # "ceilings" => rowRests
  /\ p # "feed" => feedRests
  /\ p # "z3950" => assocRests
  /\ p # "server" => serveRests
  /\ p # "senders" => sendRests

(* Which of those that wait in a part the liveness property is about: of   *)
(* the Books the last, which every walk comes to last.                     *)
Watched == [backfill |-> {3}, ceilings |-> {1}, feed |-> {1}, z3950 |-> 1 .. 3,
            server |-> {1}, senders |-> {1, 2}]

Init ==
  /\ part \in Parts /\ which \in Watched[part]
  /\ \/ part = "backfill" /\ Backfill!Init /\ OthersRest(part)
     \/ part = "ceilings" /\ Ceilings!Init /\ OthersRest(part)
     \/ part = "feed" /\ FeedWalk!Init /\ OthersRest(part)
     \/ part = "z3950" /\ Z3950!Init /\ OthersRest(part)
     \/ part = "server" /\ SruServer!Init /\ OthersRest(part)
     \/ part = "senders" /\ SenderHealth!Init /\ OthersRest(part)

OthersStay(p) ==
  /\ UNCHANGED <<part, which>>
  /\ p # "backfill" => UNCHANGED fillVars
  /\ p # "ceilings" => UNCHANGED rowVars
  /\ p # "feed" => UNCHANGED feedVars
  /\ p # "z3950" => UNCHANGED assocVars
  /\ p # "server" => UNCHANGED serveVars
  /\ p # "senders" => UNCHANGED sendVars

Next ==
  \/ part = "backfill" /\ Backfill!Next /\ OthersStay(part)
  \/ part = "ceilings" /\ Ceilings!Next /\ OthersStay(part)
  \/ part = "feed" /\ FeedWalk!Next /\ OthersStay(part)
  \/ part = "z3950" /\ Z3950!Next /\ OthersStay(part)
  \/ part = "server" /\ SruServer!Next /\ OthersStay(part)
  \/ part = "senders" /\ SenderHealth!Next /\ OthersStay(part)

vars == <<part, which, fillVars, rowVars, feedVars, assocVars, serveVars,
          sendVars>>

(* The fairness each module states of its own actions.                     *)
Fairness ==
  /\ WF_fillVars(part = "backfill" /\ Backfill!Press)
  /\ WF_fillVars(part = "backfill" /\ Backfill!Page)
  /\ WF_fillVars(part = "backfill" /\ Backfill!LeaveOff)
  /\ WF_fillVars(part = "backfill" /\ Backfill!Commit)
  /\ SF_fillVars(part = "backfill" /\ Backfill!FirstIsAnswered)
  /\ \A p \in Threads : SF_rowVars(part = "ceilings" /\ Ceilings!Advance(p))
  /\ WF_feedVars(part = "feed" /\ FeedWalk!Walk)
  /\ WF_assocVars(part = "z3950" /\ Z3950!Work)
  /\ \A a \in TwoSearches : /\ WF_assocVars(part = "z3950" /\ Z3950!Answer(a))
                            /\ WF_assocVars(part = "z3950" /\ Z3950!Tick(a))
  /\ WF_serveVars(part = "server" /\ SruServer!Serve)
  /\ SF_sendVars(part = "senders" /\ SenderHealth!Deliver("ticker"))
  /\ SF_sendVars(part = "senders" /\ SenderHealth!Begin("ticker"))
  /\ WF_sendVars(part = "senders" /\ SenderHealth!ReadRecord("ticker"))
  /\ WF_sendVars(part = "senders" /\ SenderHealth!WriteRecord("ticker"))
  /\ WF_sendVars(part = "senders" /\ SenderHealth!Tick)
  /\ WF_sendVars(part = "senders" /\ SenderHealth!FallDue)

Spec == Init /\ [][Next]_vars /\ Fairness

----------------------------------------------------------------------------
ASSUME ConstantsAreFit == SenderHealth!HealthAssumption /\ Ceilings!CeilingsAssumption

TypeOK ==
  /\ part = "backfill" => Backfill!TypeOK
  /\ part = "ceilings" => Ceilings!TypeOK
  /\ part = "feed" => FeedWalk!TypeOK
  /\ part = "z3950" => Z3950!TypeOK
  /\ part = "server" => SruServer!TypeOK
  /\ part = "senders" => SenderHealth!TypeOK

(* A walk over the shelf passes no Book that no press has a verdict on     *)
(* (routers/books.py); no Book is past its ceiling of rows and only        *)
(* requests that answer for it deadlock (file_references.py,               *)
(* identifiers.py); a feed is read whole or said not to be, each page      *)
(* once, and from the household's server (opds.py); an answer is of its    *)
(* own search (z3950.py); a query is read as CQL says, finds what its      *)
(* words say and is harvested whole (sru.py).                              *)
WorkIsSound ==
  /\ part = "backfill" => Backfill!WalkMissesNothing
  /\ part = "ceilings" =>
       /\ Ceilings!CeilingHolds
       /\ Ceilings!OnlyTheAnsweredDeadlock
  /\ part = "feed" =>
       /\ FeedWalk!TruncationIsTold
       /\ FeedWalk!PagesReadOnce
       /\ FeedWalk!WalkStaysHome
  /\ part = "z3950" => Z3950!AnswersAreOwn
  /\ part = "server" =>
       /\ SruServer!ReadsAsWritten
       /\ SruServer!EmptyIsNotUnknown
       /\ SruServer!HarvestIsWhole

(* A connection is freed beneath no call (z3950.py); no query is run that  *)
(* compares more than its budget buys (sru.py).                            *)
StepsAreSound ==
  [][ /\ part = "z3950" => Z3950!FreedBeneathNobody
      /\ part = "server" => SruServer!WithinBudget ]_vars

(* What waits, the one of its part that `which` names, as an initial state *)
(* settles: a Book to be tried, a transaction (they are alike: the first), *)
(* a feed, an association that ended and two that search it, a harvest, a  *)
(* channel that stays on and never delivers. And that it waits no longer.  *)
Waits ==
  \/ part = "backfill" /\ shelf[which] = "candidate" /\ which \notin tried
  \/ part = "ceilings" /\ tx["p1"].kind # "idle"
  \/ part = "feed" /\ step = "turn"
  \/ part = "z3950" /\ IF which = 3 THEN ended ELSE pc[<<"many", "one">>[which]] = "waiting"
  \/ part = "server" /\ phase = "count"
  \/ part = "senders" /\ TwoChannels[which] \in on /\ answer[TwoChannels[which]] # "sent"

WaitsNoLonger ==
  \/ part = "backfill" /\ (shelf[which] # "candidate" \/ which \in tried)
  \/ part = "ceilings" /\ tx["p1"].kind = "idle"
  \/ part = "feed" /\ step \in FeedWalk!Over
  \/ part = "z3950" /\ IF which = 3
                        THEN connection # "live" /\ shut /\ queue = <<>> /\ running = {}
                        ELSE pc[<<"many", "one">>[which]] \in Z3950!Over
  \/ part = "server" /\ phase = "done"
  \/ part = "senders" /\ LET s == TwoChannels[which] IN
       SenderHealth!IsBroken(record[s]) \/ s \notin on \/ answer[s] = "sent"

(* Work ends and nothing waits for ever: EveryoneIsTried                   *)
(* (routers/books.py), TransactionsEnd, WalkEnds (opds.py),                *)
(* EndedIsReleased and SearchesEnd (z3950.py), HarvestEnds (sru.py) and    *)
(* BrokenIsReported (notifications.py), as one formula.                    *)
WorkEnds == Waits ~> WaitsNoLonger
=============================================================================
