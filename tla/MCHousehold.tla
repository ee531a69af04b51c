--------------------------- MODULE MCHousehold ----------------------------
(* Small instances of what stands between the household and its library:   *)
(* accounts, membership, rate limits, the directory, archives and lists.   *)
(* They share no state and are checked side by side.                       *)
EXTENDS Naturals, Sequences, FiniteSets, TLC

CONSTANTS Parts, Quiet, Missing, Nil, this, that

VARIABLES part, tick, user, resets, sessions, open, accountReq, ended,
          memberUsers, memberConfig, memberReq, told, grouped,
          memberRestarts, overlap, hits, admitted, wait, dir, signUsers,
          signConfig, login, token, cookie, header, served, seen, spoken,
          moves, signRestarts, books, loans, files, unsettled, epoch, era,
          tokens, who, backup, archiveArchive, restore, declined, logins,
          whole, place, title,
          published, walk

Unused == 0
Threads == {"p1", "p2"}

(* Two that are alike in each part that has them. *)
Pair == {this, that}
Alike == Permutations(Pair)

----------------------------------------------------------------------------
(* Accounts: two threads, of which one may end sessions *)
Accounts == INSTANCE Accounts WITH Procs <- Threads, Enders <- {"p1"},
  MaxTick <- 3, MaxRow <- 2, req <- accountReq
accountVars == <<tick, user, resets, sessions, open, accountReq, ended>>
accountRests == tick = Unused /\ user = Unused /\ resets = Unused /\
                sessions = Unused /\ open = Unused /\ accountReq = Unused /\
                ended = Unused

----------------------------------------------------------------------------
(* Membership *)
Membership == INSTANCE Membership WITH Procs <- Pair, MaxName <- 2,
  MaxId <- 2, MaxRestarts <- 1, users <- memberUsers,
  config <- memberConfig, req <- memberReq, restarts <- memberRestarts
memberVars == <<memberUsers, memberConfig, memberReq, told, grouped,
                memberRestarts, overlap>>
memberRests == memberUsers = Unused /\ memberConfig = Unused /\
               memberReq = Unused /\ told = Unused /\ grouped = Unused /\
               memberRestarts = Unused /\ overlap = Unused

----------------------------------------------------------------------------
(* RateLimit *)
LimitedKeys == {"k1", "k2", "k3"}

RateLimit == INSTANCE RateLimit WITH Keys <- LimitedKeys, MaxAttempts <- 2,
  Seconds <- 2, PerSecond <- 2, MaxKeys <- 2
limitVars == <<hits, admitted, wait>>
limitRests == hits = Unused /\ admitted = Unused /\ wait = Unused

----------------------------------------------------------------------------
(* SignIn *)
(* An entry renamed, as another member or to a name too long to keep, or   *)
(* given another password.                                                 *)
DirectoryTurns ==
  { [name |-> "bob", password |-> "pa", admin |-> FALSE, mail |-> "good"],
    [name |-> "toolong", password |-> "pa", admin |-> TRUE, mail |-> "good"],
    [name |-> "ann", password |-> "pb", admin |-> TRUE, mail |-> "bad"] }

SignIn == INSTANCE SignIn WITH Entries <- Pair, Turns <- DirectoryTurns,
  MaxMoves <- 1, MaxRestarts <- 1, users <- signUsers, config <- signConfig,
  restarts <- signRestarts
signVars == <<dir, signUsers, signConfig, login, token, cookie, header,
              served, seen, spoken, moves, signRestarts>>
signRests == dir = Unused /\ signUsers = Unused /\ signConfig = Unused /\
             login = Unused /\ token = Unused /\ cookie = Unused /\
             header = Unused /\ served = Unused /\ seen = Unused /\
             spoken = Unused /\ moves = Unused /\ signRestarts = Unused

----------------------------------------------------------------------------
(* Archive: members write nothing while a backup or a restore runs, if     *)
(* Quiet                                                                   *)
Archive == INSTANCE Archive WITH Ids <- Pair, Sources <- {"server", "catalogue"}, MaxWho <- 2, MaxEra <- 2,
  Absent <- Missing, None <- Nil, archive <- archiveArchive
archiveVars == <<books, loans, logins, files, unsettled, epoch, era, tokens,
                 who, backup, archiveArchive, restore, declined, whole>>
archiveRests == books = Unused /\ loans = Unused /\ files = Unused /\
                unsettled = Unused /\ epoch = Unused /\ era = Unused /\
                tokens = Unused /\ who = Unused /\ backup = Unused /\
                archiveArchive = Unused /\ restore = Unused /\
                declined = Unused /\ logins = Unused /\
                whole = Unused

----------------------------------------------------------------------------
(* ShelfWalks *)
Owners == [b \in 1..3 |-> IF b = 2 THEN "m2" ELSE "m1"]
Headings == [b \in 1..3 |-> CASE b = 1 -> {"823", "827"} [] b = 2 -> {"823", "510"} [] OTHER -> {}]
Said == [b \in 1..3 |-> CASE b = 1 -> "unread" [] b = 2 -> "reading" [] OTHER -> Nil]
Divisions == ("823" :> 82) @@ ("827" :> 82) @@ ("510" :> 51)
Readers == {"m1", "m2"}
TitleKeys == {1, 2}

ShelfWalks == INSTANCE ShelfWalks WITH MaxId <- 3, Members <- Readers,
  Owner <- Owners, Titles <- TitleKeys, Heads <- Headings,
  Division <- Divisions, Status <- Said, PageSize <- 2, Public <- "public",
  None <- Nil
walkVars == <<place, title, published, walk>>
walkRests == place = Unused /\ title = Unused /\ published = Unused /\
             walk = Unused

----------------------------------------------------------------------------
(* One part runs from an initial state of its own; the others rest.        *)
OthersRest(p) ==
  /\ p # "accounts" => accountRests
  /\ p # "membership" => memberRests
  /\ p # "limits" => limitRests
  /\ p # "signIn" => signRests
  /\ p # "archive" => archiveRests
  /\ p # "walks" => walkRests

Init ==
  /\ part \in Parts
  /\ \/ part = "accounts" /\ Accounts!Init /\ OthersRest(part)
     \/ part = "membership" /\ Membership!Init /\ OthersRest(part)
     \/ part = "limits" /\ RateLimit!Init /\ OthersRest(part)
     \/ part = "signIn" /\ SignIn!Init /\ OthersRest(part)
     \/ part = "archive" /\ Archive!Init /\ OthersRest(part)
     \/ part = "walks" /\ ShelfWalks!Init /\ OthersRest(part)

OthersStay(p) ==
  /\ UNCHANGED part
  /\ p # "accounts" => UNCHANGED accountVars
  /\ p # "membership" => UNCHANGED memberVars
  /\ p # "limits" => UNCHANGED limitVars
  /\ p # "signIn" => UNCHANGED signVars
  /\ p # "archive" => UNCHANGED archiveVars
  /\ p # "walks" => UNCHANGED walkVars

Next ==
  \/ part = "accounts" /\ Accounts!Next /\ OthersStay(part)
  \/ part = "membership" /\ Membership!Next /\ OthersStay(part)
  \/ part = "limits" /\ RateLimit!Next /\ OthersStay(part)
  \/ part = "signIn" /\ SignIn!Next /\ OthersStay(part)
  \/ part = "archive" /\ Archive!Next /\ OthersStay(part)
  \/ part = "walks" /\ ShelfWalks!Next /\ OthersStay(part)

vars == <<part, accountVars, memberVars, limitVars, signVars, archiveVars,
          walkVars>>

Spec == Init /\ [][Next]_vars

----------------------------------------------------------------------------
ASSUME ConstantsAreFit ==
  /\ Accounts!AccountsAssumption /\ Membership!MembershipAssumption
  /\ RateLimit!RateLimitAssumption /\ SignIn!TurnsAreEntries

TypeOK ==
  /\ part = "accounts" => Accounts!TypeOK
  /\ part = "membership" => Membership!TypeOK
  /\ part = "limits" => RateLimit!TypeOK
  /\ part = "signIn" => SignIn!TypeOK
  /\ part = "archive" => Archive!TypeOK
  /\ part = "walks" => ShelfWalks!TypeOK

(* Who is let in, as what, and with what said where: one live request for  *)
(* a reset, completed only once approved, and a session that was ended     *)
(* stays ended (accounts.py); somebody administers, and only who           *)
(* registered first or was told so (auth.py, routers/auth.py); a password  *)
(* is said to the directory alone, and a page is served to whom the proxy  *)
(* vouched for (auth_backends.py, auth.py).                                *)
EntryIsEarned ==
  /\ part = "accounts" =>
       /\ Accounts!OneLiveRequest
       /\ Accounts!CompletedWereApproved
       /\ Accounts!EndedStaysEnded
  /\ part = "membership" =>
       /\ Membership!TestAccountsAreTargets
       /\ Membership!SomebodyAdministers
       /\ Membership!OwnedIsAsserted
  /\ part = "signIn" =>
       /\ SignIn!NothingInTheClear
       /\ SignIn!ServedAsVouched

(* No window of the clock admits more than the limit, a key that waited as *)
(* long as told is not refused for its own attempts, and a new key is      *)
(* turned away only by a table whose records are all live (ratelimit.py).  *)
LimitsHold ==
  /\ part = "limits" =>
       /\ RateLimit!HoldsOverAnyWindow
       /\ RateLimit!WaitedIsNotOver
       /\ RateLimit!DeadRecordsMakeRoom

(* A restored library is the archived one and nobody is signed in to it    *)
(* who was not (backup.py); a list, a file and the counts beside them hold *)
(* what the reader may see, all of it and once (shelf.py,                  *)
(* routers/public.py).                                                     *)
WhatLeavesIsWhole ==
  /\ part = "archive" =>
       /\ Archive!RestoredIsArchived
       /\ Archive!SessionsEndWithTheirUsers
  /\ part = "walks" =>
       /\ ShelfWalks!FileIsWhole
       /\ ShelfWalks!ListIsWhole
       /\ ShelfWalks!FacetsAgree

(* A sign-in is handed to the account of the entry that signed in, however *)
(* the directory changes between the search and the bind                   *)
(* (auth_backends.py).                                                     *)
StepsKeepToTheirOwn == [][part = "signIn" => SignIn!HandedToItsOwn]_vars
=============================================================================
