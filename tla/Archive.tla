------------------------------ MODULE Archive ------------------------------
(***************************************************************************)
(* A backup of the library and its restore.                                *)
(*                                                                         *)
(* A backup reads one table after another, parents before children, then   *)
(* the cover files.  A restore replaces every row in one transaction that  *)
(* ends with a fresh token epoch, and then, each on its own, confirms the  *)
(* accounts of an archive that knew of no confirmation, empties the cover  *)
(* directory and writes the archive's covers.  The process may die between *)
(* any two of these.                                                       *)
(*                                                                         *)
(* Two tables stand for all: books, which other rows name, and loans,      *)
(* which name a Book.  An id is issued again after a restore, so a Book is *)
(* known by `who` it is.  A session carries the epoch it was minted under; *)
(* one, of any time, stands for all, for they never meet.  `era` counts    *)
(* the tables of users there have been.  Decoding the file and its limits, *)
(* and the repair of seeded tags, are left out.                            *)
(***************************************************************************)
EXTENDS Naturals, FiniteSets

CONSTANTS
  Ids,          \* ids of books
  Sources,      \* what a login may be for: "server", or a catalogue
  MaxWho,       \* bound on the Books there have been
  MaxEra,       \* bound on the restores
  Quiet,        \* whether members write nothing while a backup or a restore runs
  Absent, None

VARIABLES
  books,    \* [Ids -> Absent, or who the Book is and whether it names a cover]
  loans,    \* the ids of Books with a loan
  logins,   \* the logins kept: for a catalogue, for a server of the household
  files,    \* [Ids -> None, or whose cover the file of that id shows]
  unsettled, \* whether accounts came back without a word on confirmation
  epoch, era, tokens,
  who,      \* the Books there have been
  backup,   \* the backup being built
  archive,  \* the archive kept, or None
  restore,  \* the restore under way
  declined, \* the covers the last restore named in its log, not in the library,
            \* until something is written after it
  whole     \* "no" after a restore that did not run to its end, "as archived"
            \* until something is written after one that did, else "lived in"

library == <<books, loans, logins, files>>
vars == <<library, unsettled, epoch, era, tokens, who, backup, archive, restore,
          declined, whole>>

Library == [books |-> books, loans |-> loans, logins |-> logins, files |-> files]

NoBackup == [step |-> "idle", books |-> None, loans |-> None, logins |-> {},
             listed |-> None, of |-> None]
NoRestore == [step |-> "idle", todo |-> {}]

Present == {i \in Ids : books[i] # Absent}
Working == backup # NoBackup \/ restore # NoRestore
Lived == /\ whole' = IF whole = "no" THEN "no" ELSE "lived in"
         /\ declined' = {}

----------------------------------------------------------------------------
(* The members' writes, each a transaction, while the library is in use.   *)

Member == Quiet => ~ Working

AddBook(i) ==
  /\ Member /\ books[i] = Absent /\ who < MaxWho
  /\ books' = [books EXCEPT ![i] = [who |-> who + 1, cover |-> FALSE]]
  /\ who' = who + 1
  /\ Lived
  /\ UNCHANGED <<loans, logins, files, unsettled, epoch, era, tokens, backup, archive,
                 restore>>

Lend(i) ==
  /\ Member /\ i \in Present \ loans
  /\ loans' = loans \cup {i}
  /\ Lived
  /\ UNCHANGED <<books, logins, files, unsettled, epoch, era, tokens, who, backup,
                 archive, restore>>

(* To begin with every login has been entered; after a restore some must   *)
(* be again.                                                               *)
EnterLogin(source) ==
  /\ Member /\ source \notin logins
  /\ logins' = logins \cup {source}
  /\ Lived
  /\ UNCHANGED <<books, loans, files, unsettled, epoch, era, tokens, who, backup,
                 archive, restore>>

Cover(i) ==
  /\ Member /\ i \in Present /\ ~ books[i].cover
  /\ books' = [books EXCEPT ![i].cover = TRUE]
  /\ files' = [files EXCEPT ![i] = books[i].who]
  /\ Lived
  /\ UNCHANGED <<loans, logins, unsettled, epoch, era, tokens, who, backup, archive,
                 restore>>

Purge(i) ==
  /\ Member /\ i \in Present
  /\ books' = [books EXCEPT ![i] = Absent] /\ loans' = loans \ {i}
  /\ files' = [files EXCEPT ![i] = None]
  /\ Lived
  /\ UNCHANGED <<logins, unsettled, epoch, era, tokens, who, backup, archive, restore>>

----------------------------------------------------------------------------
(* build_archive.  `of` is the library it is a backup of; one that a       *)
(* restore left half done is restored again before it is backed up.        *)

StartBackup ==
  /\ backup = NoBackup /\ Member /\ (Quiet => whole # "no")
  /\ backup' = [NoBackup EXCEPT !.step = "books", !.books = books, !.of = Library]
  /\ UNCHANGED <<library, unsettled, epoch, era, tokens, who, archive, restore,
                 declined, whole>>

(* Later SELECTs, which see what was committed since. *)
ReadLoans ==
  /\ backup.step = "books"
  /\ backup' = [backup EXCEPT !.step = "loans", !.loans = loans,
                               !.logins = logins]
  /\ UNCHANGED <<library, unsettled, epoch, era, tokens, who, archive, restore,
                 declined, whole>>

ListCovers ==
  /\ backup.step = "loans"
  /\ backup' = [backup EXCEPT !.step = "covers", !.listed = {i \in Ids : files[i] # None}]
  /\ UNCHANGED <<library, unsettled, epoch, era, tokens, who, archive, restore,
                 declined, whole>>

(* A listed file that is gone ends the request with an error. *)
FinishBackup ==
  /\ backup.step = "covers"
  /\ archive' = IF \E i \in backup.listed : files[i] = None THEN archive
                ELSE [books |-> backup.books, loans |-> backup.loans,
                      logins |-> backup.logins, epoch |-> epoch, old |-> FALSE,
                      files |-> [i \in Ids |-> IF i \in backup.listed THEN files[i] ELSE None],
                      of |-> backup.of]
  /\ backup' = NoBackup
  /\ UNCHANGED <<library, unsettled, epoch, era, tokens, who, restore, declined, whole>>

(* An archive of an older version says nothing of confirmation. *)
IsOld ==
  /\ archive # None /\ ~ archive.old /\ restore = NoRestore
  /\ archive' = [archive EXCEPT !.old = TRUE]
  /\ UNCHANGED <<library, unsettled, epoch, era, tokens, who, backup, restore, declined, whole>>

----------------------------------------------------------------------------
(* restore *)

(* Every loan names a Book of the archive. *)
Restorable(a) == \A i \in a.loans : a.books[i] # Absent

(* bump_token_epoch: a value never used before. *)
NewEpoch == era + 1

(* _without_household_logins: a login is not put back beside an address    *)
(* that the archive names.                                                 *)
WithoutHouseholdLogins(kept) == kept \ {"server"}

(* The rows and the epoch, in one commit; a foreign key refuses the whole. *)
ReplaceRows ==
  /\ restore = NoRestore /\ archive # None /\ era < MaxEra /\ Member
  /\ Restorable(archive)
  /\ books' = archive.books /\ loans' = archive.loans
  /\ logins' = WithoutHouseholdLogins(archive.logins)
  /\ unsettled' = archive.old
  /\ era' = era + 1 /\ epoch' = NewEpoch
  /\ restore' = [step |-> "committed", todo |-> {}]
  /\ declined' = {} /\ whole' = "no"
  /\ UNCHANGED <<files, tokens, who, backup, archive>>

(* _settle_restored_accounts, in a commit of its own. *)
Settle ==
  /\ restore.step = "committed"
  /\ unsettled' = FALSE
  /\ restore' = [restore EXCEPT !.step = "settled"]
  /\ UNCHANGED <<library, epoch, era, tokens, who, backup, archive,
                 declined, whole>>

ClearCovers ==
  /\ restore.step = "settled"
  /\ files' = [i \in Ids |-> None]
  /\ restore' = [step |-> "covers", todo |-> {i \in Ids : archive.files[i] # None}]
  /\ UNCHANGED <<books, loans, logins, unsettled, epoch, era, tokens, who, backup, archive,
                 declined, whole>>

RestoreCover(i) ==
  /\ restore.step = "covers" /\ i \in restore.todo
  /\ files' = [files EXCEPT ![i] = archive.files[i]]
  /\ restore' = [restore EXCEPT !.todo = @ \ {i}]
  /\ UNCHANGED <<books, loans, logins, unsettled, epoch, era, tokens, who, backup, archive,
                 declined, whole>>

(* An entry that cannot be read, or a file that cannot be written, is      *)
(* declined: the Book comes back without its cover, and the log says so.   *)
DeclineCover(i) ==
  /\ restore.step = "covers" /\ i \in restore.todo
  /\ declined' = declined \cup {i}
  /\ restore' = [restore EXCEPT !.todo = @ \ {i}]
  /\ UNCHANGED <<library, unsettled, epoch, era, tokens, who, backup, archive, whole>>

FinishRestore ==
  /\ restore.step = "covers" /\ restore.todo = {}
  /\ restore' = NoRestore
  /\ whole' = "as archived"
  /\ UNCHANGED <<library, unsettled, epoch, era, tokens, who, backup, archive, declined>>

----------------------------------------------------------------------------
(* Sessions, and the process *)

(* A sign-in; create_access_token puts the epoch in force into the token. *)
SignIn ==
  /\ restore = NoRestore /\ tokens = {}
  /\ tokens' = {[epoch |-> epoch, era |-> era]}
  /\ UNCHANGED <<library, unsettled, epoch, era, who, backup, archive, restore,
                 declined, whole>>

(* _user_from_token *)
Accepted(t) == t.epoch = epoch

(* The process dies and is started again: what was under way is gone. *)
Crash ==
  /\ Working
  /\ backup' = NoBackup /\ restore' = NoRestore
  /\ UNCHANGED <<library, unsettled, epoch, era, tokens, who, archive, declined, whole>>

----------------------------------------------------------------------------
Init ==
  /\ books = [i \in Ids |-> Absent] /\ loans = {} /\ files = [i \in Ids |-> None]
  /\ logins = Sources
  /\ unsettled = FALSE /\ epoch = 0 /\ era = 0 /\ tokens = {} /\ who = 0
  /\ backup = NoBackup /\ archive = None /\ restore = NoRestore /\ declined = {}
  /\ whole = "lived in"

Next ==
  \/ \E i \in Ids : \/ AddBook(i) \/ Lend(i) \/ Cover(i) \/ Purge(i)
                    \/ RestoreCover(i) \/ DeclineCover(i)
  \/ \E source \in Sources : EnterLogin(source)
  \/ StartBackup \/ ReadLoans \/ ListCovers \/ FinishBackup \/ IsOld
  \/ ReplaceRows \/ Settle \/ ClearCovers \/ FinishRestore
  \/ SignIn \/ Crash

Spec == Init /\ [][Next]_vars

----------------------------------------------------------------------------
(* Properties *)

TypeOK ==
  /\ \A i \in Present : books[i].who \in 1..who /\ books[i].cover \in BOOLEAN
  /\ loans \subseteq Present /\ logins \subseteq Sources
  /\ \A i \in Ids : files[i] \in 1..who \cup {None}
  /\ {epoch, era} \subseteq 0..MaxEra /\ who \in 0..MaxWho
  /\ restore.todo \subseteq Ids /\ (Quiet /\ archive # None => Restorable(archive))

(* A restored library is the one that was backed up: rows and covers, with *)
(* its accounts confirmed, whatever was written since under ids issued     *)
(* again, and whatever restores died half way before the one that ran to   *)
(* its end.  It lacks the household's logins and the covers the log names, *)
(* and shows no other in their place.                                      *)
RestoredIsArchived ==
  whole = "as archived" =>
    /\ books = archive.of.books /\ loans = archive.of.loans /\ ~ unsettled
    /\ logins = archive.of.logins \ {"server"}
    /\ \A i \in Ids : files[i] = IF i \in declined THEN None ELSE archive.of.files[i]

(* A session names a row of users by its id, and ends with that table.     *)
SessionsEndWithTheirUsers == \A t \in tokens : Accepted(t) => t.era = era
=============================================================================
