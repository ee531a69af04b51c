# Endpaper in TLA+

Endpaper is a self-hosted book catalogue for a household: a FastAPI backend
(`backend/`), a React client (`frontend/`), one database, cover images on disk.
This directory holds specifications of the parts of the backend where several
requests, background runs, files and outside services meet, the TLC runs that
check them and the proofs about them.

Run a check with `tlc -workers 2 -config <run>.cfg <module>.tla` and the proofs
with `tlapm <name>_proofs.tla`, and those of `Accounts`, `Ceilings`, `Credentials`,
`Membership` and `Vocabulary` with `tlapm` on the module itself. `PROJECT.json` lists every run, what each
definition translates (`file:lines`), and the hazards the properties are for.

## How the program runs

The models take these facts from the code.

- One uvicorn process. A `def` endpoint runs in a thread of the pool, an
  `async def` endpoint and the two tickers (`notifications.ticker`,
  `readwise.ticker`) on one event loop, where only an `await` lets another in.
- Each request has a session of its own, without autoflush. A SELECT sees what
  is committed at that moment. Writes are flushed and committed together, and
  SQLite serialises writers from their first write to their commit; on
  Postgres, READ COMMITTED. So a handler is modelled as its reads, one step
  each, and one step for its flush and commit. Reads that a handler makes with
  no other handler's write able to matter between them are one step.
- An UPDATE by the ORM writes the columns that differ from the row as it was
  loaded, by primary key; one that finds no row raises, and the transaction is
  rolled back. Unique indexes and foreign keys are checked statement by
  statement.
- `database.on_commit` and `on_rollback` queue what a handler does to files
  until its transaction has ended.
- Only `books.id` is AUTOINCREMENT: SQLite issues any other id again once it
  was the largest and its row is gone.
- A process may die between any two steps. No startup code repairs rows or
  files.

## Inventory

| Component | State | Operations | Hard because | Modules |
|---|---|---|---|---|
| Loans, trash, merge (`lending.py`, `routers/loans.py`, `routers/books.py`, `folding.py`) | `books.deleted_at`, `is_private`, loan rows | lend, return, delete, restore, purge, set privacy, merge | handlers decide on rows read before the commit | `Lending`, `Custody` |
| Overdue digest (`notifications.py`) | `loans.notified_at`, the switches | ticker, Send now | awaits between selecting and stamping, crashes | `OverdueDigest` |
| Channel health (`notifications.py`, `settings_store.py`) | one JSON row | record a run, forget a channel | read-modify-write by two parties, a verdict over time | `SenderHealth` |
| Cover files (`cover_store.py`, `covers.py`) | files, `books.cover_url` | upload, fetch, copy, purge, merge | a database and a disk that cannot commit together | `CoverFiles` |
| Copies and the add door (`routers/books.py`, `lending.py`) | `isbn`, `copy_group` | add, copy, import, trash, purge, merge | one ISBN decided by rows others move | `Holdings` |
| Highlight ledger (`highlights.py`) | `highlights`, `deleted_highlights` | import, hand delete, share, merge, purge | retries, two tables read apart, stale rows flushed | `Highlights` |
| Readwise pull (`readwise.py`) | cursor, `readwise_books`, highlights | pull, stop, resume, save and forget a token | long walks over moving data, several commits | `Readwise` |
| KOReader sync, reading records (`kosync.py`, `reading.py`) | document row, reading record, log | push, link, mark, type, import | pushes that cross, links moved by merges | `Reading` |
| Imports (`importing.py`, `recognition.py`) | Books, the index of what is held | CSV, MARC and OPDS imports | one index and one commit for a whole file | `Imports` |
| Feeds (`opds.py`, `fetch.py`) | the walk | page, redirect, resolve, connect | a hostile server, bounds and a deadline | `FeedWalk` |
| Accounts, resets (`accounts.py`, `auth.py`) | users, reset requests, cutoffs | log in, ask, approve, redeem, confirm | check then act, times compared at a resolution | `Accounts` |
| Membership (`auth_backends.py`, `routers/users.py`) | user rows, the deployment's mode | register, mark a test account, sign in | identity asserted elsewhere, restarts | `Membership` |
| Signing in (`auth_backends.py`, `auth.py`) | directory, tokens, cookies | LDAP steps, portal headers, switches | a directory that changes between two questions | `SignIn` |
| Rate limits (`ratelimit.py`) | hits per key in memory | check, sweep, reset | a window that slides under a full table | `RateLimit` |
| Backup (`backup.py`) | every table, covers, token epoch | archive, restore | files rewritten after a commit | `Archive` |
| Shelf (`shelf.py`, `routers/public.py`) | the walk | export, list, facets | pages cut from rows that move | `ShelfWalks` |
| Tags, collections, fields (`tags.py`, `shelving.py`, `fields.py`) | names, what Books carry | coin, rename, delete, attach | shared names over private Books | `Vocabulary` |
| Field values (`custom_fields.py`) | one value per Book and field | write, clear, merge, restore | a rule about what is shown as a link | `FieldValues` |
| Capped rows (`database.py`, `classifications.py`) | rows under a ceiling per Book | add, merge, refuse | locks on two engines, deadlocks | `Ceilings` |
| Digital copies (`file_references.py`, `routers/books.py`) | references, access requests | look, merge, ask, decide | overlapping looks and answers | `DigitalCopies` |
| Enrichment (`enrichment.py`, `routers/books.py`) | one row's fields | enrich, refresh, select, edit, upload | rows loaded before an await, written after | `Enrichment` |
| Backfills (`backfill.py`) | a cursor in the page | batches, waves, a deadline | purges and imports beside the walk | `Backfill` |
| Authors (`authorship.py`, `authors.py`) | aliases, identifiers | merge, unmerge, confirm, forget, suggest | one name decided by many rows | `Authorship`, `Suggestions` |
| Authority files (`authority.py`) | none stored | ask lobid, Wikidata, VIAF | silence mistaken for an answer | `Authority`, `WikipediaLinks` |
| Catalogue records (`catalogue.py`) | a record | bound, fold, fill, merge | order and identity of what several catalogues say | `Records` |
| Lookups (`metadata.py`, `sources.py`) | one cache, one semaphore | ask together, ask in turn, search | switches and answers in flight | `Lookups` |
| Title search (`metadata.py`) | rows, slots | fold, rank, page | a fold that depends on the order of answers | `Matches` |
| Answers (`metadata.py`, `sru` dialects) | none | take a record, refuse | an error told as an absence | `Answers` |
| Catalogue table (`targets.py`) | rows of the table | check, serve | a row that passes and cannot be asked | `Targets` |
| Settings (`routers/settings.py`, `sources.py`) | setting rows | PUT, read, restart | field by field commits, old releases' lists | `Settings` |
| Logins and their key (`credentials.py`) | sealed rows, three stores of a key | generate, store, seal, restore | two writers of one key, archives | `Credentials` |
| Z39.50 (`z3950.py`, `z3950_provisional.py`) | one association, its worker | open, search, fetch, end | a blocking library in a thread, deadlines | `Z3950` |
| SRU server (`sru.py`) | none | parse, weigh, compile, serve | a grammar, a budget, SQL's logic, pages | `SruServer` |
| Import readers, MARC and JSON decoders, headings, statistics, application, frontend | none, or data only | read, show, wire | data, not state | not modelled |

What makes the core correct:

- **Loans**: a Book has at most one open loan; no loan outlives its Book; a
  closed loan stays closed; a trashed Book is in; a purge takes only what is in
  the trash; a merge loses no loan and keeps the longest one open.
- **Digest**: nobody is told of a loan twice within the interval; a stamp means
  somebody was told of the loan, or of the one that had its id when the run
  selected it; an overdue loan is chased in the end.
- **Health**: a broken channel is reported in the end, a working one never.
- **Covers**: a row that names a file has it; no other file is left behind.
- **Highlights**: a mark deleted by hand stays deleted; a mark is shared only
  on the Book its author chose; no row outlives its Book.
- **Readwise**: the cursor never passes a change that was not applied.
- Every other component: its module opens with what it keeps, and each property
  has a comment that says what the code promises there.

## The modules

One module per component, parameterised by `CONSTANTS`. An action property is
stated unboxed in its module and boxed where it is checked. A definition named
`Name_Variant` is `Name` with one plausible mistake in it; the property that
`PROJECT.json` pairs with it fails once the mistake is made.

**`Lending`** has one variable per column that matters (`shelf` for
`deleted_at` and the row's existence, `private`, `loanBook`, `returned`), the
clock, and `req`: for each request in flight the step it has reached and the
rows it holds. A handler is a chain of actions: `LookUpToLend`,
`FindNoOpenLoan`, `InsertLoan` for `create_loan`; a look up, a read and a
commit for `_trash`, the purges and `merge_books`; a look up and a commit for
the others. `CommitMerge` meets the partial unique index the way the flush
does, UPDATE by UPDATE in the order of the ids (`FlushKeepsIndex`).

**`Custody`** is what lending promises, without requests or rows: each Book is
in, or out on one loan; it is lent when it is in, comes back, or takes over the
loan of a Book it absorbs. `Lending` instantiates it as `C` with `out` mapped
to the open loan of each Book (`OutOn`), and `KeepsCustody` says that `Lending`
implements it.

**`OverdueDigest`** has the loans, their `notified_at`, the switches, the
destinations, and one run per caller. `Select`, one `Deliver` per channel, in
the order of the enum (`IsNext`), and `Stamp` are the steps between awaits of `run_digest`; nothing else on the
event loop runs between the last `Deliver` and `Stamp`, but threads do. A purge
deletes the row, and `LendAgain` gives its id to another loan, if the id is among
`Reissued`: on SQLite the largest, on Postgres none. A run keeps the ids it
selected (`loans`), and `same` are those that still name the loan it selected;
`Stamp` writes to all of them, as the UPDATE by id does, and `mistaken` remembers
the loans it hit by their id alone. Times are ages with a cap, so time has no
bound in the model.

**`SenderHealth`** looks at the same runs for the record they leave:
`ReadRecord` and `WriteRecord` around one JSON value, `ReadToForget` and
`Forget` for the settings write that clears a channel, `Lose` for a run that
records nothing. It keeps of the digest only whether something is due.

**`CoverFiles`** has the rows' `cover_url`, the files, and the request in
flight at each step of look, write, settle, commit, sweep or discard. What
`on_commit` and `on_rollback` queue are the steps `Sweep`, `Discard`,
`RemoveFiles`, `MoveFile`, `ClearLoser`. Every write may fail, every commit
may fail, and a process death ends all requests.

**`Highlights`** has one member's rows and deleted keys. `ReadTables` are the
two reads of `highlights.write`, in their order; `CommitImport` its flush, row
by row as the ORM writes it (`Updated`), with the inserts and the removals;
`ImportIsBeaten` is `settled` after a refused commit. `Former` gives the key a
mark had before its source re-keyed it. Hand deletes, shares, purges and merges
are the requests it meets.

**`Readwise`** has Readwise's side (`remote`), the Books, the rows, the
`ReadwiseBook` links, the `MemberLogin` row and the pull: `Begin`, then
`FetchPage` and `ApplyPage` in turn, then `AskForBook`, `FetchBook`,
`ApplyBook`, `ClearDebt` for each book whose history it owes, then
`FinishSynced`, or `Stop` or `Die` anywhere.

`Lending`, `CoverFiles` and `Highlights` each model the same merge and the same
purge for the rows they are about. They are not composed: each commit writes
the rows of all three at once, none of the three decides on another's rows, and
every refusal of the whole commit is in each as `RollBack`, `MergeFails` or
`CommitFails`.

**Household side.** `Accounts` has one member's row, reset requests and
sessions in ticks of the second the code compares times at. `Membership` has
several accounts under local or directory sign-in. `SignIn` follows one
browser: the questions of an LDAP sign-in one by one, a portal's headers, the
test account switch and the cover cookie. `RateLimit` has the hits of each key
as ages, and what a key turned away was told to wait, which for one turned away
by a full table is a whole window. `Archive` has two tables, the logins, the cover
files and the token epoch under backup and restore with crashes: a restore leaves
out the logins for the household's own servers (`WithoutHouseholdLogins`) and may
decline a cover, which leaves its Book without one and is logged
(`DeclineCover`). `ShelfWalks` has a file, a list or facets read
page by page while Books move.

**Rows of a Book.** `Holdings`, `DigitalCopies`, `Vocabulary` and `FieldValues`
have the rows named in the table and the requests over them; `Ceilings` has the
transactions that count rows under a ceiling, with the locks of either engine;
`Reading` one member's record, log and document; `Enrichment` one row's fields
as each policy writes them; `Backfill` the walk of a batch; `Imports` a file
against the index it was begun with.

**Catalogues.** `Lookups` decides whom to ask and remembers; `Answers` takes one
record of an answer; `Records` bounds, folds and merges records; `Matches` folds
and ranks rows; `Authority` and `WikipediaLinks` ask of people; `Authorship`
files what they say and `Suggestions` proposes who is one person; `Targets`,
`Settings` and `Credentials` say which catalogue may be asked with what;
`Settings` also follows a digest from the mail settings it read (`BeginDelivery`)
to the verdict it files when the awaited delivery is over (`RecordDelivery`), with
any PUT in between. `FeedWalk` and `Z3950` are the two protocols with a state of their own, and
`SruServer` is the catalogue asked by others.

## How the runs are put together

`MCLending`, `MCHighlights` and `MCOverdueDigest` extend one module with the
values its configurations use. The four packs `MCHousehold`, `MCShelves`,
`MCCatalogues` and `MCWork` check components that share no state
side by side: each instantiates its components over variables of their own, and
a variable `part`, fixed by `Init`, says which of them moves; the variables of
the others keep the value `Unused`. The states of a pack are so the sum of its
components' states, not their product, and a property of a pack is the
conjunction of its components' properties, each under `part = ...`. `Parts` of
a configuration chooses the components: `MCShelves` serves the runs `Shelves`
and `Intake`, `MCCatalogues` the runs `Authors` and `Catalogues`. Components are packed by themes whose
properties read alike, and two requests, Books, accounts or keys that no
property tells apart are the model values `this` and `that`, of which
`Pair` and the symmetry set `Alike` are made (the Books of `Readwise` are
`former` and `latter`, exchanged beside its marks, in `AlikeApart`).

`MCWork` checks liveness: its specification conjoins each component's own
fairness with the others' idleness, and `WorkEnds` is one leads-to property per
component, written with a rigid variable `which` that names the Book (the last of
the shelf), the search or the channel that waits.

## The runs

| Run | Question | Bounds |
|---|---|---|
| `LendingConcurrent` | What survives any interleaving of handlers, and is it `Custody`? | 2 Books, 2 loans, 2 requests, clock of 2 |
| `LendingSerial` | What do the handlers promise one at a time? | 3 Books, 3 loans, 1 request |
| `LendingMergeRefused` (fails) | Can two lent Books always be merged? | as above |
| `Highlights` | Do hand deletes and shares survive imports, merges and purges? | 2 Books, 3 keys, 2 rows, 2 requests, 2 attempts, 1 deletion |
| `Digest` | Does a stamp mean somebody was told, once per interval, and is a loan chased? | 2 loans, one with an id that is issued again, 1 channel, the ticker, 1 crash, interval of 1 |
| `DigestDoubleSend` (fails) | Is it still once per interval with Send now beside? | 1 loan, 1 channel |
| `Household` | Is nobody let in who did not earn it, does every limit hold, does what leaves the library leave whole? | accounts: 3 ticks, 2 reset rows, 2 requests; membership: 2 accounts, 1 restart; limits: 2 attempts, 2 seconds of 2 ticks, 2 records; signing in: 2 entries, each renamed to the other's or to a name too long to keep, or given another password, 1 move, 1 restart; archive: 2 Books, 2 logins, 2 eras; walks: 3 Books, pages of 2 |
| `Shelves` | Do files, rows and groups agree, and does nothing go that nobody gave up? | covers: 2 Books, 2 formats, 2 requests, 1 write, 1 crash; holdings: 3 rows of one ISBN, 2 requests; digital copies: 2 Books, 2 fingerprints, 2 asks; words: 3 names, 2 ids, 1 field, 1 tag; fields: 3 Books, 2 fields, 1 restore; senders: 2 channels, 1 mishap |
| `Intake` | Is what came in kept, and written with knowledge of what is there? | Readwise: 2 pages, 2 marks, 2 Books, clock of 3 that begins at 2, overlap of 1, 3 deeds (a change at Readwise is one); reading: 2 Books, 2 requests, 2 days; imports: files of up to 2 records, 2 imports, 1 edit |
| `Authors` | Does one name lead to one person, and does a member's decision stay? | authorship: 3 spellings, 2 members, 2 requests, 2 merges; suggestions: up to 7 names, buckets of 5; authority: 2 numbers per file; links: 4 items; records: 3 headings said, 2 steps; enrichment: 2 requests, 1 answer, 2 edits |
| `Catalogues` | Is what is told of a book what catalogues said, and is whom the household chose whom it asks? | lookups: 3 sources, 2 ISBNs, a cache of 1, 1 write; settings: 2 PUTs, 1 restart; logins: 2 keys, 2 origins, 2 requests; matches: up to 4 answers; answers: 2 records; targets: 2 edits |
| `Work` | Is nothing missed or doubled by long work, and does it end? | backfill: 3 Books, batches and waves of 2; ceilings: 2 transactions, 2 Books, 2 keys; feed: 5 addresses, 3 pages, 2 redirects; Z39.50: 2 searches; SRU: queries of 5 tokens, 3 Books, 1 move; senders: 2 channels |

Why the bounds are enough. Each of the lending and highlight races needs two
requests: one that read, and one that committed since. Two Books are a keeper
and a loser, three let two losers meet in one fold, and three loans put an open
one on each. Two row ids are enough for an id to be issued again. Two cover
formats are what makes one image stale beside another. The three keys are a
mark that was re-keyed, its former key, which another mark may hold, and one of
another source. Two attempts are one retry, which is where stale memory would
show. A window of one tick and an interval of one tick separate "again at once"
from "later"; two channels are needed for one to fail beside one that works. In
`Readwise`, the second page is where a walk is stopped half way, two marks of
one book are one that changed and one that did not, and two Books of one title
are an ambiguous match that a deed resolves. Its clock begins one overlap after the
first changes and ticks once, so a cursor taken from the pull that finishes a walk
(`WalkStarted_Now`) passes what changed between the pull that began it and the
resumed one, and both of its properties fail. In
`Backfill`, a wave of two has a verdict after a Book without one, so a cursor moved
by the number of verdicts (`Cleared_Counted`) skips that Book. A cache of one entry is full at
once, a bucket of five is too large at six names, a page of two is left half way
on three Books, and a budget of six is overspent by one clause of the queries
enumerated. Where a bound is one, the hazard takes one: a crash, a restart, a
move of the directory, a restore, between any two steps. Symmetry is used over
requests, Books, loans, marks or the pair of a pack only where no property of
the run is a liveness property and no constant tells them apart.

Deadlock is not looked for where the program may rightly stop: once every Book
is gone, or every bounded write is used up. The other runs check it.

## What the runs do not promise

Properties hold under the restrictions named here; outside them is the
behaviour of the code as it is.

- **Lending.** `ReturnDateNeverMoves`, `TrashedBooksAreIn` and `NothingIsLost`
  hold for requests that do not overlap. With two: two returns that both read
  the loan open each write a date, the later commit stands; a loan inserted
  between `_trash`'s read of the loans and its commit is open on a trashed
  Book; a purge that looked a Book up before a restore deletes it from the
  shelf; a loan inserted on the loser after the fold read its loans is deleted
  with the loser.
- **Digest.** Only `books.id` is AUTOINCREMENT. A loan purged while a digest
  holds its id, and an id issued again before the UPDATE by id: the new loan is
  stamped, and left out of the digest for an interval, though nobody was told of
  it. `StampedWasTold` excepts those loans (`mistaken`), and
  `WithoutReissueStampsAreTrue` says there are none where no id is issued again.
  `OverdueIsChased` excepts ids issued again without end, which may leave an id
  gone at the flush of every run. `ToldOncePerInterval` is for the ticker alone, and excuses a loan
  whose run was told and lost before its commit. `NoFalseAlarm` of
  `SenderHealth` is for one run at a time and excuses a channel whose success
  was never recorded; the liveness instance has no mishaps.
- **Covers.** `NamedCoverIsThere` and `NothingLeftBehind` excuse a Book two
  requests wrote at once, which the docstring of `cover_store.settle` lets
  through, and one a process death caught. A copy of a Book with a remote cover
  has none when its download fails.
- **Highlights.** One import, purge and merge at a time, and no share beside a
  merge: a highlight shared between a merge's read and its flush arrives shared
  on the Book that is kept, which `folding.py:242` says cannot be. Two imports
  that overlap may create a mark again that the member deleted between them.
- **Holdings.** One request at a time reshapes the rows of an ISBN; an add, a
  copy and a purge that overlap are not covered, nor is a merge that keeps a
  Book without an ISBN.
- **Reading.** `FinishedIsRead`, `SetBackStands` and `OneADay` are for requests
  in turns; an import stamps a reading the log does not show.
- **Imports.** A MARC row matched by ISBN that fills an author changes the work
  key, of which the index is not told, so a later row without an ISBN makes a
  second Book (`recognition.py:452` says otherwise); an author given by hand
  between load and commit is overwritten; a Book hidden between them is still
  filled. Two imports at once, copy groups and previews are left out.
- **Accounts** end a member's sessions in one thread at a time: a login begun
  with the old password may commit after. **Membership** promises an asserted
  identity for requests in turns; two first registrations that overlap each
  make an administrator. **RateLimit** takes a check as one step; a key a full
  table turned away is told to wait a whole window and may find the table full
  again, so `WaitedIsNotOver` says only that its own hits will not refuse it.
  **SignIn** takes it that the administrators' group is set and the directory owns
  addresses; after the cover cookie's day, covers behind a portal are served as
  the header's while the pages are the test account's, where `COVER_COOKIE` of
  `auth.py` says that "only the covers go quiet".
- **Archive** promises the Books, the loans and the catalogue logins that were
  archived, and the covers that were not declined: logins for the household's own
  servers are left out of every restore, and a declined cover leaves its Book
  without one and a line in the log. One session stands for all. It takes a
  sign-in as one step and has members write nothing while a
  backup or restore runs: otherwise the archive is of several moments. A death
  between the commit of the epoch and the settling of the accounts is left out.
- **Vocabulary** keeps names unique and fields few for requests in turns.
  **FieldValues** too: of two first writes that overlap the second is refused
  by the index. **DigitalCopies** has looks in one step; of two that overlap
  the later replaces the earlier fingerprint, and two answers to one request
  both stand. **Ceilings** promises nothing of a row added to a loser late; two
  merges that fold one loser and edits that wait for the lock are left out.
- **Enrichment.** An upload that arrives while catalogues are asked is
  overwritten. **Authorship**: two folds that overlap can put one name under
  another in a circle. **Suggestions** takes the order of places, keys and names
  as one; a wider matcher whose page or budget is full may leave out what a
  narrower one offers, where the docstring of `authors.Matcher` says it "can
  therefore only ever offer a subset".
- **Records** promise order and identity within one merge; merged catalogue by
  catalogue an identifier can be lost. **Authority** and **WikipediaLinks**: a
  claim nobody answers contests nothing, and only the first of several claims
  is compared.
- **Lookups** keep the order of sources fixed and take unavailable and rate
  limited as one failure; a source switched off may serve the request it was
  begun for. **Matches**: more than two answers of one book may end in two rows
  (`_merge_matches` says "One row per book"), and the most trusted of three
  need not lead. **Targets** compares no row's `secret` with the roster of
  secrets kept elsewhere. **Settings** has PUTs in turns; a PUT refused at a
  pinned field half way leaves the lookup cache as it was. A PUT that replaces the
  mail settings while a digest's delivery is awaited forgets the channel's failures,
  and the digest then files one of the settings it had read: the banner stands, with
  the settings mended, until the next digest or write, so `FailureIsOfThese` is for
  deliveries no PUT overtook. An older release's page that writes back a list
  without a newer catalogue forgets what was said of it, and it is on again;
  `SaidStands` takes that PUT for the household's last word. The cache holds the record of one catalogue. **Credentials**
  takes it that nobody stores another key beside a key file that cannot be
  written: then two keys stay. The keychain that comes and goes is left out.
- **FeedWalk** reads a page twice when a redirect leads there, resolves a
  relative link against the address before the redirects, and fails the whole
  walk for a deadline within a page, truncates it for one between pages.
- **Z3950**: a search that returns a result set beside a diagnostic neither
  keeps nor frees it (`_YazSession.search`); the library's own memory is left
  out. **SruServer**: the count and the rows are two statements, and exact,
  numeric and masked terms are not in the alphabet.

Two runs end in a counterexample that contradicts a sentence of the repository;
`findings` in `PROJECT.json` quotes it. `LendingMergeRefused`: a merge of two
lent Books is refused by the index, each time it is tried, when the loser's open
loan has the smaller id. `DigestDoubleSend`: Send now during a ticker's delivery
tells twice.

## Fairness

- `OverdueDigest`: strong fairness of the ticker's `Select` and of each
  `Deliver`, weak fairness of the flush (`Flush`: it stamps, or an id without a row
  refuses it; which of the two may change while it waits, that it comes does not). `notifications.ticker` loops for the
  life of the process and logs what it raises; every delivery has a timeout;
  and asyncio resumes ready coroutines in turn. Strong, since another run may
  hold the loop, or a privacy change empty the selection, again and again.
  Nothing is assumed of members, switches or destinations: `OverdueIsChased`
  asks for one channel that stays on and up, and for a loan that stays due.
- `SenderHealth`: the same, and weak fairness of `Tick` and `FallDue`: time
  passes, and while a household lends, something is overdue again. A channel
  nothing is sent through is never reported, and the code does not claim it.
- `Backfill`: the member presses on while Books remain, as the page asks, each
  step of a batch is taken, and the first Book of a batch is answered again and
  again, for every fetch has a timeout.
- `Ceilings`: strong fairness of each transaction, since both databases queue
  those that wait for a lock.
- `FeedWalk`: weak fairness of the walk, whose every fetch has a timeout.
- `Z3950`: the worker thread goes on, because its socket has a timeout, and so
  do the event loop and the clock.
- `SruServer`: a harvester that was told a position asks for it.

## What is proved

`Lending_proofs`, `Highlights_proofs` and `OverdueDigest_proofs` hold for any
Books, accounts, loans, channels, number of requests and bounds that satisfy
`LendingAssumption`, `HighlightsAssumption` and `DigestAssumption`, and so do
the theorems at the end of `Accounts`, `Ceilings`, `Credentials`, `Membership` and
`Vocabulary` under theirs. These say that the constants are of their kind, that the
keys a Book may have are finite, that the placeholders for "no row" are no rows,
that no origin is named like a login that is not stored, that an import never both carries and removes one key nor carries a key
beside its former one, and that no channel is listed twice.

| Theorem | Property | Holds |
|---|---|---|
| `TypesHold` (of each) | `TypeOK` | always |
| `OneOpenLoanHolds` | `OneOpenLoanPerBook` | always |
| `LoansHaveBooksHolds` | `LoansHaveBooks` | always |
| `ClosedStaysClosedHolds` | `ClosedStaysClosed` | always |
| `KeepsCustodyHolds`, `OneBookPerLoanHolds` | `KeepsCustody` | always |
| `TrashedBooksAreInHolds` | `TrashedBooksAreIn` | `OneAtATime` |
| `ReturnDateNeverMovesHolds` | `ReturnDateNeverMoves` | `OneAtATime` |
| `NothingIsLostHolds` | `NothingIsLost` | `OneAtATime` |
| `HighlightsHaveBooksHolds` | `HighlightsHaveBooks` | always |
| `SharedWhereChosenHolds` | `SharedWhereChosen` | `{"merge", "share"} \in Apart` |
| `DeletedStaysDeletedHolds` | `DeletedStaysDeleted` | `{"import"} \in Apart` |
| `StampedWasToldHolds` | `StampedWasTold` | always |
| `WithoutReissueStampsAreTrue` | every stamp was told (`WasTold`) | no id is issued again |
| `ToldOncePerIntervalHolds` | `ToldOncePerInterval` | `TickerAlone` |
| `Accounts`: `OneLiveRequestHolds` | `OneLiveRequest` | always |
| `Accounts`: `CompletedWereApprovedHolds` | `CompletedWereApproved` | always |
| `Accounts`: `EndedStaysEndedHolds` | `EndedStaysEnded` | `OneEnder` |
| `Ceilings`: `CeilingHoldsAlways` | `CeilingHolds` | always |
| `Ceilings`: `OnlyTheAnsweredDeadlockHolds` | `OnlyTheAnsweredDeadlock` | always |
| `Credentials`: `LoginsStayHomeAlways` | `LoginsStayHome` | always |
| `Credentials`: `NoStandInEver` | `NoStandIn` | always |
| `Credentials`: `StoresAgreeAlways` | `StoresAgree` | always |
| `Credentials`: `GenerateStrandsNothingEver` | `GenerateStrandsNothing` | in turns |
| `Membership`: `TestAccountsAreTargetsAlways` | `TestAccountsAreTargets` | always |
| `Membership`: `SomebodyAlwaysAdministers` | `SomebodyAdministers` | no group was ever set |
| `Membership`: `OwnedIsAssertedAlways` | `OwnedIsAsserted` | in turns |
| `Vocabulary`: `OneEntryPerNameHolds` | `OneEntryPerName` | always (collections), in turns |
| `Vocabulary`: `FieldsAreFewHolds` | `FieldsAreFew` | in turns |
| `Vocabulary`: `OwnRequestsDiscloseNothingHolds` | `OwnRequestsDiscloseNothing` | in turns |

A hypothesis in the last column is the restriction the run of that property has,
and no weaker one is known: without it the property is false, as "What the runs
do not promise" tells.

**Lending.** `IInv` is `TypeOK`, `Remembers` of every request,
`OneOpenLoanPerBook` and `LoansHaveBooks`. The last two are not inductive
alone: a stale `CommitReturn` would open a loan if the time it read could be 0,
which stands for "out", and a `CommitMerge` whose keeper was among its losers
would move loans to a Book it deletes. `Remembers` rules both out from what the
request checked when it read. Reading changes no row, so one lemma
(`ReadingIsHarmless`) covers every step but the commits. `CommitMerge` keeps one
open loan per Book because `FlushKeepsIndex` holds after the last UPDATE, and
the cascade only removes. `ClosedStaysClosed` follows from `IInv`, step by step.

*The refinement.* `OutOn` maps a Book to its open loan, and `OutSays` is what
`OneOpenLoanPerBook` makes of it: a Book is out on a loan exactly if that is the
open row on it. Then a commit is named by what it does to the open rows. What
touches no loan stutters (`LoansRuleCustody`); a commit that closes rows, or
deletes them, is a `ComeBack` of the Books they were on (`ClosingBringsBack`);
one row opened on a Book that was in is a `Lend` (`InsertLends`); and a merge is
a `FoldInto` of the Books whose loan it moved, closed or deleted
(`MergeFolds`). These need not be the Books merged: a fold whose read is stale
may move the loan of another, so `Custody` lets a merge name any Books, and the
refinement holds without a hypothesis. `C!OneBookPerLoan` follows from
`OutIsOpenLoan` without another induction.

*One request at a time.* `SerialInv` adds to `IInv` that what the request read
is still so (`UpToDate`), that an id without a row has no date, and
`TrashedBooksAreIn` itself. `UpToDate` is what overlapping requests break: the
three theorems use it to turn the row a commit writes into the row it replaces.

**Highlights.** `IInv` is `TypeOK` (with unique keys), `Remembers` and
`HighlightsHaveBooks`. The commits that move rows need that the Book they move
to is there, which `Accepted` and the guard of `CommitMerge` give, and that a
merge's keeper is not its loser, which `Remembers` gives.
`SharedWhereChosenHolds` adds to `IInv` that what is shared is within
the ceiling, and that a merge in flight read as shared all it carries that is
shared: only a share could change that, and none is in flight. Then an import
that changes a mark's Book or makes it long clears the share whatever it had
read, and a merge clears all it carries.
`DeletedStaysDeletedHolds` adds what an import in flight knows (`Informed`):
the rows it read hold every row that still has a key it wants, and a key deleted
since is one whose row it read and will find gone. Only an import makes a row or
gives one another key, so every other step only loses rows (`OnlyLoses`), and
losing keeps `Informed` (`LosingKeepsInformed`): a delete beside the import
turns the key into a row it holds and no longer finds, and its commit is refused
or writes nothing under it.

**Overdue digest.** `IInv` is `TypeOK`, `RunRemembers`, `StampedWasTold` and
`ChangedHands`: an id a run holds that no longer names the loan selected names
none, or is among `Reissued`, as is every mistaken loan. So without reissue
`StampedWasTold` has no exception (`WithoutReissueStampsAreTrue`).
The property alone does not survive `Stamp`: that a run stamps with an age no
younger than its messages is what the run must remember of `told`, and keep
while time passes and other runs tell the same loans later (`DeliverTells`).
`ToldOncePerIntervalHolds` adds `OnceInv`: a loan told later than its stamp is
one the run in progress told or one an earlier run left unstamped
(`StampsFollow`), so what was selected by its stamp is still to be told
(`YetToTell`), and nobody has told anything since the run began
(`NobodyToldSince`). With a second run the first of these is false, which is the
counterexample of `DigestDoubleSend`.

**Accounts.** `IInv` is the types, the two properties of reset requests, and
`Stamped`: a request under way carries no time the clock has not reached. That
one live request is left is what the partial unique index refuses, and every
step that answers a request replaces a live row by one that is not.
`EndedStaysEndedHolds` adds `EndedInv`: whatever was ended is older than the
cutoff and no current key, and an ending under way will write a cutoff later
than all it ends over the one it loaded (`WillEnd`). The hypothesis `OneEnder`,
one thread at a time that ends sessions, keeps that loaded cutoff current: of
two at once the older could commit last. Sign-ins, keys and resets overlap
freely.

**Ceilings.** For any number of transactions, Books and keys, each transaction
is its `Own`: it is at a step its kind has, what it wrote is on Books it holds,
and `HasRoom`: what it counted is still the count when it writes, because on
Postgres it holds the Book and any two hold no Book together (`Apart`). So its
Books fit once it commits, and a Book it does not hold has the rows it had
(`OthersStay`). On SQLite nothing is held between the count and the write, but
only one transaction has written at a time, and a report counts after its
insert: its count is still exact when it commits. A merge deletes Books and
carries onto the keeper from a count no lock guards there, and `CeilingHolds`
promises nothing on SQLite from then on. A
deadlock needs a transaction that waits for a Book while it holds another, and a
report and an enrichment hold none when they wait.

**Vocabulary.** `IInv` is the types, the two properties of names, and
`SerialInv`: while requests take turns, what one read is still so when it
commits (`Current`). "In turns" is the case `~ overlap` of the property itself.
For collections the commit's own constraint is enough, and no read is trusted.
`OwnRequestsDiscloseNothing` needs more of `Current` than that a name may be
told: a collection attached to a Book drops the one it had, which would come to
be on no Book and so everybody's to know, had the member not seen that Book
(`CommitDisclosesNothing`).

**Credentials.** `IInv` is the types, `LoginsInv`, `SentInv`, `StoresAgree` and
`TurnsInv`. That a login stays home is not inductive alone: it rests on what is
in an envelope, stored or about to be committed (`SealedRight`), which is sealed
under a key there is and, for a roster catalogue, over the address this build
publishes. A server may move, or an archive change a catalogue's address, while
a request that read the old one is about to commit: the envelope it commits then
opens nowhere, because opening compares what is sealed with the address of the
moment (`ResolvedIsForHere`). The writer of a key found no key and nothing
stranded, and where there is no key every stored login is stranded
(`NothingStrandedNothingStored`), so it found no login; in turns nobody stores
one before it writes. `StoresAgree` is inductive alone and needs no turns: `Kept`
leaves one key in the stores that can be written, whoever else writes.

**Membership.** `IInv` says of each request what it may still write, whatever
was committed since it read (`RequestFine`): to a row that was there, never the
test mark, nothing but a name and an address to a test account, no demotion
while there is no group; and a row to insert is an admin if there are still no
accounts. Rows are never deleted, so what was fine stays so while rows grow
(`FineWhileRowsGrow`), and the theorems on test accounts and admins need no
hypothesis on overlap: of two first accounts made at once both are admins, and
one that is refused leaves the other. `OwnedIsAsserted` does: a sign-in writes
only the columns that differ from what it read, so an address committed in
between would stand. `ReadNow` says what a request that read the rows as they
are leaves an address at, and `CommitAsserts` that the row it tells of is the
row it writes. That the id of an insert is new (`NextIdIsNew`) and a free name is
a name (`FreeNameIsName`) rest on the least number of a set of numbers (`Least`).

Model-checked only: the properties of the other modules a pack instantiates, and
every liveness property (`OverdueIsChased`, `WorkEnds`). Liveness under fairness and
`ENABLED` are beyond the prover, and so is induction over data. `SruServer` and
`Suggestions` declare RECURSIVE operators and carry no theorem.

## What is not modelled

- Readers and decoders: CSV, MARC, Dublin Core and JSON records, headings and
  classification, statistics and what a page shows. Their difficulty is data.
- Migrations, configuration and wiring of the application.
- The React client, its scan queue included.
- Inside the modelled parts, what the head of each module names as left out.

## The plan

1. Proofs: the invariants of `SignIn`, `SenderHealth`, `CoverFiles` and
   `Readwise`.
2. The client's scan queue, with answers out of order.
