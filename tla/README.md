# Link-checker: verification project

TLA+ models of the Link-checker (a Telegram bot and a scrapper that watches GitHub and
StackOverflow links), the TLC runs that check them on small instances, and the TLAPS proofs.
Paths are relative to `src/`; line numbers are those of the sources beside this directory.

## 1. Inventory

Two processes and a database: the **bot** polls Telegram, keeps a dialogue per chat and calls
the scrapper over HTTP; the **scrapper** serves those calls from PostgreSQL and every two
minutes walks over all links, asks GitHub or StackOverflow for news and posts them to the
bot's `/updates`, which sends them to the chat.

| Component | State | Operations | Talks to | Hard about it | Correct when |
|---|---|---|---|---|---|
| Monitoring pass (`scrapper/server.go` 108-191) | the page, its chunks, the `WaitGroup`; in the database the table of links | tick, read a page, split, one goroutine per chunk, wait | storage, `processLink` | goroutines, passes that overlap, a table that changes while it is paged, any integers for `BATCH` and `NUMBER_OF_WORKERS` | every link once per pass, none left out, no worker outlives its page, the pass ends |
| Bot dialogue (`bot/processing/manager.go`) | `States`, `addRequests`, the offset - all in memory | poll, ten handlers, six calls, send | Telegram, scrapper | messages of a dialogue interleave with other chats and failures; updates come again after a crash; answers get lost, and their calls take effect later | what is saved is what was dictated, one effect per update, what was confirmed stays so, every message is taken in |
| Bot HTTP clients (`bot/clients`) | none | a request, its status turned into an error value | scrapper, Telegram | a lost answer looks like a failure | no answer claims what is not so |
| SQL storage (`repository/sql_database/sql_service.go`, `migrations`) | tables, pool of connections | `AddLink` (one transaction), `RemoveLink` (three statements), one-statement requests, queries | PostgreSQL | READ COMMITTED, locks of unique and foreign keys, cascades, errors inside a transaction that are logged only, connections not given back | one row per URL, no link without a chat, "saved" means stored, every request is answered |
| Scrapper HTTP server (`scrapper/server.go` 193-506) | none of its own | decode, call the storage, status | storage | - | statuses tell the outcomes apart |
| One link and its delivery (`processLink`, `bot_client.go`, `bot/processing/server.go`) | `changed_at` of the link | read the time, ask the updater, save the time, read the chats, send | updaters, storage, bot, Telegram | time saved before sending, overlapping passes, failures in between, first chat only | an update reaches every chat of the link, once |
| Updaters (`scrapper/api`) | the map of updaters | `GetUpdates(link, since)` | GitHub, StackOverflow | order of the items, initialisation after the scheduler | the returned time is the newest item's |
| ORM storage (`orm_service.go`) | the same tables, pool of connections | `AddLink` (its transaction, one of `addTags`, one of `addFilters`, names in statements of their own), `RemoveLink` and `DeleteChat` (one DELETE each), `CreateChat`, `DeleteTag` | PostgreSQL | up to three connections per request, transactions that do not see each other or are never ended, nil transactions, the telegram id written where a row's id belongs | one row per URL, no request waits for itself, locks alone never stop it, tags are stored |
| Dictionary storage, configuration, formatting, types, startup | - | - | - | not wired, pure data or I/O | - |

`PROJECT.json` lists the same parts with their status, and under `hazards` every place that
is hard to test, with the properties that watch it.

How the parts meet: the bot calls the scrapper (`bot/clients/scrapper_client.go` to
`scrapper/server.go` 193-506), the scrapper calls the storage and posts to the bot's
`/updates`; the requests and the passes share nothing but the tables. Each model therefore
takes one of these parts in full and the others as an environment that may do whatever they
may: Monitor and LinkProcessing have the requests as rows that come and go, Bot has the
scrapper as outcomes with and without an effect, SqlStore and OrmStore have their callers as
any requests. What holds the storages and their callers together is Tracking, the interface
`LinkService` as its callers may rely on it: both storages are shown to implement it.

## 2. Plan

All of it is done, in this order:

1. `Chunks`, `Monitor` - the pass and its goroutines; `Paging` - what a pass promises, which
   `Monitor` implements; `MonitorProofs`.
2. `Bot` - the dialogue loop with its clients; `BotProofs`.
3. `SqlStore` - the SQL storage under concurrent requests, with `WaitGraph`, PostgreSQL's search
   for deadlocks; `WaitGraphProofs`, `SqlProofs`.
4. `Updaters`, `LinkProcessing` - one link from `changed_at` to the chat; `LinkProofs`.
5. `OrmStore` - the alternative storage; `OrmProofs`.
6. `Tracking` - what a storage promises; `SqlTracking`, `OrmTracking` - the refinements, checked
   and proved (`SqlTrackingProofs`, `OrmTrackingProofs`).

What could follow: the ORM storage's read queries, and a restart of the scrapper under requests
in progress (all it leaves of them are rows that committed).

## 3. Modules

Definitions keep the source's names; `PROJECT.json` maps each to its lines.

**Chunks** - pure operators: a page (`GetBatchOfLinks`, a set of ids above the cursor) and its
chunks (`splitIntoChunks`, contiguous runs of `ceil(n / Workers)`). **Monitor** - `pc[p]` is
where `monitorLinks` of pass `p` is, `chunks[p]`, `worker[p]` and `wg[p]` its goroutines and
WaitGroup, `lastID[p]` the cursor; `links`, `inserting` and `nextID` are the table, in which a
row may become visible later than one with a higher id. `Tick` starts a pass, `GetBatch` reads
and splits a page and starts its goroutines, `BeginLink`/`EndLink` are a worker's loop around
`processLink`, `WorkerDone` its `wg.Done`, `Wait` the barrier. `visits` and `startRows` are
history.

**Paging** - the pass without chunks, goroutines and WaitGroup: it reads the rows after the last
page up to some row, at most `Limit` of them; it begins each link of the page once, in any order,
at most `AtOnce` at a time; it reads on only when all are finished. `Monitor` implements it
(`ImplementsPaging`): `todo` is what is left in the chunks (`InChunks`), `underway` the number of
busy workers (`Busy`), `visited` what `visits` counts, `Limit` is `BATCH` and `AtOnce`
`NUMBER_OF_WORKERS`. A pass that hangs in `wg.Wait` stutters there: Paging promises nothing of
liveness.

**Bot** - one action per handler and per client call, a `send` state between a handler and the
state it leaves, `queue` and `offset` as Telegram has them: an update stays until a poll
confirms it. `States` and `addRequests` are the manager's maps. A call ends in a status
(`AddLinkOutcomes`, `RemoveLinkOutcomes`) or without an answer; in that case it may go on at the
scrapper (`MayGoOn`: `late` counts such calls) and end at any later time, with its effect or
without (`EndsLate`). `SendOK` and `SendFails` are the two ends of `SendMessage`; `Crash`
empties the memory, not the calls that go on. `asked`, `effects`, `finished` and `said` (what
the last answer told a chat of a link) are history.

**SqlStore** - one action per SQL statement. `tx[s]` is what a transaction wrote and nobody
else sees, `leaked` the connections held by transactions nobody ends, `linkID[s]` and `left[s]`
the function's locals. READ COMMITTED is modelled by what a statement sees (`Sees`), unique
keys by what an INSERT waits for (`WaitsForUrl`, `WaitsForSub`, `WaitsForTag`), foreign keys by
the locks a DELETE waits for (`LocksLink`, `LocksUser`, `LocksSub`), and a statement that decides
before it waits by two steps (`CheckUsers`, `DeleteLink`).

**WaitGraph** - who waits for whom as a set of pairs, what is ahead of a request in it (`Ahead`,
the least set closed under waiting), and who is on a circle (`OnCycle`). A request is `Deadlocked`
when it is on one, of any length; PostgreSQL then fails its statement. Both storages use it.

**OrmStore** - the same database as seen by `orm_service.go`, one action per statement, failure
and panic. `tx[s]` is AddLink's transaction, `inner[s]` that of `addTags` or `addFilters`
(`part[s]`), in a connection of its own; `left[s]` the items still to be saved. `LeaveOpen` is
the return that ends no transaction: its connection goes to `leaked`, its locks to `stuck`.
`SaveName` is the INSERT of a tag's or filter's name, in a third connection; `Refused` what a
refused row does, which differs for tags and filters; `FindRow`/`DeleteRow` and
`FindChat`/`DeleteUser` a DELETE that finds its row in a snapshot and waits for its locks.

**Tracking** - the abstract storage: `tracked` (the pairs chat and link), `status[s]` and
`pair[s]` of each request, `seen[s]`: what was true of its pair at the instants since it was
called. A request writes at one instant between call and answer; one that says "it was there"
or "it was not" without writing says what was true at some instant in between; after an error
nothing is known. `Cascades` allows the one deviation of the SQL storage, a RemoveLink that
takes other chats' subscriptions along. **SqlTracking** and **OrmTracking** give the refinement
mapping (`Tracked` from the tables, `Status` from `pc`) and the history `seen`.

**Updaters** - which items of an answer are told and which time is returned, per source.
**LinkProcessing** - `source` is where the link leads, `pc[w]` is the next call of worker `w` inside `processLink`, `prev[w]`,
`news[w]`, `last[w]`, `ids[w]` its locals; `changedAt`, `row` and `subs` the link in the
tables, `ready` whether `InitUpdaters` has run. One action per call: `GetPreviousUpdate`,
`GetUpdates`, `Save`, `GetTgChatIDsForLink`, `SendUpdate` (the POST, the bot's
`handleUpdates`, the send to the first chat), each with its failure. `due` (what somebody
must still be told), `told`, `again` and `beyond` (what was told along with an older time) are
history.

Composition: `Monitor` uses `Chunks` and is put under `Paging`, `LinkProcessing` uses `Updaters`,
`SqlStore` and `OrmStore` use `WaitGraph`, `SqlTracking` and `OrmTracking` put a storage under
`Tracking`; `MC...` modules give the constants values, and `...Proofs` hold the theorems.

## 4. Passing runs

| Run | Shows | Bounds |
|---|---|---|
| `monitor_pass` | `WaitGroupExact`, `BarrierHolds`, `OncePerPass`, `NothingSkipped`; `WaitNeedsEveryWorker`: a pass goes on only when every worker existed and is done; `FullSplitReturns`; `ImplementsPaging`: the refinement | Batch 3, 2 workers, 4 ids: pages that split evenly, unevenly and into one chunk, and a second page after a full one. One pass, as passes share only the table, which the environment changes anyway |
| `bot_dialogue` | `DialogueHasRequest` (the manager never dereferences a missing request), `SavesWhatWasDictated`, `OneEffectPerUpdate` | two chats in dialogues at once, one of them refused by the scrapper; 2 updates waiting; no late calls, which change no dialogue |
| `bot_commands` | `SaidIsSo`: a link said to be saved or deleted is so until the chat's next command about it or the end of a call given up before; `ConfirmsOnlyFinished`, `MessagesTakenIn` | one chat, every command, 2 updates waiting; an AddLink and a RemoveLink may go on at once |
| `sql_shared` | `UniqueUrl`, `OrphansExplained`, `AnsweredUnlessExhausted`; `JamIsExhaustion`: requests all wait only when the pool has lost its connections; `ImplementsTracking`: the refinement | two chats, one URL, 2 requests at once, 2 connections, so that the pool runs dry |
| `sql_crossed` | `SavedMeansStored` | one chat, two URLs, the same two tags in opposite orders: transactions that deadlock |
| `link_news` | `NoneStranded`, `RepeatsAccountedFor` | a link of GitHub or of StackOverflow; two workers, two items, four seconds for rows, items and saves to differ by, two rows in turn; one chat, since the properties are stated per chat |
| `orm_shared` | `UniqueUrl`, `NoneWaitsForItself`, `JamIsThePool`; `ImplementsTracking`: the refinement | two chats with two rows in turn, one URL, 2 requests at once, two tags in opposite orders and a filter, 3 connections: what one request needs, and too few for two |

Why these are enough: the interleavings the properties are about need two parties (two
workers, two chats, two transactions) and a second round (a second page, row, update), and each
run has them. With two request slots the only circles are of two; the models break circles of
any length, and what depends on it is proved for any number of requests (three slots are too
many for a run). `orm_shared` takes
its two request slots as interchangeable (they are, in `OrmStore` and in `Tracking`; all its
properties are about safety). The counters are
bounded by `MaxID`, `MaxTime`, `MaxRow`, `MaxPending`, `MaxLate` and the number of request slots; where a
bound stops the model, the cfg switches off the deadlock check (ids, seconds or connections
are used up), and liveness is stated for what had begun. Every property is broken by a
mutant of the code's definition, listed in `PROJECT.json`.

### Fairness

- `Monitor`: WF of a pass's own steps. The Go scheduler runs a goroutine that can run; that
  `processLink` and the queries return is an assumption, as `http.Client` has no timeout here.
- `Bot`: WF of the loop, for the same reason; nothing is assumed of users, crashes or Telegram,
  nor that a call that goes on without the bot ever ends.
- `SqlStore`: SF per request, since a request waits for connections and locks, which come and
  go; the pool and PostgreSQL queue their waiters. The requests' failures are not fair.
- `LinkProcessing` and `OrmStore` have safety only: an ORM request may wait for a connection
  that an earlier one has left behind, for ever, so that no answer can be promised; what may
  stop it is what `JamIsThePool` and `NoneWaitsForItself` are about.

## 5. What the runs found

Each of these runs checks one property that a text of the repository states, and TLC shows how
the code breaks it (`findings` in `PROJECT.json` quotes the text).

- `monitor_returns`: `wg.Add(config.Workers)` (`scrapper/server.go` 151) while only as many
  goroutines start as there are chunks. Three links for four workers make three chunks:
  `wg.Wait` never returns. A page that is smaller than the workers does it in every pass.
- `bot_editing`: an update without a message does not move `offset` (`manager.go` 419), and
  with `limit=1` nothing after it is ever delivered.
- `sql_untrack`: `DELETE ... WHERE NOT EXISTS` (`sql_service.go` 213) decides on its snapshot,
  waits for an AddLink to commit and then cascades over its subscription.
- `link_repeats`: StackOverflow answers newest first and `lastTime` (`stackoverflow.go` 194)
  ends at the oldest: with two answers at once the newer one is sent again.
- `orm_tags`: `addTags` inserts into `link_tags` in a transaction of its own, which does not see
  the subscription AddLink has not committed, and under the chat's telegram id instead of its
  row's; the refused row is only logged. AddLink answers nil and the tags are not there.

Two more disagreements with a text are in the models and have no run of their own, since each is
one line and one step, which reading shows as well:

- AddLink answers `ErrLinkAlreadyExists` as soon as any chat has the URL, when a link was left
  without a chat, and when its SELECT fails (`sql_service.go` 75); the bot then tells this chat
  "В списке отслеживаемых уже есть эта ссылка" (`messages.go` 24), of a link that is not in its
  list. `AddLinkOutcomes` has that answer (409) with the pair absent.
- The loop over the rows of GetLinks does not ask `rows.Err` (`sql_service.go` 310): a query that
  breaks off is a shorter list, and "Нет отслеживаемых ссылок" (`messages.go` 5) may come to a chat
  that has some. `AnyOfItsLinks` has it: `NoSavedPages` whatever is tracked.

`SaidIsSo` is therefore about "Saved", "Deleted" and "LinkNotFound" only, and `Tracking` lets the
refusal of AddLink (`AddRefused`) say nothing of the chat.

Seen while modelling, and in the models as the code has them, with no text that says otherwise:
a chat is greeted and its state moved on even when its registration failed
(`HandleAwaitingStart`); an AddLink of a known link costs a connection for ever (SQL: its
transaction, ORM: `getLinkID`'s), which `AnsweredUnlessExhausted` and the two properties about
jams except; the bot sends an update to the first chat of the list only.

## 6. Proofs

TLAPS checks them for every value of the constants that satisfies the named assumptions:
`MonitorAssumption` (any integers for Batch and Workers, a natural MaxID), `LinkAssumption`
(known sources, finitely many items, positive page size and clock), `BotAssumption` (groups are
chats, a link is not the empty slot's word, updates are texts of chats, naturals for the two bounds), `SqlStoreAssumption` and
`OrmStoreAssumption` (requests are made of the users, URLs and tags there are, finitely many
slots, a pool of at least one connection).

- **MonitorProofs** - the safety properties of `Monitor` are not inductive: that a row is not
  visited twice depends on where unvisited rows are. `IInv` adds that chunks are disjoint,
  unvisited and below the cursor (`VisitInv`), that they hold every row the pass still owes
  (`OwedInv`), that a page has at most `Workers` chunks (`SplitInv`) and that ids are never
  handed out twice (`TableInv`). Lemmas on what `splitIntoChunks` and the query yield for any
  page (`SplitCount`, `SplitPartitions`, `PageIsAPrefix`, `EmptyPageIsTheEnd`), by arithmetic on
  the chunk size, carry the step `GetBatch`. Theorems: `TypeCorrect`, `WaitGroupSafe`, `Barrier`,
  `NoDoubleVisit`, `NoneSkipped`, `WaitIsForAll`; and `MonitorImplementsPaging`, step by step: a
  page is the rows up to its last one and no more than `Batch` (`PageIsUpToItsTop`,
  `GetBatchPages`); a link begun is in one chunk only, so that it leaves `todo`, and its worker was
  not busy, so that no more than `Workers` are (`BeginLinkPages`); and where the WaitGroup is at
  zero every worker is done and every chunk empty (`WaitPages`).
- **BotProofs** - all of `Bot`'s safety. `IInv` adds what a handler leaves for its call and its
  message (`HandlerInv`: which state, which request, which command), where an update can be
  whose call was made (`EffectInv`: about to be confirmed, or before a process whose chats all
  are in `AwaitingStart`, where no command calls the scrapper), and, per chat in a dialogue, that
  the request has the link the user was asked about and the answer taken in last
  (`DictationInv`). Each handler is shown to keep it by lemmas on what a handler, a call, a
  return and the late end of a call do: a call that ends late never is a group's, and it takes
  back what was said of each pair it changes. Theorems: `BotTypeOK`, `BotDialogueHasRequest`, `BotSavesWhatWasDictated`,
  `BotOneEffectPerUpdate`, `BotSaidIsSo`, `BotConfirmsOnlyFinished`.
- **LinkProofs** - `NoneStranded` speaks of the saved time only, while a worker is dangerous
  from the moment it has read one. `IInv` adds that the time a worker read (`AskInv`) and the
  time it is about to save (`SaveInv`) cover nothing that is due and in nobody's hands, and
  that only published items of a link with a row are due (`DueInv`). The step that needs an
  argument is `GetUpdates`: what is due and newer than the time asked for is in the answer, or
  was taken from `due` as left out; and then in the news, for either source. `RInv` also
  follows an item to its first message: from the save that covers it on, as long as no reason to
  repeat it is found, `changed_at` covers it (or the link has no row), and one worker at most has
  it, which nobody has been told of before (`OnceInv`). For either source the reasons are those
  of `again` and, on StackOverflow, an older time saved along with it (`beyond`); for GitHub the
  time saved is the newest, and `again` is enough. Theorems: `LinkTypeCorrect`, `NothingStranded`,
  `LinkRepeatsAccountedFor`, `GithubRepeatsExplained`.
- **WaitGraphProofs** - `SomebodyOnCycle`: where each of finitely many requests waits for one of
  them, one is on a circle. Of those with what is ahead of them take one for which that set is
  least; what it waits for has the same set ahead, and is in it.
- **SqlProofs** - `IInv` adds to the types what each `pc` says of the transaction and the locals
  (`ShapeInv`), that ids are not handed out twice and a URL has one (`IdInv`), that connections
  in use and leaked never exceed the pool (`PoolInv`), and that rows refer to rows that exist or
  are on their way (`RefInv`); `SaveInv` says, per statement of AddLink, what its transaction has
  or that it has failed. `JamIsExhaustion` is argued from the ends: if all wait and the pool has
  connections to give, what the others wait for is in the end held by requests that save tags;
  those wait for each other; by `SomebodyOnCycle` one is on a circle, but one on a circle does not
  wait, it fails. Theorems: `SqlTypeOK`, `SqlUniqueUrl`, `SqlOrphansExplained`,
  `SqlSavedMeansStored`, `SqlJamIsExhaustion`.
- **OrmProofs** - `IInv` likewise, with the locks that abandoned transactions keep (`StuckInv`).
  `NoneWaitsForItself` needs that a request finds three connections when it is alone: that is
  the assumption `MaxConns >= 3` of its theorem, and with two it is false. `JamIsThePool` is
  argued like `JamIsExhaustion`, with the requests that save tags or filters at the ends.
  Theorems: `OrmTypeOK`, `OrmUniqueUrl`, `OrmNoneWaitsForItself`, `OrmJamIsThePool`.
- **SqlTrackingProofs**, **OrmTrackingProofs** - every step of a storage is a step of Tracking or
  a stutter. Committing AddLinks map to `Add` or `AddNothing`, a DELETE to `Remove`,
  `RemoveNothing`, `Leave`; the DELETE of the link itself (SQL) to `Cascade` or `RemoveDone`. What
  makes it go through is `SeenInv`: a request that found the subscription there, or gone, has
  TRUE, or FALSE, among what was true since its call. The ORM side also needs that a chat has
  one row and that the row a DELETE is after belongs to its own chat (`RowsInv`). Theorems:
  `SqlImplementsTracking`, `OrmImplementsTracking`.

Every safety property of the passing runs is proved. Only model-checked: liveness
(`FullSplitReturns`, `MessagesTakenIn`, `AnsweredUnlessExhausted`; the provers here have neither
fairness nor ENABLED) and the findings of section 5. `RepeatsExplained` is a theorem for GitHub
only (`GithubRepeatsExplained`), since it is false for StackOverflow (`link_repeats`).
What a recursive function computes for every input would need induction over data, out of reach
too; no module uses RECURSIVE.

## 7. Abstractions and limits

- A text is the sequence of its words, a message its kind; wording and layout are left out.
- A link is one of a few values; `isValidURL` accepts some of them.
- In `Bot` a call to the scrapper takes its effect in one step, when it is answered or late; what
  the statements of overlapping calls do to each other is the storages' part. A late AddLink may
  add its pair although another chat tracks the link (it may have passed its SELECT before), and
  a late RemoveLink may take other chats' pairs along (`sql_untrack`): more than the code does,
  so that what holds here holds there.
- `SaveTag` of `SqlStore` is the three statements `saveTags` makes for one tag, and its
  `DeleteChat` the one DELETE with its cascades, each in one step.
- `saveFilters` has the shape of `saveTags` in the SQL storage; tags stand for both. In the ORM
  storage they differ and both are there. The tables of names are only ever added to there and
  decide nothing; they are left out of `OrmStore`.
- Circles of waiting transactions, of any length, are broken by PostgreSQL at any one of them.
  The scrapper's own end under a request is not in the storages' models.
- Time in `LinkProcessing` is whole seconds, the resolution of the sources' dates. An item
  published in a second already covered (`Covered`) is not counted as due: the code cannot
  find it, dates having no fractions. The processes run in UTC, as the containers do (pgx
  writes a timestamp without its zone).
- An answer of GitHub may be any page of what is published (best matches, or less when its
  search ran out of time); one of StackOverflow is the newest page.
- A failed save, query or post, a crash after the save and a full page lose updates; no text
  of the repository promises otherwise, so `NoneStranded` takes them from `due` by name.
- Not modelled: the dictionary storage (nothing constructs it, and it does not have the
  interface's methods), the ORM storage's read queries, configuration beyond its range of values,
  formatting, decoding, routing, `SetBotCommands`, logging and startup.
