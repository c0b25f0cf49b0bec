# AnkiPaper in TLA+

Models of the parts of AnkiPaper in which order, failure or time matter, checked
with TLC on small instances, and proofs, checked with TLAPS, of the most
important safety properties for instances of any size. Source paths are relative
to `src/app/`.

AnkiPaper is one Python process with one asyncio event loop. It serves web pages
for e-ink browsers, keeps an Anki collection per account on disk, and exchanges
collection and media with AnkiWeb. A coroutine runs undisturbed from one `await`
to the next; blocking work goes to a thread pool. That is the grain of the models:
**one action is one stretch between two awaits, or one function run in a thread.**
Where files are written it is one write, and where a browser takes part one request
or one click.

## 1. The system

| Component | State | Operations | Depends on | Model |
|---|---|---|---|---|
| Sync flow: `web/routes/sync.py`, `sync/state.py`, `sync/client.py`, `sync/progress_poller.py` | `SyncState` in memory (status, phase, error, pending conflict, endpoint), hostKey on disk | `POST /sync`, `/sync/conflict`, `/sync/full`; background tasks for collection, full transfer, media; poller | account lock, AnkiWeb, rate limit | `SyncFlow`, abstractly `SyncJob` |
| Account collection: `storage/account.py`, `storage/eviction.py` | `_collection`, `_lock`, `_last_access` | `run`, `run_extended`, `peek`, `close_collection`, the sweeper | thread pool, Anki | `AccountCollection` |
| Media sync: `sync/media_http.py`, `sync/media_files.py` | media folder, `last_usn` | begin, list changes, download a batch, apply deletions | AnkiWeb; started by the sync flow | `MediaSync` |
| Redis client: `web/ratelimit.py` | the global `_client` | `_ensure_client` | Redis | `RedisClient` |
| Sign-in and limits: `web/ratelimit.py`, `web/routes/auth.py` | counters in Redis | `POST /login`, `check_sync_rate_limit` | Redis client, AnkiWeb | `LoginLimiter` |
| Home page: `web/routes/study.py` (`home`) | `_deck_stats_inflight` | `GET /`, reload of the loading page | account lock | `HomeStats` |
| Studying: `web/routes/study.py`, `web/routes/study_spa.py`, `domain/scheduler.py` | the collection: due cards, decks, flags, undo stack, current deck | show, reveal, answer, undo, flag, delete, rebuild, empty | account lock, Anki | `Study` |
| Single-page client: `web/static/js/study_spa/`, `web/routes/study_spa.py`, `web/req_types/study_dto.py` | busy flag, last state, buttons drawn ahead of it, delete question | clicks, JSON endpoints, answers | the collection | `StudySpa`, over `Study` |
| Secrets: `storage/secrets.py` | `session.secret`, `hostkey.secret`, `hostkey.enc` per account | save, load, delete | file system | `SignIn` |
| Registry: `storage/account_store.py` | dictionary of `Account` objects | `get_or_create`, `get_loaded_or_none`, `try_load` | account directories | `SignIn` |
| Sessions, CSRF, dependencies: `web/session.py`, `web/csrf.py`, `web/deps.py` | the browser's cookie, the token in each page | sign in, sign out, `require_csrf`, lookup of the account | secrets, registry | `SignIn` |
| Pages around a sync: `web/templates/sync_*.html`, the redirects of `web/routes/sync.py` and `auth.py` | what each tab shows, and the form in it | refresh, redirect, click, sign out | sync flow, cookie | `SyncBrowser`, over `SyncJob` |
| Media route, wire format, SEO, metrics, middlewares, start-up | none of their own | | | not modelled |

How they interact: a route resolves the account from the cookie and calls
`Account.run`, which serialises work on the collection with a lock. `POST /sync`
passes the rate limiter (Redis), starts a background task and redirects to a wait
page that refreshes itself by reading `SyncState`. The task takes the account's
lock for each step on the collection, hands over to a media task, and may stop to
ask the user for a direction. Study pages take several turns at the lock to build
one page, the last of them a status check that gives up after three seconds. A
sweeper closes idle collections.

Where it is hard, and what would go wrong (PROJECT.json lists each hazard at its
line):

- *await between check and use*: `sync_post` reads the hostKey and awaits the
  limiter before it tests `status`; `_ensure_client` uses a global after `await`;
  the sweeper tests idleness before it waits for the lock.
- *cancellation that does not cancel*: `wait_for` around a call whose function runs
  in a thread releases the lock and leaves the thread at work.
- *handing over*: poller and media phase write the same fields; the endpoint AnkiWeb
  names must survive a conflict that resets the state.
- *a remote that moves*: AnkiWeb's media list changes while it is read, page by page;
  a session can die between any two steps, and `last_usn` decides what is never
  looked at again.
- *shared and timed work*: requests share a task, give up on it, and come back.
- *several tabs*: forms sent twice, from pages that are no longer true, while the
  collection's "current deck" is a single setting and the cookie may by now be
  another account's.
- *files written in place*: a key or a hostKey is truncated before it is written, and
  every later start of the process trusts what it finds.
- *drawn before it is saved*: the single-page client shows a flag or a mark at once and
  has to take it back when the request is refused or lost.
- *pages that act by themselves*: refreshes and redirects, decided by a state that a
  background task changes meanwhile.

What makes each correct: one job at a time whose end is always reached; one
function at a time in a collection; no media change passed over; a Redis client
that works or an error; counters that limit and expire; fresh statistics that
arrive; answers that count for the card they were given to, once; keys that outlive
every stop; one `Account` per user; forms that act for nobody else; pages that lead
somewhere and transfers that go the way the user confirmed.

## 2. Modules and their correspondence to the code

`PROJECT.json` maps each definition to its lines. Names follow the source where
TLA+ allows it. Definitions named `X_Something`, just before `X`, are deliberate
mistakes (a dropped guard, a forgotten reset): substituted for `X` they make the
property they are listed with fail. No specification uses them.

**SyncFlow** (with `SyncJob` as what it promises). `pc[t]` is the `await` at which
background task `t` is suspended; a task that schedules its successor and returns
hands its slot over, because the code creates the new task in the same stretch.
`reqPc`, `reqKey` hold a `POST /sync` and the hostKey it read before its await.
The five fields of the conflict and the job are those of `SyncState`. `lock` is the
account's lock as seen by these tasks, with a nondeterministic next holder (the
real FIFO order is a refinement). A task that stops its poller and waits for it to end
does so in the step in which it ends: a cancelled poller applies no reading any more, and
the task does nothing after. `Restart` keeps what is on disk. `Login` and
`Study` are what the rest of the program may do to the hostKey and the collection.
Progress numbers and times, wording, and read-only pages are left out; the unit of
the progress bar is kept, because poller and media phase compete for it.

`SyncJob` is what the routes let a browser rely on: what `/sync/wait` shows (`job`), what
the running job is doing (`stage`), the conflict's `direction` and the one the transfer is
`going`, whether the login has `expired`, and whether there is a hostKey (`key`). Under
`SyncFlow`'s mapping a pending conflict is the job "conflict", `stage` and `going` come from
the task that lives and its local direction, the rest from `SyncState` and the disk.

**AccountCollection.** `place` is the coroutine, `thread` its function in the pool;
the two come apart when a status check is abandoned: its thread stays at work beside
whoever takes the lock next, a full transfer included. The lock is FIFO (`ahead`).
A full transfer detaches the collection object from its database and reopens it,
or fails to. `recent` abstracts `_last_access` to "within the idle time".

**MediaSync.** AnkiWeb keeps one entry per file, with the number of its last change.
A session collects pages after its cursor, downloads in batches what differs,
deletes, then writes `last_usn` with the number AnkiWeb named at the beginning.
Contents stand for hashes. A failure may come between any two steps, in the middle
of an extraction (between two files, or leaving one truncated) and in the middle of
writing `last_usn` (leaving it empty, which reads as 0). A file above the size limit is
passed over, or, when the zip understates its size, opened and removed again.

**RedisClient.** Each call of `_ensure_client` is at one of its awaits (connect, ping,
close) or between calls; the global is read and written at each, as in the code.

**LoginLimiter.** Counters with their remaining time, incremented by the Lua script
in one step. The two counters of a login are hit in two steps; AnkiWeb is asked in
the same stretch as the second, because `login()` blocks the loop. When no client is to
be had before the first counter, a login is refused with 503 and a sync is not begun; when
Redis fails at a counter, nothing handles the exception (HTTP 500) and Redis may have
counted; a failing reset is only logged. Observers count what was let through in the last
window.

**HomeStats.** Discrete time: a tick happens only when nothing is due. A request
creates a task of `list_deck_stats` or joins the unfinished one, waits two ticks for
it (shielded), and otherwise gets a page that reloads after two ticks.

**Study.** The collection as Anki presents it (external, modelled from its use): due
cards in order, decks with descendants, filtered decks that borrow cards, flags,
marks, an undo stack, the selected deck. One tab is followed from page to page; all other requests
are calls of the functions of `scheduler.py` with any arguments, at any time.
`AccountCollection` says when such a call is alone in the collection. Anki answers
against the queue of the deck selected by then (`Queued`), which is why `answer_card`
selects the deck of the form first (`QueuedCardFor`). The observer `disturbed` says that
somebody has changed a queue since the tab asked for its page. The several reads that build one page are one step, since each selects its own deck and none
changes the data.

**StudySpa** extends `Study`: the same collection, the same calls by others, and the
single-page client in place of the tab (`page`, `card` are what the client shows).
`state` is `ctx.state.card`, `buttons` what is drawn, `label` the change the Undo button
names. A request goes through the calls of its endpoint one by one (`Stages`): the
change, the next card, the undo label, each a call of `Account.run` with other requests
between; then its answer arrives, is refused, or is lost. The client may be opened again at
any time (`Reopen`), and is when it shows nothing (`Reload`). Observers say whether anything
has changed since the server collected what is shown (`fresh`), and whether a shown back
is still to be answered (`owed`).

**SignIn.** A sign-in holds the event loop from `get_or_create` to the redirect and
writes files step by step; a thread may look up an account at any point, and the process
may stop or the disk refuse a write at any point. A key is a number, a ciphertext or a
signature is the number of the key that made it. Names come in two spellings, because
AnkiWeb accepts both and the account's directory must not tell them apart. An empty
`session.secret` is a key like any other: that anyone could sign with it is not
represented. `StoredKeyReadable` is about a `hostkey.enc` that was written in full; one that
a stop left empty is a hostKey the user has lost, and has to sign in for again.

**SyncBrowser** extends `SyncJob`, the job `SyncFlow` implements, so that the pages are
checked against every order of its steps and not against the details of the tasks. A tab
shows a page and may have a request on its way; a redirect is the browser's next
request. `shown` is the direction in the form of the page, `carries` the one it sent:
pages stay open while the conflict changes, which is also what the Back key does. The
observer `confirmed` is what the page showed whose confirmation was taken last; what the
server does then is `SyncJob`'s, so that the two can differ.

## 3. What the runs check

| Run | Checks | Instance, and why it is enough |
|---|---|---|
| `sync_flow` | types; `SingleFlight`, `ConflictIsExclusive`, `EndpointCarried`, `UnitMatchesPhase`; `JobEnds`; implements `SyncJob` with its fairness | 2 task slots (a second task would need one), 2 overlapping POSTs, 2 hostKeys (old and new), 1 redirect besides "none". The safety part is proved for any number. |
| `auto_download` | violation of `UnconfirmedDownloadLosesNothing` | same |
| `sync_browser` | `ConfirmedAsShown`; `WaitEnds`, `RedirectsEnd`, `ConflictGetsAnswered` | 2 tabs, one of them left open while the other decides; 3 clicks that answer no question, refusals by the limiter or restarts: enough for a conflict to be decided, replaced and confirmed from an old page, and for a sign-out in between |
| `account_collection` | `SerialUnlessAbandoned`, `TransferAmongAbandoned`, `OpenWhileWorking`; `CallsReturn`, `QuietAccountRecovers` | 3 callers and the sweeper: one abandoned, one holding the lock, one waiting; 2 worker threads, so that a call may wait for one |
| `serial_access` | violation of `SerialAccess` | same |
| `media_sync` | types; `NothingMissed`; `CatchesUp` | 3 files (two images, one sound that is not downloaded), contents of allowed and excessive size, 4 changes by AnkiWeb, pages and batches of 2: full pages, a short last page, a file listed twice and several batches in one session all occur |
| `rate_limit` | counters: `CountersExpire`, `TwiceTheLimit`; `LetInAgain`. Client: `ReturnsVerified`, `AloneReconnects` | either half of `web/ratelimit.py` (`MCRateLimit`): they share no variable, and `RedisFails` stands for all that the client may do to a counter. 2 overlapping requests of one user at one address; limits of 2, 1 and 1, windows of 2, 2 and 1 ticks, so that hits fall on both sides of a window's edge. 2 calls, 3 client objects: the cached one and one per call |
| `sign_in` | `OneAccount`, `StoredKeyReadable`, `CookieWorks`, `FormsActOnOwnAccount` | 2 users, either spelling, 2 tabs of one browser, 2 stops or refused writes (one to leave a torn file, one to come back to it), 2 keys (one per key file: a second key for the same file is what must not happen) |
| `torn_key` | violation of `CanSignBackIn` | same |
| `home_stats` | `ShowsOwnReviews`; `LoadingEndsInTime` | 2 tabs, 3 task slots, one change of the collection; reads of 5 ticks, which end while a request waits for them |
| `home_loading` | violation of `LoadingEnds` | 1 tab; reads of 3 ticks, which end while the loading page is shown |
| `study` | `AnswersFirstOfItsDeck`, `TabCompletes` of a tab; `ScreenIsCurrent`, `CountsOnce`, `SpaCompletes` of the client | either way of studying (`MCStudy`; the other requests are the same). A deck and a filtered deck below it, either of them studied, so that their queues differ; 2 cards, alike, so that one order of them is enough; one flag the payload can carry and one it cannot; up to 3 calls by others beside a tab, 2 changes or losses beside a client: a change and the loss of its answer, a change under a request in flight |

The type invariants of `AccountCollection`, `RedisClient`, `LoginLimiter`, `SignIn`,
`HomeStats`, `Study` and `StudySpa`, and two action properties, `KeysLast` of `SignIn` (a key file, once written, is
never replaced) and `TouchesOnlyNews` of `MediaSync` (files that `last_usn` has passed are
left alone), are proved (section 5) and not listed in a run, and so is `SyncBrowser`'s type
invariant.

Deadlock is checked everywhere but in `sync_browser`: users may always do something
more, and the models have no final state. In `SyncBrowser` clicks are bounded and
nothing happens by itself once every tab waits for its user.

Bounds, all named: `MaxUsn` (changes AnkiWeb makes), `MaxVersion` (changes of the
collection while statistics are read), `MaxChanges` (what other requests do to a
study session, or losses a client suffers), `MaxSpaChanges` (the same in `MCStudy`'s client), `MaxClicks`, `MaxFaults` and `MaxKeys`; counters of the limiter stop one above their limit. Sets of slots
(`Task`, `Req`, `Client`) bound what happens at the same time, not in sequence: slots
are used again.

**Fairness.** Users, AnkiWeb's other clients, outages and restarts owe nothing.
`SyncFlow`: each live task's next step (the loop resumes it, AnkiWeb and threads
answer or time out). `AccountCollection`: weak for each step of a caller and of the
sweeper, whose loop wakes every minute; strong for a thread to start, because the
pool serves its queue in order while others keep it full. `MediaSync`: the thread of
a session runs on, and the user syncs again; `CatchesUp` assumes that failures stop.
`RedisClient` has safety properties only. `LoginLimiter`: the clock alone, so that a
client that never rests is included. `HomeStats`: the clock and whatever is due.
`Study`: `KeepsStudying` describes the user `TabCompletes` is about, who reveals
and passes cards; the other requests owe nothing. `StudySpa`: the server answers (weak);
its user takes back an offer to delete (weak), and reveals, passes or reloads when these
are possible again and again (strong), because a redraw by another request may take the
button away in between. `SyncBrowser`: each tab's requests are served and its page
refreshes itself (weak), the job goes on, which `sync_flow` checks of the tasks, and a
user who wants a conflict out of the way keeps trying in some tab (strong; the wait page
may take the page away between two tries). `SignIn` has safety properties only.

## 4. What the code does not keep

Statements of the repository that a run refutes; PROJECT.json quotes them.

1. `serial_access`: `Account.run` "guarantees serial access". A status check that
   times out (`sync/client.py:219`) releases the lock while its thread goes on in
   the collection. `SerialUnlessAbandoned` is what is left of the promise. A full
   transfer is not spared: such a thread may still read the collection while the transfer
   takes it apart. `TransferAmongAbandoned` says that nothing else is beside it.
2. `auto_download`: an exception while counting cards is taken for an empty
   collection, and a full download nobody confirmed follows.
3. `torn_key`: "the user can sign back in". A stop or a full disk between creating
   `hostkey.secret` and writing it leaves an empty file: every later sign-in ends in an
   error.
4. `home_loading`: "This page updates automatically". Statistics that are ready only while
   the loading page is shown are thrown away and read again, for ever.
   `LoadingEndsInTime` is what holds of reads that end during a wait.

The modules state more that the code does not keep and that have no run of their own;
the definition, listed in the module's configuration, shows the counterexample:

| Definition | Module | What happens |
|---|---|---|
| `DeletesTheRejectedKey` | SyncFlow | a failing job deletes the stored hostKey, even one saved after it read its own |
| `BackOffersTheChoice` | SyncBrowser | the Back link of the confirm page leads to the confirm page again: once a direction is set, `/sync/conflict` no longer offers the choice |
| `OneSidedStays` | SyncBrowser | a conflict page left open chooses a direction although AnkiWeb now forces the other |
| `RemovesOnlyDeleted` | MediaSync (pages of 1) | a file deleted and got back between two pages of a listing is downloaded and then removed; the next session repairs it |
| `ClosesOnlyIdle` | AccountCollection | the sweeper closes a collection used while it waited for the lock; harmless, the next call opens it (`OpenWhileWorking`) |
| `TransferIsAlone` | AccountCollection | while a transfer works on the detached collection, the thread of an abandoned status check is at work in it too (1) |
| `ReturnsAClient` | RedisClient | a call returns the global that another call has just cleared: None, and its caller fails with an AttributeError |
| `RollingWindow`, `SuccessIsNotPenalised` | LoginLimiter | the window is fixed; the counter of the address survives a successful login |
| `StateIsReturned` | StudySpa | a card with one of Anki's flags 5 to 7 cannot be put in the payload: HTTP 500 instead of the card; `SpaCompletes` is about decks without such flags |

## 5. What is proved

For every value of the constants, from the named assumptions of the modules: the
"no such" values differ from the real ones (`None` is not a request, a failed result not a
client), limits, windows, durations and sizes are positive, the sets of files and of cards
are finite, a deck is at or below itself and a card's home is no filtered
deck. Nothing bounds tasks, requests, tabs, users, faults or changes.

Each proof has the same shape: an invariant `IInv` (`BrowserInv`, `ClientInv`, `QueueInv`,
`StudyInv`, `SpaInv`) whose parts have names, a lemma that it holds initially, one lemma per
part that a step keeps it, with one case per action, and theorems that read the properties
off it. TLC was given the parts first, on the instances of section 3.

- `SyncFlow_proofs`: `TypeOK`, `SingleFlight`, `ConflictIsExclusive`, `EndpointCarried`,
  `UnitMatchesPhase`. `SingleFlight` alone is not inductive: that no task lives while
  a conflict is pending, and that status is "running" exactly while one does, support
  each other (`Flight`). `UnitMatchesPhase` needs to know where a poller can be alive
  (`PollerConfined`). With these, `ImplementsJob`: initial states and steps of `SyncFlow`
  are initial states and steps, or stutters, of `SyncJob` under the mapping of section 2.
  For the directions it needs that a direction is set only while a conflict waits for it
  (`Decided`), and that at most one task transfers, which took its direction from the
  conflict (`TransferStep`, `GoingIs`). Two action properties follow: a transfer keeps the
  direction that was decided (`AlwaysTransfersAsDecided`), and the hostKey is deleted only
  by a job that ends with an expired login (`AlwaysKeyLostByExpiry`; that it may be a newer
  key than the job's is in section 4).
- `SyncBrowser_proofs`: `BrowserTypeOK`, `ConfirmedAsShown`, for any number of tabs. The
  job is consistent (`JobConsistent`: a direction only in a conflict, `going` only in a
  transfer, an expired login only in an error), which is proved of `SyncJob` alone
  (`AlwaysJobConsistent`). A tab that sends a confirmation still shows the page it is from
  (`FormsSayWhatIsShown`). Steps are first shown to be no step of the job, or one named
  action of it (`StepEffect`). Hence `PagesKeepTheJob`: no order of pages, old or new, takes
  the job where `SyncJob` does not allow, and `TransfersAreConfirmed`: a transfer begins
  only when a signed-in tab confirms the conflict's present direction. Together with
  `ImplementsJob` this links the two models: what is proved of the pages rests on
  `SyncJob`, and the tasks implement it.
- `AccountCollection_proofs`: `TypeOK`, `SerialUnlessAbandoned`, `TransferAmongAbandoned`,
  `OpenWhileWorking`. The invariant says that the lock's holder is exactly who is
  "running" (`LockHeld`), that a thread not owned by the holder is an abandoned status
  check (`ThreadOwned`), and that a transfer has the collection detached and any other
  awaited function has it open (`Untouched`, which contains `OpenWhileWorking`).
  `AlwaysLockIsHandedOn` is the safe half of `CallsReturn`: when the lock is free and
  somebody waits, the front of the queue can take it, and the sweeper there has something
  to close. The queue is a line (`InLine`), a finite line has a first (`LineHasFirst`, by
  the least number of predecessors), and nobody closes the collection while the sweeper
  waits to (`SomethingToClose`).
- `MediaSync_proofs`: `TypeOK`, `NothingMissed` and `TouchesOnlyNews`. The heart is
  `QueueComplete`: every entry the session has passed with its cursor and that is not on disk is still in its
  queues, or has changed since, with a number above the one the session will write;
  `QueueSound` bounds what the queues hold, `UsnsOrdered` the numbers. It rests on
  lemmas about a page: it is a prefix of what follows the cursor, and a short one is
  the last.
- `SignIn_proofs`: `TypeOK`, `OneAccount`, `StoredKeyReadable`, `CookieWorks`,
  `FormsActOnOwnAccount`, `KeysLast`. A sign-in decides what to write
  in one step and writes it in a later one; `LoopOwned` (only the owner of the event loop
  is writing) is why what it found is still so (`FilesInTurn`). `OneAccount` holds
  because every name but a typed one has been sanitized (`NamesSanitized`), so that one user has one entry,
  and a request holds what the registry has (`HeldIsRegistered`).
- `RateLimit_proofs`, about the two halves of `web/ratelimit.py`. `RedisClient`:
  `ClientTypeOK`, `ReturnsVerified`, `AloneReconnects`. The global a call will return is the
  object it pings, or one that has answered meanwhile (`PingsTheGlobal`); an undisturbed
  call can meet a broken connection only in its first round (`AloneSoFar`). `LoginLimiter`:
  `TypeOK`, `CountersExpire`, `TwiceTheLimit`. Any period as long as a window meets the
  running window and one before it: what the running one has let through is bounded by its
  counter, what lies before it by the limit (`TwoWindows`). Sums over a period are running
  totals (`RunningTotal`), which a hit shifts from one age on and a tick moves by one age;
  that is all the induction the proof needs.
- `HomeStats_proofs`: `TypeOK`, `ShowsOwnReviews`. A page may join a task another page
  started: the task has not read before the page was asked for (`ReadsAfterAsked`), because
  the entry is a task that has not read yet or that reads the present
  (`EntryIsMade`, `ReadsThePresent`).
- `StudySpa_proofs`, about both ways of studying. `Study`: `TypeOK`, `AnswersFirstOfItsDeck`.
  The collection is `Sound` when every due card exists and is due once, and when this is
  also so of every state Anki has saved to undo a change: without the second half
  `UndoLastOp` keeps nothing. Lemmas say what the operators return: the head of a deck's
  queue is a due card of the deck (`FirstIsDue`, which needs a least index, `MinIsLeast`),
  a card taken out is gone (`RemovedIsGone`), a card put back is due once (`AppendedOnce`).
  `AnswersFirstOfItsDeck` needs that the card on an undisturbed page is still the first of
  the tab's deck, whatever deck is selected meanwhile (`ShownFirst`): the answer selects that
  deck before Anki compares, and only a change of a queue makes another card its first.
  `StudySpa`: `SpaTypeOK`, `CountsOnce`, `ScreenIsCurrent`. Clicks, stages of a request and
  answers are first shown to have one of fifteen effects (`StepEffect`), and the invariant
  is proved about effects. `CountsOnce` needs that a back on the screen is owed an answer
  unless one is on its way that has been counted (`AnswerOwed`); `ScreenIsCurrent` that a
  request is about the card on the screen (`AboutTheScreen`), and that what it carries is
  what is stored as long as it is fresh (`AnswerKept`, `ScreenKept`).

Only model-checked:

- liveness and fairness everywhere (`JobEnds` and the fair half of `JobSpec`, `CallsReturn`,
  `QuietAccountRecovers`, `CatchesUp`, `LetInAgain`, `LoadingEndsInTime`,
  `TabCompletes`, `SpaCompletes`, `WaitEnds`, `RedirectsEnd`,
  `ConflictGetsAnswered`): they rest on `ENABLED`, for which the provers have no rules;
- the four statements of section 4 that have a run, which are false.

## 6. Not modelled, and the plan

Not modelled: text (HTML and its cleaning, interval labels, error wording, SEO); the
encodings of the wire format (`sync/media_protocol.py`: headers, compression, JSON), of
which `MediaSync` uses the contents; the media route, which serves one file and changes
nothing; metrics, middlewares, settings and start-up, which no other part's state
depends on; the attributes and the lifetime of cookies; the size limits on media folders
(the docstring of `sync/media_files.py:153` speaks of limits the code does not have);
and the file system below a write; the loss of the counters when Redis restarts with
nothing saved, which lets every client begin a new window. In `StudySpa` an Undo whose answer was lost and that
is clicked again undoes two changes: nothing in a request tells a repetition from a
second wish, and no property is stated. `login()` asks AnkiWeb on the event loop, so the
whole process waits: there is no interleaving to check.

An abstract replica as a specification above `MediaSync` was considered and left out:
its promise, that what `last_usn` has passed is on disk, is `NothingMissed`, which is
proved directly.

Every safety property that a passing run checks is proved, and so is the safe half of the
refinement. What is open: liveness, for which `LockIsHandedOn` and `AloneReconnects` are
the parts within the provers' reach; and a proof of what section 4's other definitions
become once the code they are about is changed.
