# xsensai verification

TLA+ models of xsensai, checked with TLC on small instances and, where marked,
proved with TLAPS for every value of the constants. xsensai keeps a corpus of
Markdown cards in an Obsidian vault. Bookmarks on X are pulled in by `/xsync`
and by a cron job, text is pasted and cards are edited through the tools of an
MCP server, and cards are found again through the `qmd` search engine. There is
no database: all shared state is files, and several processes (a server per
editor session, a sync, cron) work on them at once.

Paths below are relative to `src/src/xsensai/`.

## 1. The system

| Component | State | Operations | What makes it right |
|---|---|---|---|
| card_write lock, `locks/filelock.py` | `.locks/card_write.lock` (flock), `card_write.json` (fencing token) | `with_card_write_lock`, `verify_fencing_token` | one writer inside; a displaced writer is told so; a check that failed never succeeds again |
| card store, `storage/corpus.py`, `sidecar.py`, `slug.py` | `{id}.md`, `{id}.{checksum}.raw.txt`, their temporaries, `_index-dirty` | `write_card` (ten steps), `durable_replace`, `load_card`, duplicate checks | a card is whole and always has its sidecar; an update is atomic for everybody else; one card per tweet |
| MCP tools, `mcp_server/server.py` | none of its own | paste, annotate, pin, delete, restore | each is one atomic change of the card as it is at that moment; a deleted card stays deleted |
| confirmations, `mcp_server/nonce_store.py` | live codes and tombstones in memory | `issue`, `redeem` | a code confirms once, and only what it was shown for |
| sync, `sync/service.py`, `checkpoint.py`, `dedup.py`, `card_writer.py` | the checkpoint, its archive, the cards | `run`, `_gather_bookmarks`, `finalize_run` | what is reported done is done; nothing is skipped for good |
| reindexing, `retrieval/engine.py`, `qmd.py`, `sync/service.py` | `_index-dirty`, its in-flight copy, the index_rebuild lock, the index | `_maybe_reindex_if_dirty`, `_trigger_reindex`, `qmd.update` | one update at a time; no written card is forgotten; searches see what was marked |
| lazy extraction, `sync/lazy_extract.py` | the claim fields of a card | claim, apply, release | one claimant at a time; a dead claim is taken over |
| inbox, `storage/inbox.py` | `quick-inbox.md` and its fallbacks | append, snapshot, clear, recover | text given in is never lost |
| heartbeat and git, `sync/heartbeat.py`, `git_push.py`, `git_merge.py`, `git_check.py` | `_sync-status.md`, the vault's repository and its remote | commit, pull with rebase, resolve, push, retry | no commit of another machine is lost; a conflict keeps both versions |
| headless run, `entrypoints/headless.py`, `sync/auth.py`, `gh_secrets_updater.py` | the OAuth tokens in the secret store, a failure flag | `run` | a rotated token is kept, or the failure is flagged; what was written is pushed |
| questions, `xask/service.py`, `web_fork/last30days_runner.py` | two tasks and a subprocess | `prepare`, `fetch` | whatever fails or is late, the subprocess is not left behind |
| logs, `xask/log.py`, `sync/log.py` | one file each | append, purge | the purge drops old entries only |

The rest keeps no shared state of interest and is not modelled: ranking and
formatting (`retrieval/scoring.py`, `format.py`), the answer template
(`synthesis/`), the budget (`sync/cost_ceiling.py`, which the headless run makes
and nobody asks), the pages of the X client (`sync/client.py`, over a vendor
SDK; its tokens are modelled), the prompts, the setup wizard and the one-off
migration script. `PROJECT.json` lists each with its reason.

How they interact. Every writer of cards calls `write_card` under the card_write
lock; `write_card` leaves the marker `_index-dirty`, which the next search takes
as its order to run `qmd update`, under the second lock, index_rebuild, that the
end of a sync takes too. A sync writes its cards one lock at a time and after
each appends to the checkpoint, outside the lock. Deleting and restoring a card
through the server first passes the nonce store. A headless run exchanges its
token, syncs into a fresh clone of the vault's repository, writes heartbeat and
flags beside the cards, and commits and pushes them to the branch that the
user's Mac pushes to as well. A paste is kept in the inbox until its card is
written.

What is hard here:

* processes die between any two file operations, and nothing but the files
  remains (the order of sidecar, card and collection of the old sidecar);
* the temporary of a file has one name for all its writers, who are alone only as
  long as the lock keeps them apart;
* the lock belongs to an inode and its descriptor to a process, while its users
  are threads, and the user is told to `rm` the lock file;
* a decision is taken on what was read before a lock or an await was waited for
  (loads, duplicate checks, clocks, the dirty marker);
* runs overlap: two syncs, a sync and a paste, a search and a sync;
* half-done work must be taken up by a later run that knows only the files;
* X takes a refresh token once, so that a new one that is not stored is lost;
* the pushes of the cron job and of the Mac cross, are answered or not, and end,
  after conflicts or too many attempts, in a forced one.

`PROJECT.json` lists these hazards at the lines where they bite, with the
properties that watch each.

## 2. The modules

| Module | Models | Composed of |
|---|---|---|
| `DurableReplace` | a file and its temporary, written by any number of writers at once | |
| `FileLock` | the card_write lock: descriptors, inodes, flocks, the token file | `DurableReplace` |
| `Cards` | what a card is, and the gates and effects of every operation on one | |
| `CardLedger` | the abstract store: each operation is one atomic step | `Cards` |
| `CardStore` | every writer of cards, step by step through lock and `write_card` | `FileLock`, `Cards`; refines `CardLedger` |
| `NonceStore` | the confirmation codes | |
| `SyncRun` | syncs, their checkpoint and its archive | takes a locked card write as one step, as `CardStore` shows |
| `Reindex` | the dirty marker, searches, the end of a sync, `qmd update` | takes the lock as one step, as `FileLock` shows |
| `GitPush` | `commit_and_push` and the conflict resolvers, beside the Mac | |
| `CronRun` | a headless run: preflight, tokens, the sync's outcome, heartbeat, flags, exit code | `GitPush` |
| `LazyExtract` | sessions that share a card to be extracted | takes a locked card write as one step |
| `Inbox` | the paste inbox, its fallback and its recovery | |
| `RunLog` | appenders of a log and its purge | |
| `Ask` | a question: the search, the web task, its subprocess | |
| `Commands` | what the commands keep beside the cards | `NonceStore`, `LazyExtract`, `Inbox`, `RunLog` and `Ask`, which share no state |
| `FileLockProofs`, `CardStoreProofs`, `NonceStoreProofs`, `SyncRunProofs`, `ReindexProofs`, `CronRunProofs`, `CommandProofs` | the theorems; `CronRunProofs` has those of `GitPush`, `CommandProofs` those of `LazyExtract`, `Inbox`, `RunLog`, `Ask` and `Commands` | |
| `MCCardStore`, `MCSyncRun`, `MCReindex`, `MCCron`, `MCCommands` | the instances for TLC; `MCCommands` lets one of the five components of `Commands` work in a behaviour, since their interleavings show nothing new | |

Operators named `...Leaking`, `...Unchecked`, `...Stale` and so on, introduced by
"Seeded fault", are not part of any specification. Each is the definition after
it with a plausible mistake in it; put in its place, it breaks the property that
`PROJECT.json` pairs it with, which shows that the property can fail.

### DurableReplace

`durable_replace` (`sidecar.py:74`) opens the target's name plus `.tmp` with
`O_TRUNC`, writes at offset 0, syncs, and renames. `Files` is a target `at`, its
temporary `tmp`, the writers `busy` inside, and which of their descriptors are on
the inode that is the temporary now (`onTmp`) or in place (`onAt`); a descriptor
on neither is on a file without a name. So a writer may truncate what another has
written, rename what another is writing, write into a file that is in its place
already, or find its temporary gone. `Over` is what a write leaves of a file that
another has written: the new content, or `Torn`. A failure (`Failed`) may come
before or after the write and unlinks whichever temporary has the name. A
temporary that nobody is at is forgotten, since the next open truncates it.
Sidecars, cards and the lock's JSON are all written this way, in three steps each.

### FileLock

`path` is the inode at the lock's path, `file[o, n]` the inode that descriptor
`n` of process `o` is open on, `flocks` the descriptors that own a flock, `json`
the JSON file with its temporary. The stages of a writer follow
`with_card_write_lock`: open, `flock` with `LOCK_NB` (or `LOCK_HELD`), the three
steps of writing the JSON (each may fail), inside, unlink the JSON, close. The
paths that give up close the descriptor twice, as the code does; the number may
belong to another thread by then. `ClearLockFile` is the user's `rm`.

### Cards, CardLedger, CardStore

A card is its verbatim bytes (or none, for a v1 card), its note and the flags
pinned, deleted, pending, claimed. `Admits` holds the gates of the handlers and
`Updated`, `Created` and `Places` their effects. In `CardLedger` an operation is
one step; in `CardStore` it is: start, look for a duplicate (paste only), take
the lock, load, verify the fence, open, write and rename the sidecar, verify again,
open, write and rename the card, touch the marker, collect the old sidecar, leave.
A failure or a death can come between any two. `cardFiles` and `rawFiles` are
the files, `md` what the `.md` files hold. `DiscardOrphan` is `iter_cards`, which
unlinks temporaries that are five minutes old: at any time here, since a writer
may be suspended for as long. `displaced` is a history variable: in which of the
two windows, from the first check or from the second, some writer has lost the
fence.

### NonceStore

`now` is `time.monotonic()`. Calls read it before they wait for the mutex, so
a call may decide with an old time; the model keeps that time in the call. A
restart forgets codes and tombstones; `lost` is a history variable that marks
the codes made before it.

### SyncRun

Bookmarks are numbered 1..`feed`, the newest last. `saved` is the set with a
card; a sync's `pc` and `run` are the locals of `run`: the known set it read
before the fetch, what is left to write, whether something was written or
failed, and whether it has a `max_pages` (`bounded`: a headless run always has, any
other if the user gives one). The history variable `mishap` says that a write
failed, a run ended early or the pages of a bounded run did not reach everything
new. The branch of
`run` that skips tombstoned cards is not there: the set of known bookmarks
holds every card, deleted ones too, so no gathered bookmark can reach it.

### Reindex

Searches of one server are coroutines; `turn[p]` is `_REINDEX_LOCK` of process
`p`, `holder` the flock, `qmd[u]` the subprocess that user `u` has started,
`scan[u]` what it found. The subprocess lists the corpus when it starts, the
worst case. `mishaps` is a history of what went wrong: a death, a failure in a
search or in a sync, a refused lock, a marker that another server's search has
taken. A dead process is not started again; its subprocess may go on.

### GitPush

A branch is the sequence of its commits: `remote` is main at GitHub, `main`,
`tracking` and `disk` the clone's branch, its origin/main and its work tree. A
tree has a version number for every card and flag file (nothing, run *r*, or the
Mac), the heartbeat, and the rows of `_conflicts.md` with the files they point
at. `pc` follows `commit_and_push`: stage and commit, then up to `max_retries`
turns of fetch, rebase and push, and out of the loop the flag and the push with
lease. A fetch that fails may have moved origin/main already. `Rebase` replays
the run's one commit, `Clash` is git's three-way rule for a file, and the
resolver's two ways are `Merged` (the heartbeat alone: this run's file is taken)
and `FailLoud` (any other file: read both sides, abort, reset, write them to
sidecars; a side whose `git show` has failed is `<missing>`). `broken` is the
history of the commands that have failed in this run, by which the properties
name their exceptions. Every command may fail or take too long; a push may be
taken without its answer coming back. Two quirks of the code are in the guards:
`git status` that fails counts as nothing to commit, and the result of a forced
push is not looked at.

### CronRun

One run at a time, in a fresh clone, as the workflow's concurrency group has it,
killed at any point. `valid` is the set of places that hold the refresh token X
accepts at the moment: the secret, the Mac's keychain, the run. `Refresh` uses
it up and leaves the new one with the run alone; `Store` copies it to the secret
or fails. That happens at the first call and again after every call answered
with a 401, `expiries` of them at most. `Sync(new)` is `service.run` with any set
of new cards and any outcome, `Report` the heartbeat and the flags,
`ExitCode` the table at the end of `run`. What a killed job knew is forgotten
with its runner; what a finished one came to stays to be looked at, until the
next run starts.

### LazyExtract, Inbox, RunLog, Ask

`LazyExtract`: `stamp` is the claim on the card, and a session remembers the
clock that it read before it waited for the lock. Release and apply do not look
whose claim they clear; `strayed` records that a release cleared another's.

`Inbox`: every change of a file is a read (`ReadInbox`, `FindEntry`, `ThrowAway`)
and a later replace of the whole file, with no lock. A failed replace may have
happened, and does not reach the fallback, whose `except OSError` the
`XSensaiError` of `durable_replace` passes by. `promised` are the snapshots that
were reported as written, `overlapped` tells that two sessions were between the
two steps on one file.

`RunLog`: files are numbered as the path comes to name them. Appenders and the
purge hold a flock on the file that they opened, which need not be the one that
the path names when they get it; `overtaken` collects the entries that went to
a file without a name.

`Ask`: `answer` is where `prepare` is, `web` its task, `fork` the subprocess. If
`prepare` is left by an unforeseen exception it is not waited for any more.

## 3. What is checked

| Run | Question | Result |
|---|---|---|
| `CardStoreUpdates` | Two processes do everything to one card that can be done to it. Mutual exclusion, the fence, the sidecars, atomicity, tombstones | hold |
| `CardStoreCreations` | Overlapping syncs and pastes beside a tombstone | one card per tweet, with its sidecar, atomically |
| `CardStoreDisplaced` | Two processes delete a card, change its bytes, fail and die on their own, with a lock file that the user removes: does `verify_fencing_token` ever accept a writer that it had refused? Does a stale card land, is a card torn or without its sidecar? | never accepted again; the rest only after a writer was displaced between a check and what the check is for |
| `SyncRun` | Two overlapping syncs in every mode with failures | a backlog run that reports success is complete; the checkpoint is exact; gaps come of failures only |
| `Reindex` | Two searches, a sync, writes | one supervised update; marks are lost by failures and refusals only; a search sees what was marked; no search waits for ever |
| `Cron` | Two cron runs beside a Mac, with every git command and every exchange of a token failing | forced pushes take nothing off the branch unless abort, reset or the last fetch failed; green means pushed and the token kept; cards of a clean run are pushed; a conflict keeps both sides, each under its own name; every step brings a run nearer to its end, and it comes there |
| `Commands` | Codes with old clocks and restarts; claims that go stale; the inbox with failures; a log beside its purge; a question whose parts fail | codes confirm once, for their own pair, and are honoured; one fresh claimant; no paste is lost; no entry is lost; no subprocess is left behind, each up to the exception that its property names |
| `CardStoreThreads` | Is a deletion safe from a stale update when writers are threads? | violated |
| `CardStorePaste` | Is a double paste always noticed? | violated |
| `SyncRunCaughtUp` | Is an incremental run that reports success complete? | violated |
| `ReindexSkip` | Does a search that is refused the lock leave the marker? | violated |
| `CronLayout` | Are the cards of a run that meets no failure pushed when the corpus is a directory of the repository, as in the workflow? | violated |

The violated ones are stated by a comment or a document of the repository, which
`PROJECT.json` quotes under `findings`:

* **A refused writer closes its descriptor twice** (`locks/filelock.py:165` and
  `220`). In between, another thread of the process can have been given that
  number for its own lock file; the second close then gives up its flock. Two
  writers are inside, and an annotation that had loaded a card commits over its
  deletion. The fence bounds the damage but does not prevent it, since check
  and rename are two steps.
* **The duplicate check of a paste is outside the lock** (`server.py:430`).
* **An incremental sync stops at the third known bookmark in a row**
  (`service.py:664`), and bookmarks are written newest first. After a run that
  failed behind three newer successes, later runs report "No new bookmarks"
  and the older ones are never fetched, but for a backlog run. The checkpoint
  is meant for this case and is never read.
* **A search that is refused the index lock deletes the marker**
  (`engine.py:202`), though its comment says that the marker stays.
* **The paths of `git status` are taken as paths from the corpus**
  (`git_push.py:228`). The workflow (`.github/workflows/sync.yml:123`) has the
  corpus in a directory of the vault, where `git add` finds no such files: the
  run exits amber and its cards go with the runner, while `docs/CRON_SETUP.md:259`
  promises a commit.

Other disagreements of code and documents came up that no run is spent on, since
the models allow them openly, by an action or by an exception in a property:

* The sides of a conflict. `.local` is the cron's version and `.remote` the Mac's in
  the code (`git_merge.py:226-228`, `270-277`) and in `docs/CONFLICT_RESOLUTION.md:13-14`;
  `TROUBLESHOOTING.md:507-509` has them the other way round. `ConflictIsKept` fixes
  what the code does.
* A `git show` that fails in a conflict (`git_merge.py:125-131`) does not stop the
  resolver: abort and reset take the run's commit away, and the sidecar says
  `<missing>`, where the head of the module has both versions captured.
  `ConflictIsKept` allows for it by name.
* A second code for one pair. `issue` returns the code that lives, as its docstring
  and `test_reissue_is_idempotent_for_live_record` have it, and `LiveCodeHonoured`
  says so. The head of the module (`nonce_store.py:24-25`, "reissuance overwrites
  (invalidates the prior nonce for that key)") and that of its tests
  (`tests/test_nonce_store.py:4`, "second wins") say the opposite.
* `durable_replace` has one temporary for all writers of a file (`sidecar.py:101`),
  though it is documented as atomic. When two are inside, by a second close or an
  `rm` of the lock file, one may truncate what the other is about to rename; the
  file in place is then empty, for good if the one that truncated it dies.
  `IntactUnlessDisplaced` names the exception, and the fence does not cover it.
* Extraction and lazy claims rewrite v1 cards (`service.py:417`,
  `lazy_extract.py:128`), which annotate and pin refuse to do.
* qmd outlives the process whose flock protects it (`engine.py:183`): a second
  update may run beside it.
* An appender that had opened the log before a purge replaced it writes to a file
  without a name, though `xask/log.py:252` says that none is dropped.
* A heartbeat in conflict is not merged by maxima, as the head of `git_merge.py`
  has it; this run's is taken whole (`git_merge.py:157`).
* `headless.py:402` writes a heartbeat for failed runs "so the user sees the
  failure next vault pull"; a run that failed for another reason than tokens
  does not push it, nor a partial one its cards.
* A `git status` that fails ends in exit code 0 with nothing pushed
  (`git_push.py:88`).
* A card conflict resets the clone, and the run's other new cards with it; the
  next run fetches them again. Flag files in conflict are treated as cards.
* An inbox write that fails in `durable_replace` does not reach the fallback
  (`inbox.py:223`), which `list_recoverable` would not show either.
* Text that the user has put before the first entry of the inbox belongs to that
  entry's block, though `_split_blocks` says that it is preserved (`inbox.py:286`):
  it goes when the entry is cleared.
* The push with lease after a last fetch that failed halfway takes the Mac's commits
  off the branch (`git_push.py:438`), as does one after a failed abort or reset
  (`git_push.py:384`): the exceptions of `RemoteOnlyGrows`.

### Bounds

They are named in the `.cfg` files and are the guards' only artificial part.

* `MaxTokens`, `MaxInodes`, `Fds`: three acquisitions and two lock files are what
  it takes to be displaced, to be followed and to come back; `FenceNeverReturns`,
  `IntactUnlessDisplaced` and `LedgerUnlessDisplaced` are proved without a bound.
  `FileLock` and `DurableReplace` have no run of their own: every run of the store
  takes all their steps.
* `CardStoreDisplaced` has a deletion and a `rewrite` of the bytes (which only callers
  of `write_card` other than the tools could be): the one must not be undone, and
  the other collects sidecars. Its writers are two processes, one of which can die in
  the middle of a file while the other goes on, and are displaced by an `rm`; the
  other way, the second close of a thread, is in `CardStoreThreads` and in the theorems.
* `CardStoreCreations` deletes and restores the card of the tweet that may have a
  tombstone already; the other names are created only.
* Two writers and one card, or four names of which two are one tweet's: conflicts
  in the store are between two writers on one card or one tweet; the theorems
  of `CardStoreProofs` remove the bound.
* `Commands`: three codes, a lifetime and a grace of one tick, a clock of two:
  enough for a code to expire, be collected and be succeeded while another call
  still holds the time before. The theorems remove the bound.
* `SyncRun`: three bookmarks, and runs of every mode with and without
  `max_pages`; early stopping after two known ones where the code has three, and
  a window of two bookmarks where the code has ten pages, so that with three
  bookmarks both happen before the end of the feed. `SyncRunCaughtUp` has the
  code's three.
* `Reindex`: two cards (one written before, one during an update), two searches of
  one server and one sync. The same invariants were also met with the two searches
  in two servers.
* `Cron`: two runs, so that the second one meets what the first has left (a flag,
  a heartbeat, a token that was not stored), with the code's three attempts. The
  Mac pushes once, at any moment, which is enough for a card, a heartbeat or a
  cleared flag of its own to be in the way; that later attempts fail too is up to
  the connection. Two bookmarks, one in conflict and one not; one 401 after the
  first exchange, so that a failed write of the secret is followed by another.
* `Commands`, further: three sessions at one card and a staleness of two ticks
  (one to claim, one to take over, one to come third) in six; two sessions and
  two pastes in the inbox; three appenders and two purges of the log. `Ask` has
  no bound. The theorems of `CommandProofs` remove these bounds.

### Fairness

`Reindex` and `CronRun` have a liveness property each, `SearchesAnswer` and
`RunsEnd`. `SearchesAnswer` assumes weak fairness of the steps of a search that is
under way (an event loop comes round to every coroutine, and `qmd update` is
killed after thirty seconds) and strong fairness of entering `_REINDEX_LOCK`,
because an `asyncio.Lock` is first come, first served. Nothing is assumed of
writers, syncs or new searches. `RunsEnd` assumes weak fairness of the steps of a
run that was started: the runner goes on with the program, and every command has a
time limit after which it has failed (`TimesOut`). It does not assume that a job
is killed, nor that the Mac ever rests. The other specifications are safety only.

Deadlock checking is off because the bounds (tokens, codes, feed) stop the
models, and because everybody may die.

## 4. What is proved

All with tlapm, for every value of the constants that meets the modules' named
assumptions.

* **FileLockProofs**, which also has the lemmas on `DurableReplace`. `FenceStaysLost`
  holds whatever threads and users do. The inductive invariant adds to the types
  that a flock has one owner per inode, that no two writers hold the same token,
  and that a token once published is never in the temporary again, so no later
  rename can bring it back. `LockExcludes` and `HolderIsFenced` need `Undisturbed`:
  one thread per process, and nobody removes the lock file. Under it the invariant
  says that there is one inode, that a holder owns its flock until its own
  close, and that a published token stays the one on disk. Mutual exclusion is
  not inductive without these: the second close of a refused writer could hit
  the holder's descriptor. `CardStoreThreads` shows that it does when the
  assumption on threads is dropped.
* **CardStoreProofs**, for every corpus, set of writers and choice of operations.
  A step of the store is a step of the lock or leaves it alone (`LockRefined`),
  so the lock's invariant carries over. The argument then rests on the fence
  alone, not on mutual exclusion. As long as nobody was displaced in a window, a
  writer in it has the fence (`Fenced`), of two that have the fence one is the other
  (`FencedAlone`), so one is in the window at most (`OneInWindow`). Alone, it finds
  in the temporary what it wrote, or nothing if `iter_cards` was there
  (`CardsCalm`, `SidecarsCalm`, with `AtCards` and `AtSidecars` for who is in
  `durable_replace`). A writer with the fence is about to commit what its operation
  makes of the card on disk (`DraftsCurrent`), its sidecar is there when it commits
  (`SidecarsReady`), and from then on the card on disk is the one it wrote
  (`Committed`), so that the sidecar it collects is not the card's. This gives
  `StaysIntact` and `StaleNeverLands` with no assumption. `Undisturbed` adds that
  `displaced` stays empty, since nobody inside ever loses the fence: hence
  `SidecarsStay`, `StoreIsLedger` (the rename of the card is the operation of
  `CardLedger`, every other step a stutter), `TweetsStaySingle` and
  `TombstonesStick`, each under `Undisturbed`. `StoreTypesHold` needs no assumption.
* **NonceStoreProofs**, with restarts. `NonceTypes`; `CodesConfirmOnce`, from the
  invariant that the uses of a code agree with its tombstone; `ConfirmsOwnPair`;
  `LiveCodesHonoured` and `LastCodesKept`, which need that the time a waiting
  call has read is never ahead of the clock, so that it drops only what has
  expired by then.
* **SyncRunProofs**, for any number of overlapping syncs, any feed and any
  threshold for stopping early. The invariant says of a run under way that what
  it took for known has a card, that a card which it has written and not
  recorded yet has no record and no second writer (`RecordsAreOwn`: the recheck
  under the lock makes one run its writer), that a backlog run still has every
  missing bookmark of its fetch before it (`BacklogIsHeld`), and that, while
  nothing has failed, a fetched gap is in some run's list (`FetchedIsOwed`).
  `GapsStayOwed` also needs the largest known bookmark below a gap (`MaxIsIn`,
  from the well-foundedness of the order on numbers).
* **ReindexProofs**. `ReindexTypes` with who holds which lock at each place, from
  which `UpdatesAreExclusive` follows; `StaleStaysOwed` is inductive beside it, and
  with it `DueIsSeen`: what a search must find is indexed, or is coming while
  the search still waits. `SearchesSeeMarked` follows.
* **CronRunProofs**, for any number of runs, attempts, bookmarks, 401s and pushes of
  the Mac. `CronIInv` is a conjunction of parts that are proved one after another:
  * `SmallTypes` and `Aged`. The types of the branches are not inductive by
    themselves: the failures a heartbeat counts are bounded by the number of runs
    only because each run adds at most one. `Aged` says that what the branches and
    the clone hold can have been made by the runs up to `Age`, this run being
    counted from its commit on. `CronTypes` follows, and also that nothing of
    run `n` is anywhere before run `n` has put it there.
  * `OnTop`: when main is pushed with lease the tracking branch is what the
    server had, and main extends it, but for a failed abort or reset, or a last
    fetch that failed after it had moved the tracking branch. It gives the
    action property `VaultOnlyGrows`.
  * `Written`: a run's cards are new to its clone, and what it commits tells of
    them and of its health (`News`).
  * `OnItsWay`: before each fetch, replay and push the run's commit is either
    `Fresh` (on top of the clone's branch, and nowhere in the vault) or has
    `Arrived` (the server has it, though the answer to the push was lost). Both
    are needed: a run whose push was taken and not answered goes round again, and
    its next replay finds nothing of its own to replay. With it goes that every
    commit made of a conflict keeps both sides, each under its name and as far as
    `git show` could read it, which is `ConflictsAreKept`.
  * `Delivered`: a push that returned success has its `News` in the vault, and an
    exit code is what the result was. `GreenRunsArePushed` and `NewCardsArePushed`
    follow. The second assumes `CorpusAtRoot`; the run `CronLayout` shows that it
    is false without it.
  * `TokenIsKept`: with a PAT and nobody else about, the secret is valid whenever
    `unsaved` is not set and no new token waits to be stored. It gives
    `GreenLeavesToken`.

  `RunsRunDown` is the part of termination that needs no fairness. `Left` is a
  natural number that every step of a run makes smaller and no step of the Mac
  makes larger, so a run takes finitely many steps, whatever fails. What `RunsEnd`
  adds, that a run which is not at its end can always take a step, is TLC's.
* **CommandProofs.** `OneClaims`: the stamp on the card is the newest clock of a
  session at work, until one strays (`StampIsNewest`). `PastesAreKept`: what a
  session has read of a file is the file, as long as none overlaps
  (`ReadIsCurrent`), and an entry is only cleared when it is a card or unwanted
  (`ClearedIsSafe`). `EntriesAreKept`: who is locked holds the flock of its file,
  and the survivors that the purge has read are still the right ones
  (`PurgerIsRight`, `AskersAreRight`). `NoForkStays`: the subprocess lives only
  while the task is draining it. `CommandTypes` is about the five components
  with their steps interleaved at will, which `MCCommands` does not explore: a
  behaviour of `Commands` is one of each component (`EachWorksAlone`).

Every invariant and action property that a passing run checks is stated by one of
these theorems. Only model-checked are the two liveness properties,
`SearchesAnswer` of `Reindex` and `RunsEnd` of `CronRun`: liveness under fairness
is beyond the prover.

## 5. What is left out

* Readers that take no lock. They may see an old sidecar collected under them,
  get a checksum error and try again.
* Short writes: `durable_replace` does not look at how much `os.write` has written,
  and a disk that fills up in the middle leaves a truncated file in place.
* What a card's text looks like, Markdown, YAML, the v1 dialects, ranking.
* The heartbeat thread of the index lock; its JSON is read for messages only.
* Cancelled tool calls, whose `qmd` subprocess would go on like an orphan's.
* `append_to_quick_inbox`, which the package never calls.
* Two purges of a log at once, which would share one temporary file.
* The log of union candidates of a conflict, the banners of the heartbeat and
  `git_check`: output that nothing in the package acts on. A heartbeat or flag file
  that cannot be written.
* The retries of a page of bookmarks, and what a failed page is classified as:
  `SyncRun` takes the fetch as whole or failed, `CronRun` the outcome as any.
* The consent screen of the OAuth flow, the setup wizard, `eval_history`, and the
  migration script, which is run once with nothing else running.

## 6. Plan

Done: the store and its lock, the codes, the sync, reindexing, the cron job with
git and the tokens, what the commands keep beside the cards, and the theorems about
all of them. To come:

1. The two hazards of `PROJECT.json` that a model could still reach: readers of a
   card without a lock beside the collection of its old sidecar, and a search of
   another server that finds the marker renamed aside.
2. Pure algorithms over bounded inputs: the disambiguation of names, the union
   candidate of a merge, the cursor of the pages of the X client.
3. That a card write taken as one step by `SyncRun` and `LazyExtract` is what
   `CardStore` offers, as a refinement and not only by its argument in section 2.
