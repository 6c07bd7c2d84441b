------------------------------ MODULE SyncRun ------------------------------
(***************************************************************************)
(* A sync: run and finalize_run of sync/service.py, with the checkpoint of *)
(* sync/checkpoint.py.  Several processes may sync the same corpus.  That  *)
(* a card is looked for and written in one step is what CardStore shows of *)
(* _write_one_card (theorems StoreIsLedger and TweetsStaySingle); the      *)
(* heartbeat and the reindexing of finalize_run are not here.              *)
(***************************************************************************)
EXTENDS Naturals, FiniteSetsExt

CONSTANTS
  Syncs,     \* the processes that sync
  Modes,     \* the modes they are run in
  CaughtUp,  \* known bookmarks in a row at which an incremental run stops
  Window,    \* how many bookmarks the max_pages of a bounded run cover
  MaxFeed    \* bound on the bookmarks made

ASSUME SyncAssumption ==
  /\ Modes \subseteq {"since-last-run", "headless", "backlog", "retry-failed"}
  /\ CaughtUp \in Nat \ {0}
  /\ Window \in Nat
  /\ MaxFeed \in Nat

VARIABLES
  feed,        \* the user's bookmarks on X are 1 .. feed, the newest last
  saved,       \* the bookmarks that have a card, deleted or not
  checkpoint,  \* the records in _sync-checkpoint.jsonl: bookmark and writer
  archived,    \* the records moved to the archive
  pc,          \* pc[s]: how far the run of s is
  run,         \* run[s]: the locals of run
  mishap       \* history: a write failed, a run ended early, or the pages of
               \* a bounded run did not reach all that was new

syncVars == <<feed, saved, checkpoint, archived, pc, run, mishap>>

Incremental == {"since-last-run", "headless"}
Bookmarks == 1..MaxFeed
Records == Bookmarks \X Syncs

Pcs == {"idle", "fetch", "write", "record", "done"}
Statuses == {"ok", "empty", "partial", "failed", "none"}

\* bounded: is there a max_pages?  known: the precomputed dedup set, while it is
\* needed; fetched: how many bookmarks there were when the pages came; todo: what
\* is left of bookmarks_to_write; wrote, failed: is anything in cards_written,
\* cards_failed?
Runs == [mode: Modes \union {"none"}, bounded: BOOLEAN, known: SUBSET Bookmarks,
         fetched: 0..MaxFeed, todo: SUBSET Bookmarks,
         wrote: BOOLEAN, failed: BOOLEAN, status: Statuses]

SyncTypeOK ==
  /\ feed \in 0..MaxFeed
  /\ saved \subseteq 1..feed
  /\ checkpoint \subseteq Records
  /\ archived \subseteq Records
  /\ pc \in [Syncs -> Pcs]
  /\ run \in [Syncs -> Runs]
  /\ mishap \in BOOLEAN
  /\ \A s \in Syncs :
       /\ run[s].fetched <= feed
       /\ run[s].todo \subseteq 1..run[s].fetched
       /\ pc[s] = "record" => run[s].todo # {}
       /\ pc[s] = "done" <=> run[s].status # "none"

NewRun(mode, bounded, known) ==
  [mode |-> mode, bounded |-> bounded, known |-> known, fetched |-> 0, todo |-> {},
   wrote |-> FALSE, failed |-> FALSE, status |-> "none"]

NoRun == NewRun("none", FALSE, {})

SyncInit ==
  /\ feed = 0 /\ saved = {} /\ checkpoint = {} /\ archived = {}
  /\ pc = [s \in Syncs |-> "idle"]
  /\ run = [s \in Syncs |-> NoRun]
  /\ mishap = FALSE

-----------------------------------------------------------------------------

Goto(s, where) == pc' = [pc EXCEPT ![s] = where]

\* The user bookmarks one more tweet.
Bookmark ==
  /\ feed < MaxFeed
  /\ feed' = feed + 1
  /\ UNCHANGED <<saved, checkpoint, archived, pc, run, mishap>>

\* run: the dedup set is computed before any network call.  The cron always
\* bounds the pages, and the user may (--max-pages).
Start(s, mode, bounded) ==
  /\ pc[s] = "idle"
  /\ mode = "headless" => bounded
  /\ Goto(s, "fetch")
  /\ run' = [run EXCEPT ![s] = NewRun(mode, bounded, saved)]
  /\ UNCHANGED <<feed, saved, checkpoint, archived, mishap>>

\* The bookmarks that the pages of the run r hold, of n.
Reach(r, n) == IF r.bounded THEN {b \in 1..n : n < b + Window} ELSE 1..n

\* Going from the newest down, so many known ones in a row end at c.
StopsAt(known, n, c) ==
  c + CaughtUp <= n + 1 /\ c..(c + CaughtUp - 1) \subseteq known

\* Seeded fault: backlog runs stop early too.
GatheredCautious(r, n) ==
  {b \in Reach(r, n) \ r.known :
     ~\E c \in Reach(r, n) : b < c /\ StopsAt(r.known, n, c)}

\* _gather_bookmarks: what is not known, down to where an incremental run
\* thinks it has caught up.
Gathered(r, n) ==
  IF r.mode = "retry-failed" THEN {}
  ELSE {b \in Reach(r, n) \ r.known :
          r.mode \in Incremental =>
            ~\E c \in Reach(r, n) : b < c /\ StopsAt(r.known, n, c)}

Finish(s, status) ==
  /\ Goto(s, "done")
  /\ run' = [run EXCEPT ![s].status = status]

\* The pages come, and there may be nothing to write.
Fetch(s) ==
  LET todo == Gathered(run[s], feed) IN
  /\ pc[s] = "fetch"
  /\ run' = [run EXCEPT ![s].known = {}, ![s].fetched = feed,
               ![s].todo = todo, ![s].status = IF todo = {} THEN "empty" ELSE "none"]
  /\ Goto(s, IF todo = {} THEN "done" ELSE "write")
  /\ mishap' = (mishap \/ ~(1..feed \subseteq Reach(run[s], feed) \union run[s].known))
  /\ UNCHANGED <<feed, saved, checkpoint, archived>>

\* A page does not come: whatever the others held is dropped.
FetchFails(s) ==
  /\ pc[s] = "fetch"
  /\ Finish(s, "failed")
  /\ UNCHANGED <<feed, saved, checkpoint, archived, mishap>>

\* Bookmarks are written from the newest down.
Turn(s) == Max(run[s].todo)

\* The bookmark is done with, and its thread may not have come (which counts
\* as a failure though the card is written).
Passed(s, wrote, failures) ==
  \E f \in failures :
    run' = [run EXCEPT ![s].todo = @ \ {Turn(s)}, ![s].wrote = @ \/ wrote,
                       ![s].failed = f]

\* Seeded fault: no look for the card under the lock.
SaveUnchecked(s) ==
  /\ pc[s] = "write" /\ run[s].todo # {}
  /\ saved' = saved \union {Turn(s)}
  /\ Goto(s, "record")
  /\ \E f \in {run[s].failed, TRUE} : run' = [run EXCEPT ![s].failed = f]
  /\ UNCHANGED <<feed, checkpoint, archived, mishap>>

\* Seeded fault: a thread that does not come ends the loop.
SaveTornDown(s) ==
  /\ pc[s] = "write" /\ run[s].todo # {}
  /\ Turn(s) \notin saved
  /\ saved' = saved \union {Turn(s)}
  /\ Goto(s, "record")
  /\ \/ UNCHANGED run
     \/ run' = [run EXCEPT ![s].failed = TRUE, ![s].todo = {Turn(s)}]
  /\ UNCHANGED <<feed, checkpoint, archived, mishap>>

\* _write_one_card: the card is not there yet, and is written.
Save(s) ==
  /\ pc[s] = "write" /\ run[s].todo # {}
  /\ Turn(s) \notin saved
  /\ saved' = saved \union {Turn(s)}
  /\ Goto(s, "record")
  /\ \E f \in {run[s].failed, TRUE} : run' = [run EXCEPT ![s].failed = f]
  /\ UNCHANGED <<feed, checkpoint, archived, mishap>>

\* _IdempotentSkip: another run was faster.
Skip(s) ==
  /\ pc[s] = "write" /\ run[s].todo # {}
  /\ Turn(s) \in saved
  /\ Passed(s, FALSE, {run[s].failed, TRUE})
  /\ UNCHANGED <<feed, saved, checkpoint, archived, pc, mishap>>

\* The lock is held, or the write fails: the run goes on with the next.
SaveFails(s) ==
  /\ pc[s] = "write" /\ run[s].todo # {}
  /\ Passed(s, FALSE, {TRUE})
  /\ mishap' = TRUE
  /\ UNCHANGED <<feed, saved, checkpoint, archived, pc>>

\* checkpoint.append, after the lock was given up.
Record(s) ==
  /\ pc[s] = "record"
  /\ checkpoint' = checkpoint \union {<<Turn(s), s>>}
  /\ Passed(s, TRUE, {run[s].failed})
  /\ Goto(s, "write")
  /\ UNCHANGED <<feed, saved, archived, mishap>>

\* run returns.
Answer(s) ==
  /\ pc[s] = "write" /\ run[s].todo = {}
  /\ Finish(s, IF ~run[s].failed THEN "ok"
               ELSE IF run[s].wrote THEN "partial" ELSE "failed")
  /\ UNCHANGED <<feed, saved, checkpoint, archived, mishap>>

\* Seeded fault: the locals of a run outlive it.
FinalizeStale(s) ==
  /\ pc[s] = "done"
  /\ Goto(s, "idle")
  /\ UNCHANGED <<feed, saved, checkpoint, archived, run, mishap>>

\* finalize_run: the checkpoint is archived after a success that wrote cards,
\* if it can be, with all it holds.
Finalize(s) ==
  /\ pc[s] = "done"
  /\ \/ /\ run[s].status = "ok" /\ run[s].wrote
        /\ archived' = archived \union checkpoint
        /\ checkpoint' = {}
     \/ UNCHANGED <<archived, checkpoint>>
  /\ Goto(s, "idle")
  /\ run' = [run EXCEPT ![s] = NoRun]
  /\ UNCHANGED <<feed, saved, mishap>>

\* The process dies, or the OSError of a checkpoint append ends run.
Abort(s) ==
  /\ pc[s] # "idle"
  /\ Goto(s, "idle")
  /\ run' = [run EXCEPT ![s] = NoRun]
  /\ mishap' = (mishap \/ run[s].todo # {})
  /\ UNCHANGED <<feed, saved, checkpoint, archived>>

SyncStep(s) ==
  \/ \E mode \in Modes, bounded \in BOOLEAN : Start(s, mode, bounded)
  \/ Fetch(s) \/ FetchFails(s)
  \/ Save(s) \/ Skip(s) \/ SaveFails(s) \/ Record(s)
  \/ Answer(s) \/ Finalize(s) \/ Abort(s)

SyncNext == Bookmark \/ \E s \in Syncs : SyncStep(s)

SyncSpec == SyncInit /\ [][SyncNext]_syncVars

-----------------------------------------------------------------------------

Clean(s) == pc[s] = "done" /\ run[s].status \in {"ok", "empty"}

\* A backlog run that says "ok" or "No new bookmarks" has left out nothing of what
\* its pages held, which is everything but for a max_pages, whatever other runs
\* did meanwhile and earlier ones failed to do.
BacklogComplete ==
  \A s \in Syncs :
    Clean(s) /\ run[s].mode = "backlog" => Reach(run[s], run[s].fetched) \subseteq saved

\* The checkpoint append "IS the commit point" (checkpoint.py): what it holds
\* has a card, and one run only has committed it, here or in the archive.
CommitsHaveCards ==
  LET records == checkpoint \union archived IN
  /\ \A r \in records : r[1] \in saved
  /\ \A q, r \in records : q[1] = r[1] => q = r
  /\ checkpoint \intersect archived = {}

\* Stopping early is sound while nothing goes wrong: an older bookmark without
\* a card below one that has a card is still owed by a run that is under way.
GapsAreOwed ==
  ~mishap =>
    \A b \in 1..feed : \A c \in saved :
      b < c /\ b \notin saved =>
        \E s \in Syncs : pc[s] \in {"write", "record"} /\ b \in run[s].todo

\* "No new bookmarks since last sync" (run), and the checkpoint is there so
\* that "resume picks up where you left off" (TROUBLESHOOTING.md).
CaughtUpIsComplete ==
  \A s \in Syncs :
    Clean(s) /\ run[s].mode = "since-last-run" => Reach(run[s], run[s].fetched) \subseteq saved

=============================================================================
