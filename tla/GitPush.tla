------------------------------ MODULE GitPush ------------------------------
(***************************************************************************)
(* commit_and_push of sync/git_push.py and the resolvers of                *)
(* sync/git_merge.py, run in a clone of the vault's repository, while the  *)
(* user's Mac pushes to the same branch.  The Mac and git are external:    *)
(* they do what the code relies on.  A branch is the sequence of its       *)
(* commits.  Of _conflicts.md, which only grows, the rows are in "saved".  *)
(***************************************************************************)
EXTENDS Naturals, Sequences

CONSTANTS
  Bookmarks,     \* the bookmarks on X; each has one card
  MaxRuns,       \* bound on the runs of the cron job
  MaxMac,        \* bound on the pushes of the Mac
  MaxAttempts,   \* max_retries of commit_and_push
  CorpusAtRoot   \* is the corpus the root of the repository?

ASSUME GitAssumption ==
  /\ MaxRuns \in Nat \ {0}
  /\ MaxMac \in Nat
  /\ MaxAttempts \in Nat \ {0}
  /\ CorpusAtRoot \in BOOLEAN
  /\ Bookmarks \intersect {"auth", "persist", "rejected"} = {}

VARIABLES
  remote,    \* main of the vault's repository, at GitHub
  main,      \* main of the clone that this run has made
  tracking,  \* its origin/main
  disk,      \* its work tree
  n,         \* how many runs were started; the last is in progress or over
  pc,        \* where that run is
  attempt,   \* the turns of the pull-rebase and push loop that are over
  result,    \* the PushResult of commit_and_push
  broken     \* history: the git commands that have failed in this run; "fetch"
             \* is there while the last one has failed, and moved origin/main

gitVars == <<remote, main, tracking, disk, attempt, result, broken>>

\* SYNC_AUTH_FAILED.md, SYNC_TOKEN_PERSIST_FAILED.md, SYNC_PUSH_REJECTED.md
Flags == {"auth", "persist", "rejected"}
Files == Bookmarks \union Flags

\* What a file holds: nothing, what run r wrote, or what the Mac wrote.
Runs == 1..MaxRuns
ByMac == MaxRuns + 1
Contents == 0..ByMac

\* _sync-status.md: who wrote it when (no two writes are alike), and
\* consecutive_cron_failures.
Statuses == [by: Contents, at: Nat, failures: 0..MaxRuns]

\* The files in _conflicts/<run>/: both sides of a card.
Sidecars == [run: Runs, file: Files, local: Contents, remote: Contents]

Trees == [file: [Files -> Contents], status: Statuses, saved: SUBSET Sidecars]
Commits == [by: Contents, tree: Trees]

GitPcs == {"stage", "fetch", "rebase", "push", "lease", "conclude"}
Results == {"none", "success", "error", "conflict", "flagged", "raised"}

Blank == [file |-> [f \in Files |-> 0], saved |-> {},
          status |-> [by |-> 0, at |-> 0, failures |-> 0]]

Top(branch) == branch[Len(branch)]
Tip(branch) == Top(branch).tree
Below(branch) == SubSeq(branch, 1, Len(branch) - 1)

\* Is every commit of old still in new, at its place?
Extends(new, old) ==
  /\ Len(old) <= Len(new)
  /\ \A i \in 1..Len(old) : new[i] = old[i]

GitTypeOK ==
  /\ remote \in Seq(Commits) /\ remote # <<>>
  /\ main \in Seq(Commits)
  /\ tracking \in Seq(Commits)
  /\ disk \in Trees
  /\ n \in 0..MaxRuns
  /\ attempt \in 0..MaxAttempts
  /\ result \in Results
  /\ broken \subseteq {"status", "fetch", "show", "abort", "reset", "other"}

GitInit ==
  /\ remote = <<[by |-> 0, tree |-> Blank]>>
  /\ main = <<>> /\ tracking = <<>> /\ disk = Blank
  /\ n = 0 /\ attempt = 0 /\ result = "none" /\ broken = {}

-----------------------------------------------------------------------------

\* The Mac pulls, changes the vault and pushes.
MacPushes(tree) ==
  /\ Len(SelectSeq(remote, LAMBDA c : c.by = ByMac)) < MaxMac
  /\ remote' = Append(remote, [by |-> ByMac, tree |-> tree])
  /\ UNCHANGED <<main, tracking, disk, n, pc, attempt, result, broken>>

\* A sync on the Mac: a card, and a heartbeat with the cron's counter as it was.
MacSyncs(b) ==
  LET old == Tip(remote) IN
  /\ old.file[b] = 0
  /\ MacPushes([old EXCEPT !.file[b] = ByMac,
                           !.status = [@ EXCEPT !.by = ByMac, !.at = Len(remote)]])

\* The user follows a flag's instructions and removes it.
MacClears(flag) ==
  /\ Tip(remote).file[flag] # 0
  /\ MacPushes([Tip(remote) EXCEPT !.file[flag] = 0])

-----------------------------------------------------------------------------

Fails(command) == broken' = broken \union {command}

Return(value) ==
  /\ result' = value
  /\ pc' = "conclude"

\* Nothing of the allowlist has changed, or so it seems when git status fails:
\* reported as a success.
NothingToCommit ==
  /\ pc = "stage"
  /\ \E blind \in BOOLEAN :
       /\ blind \/ disk = Tip(main)
       /\ broken' = IF blind THEN broken \union {"status"} ELSE broken
  /\ Return("success")
  /\ UNCHANGED <<remote, main, tracking, disk, n, attempt>>

\* git add takes the paths, which git status gives from the root of the
\* repository, as paths from the corpus.
Commit ==
  /\ pc = "stage"
  /\ CorpusAtRoot
  /\ disk # Tip(main)
  /\ main' = Append(main, [by |-> n, tree |-> disk])
  /\ pc' = "fetch"
  /\ UNCHANGED <<remote, tracking, disk, n, attempt, result, broken>>

\* git add or git commit fails.
CommitFails ==
  /\ pc = "stage"
  /\ broken' = IF CorpusAtRoot THEN broken \union {"other"} ELSE broken
  /\ Return("error")
  /\ UNCHANGED <<remote, main, tracking, disk, n, attempt>>

\* Seeded fault: one attempt too many.
FetchOnceMore ==
  /\ pc = "fetch" /\ attempt <= MaxAttempts
  /\ tracking' = remote
  /\ broken' = broken \ {"fetch"}
  /\ pc' = "rebase"
  /\ UNCHANGED <<remote, main, disk, n, attempt, result>>

Fetch ==
  /\ pc = "fetch" /\ attempt < MaxAttempts
  /\ tracking' = remote
  /\ broken' = broken \ {"fetch"}
  /\ pc' = "rebase"
  /\ UNCHANGED <<remote, main, disk, n, attempt, result>>

\* git fetch fails, before it has moved origin/main or after: the turn is over.
FetchFails ==
  /\ pc = "fetch" /\ attempt < MaxAttempts
  /\ attempt' = attempt + 1
  /\ \/ UNCHANGED tracking /\ Fails("other")
     \/ /\ tracking' = remote /\ tracking' # tracking
        /\ broken' = broken \union {"other", "fetch"}
  /\ UNCHANGED <<remote, main, disk, n, pc, result>>

\* What the last commit changed, and what was changed upstream to something else.
Base == Tip(Below(main))
Mine == Tip(main)
Theirs == Tip(tracking)

Clash(base, mine, theirs) == mine # base /\ theirs # base /\ mine # theirs

\* The unmerged paths that are not the heartbeat: cards and flags.
CardConflicts == {f \in Files : Clash(Base.file[f], Mine.file[f], Theirs.file[f])}

\* The last commit replayed on origin/main; in a conflict on the heartbeat
\* resolve_heartbeat_fast_path writes the one of this run.
Merged ==
  [file |-> [f \in Files |->
               IF Mine.file[f] = Base.file[f] THEN Theirs.file[f] ELSE Mine.file[f]],
   status |-> IF Mine.status = Base.status THEN Theirs.status ELSE Mine.status,
   saved |-> Mine.saved \union Theirs.saved]

\* Seeded fault: having a commit of this run's counts as having them all.
LandedAnyhow == Len(tracking) >= Len(main)

\* A push that got through without our hearing of it leaves nothing to replay.
Landed == Extends(tracking, main)

\* git rebase, and after a conflict on the heartbeat alone git rebase --continue.
Rebase ==
  /\ pc = "rebase"
  /\ Landed \/ CardConflicts = {}
  /\ main' = IF Landed THEN tracking
             ELSE Append(tracking, [by |-> n, tree |-> Merged])
  /\ disk' = Tip(main')
  /\ pc' = "push"
  /\ UNCHANGED <<remote, tracking, n, attempt, result, broken>>

\* rebase fails without a conflict, or rebase --continue does: abort and give up.
RebaseFails ==
  /\ pc = "rebase"
  /\ Fails("other")
  /\ Return("error")
  /\ UNCHANGED <<remote, main, tracking, disk, n, attempt>>

\* _read_index_blob: a git show that fails or hangs is as good as no such file.
Shown(f, content, unread) == IF f \in unread THEN 0 ELSE content

\* Seeded fault: the blobs are read after the abort, from the user's side.
CapturedLate(noMine, noTheirs) ==
  {[run |-> n, file |-> f,
    local |-> Shown(f, Theirs.file[f], noMine), remote |-> Shown(f, Theirs.file[f], noTheirs)] :
     f \in CardConflicts}

\* Both sides of every conflict, read from the index before it goes, but for
\* those that could not be read.
Captured(noMine, noTheirs) ==
  {[run |-> n, file |-> f,
    local |-> Shown(f, Mine.file[f], noMine), remote |-> Shown(f, Theirs.file[f], noTheirs)] :
     f \in CardConflicts}

ShowFails(noMine, noTheirs) ==
  broken' = IF noMine \union noTheirs = {} THEN broken ELSE broken \union {"show"}

Conflicted == pc = "rebase" /\ ~Landed /\ CardConflicts # {}

\* Seeded fault: no reset, so the sidecars are committed on the local tip.
FailLoudUnreset ==
  /\ Conflicted
  /\ \E noMine, noTheirs \in SUBSET CardConflicts :
       LET tree == [Mine EXCEPT !.saved = @ \union Captured(noMine, noTheirs)] IN
       /\ main' = Append(main, [by |-> n, tree |-> tree])
       /\ disk' = tree
       /\ ShowFails(noMine, noTheirs)
  /\ pc' = "lease" /\ result' = "conflict"
  /\ UNCHANGED <<remote, tracking, n, attempt>>

\* resolve_card_conflict_failloud: read both sides, abort, reset to origin/main,
\* write the sidecars on top of it, and commit them.  What could not be read is
\* written as <missing>: the commit that had it is given up nevertheless.
FailLoud ==
  /\ Conflicted
  /\ \E noMine, noTheirs \in SUBSET CardConflicts :
       LET tree == [Theirs EXCEPT !.saved = @ \union Captured(noMine, noTheirs)] IN
       /\ main' = Append(tracking, [by |-> n, tree |-> tree])
       /\ disk' = tree
       /\ ShowFails(noMine, noTheirs)
  /\ pc' = "lease" /\ result' = "conflict"
  /\ UNCHANGED <<remote, tracking, n, attempt>>

\* The sidecars cannot be added or committed: there is nothing to push.
FailLoudEmpty ==
  /\ Conflicted
  /\ main' = tracking /\ disk' = Theirs
  /\ Fails("other")
  /\ pc' = "lease" /\ result' = "conflict"
  /\ UNCHANGED <<remote, tracking, n, attempt>>

\* The abort or the reset fails: the resolver returns, main is still the local
\* one, the commit has nothing it could commit, and the push is made anyway.
FailLoudFails ==
  /\ Conflicted
  /\ \E command \in {"abort", "reset"} : Fails(command)
  /\ pc' = "lease" /\ result' = "conflict"
  /\ UNCHANGED <<remote, main, tracking, disk, n, attempt>>

\* The server takes main.
Land ==
  /\ remote' = main
  /\ tracking' = main

\* git push takes a fast-forward only.
Push ==
  /\ pc = "push"
  /\ Extends(main, remote)
  /\ Land
  /\ Return("success")
  /\ UNCHANGED <<main, disk, n, attempt, broken>>

\* Seeded fault: a push that failed does not count as an attempt.
NextAttemptFreely ==
  /\ pc' = "fetch"
  /\ UNCHANGED <<main, tracking, disk, n, attempt, result>>

NextAttempt ==
  /\ attempt' = attempt + 1
  /\ pc' = "fetch"
  /\ UNCHANGED <<main, tracking, disk, n, result>>

\* Somebody else was faster.
PushRejected ==
  /\ pc = "push"
  /\ ~Extends(main, remote)
  /\ NextAttempt
  /\ UNCHANGED <<remote, broken>>

\* The connection fails, before or after the server has taken main.
PushFails ==
  /\ pc = "push"
  /\ remote' \in {remote} \union (IF Extends(main, remote) THEN {main} ELSE {})
  /\ NextAttempt
  /\ Fails("other")

\* After the last attempt SYNC_PUSH_REJECTED.md is committed, if it can be.
Flag ==
  LET tree == [disk EXCEPT !.file["rejected"] = n] IN
  /\ pc = "fetch" /\ attempt = MaxAttempts
  /\ \/ /\ main' = Append(main, [by |-> n, tree |-> tree])
        /\ disk' = tree
        /\ UNCHANGED broken
     \/ UNCHANGED <<main, disk>> /\ Fails("other")
  /\ pc' = "lease" /\ result' = "flagged"
  /\ UNCHANGED <<remote, tracking, n, attempt>>

\* git push --force-with-lease, which nobody looks at the result of: it goes
\* through when the branch is where origin/main was seen.
LeasePush ==
  /\ pc = "lease"
  /\ \/ remote = tracking /\ Land
     \/ UNCHANGED <<remote, tracking>>
  /\ pc' = "conclude"
  /\ UNCHANGED <<main, disk, n, attempt, result, broken>>

\* A git command takes more than its 30 or 60 seconds: nobody here catches that.
TimesOut ==
  /\ pc \in {"stage", "fetch", "rebase", "push", "lease"}
  /\ Fails("other")
  /\ Return("raised")
  /\ UNCHANGED <<remote, main, tracking, disk, n, attempt>>

MacStep == (\E b \in Bookmarks : MacSyncs(b)) \/ (\E f \in Flags : MacClears(f))

PushStep ==
  \/ NothingToCommit \/ Commit \/ CommitFails
  \/ Fetch \/ FetchFails \/ Rebase \/ RebaseFails
  \/ FailLoud \/ FailLoudEmpty \/ FailLoudFails
  \/ Push \/ PushRejected \/ PushFails \/ Flag \/ LeasePush \/ TimesOut

=============================================================================
