------------------------------ MODULE CronRun ------------------------------
(***************************************************************************)
(* A run of the cron job: run of entrypoints/headless.py in a fresh clone  *)
(* on a GitHub Actions runner, with the rotation of X's single-use refresh *)
(* tokens (sync/auth.py, client.py, gh_secrets_updater.py), the heartbeat  *)
(* (sync/heartbeat.py) and the push (GitPush).  The workflow lets one run  *)
(* go on at a time and kills it after ten minutes.                         *)
(***************************************************************************)
EXTENDS GitPush

CONSTANTS
  Configs,   \* how the workflow is set up: with a PAT for the secret, without
             \* and opted out of persistence, or without it
  MaxExpiries  \* bound on the 401s that the calls of one run are answered with

ASSUME CronAssumption ==
  /\ Configs \subseteq {"pat", "opted out", "missing"}
  /\ MaxExpiries \in Nat

VARIABLES
  valid,     \* who has the one refresh token that X accepts: "secret" is that of
             \* GitHub Actions, "keychain" the Mac's, "run" the XClient's
  expiries,  \* the exchanges of this run that a 401 was the reason for
  unsaved,   \* last_persist_error is set
  config,    \* the run's configuration
  wrote,     \* the cards the run has written
  outcome,   \* what service.run returned or raised
  exit,      \* how the run ended: green is 0, amber 1, red 2
  foreign    \* history: somebody else has taken a new token during this run

tokenVars == <<valid, expiries, unsaved, foreign>>
runVars == <<config, wrote, outcome, exit>>
cronVars == <<gitVars, n, pc, tokenVars, runVars>>

Outcomes == {"none", "ok", "empty", "partial", "failed", "raised", "auth"}
CronPcs == GitPcs \union {"off", "preflight", "refresh", "store", "sync", "report"}

CronTypeOK ==
  /\ GitTypeOK
  /\ pc \in CronPcs
  /\ valid \subseteq {"secret", "keychain", "run"}
  /\ expiries \in 0..MaxExpiries
  /\ unsaved \in BOOLEAN /\ foreign \in BOOLEAN
  /\ config \in Configs \union {"none"}
  /\ wrote \subseteq Bookmarks
  /\ outcome \in Outcomes
  /\ exit \in {"none", "green", "amber", "red", "killed"}
  /\ pc # "off" => main # <<>> /\ tracking # <<>>

CronInit ==
  /\ GitInit
  /\ pc = "off"
  /\ valid = {"secret", "keychain"} /\ expiries = 0
  /\ unsaved = FALSE /\ foreign = FALSE
  /\ config = "none" /\ wrote = {} /\ outcome = "none" /\ exit = "none"

-----------------------------------------------------------------------------

\* What valid becomes when one place gets the token of another.
Copied(from, to) == IF from \in valid THEN valid \union {to} ELSE valid \ {to}

\* A sync on the Mac takes a new token, and the secret is not told of it.
MacRotates ==
  /\ "keychain" \in valid
  /\ valid' = {"keychain"}
  /\ foreign' = TRUE
  /\ UNCHANGED <<gitVars, n, pc, expiries, unsaved, runVars>>

\* The user authorizes again and sets the secret.
Reauthorize ==
  /\ "secret" \notin valid
  /\ valid' = {"keychain", "secret"}
  /\ foreign' = TRUE
  /\ UNCHANGED <<gitVars, n, pc, expiries, unsaved, runVars>>

\* The job starts: a fresh clone, and the secret as it is at that moment.
Start(c) ==
  /\ pc = "off" /\ n < MaxRuns
  /\ n' = n + 1
  /\ main' = remote /\ tracking' = remote /\ disk' = Tip(remote)
  /\ attempt' = 0 /\ result' = "none" /\ broken' = {}
  /\ valid' = Copied("secret", "run") /\ unsaved' = FALSE /\ foreign' = FALSE
  /\ config' = c /\ wrote' = {} /\ outcome' = "none" /\ exit' = "none"
  /\ pc' = "preflight"
  /\ UNCHANGED <<remote, expiries>>

\* The runner is gone with its clone.
Gone ==
  /\ pc' = "off"
  /\ main' = <<>> /\ tracking' = <<>> /\ disk' = Blank
  /\ attempt' = 0 /\ valid' = valid \ {"run"} /\ expiries' = 0
  /\ UNCHANGED <<remote, n, foreign>>

\* The job is over; what is known of it stays.
Exit(how) ==
  /\ exit' = how
  /\ Gone
  /\ UNCHANGED <<result, broken, unsaved, config, wrote, outcome>>

\* --check: the PAT can write a secret, before any token is used up.
Preflight ==
  /\ pc = "preflight" /\ config # "missing"
  /\ pc' = "refresh"
  /\ UNCHANGED <<gitVars, n, tokenVars, runVars>>

PreflightFails ==
  /\ pc = "preflight" /\ config # "opted out"
  /\ Exit("red")

\* xdk's refresh_token: the token is used up, and there is a new one.
Refresh ==
  /\ \/ pc = "refresh" /\ UNCHANGED expiries
     \/ pc = "sync" /\ expiries < MaxExpiries /\ expiries' = expiries + 1
  /\ "run" \in valid
  /\ valid' = {"run"}
  /\ pc' = "store"
  /\ UNCHANGED <<gitVars, n, unsaved, foreign, runVars>>

\* The exchange fails, at the start or after a 401 in a call: X refuses the
\* token, or does not answer, or takes it and its answer is lost.
Refused ==
  /\ pc \in {"refresh", "sync"}
  /\ \/ UNCHANGED valid
     \/ "run" \in valid /\ valid' = {}
  /\ outcome' = "auth" /\ pc' = "report"
  /\ UNCHANGED <<gitVars, n, expiries, unsaved, foreign, config, wrote, exit>>

\* Seeded fault: the error of a failed write is dropped.
StoreForgets ==
  /\ pc = "store"
  /\ valid' \in {valid} \union (IF config = "pat" THEN {Copied("run", "secret")} ELSE {})
  /\ unsaved' = FALSE
  /\ pc' = "sync"
  /\ UNCHANGED <<gitVars, n, expiries, foreign, runVars>>

\* store_refresh_token: with a PAT the secret is set, or the error is kept for
\* the end of the run; a later success makes up for it.  Without one, nothing.
Store ==
  /\ pc = "store"
  /\ \/ /\ config = "pat"
        /\ \/ valid' = Copied("run", "secret") /\ unsaved' = FALSE
           \/ unsaved' = TRUE /\ UNCHANGED valid
     \/ /\ config = "opted out"
        /\ UNCHANGED <<valid, unsaved>>
  /\ pc' = "sync"
  /\ UNCHANGED <<gitVars, n, expiries, foreign, runVars>>

Known == {b \in Bookmarks : disk.file[b] # 0}

\* service.run has written these new bookmarks and returns, or raises.
Sync(new) ==
  /\ pc = "sync"
  /\ \/ new = {} /\ outcome' \in {"empty", "failed"}
     \/ new # {} /\ outcome' \in {"ok", "partial", "raised"}
  /\ wrote' = new
  /\ disk' = [disk EXCEPT !.file = [f \in Files |-> IF f \in new THEN n ELSE @[f]]]
  /\ pc' = "report"
  /\ UNCHANGED <<remote, main, tracking, attempt, result, broken, n, tokenVars, config, exit>>

\* update_after_run with the cron's runner.
Heartbeat(old, success) ==
  [by |-> n, at |-> 0, failures |-> IF success THEN 0 ELSE old.failures + 1]

\* Is there something the run wants to be seen in the vault?
Tells == outcome \in {"ok", "auth"} \/ (unsaved /\ outcome # "raised")

\* The files that tell of trouble with the tokens.
Raised ==
  (IF outcome = "auth" THEN {"auth"} ELSE {}) \union
  (IF unsaved /\ outcome \notin {"auth", "raised"} THEN {"persist"} ELSE {})

\* run of headless.py after service.run: the heartbeat and the flags are
\* written, to be pushed.
Report ==
  /\ pc = "report" /\ Tells
  /\ disk' = [disk EXCEPT
       !.status = Heartbeat(@, outcome \in {"ok", "empty"} /\ ~unsaved),
       !.file = [f \in Files |-> IF f \in Raised THEN n ELSE @[f]]]
  /\ pc' = "stage"
  /\ UNCHANGED <<remote, main, tracking, attempt, result, broken, n, tokenVars,
                 runVars>>

\* The heartbeat of a run without new cards and trouble with tokens is written
\* to the clone, which is the end of it.
ReportNothing ==
  /\ pc = "report" /\ ~Tells
  /\ Exit(IF outcome = "empty" THEN "green" ELSE "red")

\* Seeded fault: the push is taken to have worked.
ExitCodeBlind ==
  IF outcome \in {"auth", "partial", "failed"} THEN "red"
  ELSE IF outcome = "empty" \/ unsaved THEN "amber"
  ELSE "green"

\* The exit code of a run that tried to push.
ExitCode ==
  IF outcome \in {"auth", "partial", "failed"} THEN "red"
  ELSE IF outcome = "empty" THEN "amber"
  ELSE IF result = "conflict" THEN "red"
  ELSE IF result = "success" /\ ~unsaved THEN "green"
  ELSE "amber"

Conclude ==
  /\ pc = "conclude"
  /\ Exit(ExitCode)

\* The workflow's time is up, or the runner is lost.
Killed ==
  /\ pc # "off"
  /\ exit' = "killed"
  /\ Gone
  /\ result' = "none" /\ broken' = {} /\ unsaved' = FALSE
  /\ config' = "none" /\ wrote' = {} /\ outcome' = "none"

Mac == MacStep /\ UNCHANGED <<tokenVars, runVars>>

\* What the job does once it is started.
RunStep ==
  \/ Preflight \/ PreflightFails
  \/ Refresh \/ Refused \/ Store
  \/ \E new \in SUBSET (Bookmarks \ Known) : Sync(new)
  \/ Report \/ ReportNothing \/ Conclude
  \/ PushStep /\ UNCHANGED <<tokenVars, runVars>>

CronNext ==
  \/ Mac \/ MacRotates \/ Reauthorize
  \/ \E c \in Configs : Start(c)
  \/ RunStep \/ Killed

\* The runner goes on with what it has started.
CronSpec == CronInit /\ [][CronNext]_cronVars /\ WF_cronVars(RunStep)

-----------------------------------------------------------------------------

\* Has a commit of this run reached the vault's branch?
Pushed == \E i \in 1..Len(remote) : remote[i].by = n

\* Nothing that is on the vault's branch is ever taken off it, though every
\* conflict and every exhausted retry ends in a forced push.  Exempt are the runs
\* in which the abort or the reset before that push has failed (git_push.py:384),
\* and those whose last fetch has failed after it moved origin/main: the lease
\* then covers commits that the pushed branch was never put on (438).
RemoteOnlyGrows ==
  [][Extends(remote', remote)
     \/ broken \intersect {"abort", "reset", "fetch"} # {}]_cronVars

\* "0 = full success (cards committed + pushed)" (headless.py): a commit of a
\* green run that wrote cards is on the branch, with the cards, or with what
\* the Mac had made of them, and its healthy heartbeat, unless git status failed.
GreenIsPushed ==
  exit = "green" /\ wrote # {} /\ "status" \notin broken =>
    \E i \in 1..Len(remote) :
      LET c == remote[i] IN
      /\ c.by = n /\ c.tree.status.by = n /\ c.tree.status.failures = 0
      /\ \A b \in wrote : c.tree.file[b] # 0

\* A run that has new cards and meets no failing command, no conflict and no
\* exhausted retry has pushed them ("the vault repo has a new commit",
\* docs/CRON_SETUP.md).
CardsArePushed ==
  /\ outcome = "ok" /\ broken = {}
  /\ exit \in {"green", "amber", "red"}
  /\ result \notin {"conflict", "flagged"}
  => Pushed

\* The side of a conflict that git show could not read is <missing>.
Missing == IF "show" \in broken THEN {0} ELSE {}

\* What a run that has given up on a conflict puts into the vault has, for every
\* card of the run that the Mac has written too, the run's version as .local and
\* the Mac's as .remote ("cron's version", "your Mac's version",
\* docs/CONFLICT_RESOLUTION.md:13-14; TROUBLESHOOTING.md:507-509 has it the other
\* way round), whatever else has failed on the way.  A side whose git show has
\* failed may be <missing>, and is never another version.  Exempt are the runs
\* whose abort or reset has failed: they push what is left of the rebase.
ConflictIsKept ==
  result = "conflict" /\ broken \intersect {"abort", "reset"} = {} =>
    \A i \in 1..Len(remote) : remote[i].by = n =>
      \A b \in wrote :
        LET there == remote[i].tree.file[b] IN
        there # 0 =>
          \E s \in remote[i].tree.saved :
            /\ s.run = n /\ s.file = b
            /\ s.local \in {n} \union Missing
            /\ s.remote \in {there} \union Missing

\* A green run with a PAT leaves the token that X accepts in the secret,
\* however often it was rotated and whatever failed in between, unless the Mac
\* has taken a token of its own.
GreenKeepsToken ==
  exit = "green" /\ config = "pat" /\ ~foreign => "secret" \in valid

\* The turns that the push has left, and the exchanges after a 401.
Turns == 3 * (MaxAttempts - attempt)
Expiries == 2 * (MaxExpiries - expiries)
Whole == 3 * MaxAttempts

\* A bound on the steps that the job has left.
Left ==
  CASE pc = "off" -> 0
    [] pc = "conclude" -> 1
    [] pc = "lease" -> 2
    [] pc = "push" -> 3 + Turns
    [] pc = "rebase" -> 4 + Turns
    [] pc = "fetch" -> 5 + Turns
    [] pc = "stage" -> 6 + Whole
    [] pc = "report" -> 7 + Whole
    [] pc = "sync" -> 8 + Whole + Expiries
    [] pc = "store" -> 9 + Whole + Expiries
    [] pc = "refresh" -> 10 + Whole + Expiries
    [] pc = "preflight" -> 11 + Whole + Expiries

\* Whatever a step of the job comes to, the job is nearer to its end than before,
\* and nothing the Mac does takes it back: no retry of the push (git_push.py:261)
\* and no new token goes round without being counted.
StepsRunOut ==
  [][/\ RunStep => Left' \in 0..(Left - 1)
     /\ n' = n => Left' <= Left]_cronVars

\* Every run ends by itself, whatever fails and whatever the Mac pushes meanwhile:
\* the attempts of the push are bounded (git_push.py:261).
RunsEnd == []<>(pc = "off")

=============================================================================
