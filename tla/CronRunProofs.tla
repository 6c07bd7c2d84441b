--------------------------- MODULE CronRunProofs ---------------------------
(***************************************************************************)
(* Proofs about the cron job, for every number of bookmarks, runs, pushes  *)
(* of the Mac, attempts and expired tokens: what the branches hold and who *)
(* can have written it, how a run's commit gets into the vault, the token, *)
(* and how far a run has to go.                                            *)
(***************************************************************************)
EXTENDS CronRun, SequenceTheorems, TLAPS

-----------------------------------------------------------------------------
(* Branches. *)

LEMMA TopIn ==
  ASSUME NEW S, NEW b \in Seq(S), b # <<>>
  PROVE  Top(b) \in S /\ Len(b) \in Nat \ {0}
  BY DEF Top

LEMMA AppendedBranch ==
  ASSUME NEW S, NEW b \in Seq(S), NEW c \in S
  PROVE  /\ Append(b, c) \in Seq(S) /\ Append(b, c) # <<>>
         /\ Len(b) \in Nat /\ Len(Append(b, c)) = Len(b) + 1
         /\ \A i \in 1..Len(b) : Append(b, c)[i] = b[i]
         /\ Append(b, c)[Len(b) + 1] = c
<1> DEFINE long == Append(b, c)
<1>1. long \in Seq(S) /\ Len(b) \in Nat /\ Len(long) = Len(b) + 1
  OBVIOUS
<1>2. (\A i \in 1..Len(b) : long[i] = b[i]) /\ long[Len(b) + 1] = c
  OBVIOUS
<1>3. long # <<>>
  <2> HIDE DEF long
  <2> QED BY <1>1, EmptySeq
<1> QED BY <1>1, <1>2, <1>3

LEMMA TopAppend ==
  ASSUME NEW S, NEW b \in Seq(S), NEW c \in S, NEW long, long = Append(b, c)
  PROVE  Top(long) = c
  BY AppendedBranch DEF Top

LEMMA BelowAppend ==
  ASSUME NEW S, NEW b \in Seq(S), NEW c \in S
  PROVE  Below(Append(b, c)) = b
<1> DEFINE long == Append(b, c)
           short == SubSeq(long, 1, Len(b))
<1>1. Len(long) - 1 = Len(b) /\ Len(b) \in Nat
  BY AppendedBranch
<1>2. \A i \in 1..Len(b) : long[i] \in S /\ long[i] = b[i]
  BY AppendedBranch, ElementOfSeq
<1> HIDE DEF long
<1>3. /\ short \in Seq(S)
      /\ Len(short) = Len(b)
      /\ \A i \in 1..Len(b) : short[i] = b[i]
  BY <1>1, <1>2, SubSeqProperties
<1> HIDE DEF short
<1>4. short = b
  BY <1>3, SeqEqual
<1> QED BY <1>1, <1>4 DEF Below, short, long

LEMMA ExtendsItself ==
  ASSUME NEW S, NEW old \in Seq(S) PROVE Extends(old, old)
  BY DEF Extends

LEMMA ExtendsFurther ==
  ASSUME NEW S, NEW old \in Seq(S), NEW new \in Seq(S), NEW newer \in Seq(S),
         Extends(new, old), Extends(newer, new)
  PROVE  Extends(newer, old)
<1>1. Len(old) \in Nat /\ Len(new) \in Nat /\ Len(newer) \in Nat
  OBVIOUS
<1> QED BY <1>1 DEF Extends

LEMMA AppendExtends ==
  ASSUME NEW S, NEW old \in Seq(S), NEW new \in Seq(S), NEW c, Extends(new, old)
  PROVE  Extends(Append(new, c), old)
<1>1. new \in Seq(S \union {c})
  BY SeqMonotonic
<1>2. Len(old) \in Nat /\ Len(new) \in Nat
  OBVIOUS
<1> QED BY <1>1, <1>2, AppendedBranch DEF Extends

-----------------------------------------------------------------------------
(* What run k can find in the vault, or leave there: what was written by the *)
(* runs up to it or by the Mac, and no more failures than there were runs.   *)

By(k) == 0..k \union {ByMac}
StatusesUpTo(k) == [by: By(k), at: Nat, failures: 0..k]
SavedUpTo(k) == [run: 1..k, file: Files, local: By(k), remote: By(k)]
TreesUpTo(k) == [file: [Files -> By(k)], status: StatusesUpTo(k), saved: SUBSET SavedUpTo(k)]
CommitsUpTo(k) == [by: By(k), tree: TreesUpTo(k)]

LEMMA UpToGrows ==
  ASSUME NEW j \in Int, NEW k \in Int, j <= k
  PROVE  /\ By(j) \subseteq By(k) /\ StatusesUpTo(j) \subseteq StatusesUpTo(k)
         /\ TreesUpTo(j) \subseteq TreesUpTo(k) /\ CommitsUpTo(j) \subseteq CommitsUpTo(k)
         /\ Seq(CommitsUpTo(j)) \subseteq Seq(CommitsUpTo(k))
<1>1. By(j) \subseteq By(k) /\ 0..j \subseteq 0..k /\ 1..j \subseteq 1..k
  BY DEF By
<1>2. StatusesUpTo(j) \subseteq StatusesUpTo(k)
  BY <1>1 DEF StatusesUpTo
<1>3. SavedUpTo(j) \subseteq SavedUpTo(k)
  BY <1>1 DEF SavedUpTo
<1>4. [Files -> By(j)] \subseteq [Files -> By(k)]
  BY <1>1
<1>5. TreesUpTo(j) \subseteq TreesUpTo(k)
  BY <1>2, <1>3, <1>4 DEF TreesUpTo
<1>6. CommitsUpTo(j) \subseteq CommitsUpTo(k)
  BY <1>1, <1>5 DEF CommitsUpTo
<1> QED BY <1>1, <1>2, <1>5, <1>6, SeqMonotonic

\* The types of the model are those of the last run.
LEMMA UpToAll ==
  By(MaxRuns) = Contents /\ StatusesUpTo(MaxRuns) = Statuses
  /\ TreesUpTo(MaxRuns) = Trees /\ CommitsUpTo(MaxRuns) = Commits
<1>1. By(MaxRuns) = Contents
  BY GitAssumption DEF By, Contents, ByMac
<1> QED BY <1>1 DEF StatusesUpTo, SavedUpTo, TreesUpTo, CommitsUpTo, Statuses, Sidecars, Runs,
                    Trees, Commits

LEMMA TreeParts ==
  ASSUME NEW k, NEW t \in TreesUpTo(k)
  PROVE  /\ t.file \in [Files -> By(k)] /\ t.status \in StatusesUpTo(k)
         /\ t.saved \subseteq SavedUpTo(k)
         /\ \A f \in Files : t.file[f] \in By(k)
  BY DEF TreesUpTo

\* One file of a tree changes.
LEMMA FileChanges ==
  ASSUME NEW k, NEW t \in TreesUpTo(k), NEW g \in Files, NEW v \in By(k)
  PROVE  [t EXCEPT !.file[g] = v] \in TreesUpTo(k)
  BY DEF TreesUpTo

\* A tree with the last run's or the Mac's changes is a tree.
LEMMA TreeChanges ==
  ASSUME NEW k \in Nat, NEW t \in TreesUpTo(k),
         NEW file \in [Files -> By(k)], NEW status \in StatusesUpTo(k),
         NEW saved \in SUBSET SavedUpTo(k)
  PROVE  /\ [t EXCEPT !.file = file] \in TreesUpTo(k)
         /\ [t EXCEPT !.saved = saved] \in TreesUpTo(k)
         /\ [t EXCEPT !.status = status, !.file = file] \in TreesUpTo(k)
         /\ [t EXCEPT !.file = file, !.status = status] \in TreesUpTo(k)
         /\ [file |-> file, status |-> status, saved |-> saved] \in TreesUpTo(k)
  BY DEF TreesUpTo

LEMMA BlankType ==
  ASSUME NEW k \in Nat PROVE Blank \in TreesUpTo(k)
<1>1. 0 \in By(k) /\ 0 \in 0..k
  BY DEF By
<1> QED BY <1>1 DEF Blank, TreesUpTo, StatusesUpTo

LEMMA BranchesGrow ==
  ASSUME NEW j \in Int, NEW k \in Int, j <= k, NEW b \in Seq(CommitsUpTo(j))
  PROVE  b \in Seq(CommitsUpTo(k))
  BY UpToGrows

LEMMA TipIn ==
  ASSUME NEW k, NEW b \in Seq(CommitsUpTo(k)), b # <<>>
  PROVE  Top(b) \in CommitsUpTo(k) /\ Tip(b) \in TreesUpTo(k) /\ Top(b).by \in By(k)
<1>1. Top(b) \in CommitsUpTo(k)
  BY TopIn
<1> QED BY <1>1 DEF Tip, CommitsUpTo

-----------------------------------------------------------------------------
(* Types. *)

\* What the job does before it commits, in its clone as it was made.
Before == {"preflight", "refresh", "store", "sync", "report", "stage"}

PlaceTypes ==
  /\ n \in 0..MaxRuns /\ pc \in CronPcs /\ attempt \in 0..MaxAttempts
  /\ pc # "off" => n # 0
  /\ pc \in {"rebase", "push"} => attempt < MaxAttempts

PushTypes == result \in Results /\ broken \subseteq {"status", "fetch", "show", "abort", "reset", "other"}

TokenTypes ==
  /\ valid \subseteq {"secret", "keychain", "run"} /\ expiries \in 0..MaxExpiries
  /\ unsaved \in BOOLEAN /\ foreign \in BOOLEAN

RunTypes ==
  /\ config \in Configs \union {"none"} /\ wrote \subseteq Bookmarks
  /\ outcome \in Outcomes
  /\ exit \in {"none", "green", "amber", "red", "killed"}

SmallTypes == PlaceTypes /\ PushTypes /\ TokenTypes /\ RunTypes

\* The last run that the vault's branch and its clone can tell of.
Age == IF pc \in Before THEN n - 1 ELSE n

\* The run's own heartbeat, which may count one failure more than those before,
\* is not there before it is reported.
Aged ==
  /\ remote \in Seq(CommitsUpTo(Age)) /\ remote # <<>>
  /\ main \in Seq(CommitsUpTo(Age)) /\ tracking \in Seq(CommitsUpTo(Age))
  /\ pc # "off" => main # <<>> /\ tracking # <<>>
  /\ disk \in TreesUpTo(n)
  /\ pc \in Before \ {"stage"} => disk.status \in StatusesUpTo(n - 1)

LEMMA Bounds == MaxRuns \in Nat \ {0} /\ MaxAttempts \in Nat \ {0} /\ MaxExpiries \in Nat
  BY GitAssumption, CronAssumption

LEMMA GoneSmall ==
  ASSUME SmallTypes, Gone, exit' \in {"none", "green", "amber", "red", "killed"},
         PushTypes', unsaved' \in BOOLEAN, config' \in Configs \union {"none"},
         wrote' \subseteq Bookmarks, outcome' \in Outcomes
  PROVE  SmallTypes'
<1>1. PlaceTypes'
  BY Bounds DEF SmallTypes, PlaceTypes, CronPcs, Gone
<1>2. TokenTypes'
  BY Bounds DEF SmallTypes, TokenTypes, Gone
<1> QED BY <1>1, <1>2 DEF SmallTypes, RunTypes

LEMMA ExitSmall ==
  ASSUME SmallTypes, NEW how \in {"green", "amber", "red"}, Exit(how) PROVE SmallTypes'
<1>1. PushTypes' /\ unsaved' \in BOOLEAN /\ config' \in Configs \union {"none"}
      /\ wrote' \subseteq Bookmarks /\ outcome' \in Outcomes
  BY DEF Exit, SmallTypes, PushTypes, TokenTypes, RunTypes
<1> QED BY <1>1, GoneSmall DEF Exit

LEMMA PushSmall ==
  ASSUME PlaceTypes, PushTypes, PushStep
  PROVE  /\ PlaceTypes' /\ PushTypes' /\ n' = n
         /\ pc \in GitPcs \ {"conclude"} /\ pc' \in GitPcs \ {"stage"}
<1>1. CASE NothingToCommit \/ CommitFails \/ RebaseFails \/ TimesOut \/ Push
  <2>1. UNCHANGED <<n, attempt>> /\ pc \in GitPcs \ {"conclude"} /\ pc' = "conclude"
    BY <1>1 DEF NothingToCommit, CommitFails, RebaseFails, TimesOut, Push, Return, GitPcs
  <2>2. result' \in {"success", "error", "raised"}
    BY <1>1 DEF NothingToCommit, CommitFails, RebaseFails, TimesOut, Push, Return
  <2>3. broken' \in {broken, broken \union {"status"}, broken \union {"other"}}
    BY <1>1 DEF NothingToCommit, CommitFails, RebaseFails, TimesOut, Push, Fails
  <2> QED BY <2>1, <2>2, <2>3 DEF PlaceTypes, PushTypes, CronPcs, GitPcs, Results
<1>2. CASE Commit \/ Fetch \/ Rebase \/ LeasePush
  <2>1. /\ UNCHANGED <<n, attempt, result>> /\ broken' \subseteq broken
        /\ pc \in GitPcs \ {"conclude"} /\ pc' \in GitPcs \ {"stage"}
    BY <1>2 DEF Commit, Fetch, Rebase, LeasePush, GitPcs
  <2>2. pc' \in {"rebase", "push"} => attempt < MaxAttempts
    BY <1>2 DEF Commit, Fetch, Rebase, LeasePush, PlaceTypes
  <2> QED BY <2>1, <2>2 DEF PlaceTypes, PushTypes, CronPcs, GitPcs
<1>3. CASE FetchFails \/ PushRejected \/ PushFails
  <2>1. /\ UNCHANGED <<n, result>> /\ pc \in {"fetch", "push"} /\ pc' = "fetch"
        /\ attempt' = attempt + 1 /\ attempt < MaxAttempts
    BY <1>3 DEF FetchFails, PushRejected, PushFails, NextAttempt, PlaceTypes
  <2>2. broken' \in {broken, broken \union {"other"}, broken \union {"other", "fetch"}}
    BY <1>3 DEF FetchFails, PushRejected, PushFails, Fails
  <2>3. attempt' \in 0..MaxAttempts
    BY <2>1, Bounds DEF PlaceTypes
  <2> QED BY <2>1, <2>2, <2>3 DEF PlaceTypes, PushTypes, CronPcs, GitPcs
<1>4. CASE FailLoud \/ FailLoudEmpty \/ FailLoudFails \/ Flag
  <2>1. /\ UNCHANGED <<n, attempt>> /\ pc \in {"rebase", "fetch"} /\ pc' = "lease"
        /\ result' \in {"conflict", "flagged"}
    BY <1>4 DEF FailLoud, FailLoudEmpty, FailLoudFails, Flag, Conflicted
  <2>2. broken' \subseteq broken \union {"other", "show", "abort", "reset"}
    BY <1>4 DEF FailLoud, ShowFails, FailLoudEmpty, FailLoudFails, Flag, Fails
  <2> QED BY <2>1, <2>2 DEF PlaceTypes, PushTypes, CronPcs, GitPcs, Results
<1> QED BY <1>1, <1>2, <1>3, <1>4 DEF PushStep

LEMMA SmallTypesStep == SmallTypes /\ [CronNext]_cronVars => SmallTypes'
<1> SUFFICES ASSUME SmallTypes, [CronNext]_cronVars PROVE SmallTypes'
  OBVIOUS
<1> USE DEF SmallTypes
<1>1. CASE Mac
  <2>1. UNCHANGED <<n, pc, attempt, result, broken, tokenVars, runVars>>
    BY <1>1 DEF Mac, MacStep, MacSyncs, MacClears, MacPushes
  <2> QED BY <2>1 DEF PlaceTypes, PushTypes, TokenTypes, RunTypes, tokenVars, runVars
<1>2. CASE MacRotates \/ Reauthorize
  <2>1. UNCHANGED <<n, pc, attempt, result, broken, expiries, unsaved, runVars>>
    BY <1>2 DEF MacRotates, Reauthorize, gitVars
  <2>2. valid' \subseteq {"secret", "keychain"} /\ foreign' = TRUE
    BY <1>2 DEF MacRotates, Reauthorize
  <2> QED BY <2>1, <2>2 DEF PlaceTypes, PushTypes, TokenTypes, RunTypes, runVars
<1>3. ASSUME NEW c \in Configs, Start(c) PROVE SmallTypes'
  <2>1. PlaceTypes'
    BY <1>3, Bounds DEF Start, PlaceTypes, CronPcs
  <2>2. PushTypes' /\ RunTypes'
    BY <1>3 DEF Start, PushTypes, RunTypes, Results, Outcomes
  <2>3. TokenTypes'
    BY <1>3 DEF Start, TokenTypes, Copied
  <2> QED BY <2>1, <2>2, <2>3
<1>4. CASE Preflight \/ Refresh \/ Refused \/ Store
  <2>1. UNCHANGED <<n, attempt, result, broken, foreign, config, wrote, exit>>
    BY <1>4 DEF Preflight, Refresh, Refused, Store, gitVars, tokenVars, runVars
  <2>2. /\ pc # "off" /\ pc' \in {"refresh", "store", "sync", "report"}
        /\ outcome' \in {outcome, "auth"} /\ unsaved' \in {unsaved, TRUE, FALSE}
    BY <1>4 DEF Preflight, Refresh, Refused, Store, tokenVars, runVars
  <2>3. expiries' \in 0..MaxExpiries
    <3>1. expiries' = expiries \/ (expiries < MaxExpiries /\ expiries' = expiries + 1)
      BY <1>4 DEF Preflight, Refresh, Refused, Store, tokenVars
    <3> QED BY <3>1, Bounds DEF TokenTypes
  <2>4. valid' \subseteq {"secret", "keychain", "run"}
    BY <1>4 DEF Preflight, Refresh, Refused, Store, Copied, tokenVars, TokenTypes
  <2>5. PlaceTypes' /\ PushTypes'
    BY <2>1, <2>2 DEF PlaceTypes, PushTypes, CronPcs
  <2>6. TokenTypes' /\ RunTypes'
    BY <2>1, <2>2, <2>3, <2>4 DEF TokenTypes, RunTypes, Outcomes
  <2> QED BY <2>5, <2>6
<1>5. CASE (\E new \in SUBSET (Bookmarks \ Known) : Sync(new)) \/ Report
  <2>1. /\ UNCHANGED <<n, attempt, result, broken, tokenVars, config, exit>>
        /\ pc # "off" /\ pc' \in {"report", "stage"}
        /\ wrote' \subseteq Bookmarks /\ outcome' \in Outcomes
    BY <1>5 DEF Sync, Report, runVars, RunTypes, Outcomes
  <2> QED BY <2>1 DEF PlaceTypes, PushTypes, TokenTypes, RunTypes, CronPcs, GitPcs, tokenVars
<1>6. CASE PreflightFails \/ ReportNothing \/ Conclude
  BY <1>6, ExitSmall DEF PreflightFails, ReportNothing, Conclude, ExitCode
<1>7. CASE Killed
  <2>1. PushTypes' /\ unsaved' \in BOOLEAN /\ config' \in Configs \union {"none"}
        /\ wrote' \subseteq Bookmarks /\ outcome' \in Outcomes
    BY <1>7 DEF Killed, PushTypes, Results, Outcomes
  <2> QED BY <1>7, <2>1, GoneSmall DEF Killed
<1>8. CASE PushStep /\ UNCHANGED <<tokenVars, runVars>>
  <2>1. PlaceTypes' /\ PushTypes'
    BY <1>8, PushSmall
  <2> QED BY <1>8, <2>1 DEF TokenTypes, RunTypes, tokenVars, runVars
<1>9. CASE UNCHANGED cronVars
  BY <1>9 DEF PlaceTypes, PushTypes, TokenTypes, RunTypes, cronVars, gitVars, tokenVars, runVars
<1> QED BY <1>1, <1>2, <1>3, <1>4, <1>5, <1>6, <1>7, <1>8, <1>9 DEF CronNext, RunStep

\* What the Mac can push is no younger than what it has pulled.
LEMMA MacGrows ==
  ASSUME NEW k \in Nat, remote \in Seq(CommitsUpTo(k)), remote # <<>>, MacStep
  PROVE  /\ UNCHANGED <<main, tracking, disk, n, pc, attempt, result, broken>>
         /\ \E c \in CommitsUpTo(k) : c.by = ByMac /\ remote' = Append(remote, c)
<1>1. Tip(remote) \in TreesUpTo(k) /\ Len(remote) \in Nat
  BY TipIn
<1>2. 0 \in By(k) /\ ByMac \in By(k)
  BY DEF By
<1>3. PICK tree \in TreesUpTo(k) : MacPushes(tree)
  <2>1. ASSUME NEW b \in Bookmarks, MacSyncs(b)
        PROVE  \E tree \in TreesUpTo(k) : MacPushes(tree)
    <3> DEFINE file == [Tip(remote).file EXCEPT ![b] = ByMac]
               status == [Tip(remote).status EXCEPT !.by = ByMac, !.at = Len(remote)]
               tree == [Tip(remote) EXCEPT !.file[b] = ByMac, !.status = status]
    <3>1. file \in [Files -> By(k)]
      BY <1>1, <1>2, TreeParts DEF Files
    <3>2. status \in StatusesUpTo(k)
      BY <1>1, <1>2, TreeParts DEF StatusesUpTo
    <3>3. tree = [Tip(remote) EXCEPT !.file = file, !.status = status]
      BY <1>1 DEF TreesUpTo
    <3>4. tree \in TreesUpTo(k)
      <4> HIDE DEF file, status
      <4> QED BY <1>1, <3>1, <3>2, <3>3, TreeChanges DEF TreesUpTo
    <3>5. MacPushes(tree)
      BY <2>1 DEF MacSyncs
    <3> HIDE DEF tree
    <3> QED BY <3>4, <3>5
  <2>2. ASSUME NEW f \in Flags, MacClears(f)
        PROVE  \E tree \in TreesUpTo(k) : MacPushes(tree)
    BY <1>1, <1>2, <2>2, FileChanges DEF MacClears, Files
  <2> QED BY <2>1, <2>2 DEF MacStep
<1> DEFINE c == [by |-> ByMac, tree |-> tree]
<1>4. c \in CommitsUpTo(k) /\ c.by = ByMac
  BY <1>2, <1>3 DEF CommitsUpTo
<1>5. /\ remote' = Append(remote, c)
      /\ UNCHANGED <<main, tracking, disk, n, pc, attempt, result, broken>>
  BY <1>3 DEF MacPushes
<1> HIDE DEF c
<1> QED BY <1>4, <1>5

LEMMA MacAged ==
  ASSUME SmallTypes, Aged, MacStep PROVE Aged'
<1>1. Age \in Nat /\ remote \in Seq(CommitsUpTo(Age)) /\ remote # <<>>
  BY Bounds DEF SmallTypes, PlaceTypes, Age, Before, Aged
<1>2. UNCHANGED <<main, tracking, disk, n, pc>>
  BY <1>1, MacGrows
<1>3. remote' \in Seq(CommitsUpTo(Age)) /\ remote' # <<>>
  BY <1>1, MacGrows, AppendedBranch
<1>4. Age' = Age
  BY <1>2 DEF Age
<1> QED BY <1>2, <1>3, <1>4 DEF Aged

\* What a rebase makes, or what is left of a conflict, is a commit of run n.
LEMMA MergedIn ==
  ASSUME NEW k \in Nat, Mine \in TreesUpTo(k), Theirs \in TreesUpTo(k) PROVE Merged \in TreesUpTo(k)
<1> DEFINE file == [f \in Files |-> IF Mine.file[f] = Base.file[f] THEN Theirs.file[f]
                                    ELSE Mine.file[f]]
           status == IF Mine.status = Base.status THEN Theirs.status ELSE Mine.status
           saved == Mine.saved \union Theirs.saved
<1>1. file \in [Files -> By(k)] /\ status \in StatusesUpTo(k) /\ saved \in SUBSET SavedUpTo(k)
  BY TreeParts
<1>2. Merged = [file |-> file, status |-> status, saved |-> saved]
  BY DEF Merged
<1> HIDE DEF file, status, saved
<1> QED BY <1>1, <1>2, TreeChanges

LEMMA CapturedIn ==
  ASSUME n \in Nat \ {0}, Mine \in TreesUpTo(n), Theirs \in TreesUpTo(n), NEW a, NEW b
  PROVE  [Theirs EXCEPT !.saved = @ \union Captured(a, b)] \in TreesUpTo(n)
<1>1. n \in 1..n /\ 0 \in By(n)
  BY DEF By
<1>2. Captured(a, b) \subseteq SavedUpTo(n)
  <2>1. \A f \in Files : Shown(f, Mine.file[f], a) \in By(n)
          /\ Shown(f, Theirs.file[f], b) \in By(n)
    BY <1>1, TreeParts DEF Shown
  <2> QED BY <1>1, <2>1 DEF Captured, CardConflicts, SavedUpTo
<1>3. Theirs.saved \union Captured(a, b) \in SUBSET SavedUpTo(n)
  BY <1>2, TreeParts
<1> QED BY <1>3, TreeChanges DEF TreesUpTo

LEMMA PushAged ==
  ASSUME SmallTypes, Aged, PushStep PROVE Aged'
<1>1. n \in Nat \ {0} /\ n - 1 \in Int /\ n - 1 <= n /\ n \in By(n) /\ pc # "off" /\ pc' # "off"
      /\ pc' \notin Before
  BY Bounds, PushSmall DEF SmallTypes, PlaceTypes, GitPcs, By, Before
<1>2. Age \in Int /\ Age <= n
  BY <1>1 DEF Age
<1>3. /\ remote \in Seq(CommitsUpTo(n)) /\ main \in Seq(CommitsUpTo(n))
      /\ tracking \in Seq(CommitsUpTo(n)) /\ disk \in TreesUpTo(n)
      /\ remote # <<>> /\ main # <<>> /\ tracking # <<>>
  BY <1>1, <1>2, BranchesGrow DEF Aged
<1> DEFINE Fine == /\ remote' \in Seq(CommitsUpTo(n)) /\ main' \in Seq(CommitsUpTo(n))
                   /\ tracking' \in Seq(CommitsUpTo(n)) /\ disk' \in TreesUpTo(n)
                   /\ remote' # <<>> /\ main' # <<>> /\ tracking' # <<>>
<1>4. Mine \in TreesUpTo(n) /\ Theirs \in TreesUpTo(n)
  BY <1>3, TipIn DEF Mine, Theirs
<1>5. ASSUME NEW tree \in TreesUpTo(n), NEW b \in {main, tracking}
      PROVE  Append(b, [by |-> n, tree |-> tree]) \in Seq(CommitsUpTo(n)) \ {<<>>}
  <2> DEFINE c == [by |-> n, tree |-> tree]
  <2>1. c \in CommitsUpTo(n)
    BY <1>1 DEF CommitsUpTo
  <2> HIDE DEF c
  <2>2. Append(b, c) \in Seq(CommitsUpTo(n)) /\ Append(b, c) # <<>>
    <3>1. b \in Seq(CommitsUpTo(n))
      BY <1>3
    <3> QED BY <2>1, <3>1, AppendedBranch
  <2> QED BY <2>2 DEF c
<1>6. Fine
  <2>1. CASE NothingToCommit \/ CommitFails \/ RebaseFails \/ TimesOut \/ FailLoudFails
    <3>1. UNCHANGED <<remote, main, tracking, disk>>
      BY <2>1 DEF NothingToCommit, CommitFails, RebaseFails, TimesOut, FailLoudFails
    <3> QED BY <1>3, <3>1
  <2>2. CASE Commit
    <3>1. UNCHANGED <<remote, tracking, disk>> /\ main' = Append(main, [by |-> n, tree |-> disk])
      BY <2>2 DEF Commit
    <3> QED BY <1>3, <1>5, <3>1
  <2>3. CASE Fetch \/ FetchFails
    BY <1>3, <2>3 DEF Fetch, FetchFails
  <2>4. CASE Rebase
    <3>1. /\ UNCHANGED <<remote, tracking>> /\ disk' = Tip(main')
          /\ main' = tracking \/ main' = Append(tracking, [by |-> n, tree |-> Merged])
      BY <2>4 DEF Rebase
    <3>2. Merged \in TreesUpTo(n)
      BY <1>1, <1>4, MergedIn
    <3>3. main' \in Seq(CommitsUpTo(n)) /\ main' # <<>>
      BY <1>3, <1>5, <3>1, <3>2
    <3>4. Tip(main') \in TreesUpTo(n)
      BY <3>3, TipIn
    <3> QED BY <1>3, <3>1, <3>3, <3>4
  <2>5. CASE FailLoud
    <3>0. PICK a, b \in SUBSET CardConflicts :
            LET tree == [Theirs EXCEPT !.saved = @ \union Captured(a, b)] IN
            disk' = tree /\ main' = Append(tracking, [by |-> n, tree |-> tree])
      BY <2>5 DEF FailLoud
    <3> DEFINE tree == [Theirs EXCEPT !.saved = @ \union Captured(a, b)]
    <3>1. /\ UNCHANGED <<remote, tracking>> /\ disk' = tree
          /\ main' = Append(tracking, [by |-> n, tree |-> tree])
      BY <2>5, <3>0 DEF FailLoud
    <3>2. tree \in TreesUpTo(n)
      BY <1>1, <1>4, CapturedIn
    <3> HIDE DEF tree
    <3> QED BY <1>3, <1>5, <3>1, <3>2
  <2>6. CASE FailLoudEmpty
    BY <1>3, <1>4, <2>6 DEF FailLoudEmpty
  <2>7. CASE Push \/ PushRejected \/ PushFails \/ LeasePush
    <3>1. /\ UNCHANGED <<main, disk>> /\ remote' \in {remote, main} /\ tracking' \in {tracking, main}
      BY <2>7 DEF Push, PushRejected, PushFails, LeasePush, Land, NextAttempt
    <3> QED BY <1>3, <3>1
  <2>8. CASE Flag
    <3> DEFINE tree == [disk EXCEPT !.file["rejected"] = n]
    <3>1. /\ UNCHANGED <<remote, tracking>>
          /\ \/ disk' = tree /\ main' = Append(main, [by |-> n, tree |-> tree])
             \/ UNCHANGED <<main, disk>>
      BY <2>8 DEF Flag
    <3>2. tree \in TreesUpTo(n)
      BY <1>1, <1>3, FileChanges DEF Files, Flags
    <3> HIDE DEF tree
    <3> QED BY <1>3, <1>5, <3>1, <3>2
  <2> QED BY <2>1, <2>2, <2>3, <2>4, <2>5, <2>6, <2>7, <2>8 DEF PushStep
<1>7. n' = n /\ Age' = n
  BY <1>1, PushSmall DEF SmallTypes, Age
<1> QED BY <1>1, <1>6, <1>7 DEF Aged

LEMMA GoneAged ==
  ASSUME SmallTypes, Aged, Gone PROVE Aged'
<1>1. n \in Nat /\ n' = n /\ Age \in Int /\ Age <= n /\ Age' = n /\ pc' = "off"
  BY Bounds DEF SmallTypes, PlaceTypes, Gone, Age, Before
<1>2. remote' = remote /\ main' = <<>> /\ tracking' = <<>> /\ disk' = Blank
  BY DEF Gone
<1>3. remote' \in Seq(CommitsUpTo(n)) /\ remote' # <<>>
  BY <1>1, <1>2, BranchesGrow DEF Aged
<1>4. disk' \in TreesUpTo(n)
  BY <1>1, <1>2, BlankType
<1> QED BY <1>1, <1>2, <1>3, <1>4, EmptySeq DEF Aged, Before

LEMMA AgedStep == SmallTypes /\ Aged /\ [CronNext]_cronVars => Aged'
<1> SUFFICES ASSUME SmallTypes, Aged, [CronNext]_cronVars PROVE Aged'
  OBVIOUS
<1>0. n \in Nat /\ (pc # "off" => n >= 1)
  BY Bounds DEF SmallTypes, PlaceTypes
<1>1. CASE Mac
  BY <1>1, MacAged DEF Mac
<1>2. CASE MacRotates \/ Reauthorize \/ UNCHANGED cronVars
  <2>1. UNCHANGED <<remote, main, tracking, disk, n, pc>>
    BY <1>2 DEF MacRotates, Reauthorize, cronVars, gitVars
  <2> QED BY <2>1 DEF Aged, Age
<1>3. ASSUME NEW c \in Configs, Start(c) PROVE Aged'
  <2>1. /\ pc = "off" /\ n' = n + 1 /\ pc' = "preflight"
        /\ remote' = remote /\ main' = remote /\ tracking' = remote /\ disk' = Tip(remote)
    BY <1>3 DEF Start
  <2>2. Age = n /\ Age' = n /\ n' - 1 = n /\ n <= n'
    BY <1>0, <2>1 DEF Age, Before
  <2>3. remote \in Seq(CommitsUpTo(n)) /\ remote # <<>>
    BY <2>2 DEF Aged
  <2>4. Tip(remote) \in TreesUpTo(n)
    BY <2>3, TipIn
  <2>5. disk' \in TreesUpTo(n') /\ disk'.status \in StatusesUpTo(n)
    BY <1>0, <2>1, <2>2, <2>4, UpToGrows, TreeParts
  <2> QED BY <2>1, <2>2, <2>3, <2>5 DEF Aged
<1>4. CASE Preflight \/ Refresh \/ Refused \/ Store
  <2>1. /\ UNCHANGED <<remote, main, tracking, disk, n>> /\ pc \in Before \ {"stage"}
        /\ pc' \in Before \ {"stage"} /\ pc # "off"
    BY <1>4 DEF Preflight, Refresh, Refused, Store, gitVars, Before
  <2> QED BY <2>1 DEF Aged, Age
<1>5. ASSUME NEW new \in SUBSET (Bookmarks \ Known), Sync(new) PROVE Aged'
  <2> DEFINE file == [f \in Files |-> IF f \in new THEN n ELSE disk.file[f]]
  <2>1. /\ UNCHANGED <<remote, main, tracking, n>> /\ pc = "sync" /\ pc' = "report"
        /\ disk' = [disk EXCEPT !.file = file]
    BY <1>5 DEF Sync
  <2>2. n \in By(n)
    BY <1>0 DEF By
  <2>3. file \in [Files -> By(n)]
    BY <2>2, TreeParts DEF Aged
  <2>4. disk' \in TreesUpTo(n) /\ disk'.status = disk.status
    <3> HIDE DEF file
    <3> QED BY <2>1, <2>3 DEF Aged, TreesUpTo
  <2> QED BY <2>1, <2>4 DEF Aged, Age, Before
<1>6. CASE Report
  <2> DEFINE status == Heartbeat(disk.status, outcome \in {"ok", "empty"} /\ ~unsaved)
             file == [f \in Files |-> IF f \in Raised THEN n ELSE disk.file[f]]
  <2>1. /\ UNCHANGED <<remote, main, tracking, n>> /\ pc = "report" /\ pc' = "stage"
        /\ disk' = [disk EXCEPT !.status = status, !.file = file]
    BY <1>6 DEF Report
  <2>2. n \in By(n) /\ n >= 1
    BY <1>0, <2>1 DEF By
  <2>3. file \in [Files -> By(n)]
    BY <2>2, TreeParts DEF Aged
  <2>4. disk.status \in StatusesUpTo(n - 1)
    BY <2>1 DEF Aged, Before
  <2>5. status \in StatusesUpTo(n)
    BY <1>0, <2>2, <2>4 DEF StatusesUpTo, Heartbeat
  <2>6. disk' \in TreesUpTo(n)
    <3> HIDE DEF file, status
    <3> QED BY <1>0, <2>1, <2>3, <2>5, TreeParts, TreeChanges DEF Aged
  <2> QED BY <2>1, <2>6 DEF Aged, Age, Before
<1>7. CASE PreflightFails \/ ReportNothing \/ Conclude \/ Killed
  BY <1>7, GoneAged DEF PreflightFails, ReportNothing, Conclude, Killed, Exit
<1>8. CASE PushStep /\ UNCHANGED <<tokenVars, runVars>>
  BY <1>8, PushAged
<1> QED BY <1>1, <1>2, <1>3, <1>4, <1>5, <1>6, <1>7, <1>8 DEF CronNext, RunStep

LEMMA TypesInit == CronInit => SmallTypes /\ Aged
<1> SUFFICES ASSUME CronInit PROVE SmallTypes /\ Aged
  OBVIOUS
<1>1. SmallTypes
  <2>1. PlaceTypes
    BY Bounds DEF CronInit, GitInit, PlaceTypes, CronPcs
  <2>2. TokenTypes
    <3>1. valid = {"secret", "keychain"} /\ expiries = 0 /\ unsaved = FALSE /\ foreign = FALSE
      BY DEF CronInit
    <3>2. valid \subseteq {"secret", "keychain", "run"} /\ expiries \in 0..MaxExpiries
      BY <3>1, Bounds
    <3> QED BY <3>1, <3>2 DEF TokenTypes
  <2>3. PushTypes /\ RunTypes
    BY DEF CronInit, GitInit, PushTypes, RunTypes, Results, Outcomes
  <2> QED BY <2>1, <2>2, <2>3 DEF SmallTypes
<1>2. Age = 0 /\ n = 0 /\ pc = "off"
  BY DEF CronInit, GitInit, Age, Before
<1> DEFINE c == [by |-> 0, tree |-> Blank]
<1>3. Blank \in TreesUpTo(0) /\ 0 \in By(0)
  BY BlankType DEF By
<1>4. c \in CommitsUpTo(0)
  BY <1>3 DEF CommitsUpTo
<1>5. remote = <<c>> /\ main = <<>> /\ tracking = <<>> /\ disk = Blank
  BY DEF CronInit, GitInit
<1> HIDE DEF c
<1>6. remote \in Seq(CommitsUpTo(0)) /\ remote # <<>>
  BY <1>4, <1>5
<1>7. Aged
  BY <1>2, <1>3, <1>5, <1>6, EmptySeq DEF Aged, Before
<1> QED BY <1>1, <1>7

LEMMA TypesHold == CronSpec => [](SmallTypes /\ Aged)
<1>1. (SmallTypes /\ Aged) /\ [CronNext]_cronVars => (SmallTypes /\ Aged)'
  BY SmallTypesStep, AgedStep
<1> QED BY TypesInit, <1>1, PTL DEF CronSpec

\* Branches, trees, counters and tokens are always what they are meant to be:
\* a heartbeat counts no more failures than there were runs, and no commit, tree
\* or sidecar comes from a run that has not begun.
THEOREM CronTypes == CronSpec => []CronTypeOK
<1>1. SmallTypes /\ Aged => CronTypeOK
  <2> SUFFICES ASSUME SmallTypes, Aged PROVE CronTypeOK
    OBVIOUS
  <2>1. n \in Nat /\ MaxRuns \in Nat /\ n <= MaxRuns
    BY Bounds DEF SmallTypes, PlaceTypes
  <2>2. Age \in Int /\ Age <= MaxRuns
    BY <2>1 DEF Age
  <2>3. remote \in Seq(Commits) /\ main \in Seq(Commits) /\ tracking \in Seq(Commits)
    BY <2>1, <2>2, BranchesGrow, UpToAll DEF Aged
  <2>4. disk \in Trees
    BY <2>1, UpToGrows, UpToAll DEF Aged
  <2>5. GitTypeOK
    BY <2>3, <2>4 DEF GitTypeOK, SmallTypes, PlaceTypes, PushTypes, Aged
  <2> QED BY <2>5 DEF CronTypeOK, SmallTypes, PlaceTypes, TokenTypes, RunTypes, Aged
<1> QED BY TypesHold, <1>1, PTL

-----------------------------------------------------------------------------
(* The branches and the token. *)

\* A command has failed that the forced pushes rely on.
Unsafe == broken \intersect {"abort", "reset", "fetch"} # {}

\* What the run would push is on top of what it has seen of the vault's branch,
\* but for when its commit is about to be replayed there, or a failed fetch has
\* seen more of it.
OnTop ==
  /\ pc \in Before => main = tracking
  /\ pc \in {"fetch", "push", "lease"} =>
       Extends(main, tracking) \/ (pc # "push" /\ Unsafe)

\* A step changes the vault's branch only by putting something on top of it.
Grows == Extends(remote', remote) \/ Unsafe

LEMMA PushOnTop ==
  ASSUME NEW S, remote \in Seq(S), main \in Seq(S), tracking \in Seq(S), OnTop, PushStep
  PROVE  OnTop' /\ Grows
<1> USE DEF OnTop, Before, Grows, Unsafe
<1>e. Extends(remote, remote) /\ Extends(main, main) /\ Extends(tracking, tracking)
  BY ExtendsItself
<1>1. CASE NothingToCommit \/ CommitFails \/ RebaseFails \/ TimesOut
  <2>1. UNCHANGED <<remote, main, tracking>> /\ pc' = "conclude"
    BY <1>1 DEF NothingToCommit, CommitFails, RebaseFails, TimesOut, Return
  <2> QED BY <1>e, <2>1
<1>2. CASE Commit
  <2> DEFINE c == [by |-> n, tree |-> disk]
  <2>1. pc = "stage" /\ pc' = "fetch" /\ main' = Append(main, c) /\ UNCHANGED <<remote, tracking>>
    BY <1>2 DEF Commit
  <2>2. Extends(main', tracking)
    BY <1>e, <2>1, AppendExtends
  <2> QED BY <1>e, <2>1, <2>2
<1>3. CASE Fetch
  BY <1>3, <1>e DEF Fetch
<1>11. CASE FetchFails
  <2>1. /\ pc = "fetch" /\ pc' = "fetch" /\ UNCHANGED <<remote, main>>
        /\ \/ UNCHANGED tracking /\ broken' = broken \union {"other"}
           \/ "fetch" \in broken'
    BY <1>11 DEF FetchFails, Fails
  <2> QED BY <1>e, <2>1
<1>4. CASE Rebase
  <2> DEFINE c == [by |-> n, tree |-> Merged]
  <2>1. /\ pc = "rebase" /\ pc' = "push" /\ UNCHANGED <<remote, tracking>>
        /\ main' = tracking \/ main' = Append(tracking, c)
    BY <1>4 DEF Rebase
  <2>2. Extends(main', tracking)
    BY <1>e, <2>1, AppendExtends
  <2> QED BY <1>e, <2>1, <2>2
<1>5. CASE FailLoud \/ FailLoudEmpty
  <2>1. /\ pc = "rebase" /\ pc' = "lease" /\ UNCHANGED <<remote, tracking>>
        /\ main' = tracking \/ \E c : main' = Append(tracking, c)
    BY <1>5 DEF FailLoud, FailLoudEmpty, Conflicted
  <2>2. Extends(main', tracking)
    BY <1>e, <2>1, AppendExtends
  <2> QED BY <1>e, <2>1, <2>2
<1>6. CASE FailLoudFails
  <2>1. /\ pc = "rebase" /\ pc' = "lease" /\ UNCHANGED <<remote, main, tracking>>
        /\ broken' \intersect {"abort", "reset"} # {}
    BY <1>6 DEF FailLoudFails, Conflicted, Fails
  <2> QED BY <1>e, <2>1
<1>7. CASE Push
  BY <1>7 DEF Push, Land, Return
<1>8. CASE PushRejected \/ PushFails
  <2>1. /\ pc = "push" /\ pc' = "fetch" /\ UNCHANGED <<main, tracking>>
        /\ remote' = remote \/ (remote' = main /\ Extends(main, remote))
    BY <1>8 DEF PushRejected, PushFails, NextAttempt
  <2> QED BY <1>e, <2>1
<1>9. CASE Flag
  <2> DEFINE c == [by |-> n, tree |-> [disk EXCEPT !.file["rejected"] = n]]
  <2>1. /\ pc = "fetch" /\ pc' = "lease" /\ UNCHANGED <<remote, tracking>>
        /\ main' = main \/ main' = Append(main, c)
        /\ broken \subseteq broken'
    BY <1>9 DEF Flag, Fails
  <2>2. Extends(main', tracking) \/ Unsafe
    BY <2>1, AppendExtends
  <2> QED BY <1>e, <2>1, <2>2
<1>10. CASE LeasePush
  <2>1. /\ pc = "lease" /\ pc' = "conclude" /\ UNCHANGED <<main, broken>>
        /\ \/ remote = tracking /\ remote' = main /\ tracking' = main
           \/ UNCHANGED <<remote, tracking>>
    BY <1>10 DEF LeasePush, Land
  <2> QED BY <1>e, <2>1
<1> QED BY <1>1, <1>2, <1>3, <1>4, <1>5, <1>6, <1>7, <1>8, <1>9, <1>10, <1>11
        DEF PushStep

LEMMA OnTopStep ==
  ASSUME SmallTypes, Aged, OnTop, [CronNext]_cronVars PROVE OnTop' /\ (Grows \/ UNCHANGED cronVars)
<1>0. Extends(remote, remote)
  BY ExtendsItself DEF Aged
<1>1. CASE Mac
  <2>1. Age \in Nat /\ remote \in Seq(CommitsUpTo(Age)) /\ remote # <<>>
    BY Bounds DEF SmallTypes, PlaceTypes, Age, Before, Aged
  <2>2. /\ UNCHANGED <<main, tracking, pc, broken>>
        /\ \E c \in CommitsUpTo(Age) : remote' = Append(remote, c)
    BY <1>1, <2>1, MacGrows DEF Mac
  <2>3. Extends(remote', remote)
    BY <1>0, <2>1, <2>2, AppendExtends
  <2> QED BY <2>2, <2>3 DEF OnTop, Grows, Unsafe
<1>2. CASE MacRotates \/ Reauthorize \/ UNCHANGED cronVars
  <2>1. UNCHANGED <<remote, main, tracking, broken, pc>>
    BY <1>2 DEF MacRotates, Reauthorize, gitVars, cronVars
  <2> QED BY <1>0, <2>1 DEF OnTop, Grows, Unsafe
<1>3. ASSUME NEW c \in Configs, Start(c) PROVE OnTop' /\ Grows
  BY <1>0, <1>3 DEF Start, OnTop, Before, Grows
<1>4. CASE Preflight \/ Refresh \/ Refused \/ Store \/ Report
           \/ \E new \in SUBSET (Bookmarks \ Known) : Sync(new)
  <2>1. UNCHANGED <<remote, main, tracking>> /\ pc \in Before /\ pc' \in Before
    BY <1>4 DEF Preflight, Refresh, Refused, Store, Report, Sync, gitVars, Before
  <2> QED BY <1>0, <2>1 DEF OnTop, Before, Grows
<1>5. CASE PreflightFails \/ ReportNothing \/ Conclude \/ Killed
  <2>1. remote' = remote /\ pc' = "off"
    BY <1>5 DEF PreflightFails, ReportNothing, Conclude, Killed, Exit, Gone
  <2> QED BY <1>0, <2>1 DEF OnTop, Before, Grows
<1>6. CASE PushStep
  BY <1>6, PushOnTop DEF Aged
<1> QED BY <1>1, <1>2, <1>3, <1>4, <1>5, <1>6 DEF CronNext, RunStep

\* With a PAT, the run's token is the good one from the first exchange on, and
\* the secret's too when a write has not failed.
TokenIsKept ==
  config = "pat" /\ ~foreign /\ outcome # "auth" /\ pc \notin {"off", "preflight", "refresh"}
  => /\ "run" \in valid
     /\ pc # "store" /\ ~unsaved => "secret" \in valid

-----------------------------------------------------------------------------
(* What the run wants to be seen in the vault: its cards and its heartbeat. *)

\* Until it syncs or is refused a token.
Early == {"preflight", "refresh", "store", "sync"}

Healthy == outcome \in {"ok", "empty"} /\ ~unsaved

\* Does the tree hold the run's heartbeat, and its cards or newer ones?
News(tree) ==
  /\ tree.status.by = n
  /\ Healthy => tree.status.failures = 0
  /\ \A b \in wrote : tree.file[b] # 0

\* What there is to be pushed: cards that the clone did not have, and a heartbeat,
\* in a work tree that nothing else has changed.
Written ==
  /\ pc # "off" => exit = "none"
  /\ pc \in Early => disk = Tip(main) /\ wrote = {} /\ outcome = "none"
  /\ pc \in {"report", "stage"} =>
       \A b \in wrote : Tip(main).file[b] = 0 /\ disk.file[b] = n
  /\ pc = "stage" => News(disk)
  /\ (outcome = "ok" => wrote # {}) /\ (outcome = "empty" => wrote = {})
  /\ pc \in GitPcs => Tells
  /\ pc \in Before \union {"fetch", "rebase", "push"} => result = "none"
  /\ pc = "lease" => result \in {"conflict", "flagged"}

LEMMA WrittenStep ==
  ASSUME SmallTypes, Aged, Written, [CronNext]_cronVars PROVE Written'
<1> USE DEF Written, Before, Early
<1>0. n \in Nat /\ (pc # "off" => n >= 1) /\ wrote \subseteq Bookmarks /\ disk \in TreesUpTo(n)
  BY Bounds DEF SmallTypes, PlaceTypes, RunTypes, Aged
<1>1. CASE Mac \/ MacRotates \/ Reauthorize \/ UNCHANGED cronVars
  <2>1. UNCHANGED <<main, disk, n, pc, result, unsaved, wrote, outcome, exit>>
    <3>1. CASE Mac
      BY <3>1 DEF Mac, MacStep, MacSyncs, MacClears, MacPushes, tokenVars, runVars
    <3>2. CASE MacRotates \/ Reauthorize \/ UNCHANGED cronVars
      BY <3>2 DEF MacRotates, Reauthorize, cronVars, gitVars, tokenVars, runVars
    <3> QED BY <1>1, <3>1, <3>2
  <2> QED BY <2>1 DEF News, Healthy, Tells
<1>2. ASSUME NEW c \in Configs, Start(c) PROVE Written'
  BY <1>2 DEF Start, GitPcs
<1>3. CASE Preflight \/ Refresh \/ Store
  <2>1. /\ UNCHANGED <<main, disk, n, result, wrote, outcome, exit>>
        /\ pc \in Early /\ pc' \in Early
    BY <1>3 DEF Preflight, Refresh, Store, gitVars, runVars
  <2> QED BY <2>1 DEF GitPcs
<1>4. CASE Refused
  <2>1. /\ UNCHANGED <<result, wrote, exit>> /\ pc \in Early /\ pc' = "report"
        /\ outcome' = "auth"
    BY <1>4 DEF Refused, gitVars
  <2> QED BY <2>1 DEF GitPcs
<1>5. ASSUME NEW new \in SUBSET (Bookmarks \ Known), Sync(new) PROVE Written'
  <2>1. /\ UNCHANGED <<main, result, exit, n>> /\ pc = "sync" /\ pc' = "report" /\ wrote' = new
        /\ (outcome' = "ok" => new # {}) /\ (outcome' = "empty" => new = {})
    BY <1>5 DEF Sync
  <2>2. \A b \in new : Tip(main).file[b] = 0 /\ disk'.file[b] = n
    BY <1>0, <1>5, <2>1 DEF Sync, Known, Files, TreesUpTo
  <2> QED BY <2>1, <2>2 DEF GitPcs
<1>6. CASE Report
  <2>1. /\ UNCHANGED <<main, result, exit, n, wrote, outcome, unsaved>>
        /\ pc = "report" /\ pc' = "stage" /\ Tells
    BY <1>6 DEF Report, tokenVars, runVars
  <2>2. \A b \in wrote : disk'.file[b] = n
    <3>1. \A b \in wrote : b \in Files /\ b \notin Raised
      BY <1>0, GitAssumption DEF Files, Raised
    <3> QED BY <1>0, <1>6, <2>1, <3>1 DEF Report, TreesUpTo
  <2>3. disk'.status = Heartbeat(disk.status, outcome \in {"ok", "empty"} /\ ~unsaved)
    BY <1>0, <1>6 DEF Report, TreesUpTo
  <2>4. News(disk)'
    BY <1>0, <2>1, <2>2, <2>3 DEF News, Heartbeat, Healthy
  <2> QED BY <2>1, <2>2, <2>4 DEF GitPcs, Tells
<1>7. CASE PreflightFails \/ ReportNothing \/ Conclude \/ Killed
  <2>1. pc' = "off"
    BY <1>7 DEF PreflightFails, ReportNothing, Conclude, Killed, Exit, Gone
  <2>2. UNCHANGED <<outcome, wrote>> \/ (outcome' = "none" /\ wrote' = {})
    BY <1>7 DEF PreflightFails, ReportNothing, Conclude, Killed, Exit
  <2>3. (outcome' = "ok" => wrote' # {}) /\ (outcome' = "empty" => wrote' = {})
    BY <2>2
  <2>4. /\ pc' \notin Before \union GitPcs \union {"fetch", "rebase", "push"}
        /\ pc' \notin Early \union {"report", "stage"}
    BY <2>1 DEF GitPcs
  <2> QED BY <2>1, <2>3, <2>4 DEF GitPcs
<1>8. CASE PushStep /\ UNCHANGED <<tokenVars, runVars>>
  <2>1. /\ UNCHANGED <<unsaved, wrote, outcome, exit>>
        /\ pc \in GitPcs \ {"conclude"} /\ pc' \in GitPcs \ {"stage"}
    BY <1>8, PushSmall DEF SmallTypes, tokenVars, runVars
  <2>2. CASE pc' \in {"fetch", "rebase", "push"}
    <3>1. pc \in {"stage", "fetch", "rebase", "push"} /\ result' = result
      BY <1>8, <2>2 DEF PushStep, NothingToCommit, Commit, CommitFails, Fetch, FetchFails, Rebase,
           RebaseFails, FailLoud, FailLoudEmpty, FailLoudFails, Push, PushRejected, PushFails,
           Flag, LeasePush, TimesOut, Return, NextAttempt
    <3> QED BY <2>1, <2>2, <3>1 DEF GitPcs, Tells
  <2>3. CASE pc' = "lease"
    <3>1. result' \in {"conflict", "flagged"}
      BY <1>8, <2>3 DEF PushStep, NothingToCommit, Commit, CommitFails, Fetch, FetchFails, Rebase,
           RebaseFails, FailLoud, FailLoudEmpty, FailLoudFails, Push, PushRejected, PushFails,
           Flag, LeasePush, TimesOut, Return, NextAttempt
    <3> QED BY <2>1, <2>3, <3>1 DEF GitPcs, Tells
  <2>4. CASE pc' = "conclude"
    BY <2>1, <2>4 DEF GitPcs, Tells
  <2> QED BY <2>1, <2>2, <2>3, <2>4 DEF GitPcs
<1> QED BY <1>1, <1>2, <1>3, <1>4, <1>5, <1>6, <1>7, <1>8 DEF CronNext, RunStep

-----------------------------------------------------------------------------
(* The way of what was written into the vault. *)

\* The run's commit is on top of its clone's branch and nowhere else: what is
\* below it, and the vault's branch, come from the runs before and the Mac.
Fresh ==
  /\ remote \in Seq(CommitsUpTo(n - 1)) /\ tracking \in Seq(CommitsUpTo(n - 1))
  /\ Below(main) \in Seq(CommitsUpTo(n - 1)) /\ Below(main) # <<>>
  /\ Top(main).by = n
  /\ News(Mine)
  /\ \A b \in wrote : Base.file[b] = 0 /\ Mine.file[b] = n

Delivers(branch) == \E i \in 1..Len(branch) : branch[i].by = n /\ News(branch[i].tree)

\* The server has taken the run's commit, though the run has not heard of it.
Arrived ==
  /\ Delivers(main)
  /\ pc \in {"fetch", "push"} => Extends(remote, main)
  /\ pc = "rebase" => Extends(tracking, main) /\ Extends(remote, tracking)

\* Does the run's commit keep both versions of every card that the Mac has too,
\* as far as they could be read?
Keeps(c) ==
  c.by = n =>
    \A b \in wrote :
      LET there == c.tree.file[b] IN
      there # 0 =>
        \E s \in c.tree.saved :
          /\ s.run = n /\ s.file = b
          /\ s.local \in {n} \union Missing /\ s.remote \in {there} \union Missing

KeptIn(branch) == \A i \in 1..Len(branch) : Keeps(branch[i])

OnItsWay ==
  /\ pc \in {"fetch", "rebase", "push"} => Fresh \/ Arrived
  /\ result = "conflict" /\ broken \intersect {"abort", "reset"} = {} =>
       KeptIn(remote) /\ (pc = "lease" => KeptIn(main))

CommitHypotheses == SmallTypes /\ Aged /\ OnTop /\ Written /\ OnItsWay

LEMMA NotByOthers ==
  ASSUME SmallTypes, pc # "off", NEW b \in Seq(CommitsUpTo(n - 1)), NEW i \in 1..Len(b)
  PROVE  /\ b[i].by # n /\ b[i].tree \in TreesUpTo(n - 1)
         /\ b[i].tree.status.by # n /\ \A f \in Files : b[i].tree.file[f] # n
<1>1. b[i] \in CommitsUpTo(n - 1)
  BY ElementOfSeq
<1>2. n \in 1..MaxRuns
  BY Bounds DEF SmallTypes, PlaceTypes
<1>3. n \notin By(n - 1)
  BY <1>2, Bounds DEF By, ByMac
<1>4. b[i].by \in By(n - 1) /\ b[i].tree \in TreesUpTo(n - 1)
  BY <1>1 DEF CommitsUpTo
<1>5. b[i].tree.status.by \in By(n - 1) /\ \A f \in Files : b[i].tree.file[f] \in By(n - 1)
  BY <1>4 DEF TreesUpTo, StatusesUpTo
<1> QED BY <1>3, <1>4, <1>5

\* What the vault has of other runs alone is kept, whatever it is.
LEMMA KeptByOthers ==
  ASSUME SmallTypes, pc # "off", NEW b \in Seq(CommitsUpTo(n - 1)) PROVE KeptIn(b)
  BY NotByOthers DEF KeptIn, Keeps

\* A fresh commit has not landed.
LEMMA FreshIsAway ==
  ASSUME CommitHypotheses, pc = "rebase", Fresh PROVE ~Landed
<1>1. Len(main) \in 1..Len(main) /\ Len(tracking) \in Nat
  BY TopIn DEF CommitHypotheses, Aged
<1> SUFFICES ASSUME Landed PROVE FALSE
  OBVIOUS
<1>2. Len(main) \in 1..Len(tracking) /\ tracking[Len(main)] = Top(main)
  BY <1>1 DEF Landed, Extends, Top
<1> QED BY <1>2, NotByOthers DEF CommitHypotheses, Fresh

\* The sides of a merge, of a fresh commit.
LEMMA FreshSides ==
  ASSUME CommitHypotheses, pc = "rebase", Fresh
  PROVE  /\ n # 0 /\ wrote \subseteq Files /\ tracking # <<>>
         /\ Mine.status # Base.status
         /\ \A b \in wrote : Theirs.file[b] # n
<1>1. n # 0 /\ tracking # <<>> /\ wrote \subseteq Files
  BY DEF CommitHypotheses, SmallTypes, PlaceTypes, RunTypes, Aged, Files
<1>2. Len(tracking) \in 1..Len(tracking) /\ Len(Below(main)) \in 1..Len(Below(main))
  BY <1>1, TopIn DEF Fresh
<1>3. \A f \in Files : Theirs.file[f] # n
  BY <1>2, NotByOthers DEF Theirs, Tip, Top, Fresh, CommitHypotheses
<1>4. Base.status.by # n
  BY <1>2, NotByOthers DEF Base, Tip, Top, Fresh, CommitHypotheses
<1>5. Mine.status.by = n
  BY DEF Fresh, News
<1> QED BY <1>1, <1>3, <1>4, <1>5

\* A commit on top of what others have made is fresh.
LEMMA FreshCommit ==
  ASSUME n \in Nat \ {0}, NEW b \in Seq(CommitsUpTo(n - 1)), b # <<>>,
         NEW tree \in TreesUpTo(n), main' = Append(b, [by |-> n, tree |-> tree]),
         remote' \in Seq(CommitsUpTo(n - 1)), tracking' \in Seq(CommitsUpTo(n - 1)),
         UNCHANGED <<n, wrote, outcome, unsaved>>, News(tree),
         \A f \in wrote : Tip(b).file[f] = 0 /\ tree.file[f] = n
  PROVE  Fresh'
<1> DEFINE c == [by |-> n, tree |-> tree]
<1>1. n \in By(n) /\ c.by = n /\ c.tree = tree
  BY DEF By
<1>2. c \in CommitsUpTo(n)
  BY <1>1 DEF CommitsUpTo
<1>3. b \in Seq(CommitsUpTo(n))
  BY BranchesGrow
<1>4. main' = Append(b, c)
  OBVIOUS
<1> HIDE DEF c
<1>5. Top(main') = c
  BY <1>2, <1>3, <1>4, TopAppend
<1>6. Below(main') = b
  BY <1>2, <1>3, <1>4, BelowAppend
<1>7. Mine' = tree /\ Base' = Tip(b)
  BY <1>1, <1>5, <1>6 DEF Mine, Base, Tip
<1>8. News(Mine)'
  BY <1>7 DEF News, Healthy
<1> QED BY <1>1, <1>5, <1>6, <1>7, <1>8 DEF Fresh

LEMMA CommitIsFresh ==
  ASSUME CommitHypotheses, Commit, UNCHANGED <<tokenVars, runVars>> PROVE Fresh'
<1> USE DEF CommitHypotheses
<1>1. /\ pc = "stage" /\ UNCHANGED <<remote, tracking, n, wrote, outcome, unsaved>>
      /\ main' = Append(main, [by |-> n, tree |-> disk])
  BY DEF Commit, tokenVars, runVars
<1>2. n \in Nat \ {0} /\ Age = n - 1 /\ disk \in TreesUpTo(n) /\ main # <<>>
  BY <1>1, Bounds DEF SmallTypes, PlaceTypes, Age, Before, Aged
<1>3. remote' \in Seq(CommitsUpTo(n - 1)) /\ main \in Seq(CommitsUpTo(n - 1))
      /\ tracking' \in Seq(CommitsUpTo(n - 1))
  BY <1>1, <1>2 DEF Aged
<1>4. News(disk) /\ \A f \in wrote : Tip(main).file[f] = 0 /\ disk.file[f] = n
  BY <1>1 DEF Written
<1> QED BY <1>1, <1>2, <1>3, <1>4, FreshCommit

LEMMA RebaseStaysFresh ==
  ASSUME CommitHypotheses, Fresh, Rebase, UNCHANGED <<tokenVars, runVars>> PROVE Fresh'
<1> USE DEF CommitHypotheses
<1>1. /\ pc = "rebase" /\ UNCHANGED <<remote, tracking, n, wrote, outcome, unsaved>>
      /\ CardConflicts = {} /\ main' = Append(tracking, [by |-> n, tree |-> Merged])
  BY FreshIsAway DEF Rebase, tokenVars, runVars
<1>2. n \in Nat \ {0} /\ Age = n
  BY <1>1, Bounds DEF SmallTypes, PlaceTypes, Age, Before
<1>3. Mine \in TreesUpTo(n) /\ Theirs \in TreesUpTo(n)
  BY <1>1, <1>2, TipIn DEF Aged, Mine, Theirs
<1>4. Merged \in TreesUpTo(n)
  BY <1>2, <1>3, MergedIn
<1>5. ASSUME NEW f \in wrote PROVE Theirs.file[f] = 0 /\ Merged.file[f] = n
  <2>1. Base.file[f] = 0 /\ Mine.file[f] = n /\ Theirs.file[f] # n /\ n # 0 /\ f \in Files
    BY <1>1, FreshSides DEF Fresh
  <2>2. ~Clash(Base.file[f], Mine.file[f], Theirs.file[f])
    BY <1>1, <2>1 DEF CardConflicts
  <2>3. Merged.file[f] = Mine.file[f]
    BY <2>1 DEF Merged
  <2> QED BY <2>1, <2>2, <2>3 DEF Clash
<1>6. Merged.status = Mine.status
  BY <1>1, FreshSides DEF Merged
<1>7. News(Merged)
  BY <1>2, <1>5, <1>6 DEF News, Fresh
<1>8. tracking # <<>> /\ Tip(tracking) = Theirs
  BY <1>1 DEF Aged, Theirs
<1> QED BY <1>1, <1>2, <1>4, <1>5, <1>7, <1>8, FreshCommit DEF Fresh

\* The commit that fails loudly has both versions of each card that the Mac has.
LEMMA LoudKeeps ==
  ASSUME CommitHypotheses, Fresh, FailLoud, UNCHANGED <<tokenVars, runVars>>
  PROVE  KeptIn(main)' /\ KeptIn(remote)'
<1> USE DEF CommitHypotheses
<1>0. PICK a, b \in SUBSET CardConflicts :
        /\ main' = Append(tracking,
                          [by |-> n,
                           tree |-> [Theirs EXCEPT !.saved = @ \union Captured(a, b)]])
        /\ ShowFails(a, b)
  BY DEF FailLoud
<1> DEFINE tree == [Theirs EXCEPT !.saved = @ \union Captured(a, b)]
           c == [by |-> n, tree |-> tree]
           KeepsNow(d) ==
             \A f \in wrote : d.tree.file[f] # 0 =>
               \E s \in d.tree.saved :
                 /\ s.run = n /\ s.file = f
                 /\ s.local \in {n} \union Missing'
                 /\ s.remote \in {d.tree.file[f]} \union Missing'
<1>1. /\ pc = "rebase" /\ UNCHANGED <<remote, tracking, n, wrote>>
      /\ main' = Append(tracking, c)
  BY <1>0 DEF FailLoud, Conflicted, tokenVars, runVars
<1>2. n \in Nat \ {0} /\ Age = n
  BY <1>1, Bounds DEF SmallTypes, PlaceTypes, Age, Before
<1>3. Mine \in TreesUpTo(n) /\ Theirs \in TreesUpTo(n)
  BY <1>1, <1>2, TipIn DEF Aged, Mine, Theirs
<1>4. tree \in TreesUpTo(n)
  BY <1>2, <1>3, CapturedIn
<1>5. tree.file = Theirs.file /\ tree.saved = Theirs.saved \union Captured(a, b)
  BY <1>3 DEF TreesUpTo
<1>u. \A f, v : Shown(f, v, a) \in {v} \union Missing' /\ Shown(f, v, b) \in {v} \union Missing'
  BY <1>0 DEF ShowFails, Shown, Missing
<1>6. ASSUME NEW f \in wrote, tree.file[f] # 0
      PROVE  \E s \in tree.saved :
               /\ s.run = n /\ s.file = f
               /\ s.local \in {n} \union Missing' /\ s.remote \in {tree.file[f]} \union Missing'
  <2>1. /\ Base.file[f] = 0 /\ Mine.file[f] = n /\ Theirs.file[f] # n /\ n # 0 /\ f \in Files
        /\ Theirs.file[f] # 0
    BY <1>1, <1>5, <1>6, FreshSides DEF Fresh
  <2>2. f \in CardConflicts
    BY <2>1 DEF CardConflicts, Clash
  <2> DEFINE s == [run |-> n, file |-> f, local |-> Shown(f, Mine.file[f], a),
                   remote |-> Shown(f, Theirs.file[f], b)]
  <2>3. s \in Captured(a, b)
    BY <2>2 DEF Captured
  <2>4. s.run = n /\ s.file = f /\ s.local \in {n} \union Missing'
        /\ s.remote \in {tree.file[f]} \union Missing'
    BY <1>5, <1>u, <2>1
  <2> HIDE DEF s
  <2> QED BY <1>5, <2>3, <2>4
<1>7. n \in By(n)
  BY <1>2 DEF By
<1>8. c \in CommitsUpTo(n) /\ c.by = n /\ c.tree = tree
  BY <1>4, <1>7 DEF CommitsUpTo
<1> HIDE DEF tree
<1>9. KeepsNow(c)
  BY <1>6, <1>8
<1> HIDE DEF c, KeepsNow
<1>10. tracking \in Seq(CommitsUpTo(n)) /\ tracking \in Seq(CommitsUpTo(n - 1))
       /\ remote \in Seq(CommitsUpTo(n - 1))
  BY <1>1, <1>2 DEF Aged, Fresh
<1>11. \A i \in 1..Len(tracking) : tracking[i].by # n
  BY <1>1, <1>10, NotByOthers
<1>12. \A i \in 1..Len(remote) : remote[i].by # n
  BY <1>1, <1>10, NotByOthers
<1>13. KeptIn(remote)'
  BY <1>1, <1>12 DEF KeptIn, Keeps
<1>14. Len(main') = Len(tracking) + 1 /\ Len(tracking) \in Nat
       /\ (\A i \in 1..Len(tracking) : main'[i] = tracking[i]) /\ main'[Len(tracking) + 1] = c
  BY <1>1, <1>8, <1>10, AppendedBranch
<1>15. \A i \in 1..Len(main') : main'[i].by # n \/ KeepsNow(main'[i])
  BY <1>9, <1>11, <1>14
<1>16. KeptIn(main)'
  BY <1>1, <1>15 DEF KeptIn, Keeps, KeepsNow
<1> QED BY <1>13, <1>16

LEMMA DeliversFurther ==
  ASSUME NEW S, NEW old \in Seq(S), NEW new \in Seq(S), Extends(new, old), Delivers(old)
  PROVE  Delivers(new)
<1>1. PICK i \in 1..Len(old) : old[i].by = n /\ News(old[i].tree)
  BY DEF Delivers
<1>2. Len(old) \in Nat /\ Len(new) \in Nat
  OBVIOUS
<1>3. i \in 1..Len(new) /\ new[i] = old[i]
  BY <1>2 DEF Extends
<1> QED BY <1>1, <1>3 DEF Delivers

\* A fresh commit is news, on top of the clone's branch.
LEMMA FreshDelivers ==
  ASSUME CommitHypotheses, pc # "off", Fresh PROVE Delivers(main)
<1>1. Len(main) \in 1..Len(main)
  BY TopIn DEF CommitHypotheses, Aged
<1> QED BY <1>1 DEF Delivers, Fresh, Mine, Tip, Top

LEMMA OnItsWayPush ==
  ASSUME CommitHypotheses, PushStep, UNCHANGED <<tokenVars, runVars>> PROVE OnItsWay'
<1> USE DEF CommitHypotheses
<1>0. UNCHANGED <<n, wrote, outcome, unsaved>> /\ pc # "off"
  BY PushSmall DEF SmallTypes, tokenVars, runVars, GitPcs
<1>s. /\ remote \in Seq(CommitsUpTo(Age)) /\ main \in Seq(CommitsUpTo(Age))
      /\ tracking \in Seq(CommitsUpTo(Age))
  BY DEF Aged
<1>e. Extends(remote, remote) /\ Extends(main, main) /\ Extends(tracking, tracking)
  BY <1>s, ExtendsItself
<1>1. CASE pc' = "conclude" /\ (pc = "lease" \/ result' # "conflict")
  <2>1. CASE pc = "lease"
    <3>1. /\ UNCHANGED <<result, broken>> \/ result' = "raised"
          /\ remote' \in {remote, main}
      BY <1>1, <2>1 DEF PushStep, NothingToCommit, Commit, CommitFails, Fetch, FetchFails, Rebase,
           RebaseFails, FailLoud, FailLoudEmpty, FailLoudFails, Push, PushRejected, PushFails,
           Flag, LeasePush, TimesOut, Return, NextAttempt, Land, Conflicted
    <3> QED BY <1>0, <1>1, <2>1, <3>1 DEF OnItsWay, KeptIn, Keeps, Missing
  <2>2. CASE result' # "conflict"
    BY <1>1, <2>2 DEF OnItsWay
  <2> QED BY <1>1, <2>1, <2>2
<1>2. CASE NothingToCommit \/ CommitFails \/ RebaseFails \/ Push \/ LeasePush \/ TimesOut
  <2>1. pc' = "conclude" /\ (pc = "lease" \/ result' # "conflict")
    BY <1>2 DEF NothingToCommit, CommitFails, RebaseFails, Push, LeasePush, TimesOut, Return
  <2> QED BY <1>1, <2>1
<1>3. CASE Commit
  <2>1. pc' = "fetch" /\ result' = "none"
    BY <1>3 DEF Commit, Written, Before
  <2> QED BY <1>3, <2>1, CommitIsFresh DEF OnItsWay
<1>4. CASE Fetch
  <2>1. /\ UNCHANGED <<remote, main>> /\ tracking' = remote /\ pc = "fetch" /\ pc' = "rebase"
        /\ result' = "none"
    BY <1>4 DEF Fetch, Written
  <2>2. CASE Fresh
    <3>1. Fresh'
      BY <1>0, <2>1, <2>2 DEF Fresh, News, Healthy, Mine, Base
    <3> QED BY <2>1, <3>1 DEF OnItsWay
  <2>3. CASE Arrived
    <3>1. Arrived'
      BY <1>0, <1>e, <2>1, <2>3 DEF Arrived, Delivers, News, Healthy
    <3> QED BY <2>1, <3>1 DEF OnItsWay
  <2> QED BY <2>1, <2>2, <2>3 DEF OnItsWay
<1>5. CASE FetchFails \/ PushRejected
  <2>1. /\ UNCHANGED <<remote, main>> /\ tracking' \in {tracking, remote}
        /\ pc \in {"fetch", "push"} /\ pc' = "fetch" /\ result' = "none"
    BY <1>5 DEF FetchFails, PushRejected, NextAttempt, Written
  <2>2. CASE Fresh
    <3>1. Fresh'
      BY <1>0, <2>1, <2>2 DEF Fresh, News, Healthy, Mine, Base
    <3> QED BY <2>1, <3>1 DEF OnItsWay
  <2>3. CASE Arrived
    <3>1. Arrived'
      BY <1>0, <2>1, <2>3 DEF Arrived, Delivers, News, Healthy
    <3> QED BY <2>1, <3>1 DEF OnItsWay
  <2> QED BY <2>1, <2>2, <2>3 DEF OnItsWay
<1>6. CASE Rebase
  <2>1. /\ pc = "rebase" /\ pc' = "push" /\ UNCHANGED <<remote, tracking>> /\ result' = "none"
        /\ Landed => main' = tracking
    BY <1>6 DEF Rebase, Written
  <2>2. CASE Fresh
    BY <1>6, <2>1, <2>2, RebaseStaysFresh DEF OnItsWay
  <2>3. CASE Arrived
    <3>1. main' = tracking /\ Delivers(tracking) /\ Extends(remote, tracking)
      BY <1>s, <2>1, <2>3, DeliversFurther DEF Arrived, Landed
    <3>2. Arrived'
      BY <1>0, <2>1, <3>1 DEF Arrived, Delivers, News, Healthy
    <3> QED BY <2>1, <3>2 DEF OnItsWay
  <2> QED BY <2>1, <2>2, <2>3 DEF OnItsWay
<1>7. CASE FailLoud
  <2>1. pc = "rebase" /\ ~Landed /\ pc' = "lease"
    BY <1>7 DEF FailLoud, Conflicted
  <2>2. Fresh
    BY <2>1 DEF OnItsWay, Arrived, Landed
  <2> QED BY <1>7, <2>1, <2>2, LoudKeeps DEF OnItsWay
<1>8. CASE FailLoudFails \/ Flag
  <2>1. /\ pc' = "lease"
        /\ broken' \intersect {"abort", "reset"} # {} \/ result' = "flagged"
    BY <1>8 DEF FailLoudFails, Flag, Fails
  <2> QED BY <2>1 DEF OnItsWay
<1>10. CASE FailLoudEmpty
  <2>1. /\ pc = "rebase" /\ ~Landed /\ pc' = "lease" /\ main' = tracking
        /\ UNCHANGED <<remote, n>>
    BY <1>10 DEF FailLoudEmpty, Conflicted
  <2>2. remote \in Seq(CommitsUpTo(n - 1)) /\ tracking \in Seq(CommitsUpTo(n - 1))
    BY <2>1 DEF OnItsWay, Arrived, Landed, Fresh
  <2>3. /\ \A i \in 1..Len(remote) : remote[i].by # n
        /\ \A i \in 1..Len(tracking) : tracking[i].by # n
    BY <1>0, <2>2, NotByOthers
  <2>4. KeptIn(remote)' /\ KeptIn(main)'
    BY <2>1, <2>3 DEF KeptIn, Keeps
  <2> QED BY <2>1, <2>4 DEF OnItsWay
<1>9. CASE PushFails
  <2>1. /\ UNCHANGED <<main, tracking>> /\ pc = "push" /\ pc' = "fetch" /\ result' = "none"
        /\ remote' = remote \/ remote' = main
    BY <1>9 DEF PushFails, NextAttempt, Written
  <2>2. CASE Fresh /\ remote' = remote
    <3>1. Fresh'
      BY <1>0, <2>1, <2>2 DEF Fresh, News, Healthy, Mine, Base
    <3> QED BY <2>1, <3>1 DEF OnItsWay
  <2>3. CASE Fresh /\ remote' = main
    <3>1. Delivers(main)
      BY <1>0, <2>3, FreshDelivers
    <3>2. Arrived'
      BY <1>0, <1>e, <2>1, <2>3, <3>1 DEF Arrived, Delivers, News, Healthy
    <3> QED BY <2>1, <3>2 DEF OnItsWay
  <2>4. CASE Arrived
    <3>1. Arrived'
      BY <1>0, <1>e, <2>1, <2>4 DEF Arrived, Delivers, News, Healthy
    <3> QED BY <2>1, <3>1 DEF OnItsWay
  <2> QED BY <2>1, <2>2, <2>3, <2>4 DEF OnItsWay
<1> QED BY <1>2, <1>3, <1>4, <1>5, <1>6, <1>7, <1>8, <1>9, <1>10 DEF PushStep

\* What the Mac pushes disturbs none of it.
LEMMA OnItsWayMac ==
  ASSUME CommitHypotheses, Mac PROVE OnItsWay'
<1> USE DEF CommitHypotheses
<1>0. n \in Nat /\ Age \in Nat /\ remote \in Seq(CommitsUpTo(Age)) /\ remote # <<>> /\ ByMac # n
      /\ main \in Seq(CommitsUpTo(Age)) /\ tracking \in Seq(CommitsUpTo(Age))
      /\ (pc # "off" => n >= 1)
  BY Bounds DEF SmallTypes, PlaceTypes, Age, Before, Aged, ByMac
<1>1. /\ UNCHANGED <<main, tracking, n, pc, result, broken, wrote, outcome, unsaved>>
      /\ \E c \in CommitsUpTo(Age) : c.by = ByMac /\ remote' = Append(remote, c)
  <2>1. MacStep /\ UNCHANGED <<wrote, outcome, unsaved>>
    BY DEF Mac, tokenVars, runVars
  <2> QED BY <1>0, <2>1, MacGrows
<1>2. PICK c \in CommitsUpTo(Age) : c.by = ByMac /\ remote' = Append(remote, c)
  BY <1>1
<1>3. Extends(remote, remote) /\ Extends(remote', remote) /\ remote' \in Seq(CommitsUpTo(Age))
  BY <1>0, <1>2, ExtendsItself, AppendExtends, AppendedBranch
<1>4. ASSUME Fresh, pc \in {"fetch", "rebase", "push"} PROVE Fresh'
  <2>1. n - 1 \in Nat /\ MacStep
    BY <1>0, <1>4 DEF Mac
  <2>2. remote' \in Seq(CommitsUpTo(n - 1))
    <3>1. remote \in Seq(CommitsUpTo(n - 1))
      BY <1>4 DEF Fresh
    <3>2. PICK d \in CommitsUpTo(n - 1) : remote' = Append(remote, d)
      BY <1>0, <2>1, <3>1, MacGrows
    <3> QED BY <3>1, <3>2, AppendedBranch
  <2> QED BY <1>1, <1>4, <2>2 DEF Fresh, News, Healthy, Mine, Base
<1>5. ASSUME Arrived PROVE Arrived'
  BY <1>0, <1>1, <1>3, <1>5, ExtendsFurther DEF Arrived, Delivers, News, Healthy
<1>6. ASSUME KeptIn(remote) PROVE KeptIn(remote)'
  <2>1. Len(remote') = Len(remote) + 1 /\ Len(remote) \in Nat
        /\ (\A i \in 1..Len(remote) : remote'[i] = remote[i]) /\ remote'[Len(remote) + 1] = c
    BY <1>0, <1>2, AppendedBranch
  <2>2. \A i \in 1..Len(remote') : i \in 1..Len(remote) \/ i = Len(remote) + 1
    BY <2>1
  <2> QED BY <1>0, <1>1, <1>2, <1>6, <2>1, <2>2 DEF KeptIn, Keeps, Missing
<1>7. KeptIn(main) => KeptIn(main)'
  BY <1>1 DEF KeptIn, Keeps, Missing
<1> QED BY <1>1, <1>4, <1>5, <1>6, <1>7 DEF OnItsWay

LEMMA OnItsWayStep ==
  ASSUME CommitHypotheses, [CronNext]_cronVars PROVE OnItsWay'
<1> USE DEF CommitHypotheses
<1>1. CASE Mac
  BY <1>1, OnItsWayMac
<1>2. CASE MacRotates \/ Reauthorize \/ UNCHANGED cronVars
  <2>1. UNCHANGED <<remote, main, tracking, n, pc, result, broken, wrote, outcome, unsaved>>
    BY <1>2 DEF MacRotates, Reauthorize, cronVars, gitVars, tokenVars, runVars
  <2> QED BY <2>1 DEF OnItsWay, Fresh, Arrived, Delivers, News, Healthy, Mine, Base, KeptIn, Keeps,
                    Missing
<1>3. CASE (\E c \in Configs : Start(c)) \/ Killed
  <2>1. pc' \in {"preflight", "off"} /\ result' = "none"
    BY <1>3 DEF Start, Killed, Gone
  <2> QED BY <2>1 DEF OnItsWay
<1>4. CASE Preflight \/ Refresh \/ Refused \/ Store \/ Report
           \/ \E new \in SUBSET (Bookmarks \ Known) : Sync(new)
  <2>1. result' = "none" /\ pc' \in Before
    BY <1>4 DEF Preflight, Refresh, Refused, Store, Report, Sync, gitVars, Before, Written
  <2> QED BY <2>1 DEF OnItsWay, Before
<1>5. CASE PreflightFails \/ ReportNothing \/ Conclude
  <2>1. UNCHANGED <<remote, n, result, broken, wrote>> /\ pc' = "off"
    BY <1>5 DEF PreflightFails, ReportNothing, Conclude, Exit, Gone
  <2> QED BY <2>1 DEF OnItsWay, KeptIn, Keeps, Missing
<1>6. CASE PushStep /\ UNCHANGED <<tokenVars, runVars>>
  BY <1>6, OnItsWayPush
<1> QED BY <1>1, <1>2, <1>3, <1>4, <1>5, <1>6 DEF CronNext, RunStep

-----------------------------------------------------------------------------
(* The end of a run. *)

Ended == {"green", "amber", "red"}

Delivered ==
  /\ pc \in {"conclude", "off"} /\ result = "success" /\ wrote # {} /\ "status" \notin broken
       => Delivers(remote)
  /\ exit = "green" /\ wrote # {} => result = "success" /\ Healthy
  /\ (pc = "conclude" \/ (exit \in Ended /\ outcome = "ok")) /\ broken = {} /\ CorpusAtRoot
       => result \in {"success", "conflict", "flagged"}

\* How commit_and_push comes to its end.
LEMMA DeliveredPush ==
  ASSUME CommitHypotheses, Delivered, PushStep, UNCHANGED <<tokenVars, runVars>>
  PROVE  Delivered'
<1> USE DEF CommitHypotheses
<1>0. /\ UNCHANGED <<n, wrote, outcome, unsaved, exit>> /\ exit = "none"
      /\ pc \in GitPcs \ {"conclude"} /\ pc # "off" /\ pc' # "off" /\ n # 0
  BY PushSmall DEF SmallTypes, PlaceTypes, tokenVars, runVars, GitPcs, Written
<1>1. SUFFICES ASSUME pc' = "conclude"
               PROVE  /\ result' = "success" /\ wrote # {} /\ "status" \notin broken'
                           => Delivers(remote)'
                      /\ broken' = {} /\ CorpusAtRoot
                           => result' \in {"success", "conflict", "flagged"}
  BY <1>0 DEF Delivered, Ended
<1>2. CASE NothingToCommit
  <2>1. pc = "stage" /\ result' = "success" /\ ("status" \in broken' \/ disk = Tip(main))
    BY <1>2 DEF NothingToCommit, Return
  <2>2. disk = Tip(main) => wrote = {}
    BY <1>0, <2>1 DEF Written
  <2> QED BY <2>1, <2>2
<1>3. CASE CommitFails \/ RebaseFails \/ TimesOut
  <2>1. result' \in {"error", "raised"} /\ (broken' # {} \/ ~CorpusAtRoot)
    BY <1>3 DEF CommitFails, RebaseFails, TimesOut, Return, Fails
  <2> QED BY <2>1
<1>4. CASE Push
  <2>1. pc = "push" /\ result' = "success" /\ remote' = main
    BY <1>4 DEF Push, Land, Return
  <2>2. Delivers(main)
    BY <1>0, <2>1, FreshDelivers DEF OnItsWay, Arrived
  <2>3. Delivers(remote)'
    BY <1>0, <2>1, <2>2 DEF Delivers, News, Healthy
  <2> QED BY <2>1, <2>3
<1>5. CASE LeasePush
  BY <1>5 DEF LeasePush, Written
<1>6. CASE Commit \/ Fetch \/ FetchFails \/ Rebase \/ FailLoud \/ FailLoudEmpty \/ FailLoudFails
           \/ PushRejected \/ PushFails \/ Flag
  BY <1>0, <1>1, <1>6 DEF Commit, Fetch, FetchFails, Rebase, FailLoud, FailLoudEmpty, FailLoudFails,
     PushRejected, PushFails, Flag, NextAttempt
<1> QED BY <1>2, <1>3, <1>4, <1>5, <1>6 DEF PushStep

LEMMA DeliveredStep ==
  ASSUME CommitHypotheses, Delivered, [CronNext]_cronVars PROVE Delivered'
<1> USE DEF CommitHypotheses
<1>1. CASE Mac
  <2>1. Age \in Nat /\ remote \in Seq(CommitsUpTo(Age)) /\ remote # <<>> /\ MacStep
    BY <1>1, Bounds DEF SmallTypes, PlaceTypes, Age, Before, Aged, Mac
  <2>2. UNCHANGED <<n, pc, result, broken, wrote, outcome, unsaved, exit>>
    BY <1>1, <2>1, MacGrows DEF Mac, tokenVars, runVars
  <2>3. Extends(remote', remote) /\ remote' \in Seq(CommitsUpTo(Age))
    <3>1. PICK c \in CommitsUpTo(Age) : remote' = Append(remote, c)
      BY <2>1, MacGrows
    <3>2. Extends(remote, remote)
      BY <2>1, ExtendsItself
    <3> QED BY <2>1, <3>1, <3>2, AppendExtends, AppendedBranch
  <2>4. Delivers(remote) => Delivers(remote')
    BY <2>1, <2>3, DeliversFurther
  <2>5. Delivers(remote') => Delivers(remote)'
    BY <2>2 DEF Delivers, News, Healthy
  <2> QED BY <2>2, <2>4, <2>5 DEF Delivered, Healthy
<1>2. CASE MacRotates \/ Reauthorize \/ UNCHANGED cronVars
  <2>1. UNCHANGED <<remote, n, pc, result, broken, wrote, outcome, unsaved, exit>>
    BY <1>2 DEF MacRotates, Reauthorize, cronVars, gitVars, tokenVars, runVars
  <2> QED BY <2>1 DEF Delivered, Delivers, News, Healthy
<1>3. CASE (\E c \in Configs : Start(c)) \/ Killed
  <2>1. /\ pc' \in {"preflight", "off"} /\ result' = "none" /\ exit' \in {"none", "killed"}
    BY <1>3 DEF Start, Killed, Gone
  <2> QED BY <2>1 DEF Delivered, Ended
<1>4. CASE Preflight \/ Refresh \/ Refused \/ Store \/ Report
           \/ \E new \in SUBSET (Bookmarks \ Known) : Sync(new)
  <2>1. exit' = "none" /\ pc' \in Before
    BY <1>4 DEF Preflight, Refresh, Refused, Store, Report, Sync, runVars, Before, Written
  <2> QED BY <2>1 DEF Delivered, Before, Ended
<1>5. ASSUME NEW how \in Ended, Exit(how), pc # "off",
             pc = "conclude" \/ (result = "none" /\ outcome # "ok"),
             how = "green" /\ wrote # {} => result = "success" /\ Healthy
      PROVE  Delivered'
  <2>1. /\ UNCHANGED <<remote, n, result, broken, wrote, outcome, unsaved>> /\ pc' = "off"
        /\ exit' = how
    BY <1>5 DEF Exit, Gone
  <2>2. (result = "success" => pc = "conclude") /\ (outcome = "ok" => pc = "conclude")
    BY <1>5
  <2> QED BY <1>5, <2>1, <2>2 DEF Delivered, Delivers, News, Healthy, Ended
<1>6. CASE PreflightFails
  BY <1>5, <1>6 DEF PreflightFails, Written, Early, Before, Ended
<1>7. CASE ReportNothing
  BY <1>5, <1>7 DEF ReportNothing, Tells, Written, Before, Ended
<1>8. CASE Conclude
  <2>1. ExitCode \in Ended
    BY DEF ExitCode, Ended
  <2>2. ExitCode = "green" => /\ result = "success" /\ ~unsaved
                              /\ outcome \notin {"auth", "partial", "failed", "empty"}
    BY DEF ExitCode
  <2>3. ExitCode = "green" => Healthy
    BY <1>8, <2>2 DEF Conclude, Written, GitPcs, Tells, Healthy
  <2> QED BY <1>5, <1>8, <2>1, <2>2, <2>3 DEF Conclude
<1>9. CASE PushStep /\ UNCHANGED <<tokenVars, runVars>>
  BY <1>9, DeliveredPush
<1> QED BY <1>1, <1>2, <1>3, <1>4, <1>6, <1>7, <1>8, <1>9 DEF CronNext, RunStep

-----------------------------------------------------------------------------
(* Every step, and the theorems. *)

LEMMA TokenStep ==
  ASSUME SmallTypes, Written, TokenIsKept, GreenKeepsToken, [CronNext]_cronVars
  PROVE  TokenIsKept' /\ GreenKeepsToken'
<1> USE DEF TokenIsKept, GreenKeepsToken
<1>1. CASE Mac \/ UNCHANGED cronVars
  <2>1. CASE Mac
    <3>1. UNCHANGED <<pc, tokenVars, runVars>>
      BY <2>1 DEF Mac, MacStep, MacSyncs, MacClears, MacPushes
    <3> QED BY <3>1 DEF tokenVars, runVars
  <2>2. CASE UNCHANGED cronVars
    BY <2>2 DEF cronVars, tokenVars, runVars
  <2> QED BY <1>1, <2>1, <2>2
<1>2. CASE MacRotates \/ Reauthorize
  BY <1>2 DEF MacRotates, Reauthorize
<1>3. ASSUME NEW c \in Configs, Start(c) PROVE TokenIsKept' /\ GreenKeepsToken'
  BY <1>3 DEF Start
<1>4. CASE Preflight \/ Refresh \/ Refused \/ Store
  <2>1. UNCHANGED <<exit, config, foreign>> /\ exit = "none"
    BY <1>4 DEF Preflight, Refresh, Refused, Store, tokenVars, runVars, Written
  <2>2. TokenIsKept'
    BY <1>4 DEF Preflight, Refresh, Refused, Store, Copied, tokenVars, runVars, Written, Early
  <2> QED BY <2>1, <2>2
<1>5. CASE (\E new \in SUBSET (Bookmarks \ Known) : Sync(new)) \/ Report
  <2>1. /\ UNCHANGED <<exit, config, tokenVars>> /\ exit = "none"
        /\ pc \in {"sync", "report"} /\ pc' \in {"report", "stage"}
        /\ outcome = "none" \/ outcome' = outcome
    BY <1>5 DEF Sync, Report, runVars, Written, Early
  <2> QED BY <2>1 DEF tokenVars
<1>6. ASSUME NEW how, Exit(how), pc # "off",
             how = "green" => /\ outcome # "auth" /\ ~unsaved
                              /\ pc \notin {"preflight", "refresh", "store"}
      PROVE  TokenIsKept' /\ GreenKeepsToken'
  <2>1. /\ exit' = how /\ valid' = valid \ {"run"} /\ pc' = "off"
        /\ UNCHANGED <<config, foreign>>
    BY <1>6 DEF Exit, Gone
  <2> QED BY <1>6, <2>1
<1>7. CASE PreflightFails \/ ReportNothing \/ Conclude
  <2>1. CASE PreflightFails
    BY <1>6, <2>1 DEF PreflightFails
  <2>2. CASE ReportNothing
    BY <1>6, <2>2 DEF ReportNothing, Tells
  <2>3. CASE Conclude
    <3>1. ExitCode = "green" => outcome # "auth" /\ ~unsaved
      BY DEF ExitCode
    <3> QED BY <1>6, <2>3, <3>1 DEF Conclude
  <2> QED BY <1>7, <2>1, <2>2, <2>3
<1>8. CASE Killed
  BY <1>8 DEF Killed, Gone
<1>9. CASE PushStep /\ UNCHANGED <<tokenVars, runVars>>
  <2>1. pc \in GitPcs \ {"conclude"} /\ pc' \in GitPcs
    BY <1>9, PushSmall DEF SmallTypes
  <2> QED BY <1>9, <2>1 DEF tokenVars, runVars, GitPcs
<1> QED BY <1>1, <1>2, <1>3, <1>4, <1>5, <1>7, <1>8, <1>9 DEF CronNext, RunStep

CronIInv == CommitHypotheses /\ Delivered /\ TokenIsKept /\ GreenKeepsToken

LEMMA CronInitInv == CronInit => CronIInv
<1> SUFFICES ASSUME CronInit PROVE CronIInv
  OBVIOUS
<1>1. /\ pc = "off" /\ result = "none" /\ exit = "none" /\ wrote = {} /\ outcome = "none"
  BY DEF CronInit, GitInit
<1>2. OnTop /\ Written /\ OnItsWay /\ Delivered /\ TokenIsKept /\ GreenKeepsToken
  BY <1>1 DEF OnTop, Before, Written, Early, GitPcs, OnItsWay, Delivered, Ended, TokenIsKept,
              GreenKeepsToken
<1> QED BY <1>2, TypesInit DEF CronIInv, CommitHypotheses

LEMMA CronStepInv ==
  CronIInv /\ [CronNext]_cronVars => CronIInv' /\ (Grows \/ UNCHANGED cronVars)
<1> SUFFICES ASSUME CronIInv, [CronNext]_cronVars
             PROVE  CronIInv' /\ (Grows \/ UNCHANGED cronVars)
  OBVIOUS
<1>1. CommitHypotheses /\ SmallTypes /\ Aged /\ OnTop /\ Written
  BY DEF CronIInv, CommitHypotheses
<1>2. SmallTypes' /\ Aged'
  BY <1>1, SmallTypesStep, AgedStep
<1>3. OnTop' /\ (Grows \/ UNCHANGED cronVars)
  BY <1>1, OnTopStep
<1>4. Written' /\ OnItsWay' /\ Delivered'
  BY <1>1, WrittenStep, OnItsWayStep, DeliveredStep DEF CronIInv
<1>5. TokenIsKept' /\ GreenKeepsToken'
  BY <1>1, TokenStep DEF CronIInv
<1> QED BY <1>2, <1>3, <1>4, <1>5 DEF CronIInv, CommitHypotheses

LEMMA CronIInvHolds == CronSpec => []CronIInv
  BY CronInitInv, CronStepInv, PTL DEF CronSpec

\* A green run with a PAT leaves the good token in the secret, whatever was
\* rotated and failed in between, unless somebody else has taken one.
THEOREM GreenLeavesToken == CronSpec => []GreenKeepsToken
<1>1. CronIInv => GreenKeepsToken
  BY DEF CronIInv
<1> QED BY CronIInvHolds, <1>1, PTL

\* No push of any run, the forced ones included, takes a commit off the vault's
\* branch, however the Mac's pushes fall, unless an abort or a reset has failed,
\* or the last fetch has, after it moved origin/main.
THEOREM VaultOnlyGrows == CronSpec => RemoteOnlyGrows
<1>1. CronIInv /\ [CronNext]_cronVars =>
        [Extends(remote', remote) \/ broken \intersect {"abort", "reset", "fetch"} # {}]_cronVars
  BY CronStepInv DEF Grows, Unsafe
<1> QED BY CronIInvHolds, <1>1, PTL DEF CronSpec, RemoteOnlyGrows

\* The exit code 0 of headless.py is true: a commit of a green run that wrote
\* cards is on the vault's branch with all of them and its healthy heartbeat,
\* however often it was replayed and the answers of the pushes were lost.
THEOREM GreenRunsArePushed == CronSpec => []GreenIsPushed
<1>1. CronIInv => GreenIsPushed
  <2> SUFFICES ASSUME CronIInv, exit = "green", wrote # {}, "status" \notin broken
               PROVE  \E i \in 1..Len(remote) :
                        LET c == remote[i] IN
                        /\ c.by = n /\ c.tree.status.by = n /\ c.tree.status.failures = 0
                        /\ \A b \in wrote : c.tree.file[b] # 0
    BY DEF GreenIsPushed
  <2>1. pc = "off" /\ result = "success" /\ Healthy
    BY DEF CronIInv, CommitHypotheses, Written, Delivered
  <2>2. Delivers(remote)
    BY <2>1 DEF CronIInv, Delivered
  <2> QED BY <2>1, <2>2 DEF Delivers, News
<1> QED BY CronIInvHolds, <1>1, PTL

\* New cards that met no failing command, no conflict and no exhausted retry are
\* pushed, when the corpus is the root of the vault's repository.
THEOREM NewCardsArePushed == ASSUME CorpusAtRoot PROVE CronSpec => []CardsArePushed
<1>1. CronIInv => CardsArePushed
  <2> SUFFICES ASSUME CronIInv, outcome = "ok", broken = {}, exit \in Ended,
                      result \notin {"conflict", "flagged"}
               PROVE  Pushed
    BY DEF CardsArePushed, Ended
  <2>1. pc = "off" /\ wrote # {}
    BY DEF CronIInv, CommitHypotheses, Written, Ended
  <2>2. result = "success"
    BY DEF CronIInv, Delivered
  <2>3. Delivers(remote)
    BY <2>1, <2>2 DEF CronIInv, Delivered
  <2> QED BY <2>3 DEF Delivers, Pushed
<1> QED BY CronIInvHolds, <1>1, PTL

\* A commit that fails loudly, once it is in the vault, has the run's version and
\* the Mac's of every card that both have written, each on its own side, and a
\* <missing> at most where a git show has failed, whatever other commands have
\* failed in the run but the abort and the reset.
THEOREM ConflictsAreKept == CronSpec => []ConflictIsKept
<1>1. CronIInv => ConflictIsKept
  BY DEF CronIInv, CommitHypotheses, OnItsWay, KeptIn, Keeps, ConflictIsKept
<1> QED BY CronIInvHolds, <1>1, PTL

-----------------------------------------------------------------------------
(* The steps that a run has left. *)

\* The turns of the push are counted from the commit on.
Unturned == pc \in Before => attempt = 0

LEMMA LeftType == SmallTypes => Left \in Nat
<1> SUFFICES ASSUME SmallTypes PROVE Left \in Nat
  OBVIOUS
<1>1. Turns \in Nat /\ Expiries \in Nat /\ Whole \in Nat
  BY Bounds DEF SmallTypes, PlaceTypes, TokenTypes, Turns, Expiries, Whole
<1>2. pc \in {"off", "conclude", "lease", "push", "rebase", "fetch", "stage", "report", "sync",
              "store", "refresh", "preflight"}
  BY DEF SmallTypes, PlaceTypes, CronPcs, GitPcs
<1> QED BY <1>1, <1>2 DEF Left

LEMMA LeftPush ==
  ASSUME SmallTypes, SmallTypes', Unturned, PushStep, UNCHANGED <<tokenVars, runVars>>
  PROVE  Left' < Left
<1>1. Turns \in Nat /\ Turns' \in Int /\ Whole \in Nat /\ Whole' = Whole
  BY Bounds DEF SmallTypes, PlaceTypes, Turns, Whole
<1>2. CASE NothingToCommit \/ CommitFails \/ RebaseFails \/ TimesOut \/ Push \/ LeasePush
  <2>1. pc \in {"stage", "fetch", "rebase", "push", "lease"} /\ pc' = "conclude"
    BY <1>2 DEF NothingToCommit, CommitFails, RebaseFails, TimesOut, Push, LeasePush, Return
  <2> QED BY <1>1, <2>1 DEF Left
<1>3. CASE FailLoud \/ FailLoudEmpty \/ FailLoudFails \/ Flag
  <2>1. pc \in {"rebase", "fetch"} /\ pc' = "lease"
    BY <1>3 DEF FailLoud, FailLoudEmpty, FailLoudFails, Flag, Conflicted
  <2> QED BY <1>1, <2>1 DEF Left
<1>4. CASE Commit
  <2>1. pc = "stage" /\ pc' = "fetch" /\ attempt = 0 /\ attempt' = attempt
    BY <1>4 DEF Commit, Unturned, Before
  <2>2. Turns' = Whole
    BY <2>1, Bounds DEF Turns, Whole
  <2> QED BY <1>1, <2>1, <2>2 DEF Left
<1>5. CASE Fetch \/ Rebase
  <2>1. /\ attempt' = attempt
        /\ (pc = "fetch" /\ pc' = "rebase") \/ (pc = "rebase" /\ pc' = "push")
    BY <1>5 DEF Fetch, Rebase
  <2>2. Turns' = Turns
    BY <2>1 DEF Turns
  <2> QED BY <1>1, <2>1, <2>2 DEF Left
<1>6. CASE FetchFails \/ PushRejected \/ PushFails
  <2>1. pc \in {"fetch", "push"} /\ pc' = "fetch" /\ attempt' = attempt + 1
    BY <1>6 DEF FetchFails, PushRejected, PushFails, NextAttempt
  <2>2. Turns' = Turns - 3
    BY <2>1, Bounds DEF SmallTypes, PlaceTypes, Turns
  <2> QED BY <1>1, <2>1, <2>2 DEF Left
<1> QED BY <1>2, <1>3, <1>4, <1>5, <1>6 DEF PushStep

LEMMA LeftStep == ASSUME SmallTypes, SmallTypes', Unturned, RunStep PROVE Left' < Left
<1>1. Expiries \in Nat /\ Expiries' \in Int /\ Whole \in Nat /\ Whole' = Whole
  BY Bounds DEF SmallTypes, TokenTypes, Expiries, Whole
<1>2. CASE PreflightFails \/ ReportNothing \/ Conclude
  <2>1. pc \in {"preflight", "report", "conclude"} /\ pc' = "off"
    BY <1>2 DEF PreflightFails, ReportNothing, Conclude, Exit, Gone
  <2> QED BY <1>1, <2>1 DEF Left
<1>3. CASE Preflight \/ Store
  <2>1. /\ expiries' = expiries
        /\ (pc = "preflight" /\ pc' = "refresh") \/ (pc = "store" /\ pc' = "sync")
    BY <1>3 DEF Preflight, Store, tokenVars
  <2>2. Expiries' = Expiries
    BY <2>1 DEF Expiries
  <2> QED BY <1>1, <2>1, <2>2 DEF Left
<1>4. CASE Refresh
  <2>1. /\ pc' = "store"
        /\ \/ pc = "refresh" /\ expiries' = expiries
           \/ pc = "sync" /\ expiries' = expiries + 1
    BY <1>4 DEF Refresh
  <2>2. /\ pc = "refresh" => Expiries' = Expiries
        /\ pc = "sync" => Expiries' = Expiries - 2
    <3>1. MaxExpiries - expiries \in Int /\ expiries \in Int
      BY Bounds DEF SmallTypes, TokenTypes
    <3> QED BY <2>1, <3>1, Bounds DEF Expiries
  <2> QED BY <1>1, <2>1, <2>2 DEF Left
<1>5. CASE Refused \/ Report \/ \E new \in SUBSET (Bookmarks \ Known) : Sync(new)
  <2>1. \/ pc \in {"refresh", "sync"} /\ pc' = "report"
        \/ pc = "report" /\ pc' = "stage"
    BY <1>5 DEF Refused, Report, Sync
  <2> QED BY <1>1, <2>1 DEF Left
<1>6. CASE PushStep /\ UNCHANGED <<tokenVars, runVars>>
  BY <1>6, LeftPush
<1> QED BY <1>2, <1>3, <1>4, <1>5, <1>6 DEF RunStep

\* Only the push counts turns, and a new run counts them anew.
LEMMA UnturnedStep ==
  ASSUME SmallTypes, Unturned, [CronNext]_cronVars PROVE Unturned'
<1>1. CASE Mac \/ MacRotates \/ Reauthorize \/ UNCHANGED cronVars
  <2>1. UNCHANGED <<pc, attempt>>
    <3>1. CASE Mac
      BY <3>1 DEF Mac, MacStep, MacSyncs, MacClears, MacPushes
    <3>2. CASE MacRotates \/ Reauthorize \/ UNCHANGED cronVars
      BY <3>2 DEF MacRotates, Reauthorize, cronVars, gitVars
    <3> QED BY <1>1, <3>1, <3>2
  <2> QED BY <2>1 DEF Unturned
<1>2. CASE (\E c \in Configs : Start(c)) \/ Killed \/ PreflightFails \/ ReportNothing \/ Conclude
  <2>1. attempt' = 0
    BY <1>2 DEF Start, Killed, PreflightFails, ReportNothing, Conclude, Exit, Gone
  <2> QED BY <2>1 DEF Unturned
<1>3. CASE Preflight \/ Refresh \/ Refused \/ Store \/ Report
           \/ \E new \in SUBSET (Bookmarks \ Known) : Sync(new)
  <2>1. pc \in Before /\ attempt' = attempt
    BY <1>3 DEF Preflight, Refresh, Refused, Store, Report, Sync, gitVars, Before
  <2> QED BY <2>1 DEF Unturned
<1>4. CASE PushStep
  <2>1. pc' \notin Before
    BY <1>4, PushSmall DEF SmallTypes, GitPcs, Before
  <2> QED BY <2>1 DEF Unturned
<1> QED BY <1>1, <1>2, <1>3, <1>4 DEF CronNext, RunStep

\* Nobody else takes the run back.
LEMMA LeftElsewhere ==
  ASSUME SmallTypes, n' = n, [CronNext]_cronVars, ~RunStep PROVE Left' <= Left
<1>1. CASE Mac \/ MacRotates \/ Reauthorize \/ UNCHANGED cronVars
  <2>1. UNCHANGED <<pc, attempt, expiries>>
    <3>1. CASE Mac
      BY <3>1 DEF Mac, MacStep, MacSyncs, MacClears, MacPushes, tokenVars
    <3>2. CASE MacRotates \/ Reauthorize \/ UNCHANGED cronVars
      BY <3>2 DEF MacRotates, Reauthorize, cronVars, gitVars, tokenVars
    <3> QED BY <1>1, <3>1, <3>2
  <2>2. Left' = Left
    BY <2>1 DEF Left, Turns, Expiries, Whole
  <2> QED BY <2>2, LeftType
<1>2. CASE Killed
  <2>1. Left' = 0
    BY <1>2 DEF Killed, Gone, Left
  <2> QED BY <2>1, LeftType
<1>3. ASSUME NEW c \in Configs, Start(c) PROVE FALSE
  BY <1>3, Bounds DEF Start, SmallTypes, PlaceTypes
<1> QED BY <1>1, <1>2, <1>3 DEF CronNext

\* Every step of the job takes it nearer to its end, and nothing else takes it
\* back, for every bound on the attempts of the push and on the expired tokens.
THEOREM RunsRunDown == CronSpec => StepsRunOut
<1> DEFINE Inv == SmallTypes /\ Aged /\ Unturned
<1>1. CronInit => Inv
  BY TypesInit DEF CronInit, Unturned, Before
<1>2. Inv /\ [CronNext]_cronVars => Inv'
  BY SmallTypesStep, AgedStep, UnturnedStep
<1>3. Inv /\ [CronNext]_cronVars =>
        [/\ RunStep => Left' \in 0..(Left - 1)
         /\ n' = n => Left' <= Left]_cronVars
  <2> SUFFICES ASSUME Inv, [CronNext]_cronVars
               PROVE  /\ RunStep => Left' \in 0..(Left - 1)
                      /\ n' = n => Left' <= Left
    OBVIOUS
  <2>1. SmallTypes' /\ Left \in Nat /\ Left' \in Nat
    <3>1. (SmallTypes => Left \in Nat)'
      BY LeftType, PTL
    <3> QED BY <1>2, <3>1, LeftType
  <2>2. RunStep => Left' < Left
    BY <2>1, LeftStep
  <2>3. ~RunStep /\ n' = n => Left' <= Left
    BY LeftElsewhere
  <2> QED BY <2>1, <2>2, <2>3
<1> HIDE DEF Inv
<1> QED BY <1>1, <1>2, <1>3, PTL DEF CronSpec, StepsRunOut

=============================================================================
