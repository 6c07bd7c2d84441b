------------------------------- MODULE RunLog -------------------------------
(***************************************************************************)
(* The question log of /xask (xask/log.py), and in the same way the run    *)
(* log of /xsync (sync/log.py): appenders and the purge of old entries,    *)
(* each under a flock of the file that the path named when it was opened.  *)
(* The purge puts another file in its place.  Two purges at a time, which  *)
(* would share one .tmp file, are not modelled.                            *)
(***************************************************************************)
EXTENDS Naturals

CONSTANTS
  Askers,   \* the processes that append
  MaxFiles  \* bound on the files that the path has ever named

ASSUME LogAssumption ==
  /\ MaxFiles \in Nat \ {0}
  /\ Askers \intersect {"nobody", "purge"} = {}

VARIABLES
  path,      \* the file that the path names, 0 if there is none
  lines,     \* lines[f]: the entries in file f; an entry is its appender
  holder,    \* holder[f]: who has the flock of file f
  expired,   \* the entries that are older than the retention
  asker,     \* where each appender is, and the file it has open
  purger,    \* where the purge is, the file it has open, and the survivors
  overtaken  \* history: the entries appended to a file that was replaced before

logVars == <<path, lines, holder, expired, asker, purger, overtaken>>

LogFiles == 1..MaxFiles

LogTypeOK ==
  /\ path \in 0..MaxFiles
  /\ lines \in [LogFiles -> SUBSET Askers]
  /\ holder \in [LogFiles -> {"nobody", "purge"} \union Askers]
  /\ expired \subseteq Askers
  /\ asker \in [Askers -> [at: {"new", "open", "locked", "done", "failed"}, file: 0..MaxFiles]]
  /\ purger \in [at: {"off", "open", "locked", "read"}, file: 0..MaxFiles,
                 kept: SUBSET Askers]
  /\ overtaken \subseteq Askers

LogInit ==
  /\ path = 0
  /\ lines = [f \in LogFiles |-> {}]
  /\ holder = [f \in LogFiles |-> "nobody"]
  /\ expired = {} /\ overtaken = {}
  /\ asker = [a \in Askers |-> [at |-> "new", file |-> 0]]
  /\ purger = [at |-> "off", file |-> 0, kept |-> {}]

-----------------------------------------------------------------------------

\* append_log opens the file, which is made if need be.
OpenLog(a) ==
  /\ asker[a].at = "new"
  /\ path' = IF path = 0 THEN 1 ELSE path
  /\ asker' = [asker EXCEPT ![a] = [at |-> "open", file |-> path']]
  /\ UNCHANGED <<lines, holder, expired, purger, overtaken>>

\* It waits for the flock of what it has opened.
LockLog(a) ==
  LET f == asker[a].file IN
  /\ asker[a].at = "open"
  /\ holder[f] = "nobody"
  /\ holder' = [holder EXCEPT ![f] = a]
  /\ asker' = [asker EXCEPT ![a].at = "locked"]
  /\ UNCHANGED <<path, lines, expired, purger, overtaken>>

\* It writes, unlocks and closes.
WriteLine(a) ==
  LET f == asker[a].file IN
  /\ asker[a].at = "locked"
  /\ lines' = [lines EXCEPT ![f] = @ \union {a}]
  /\ overtaken' = IF f = path THEN overtaken ELSE overtaken \union {a}
  /\ holder' = [holder EXCEPT ![f] = "nobody"]
  /\ asker' = [asker EXCEPT ![a].at = "done"]
  /\ UNCHANGED <<path, expired, purger>>

\* It fails, which log_run drops, or dies: the flock goes with its descriptor.
NoLine(a) ==
  LET f == asker[a].file IN
  /\ asker[a].at \in {"open", "locked"}
  /\ holder' = [holder EXCEPT ![f] = IF @ = a THEN "nobody" ELSE @]
  /\ asker' = [asker EXCEPT ![a].at = "failed"]
  /\ UNCHANGED <<path, lines, expired, purger, overtaken>>

\* Time passes, and the entry is older than the retention.
Expire(a) ==
  /\ asker[a].at = "done"
  /\ expired' = expired \union {a}
  /\ UNCHANGED <<path, lines, holder, asker, purger, overtaken>>

PurgeOpens ==
  /\ purger.at = "off"
  /\ path # 0 /\ path < MaxFiles
  /\ purger' = [at |-> "open", file |-> path, kept |-> {}]
  /\ UNCHANGED <<path, lines, holder, expired, asker, overtaken>>

\* Seeded fault: the flock of the live file is not taken.
PurgeIntrudes ==
  /\ purger.at = "open"
  /\ purger' = [purger EXCEPT !.at = "locked"]
  /\ UNCHANGED <<path, lines, holder, expired, asker, overtaken>>

PurgeLocks ==
  /\ purger.at = "open"
  /\ holder[purger.file] = "nobody"
  /\ holder' = [holder EXCEPT ![purger.file] = "purge"]
  /\ purger' = [purger EXCEPT !.at = "locked"]
  /\ UNCHANGED <<path, lines, expired, asker, overtaken>>

\* What is not too old survives.
PurgeReads ==
  /\ purger.at = "locked"
  /\ purger' = [purger EXCEPT !.at = "read", !.kept = lines[path] \ expired]
  /\ UNCHANGED <<path, lines, holder, expired, asker, overtaken>>

Unlocked ==
  [holder EXCEPT ![purger.file] = IF @ = "purge" THEN "nobody" ELSE @]

\* os.replace puts the survivors in the place of the live file.
PurgeReplaces ==
  /\ purger.at = "read"
  /\ path' = path + 1
  /\ lines' = [lines EXCEPT ![path'] = purger.kept]
  /\ holder' = Unlocked
  /\ purger' = [at |-> "off", file |-> 0, kept |-> {}]
  /\ UNCHANGED <<expired, asker, overtaken>>

\* It fails or dies before the replace.
PurgeFails ==
  /\ purger.at # "off"
  /\ holder' = Unlocked
  /\ purger' = [at |-> "off", file |-> 0, kept |-> {}]
  /\ UNCHANGED <<path, lines, expired, asker, overtaken>>

LogNext ==
  \/ \E a \in Askers : OpenLog(a) \/ LockLog(a) \/ WriteLine(a) \/ NoLine(a) \/ Expire(a)
  \/ PurgeOpens \/ PurgeLocks \/ PurgeReads \/ PurgeReplaces \/ PurgeFails

LogSpec == LogInit /\ [][LogNext]_logVars

-----------------------------------------------------------------------------

\* What has been appended and is not too old.
Owed == {a \in Askers : asker[a].at = "done"} \ expired

\* "so a concurrent /xask `append_log` doesn't land between read and replace and
\* get silently dropped" (xask/log.py:252).  One that had opened the file before
\* the purge, and waited for its flock, writes to a file that has no name.
LandedIsKept == path # 0 => Owed \ overtaken \subseteq lines[path]

=============================================================================
