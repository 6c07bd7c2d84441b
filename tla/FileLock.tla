------------------------------ MODULE FileLock ------------------------------
(***************************************************************************)
(* The card_write lock of locks/filelock.py: an exclusive non-blocking     *)
(* flock on .locks/card_write.lock, and beside it a JSON file that names   *)
(* the holder by a fencing token.                                          *)
(*                                                                         *)
(* The flock belongs to the open file, not to the path: the LOCK_HELD      *)
(* message and TROUBLESHOOTING.md tell the user to rm the lock file when   *)
(* the holder is thought dead, and the next acquirer then locks a new      *)
(* inode while the old holder still runs (AllowClear admits that).  The    *)
(* open file is reached by a descriptor number that belongs to the whole   *)
(* process: writers may be threads of one process (paste_bookmark runs its *)
(* locked write in asyncio.to_thread), and the paths that give the lock up *)
(* close their descriptor twice.                                           *)
(***************************************************************************)
EXTENDS Naturals, DurableReplace

CONSTANTS
  Procs,        \* the threads of control that write cards
  ProcessOf,    \* ProcessOf[p]: the process p is a thread of
  Fds,          \* bound: descriptor numbers a process has for lock files
  AllowClear,   \* may the user remove the lock file?
  MaxTokens,    \* bound: no acquisition starts once this many tokens exist
  MaxInodes     \* bound: lock files ever created at the path

Processes == {ProcessOf[p] : p \in Procs}

\* 0 stands for "no descriptor".
ASSUME FileLockAssumption ==
  /\ Fds \subseteq Nat \ {0}
  /\ AllowClear \in BOOLEAN
  /\ MaxTokens \in Nat
  /\ MaxInodes \in Nat \ {0}
  /\ {NoFile, Empty, Torn} \intersect Nat = {}

VARIABLES
  path,     \* the inode at card_write.lock, 0 when there is no such file
  inodes,   \* inodes created at that path so far
  file,     \* file[o, n]: the inode descriptor n of process o is open on
  flocks,   \* the descriptors whose open file owns the flock of its inode
  fd,       \* fd[p]: the descriptor number in p's local variable, or 0
  stage,    \* stage[p]: how far p is inside with_card_write_lock
  token,    \* token[p]: the fencing token of p's LockHandle, 0 for none
  minted,   \* fencing tokens made so far (uuid4 never repeats one)
  json      \* card_write.json and its temporary, and the tokens they hold

files    == <<path, inodes, file, flocks, fd>>
tokens   == <<token, minted, json>>
lockVars == <<path, inodes, file, flocks, fd, stage, token, minted, json>>

Stages ==
  {"out", "opened", "flocked", "staging", "staged", "in", "closing", "refused"}

\* The stages between the grant of a flock and the close that ends it.
Holding == {"flocked", "staging", "staged", "in", "closing"}

Descriptors == Processes \X Fds
Mine(p) == <<ProcessOf[p], fd[p]>>

\* Types, and the bookkeeping every stage implies: a writer remembers a
\* descriptor exactly while it is not out and a token exactly while it holds
\* a flock, nothing refers to a token or an inode that was not made yet, and
\* no descriptor stays open that no writer remembers.
NoLeak == \A d \in Descriptors : file[d] # 0 => \E p \in Procs : Mine(p) = d

LockTypeOK ==
  /\ NoLeak
  /\ path \in Nat /\ inodes \in Nat /\ path <= inodes
  /\ minted \in Nat
  /\ json \in Files(0 .. minted \union {NoFile} \union Broken, Procs)
  /\ Consistent(json)
  /\ file \in [Descriptors -> Nat]
  /\ flocks \subseteq Descriptors
  /\ \A d \in Descriptors : file[d] <= inodes /\ (d \in flocks => file[d] # 0)
  /\ fd \in [Procs -> Fds \union {0}]
  /\ stage \in [Procs -> Stages]
  /\ token \in [Procs -> Nat]
  /\ \A p \in Procs :
       /\ token[p] <= minted
       /\ stage[p] = "out" <=> fd[p] = 0
       /\ stage[p] \in Holding <=> token[p] # 0

\* A corpus on which the lock was never used.
LockInit ==
  /\ path = 0
  /\ inodes = 0
  /\ file = [d \in Descriptors |-> 0]
  /\ flocks = {}
  /\ fd = [p \in Procs |-> 0]
  /\ stage = [p \in Procs |-> "out"]
  /\ token = [p \in Procs |-> 0]
  /\ minted = 0
  /\ json = Still(NoFile)

-----------------------------------------------------------------------------

\* Seeded fault: the descriptor is never closed.
CloseLeaking(p) == UNCHANGED <<file, flocks>>

\* os.close(fd): whatever that number is open on in the process is closed and
\* its flock goes; EBADF, when it is open on nothing, has no effect.
Close(p) ==
  /\ file' = [file EXCEPT ![Mine(p)] = 0]
  /\ flocks' = flocks \ {Mine(p)}

\* Seeded fault: LOCK_SH for LOCK_EX.
GrantableShared(p) == file[Mine(p)] # 0

\* flock(fd, LOCK_EX | LOCK_NB) succeeds: fd is open, and no other open file
\* owns the flock of that inode.
Grantable(p) ==
  /\ file[Mine(p)] # 0
  /\ \A d \in flocks : file[d] = file[Mine(p)] => d = Mine(p)

\* os.open(lock_path, O_RDWR | O_CREAT) takes a number that is free.
OpenLockFile(p) ==
  /\ stage[p] = "out"
  /\ minted < MaxTokens
  /\ stage' = [stage EXCEPT ![p] = "opened"]
  /\ \E n \in Fds :
       /\ file[<<ProcessOf[p], n>>] = 0
       /\ fd' = [fd EXCEPT ![p] = n]
       /\ \/ /\ path # 0
             /\ file' = [file EXCEPT ![<<ProcessOf[p], n>>] = path]
             /\ UNCHANGED <<path, inodes>>
          \/ /\ path = 0
             /\ inodes' = inodes + 1
             /\ path' = inodes + 1
             /\ file' = [file EXCEPT ![<<ProcessOf[p], n>>] = inodes + 1]
  /\ UNCHANGED <<flocks, token, minted, json>>

\* LOCK_HELD: the descriptor is closed, then the holder's JSON is read for
\* the message; the finally clause is still to come.
LockHeld(p) ==
  /\ stage[p] = "opened"
  /\ ~Grantable(p)
  /\ stage' = [stage EXCEPT ![p] = "refused"]
  /\ Close(p)
  /\ UNCHANGED <<path, inodes, fd, token, minted, json>>

\* Seeded fault: the token is not fresh, every handle gets the same one.
FlockSameToken(p) ==
  /\ stage[p] = "opened"
  /\ Grantable(p)
  /\ stage' = [stage EXCEPT ![p] = "flocked"]
  /\ flocks' = flocks \union {Mine(p)}
  /\ minted' = minted + 1
  /\ token' = [token EXCEPT ![p] = 1]
  /\ UNCHANGED <<path, inodes, file, fd, json>>

\* The flock is granted and a LockMetadata with a fresh token is made.
Flock(p) ==
  /\ stage[p] = "opened"
  /\ Grantable(p)
  /\ stage' = [stage EXCEPT ![p] = "flocked"]
  /\ flocks' = flocks \union {Mine(p)}
  /\ minted' = minted + 1
  /\ token' = [token EXCEPT ![p] = minted + 1]
  /\ UNCHANGED <<path, inodes, file, fd, json>>

\* durable_replace(json_path): the temporary is opened ...
OpenToken(p) ==
  /\ stage[p] = "flocked"
  /\ stage' = [stage EXCEPT ![p] = "staging"]
  /\ json' = Opened(json, p)
  /\ UNCHANGED <<files, token, minted>>

\* ... the token is written and synced ...
WriteToken(p) ==
  /\ stage[p] = "staging"
  /\ stage' = [stage EXCEPT ![p] = "staged"]
  /\ json' \in Written(json, p, token[p])
  /\ UNCHANGED <<files, token, minted>>

\* ... and what the temporary now holds is renamed over the JSON file.
PublishToken(p) ==
  /\ stage[p] = "staged"
  /\ json.tmp # NoFile
  /\ stage' = [stage EXCEPT ![p] = "in"]
  /\ json' = Renamed(json, p)
  /\ UNCHANGED <<files, token, minted>>

\* Seeded fault: the JSON file is taken for mere diagnostics and its failed
\* write is ignored.
TokenWriteIgnored(p) ==
  /\ stage[p] \in {"flocked", "staging", "staged"}
  /\ stage' = [stage EXCEPT ![p] = "in"]
  /\ json' \in Failed(json, p, token[p])
  /\ UNCHANGED <<files, token, minted>>

\* An I/O error, or a temporary somebody else renamed away: the descriptor is
\* closed, DISK_WRITE_FAILED is on its way through the finally clause.
TokenWriteFails(p) ==
  /\ stage[p] \in {"flocked", "staging", "staged"}
  /\ stage' = [stage EXCEPT ![p] = "refused"]
  /\ token' = [token EXCEPT ![p] = 0]
  /\ json' \in Failed(json, p, token[p])
  /\ Close(p)
  /\ UNCHANGED <<path, inodes, fd, minted>>

\* The finally clause after the lock was given up: the second close.
CloseAgain(p) ==
  /\ stage[p] = "refused"
  /\ stage' = [stage EXCEPT ![p] = "out"]
  /\ fd' = [fd EXCEPT ![p] = 0]
  /\ Close(p)
  /\ UNCHANGED <<path, inodes, tokens>>

\* Leaving the with block: the JSON file is unlinked, whoever's token is in
\* it; an OSError there is only logged.
UnlinkJson(p) ==
  /\ stage[p] = "in"
  /\ stage' = [stage EXCEPT ![p] = "closing"]
  /\ json' \in {json, Unlinked(json)}
  /\ UNCHANGED <<files, token, minted>>

\* The finally clause: the close that releases the flock.
CloseFd(p) ==
  /\ stage[p] = "closing"
  /\ stage' = [stage EXCEPT ![p] = "out"]
  /\ fd' = [fd EXCEPT ![p] = 0]
  /\ token' = [token EXCEPT ![p] = 0]
  /\ Close(p)
  /\ UNCHANGED <<path, inodes, minted, json>>

\* A process dies: the OS closes its files, what is on disk stays.
LockDie(o) ==
  /\ \E p \in Procs : ProcessOf[p] = o /\ stage[p] # "out"
  /\ file' = [d \in Descriptors |-> IF d[1] = o THEN 0 ELSE file[d]]
  /\ flocks' = {d \in flocks : d[1] # o}
  /\ fd' = [p \in Procs |-> IF ProcessOf[p] = o THEN 0 ELSE fd[p]]
  /\ stage' = [p \in Procs |-> IF ProcessOf[p] = o THEN "out" ELSE stage[p]]
  /\ token' = [p \in Procs |-> IF ProcessOf[p] = o THEN 0 ELSE token[p]]
  /\ json' = Ended(json, {p \in Procs : ProcessOf[p] = o})
  /\ UNCHANGED <<path, inodes, minted>>

\* The user runs rm on the lock file.
ClearLockFile ==
  /\ AllowClear
  /\ path # 0
  /\ inodes < MaxInodes
  /\ path' = 0
  /\ UNCHANGED <<inodes, file, flocks, fd, stage, tokens>>

\* verify_fencing_token: the JSON file is there, is whole, and holds this
\* handle's token.
Fence(p) == token[p] # 0 /\ json.at = token[p]

LockStep(p) ==
  \/ OpenLockFile(p) \/ LockHeld(p) \/ Flock(p)
  \/ OpenToken(p) \/ WriteToken(p) \/ PublishToken(p) \/ TokenWriteFails(p)
  \/ CloseAgain(p) \/ UnlinkJson(p) \/ CloseFd(p)

LockNext ==
  \/ ClearLockFile
  \/ \E p \in Procs : LockStep(p)
  \/ \E o \in Processes : LockDie(o)

LockSpec == LockInit /\ [][LockNext]_lockVars

-----------------------------------------------------------------------------

\* At most one writer is between the grant of its flock and the close that
\* ends it: "OS-enforced mutual exclusion" (the head of filelock.py).  It
\* needs two things the code does not see to: the user leaves the lock file
\* alone, and no two writers are threads of one process.
MutualExclusion ==
  \A p, q \in Procs : stage[p] \in Holding /\ stage[q] \in Holding => p = q

\* A holder that nobody displaced is never turned away: verify_fencing_token
\* answers True to whoever is inside the with block.
HolderKeepsFence ==
  \A p \in Procs : stage[p] = "in" => Fence(p)

\* Even when two writers are inside at once, because of an rm or of a second
\* close, and share the temporary of the JSON file, verify_fencing_token never
\* goes back from False to True for one handle, so the second check of
\* write_card cannot be fooled by a token that returns.
FenceNeverReturns ==
  [][\A p \in Procs :
       stage[p] = "in" /\ ~Fence(p) /\ stage'[p] = "in" => ~Fence(p)']_lockVars

=============================================================================
