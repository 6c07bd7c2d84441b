--------------------------- MODULE FileLockProofs ---------------------------
(***************************************************************************)
(* Proofs about durable_replace and the card_write lock, for every set of  *)
(* writers.  What the kernel and the tokens guarantee is proved without an *)
(* assumption; mutual exclusion is proved under the two that Undisturbed   *)
(* names.                                                                  *)
(***************************************************************************)
EXTENDS FileLock, TLAPS

-----------------------------------------------------------------------------
\* What the steps of durable_replace do to a file of any contents C, written
\* by any writers W.

LEMMA StillFile ==
  ASSUME NEW C, NEW W, NEW c \in C
  PROVE  Still(c) \in Files(C, W) /\ Consistent(Still(c))
  BY DEF Still, Files, Consistent

LEMMA OpenedFile ==
  ASSUME NEW C, NEW W, NEW f \in Files(C, W), Consistent(f), NEW p \in W
  PROVE  /\ Opened(f, p) \in Files(C, W) /\ Consistent(Opened(f, p))
         /\ Opened(f, p).at = f.at /\ Opened(f, p).tmp = Empty
         /\ Opened(f, p).busy = f.busy \union {p}
         /\ Opened(f, p).onTmp = f.onTmp \union {p}
         /\ Opened(f, p).onAt = f.onAt
  BY DurableReplaceAssumption DEF Opened, Files, Consistent, Broken

LEMMA WrittenFile ==
  ASSUME NEW C, NEW W, Broken \subseteq C, NEW f \in Files(C, W), Consistent(f),
         NEW p, NEW c \in C, c # NoFile, NEW g \in Written(f, p, c)
  PROVE  /\ g \in Files(C, W) /\ Consistent(g)
         /\ g.busy = f.busy
         /\ g.onTmp = f.onTmp \ {p} /\ g.onAt = f.onAt \ {p}
         /\ g.at \in {f.at, c, Torn} /\ (p \notin f.onAt => g.at = f.at)
         /\ g.tmp \in {f.tmp, c, Torn} /\ (p \notin f.onTmp => g.tmp = f.tmp)
         /\ p \in f.onTmp /\ f.tmp = Empty => g.tmp = c
<1>1. PICK t \in IF p \in f.onTmp THEN Over(f.tmp, c) ELSE {f.tmp},
           a \in IF p \in f.onAt THEN Over(f.at, c) ELSE {f.at} :
        g = [f EXCEPT !.tmp = t, !.at = a, !.onTmp = @ \ {p}, !.onAt = @ \ {p}]
  BY DEF Written
<1>2. /\ t \in {f.tmp, c, Torn} /\ (p \notin f.onTmp => t = f.tmp)
      /\ a \in {f.at, c, Torn} /\ (p \notin f.onAt => a = f.at)
      /\ p \in f.onTmp => t \in {c, Torn}
      /\ p \in f.onTmp /\ f.tmp = Empty => t = c
  BY <1>1 DEF Over
<1>3. /\ g.tmp = t /\ g.at = a /\ g.busy = f.busy
      /\ g.onTmp = f.onTmp \ {p} /\ g.onAt = f.onAt \ {p}
  BY <1>1 DEF Files
<1>4. g \in Files(C, W)
  BY <1>1, <1>2 DEF Files, Broken
<1>5. Consistent(g)
  BY <1>2, <1>3, DurableReplaceAssumption DEF Consistent
<1> QED BY <1>2, <1>3, <1>4, <1>5

LEMMA EndedFile ==
  ASSUME NEW C, NEW W, NEW f \in Files(C, W), Consistent(f), NEW ps
  PROVE  /\ Ended(f, ps) \in Files(C, W) /\ Consistent(Ended(f, ps))
         /\ Ended(f, ps).at = f.at /\ Ended(f, ps).tmp \in {f.tmp, NoFile}
         /\ f.busy \ ps # {} => Ended(f, ps).tmp = f.tmp
         /\ Ended(f, ps).busy = f.busy \ ps
         /\ Ended(f, ps).onTmp = f.onTmp \ ps
         /\ Ended(f, ps).onAt = f.onAt \ ps
  BY DEF Ended, Files, Consistent

LEMMA RenamedFile ==
  ASSUME NEW C, NEW W, Broken \subseteq C, NEW f \in Files(C, W), Consistent(f),
         f.tmp # NoFile, NEW p
  PROVE  /\ Renamed(f, p) \in Files(C, W) /\ Consistent(Renamed(f, p))
         /\ Renamed(f, p).at = f.tmp /\ Renamed(f, p).tmp = NoFile
         /\ Renamed(f, p).busy = f.busy \ {p} /\ Renamed(f, p).onTmp = {}
         /\ Renamed(f, p).onAt = f.onTmp \ {p}
<1> DEFINE g == [f EXCEPT !.at = f.tmp, !.tmp = NoFile, !.onAt = f.onTmp, !.onTmp = {}]
<1>1. g \in Files(C, W) /\ Consistent(g)
  BY DEF Files, Consistent
<1>2. /\ g.at = f.tmp /\ g.tmp = NoFile
      /\ g.busy = f.busy /\ g.onAt = f.onTmp /\ g.onTmp = {}
  BY DEF Files
<1>3. Renamed(f, p) = Ended(g, {p})
  BY DEF Renamed
<1> HIDE DEF g
<1> QED BY <1>1, <1>2, <1>3, EndedFile

LEMMA DiscardedFile ==
  ASSUME NEW C, NEW W, NEW f \in Files(C, W), Consistent(f)
  PROVE  /\ Discarded(f) \in Files(C, W) /\ Consistent(Discarded(f))
         /\ Discarded(f).at = f.at /\ Discarded(f).tmp = NoFile
         /\ Discarded(f).busy = f.busy
         /\ Discarded(f).onTmp = {} /\ Discarded(f).onAt = f.onAt
  BY DEF Discarded, Files, Consistent

LEMMA UnlinkedFile ==
  ASSUME NEW C, NEW W, NoFile \in C, NEW f \in Files(C, W), Consistent(f)
  PROVE  /\ Unlinked(f) \in Files(C, W) /\ Consistent(Unlinked(f))
         /\ Unlinked(f).at = NoFile /\ Unlinked(f).tmp = f.tmp
         /\ Unlinked(f).busy = f.busy
         /\ Unlinked(f).onTmp = f.onTmp /\ Unlinked(f).onAt = {}
  BY DEF Unlinked, Files, Consistent

LEMMA FailedFile ==
  ASSUME NEW C, NEW W, Broken \subseteq C, NEW f \in Files(C, W), Consistent(f),
         NEW p, NEW c \in C, c # NoFile, NEW g \in Failed(f, p, c)
  PROVE  /\ g \in Files(C, W) /\ Consistent(g)
         /\ g.busy = f.busy \ {p}
         /\ g.onTmp \subseteq f.onTmp \ {p} /\ g.onAt = f.onAt \ {p}
         /\ g.at \in {f.at, c, Torn} /\ (p \notin f.onAt => g.at = f.at)
         /\ g.tmp \in {f.tmp, c, Torn, NoFile}
<1>1. PICK h \in {f} \union Written(f, p, c) :
        g \in {Ended(h, {p}), Ended(Discarded(h), {p})}
  BY DEF Failed
<1>2. /\ h \in Files(C, W) /\ Consistent(h) /\ h.busy = f.busy
      /\ h.onTmp \subseteq f.onTmp /\ h.onAt \subseteq f.onAt
      /\ f.onAt \ {p} \subseteq h.onAt
      /\ h.at \in {f.at, c, Torn} /\ (p \notin f.onAt => h.at = f.at)
      /\ h.tmp \in {f.tmp, c, Torn}
  BY <1>1, WrittenFile
<1>3. /\ Discarded(h) \in Files(C, W) /\ Consistent(Discarded(h))
      /\ Discarded(h).at = h.at /\ Discarded(h).tmp = NoFile
      /\ Discarded(h).busy = h.busy
      /\ Discarded(h).onTmp = {} /\ Discarded(h).onAt = h.onAt
  BY <1>2, DiscardedFile
<1>4. CASE g = Ended(h, {p})
  BY <1>2, <1>4, EndedFile
<1>5. CASE g = Ended(Discarded(h), {p})
  BY <1>2, <1>3, <1>5, EndedFile
<1> QED BY <1>1, <1>4, <1>5

-----------------------------------------------------------------------------
\* The lock.

\* No two writers are threads of one process, so no close hits another's file.
OneThreadEach ==
  \A p, q \in Procs : ProcessOf[p] = ProcessOf[q] => p = q

\* ... and the user leaves the lock file alone.
Undisturbed == OneThreadEach /\ ~AllowClear

\* The kernel's side of it: the flock of an inode has one owner.
FlockExclusive ==
  \A d, e \in flocks : file[d] = file[e] => d = e

TokensDistinct ==
  \A p, q \in Procs :
    stage[p] \in Holding /\ stage[q] \in Holding /\ token[p] = token[q] => p = q

\* Once published, a token is never again in the temporary, so no later
\* rename can bring it back.
TokenLeftTmp == \A p \in Procs : stage[p] = "in" => json.tmp # token[p]

\* A holder keeps its flock until its own close.
HolderOwnsFlock ==
  OneThreadEach => \A p \in Procs : stage[p] \in Holding => Mine(p) \in flocks

\* What the lock file's staying in place adds.
OneInode == ~AllowClear => inodes <= 1 /\ path = inodes

\* Who is in durable_replace.
AtIt == json.busy = {p \in Procs : stage[p] \in {"staging", "staged"}}

\* Alone past its flock, a writer is alone in durable_replace.
HolderPublished ==
  Undisturbed => \A p \in Procs :
    /\ stage[p] = "staging" =>
         json.tmp = Empty /\ p \in json.onTmp /\ p \notin json.onAt
    /\ stage[p] = "staged" => json.tmp = token[p]
    /\ stage[p] = "in" => json.at = token[p]

LockIInv ==
  /\ LockTypeOK
  /\ FlockExclusive
  /\ TokensDistinct
  /\ TokenLeftTmp
  /\ AtIt
  /\ HolderOwnsFlock
  /\ OneInode
  /\ HolderPublished

LEMMA InitLockIInv == LockInit => LockIInv
<1> SUFFICES ASSUME LockInit PROVE LockIInv
  OBVIOUS
<1>1. /\ json \in Files(0 .. minted \union {NoFile} \union Broken, Procs)
      /\ Consistent(json)
  BY StillFile DEF LockInit
<1>2. LockTypeOK
  BY <1>1, FileLockAssumption DEF LockInit, LockTypeOK, NoLeak, Stages, Holding
<1>3. AtIt
  BY DEF LockInit, AtIt, Still
<1> QED
  BY <1>2, <1>3 DEF LockInit, LockIInv, FlockExclusive, TokensDistinct,
      TokenLeftTmp, HolderOwnsFlock, OneInode, HolderPublished, Holding

\* Whoever is past its flock owns the flock of the one inode there is.
LEMMA InvMutualExclusion ==
  ASSUME Undisturbed, LockTypeOK, FlockExclusive, HolderOwnsFlock, OneInode
  PROVE  MutualExclusion
<1> SUFFICES ASSUME NEW p \in Procs, NEW q \in Procs,
                    stage[p] \in Holding, stage[q] \in Holding
             PROVE  p = q
  BY DEF MutualExclusion
<1>1. Mine(p) \in flocks /\ Mine(q) \in flocks
  BY DEF HolderOwnsFlock, Undisturbed
<1>2. file[Mine(p)] = 1 /\ file[Mine(q)] = 1
  BY <1>1 DEF LockTypeOK, OneInode, Undisturbed
<1>3. ProcessOf[p] = ProcessOf[q]
  BY <1>1, <1>2 DEF FlockExclusive, Mine
<1> QED BY <1>3 DEF Undisturbed, OneThreadEach

\* A descriptor stays remembered until a close with its number.
LEMMA NoLeakStep ==
  ASSUME LockTypeOK, [LockNext]_lockVars PROVE NoLeak'
<1> USE DEF NoLeak, LockTypeOK, Stages, Holding, Descriptors, Mine, Processes
<1>1. CASE ClearLockFile
  BY <1>1 DEF ClearLockFile, tokens
<1>2. ASSUME NEW p \in Procs, OpenLockFile(p) PROVE NoLeak'
  <2>1. PICK n \in Fds :
          /\ fd' = [fd EXCEPT ![p] = n]
          /\ file' = [file EXCEPT ![<<ProcessOf[p], n>>] = path']
    BY <1>2 DEF OpenLockFile
  <2>2. SUFFICES ASSUME NEW d \in Descriptors, file'[d] # 0
                 PROVE  \E q \in Procs : <<ProcessOf[q], fd'[q]>> = d
    OBVIOUS
  <2>3. CASE d = <<ProcessOf[p], n>>
    BY <2>1, <2>3
  <2>4. CASE d # <<ProcessOf[p], n>>
    <3>1. PICK q \in Procs : <<ProcessOf[q], fd[q]>> = d
      BY <2>1, <2>2, <2>4
    <3>2. q # p
      BY <1>2, <3>1, FileLockAssumption DEF OpenLockFile
    <3> QED BY <2>1, <3>1, <3>2
  <2> QED BY <2>3, <2>4
<1>3. ASSUME NEW p \in Procs, LockHeld(p) PROVE NoLeak'
  BY <1>3 DEF LockHeld, Close
<1>4. ASSUME NEW p \in Procs, Flock(p) PROVE NoLeak'
  BY <1>4 DEF Flock
<1>5. ASSUME NEW p \in Procs, OpenToken(p) \/ WriteToken(p) PROVE NoLeak'
  BY <1>5 DEF OpenToken, WriteToken, files
<1>6. ASSUME NEW p \in Procs, PublishToken(p) PROVE NoLeak'
  BY <1>6 DEF PublishToken, files
<1>7. ASSUME NEW p \in Procs, TokenWriteFails(p) PROVE NoLeak'
  BY <1>7 DEF TokenWriteFails, Close
<1>8. ASSUME NEW p \in Procs, CloseAgain(p) PROVE NoLeak'
  BY <1>8 DEF CloseAgain, Close, tokens
<1>9. ASSUME NEW p \in Procs, UnlinkJson(p) PROVE NoLeak'
  BY <1>9 DEF UnlinkJson, files
<1>10. ASSUME NEW p \in Procs, CloseFd(p) PROVE NoLeak'
  BY <1>10 DEF CloseFd, Close
<1>11. ASSUME NEW o \in Processes, LockDie(o) PROVE NoLeak'
  BY <1>11 DEF LockDie
<1>12. CASE UNCHANGED lockVars
  BY <1>12 DEF lockVars
<1> QED
  BY <1>1, <1>2, <1>3, <1>4, <1>5, <1>6, <1>7, <1>8, <1>9, <1>10, <1>11, <1>12
  DEF LockNext, LockStep

\* The token a writer writes into the JSON file.
LEMMA HeldToken ==
  ASSUME LockTypeOK, NEW p \in Procs
  PROVE  token[p] \in 0 .. minted /\ token[p] \notin {NoFile, Empty, Torn}
  BY FileLockAssumption DEF LockTypeOK

LEMMA JsonStep ==
  ASSUME LockTypeOK, [LockNext]_lockVars
  PROVE  /\ json' \in Files(0 .. minted' \union {NoFile} \union Broken, Procs)
         /\ Consistent(json')
<1> DEFINE C == 0 .. minted \union {NoFile} \union Broken
           Goal(f) == f \in Files(C, Procs) /\ Consistent(f)
<1>0. Goal(json) /\ Broken \subseteq C /\ NoFile \in C /\ minted \in Nat
  BY DEF LockTypeOK
<1>1. ASSUME NEW p \in Procs, OpenToken(p) PROVE Goal(json') /\ minted' = minted
  BY <1>0, <1>1, OpenedFile DEF OpenToken
<1>2. ASSUME NEW p \in Procs, WriteToken(p) PROVE Goal(json') /\ minted' = minted
  BY <1>0, <1>2, HeldToken, WrittenFile DEF WriteToken
<1>3. ASSUME NEW p \in Procs, PublishToken(p) PROVE Goal(json') /\ minted' = minted
  BY <1>0, <1>3, RenamedFile DEF PublishToken
<1>4. ASSUME NEW p \in Procs, TokenWriteFails(p) PROVE Goal(json') /\ minted' = minted
  BY <1>0, <1>4, HeldToken, FailedFile DEF TokenWriteFails
<1>5. ASSUME NEW p \in Procs, UnlinkJson(p) PROVE Goal(json') /\ minted' = minted
  BY <1>0, <1>5, UnlinkedFile DEF UnlinkJson
<1>6. ASSUME NEW o \in Processes, LockDie(o) PROVE Goal(json') /\ minted' = minted
  BY <1>0, <1>6, EndedFile DEF LockDie
<1>7. ASSUME NEW p \in Procs, Flock(p)
      PROVE  /\ json' \in Files(0 .. minted' \union {NoFile} \union Broken, Procs)
             /\ Consistent(json')
  <2>1. json' = json /\ minted' = minted + 1
    BY <1>7 DEF Flock
  <2>2. C \subseteq 0 .. minted' \union {NoFile} \union Broken
    BY <1>0, <2>1
  <2>3. json' \in Files(C, Procs)
    BY <1>0, <2>1
  <2> HIDE DEF C
  <2> QED BY <1>0, <2>1, <2>2, <2>3 DEF Files
<1>8. ASSUME NEW p \in Procs, OpenLockFile(p) \/ LockHeld(p) \/ CloseAgain(p) \/ CloseFd(p)
      PROVE  Goal(json') /\ minted' = minted
  BY <1>0, <1>8 DEF OpenLockFile, LockHeld, CloseAgain, CloseFd, tokens
<1>9. CASE ClearLockFile \/ UNCHANGED lockVars
  <2>1. Goal(json') /\ minted' = minted
    BY <1>0, <1>9 DEF ClearLockFile, tokens, lockVars
  <2> QED BY <2>1
<1> QED
  BY <1>1, <1>2, <1>3, <1>4, <1>5, <1>6, <1>7, <1>8, <1>9 DEF LockNext, LockStep

LEMMA TypeStep ==
  ASSUME LockTypeOK, NoLeak', [LockNext]_lockVars,
         json' \in Files(0 .. minted' \union {NoFile} \union Broken, Procs),
         Consistent(json')
  PROVE  LockTypeOK'
<1> USE DEF LockTypeOK, Stages, Holding, Descriptors, Mine, Processes
<1>1. CASE ClearLockFile
  BY <1>1 DEF ClearLockFile, tokens
<1>2. ASSUME NEW p \in Procs, OpenLockFile(p) PROVE LockTypeOK'
  <2>1. PICK n \in Fds :
          /\ file[<<ProcessOf[p], n>>] = 0
          /\ fd' = [fd EXCEPT ![p] = n]
          /\ file' = [file EXCEPT ![<<ProcessOf[p], n>>] = path']
    BY <1>2 DEF OpenLockFile
  <2>2. /\ path' \in Nat /\ inodes' \in Nat /\ path' <= inodes'
        /\ inodes <= inodes'
    BY <1>2 DEF OpenLockFile
  <2>3. /\ stage' = [stage EXCEPT ![p] = "opened"]
        /\ UNCHANGED <<flocks, token, minted, json>>
        /\ stage[p] = "out"
    BY <1>2 DEF OpenLockFile
  <2>4. file' \in [Descriptors -> Nat]
    BY <2>1, <2>2
  <2>5. \A d \in Descriptors : file'[d] <= inodes' /\ (d \in flocks' => file'[d] # 0)
    BY <2>1, <2>2, <2>3
  <2>6. \A q \in Procs :
          /\ token'[q] <= minted'
          /\ stage'[q] = "out" <=> fd'[q] = 0
          /\ stage'[q] \in Holding <=> token'[q] # 0
    BY <2>1, <2>3, FileLockAssumption
  <2> QED BY <2>1, <2>2, <2>3, <2>4, <2>5, <2>6
<1>3. ASSUME NEW p \in Procs, LockHeld(p) PROVE LockTypeOK'
  <2>1. stage[p] = "opened" /\ stage' = [stage EXCEPT ![p] = "refused"]
    BY <1>3 DEF LockHeld
  <2>2. UNCHANGED <<path, inodes, fd, token, minted, json>>
    BY <1>3 DEF LockHeld
  <2>3. /\ file' = [file EXCEPT ![<<ProcessOf[p], fd[p]>>] = 0]
        /\ flocks' = flocks \ {<<ProcessOf[p], fd[p]>>}
    BY <1>3 DEF LockHeld, Close
  <2>4. \A d \in Descriptors : file'[d] <= inodes' /\ (d \in flocks' => file'[d] # 0)
    BY <2>2, <2>3
  <2>5. \A q \in Procs :
          /\ token'[q] <= minted'
          /\ stage'[q] = "out" <=> fd'[q] = 0
          /\ stage'[q] \in Holding <=> token'[q] # 0
    BY <2>1, <2>2
  <2> QED BY <2>1, <2>2, <2>3, <2>4, <2>5
<1>4. ASSUME NEW p \in Procs, Flock(p) PROVE LockTypeOK'
  <2>1. Mine(p) \in Descriptors /\ file[Mine(p)] # 0
    BY <1>4, FileLockAssumption DEF Flock, Grantable
  <2> QED BY <1>4, <2>1 DEF Flock
<1>5. ASSUME NEW p \in Procs, OpenToken(p) \/ WriteToken(p) PROVE LockTypeOK'
  BY <1>5 DEF OpenToken, WriteToken, files
<1>6. ASSUME NEW p \in Procs, PublishToken(p) PROVE LockTypeOK'
  BY <1>6 DEF PublishToken, files
<1>7. ASSUME NEW p \in Procs, TokenWriteFails(p) PROVE LockTypeOK'
  <2>1. /\ stage[p] \in {"flocked", "staging", "staged"}
        /\ stage' = [stage EXCEPT ![p] = "refused"]
        /\ token' = [token EXCEPT ![p] = 0]
        /\ UNCHANGED <<path, inodes, fd, minted>>
    BY <1>7 DEF TokenWriteFails
  <2>3. /\ file' = [file EXCEPT ![<<ProcessOf[p], fd[p]>>] = 0]
        /\ flocks' = flocks \ {<<ProcessOf[p], fd[p]>>}
    BY <1>7 DEF TokenWriteFails, Close
  <2>4. \A d \in Descriptors : file'[d] <= inodes' /\ (d \in flocks' => file'[d] # 0)
    BY <2>1, <2>3
  <2>5. \A q \in Procs :
          /\ token'[q] <= minted'
          /\ stage'[q] = "out" <=> fd'[q] = 0
          /\ stage'[q] \in Holding <=> token'[q] # 0
    BY <2>1
  <2> QED BY <2>1, <2>3, <2>4, <2>5
<1>8. ASSUME NEW p \in Procs, CloseAgain(p) PROVE LockTypeOK'
  BY <1>8 DEF CloseAgain, Close, tokens
<1>9. ASSUME NEW p \in Procs, UnlinkJson(p) PROVE LockTypeOK'
  BY <1>9 DEF UnlinkJson, files
<1>10. ASSUME NEW p \in Procs, CloseFd(p) PROVE LockTypeOK'
  BY <1>10 DEF CloseFd, Close
<1>11. ASSUME NEW o \in Processes, LockDie(o) PROVE LockTypeOK'
  BY <1>11 DEF LockDie
<1>12. CASE UNCHANGED lockVars
  BY <1>12 DEF lockVars
<1> QED
  BY <1>1, <1>2, <1>3, <1>4, <1>5, <1>6, <1>7, <1>8, <1>9, <1>10, <1>11, <1>12
  DEF LockNext, LockStep

LEMMA FlockStep ==
  ASSUME LockTypeOK, FlockExclusive, [LockNext]_lockVars PROVE FlockExclusive'
<1> USE DEF FlockExclusive, Grantable, LockTypeOK, Stages, Holding, Descriptors, Mine, Processes
<1>1. CASE ClearLockFile
  BY <1>1 DEF ClearLockFile, tokens
<1>2. ASSUME NEW p \in Procs, OpenLockFile(p) PROVE FlockExclusive'
  BY <1>2 DEF OpenLockFile
<1>3. ASSUME NEW p \in Procs, LockHeld(p) PROVE FlockExclusive'
  BY <1>3 DEF LockHeld, Close
<1>4. ASSUME NEW p \in Procs, Flock(p) PROVE FlockExclusive'
  BY <1>4 DEF Flock
<1>5. ASSUME NEW p \in Procs, OpenToken(p) \/ WriteToken(p) PROVE FlockExclusive'
  BY <1>5 DEF OpenToken, WriteToken, files
<1>6. ASSUME NEW p \in Procs, PublishToken(p) PROVE FlockExclusive'
  BY <1>6 DEF PublishToken, files
<1>7. ASSUME NEW p \in Procs, TokenWriteFails(p) PROVE FlockExclusive'
  BY <1>7 DEF TokenWriteFails, Close
<1>8. ASSUME NEW p \in Procs, CloseAgain(p) PROVE FlockExclusive'
  BY <1>8 DEF CloseAgain, Close, tokens
<1>9. ASSUME NEW p \in Procs, UnlinkJson(p) PROVE FlockExclusive'
  BY <1>9 DEF UnlinkJson, files
<1>10. ASSUME NEW p \in Procs, CloseFd(p) PROVE FlockExclusive'
  BY <1>10 DEF CloseFd, Close
<1>11. ASSUME NEW o \in Processes, LockDie(o) PROVE FlockExclusive'
  BY <1>11 DEF LockDie
<1>12. CASE UNCHANGED lockVars
  BY <1>12 DEF lockVars
<1> QED
  BY <1>1, <1>2, <1>3, <1>4, <1>5, <1>6, <1>7, <1>8, <1>9, <1>10, <1>11, <1>12
  DEF LockNext, LockStep

LEMMA TokensStep ==
  ASSUME LockTypeOK, TokensDistinct, [LockNext]_lockVars PROVE TokensDistinct'
<1> USE DEF TokensDistinct, LockTypeOK, Stages, Holding, Descriptors, Mine, Processes
<1>1. CASE ClearLockFile
  BY <1>1 DEF ClearLockFile, tokens
<1>2. ASSUME NEW p \in Procs, OpenLockFile(p) PROVE TokensDistinct'
  BY <1>2 DEF OpenLockFile
<1>3. ASSUME NEW p \in Procs, LockHeld(p) PROVE TokensDistinct'
  BY <1>3 DEF LockHeld, Close
<1>4. ASSUME NEW p \in Procs, Flock(p) PROVE TokensDistinct'
  BY <1>4 DEF Flock
<1>5. ASSUME NEW p \in Procs, OpenToken(p) \/ WriteToken(p) PROVE TokensDistinct'
  BY <1>5 DEF OpenToken, WriteToken, files
<1>6. ASSUME NEW p \in Procs, PublishToken(p) PROVE TokensDistinct'
  BY <1>6 DEF PublishToken, files
<1>7. ASSUME NEW p \in Procs, TokenWriteFails(p) PROVE TokensDistinct'
  BY <1>7 DEF TokenWriteFails, Close
<1>8. ASSUME NEW p \in Procs, CloseAgain(p) PROVE TokensDistinct'
  BY <1>8 DEF CloseAgain, Close, tokens
<1>9. ASSUME NEW p \in Procs, UnlinkJson(p) PROVE TokensDistinct'
  BY <1>9 DEF UnlinkJson, files
<1>10. ASSUME NEW p \in Procs, CloseFd(p) PROVE TokensDistinct'
  BY <1>10 DEF CloseFd, Close
<1>11. ASSUME NEW o \in Processes, LockDie(o) PROVE TokensDistinct'
  BY <1>11 DEF LockDie
<1>12. CASE UNCHANGED lockVars
  BY <1>12 DEF lockVars
<1> QED
  BY <1>1, <1>2, <1>3, <1>4, <1>5, <1>6, <1>7, <1>8, <1>9, <1>10, <1>11, <1>12
  DEF LockNext, LockStep

LEMMA TmpStep ==
  ASSUME LockTypeOK, TokensDistinct, TokenLeftTmp, [LockNext]_lockVars PROVE TokenLeftTmp'
<1> SUFFICES ASSUME NEW p \in Procs, stage'[p] = "in" PROVE json'.tmp # token'[p]
  BY DEF TokenLeftTmp
<1> USE DEF LockTypeOK, Stages
<1> DEFINE C == 0 .. minted \union {NoFile} \union Broken
<1>0. /\ token[p] \in 0 .. minted /\ token[p] \notin {NoFile, Empty, Torn}
      /\ json \in Files(C, Procs) /\ Consistent(json) /\ Broken \subseteq C
      /\ stage[p] = "in" => json.tmp # token[p]
  BY HeldToken DEF TokenLeftTmp
<1>1. ASSUME NEW q \in Procs, OpenToken(q) PROVE json'.tmp # token'[p]
  BY <1>0, <1>1, OpenedFile DEF OpenToken
<1>2. ASSUME NEW q \in Procs, WriteToken(q) \/ TokenWriteFails(q)
      PROVE  json'.tmp # token'[p]
  <2>1. /\ stage[q] \in Holding /\ stage'[q] # "in" /\ p # q
        /\ stage[p] = "in" /\ token'[p] = token[p]
    BY <1>2 DEF WriteToken, TokenWriteFails, Holding
  <2>2. token[q] # token[p]
    BY <2>1 DEF TokensDistinct, Holding
  <2>3. token[q] \in C /\ token[q] # NoFile
    BY HeldToken
  <2>4. json'.tmp \in {json.tmp, token[q], Torn, NoFile}
    <3> HIDE DEF C
    <3>1. CASE WriteToken(q)
      BY <3>1, <1>0, <2>3, WrittenFile DEF WriteToken
    <3>2. CASE TokenWriteFails(q)
      BY <3>2, <1>0, <2>3, FailedFile DEF TokenWriteFails
    <3> QED BY <1>2, <3>1, <3>2
  <2> QED BY <1>0, <2>1, <2>2, <2>4
<1>3. ASSUME NEW q \in Procs, PublishToken(q) PROVE json'.tmp # token'[p]
  <2>1. json'.tmp = NoFile /\ token' = token
    <3> HIDE DEF C
    <3> QED BY <1>0, <1>3, RenamedFile DEF PublishToken
  <2> QED BY <1>0, <2>1
<1>4. ASSUME NEW q \in Procs, UnlinkJson(q) PROVE json'.tmp # token'[p]
  <2>1. json'.tmp = json.tmp /\ token' = token /\ stage[p] = "in"
    BY <1>0, <1>4, UnlinkedFile DEF UnlinkJson
  <2> QED BY <1>0, <2>1
<1>5. ASSUME NEW o \in Processes, LockDie(o) PROVE json'.tmp # token'[p]
  <2>1. json'.tmp \in {json.tmp, NoFile}
    <3> HIDE DEF C
    <3> QED BY <1>0, <1>5, EndedFile DEF LockDie
  <2>2. token'[p] = token[p] /\ stage[p] = "in"
    BY <1>5 DEF LockDie
  <2> QED BY <1>0, <2>1, <2>2
<1>6. ASSUME NEW q \in Procs, OpenLockFile(q) \/ LockHeld(q) \/ Flock(q)
      PROVE  json'.tmp # token'[p]
  BY <1>0, <1>6 DEF OpenLockFile, LockHeld, Flock
<1>7. ASSUME NEW q \in Procs, CloseAgain(q) \/ CloseFd(q)
      PROVE  json'.tmp # token'[p]
  BY <1>0, <1>7 DEF CloseAgain, CloseFd, tokens
<1>8. CASE ClearLockFile \/ UNCHANGED lockVars
  BY <1>0, <1>8 DEF ClearLockFile, tokens, lockVars
<1> QED
  BY <1>1, <1>2, <1>3, <1>4, <1>5, <1>6, <1>7, <1>8 DEF LockNext, LockStep

LEMMA AtItStep ==
  ASSUME LockTypeOK, AtIt, [LockNext]_lockVars PROVE AtIt'
<1> USE DEF LockTypeOK, Stages, AtIt
<1> DEFINE C == 0 .. minted \union {NoFile} \union Broken
<1>0. /\ json \in Files(C, Procs) /\ Consistent(json)
      /\ Broken \subseteq C /\ NoFile \in C
  OBVIOUS
<1>1. ASSUME NEW q \in Procs, OpenToken(q) PROVE AtIt'
  <2>1. json'.busy = json.busy \union {q}
    BY <1>0, <1>1, OpenedFile DEF OpenToken
  <2> QED BY <1>1, <2>1 DEF OpenToken
<1>2. ASSUME NEW q \in Procs, WriteToken(q) PROVE AtIt'
  <2>1. json'.busy = json.busy
    BY <1>0, <1>2, HeldToken, WrittenFile DEF WriteToken
  <2> QED BY <1>2, <2>1 DEF WriteToken
<1>3. ASSUME NEW q \in Procs, PublishToken(q) PROVE AtIt'
  <2>1. json'.busy = json.busy \ {q}
    BY <1>0, <1>3, RenamedFile DEF PublishToken
  <2> QED BY <1>3, <2>1 DEF PublishToken
<1>4. ASSUME NEW q \in Procs, TokenWriteFails(q) PROVE AtIt'
  <2>1. json'.busy = json.busy \ {q}
    BY <1>0, <1>4, HeldToken, FailedFile DEF TokenWriteFails
  <2> QED BY <1>4, <2>1 DEF TokenWriteFails
<1>5. ASSUME NEW q \in Procs, UnlinkJson(q) PROVE AtIt'
  <2>1. json'.busy = json.busy
    BY <1>0, <1>5, UnlinkedFile DEF UnlinkJson
  <2> QED BY <1>5, <2>1 DEF UnlinkJson
<1>6. ASSUME NEW o \in Processes, LockDie(o) PROVE AtIt'
  <2>1. json'.busy = json.busy \ {p \in Procs : ProcessOf[p] = o}
    BY <1>0, <1>6, EndedFile DEF LockDie
  <2>2. stage' = [p \in Procs |-> IF ProcessOf[p] = o THEN "out" ELSE stage[p]]
    BY <1>6 DEF LockDie
  <2> QED BY <2>1, <2>2
<1>7. ASSUME NEW q \in Procs, OpenLockFile(q) \/ LockHeld(q) \/ Flock(q) PROVE AtIt'
  BY <1>7 DEF OpenLockFile, LockHeld, Flock
<1>8. ASSUME NEW q \in Procs, CloseAgain(q) \/ CloseFd(q) PROVE AtIt'
  BY <1>8 DEF CloseAgain, CloseFd, tokens
<1>9. CASE ClearLockFile \/ UNCHANGED lockVars
  BY <1>9 DEF ClearLockFile, tokens, lockVars
<1> QED
  BY <1>1, <1>2, <1>3, <1>4, <1>5, <1>6, <1>7, <1>8, <1>9 DEF LockNext, LockStep

\* A close hits the descriptors of its own process only.
LEMMA OwnsStep ==
  ASSUME LockTypeOK, HolderOwnsFlock, [LockNext]_lockVars PROVE HolderOwnsFlock'
<1> USE DEF HolderOwnsFlock, OneThreadEach, LockTypeOK, Stages, Holding, Descriptors, Mine, Processes
<1>1. CASE ClearLockFile
  BY <1>1 DEF ClearLockFile, tokens
<1>2. ASSUME NEW p \in Procs, OpenLockFile(p) PROVE HolderOwnsFlock'
  BY <1>2 DEF OpenLockFile
<1>3. ASSUME NEW p \in Procs, LockHeld(p) PROVE HolderOwnsFlock'
  BY <1>3 DEF LockHeld, Close
<1>4. ASSUME NEW p \in Procs, Flock(p) PROVE HolderOwnsFlock'
  BY <1>4 DEF Flock
<1>5. ASSUME NEW p \in Procs, OpenToken(p) \/ WriteToken(p) PROVE HolderOwnsFlock'
  BY <1>5 DEF OpenToken, WriteToken, files
<1>6. ASSUME NEW p \in Procs, PublishToken(p) PROVE HolderOwnsFlock'
  BY <1>6 DEF PublishToken, files
<1>7. ASSUME NEW p \in Procs, TokenWriteFails(p) PROVE HolderOwnsFlock'
  BY <1>7 DEF TokenWriteFails, Close
<1>8. ASSUME NEW p \in Procs, CloseAgain(p) PROVE HolderOwnsFlock'
  BY <1>8 DEF CloseAgain, Close, tokens
<1>9. ASSUME NEW p \in Procs, UnlinkJson(p) PROVE HolderOwnsFlock'
  BY <1>9 DEF UnlinkJson, files
<1>10. ASSUME NEW p \in Procs, CloseFd(p) PROVE HolderOwnsFlock'
  BY <1>10 DEF CloseFd, Close
<1>11. ASSUME NEW o \in Processes, LockDie(o) PROVE HolderOwnsFlock'
  BY <1>11 DEF LockDie
<1>12. CASE UNCHANGED lockVars
  BY <1>12 DEF lockVars
<1> QED
  BY <1>1, <1>2, <1>3, <1>4, <1>5, <1>6, <1>7, <1>8, <1>9, <1>10, <1>11, <1>12
  DEF LockNext, LockStep

LEMMA OneInodeStep ==
  ASSUME LockTypeOK, OneInode, [LockNext]_lockVars PROVE OneInode'
<1> USE DEF OneInode, LockTypeOK, Stages, Holding, Descriptors, Mine, Processes
<1>1. CASE ClearLockFile
  BY <1>1 DEF ClearLockFile, tokens
<1>2. ASSUME NEW p \in Procs, OpenLockFile(p) PROVE OneInode'
  BY <1>2 DEF OpenLockFile
<1>3. ASSUME NEW p \in Procs, LockHeld(p) PROVE OneInode'
  BY <1>3 DEF LockHeld, Close
<1>4. ASSUME NEW p \in Procs, Flock(p) PROVE OneInode'
  BY <1>4 DEF Flock
<1>5. ASSUME NEW p \in Procs, OpenToken(p) \/ WriteToken(p) PROVE OneInode'
  BY <1>5 DEF OpenToken, WriteToken, files
<1>6. ASSUME NEW p \in Procs, PublishToken(p) PROVE OneInode'
  BY <1>6 DEF PublishToken, files
<1>7. ASSUME NEW p \in Procs, TokenWriteFails(p) PROVE OneInode'
  BY <1>7 DEF TokenWriteFails, Close
<1>8. ASSUME NEW p \in Procs, CloseAgain(p) PROVE OneInode'
  BY <1>8 DEF CloseAgain, Close, tokens
<1>9. ASSUME NEW p \in Procs, UnlinkJson(p) PROVE OneInode'
  BY <1>9 DEF UnlinkJson, files
<1>10. ASSUME NEW p \in Procs, CloseFd(p) PROVE OneInode'
  BY <1>10 DEF CloseFd, Close
<1>11. ASSUME NEW o \in Processes, LockDie(o) PROVE OneInode'
  BY <1>11 DEF LockDie
<1>12. CASE UNCHANGED lockVars
  BY <1>12 DEF lockVars
<1> QED
  BY <1>1, <1>2, <1>3, <1>4, <1>5, <1>6, <1>7, <1>8, <1>9, <1>10, <1>11, <1>12
  DEF LockNext, LockStep

\* Alone past its flock, a writer finds in the temporary what it wrote and
\* in the JSON file what it published.
LEMMA PublishedStep ==
  ASSUME LockTypeOK, AtIt, HolderPublished, [LockNext]_lockVars,
         Undisturbed => MutualExclusion
  PROVE  HolderPublished'
<1> DEFINE Published(p) ==
      /\ stage[p] = "staging" =>
           json.tmp = Empty /\ p \in json.onTmp /\ p \notin json.onAt
      /\ stage[p] = "staged" => json.tmp = token[p]
      /\ stage[p] = "in" => json.at = token[p]
<1> SUFFICES ASSUME Undisturbed, NEW p \in Procs PROVE Published(p)'
  BY DEF HolderPublished
<1> USE DEF LockTypeOK, Stages
<1> DEFINE C == 0 .. minted \union {NoFile} \union Broken
<1>0. /\ json \in Files(C, Procs) /\ Consistent(json)
      /\ Broken \subseteq C /\ NoFile \in C
      /\ token[p] \in C /\ token[p] # NoFile
      /\ Published(p)
      /\ MutualExclusion
  BY HeldToken DEF HolderPublished
\* Nobody else is in durable_replace with a holder.
<1>a. ASSUME NEW q \in Procs, stage[q] \in Holding, q # p
      PROVE  stage[p] \notin {"staging", "staged", "in"}
  BY <1>0, <1>a DEF MutualExclusion, Holding
<1>b. stage[p] = "flocked" => json.busy = {}
  BY <1>0 DEF MutualExclusion, AtIt, Holding
<1>c. stage[p] \in {"staging", "staged"} => p \in json.busy
  BY DEF AtIt
<1> HIDE DEF C
<1>1. ASSUME NEW q \in Procs, OpenToken(q) PROVE Published(p)'
  <2>1. CASE q # p
    BY <1>1, <1>a, <2>1 DEF OpenToken, Holding
  <2>2. CASE q = p
    <3>1. /\ json'.tmp = Empty /\ p \in json'.onTmp
          /\ json'.onAt = json.onAt /\ p \notin json.onAt
      BY <1>0, <1>1, <1>b, <2>2, OpenedFile DEF OpenToken, Consistent
    <3> QED BY <1>1, <2>2, <3>1 DEF OpenToken
  <2> QED BY <2>1, <2>2
<1>2. ASSUME NEW q \in Procs, WriteToken(q) PROVE Published(p)'
  <2>1. CASE q # p
    BY <1>2, <1>a, <2>1 DEF WriteToken, Holding
  <2>2. CASE q = p
    <3>1. json'.tmp = token[p]
      BY <1>0, <1>2, <2>2, WrittenFile DEF WriteToken
    <3> QED BY <1>2, <2>2, <3>1 DEF WriteToken
  <2> QED BY <2>1, <2>2
<1>3. ASSUME NEW q \in Procs, PublishToken(q) PROVE Published(p)'
  <2>1. CASE q # p
    BY <1>3, <1>a, <2>1 DEF PublishToken, Holding
  <2>2. CASE q = p
    <3>1. json'.at = token[p]
      BY <1>0, <1>3, <2>2, RenamedFile DEF PublishToken
    <3> QED BY <1>3, <2>2, <3>1 DEF PublishToken
  <2> QED BY <2>1, <2>2
<1>4. ASSUME NEW q \in Procs, TokenWriteFails(q) PROVE Published(p)'
  <2>1. CASE q # p
    BY <1>4, <1>a, <2>1 DEF TokenWriteFails, Holding
  <2>2. CASE q = p
    BY <1>4, <2>2 DEF TokenWriteFails
  <2> QED BY <2>1, <2>2
<1>5. ASSUME NEW q \in Procs, UnlinkJson(q) PROVE Published(p)'
  <2>1. CASE q # p
    BY <1>5, <1>a, <2>1 DEF UnlinkJson, Holding
  <2>2. CASE q = p
    BY <1>5, <2>2 DEF UnlinkJson
  <2> QED BY <2>1, <2>2
<1>6. ASSUME NEW o \in Processes, LockDie(o) PROVE Published(p)'
  <2>1. CASE ProcessOf[p] = o
    BY <1>6, <2>1 DEF LockDie
  <2>2. CASE ProcessOf[p] # o
    <3>1. stage'[p] = stage[p] /\ token'[p] = token[p]
      BY <1>6, <2>2 DEF LockDie
    <3>2. stage[p] \in {"staging", "staged"} => json'.tmp = json.tmp
      BY <1>0, <1>6, <1>c, <2>2, EndedFile DEF LockDie
    <3>3. /\ json'.at = json.at /\ json'.onAt \subseteq json.onAt
          /\ p \in json.onTmp => p \in json'.onTmp
      BY <1>0, <1>6, <2>2, EndedFile DEF LockDie
    <3> QED BY <1>0, <3>1, <3>2, <3>3
  <2> QED BY <2>1, <2>2
<1>7. ASSUME NEW q \in Procs, OpenLockFile(q) \/ LockHeld(q) \/ Flock(q)
      PROVE  Published(p)'
  BY <1>0, <1>7 DEF OpenLockFile, LockHeld, Flock
<1>8. ASSUME NEW q \in Procs, CloseAgain(q) \/ CloseFd(q) PROVE Published(p)'
  BY <1>0, <1>8 DEF CloseAgain, CloseFd, tokens
<1>9. CASE ClearLockFile \/ UNCHANGED lockVars
  BY <1>0, <1>9 DEF ClearLockFile, tokens, lockVars
<1> QED
  BY <1>1, <1>2, <1>3, <1>4, <1>5, <1>6, <1>7, <1>8, <1>9 DEF LockNext, LockStep

LEMMA LockIInvStep == LockIInv /\ [LockNext]_lockVars => LockIInv'
<1> SUFFICES ASSUME LockIInv, [LockNext]_lockVars PROVE LockIInv'
  OBVIOUS
<1> USE DEF LockIInv
<1>1. LockTypeOK'
  BY NoLeakStep, JsonStep, TypeStep
<1>2. FlockExclusive' /\ TokensDistinct' /\ TokenLeftTmp' /\ AtIt'
  BY FlockStep, TokensStep, TmpStep, AtItStep
<1>3. HolderOwnsFlock' /\ OneInode'
  BY OwnsStep, OneInodeStep
<1>4. HolderPublished'
  BY PublishedStep, InvMutualExclusion
<1> QED BY <1>1, <1>2, <1>3, <1>4

LEMMA LockIInvHolds == LockSpec => []LockIInv
  BY InitLockIInv, LockIInvStep, PTL DEF LockSpec

\* The state of the lock is well formed, and a descriptor or a token is
\* never left behind by a path out of with_card_write_lock.
THEOREM LockTypes == LockSpec => []LockTypeOK
<1>1. LockIInv => LockTypeOK
  BY DEF LockIInv
<1> QED BY <1>1, LockIInvHolds, PTL

\* with_card_write_lock excludes, for any number of writers, as long as nobody
\* removes the lock file and each writer is a process of its own.
THEOREM LockExcludes == ASSUME Undisturbed PROVE LockSpec => []MutualExclusion
<1>1. LockIInv => MutualExclusion
  BY InvMutualExclusion DEF LockIInv
<1> QED BY <1>1, LockIInvHolds, PTL

\* A holder nobody displaced always passes verify_fencing_token.
THEOREM HolderIsFenced == ASSUME Undisturbed PROVE LockSpec => []HolderKeepsFence
<1>1. LockIInv => HolderKeepsFence
  BY DEF LockIInv, HolderPublished, HolderKeepsFence, Fence, LockTypeOK, Holding
<1> QED BY <1>1, LockIInvHolds, PTL

\* A token that is not in the JSON file any more, and not in its temporary,
\* does not come back into it.
LEMMA FenceStep ==
  ASSUME LockIInv, [LockNext]_lockVars, NEW p \in Procs,
         stage[p] = "in", stage'[p] = "in", ~Fence(p)
  PROVE  ~Fence(p)'
<1> DEFINE C == 0 .. minted \union {NoFile} \union Broken
<1>0. /\ LockTypeOK /\ json \in Files(C, Procs) /\ Consistent(json)
      /\ Broken \subseteq C /\ NoFile \in C
      /\ token[p] # 0 /\ token[p] \notin {NoFile, Empty, Torn}
      /\ json.at # token[p] /\ json.tmp # token[p]
  BY HeldToken DEF LockIInv, LockTypeOK, TokenLeftTmp, Holding, Fence
<1> SUFFICES json'.at \in {json.at, json.tmp, NoFile, Torn}
                            \union {token[q] : q \in {r \in Procs \ {p} : stage[r] \in Holding}}
                   /\ token'[p] = token[p]
  <2>1. ASSUME NEW q \in Procs \ {p}, stage[q] \in Holding PROVE token[q] # token[p]
    BY <2>1 DEF LockIInv, TokensDistinct, Holding
  <2> QED BY <1>0, <2>1 DEF Fence
<1> USE <1>0 DEF LockTypeOK, Stages
<1> HIDE DEF C
<1>1. ASSUME NEW q \in Procs, OpenToken(q)
      PROVE  json'.at = json.at /\ token'[p] = token[p]
  BY <1>1, OpenedFile DEF OpenToken
<1>2. ASSUME NEW q \in Procs, WriteToken(q) \/ TokenWriteFails(q)
      PROVE  /\ json'.at \in {json.at, token[q], Torn} /\ token'[p] = token[p]
             /\ q # p /\ stage[q] \in Holding
  <2>1. q # p /\ stage[q] \in Holding /\ token'[p] = token[p]
    BY <1>2 DEF WriteToken, TokenWriteFails, Holding
  <2>2. token[q] \in C /\ token[q] # NoFile
    BY HeldToken DEF C
  <2>3. CASE WriteToken(q)
    BY <2>1, <2>2, <2>3, WrittenFile DEF WriteToken
  <2>4. CASE TokenWriteFails(q)
    BY <2>1, <2>2, <2>4, FailedFile DEF TokenWriteFails
  <2> QED BY <1>2, <2>3, <2>4
<1>3. ASSUME NEW q \in Procs, PublishToken(q)
      PROVE  json'.at = json.tmp /\ token'[p] = token[p]
  BY <1>3, RenamedFile DEF PublishToken
<1>4. ASSUME NEW q \in Procs, UnlinkJson(q)
      PROVE  json'.at \in {json.at, NoFile} /\ token'[p] = token[p]
  BY <1>4, UnlinkedFile DEF UnlinkJson
<1>5. ASSUME NEW o \in Processes, LockDie(o)
      PROVE  json'.at = json.at /\ token'[p] = token[p]
  BY <1>5, EndedFile DEF LockDie
<1>6. ASSUME NEW q \in Procs, OpenLockFile(q) \/ LockHeld(q) \/ Flock(q)
      PROVE  json'.at = json.at /\ token'[p] = token[p]
  BY <1>6 DEF OpenLockFile, LockHeld, Flock
<1>7. ASSUME NEW q \in Procs, CloseAgain(q) \/ CloseFd(q)
      PROVE  json'.at = json.at /\ token'[p] = token[p]
  BY <1>7 DEF CloseAgain, CloseFd, tokens
<1>8. CASE ClearLockFile \/ UNCHANGED lockVars
  BY <1>8 DEF ClearLockFile, tokens, lockVars
<1> QED
  BY <1>1, <1>2, <1>3, <1>4, <1>5, <1>6, <1>7, <1>8 DEF LockNext, LockStep

\* A failed check stays failed, whether or not the lock file is removed.
THEOREM FenceStaysLost == LockSpec => FenceNeverReturns
<1> DEFINE StaysLost ==
      \A p \in Procs :
        stage[p] = "in" /\ ~Fence(p) /\ stage'[p] = "in" => ~Fence(p)'
<1>1. LockIInv /\ [LockNext]_lockVars => [StaysLost]_lockVars
  BY FenceStep
<1> QED BY <1>1, LockIInvHolds, PTL DEF LockSpec, FenceNeverReturns
=============================================================================
