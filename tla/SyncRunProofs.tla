--------------------------- MODULE SyncRunProofs ---------------------------
(***************************************************************************)
(* Proofs about SyncRun, for every number of processes and bookmarks, in   *)
(* every mixture of modes.                                                 *)
(***************************************************************************)
EXTENDS SyncRun, WellFoundedInduction, TLAPS

\* Bookmarks are numbered, so there is a newest one in todo.
LEMMA MaxIsIn ==
  ASSUME NEW k \in Nat, NEW S \in SUBSET (1..k), S # {}
  PROVE  Max(S) \in S /\ \A x \in S : x <= Max(S)
<1> DEFINE T == {k - x : x \in S}
<1>1. T \subseteq Nat /\ T # {}
  <2>1. \A x \in S : k - x \in Nat
    OBVIOUS
  <2> QED BY <2>1
<1> DEFINE Less == {p \in Nat \X Nat : p[1] < p[2]}
<1>a. IsWellFoundedOn(Less, Nat)
  BY NatLessThanWellFounded DEF OpToRel
<1> HIDE DEF T, Less
<1>2. PICK m \in T : \A t \in T : ~(<<t, m>> \in Less)
  BY <1>1, <1>a, WFMin
<1> USE DEF T, Less
<1>3. ASSUME NEW t \in T PROVE m <= t
  <2>1. m \in Nat /\ t \in Nat
    BY <1>1
  <2>2. <<t, m>> \notin Less
    BY <1>2
  <2>3. ~(t < m)
    BY <2>1, <2>2
  <2> QED BY <2>1, <2>3
<1>4. PICK x \in S : m = k - x
  BY <1>2
<1>5. \A y \in S : x >= y
  <2> SUFFICES ASSUME NEW y \in S PROVE x >= y
    OBVIOUS
  <2>1. x \in Int /\ y \in Int
    OBVIOUS
  <2>2. k - x <= k - y
    <3>1. k - y \in T
      OBVIOUS
    <3> QED BY <1>3, <1>4, <3>1
  <2> HIDE DEF T, Less
  <2> QED BY <2>1, <2>2
<1>6. Max(S) \in S /\ \A y \in S : Max(S) >= y
  BY <1>5 DEF Max
<1> QED
  <2>1. \A y \in S : y \in Int
    OBVIOUS
  <2> QED BY <1>6, <2>1

-----------------------------------------------------------------------------
\* What each step does to the run that takes it.

\* Only the run of s goes on, and it has its types.
Only(s) ==
  /\ pc' \in [Syncs -> Pcs] /\ run' \in [Syncs -> Runs]
  /\ \A u \in Syncs \ {s} : pc'[u] = pc[u] /\ run'[u] = run[u]

LEMMA RunType ==
  ASSUME SyncTypeOK, NEW s \in Syncs
  PROVE  /\ feed \in Nat /\ MaxFeed \in Nat /\ feed <= MaxFeed
         /\ pc \in [Syncs -> Pcs] /\ run \in [Syncs -> Runs] /\ run[s] \in Runs
         /\ run[s].mode \in Modes \union {"none"} /\ run[s].known \subseteq Bookmarks
         /\ run[s].bounded \in BOOLEAN
         /\ run[s].fetched \in 0..feed /\ run[s].todo \subseteq 1..run[s].fetched
         /\ run[s].wrote \in BOOLEAN /\ run[s].failed \in BOOLEAN
         /\ run[s].status \in Statuses
         /\ 1..feed \subseteq Bookmarks /\ saved \subseteq Bookmarks
  BY SyncAssumption DEF SyncTypeOK, Runs, Bookmarks

LEMMA TurnType ==
  ASSUME SyncTypeOK, NEW s \in Syncs, run[s].todo # {}
  PROVE  /\ Turn(s) \in run[s].todo /\ Turn(s) \in 1..feed /\ Turn(s) \in Bookmarks
         /\ \A b \in run[s].todo : b <= Turn(s)
<1>1. run[s].fetched \in Nat /\ run[s].todo \in SUBSET (1..run[s].fetched)
  BY RunType
<1>2. Turn(s) \in run[s].todo /\ \A b \in run[s].todo : b <= Turn(s)
  BY <1>1, MaxIsIn DEF Turn
<1> QED BY <1>2, RunType

\* A run begins, or is forgotten.
Resets(s, where, mode) ==
  /\ Only(s) /\ pc'[s] = where
  /\ \E bounded \in BOOLEAN, known \in SUBSET saved : run'[s] = NewRun(mode, bounded, known)
  /\ UNCHANGED <<feed, saved>>

LEMMA Restarts ==
  ASSUME SyncTypeOK, NEW s \in Syncs, NEW where \in Pcs, NEW mode \in Modes \union {"none"},
         NEW bounded \in BOOLEAN, NEW known \in SUBSET saved, Goto(s, where),
         run' = [run EXCEPT ![s] = NewRun(mode, bounded, known)], UNCHANGED <<feed, saved>>
  PROVE  Resets(s, where, mode)
<1>1. known \subseteq Bookmarks /\ 0 \in 0..MaxFeed
  BY RunType
<1>2. NewRun(mode, bounded, known) \in Runs
  BY <1>1 DEF NewRun, Runs, Statuses
<1> QED BY <1>2, RunType DEF Resets, Only, Goto

LEMMA FetchEffect ==
  ASSUME SyncTypeOK, NEW s \in Syncs, Fetch(s)
  PROVE  LET todo == Gathered(run[s], feed) IN
         /\ Only(s)
         /\ todo \subseteq 1..feed
         /\ run'[s].known = {} /\ run'[s].fetched = feed /\ run'[s].todo = todo
         /\ run'[s].mode = run[s].mode /\ run'[s].bounded = run[s].bounded
         /\ run'[s].failed = run[s].failed /\ run'[s].wrote = run[s].wrote
         /\ run'[s].status = IF todo = {} THEN "empty" ELSE "none"
         /\ pc'[s] = IF todo = {} THEN "done" ELSE "write"
<1> DEFINE todo == Gathered(run[s], feed)
<1>1. todo \subseteq 1..feed
  BY DEF Gathered, Reach
<1>2. todo \subseteq Bookmarks /\ feed \in 0..MaxFeed
  BY <1>1, RunType DEF SyncTypeOK
<1> HIDE DEF todo
<1>3. run' = [run EXCEPT ![s] = [run[s] EXCEPT !.known = {}, !.fetched = feed, !.todo = todo,
                                   !.status = IF todo = {} THEN "empty" ELSE "none"]]
  BY RunType DEF Fetch, todo
<1>4. [run[s] EXCEPT !.known = {}, !.fetched = feed, !.todo = todo,
                     !.status = IF todo = {} THEN "empty" ELSE "none"] \in Runs
  BY <1>2, RunType DEF Runs, Statuses
<1>5. Only(s) /\ pc'[s] = IF todo = {} THEN "done" ELSE "write"
  <2>1. pc' = [pc EXCEPT ![s] = IF todo = {} THEN "done" ELSE "write"]
    BY DEF Fetch, Goto, todo
  <2>2. run' \in [Syncs -> Runs] /\ \A u \in Syncs \ {s} : run'[u] = run[u]
    BY <1>3, <1>4, RunType
  <2>3. (IF todo = {} THEN "done" ELSE "write") \in Pcs
    BY DEF Pcs
  <2> QED BY <2>1, <2>2, <2>3, RunType DEF Only
<1>6. run'[s] = [run[s] EXCEPT !.known = {}, !.fetched = feed, !.todo = todo,
                               !.status = IF todo = {} THEN "empty" ELSE "none"]
  BY <1>3, RunType
<1>7. /\ run'[s].known = {} /\ run'[s].fetched = feed /\ run'[s].todo = todo
      /\ run'[s].mode = run[s].mode /\ run'[s].bounded = run[s].bounded
      /\ run'[s].failed = run[s].failed /\ run'[s].wrote = run[s].wrote
      /\ run'[s].status = IF todo = {} THEN "empty" ELSE "none"
  BY <1>6, RunType DEF Runs
<1> QED BY <1>1, <1>5, <1>7 DEF todo

\* The run is over.
LEMMA FinishEffect ==
  ASSUME SyncTypeOK, NEW s \in Syncs, NEW status \in Statuses, Finish(s, status)
  PROVE  /\ Only(s) /\ pc'[s] = "done"
         /\ run'[s] = [run[s] EXCEPT !.status = status]
  BY RunType DEF Finish, Goto, Only, Pcs, Runs

LEMMA SaveEffect ==
  ASSUME SyncTypeOK, NEW s \in Syncs, Save(s)
  PROVE  /\ Only(s) /\ pc'[s] = "record"
         /\ \E f \in {run[s].failed, TRUE} : run'[s] = [run[s] EXCEPT !.failed = f]
<1>1. PICK f \in {run[s].failed, TRUE} : run' = [run EXCEPT ![s].failed = f]
  BY DEF Save
<1>2. f \in BOOLEAN
  BY RunType
<1>3. [run[s] EXCEPT !.failed = f] \in Runs
  BY <1>2, RunType DEF Runs
<1>4. run' = [run EXCEPT ![s] = [run[s] EXCEPT !.failed = f]]
  BY <1>1, RunType
<1>5. /\ run' \in [Syncs -> Runs] /\ run'[s] = [run[s] EXCEPT !.failed = f]
      /\ \A u \in Syncs \ {s} : run'[u] = run[u]
  BY <1>3, <1>4, RunType
<1>6. pc' = [pc EXCEPT ![s] = "record"] /\ "record" \in Pcs
  BY DEF Save, Goto, Pcs
<1> QED BY <1>5, <1>6, RunType DEF Only

LEMMA PassedEffect ==
  ASSUME SyncTypeOK, NEW s \in Syncs, NEW wrote \in BOOLEAN, NEW failures \in SUBSET BOOLEAN,
         Passed(s, wrote, failures), pc' \in [Syncs -> Pcs],
         \A u \in Syncs \ {s} : pc'[u] = pc[u]
  PROVE  /\ Only(s)
         /\ run'[s].todo = run[s].todo \ {Turn(s)}
         /\ run'[s].failed \in failures
         /\ run'[s].mode = run[s].mode /\ run'[s].bounded = run[s].bounded
         /\ run'[s].known = run[s].known
         /\ run'[s].fetched = run[s].fetched /\ run'[s].status = run[s].status
<1>1. PICK f \in failures :
        run' = [run EXCEPT ![s].todo = @ \ {Turn(s)}, ![s].wrote = @ \/ wrote,
                           ![s].failed = f]
  BY DEF Passed
<1> DEFINE r == [run[s] EXCEPT !.todo = @ \ {Turn(s)}, !.wrote = @ \/ wrote, !.failed = f]
<1>2. r \in Runs
  BY <1>1, RunType DEF Runs
<1>3. run' = [run EXCEPT ![s] = r]
  BY <1>1, RunType
<1>4. run'[s] = r /\ run' \in [Syncs -> Runs] /\ \A u \in Syncs \ {s} : run'[u] = run[u]
  BY <1>2, <1>3, RunType
<1> QED BY <1>4, RunType DEF Only, Runs
-----------------------------------------------------------------------------
\* The invariant.

Works(s) == pc[s] \in {"write", "record"}
Owing(b) == \E u \in Syncs : Works(u) /\ b \in run[u].todo

KnownIsSaved == \A s \in Syncs : run[s].known \subseteq saved

\* What a run has saved and not recorded yet is nobody else's.
RecordsAreOwn ==
  \A s \in Syncs : pc[s] = "record" =>
    /\ Turn(s) \in saved
    /\ \A r \in checkpoint \union archived : r[1] # Turn(s)
    /\ \A u \in Syncs \ {s} : pc[u] = "record" => Turn(u) # Turn(s)

BacklogIsHeld ==
  \A s \in Syncs :
    run[s].mode = "backlog" /\ Works(s) /\ ~run[s].failed =>
      Reach(run[s], run[s].fetched) \subseteq saved \union run[s].todo

\* Whatever a run at work was shown is saved or owed, by it or by another.
FetchedIsOwed ==
  ~mishap => \A s \in Syncs : Works(s) =>
    \A b \in 1..run[s].fetched : b \in saved \/ Owing(b)

SyncIInv ==
  /\ SyncTypeOK /\ KnownIsSaved
  /\ RecordsAreOwn /\ CommitsHaveCards
  /\ BacklogIsHeld /\ BacklogComplete
  /\ FetchedIsOwed /\ GapsAreOwed

LEMMA InitIInv == SyncInit => SyncIInv
<1> SUFFICES ASSUME SyncInit PROVE SyncIInv
  OBVIOUS
<1> USE SyncAssumption DEF SyncInit, NoRun, NewRun
<1>1. \A s \in Syncs :
        /\ pc[s] = "idle" /\ run[s].known = {} /\ run[s].todo = {} /\ run[s].fetched = 0
        /\ run[s].status = "none"
  OBVIOUS
<1>a. NoRun \in Runs /\ "idle" \in Pcs
  BY DEF Runs, Pcs, Statuses
<1>2. run \in [Syncs -> Runs] /\ pc \in [Syncs -> Pcs]
  BY <1>a
<1>3. SyncTypeOK
  <2>1. feed \in 0..MaxFeed /\ saved \subseteq 1..feed /\ feed = 0
    OBVIOUS
  <2>2. \A s \in Syncs :
          /\ run[s].fetched <= feed /\ run[s].todo \subseteq 1..run[s].fetched
          /\ pc[s] = "record" => run[s].todo # {}
          /\ pc[s] = "done" <=> run[s].status # "none"
    BY <1>1, <2>1
  <2>3. checkpoint \subseteq Records /\ archived \subseteq Records /\ mishap \in BOOLEAN
    OBVIOUS
  <2> QED BY <1>2, <2>1, <2>2, <2>3 DEF SyncTypeOK
<1>4. KnownIsSaved /\ RecordsAreOwn /\ BacklogIsHeld /\ BacklogComplete /\ FetchedIsOwed
  <2>1. \A s \in Syncs : ~Works(s) /\ ~Clean(s) /\ pc[s] # "record"
    BY <1>1 DEF Works, Clean
  <2> QED BY <1>1, <2>1 DEF KnownIsSaved, RecordsAreOwn, BacklogIsHeld, BacklogComplete,
                            FetchedIsOwed
<1>5. CommitsHaveCards /\ GapsAreOwed
  BY DEF CommitsHaveCards, GapsAreOwed
<1> QED BY <1>3, <1>4, <1>5 DEF SyncIInv

-----------------------------------------------------------------------------
\* What a step of one run has to show for each part of the invariant.

LEMMA TypeStep ==
  ASSUME SyncTypeOK, NEW s \in Syncs, Only(s), feed' = feed, saved' \subseteq 1..feed,
         checkpoint' \subseteq Records, archived' \subseteq Records, mishap' \in BOOLEAN,
         run'[s].fetched <= feed, run'[s].todo \subseteq 1..run'[s].fetched,
         pc'[s] = "record" => run'[s].todo # {},
         pc'[s] = "done" <=> run'[s].status # "none"
  PROVE  SyncTypeOK'
  BY DEF SyncTypeOK, Only

LEMMA BacklogStep ==
  ASSUME SyncIInv, NEW s \in Syncs, Only(s), saved \subseteq saved',
         run'[s].known \subseteq saved',
         run'[s].mode = "backlog" /\ pc'[s] \in {"write", "record"} /\ ~run'[s].failed =>
           Reach(run'[s], run'[s].fetched) \subseteq saved' \union run'[s].todo,
         run'[s].mode = "backlog" /\ pc'[s] = "done" /\ run'[s].status \in {"ok", "empty"} =>
           Reach(run'[s], run'[s].fetched) \subseteq saved'
  PROVE  KnownIsSaved' /\ BacklogIsHeld' /\ BacklogComplete'
<1>1. KnownIsSaved'
  BY DEF SyncIInv, KnownIsSaved, Only
<1>2. BacklogIsHeld'
  BY DEF SyncIInv, BacklogIsHeld, Only, Works
<1>3. BacklogComplete'
  BY DEF SyncIInv, BacklogComplete, Only, Clean
<1> QED BY <1>1, <1>2, <1>3

LEMMA RecordsStep ==
  ASSUME SyncIInv, NEW s \in Syncs, Only(s), saved \subseteq saved', pc'[s] # "record",
         checkpoint' \union archived' = checkpoint \union archived,
         checkpoint' \intersect archived' = {}
  PROVE  RecordsAreOwn' /\ CommitsHaveCards'
<1>1. \A u \in Syncs \ {s} : Turn(u)' = Turn(u)
  BY DEF Only, Turn
<1>2. RecordsAreOwn'
  BY <1>1 DEF SyncIInv, RecordsAreOwn, Only
<1>3. CommitsHaveCards'
  BY DEF SyncIInv, CommitsHaveCards
<1> QED BY <1>2, <1>3

LEMMA OwedStep ==
  ASSUME SyncIInv, NEW s \in Syncs, Only(s), feed' = feed, saved \subseteq saved',
         ~mishap' => ~mishap,
         ~mishap' /\ Works(s) => \A b \in run[s].todo :
           b \in saved' \/ (pc'[s] \in {"write", "record"} /\ b \in run'[s].todo),
         ~mishap' /\ pc'[s] \in {"write", "record"} => \A b \in 1..run'[s].fetched :
           b \in saved \/ Owing(b) \/ b \in run'[s].todo,
         ~mishap' => \A c \in saved' \ saved : \A b \in 1..feed :
           b < c => b \in saved \/ Owing(b)
  PROVE  FetchedIsOwed' /\ GapsAreOwed'
<1> SUFFICES ASSUME ~mishap' PROVE FetchedIsOwed' /\ GapsAreOwed'
  BY DEF FetchedIsOwed, GapsAreOwed
<1>1. ASSUME NEW b, Owing(b) PROVE b \in saved' \/ Owing(b)'
  <2>1. PICK u \in Syncs : Works(u) /\ b \in run[u].todo
    BY <1>1 DEF Owing
  <2>2. CASE u = s
    BY <2>1, <2>2 DEF Owing, Works
  <2>3. CASE u # s
    BY <2>1, <2>3 DEF Only, Owing, Works
  <2> QED BY <2>2, <2>3
<1>2. FetchedIsOwed'
  <2>1. ASSUME NEW u \in Syncs, Works(u)', NEW b \in 1..run'[u].fetched
        PROVE  b \in saved' \/ Owing(b)'
    <3>1. CASE u = s
      BY <1>1, <2>1, <3>1 DEF Owing, Works
    <3>2. CASE u # s
      <4>1. Works(u) /\ run'[u] = run[u]
        BY <2>1, <3>2 DEF Only, Works
      <4>2. b \in saved \/ Owing(b)
        BY <2>1, <4>1 DEF SyncIInv, FetchedIsOwed
      <4> QED BY <1>1, <4>2
    <3> QED BY <3>1, <3>2
  <2> QED BY <2>1 DEF FetchedIsOwed
<1>3. GapsAreOwed'
  <2>1. ASSUME NEW b \in 1..feed, NEW c \in saved', b < c PROVE b \in saved' \/ Owing(b)'
    <3>1. b \in saved \/ Owing(b)
      BY <2>1 DEF SyncIInv, GapsAreOwed, Owing, Works
    <3> QED BY <1>1, <3>1
  <2> QED BY <2>1 DEF GapsAreOwed, Owing, Works
<1> QED BY <1>2, <1>3
-----------------------------------------------------------------------------
\* Each step keeps the invariant.

LEMMA ResetInv ==
  ASSUME SyncIInv, NEW s \in Syncs, NEW where \in {"idle", "fetch"},
         NEW mode \in Modes \union {"none"}, Resets(s, where, mode),
         checkpoint' \union archived' = checkpoint \union archived,
         checkpoint' \intersect archived' = {},
         mishap' \in BOOLEAN, mishap => mishap',
         ~mishap' /\ Works(s) => run[s].todo = {}
  PROVE  SyncIInv'
<1> PICK bounded \in BOOLEAN, known \in SUBSET saved : run'[s] = NewRun(mode, bounded, known)
  BY DEF Resets
<1>1. /\ run'[s].known = known /\ run'[s].fetched = 0 /\ run'[s].todo = {}
      /\ run'[s].status = "none" /\ run'[s].mode = mode
  BY DEF NewRun
<1>2. Only(s) /\ pc'[s] = where /\ feed' = feed /\ saved' = saved
  BY DEF Resets
<1>3. SyncTypeOK
  BY DEF SyncIInv
<1>4. checkpoint' \subseteq Records /\ archived' \subseteq Records
  BY <1>3 DEF SyncTypeOK
<1>5. saved' \subseteq 1..feed /\ 0 <= feed
  BY <1>2, <1>3, RunType DEF SyncTypeOK
<1>6. SyncTypeOK'
  BY <1>1, <1>2, <1>3, <1>4, <1>5, TypeStep
<1>7. KnownIsSaved' /\ BacklogIsHeld' /\ BacklogComplete'
  BY <1>1, <1>2, BacklogStep
<1>8. RecordsAreOwn' /\ CommitsHaveCards'
  BY <1>1, <1>2, RecordsStep
<1>9. FetchedIsOwed' /\ GapsAreOwed'
  BY <1>1, <1>2, OwedStep
<1> QED BY <1>6, <1>7, <1>8, <1>9 DEF SyncIInv

\* Stopping early leaves out only what is owed.
LEMMA GatheredOrOwed ==
  ASSUME SyncIInv, ~mishap, NEW s \in Syncs, NEW b \in 1..feed,
         1..feed \subseteq Reach(run[s], feed) \union run[s].known,
         run[s].mode # "retry-failed"
  PROVE  b \in saved \/ Owing(b) \/ b \in Gathered(run[s], feed)
<1>0. SyncTypeOK /\ run[s].known \subseteq saved /\ feed \in Nat
  BY RunType DEF SyncIInv, KnownIsSaved
<1> SUFFICES ASSUME b \notin saved, b \notin Gathered(run[s], feed)
             PROVE  Owing(b)
  OBVIOUS
<1>1. b \in Reach(run[s], feed) \ run[s].known
  BY <1>0
<1>2. PICK c \in Reach(run[s], feed) : b < c /\ StopsAt(run[s].known, feed, c)
  BY <1>1 DEF Gathered
<1>3. c \in 1..feed
  BY <1>2 DEF Reach
<1>4. c \in c..(c + CaughtUp - 1)
  BY <1>0, <1>3, SyncAssumption
<1>5. c \in saved
  BY <1>0, <1>2, <1>4 DEF StopsAt
<1> QED BY <1>2, <1>5 DEF SyncIInv, GapsAreOwed, Owing, Works

LEMMA FetchInv ==
  ASSUME SyncIInv, NEW s \in Syncs, Fetch(s) PROVE SyncIInv'
<1> DEFINE todo == Gathered(run[s], feed)
<1>0. SyncTypeOK /\ run[s].known \subseteq saved
  BY DEF SyncIInv, KnownIsSaved
<1>1. /\ Only(s) /\ todo \subseteq 1..feed
      /\ run'[s].known = {} /\ run'[s].fetched = feed /\ run'[s].todo = todo
      /\ run'[s].mode = run[s].mode /\ run'[s].bounded = run[s].bounded
      /\ run'[s].status = IF todo = {} THEN "empty" ELSE "none"
      /\ pc'[s] = IF todo = {} THEN "done" ELSE "write"
  BY <1>0, FetchEffect
<1>2. /\ pc[s] = "fetch"
      /\ feed' = feed /\ saved' = saved /\ checkpoint' = checkpoint /\ archived' = archived
      /\ mishap' = (mishap \/ ~(1..feed \subseteq
                                  Reach(run[s], feed) \union run[s].known))
  BY DEF Fetch
<1>3. run[s].mode = "backlog" => Reach(run'[s], feed) \subseteq saved \union todo
  BY <1>0, <1>1 DEF Gathered, Reach, Incremental
<1>4. run[s].mode = "retry-failed" => todo = {}
  BY DEF Gathered
<1>5. ~mishap' /\ todo # {} => \A b \in 1..feed : b \in saved \/ Owing(b) \/ b \in todo
  BY <1>2, <1>4, GatheredOrOwed
<1> HIDE DEF todo
<1>6. SyncTypeOK'
  <2>1. checkpoint' \subseteq Records /\ archived' \subseteq Records /\ mishap' \in BOOLEAN
        /\ saved' \subseteq 1..feed /\ feed <= feed
    BY <1>0, <1>2, RunType DEF SyncTypeOK
  <2> QED BY <1>0, <1>1, <1>2, <2>1, TypeStep
<1>7. KnownIsSaved' /\ BacklogIsHeld' /\ BacklogComplete'
  BY <1>1, <1>2, <1>3, BacklogStep
<1>8. RecordsAreOwn' /\ CommitsHaveCards'
  <2>1. checkpoint \intersect archived = {}
    BY DEF SyncIInv, CommitsHaveCards
  <2> QED BY <1>1, <1>2, <2>1, RecordsStep
<1>9. FetchedIsOwed' /\ GapsAreOwed'
  BY <1>1, <1>2, <1>5, OwedStep DEF Works
<1> QED BY <1>6, <1>7, <1>8, <1>9 DEF SyncIInv

LEMMA FinishInv ==
  ASSUME SyncIInv, NEW s \in Syncs, NEW status \in Statuses \ {"none", "empty"},
         Finish(s, status), UNCHANGED <<feed, saved, checkpoint, archived, mishap>>,
         \/ pc[s] = "fetch" /\ status = "failed"
         \/ pc[s] = "write" /\ run[s].todo = {} /\ (status = "ok" => ~run[s].failed)
  PROVE  SyncIInv'
<1>0. SyncTypeOK /\ run[s].known \subseteq saved /\ checkpoint \intersect archived = {}
  BY DEF SyncIInv, KnownIsSaved, CommitsHaveCards
<1>1. Only(s) /\ pc'[s] = "done" /\ run'[s] = [run[s] EXCEPT !.status = status]
  BY <1>0, FinishEffect
<1>2. /\ run'[s].known = run[s].known /\ run'[s].fetched = run[s].fetched
      /\ run'[s].todo = run[s].todo /\ run'[s].status = status
      /\ run'[s].mode = run[s].mode /\ run'[s].bounded = run[s].bounded
      /\ run'[s].failed = run[s].failed
  BY <1>0, <1>1, RunType DEF Runs
<1>3. SyncTypeOK'
  <2>1. /\ checkpoint' \subseteq Records /\ archived' \subseteq Records /\ mishap' \in BOOLEAN
        /\ saved' \subseteq 1..feed
        /\ run'[s].fetched <= feed /\ run'[s].todo \subseteq 1..run'[s].fetched
    BY <1>0, <1>2 DEF SyncTypeOK
  <2> QED BY <1>0, <1>1, <1>2, <2>1, TypeStep
<1>4. run[s].mode = "backlog" /\ status = "ok" => Reach(run'[s], run'[s].fetched) \subseteq saved
  BY <1>2 DEF Reach, SyncIInv, BacklogIsHeld, Works
<1>5. KnownIsSaved' /\ BacklogIsHeld' /\ BacklogComplete'
  BY <1>0, <1>1, <1>2, <1>4, BacklogStep
<1>6. RecordsAreOwn' /\ CommitsHaveCards'
  BY <1>0, <1>1, RecordsStep
<1>7. FetchedIsOwed' /\ GapsAreOwed'
  BY <1>1, OwedStep DEF Works
<1> QED BY <1>3, <1>5, <1>6, <1>7 DEF SyncIInv

LEMMA SaveInv ==
  ASSUME SyncIInv, NEW s \in Syncs, Save(s) PROVE SyncIInv'
<1>0. SyncTypeOK /\ run[s].known \subseteq saved /\ Works(s)
  BY DEF SyncIInv, KnownIsSaved, Save, Works
<1>1. PICK f \in {run[s].failed, TRUE} : run'[s] = [run[s] EXCEPT !.failed = f]
  BY <1>0, SaveEffect
<1>2. Only(s) /\ pc'[s] = "record"
  BY <1>0, SaveEffect
<1>3. /\ run'[s].known = run[s].known /\ run'[s].fetched = run[s].fetched
      /\ run'[s].todo = run[s].todo /\ run'[s].status = run[s].status
      /\ run'[s].mode = run[s].mode /\ run'[s].bounded = run[s].bounded
      /\ run'[s].failed = f
  BY <1>0, <1>1, RunType DEF Runs
<1>4. /\ pc[s] = "write" /\ run[s].todo # {} /\ Turn(s) \notin saved
      /\ saved' = saved \union {Turn(s)}
      /\ feed' = feed /\ checkpoint' = checkpoint /\ archived' = archived /\ mishap' = mishap
  BY DEF Save
<1>5. Turn(s) \in run[s].todo /\ Turn(s) \in 1..feed
  BY <1>0, <1>4, TurnType
<1>6. Turn(s)' = Turn(s) /\ \A u \in Syncs \ {s} : Turn(u)' = Turn(u)
  BY <1>2, <1>3 DEF Turn, Only
<1>7. SyncTypeOK'
  <2>1. /\ checkpoint' \subseteq Records /\ archived' \subseteq Records /\ mishap' \in BOOLEAN
        /\ saved' \subseteq 1..feed
        /\ run'[s].fetched <= feed /\ run'[s].todo \subseteq 1..run'[s].fetched
        /\ run'[s].todo # {} /\ run'[s].status = "none"
    BY <1>0, <1>3, <1>4, <1>5 DEF SyncTypeOK
  <2> QED BY <1>0, <1>2, <1>4, <2>1, TypeStep
<1>8. KnownIsSaved' /\ BacklogIsHeld' /\ BacklogComplete'
  <2>1. ~f => ~run[s].failed
    BY <1>1
  <2>2. run[s].mode = "backlog" /\ ~f =>
          Reach(run'[s], run'[s].fetched) \subseteq saved \union run[s].todo
    BY <1>0, <1>3, <2>1 DEF SyncIInv, BacklogIsHeld, Reach
  <2> QED BY <1>0, <1>2, <1>3, <1>4, <2>2, BacklogStep
<1>9. CommitsHaveCards'
  BY <1>4 DEF SyncIInv, CommitsHaveCards
<1>10. RecordsAreOwn'
  <2>1. \A r \in checkpoint \union archived : r[1] \in saved
    BY DEF SyncIInv, CommitsHaveCards
  <2>2. \A u \in Syncs : pc[u] = "record" =>
          /\ Turn(u) \in saved
          /\ \A r \in checkpoint \union archived : r[1] # Turn(u)
          /\ \A v \in Syncs \ {u} : pc[v] = "record" => Turn(v) # Turn(u)
    BY DEF SyncIInv, RecordsAreOwn
  <2>3. \A u \in Syncs \ {s} : pc'[u] = pc[u]
    BY <1>2 DEF Only
  <2> SUFFICES ASSUME NEW u \in Syncs, pc'[u] = "record"
               PROVE  /\ Turn(u)' \in saved'
                      /\ \A r \in (checkpoint \union archived)' : r[1] # Turn(u)'
                      /\ \A v \in Syncs \ {u} : pc'[v] = "record" => Turn(v)' # Turn(u)'
    BY DEF RecordsAreOwn
  <2>4. CASE u = s
    BY <1>4, <1>6, <2>1, <2>2, <2>3, <2>4
  <2>5. CASE u # s
    BY <1>4, <1>6, <2>2, <2>3, <2>5
  <2> QED BY <2>4, <2>5
<1>11. FetchedIsOwed' /\ GapsAreOwed'
  <2>1. ~mishap => \A b \in 1..run[s].fetched : b \in saved \/ Owing(b)
    BY <1>0 DEF SyncIInv, FetchedIsOwed
  <2>2. \A b \in 1..feed : b < Turn(s) => b \in 1..run[s].fetched
    BY <1>0, <1>5, RunType
  <2> QED BY <1>2, <1>3, <1>4, <2>1, <2>2, OwedStep
<1> QED BY <1>7, <1>8, <1>9, <1>10, <1>11 DEF SyncIInv

\* The bookmark was there already, or could not be saved.
LEMMA PassInv ==
  ASSUME SyncIInv, NEW s \in Syncs, Skip(s) \/ SaveFails(s) PROVE SyncIInv'
<1>0. /\ SyncTypeOK /\ run[s].known \subseteq saved /\ Works(s)
      /\ checkpoint \intersect archived = {}
  BY DEF SyncIInv, KnownIsSaved, CommitsHaveCards, Skip, SaveFails, Works
<1>1. /\ pc[s] = "write" /\ run[s].todo # {} /\ pc' = pc
      /\ feed' = feed /\ saved' = saved /\ checkpoint' = checkpoint /\ archived' = archived
      /\ mishap' \in BOOLEAN /\ (mishap => mishap')
      /\ ~mishap' => Turn(s) \in saved
  BY <1>0 DEF Skip, SaveFails, SyncTypeOK
<1>2. PICK failures \in SUBSET BOOLEAN :
        /\ Passed(s, FALSE, failures)
        /\ FALSE \in failures => ~run[s].failed /\ Turn(s) \in saved
  <2>1. CASE Skip(s)
    <3>1. {run[s].failed, TRUE} \in SUBSET BOOLEAN
      BY <1>0, RunType
    <3>2. FALSE \in {run[s].failed, TRUE} => ~run[s].failed
      OBVIOUS
    <3> QED BY <2>1, <3>1, <3>2 DEF Skip
  <2>2. CASE SaveFails(s)
    <3>1. {TRUE} \in SUBSET BOOLEAN /\ FALSE \notin {TRUE}
      OBVIOUS
    <3> QED BY <2>2, <3>1 DEF SaveFails
  <2> QED BY <2>1, <2>2
<1>3. pc' \in [Syncs -> Pcs] /\ \A u \in Syncs \ {s} : pc'[u] = pc[u]
  BY <1>0, <1>1, RunType
<1>4. /\ Only(s)
      /\ run'[s].todo = run[s].todo \ {Turn(s)} /\ run'[s].failed \in failures
      /\ run'[s].mode = run[s].mode /\ run'[s].bounded = run[s].bounded
      /\ run'[s].known = run[s].known
      /\ run'[s].fetched = run[s].fetched /\ run'[s].status = run[s].status
  BY <1>0, <1>2, <1>3, PassedEffect
<1>5. SyncTypeOK'
  <2>1. /\ checkpoint' \subseteq Records /\ archived' \subseteq Records
        /\ saved' \subseteq 1..feed /\ run[s].status = "none"
        /\ run[s].fetched <= feed /\ run[s].todo \subseteq 1..run[s].fetched
    BY <1>0, <1>1 DEF SyncTypeOK
  <2> QED BY <1>0, <1>1, <1>4, <2>1, TypeStep
<1>6. KnownIsSaved' /\ BacklogIsHeld' /\ BacklogComplete'
  <2>1. run'[s].failed \in BOOLEAN
    BY <1>4
  <2>2. ~run'[s].failed => ~run[s].failed /\ Turn(s) \in saved
    BY <1>2, <1>4, <2>1
  <2>3. run[s].mode = "backlog" /\ ~run[s].failed =>
          Reach(run'[s], run'[s].fetched) \subseteq saved \union run[s].todo
    BY <1>0, <1>4 DEF SyncIInv, BacklogIsHeld, Reach
  <2> QED BY <1>0, <1>1, <1>4, <2>2, <2>3, BacklogStep
<1>7. RecordsAreOwn' /\ CommitsHaveCards'
  BY <1>0, <1>1, <1>4, RecordsStep
<1>8. FetchedIsOwed' /\ GapsAreOwed'
  <2>1. ~mishap' => \A b \in 1..run[s].fetched : b \in saved \/ Owing(b)
    BY <1>0, <1>1 DEF SyncIInv, FetchedIsOwed
  <2> QED BY <1>1, <1>4, <2>1, OwedStep
<1> QED BY <1>5, <1>6, <1>7, <1>8 DEF SyncIInv

LEMMA RecordInv ==
  ASSUME SyncIInv, NEW s \in Syncs, Record(s) PROVE SyncIInv'
<1>0. SyncTypeOK /\ run[s].known \subseteq saved /\ Works(s)
  BY DEF SyncIInv, KnownIsSaved, Record, Works
<1>1. /\ pc[s] = "record" /\ checkpoint' = checkpoint \union {<<Turn(s), s>>}
      /\ Passed(s, TRUE, {run[s].failed}) /\ pc' = [pc EXCEPT ![s] = "write"]
      /\ feed' = feed /\ saved' = saved /\ archived' = archived /\ mishap' = mishap
  BY DEF Record, Goto
<1>2. run[s].todo # {}
  BY <1>0, <1>1 DEF SyncTypeOK
<1>3. Turn(s) \in Bookmarks
  BY <1>0, <1>2, TurnType
<1>4. pc' \in [Syncs -> Pcs] /\ pc'[s] = "write" /\ \A u \in Syncs \ {s} : pc'[u] = pc[u]
  BY <1>0, <1>1, RunType DEF Pcs
<1>5. /\ Only(s)
      /\ run'[s].todo = run[s].todo \ {Turn(s)} /\ run'[s].failed = run[s].failed
      /\ run'[s].mode = run[s].mode /\ run'[s].bounded = run[s].bounded
      /\ run'[s].known = run[s].known
      /\ run'[s].fetched = run[s].fetched /\ run'[s].status = run[s].status
  <2>1. {run[s].failed} \in SUBSET BOOLEAN
    BY <1>0, RunType
  <2> QED BY <1>0, <1>1, <1>4, <2>1, PassedEffect
<1>6. /\ Turn(s) \in saved
      /\ \A r \in checkpoint \union archived : r[1] # Turn(s)
      /\ \A u \in Syncs \ {s} : pc[u] = "record" => Turn(u) # Turn(s)
  BY <1>1 DEF SyncIInv, RecordsAreOwn
<1>7. SyncTypeOK'
  <2>1. /\ checkpoint' \subseteq Records /\ archived' \subseteq Records
        /\ mishap' \in BOOLEAN /\ saved' \subseteq 1..feed /\ run[s].status = "none"
        /\ run[s].fetched <= feed /\ run[s].todo \subseteq 1..run[s].fetched
    BY <1>0, <1>1, <1>3 DEF SyncTypeOK, Records
  <2> QED BY <1>0, <1>1, <1>4, <1>5, <2>1, TypeStep
<1>8. KnownIsSaved' /\ BacklogIsHeld' /\ BacklogComplete'
  <2>1. run[s].mode = "backlog" /\ ~run[s].failed =>
          Reach(run'[s], run'[s].fetched) \subseteq saved \union run[s].todo
    BY <1>0, <1>5 DEF SyncIInv, BacklogIsHeld, Reach
  <2> QED BY <1>0, <1>1, <1>4, <1>5, <1>6, <2>1, BacklogStep
<1>9. CommitsHaveCards'
  BY <1>1, <1>6 DEF SyncIInv, CommitsHaveCards
<1>10. RecordsAreOwn'
  <2>1. \A u \in Syncs \ {s} : Turn(u)' = Turn(u)
    BY <1>5 DEF Turn, Only
  <2>2. \A u \in Syncs : pc'[u] = "record" => u # s /\ pc[u] = "record"
    BY <1>4
  <2> QED BY <1>1, <1>6, <2>1, <2>2 DEF SyncIInv, RecordsAreOwn
<1>11. FetchedIsOwed' /\ GapsAreOwed'
  <2>1. ~mishap => \A b \in 1..run[s].fetched : b \in saved \/ Owing(b)
    BY <1>0 DEF SyncIInv, FetchedIsOwed
  <2> QED BY <1>1, <1>4, <1>5, <1>6, <2>1, OwedStep
<1> QED BY <1>7, <1>8, <1>9, <1>10, <1>11 DEF SyncIInv

LEMMA BookmarkInv ==
  ASSUME SyncIInv, Bookmark PROVE SyncIInv'
<1>0. SyncTypeOK /\ feed \in Nat /\ feed' = feed + 1 /\ feed' \in 0..MaxFeed
  BY SyncAssumption DEF SyncIInv, SyncTypeOK, Bookmark
<1>1. UNCHANGED <<saved, checkpoint, archived, pc, run, mishap>>
  BY DEF Bookmark
<1>2. 1..feed \subseteq 1..feed' /\ \A k \in Nat : k <= feed => k <= feed'
  BY <1>0
<1>3. SyncTypeOK'
  BY <1>0, <1>1, <1>2, RunType DEF SyncTypeOK
<1>4. GapsAreOwed'
  <2>1. \A b \in 1..feed' : \A c \in saved : b < c => b \in 1..feed
    BY <1>0 DEF SyncTypeOK
  <2> QED BY <1>1, <2>1 DEF SyncIInv, GapsAreOwed
<1> QED BY <1>1, <1>3, <1>4
        DEF SyncIInv, KnownIsSaved, RecordsAreOwn, CommitsHaveCards, BacklogIsHeld,
            BacklogComplete, FetchedIsOwed, Works, Owing, Turn, Clean

LEMMA StepInv == SyncIInv /\ [SyncNext]_syncVars => SyncIInv'
<1> SUFFICES ASSUME SyncIInv, [SyncNext]_syncVars PROVE SyncIInv'
  OBVIOUS
<1>0. SyncTypeOK /\ checkpoint \intersect archived = {}
  BY DEF SyncIInv, CommitsHaveCards
<1>1. ASSUME NEW s \in Syncs, NEW mode \in Modes, NEW bounded \in BOOLEAN,
             Start(s, mode, bounded)
      PROVE  SyncIInv'
  <2>1. Resets(s, "fetch", mode)
    BY <1>0, <1>1, Restarts DEF Start, Pcs
  <2>2. ~Works(s) /\ mishap' = mishap /\ mishap \in BOOLEAN
    BY <1>0, <1>1 DEF Start, Works, SyncTypeOK
  <2> QED BY <1>0, <1>1, <2>1, <2>2, ResetInv DEF Start
<1>2. ASSUME NEW s \in Syncs, FetchFails(s) PROVE SyncIInv'
  BY <1>2, FinishInv DEF FetchFails, Statuses
<1>3. ASSUME NEW s \in Syncs, Answer(s) PROVE SyncIInv'
  <2> DEFINE status == IF ~run[s].failed THEN "ok"
                       ELSE IF run[s].wrote THEN "partial" ELSE "failed"
  <2>1. status \in Statuses \ {"none", "empty"} /\ (status = "ok" => ~run[s].failed)
    BY DEF Statuses
  <2>2. Finish(s, status)
    BY <1>3 DEF Answer
  <2> HIDE DEF status
  <2> QED BY <1>3, <2>1, <2>2, FinishInv DEF Answer
<1>4. ASSUME NEW s \in Syncs, Finalize(s) PROVE SyncIInv'
  <2>1. Resets(s, "idle", "none")
    BY <1>0, <1>4, Restarts DEF Finalize, NoRun, Pcs
  <2>2. ~Works(s) /\ mishap' = mishap /\ mishap \in BOOLEAN
    BY <1>0, <1>4 DEF Finalize, Works, SyncTypeOK
  <2>3. checkpoint' \union archived' = checkpoint \union archived
        /\ checkpoint' \intersect archived' = {}
    BY <1>0, <1>4 DEF Finalize
  <2> QED BY <2>1, <2>2, <2>3, ResetInv
<1>5. ASSUME NEW s \in Syncs, Abort(s) PROVE SyncIInv'
  <2>1. Resets(s, "idle", "none")
    BY <1>0, <1>5, Restarts DEF Abort, NoRun, Pcs
  <2>2. /\ checkpoint' = checkpoint /\ archived' = archived
        /\ mishap' \in BOOLEAN /\ (mishap => mishap') /\ (~mishap' => run[s].todo = {})
    BY <1>0, <1>5 DEF Abort, SyncTypeOK
  <2> QED BY <1>0, <2>1, <2>2, ResetInv
<1>6. CASE UNCHANGED syncVars
  BY <1>6 DEF syncVars, SyncIInv, SyncTypeOK, KnownIsSaved, RecordsAreOwn, CommitsHaveCards,
              BacklogIsHeld, BacklogComplete, FetchedIsOwed, GapsAreOwed, Works, Owing, Turn,
              Clean
<1> QED BY <1>1, <1>2, <1>3, <1>4, <1>5, <1>6, BookmarkInv, FetchInv, SaveInv, PassInv,
           RecordInv
        DEF SyncNext, SyncStep

LEMMA SyncIInvHolds == SyncSpec => []SyncIInv
  BY InitIInv, StepInv, PTL DEF SyncSpec

-----------------------------------------------------------------------------

\* The variables of the syncs keep their types: among them, that a run which
\* records a bookmark has one to record.
THEOREM SyncTypes == SyncSpec => []SyncTypeOK
<1>1. SyncIInv => SyncTypeOK
  BY DEF SyncIInv
<1> QED BY SyncIInvHolds, <1>1, PTL

\* Every committed bookmark has a card, and one run only has committed it, in
\* the checkpoint or in the archive, whoever finalizes while others write.
THEOREM CommitsAreSingle == SyncSpec => []CommitsHaveCards
<1>1. SyncIInv => CommitsHaveCards
  BY DEF SyncIInv
<1> QED BY SyncIInvHolds, <1>1, PTL

\* A backlog run that reports no failure has left out nothing of what it was
\* shown, whatever earlier runs failed to do and other runs do meanwhile.
THEOREM BacklogMissesNothing == SyncSpec => []BacklogComplete
<1>1. SyncIInv => BacklogComplete
  BY DEF SyncIInv
<1> QED BY SyncIInvHolds, <1>1, PTL

\* Stopping early is sound until something goes wrong: below a bookmark with a
\* card, one without is still to be written by a run under way.
THEOREM GapsStayOwed == SyncSpec => []GapsAreOwed
<1>1. SyncIInv => GapsAreOwed
  BY DEF SyncIInv
<1> QED BY SyncIInvHolds, <1>1, PTL

=============================================================================
