--------------------------- MODULE ReindexProofs ---------------------------
(***************************************************************************)
(* Proofs about reindexing, for every number of searches, syncs, processes *)
(* and cards.                                                              *)
(***************************************************************************)
EXTENDS Reindex, TLAPS

\* The parts of ReindexTypeOK.
Types ==
  /\ marked \subseteq written /\ written \subseteq Writes
  /\ indexed \subseteq written
  /\ marker \in BOOLEAN /\ aside \in BOOLEAN
  /\ turn \in [Processes -> Searches \union {NoOne}]
  /\ holder \in Users \union {NoOne}
  /\ qmd \in [Users -> {"off", "runs", "orphan"}]
  /\ scan \in [Users -> SUBSET Writes]
  /\ pc \in [Users -> Pcs]
  /\ due \in [Searches -> SUBSET Writes]
  /\ mishaps \subseteq {"died", "failed", "skipped", "raced", "unsynced"}

HolderPlace(u) == pc[u] \in Locked <=> holder = u
QmdPlace(u) == qmd[u] = "runs" <=> pc[u] = "await"
Scanned(u) == scan[u] \subseteq written
TurnPlace(q) == pc[q] \in Engaged <=> turn[ProcessOf[q]] = q

Places ==
  /\ \A u \in Users : HolderPlace(u) /\ QmdPlace(u) /\ Scanned(u)
  /\ \A q \in Searches : TurnPlace(q)

LEMMA TypeParts == ReindexTypeOK <=> Types /\ Places
  BY DEF ReindexTypeOK, Types, Places, HolderPlace, QmdPlace, Scanned,
      TurnPlace

LEMMA InitTypes == ReindexInit => ReindexTypeOK
  BY ReindexAssumption
  DEF ReindexInit, ReindexTypeOK, Pcs, Locked, Engaged, Users

-----------------------------------------------------------------------------
\* Each step keeps the types.

LEMMA TypesStep ==
  ASSUME Types, Places, [ReindexNext]_vars PROVE Types'
<1> USE ReindexAssumption DEF Types, Pcs, Users, Goto, Process, GiveTurn, Amiss,
        files, index
<1>1. ASSUME NEW w \in Writes, Commit(w) PROVE Types'
  BY <1>1 DEF Commit
<1>2. ASSUME NEW w \in Writes, Mark(w) PROVE Types'
  BY <1>2 DEF Mark
<1>3. ASSUME NEW q \in Searches, Look(q) PROVE Types'
  BY <1>3 DEF Look
<1>4. ASSUME NEW q \in Searches, TakeTurn(q) PROVE Types'
  BY <1>4 DEF TakeTurn
<1>5. ASSUME NEW q \in Searches, MoveAside(q) PROVE Types'
  BY <1>5 DEF MoveAside
<1>6. ASSUME NEW q \in Searches, Gone(q) PROVE Types'
  BY <1>6 DEF Gone
<1>7. ASSUME NEW q \in Searches, Skip(q) PROVE Types'
  BY <1>7 DEF Skip
<1>8. ASSUME NEW q \in Searches, LockFails(q) PROVE Types'
  BY <1>8 DEF LockFails
<1>9. ASSUME NEW q \in Searches, Unlink(q) PROVE Types'
  BY <1>9 DEF Unlink
<1>10. ASSUME NEW q \in Searches, Query(q) PROVE Types'
  BY <1>10 DEF Query
<1>11. ASSUME NEW u \in Users, Lock(u) PROVE Types'
  BY <1>11 DEF Lock
<1>12. ASSUME NEW u \in Users, Spawn(u) PROVE Types'
  BY <1>12 DEF Spawn
<1>13. ASSUME NEW u \in Users, Updated(u) PROVE Types'
  BY <1>13 DEF Updated, Places, Scanned
<1>14. ASSUME NEW u \in Users, UpdateFails(u) PROVE Types'
  BY <1>14 DEF UpdateFails
<1>15. ASSUME NEW u \in Users, Release(u) PROVE Types'
  BY <1>15 DEF Release
<1>16. ASSUME NEW p \in Processes, Die(p) PROVE Types'
  BY <1>16 DEF Die
<1>17. ASSUME NEW u \in Users, OrphanEnds(u) PROVE Types'
  BY <1>17 DEF OrphanEnds, Places, Scanned
<1>18. CASE UNCHANGED vars
  BY <1>18 DEF vars
<1> QED
  BY <1>1, <1>2, <1>3, <1>4, <1>5, <1>6, <1>7, <1>8, <1>9, <1>10, <1>11, <1>12,
     <1>13, <1>14, <1>15, <1>16, <1>17, <1>18
  DEF ReindexNext, SearchStep, Proceed, FinalizerStep

LEMMA PlacesStep ==
  ASSUME Types, Places, [ReindexNext]_vars PROVE Places'
<1> USE ReindexAssumption DEF Types, Places, HolderPlace, QmdPlace, Scanned, TurnPlace,
        Pcs, Locked, Engaged, Users, Goto, Process, GiveTurn, Amiss, files, index
<1>1. ASSUME NEW w \in Writes, Commit(w) PROVE Places'
  BY <1>1 DEF Commit
<1>2. ASSUME NEW w \in Writes, Mark(w) PROVE Places'
  BY <1>2 DEF Mark
<1>3. ASSUME NEW q \in Searches, Look(q) PROVE Places'
  BY <1>3 DEF Look
<1>4. ASSUME NEW q \in Searches, TakeTurn(q) PROVE Places'
  BY <1>4 DEF TakeTurn
<1>5. ASSUME NEW q \in Searches, MoveAside(q) PROVE Places'
  BY <1>5 DEF MoveAside
<1>6. ASSUME NEW q \in Searches, Gone(q) PROVE Places'
  BY <1>6 DEF Gone
<1>7. ASSUME NEW q \in Searches, Skip(q) PROVE Places'
  BY <1>7 DEF Skip
<1>8. ASSUME NEW q \in Searches, LockFails(q) PROVE Places'
  BY <1>8 DEF LockFails
<1>9. ASSUME NEW q \in Searches, Unlink(q) PROVE Places'
  BY <1>9 DEF Unlink
<1>10. ASSUME NEW q \in Searches, Query(q) PROVE Places'
  BY <1>10 DEF Query
<1>11. ASSUME NEW u \in Users, Lock(u) PROVE Places'
  BY <1>11 DEF Lock
<1>12. ASSUME NEW u \in Users, Spawn(u) PROVE Places'
  BY <1>12 DEF Spawn
<1>13. ASSUME NEW u \in Users, Updated(u) PROVE Places'
  BY <1>13 DEF Updated
<1>14. ASSUME NEW u \in Users, UpdateFails(u) PROVE Places'
  BY <1>14 DEF UpdateFails
<1>15. ASSUME NEW u \in Users, Release(u) PROVE Places'
  BY <1>15 DEF Release
<1>16. ASSUME NEW p \in Processes, Die(p) PROVE Places'
  BY <1>16 DEF Die
<1>17. ASSUME NEW u \in Users, OrphanEnds(u) PROVE Places'
  BY <1>17 DEF OrphanEnds
<1>18. CASE UNCHANGED vars
  BY <1>18 DEF vars
<1> QED
  BY <1>1, <1>2, <1>3, <1>4, <1>5, <1>6, <1>7, <1>8, <1>9, <1>10, <1>11, <1>12,
     <1>13, <1>14, <1>15, <1>16, <1>17, <1>18
  DEF ReindexNext, SearchStep, Proceed, FinalizerStep

-----------------------------------------------------------------------------
\* No marked card is forgotten.

LEMMA OwedStep ==
  ASSUME Types, Places, StaleIsOwed, [ReindexNext]_vars PROVE StaleIsOwed'
<1> USE ReindexAssumption DEF Types, Places, HolderPlace, QmdPlace, Scanned, TurnPlace,
        StaleIsOwed, Coming, Pcs, Locked, Engaged, Users, Goto, Process, GiveTurn,
        Amiss, files, index
<1>1. ASSUME NEW w \in Writes, Commit(w) PROVE StaleIsOwed'
  BY <1>1 DEF Commit
<1>2. ASSUME NEW w \in Writes, Mark(w) PROVE StaleIsOwed'
  BY <1>2 DEF Mark
<1>3. ASSUME NEW q \in Searches, Look(q) PROVE StaleIsOwed'
  BY <1>3 DEF Look
<1>4. ASSUME NEW q \in Searches, TakeTurn(q) PROVE StaleIsOwed'
  BY <1>4 DEF TakeTurn
<1>5. ASSUME NEW q \in Searches, MoveAside(q) PROVE StaleIsOwed'
  BY <1>5 DEF MoveAside
<1>6. ASSUME NEW q \in Searches, Gone(q) PROVE StaleIsOwed'
  BY <1>6 DEF Gone
<1>7. ASSUME NEW q \in Searches, Skip(q) PROVE StaleIsOwed'
  BY <1>7 DEF Skip
<1>8. ASSUME NEW q \in Searches, LockFails(q) PROVE StaleIsOwed'
  BY <1>8 DEF LockFails
<1>9. ASSUME NEW q \in Searches, Unlink(q) PROVE StaleIsOwed'
  BY <1>9 DEF Unlink
<1>10. ASSUME NEW q \in Searches, Query(q) PROVE StaleIsOwed'
  BY <1>10 DEF Query
<1>11. ASSUME NEW u \in Users, Lock(u) PROVE StaleIsOwed'
  BY <1>11 DEF Lock
<1>12. ASSUME NEW u \in Users, Spawn(u) PROVE StaleIsOwed'
  BY <1>12 DEF Spawn
<1>13. ASSUME NEW u \in Users, Updated(u) PROVE StaleIsOwed'
  BY <1>13 DEF Updated
<1>14. ASSUME NEW u \in Users, UpdateFails(u) PROVE StaleIsOwed'
  BY <1>14 DEF UpdateFails
<1>15. ASSUME NEW u \in Users, Release(u) PROVE StaleIsOwed'
  BY <1>15 DEF Release
<1>16. ASSUME NEW p \in Processes, Die(p) PROVE StaleIsOwed'
  BY <1>16 DEF Die
<1>17. ASSUME NEW u \in Users, OrphanEnds(u) PROVE StaleIsOwed'
  BY <1>17 DEF OrphanEnds
<1>18. CASE UNCHANGED vars
  BY <1>18 DEF vars
<1> QED
  BY <1>1, <1>2, <1>3, <1>4, <1>5, <1>6, <1>7, <1>8, <1>9, <1>10, <1>11, <1>12,
     <1>13, <1>14, <1>15, <1>16, <1>17, <1>18
  DEF ReindexNext, SearchStep, Proceed, FinalizerStep

-----------------------------------------------------------------------------
\* A search answers with what was marked when it found the marker.

\* From the end of its update on, what is due to a search is in the index, and
\* in the middle of it the subprocess has found it.
DueIsSeen ==
  \A q \in Searches :
    /\ due[q] \subseteq marked
    /\ pc[q] = "idle" => due[q] = {}
    /\ mishaps = {} =>
         /\ pc[q] = "await" => due[q] \subseteq indexed \union scan[q]
         /\ pc[q] \in {"release", "unlink", "query"} => due[q] \subseteq indexed

\* A search that finds the marker gone has nobody to wait for.
LEMMA GoneIsDone ==
  ASSUME Types, Places, StaleIsOwed, DueIsSeen, NEW q \in Searches, Gone(q), mishaps' = {}
  PROVE  due[q] \subseteq indexed
<1>1. /\ pc[q] = "recheck" /\ mishaps = {} /\ ~marker
      /\ \A r \in Searches : ProcessOf[r] # ProcessOf[q] => pc[r] \notin Engaged
  BY DEF Gone, Amiss, Process
<1>2. \A r \in Searches : ProcessOf[r] = ProcessOf[q] /\ pc[r] \in Engaged => r = q
  BY <1>1 DEF Places, TurnPlace, Engaged
<1>3. \A w : ~Coming(w, Searches)
  BY <1>1, <1>2 DEF Coming, Engaged, Locked
<1>4. marked \ indexed = {}
  BY <1>1, <1>3 DEF StaleIsOwed
<1> QED BY <1>4 DEF DueIsSeen

LEMMA DueStep ==
  ASSUME Types, Places, StaleIsOwed, DueIsSeen, [ReindexNext]_vars PROVE DueIsSeen'
<1> USE ReindexAssumption DEF Types, Pcs, Users, Goto, Process, GiveTurn, Amiss, files, index
<1>1. ASSUME NEW w \in Writes, Commit(w) PROVE DueIsSeen'
  BY <1>1 DEF Commit, DueIsSeen
<1>2. ASSUME NEW w \in Writes, Mark(w) PROVE DueIsSeen'
  BY <1>2 DEF Mark, DueIsSeen
<1>3. ASSUME NEW q \in Searches, Look(q) PROVE DueIsSeen'
  BY <1>3 DEF Look, DueIsSeen
<1>4. ASSUME NEW q \in Searches, TakeTurn(q) PROVE DueIsSeen'
  BY <1>4 DEF TakeTurn, DueIsSeen
<1>5. ASSUME NEW q \in Searches, MoveAside(q) PROVE DueIsSeen'
  BY <1>5 DEF MoveAside, DueIsSeen
<1>6. ASSUME NEW q \in Searches, Gone(q) PROVE DueIsSeen'
  BY <1>6, GoneIsDone DEF Gone, DueIsSeen
<1>7. ASSUME NEW q \in Searches, Skip(q) PROVE DueIsSeen'
  BY <1>7 DEF Skip, DueIsSeen
<1>8. ASSUME NEW q \in Searches, LockFails(q) PROVE DueIsSeen'
  BY <1>8 DEF LockFails, DueIsSeen
<1>9. ASSUME NEW q \in Searches, Unlink(q) PROVE DueIsSeen'
  BY <1>9 DEF Unlink, DueIsSeen
<1>10. ASSUME NEW q \in Searches, Query(q) PROVE DueIsSeen'
  BY <1>10 DEF Query, DueIsSeen
<1>11. ASSUME NEW u \in Users, Lock(u) PROVE DueIsSeen'
  BY <1>11 DEF Lock, DueIsSeen
<1>12. ASSUME NEW u \in Users, Spawn(u) PROVE DueIsSeen'
  BY <1>12 DEF Spawn, DueIsSeen
<1>13. ASSUME NEW u \in Users, Updated(u) PROVE DueIsSeen'
  BY <1>13 DEF Updated, DueIsSeen
<1>14. ASSUME NEW u \in Users, UpdateFails(u) PROVE DueIsSeen'
  BY <1>14 DEF UpdateFails, DueIsSeen
<1>15. ASSUME NEW u \in Users, Release(u) PROVE DueIsSeen'
  BY <1>15 DEF Release, DueIsSeen
<1>16. ASSUME NEW p \in Processes, Die(p) PROVE DueIsSeen'
  BY <1>16 DEF Die, DueIsSeen
<1>17. ASSUME NEW u \in Users, OrphanEnds(u) PROVE DueIsSeen'
  <2>1. pc[u] # "await" /\ \A q \in Searches : pc[q] = "await" => scan'[q] = scan[q]
    BY <1>17 DEF OrphanEnds, Places, QmdPlace
  <2> QED BY <1>17, <2>1 DEF OrphanEnds, DueIsSeen
<1>18. CASE UNCHANGED vars
  BY <1>18 DEF vars, DueIsSeen
<1> QED
  BY <1>1, <1>2, <1>3, <1>4, <1>5, <1>6, <1>7, <1>8, <1>9, <1>10, <1>11, <1>12,
     <1>13, <1>14, <1>15, <1>16, <1>17, <1>18
  DEF ReindexNext, SearchStep, Proceed, FinalizerStep

-----------------------------------------------------------------------------

LEMMA ReindexInvariant == ReindexSpec => [](Types /\ Places /\ StaleIsOwed)
<1>1. ReindexInit => Types /\ Places /\ StaleIsOwed
  <2>1. ReindexInit => StaleIsOwed
    BY DEF ReindexInit, StaleIsOwed
  <2> QED BY <2>1, InitTypes, TypeParts
<1>2. Types /\ Places /\ StaleIsOwed /\ [ReindexNext]_vars
        => (Types /\ Places /\ StaleIsOwed)'
  BY TypesStep, PlacesStep, OwedStep
<1> QED BY <1>1, <1>2, PTL DEF ReindexSpec

\* The types, and which locks a search or a sync holds where it is.
THEOREM ReindexTypes == ReindexSpec => []ReindexTypeOK
<1>1. Types /\ Places /\ StaleIsOwed => ReindexTypeOK
  BY TypeParts
<1> QED BY <1>1, ReindexInvariant, PTL

\* The flock keeps the updates of living processes apart, also those of a
\* search and a sync.
THEOREM UpdatesAreExclusive == ReindexSpec => []UpdatesExclude
<1>1. Types /\ Places /\ StaleIsOwed => UpdatesExclude
  BY DEF Places, HolderPlace, QmdPlace, Locked, UpdatesExclude
<1> QED BY <1>1, ReindexInvariant, PTL

\* A card that was marked is in the index, or the marker or a search at work
\* still stands for it, unless a search died, failed or was refused the lock.
THEOREM StaleStaysOwed == ReindexSpec => []StaleIsOwed
<1> QED BY ReindexInvariant, PTL

\* While nothing goes wrong, a search that finds the marker answers with every
\* card marked by then, whoever does the update.
THEOREM SearchesSeeMarked == ReindexSpec => []RoundTrip
<1>1. ReindexInit => DueIsSeen
  BY DEF ReindexInit, DueIsSeen, Users
<1>2. /\ Types /\ Places /\ StaleIsOwed /\ DueIsSeen /\ [ReindexNext]_vars => DueIsSeen'
      /\ DueIsSeen => RoundTrip
  BY DueStep DEF DueIsSeen, RoundTrip
<1> QED BY <1>1, <1>2, ReindexInvariant, PTL DEF ReindexSpec

=============================================================================
