------------------------------ MODULE Reindex ------------------------------
(***************************************************************************)
(* The marker _index-dirty and those who bring the search index up to      *)
(* date: _maybe_reindex_if_dirty of retrieval/engine.py before a search,   *)
(* _trigger_reindex of sync/service.py at the end of a sync, and update of *)
(* retrieval/qmd.py, the subprocess both run.  Searches of one server are  *)
(* coroutines of one event loop.  The index_rebuild lock is one flock that *)
(* dies with its process, as FileLock has it for card_write; its heartbeat *)
(* is diagnostics, and who reads the JSON decides nothing.                 *)
(***************************************************************************)
EXTENDS FiniteSets

CONSTANTS
  Searches,    \* calls of search
  Finalizers,  \* calls of finalize_run that reindex
  Processes,
  ProcessOf,   \* where each of them runs
  Writes,      \* cards to be written
  NoOne        \* holds a lock when nobody does

Users == Searches \union Finalizers

ASSUME ReindexAssumption ==
  /\ ProcessOf \in [Users -> Processes]
  /\ Searches \intersect Finalizers = {}
  /\ NoOne \notin Users

VARIABLES
  written,  \* the cards on disk
  marked,   \* those whose writer has touched the marker since
  marker,   \* is there an _index-dirty?
  aside,    \* is there an _index-dirty.in-flight?
  turn,     \* turn[p]: the coroutine that has _REINDEX_LOCK of process p
  holder,   \* who has the flock of index_rebuild
  qmd,      \* qmd[u]: the subprocess that u started
  scan,     \* scan[u]: the cards that subprocess has found
  indexed,  \* the cards a query finds
  pc,       \* pc[u]: where u is
  due,      \* history: due[q] are the cards that were marked when q, now
            \* at work, found the marker
  mishaps   \* history: what has gone wrong

vars == <<written, marked, marker, aside, turn, holder, qmd, scan, indexed,
          pc, due, mishaps>>
files == <<written, marked, marker, aside>>
index == <<qmd, scan, indexed>>

Pcs == {"idle", "wait", "recheck", "lock", "update", "await", "release",
        "unlink", "query", "dead"}
Locked == {"update", "await", "release"}
Engaged == {"recheck", "lock", "unlink"} \union Locked

ReindexTypeOK ==
  /\ marked \subseteq written /\ written \subseteq Writes
  /\ indexed \subseteq written
  /\ marker \in BOOLEAN /\ aside \in BOOLEAN
  /\ turn \in [Processes -> Searches \union {NoOne}]
  /\ holder \in Users \union {NoOne}
  /\ qmd \in [Users -> {"off", "runs", "orphan"}]
  /\ scan \in [Users -> SUBSET Writes]
  /\ pc \in [Users -> Pcs]
  /\ due \in [Searches -> SUBSET Writes]
  /\ mishaps \subseteq {"died", "failed", "skipped", "raced", "unsynced"}
  /\ \A u \in Users : /\ pc[u] \in Locked <=> holder = u
                      /\ qmd[u] = "runs" <=> pc[u] = "await"
                      /\ scan[u] \subseteq written
  /\ \A q \in Searches : pc[q] \in Engaged <=> turn[ProcessOf[q]] = q

ReindexInit ==
  /\ written = {} /\ marked = {} /\ indexed = {}
  /\ marker = FALSE /\ aside = FALSE
  /\ turn = [p \in Processes |-> NoOne]
  /\ holder = NoOne
  /\ qmd = [u \in Users |-> "off"]
  /\ scan = [u \in Users |-> {}]
  /\ pc = [u \in Users |-> "idle"]
  /\ due = [q \in Searches |-> {}]
  /\ mishaps = {}

-----------------------------------------------------------------------------
(* write_card: the card is renamed into place, then the marker touched. *)

Commit(w) ==
  /\ w \notin written
  /\ written' = written \union {w}
  /\ UNCHANGED <<marked, marker, aside, turn, holder, index, pc, due, mishaps>>

Mark(w) ==
  /\ w \in written \ marked
  /\ marker' = TRUE
  /\ marked' = marked \union {w}
  /\ UNCHANGED <<written, aside, turn, holder, index, pc, due, mishaps>>

-----------------------------------------------------------------------------
(* _maybe_reindex_if_dirty. *)

Goto(u, where) == pc' = [pc EXCEPT ![u] = where]
Process(u) == ProcessOf[u]
Amiss(what) == mishaps' = mishaps \union what

\* The first look.
Look(q) ==
  /\ pc[q] = "idle"
  /\ IF marker
     THEN /\ due' = [due EXCEPT ![q] = marked]
          /\ Goto(q, "wait")
     ELSE /\ UNCHANGED due
          /\ Goto(q, "query")
  /\ UNCHANGED <<files, turn, holder, index, mishaps>>

\* Seeded fault: a search that finds another at work does not wait for it.
TakeTurnOrLeave(q) ==
  /\ pc[q] = "wait"
  /\ IF turn[Process(q)] = NoOne
     THEN /\ turn' = [turn EXCEPT ![Process(q)] = q]
          /\ Goto(q, "recheck")
     ELSE /\ UNCHANGED turn
          /\ Goto(q, "query")
  /\ UNCHANGED <<files, holder, index, due, mishaps>>

\* The way into the asyncio lock.
TakeTurn(q) ==
  /\ pc[q] = "wait"
  /\ turn[Process(q)] = NoOne
  /\ turn' = [turn EXCEPT ![Process(q)] = q]
  /\ Goto(q, "recheck")
  /\ UNCHANGED <<files, holder, index, due, mishaps>>

GiveTurn(q) == turn' = [turn EXCEPT ![Process(q)] = NoOne]

\* The second look, then the rename.
MoveAside(q) ==
  /\ pc[q] = "recheck"
  /\ marker
  /\ marker' = FALSE /\ aside' = TRUE
  /\ Goto(q, "lock")
  /\ UNCHANGED <<written, marked, turn, holder, index, due, mishaps>>

\* The marker is gone before one of the two, or cannot be renamed.
Gone(q) ==
  /\ pc[q] = "recheck"
  /\ GiveTurn(q)
  /\ Goto(q, "query")
  /\ Amiss(IF marker THEN {"failed"}
           ELSE IF \E r \in Searches : Process(r) # Process(q) /\ pc[r] \in Engaged
           THEN {"raced"} ELSE {})
  /\ UNCHANGED <<files, holder, index, due>>

\* index_rebuild, with LOCK_NB.
Lock(u) ==
  /\ pc[u] = IF u \in Searches THEN "lock" ELSE "idle"
  /\ holder = NoOne
  /\ holder' = u
  /\ Goto(u, "update")
  /\ UNCHANGED <<files, turn, index, due, mishaps>>

\* Seeded fault: the refused search keeps _REINDEX_LOCK.
SkipStuck(q) ==
  /\ pc[q] = "lock"
  /\ holder # NoOne
  /\ aside' = FALSE
  /\ Goto(q, "query")
  /\ Amiss({"skipped"})
  /\ UNCHANGED <<written, marked, marker, turn, holder, index, due>>

\* LOCK_HELD: the finally clause unlinks what was moved aside.
Skip(q) ==
  /\ pc[q] = "lock"
  /\ holder # NoOne
  /\ aside' = FALSE
  /\ GiveTurn(q)
  /\ Goto(q, "query")
  /\ Amiss({"skipped"})
  /\ UNCHANGED <<written, marked, marker, holder, index, due>>

\* The lock's file or JSON cannot be written: the search raises.
LockFails(q) ==
  /\ pc[q] = "lock"
  /\ aside' = FALSE
  /\ GiveTurn(q)
  /\ due' = [due EXCEPT ![q] = {}]
  /\ Goto(q, "idle")
  /\ Amiss({"failed"})
  /\ UNCHANGED <<written, marked, marker, holder, index>>

\* qmd.update starts its subprocess; the cards it finds are those there now.
Spawn(u) ==
  /\ pc[u] = "update"
  /\ qmd' = [qmd EXCEPT ![u] = "runs"]
  /\ scan' = [scan EXCEPT ![u] = written]
  /\ Goto(u, "await")
  /\ UNCHANGED <<files, turn, holder, indexed, due, mishaps>>

Updated(u) ==
  /\ pc[u] = "await"
  /\ qmd' = [qmd EXCEPT ![u] = "off"]
  /\ indexed' = indexed \union scan[u]
  /\ scan' = [scan EXCEPT ![u] = {}]
  /\ Goto(u, "release")
  /\ UNCHANGED <<files, turn, holder, due, mishaps>>

\* Seeded fault: a subprocess that takes too long is not killed.
UpdateAbandoned(u) ==
  /\ pc[u] \in {"update", "await"}
  /\ Goto(u, "release")
  /\ Amiss({IF u \in Searches THEN "failed" ELSE "unsynced"})
  /\ UNCHANGED <<files, turn, holder, index, due>>

\* No binary, an exit code, a timeout with a kill: a warning, and no more.
UpdateFails(u) ==
  /\ pc[u] \in {"update", "await"}
  /\ qmd' = [qmd EXCEPT ![u] = "off"]
  /\ scan' = [scan EXCEPT ![u] = {}]
  /\ Goto(u, "release")
  /\ Amiss({IF u \in Searches THEN "failed" ELSE "unsynced"})
  /\ UNCHANGED <<files, turn, holder, indexed, due>>

Release(u) ==
  /\ pc[u] = "release"
  /\ holder' = NoOne
  /\ Goto(u, IF u \in Searches THEN "unlink" ELSE "idle")
  /\ UNCHANGED <<files, turn, index, due, mishaps>>

\* Seeded fault: the marker is unlinked after the update.
UnlinkMarker(q) ==
  /\ pc[q] = "unlink"
  /\ marker' = FALSE /\ aside' = FALSE
  /\ GiveTurn(q)
  /\ Goto(q, "query")
  /\ UNCHANGED <<written, marked, holder, index, due, mishaps>>

\* The finally clause, and out of the asyncio lock.
Unlink(q) ==
  /\ pc[q] = "unlink"
  /\ aside' = FALSE
  /\ GiveTurn(q)
  /\ Goto(q, "query")
  /\ UNCHANGED <<written, marked, marker, holder, index, due, mishaps>>

\* qmd.query answers from what is indexed.
Query(q) ==
  /\ pc[q] = "query"
  /\ due' = [due EXCEPT ![q] = {}]
  /\ Goto(q, "idle")
  /\ UNCHANGED <<files, turn, holder, index, mishaps>>

-----------------------------------------------------------------------------

\* A process dies: its flock goes with it, the subprocess it started does not.
Die(p) ==
  LET fallen == {u \in Users : ProcessOf[u] = p} IN
  /\ \E u \in fallen : pc[u] # "dead"
  /\ pc' = [u \in Users |-> IF u \in fallen THEN "dead" ELSE pc[u]]
  /\ holder' = IF holder \in fallen THEN NoOne ELSE holder
  /\ turn' = [turn EXCEPT ![p] = NoOne]
  /\ qmd' = [u \in Users |-> IF u \in fallen /\ qmd[u] = "runs"
                             THEN "orphan" ELSE qmd[u]]
  /\ due' = [q \in Searches |-> IF q \in fallen THEN {} ELSE due[q]]
  /\ Amiss({"died"})
  /\ UNCHANGED <<files, scan, indexed>>

\* An orphan comes to its end.
OrphanEnds(u) ==
  /\ qmd[u] = "orphan"
  /\ qmd' = [qmd EXCEPT ![u] = "off"]
  /\ indexed' \in {indexed, indexed \union scan[u]}
  /\ scan' = [scan EXCEPT ![u] = {}]
  /\ UNCHANGED <<files, turn, holder, pc, due, mishaps>>

\* What a search does once it has found the marker.
Proceed(q) ==
  \/ MoveAside(q) \/ Gone(q)
  \/ Lock(q) \/ Skip(q) \/ LockFails(q)
  \/ Spawn(q) \/ Updated(q) \/ UpdateFails(q)
  \/ Release(q) \/ Unlink(q) \/ Query(q)

SearchStep(q) == Look(q) \/ TakeTurn(q) \/ Proceed(q)

\* _trigger_reindex; a refusal or a failure of the lock changes nothing.
FinalizerStep(f) ==
  \/ Lock(f) \/ Spawn(f) \/ Updated(f) \/ UpdateFails(f) \/ Release(f)

ReindexNext ==
  \/ \E w \in Writes : Commit(w) \/ Mark(w)
  \/ \E q \in Searches : SearchStep(q)
  \/ \E f \in Finalizers : FinalizerStep(f)
  \/ \E p \in Processes : Die(p)
  \/ \E u \in Users : OrphanEnds(u)

\* An event loop comes round to every coroutine that can go on, its lock is
\* first come, first served, and qmd is killed after its timeout.
Fairness ==
  \A q \in Searches : WF_vars(Proceed(q)) /\ SF_vars(TakeTurn(q))

ReindexSpec == ReindexInit /\ [][ReindexNext]_vars /\ Fairness

-----------------------------------------------------------------------------

\* "Both write paths (this read-side trigger + sync.service finalize) must
\* hold the same flock-backed lock so two qmd update subprocesses never race"
\* (engine.py): true of the subprocesses whose parents live.
UpdatesExclude ==
  \A u, v \in Users : qmd[u] = "runs" /\ qmd[v] = "runs" => u = v

\* Among us is one that took the marker, or started an update, that will bring
\* the card into the index.
Coming(w, us) ==
  \E u \in us : \/ pc[u] \in {"lock", "update"}
                \/ pc[u] = "await" /\ w \in scan[u]

\* Unless a search died, failed or was refused the lock, no marked card is
\* forgotten: "a re-dirty during the update isn't lost" (engine.py).
StaleIsOwed ==
  mishaps \subseteq {"raced", "unsynced"} =>
    \A w \in marked \ indexed : marker \/ Coming(w, Searches)

\* "If LOCK_HELD here, /xsync is currently reindexing - that update will pick
\* up the same _index-dirty state.  Skip (the marker stays; we'll catch it on
\* the next read)" (engine.py): a refusal forgets nothing either.
SkipForgetsNothing ==
  mishaps \subseteq {"raced", "skipped"} =>
    \A w \in marked \ indexed : marker \/ Coming(w, Users)

\* A search that finds the marker answers with every card marked by then:
\* "concurrent searches await its completion" (engine.py).
RoundTrip ==
  mishaps = {} => \A q \in Searches : pc[q] = "query" => due[q] \subseteq indexed

\* No search waits for ever for the others of its process.
SearchesAnswer ==
  \A q \in Searches : pc[q] = "wait" ~> pc[q] \in {"idle", "dead"}

=============================================================================
