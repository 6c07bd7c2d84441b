------------------------------ MODULE CardStore ------------------------------
(***************************************************************************)
(* Every writer of cards: the handlers of mcp_server/server.py, sync and   *)
(* apply_extraction of sync/service.py, each a load-change-write under the *)
(* card_write lock, and the steps of corpus.write_card between which a     *)
(* writer can be suspended or die.                                         *)
(***************************************************************************)
EXTENDS FileLock, Cards

CONSTANTS
  NoJob,      \* nothing is being done
  NoDraft,    \* nothing is being written
  JobsAsked,  \* bound: the operations the callers ask for, a subset of Jobs
  Corpus      \* the corpora a run starts from

ASSUME CardStoreAssumption ==
  /\ JobsAsked \subseteq Jobs
  /\ NoJob \notin Jobs
  /\ Corpus \subseteq Corpora

VARIABLES
  cardFiles,  \* cardFiles[i]: the file i.md
  rawFiles,   \* rawFiles[<<i, r>>]: the file {i}.{checksum of r}.raw.txt
  pc,         \* pc[p]: where p is in its handler
  job,        \* job[p]: what p was asked to do
  draft,      \* draft[p]: the id and the card p is writing, and the bytes whose
              \* sidecar that replaces (NoRaw if none)
  displaced   \* history: what some writer was writing when it lost the fence

disk      == <<cardFiles, rawFiles>>
storeVars == <<cardFiles, rawFiles, pc, job, draft>>
vars      == <<lockVars, storeVars, displaced>>

\* What the .md files hold.
md == [i \in Ids |-> cardFiles[i].at]

Whole(c) == c \notin {NoCard} \union Broken

Ledger == INSTANCE CardLedger WITH cards <- md

Drafts == [id: Ids, card: Card, old: Contents \union {NoRaw}]

ASSUME NoDraftAssumption == NoDraft \notin Drafts

ASSUME FilesAssumption ==
  /\ {NoFile, Empty, Torn} \intersect (Card \union Contents) = {}
  /\ NoCard \notin Broken

\* Inside write_card: what a writer does between a check of its fence and the
\* next, or the end.
Window == [sidecar |-> {"open raw", "write raw", "place raw", "mark", "gc"},
           card    |-> {"open md", "write md", "place md"}]
Writing == {"verify", "reverify"} \union Window.sidecar \union Window.card
Pcs == {"idle", "check", "lock", "load", "leave"} \union Writing

\* Types, and how far the lock is at each place of the handler.
StoreTypeOK ==
  /\ LockTypeOK
  /\ cardFiles \in [Ids -> Files(Card \union {NoCard} \union Broken, Procs)]
  /\ \A i \in Ids : Consistent(cardFiles[i])
  /\ rawFiles \in [Ids \X Contents -> Files(Contents \union {NoFile} \union Broken, Procs)]
  /\ \A k \in Ids \X Contents : Consistent(rawFiles[k])
  /\ pc \in [Procs -> Pcs]
  /\ job \in [Procs -> JobsAsked \union {NoJob}]
  /\ draft \in [Procs -> Drafts \union {NoDraft}]
  /\ displaced \subseteq DOMAIN Window
  /\ \A p \in Procs :
       /\ pc[p] = "idle" <=> job[p] = NoJob
       /\ pc[p] \in Writing <=> draft[p] # NoDraft
       /\ pc[p] \in {"idle", "check"} => stage[p] = "out"
       /\ pc[p] = "lock" =>
            stage[p] \in {"out", "opened", "flocked", "staging", "staged", "refused"}
       /\ pc[p] \in Writing \union {"load"} => stage[p] = "in"
       /\ pc[p] = "leave" => stage[p] \in {"in", "closing"}

\* Every v2 card of the corpus has its sidecar.
StoreInit ==
  /\ LockInit
  /\ \E c \in Corpus :
       /\ cardFiles = [i \in Ids |-> Still(c[i])]
       /\ rawFiles = [k \in Ids \X Contents |->
            Still(IF c[k[1]] # NoCard /\ c[k[1]].raw = k[2] THEN k[2] ELSE NoFile)]
  /\ pc = [p \in Procs |-> "idle"]
  /\ job = [p \in Procs |-> NoJob]
  /\ draft = [p \in Procs |-> NoDraft]
  /\ displaced = {}

-----------------------------------------------------------------------------

Goto(p, where) == pc' = [pc EXCEPT ![p] = where]

\* The handler is done with the card and leaves the with block.
GiveUp(p) ==
  /\ Goto(p, "leave")
  /\ draft' = [draft EXCEPT ![p] = NoDraft]

\* The handler calls write_card with card c for id i.
Write(p, i, c) ==
  /\ Goto(p, "verify")
  /\ draft' = [draft EXCEPT ![p] = [id |-> i, card |-> c, old |-> NoRaw]]

\* The sidecar of i for bytes r can be read and has their checksum.
Readable(i, r) == r # NoRaw => rawFiles[<<i, r>>].at = r

\* Whole cards only: a file that does not parse is skipped.
Pasted(r) ==
  \E i \in Ids : SourceOf[i] = NoSource /\ Whole(md[i]) /\ md[i].raw = r

\* A tool or a sync run starts.  Only paste looks at the corpus first.
Begin(p) ==
  /\ pc[p] = "idle"
  /\ \E j \in JobsAsked :
       /\ job' = [job EXCEPT ![p] = j]
       /\ Goto(p, IF j.op = "paste" THEN "check" ELSE "lock")
  /\ UNCHANGED <<lockVars, disk, draft>>

\* find_recent_paste_by_fingerprint, before the lock: a card with these bytes,
\* deleted or not, answers the call.  All pastes here are of the last 24h.
CheckDuplicate(p) ==
  /\ pc[p] = "check"
  /\ \/ /\ Pasted(job[p].arg)
        /\ Goto(p, "idle")
        /\ job' = [job EXCEPT ![p] = NoJob]
     \/ /\ ~Pasted(job[p].arg)
        /\ Goto(p, "lock")
        /\ UNCHANGED job
  /\ UNCHANGED <<lockVars, disk, draft>>

\* The steps of entering the lock after which the handler is still waiting.
Enter(p) ==
  /\ pc[p] = "lock"
  /\ \/ OpenLockFile(p) \/ LockHeld(p) \/ Flock(p)
     \/ OpenToken(p) \/ WriteToken(p) \/ TokenWriteFails(p)
  /\ UNCHANGED storeVars

\* The lock was refused or failed: the call returns the error.
Refused(p) ==
  /\ pc[p] = "lock"
  /\ CloseAgain(p)
  /\ Goto(p, "idle")
  /\ job' = [job EXCEPT ![p] = NoJob]
  /\ UNCHANGED <<disk, draft>>

\* The with block is entered.
Entered(p) ==
  /\ pc[p] = "lock"
  /\ PublishToken(p)
  /\ Goto(p, "load")
  /\ UNCHANGED <<disk, job, draft>>

\* load_card_by_id under the lock, the gates, and the changed card.
LoadForUpdate(p) ==
  LET j == job[p] IN
  /\ pc[p] = "load"
  /\ j \in Updates
  /\ LET c == md[j.id]
         admitted == Whole(c) /\ Readable(j.id, c.raw) /\ Admits(j, c)
     IN \/ admitted /\ Write(p, j.id, Updated(j, c))
        \/ ~admitted /\ GiveUp(p)
  /\ UNCHANGED <<lockVars, disk, job>>

\* Seeded fault: only the name has to be free.
LoadForCreationUnchecked(p) ==
  LET j == job[p] IN
  /\ pc[p] = "load"
  /\ j \in Creations
  /\ \E i \in Ids : SourceOf[i] = j.source /\ md[i] = NoCard /\ Write(p, i, Created(j))
  /\ UNCHANGED <<lockVars, disk, job>>

\* disambiguate_slug, or source_id_exists_under_lock, under the lock.
LoadForCreation(p) ==
  LET j == job[p] IN
  /\ pc[p] = "load"
  /\ j \in Creations
  /\ \/ \E i \in Places(j, md) : Write(p, i, Created(j))
     \/ Places(j, md) = {} /\ GiveUp(p)
  /\ UNCHANGED <<lockVars, disk, job>>

\* Seeded fault: the old raw_path is collected even when it is the new one.
VerifyFenceOldAlways(p) ==
  LET now == md[draft[p].id] IN
  /\ pc[p] = "verify"
  /\ \/ /\ Fence(p)
        /\ Goto(p, "open raw")
        /\ draft' = [draft EXCEPT ![p].old = IF Whole(now) THEN now.raw ELSE NoRaw]
     \/ ~Fence(p) /\ GiveUp(p)
  /\ UNCHANGED <<lockVars, disk, job>>

\* write_card, steps 1 to 4: the fence is checked, and the raw_path the file
\* now names is remembered if the new one differs.
VerifyFence(p) ==
  LET now == md[draft[p].id] IN
  /\ pc[p] = "verify"
  /\ \/ /\ Fence(p)
        /\ Goto(p, "open raw")
        /\ draft' = [draft EXCEPT ![p].old =
             IF Whole(now) /\ now.raw # draft[p].card.raw THEN now.raw ELSE NoRaw]
     \/ ~Fence(p) /\ GiveUp(p)
  /\ UNCHANGED <<lockVars, disk, job>>

\* Seeded fault: a failed sidecar write does not stop the card's.
SidecarFailsUnnoticed(p) ==
  LET k == <<draft[p].id, draft[p].card.raw>> IN
  /\ pc[p] \in {"open raw", "write raw", "place raw"}
  /\ \E f \in Failed(rawFiles[k], p, k[2]) : rawFiles' = [rawFiles EXCEPT ![k] = f]
  /\ Goto(p, "reverify")
  /\ UNCHANGED <<lockVars, cardFiles, job, draft>>

\* Step 5, durable_replace of the sidecar of this version: opened, ...
OpenSidecar(p) ==
  LET k == <<draft[p].id, draft[p].card.raw>> IN
  /\ pc[p] = "open raw"
  /\ rawFiles' = [rawFiles EXCEPT ![k] = Opened(@, p)]
  /\ Goto(p, "write raw")
  /\ UNCHANGED <<lockVars, cardFiles, job, draft>>

\* ... written ...
FillSidecar(p) ==
  LET k == <<draft[p].id, draft[p].card.raw>> IN
  /\ pc[p] = "write raw"
  /\ \E f \in Written(rawFiles[k], p, k[2]) : rawFiles' = [rawFiles EXCEPT ![k] = f]
  /\ Goto(p, "place raw")
  /\ UNCHANGED <<lockVars, cardFiles, job, draft>>

\* ... and renamed into place.
PlaceSidecar(p) ==
  LET k == <<draft[p].id, draft[p].card.raw>> IN
  /\ pc[p] = "place raw"
  /\ rawFiles[k].tmp # NoFile
  /\ rawFiles' = [rawFiles EXCEPT ![k] = Renamed(@, p)]
  /\ Goto(p, "reverify")
  /\ UNCHANGED <<lockVars, cardFiles, job, draft>>

\* DISK_WRITE_FAILED, at any of the three.
SidecarFails(p) ==
  LET k == <<draft[p].id, draft[p].card.raw>> IN
  /\ pc[p] \in {"open raw", "write raw", "place raw"}
  /\ \E f \in Failed(rawFiles[k], p, k[2]) : rawFiles' = [rawFiles EXCEPT ![k] = f]
  /\ GiveUp(p)
  /\ UNCHANGED <<lockVars, cardFiles, job>>

\* Seeded fault: the second check is left out.
ReverifyNothing(p) ==
  /\ pc[p] = "reverify"
  /\ Goto(p, "open md")
  /\ UNCHANGED <<lockVars, disk, job, draft>>

\* Step 6: the fence is checked again; the sidecar stays as an orphan.
ReverifyFence(p) ==
  /\ pc[p] = "reverify"
  /\ \/ Fence(p) /\ Goto(p, "open md") /\ UNCHANGED draft
     \/ ~Fence(p) /\ GiveUp(p)
  /\ UNCHANGED <<lockVars, disk, job>>

\* Seeded fault: the .md itself is opened, there is no temporary.
OpenCardInPlace(p) ==
  /\ pc[p] = "open md"
  /\ cardFiles' = [cardFiles EXCEPT ![draft[p].id].at = Empty]
  /\ Goto(p, "write md")
  /\ UNCHANGED <<lockVars, rawFiles, job, draft>>

\* Step 7, durable_replace of the .md: opened, ...
OpenCard(p) ==
  /\ pc[p] = "open md"
  /\ cardFiles' = [cardFiles EXCEPT ![draft[p].id] = Opened(@, p)]
  /\ Goto(p, "write md")
  /\ UNCHANGED <<lockVars, rawFiles, job, draft>>

\* ... written ...
FillCard(p) ==
  LET i == draft[p].id IN
  /\ pc[p] = "write md"
  /\ \E f \in Written(cardFiles[i], p, draft[p].card) :
       cardFiles' = [cardFiles EXCEPT ![i] = f]
  /\ Goto(p, "place md")
  /\ UNCHANGED <<lockVars, rawFiles, job, draft>>

\* ... and renamed into place.
PlaceCard(p) ==
  LET i == draft[p].id IN
  /\ pc[p] = "place md"
  /\ cardFiles[i].tmp # NoFile
  /\ cardFiles' = [cardFiles EXCEPT ![i] = Renamed(@, p)]
  /\ Goto(p, "mark")
  /\ UNCHANGED <<lockVars, rawFiles, job, draft>>

\* DISK_WRITE_FAILED, at any of the three.
CardFails(p) ==
  LET i == draft[p].id IN
  /\ pc[p] \in Window.card
  /\ \E f \in Failed(cardFiles[i], p, draft[p].card) :
       cardFiles' = [cardFiles EXCEPT ![i] = f]
  /\ GiveUp(p)
  /\ UNCHANGED <<lockVars, rawFiles, job>>

\* Step 8: the _index-dirty marker is touched, which Reindex models; an OSError
\* is only logged.
MarkDirty(p) ==
  /\ pc[p] = "mark"
  /\ Goto(p, "gc")
  /\ UNCHANGED <<lockVars, disk, job, draft>>

\* Step 9: the sidecar of the replaced version is unlinked, if it can be.
CollectSidecar(p) ==
  LET d == draft[p] IN
  /\ pc[p] = "gc"
  /\ \/ UNCHANGED rawFiles
     \/ /\ d.old # NoRaw
        /\ rawFiles' = [rawFiles EXCEPT ![<<d.id, d.old>>] = Unlinked(@)]
  /\ GiveUp(p)
  /\ UNCHANGED <<lockVars, cardFiles, job>>

\* Leaving the with block.
Leave(p) ==
  /\ pc[p] = "leave"
  /\ \/ UnlinkJson(p) /\ UNCHANGED <<pc, job>>
     \/ CloseFd(p) /\ Goto(p, "idle") /\ job' = [job EXCEPT ![p] = NoJob]
  /\ UNCHANGED <<disk, draft>>

\* A process dies with all its threads.
Die(o) ==
  LET gone == {p \in Procs : ProcessOf[p] = o} IN
  /\ LockDie(o)
  /\ pc' = [p \in Procs |-> IF p \in gone THEN "idle" ELSE pc[p]]
  /\ job' = [p \in Procs |-> IF p \in gone THEN NoJob ELSE job[p]]
  /\ draft' = [p \in Procs |-> IF p \in gone THEN NoDraft ELSE draft[p]]
  /\ cardFiles' = [i \in Ids |-> Ended(cardFiles[i], gone)]
  /\ rawFiles' = [k \in Ids \X Contents |-> Ended(rawFiles[k], gone)]

\* iter_cards, which takes no lock, unlinks the temporaries it finds of the
\* corpus when they are five minutes old: a writer may be suspended as long.
DiscardOrphan ==
  /\ \/ \E i \in Ids :
          /\ cardFiles[i].tmp # NoFile
          /\ cardFiles' = [cardFiles EXCEPT ![i] = Discarded(@)]
          /\ UNCHANGED rawFiles
     \/ \E k \in Ids \X Contents :
          /\ rawFiles[k].tmp # NoFile
          /\ rawFiles' = [rawFiles EXCEPT ![k] = Discarded(@)]
          /\ UNCHANGED cardFiles
  /\ UNCHANGED <<lockVars, pc, job, draft>>

\* The user removes the lock file.
Clear == ClearLockFile /\ UNCHANGED storeVars

WriterStep(p) ==
  \/ Begin(p) \/ CheckDuplicate(p) \/ Enter(p) \/ Refused(p) \/ Entered(p)
  \/ LoadForUpdate(p) \/ LoadForCreation(p)
  \/ VerifyFence(p)
  \/ OpenSidecar(p) \/ FillSidecar(p) \/ PlaceSidecar(p) \/ SidecarFails(p)
  \/ ReverifyFence(p)
  \/ OpenCard(p) \/ FillCard(p) \/ PlaceCard(p) \/ CardFails(p)
  \/ MarkDirty(p) \/ CollectSidecar(p) \/ Leave(p)

\* The step takes the fence from a writer in window w.
Lost(w) ==
  \E p \in Procs :
    pc[p] \in Window[w] /\ pc'[p] = pc[p] /\ Fence(p) /\ ~Fence(p)'

Displacement == displaced' = displaced \union {w \in DOMAIN Window : Lost(w)}

Next ==
  /\ \/ Clear \/ DiscardOrphan
     \/ \E p \in Procs : WriterStep(p)
     \/ \E o \in Processes : Die(o)
  /\ Displacement

Spec == StoreInit /\ [][Next]_vars

-----------------------------------------------------------------------------

\* Every card is whole and its raw_path names a file with its bytes, whatever
\* dies or fails between the steps of write_card: the sidecar is in its place
\* before the .md, and only a replaced one is collected.
SidecarIntegrity ==
  \A i \in Ids : md[i] # NoCard => Whole(md[i]) /\ Readable(i, md[i].raw)

\* The same of any writers, threads of one process and beside an rm of the
\* lock file included, as long as none was displaced in the few steps after a
\* check: the two checks of write_card leave no other way.
IntactUnlessDisplaced == displaced = {} => SidecarIntegrity

\* Load, change and write under the lock are one step for everyone else: no
\* annotation, pin, deletion or extraction is lost or done on a stale card.
LedgerSpec == Ledger!LedgerSpec

\* With any writers, and an rm of the lock file: what a writer that lost the
\* lock has loaded never reaches a card, unless it lost it after the second
\* check of write_card and before the rename.
LedgerUnlessDisplaced ==
  [][ "card" \notin displaced => [Ledger!LedgerNext]_md ]_vars

\* However often sync runs overlap, die or meet a tombstone, a tweet has one
\* card (source_id_exists_under_lock).
OneCardPerTweet ==
  \A i, j \in Ids :
    md[i] # NoCard /\ md[j] # NoCard
    /\ SourceOf[i] = SourceOf[j] /\ SourceOf[i] # NoSource => i = j

\* A tombstone is lifted by a restore and by nothing else, which leaves the
\* rest of the card alone ("lock-first-then-load" in server.py).
TombstoneSticky ==
  [][\A i \in Ids :
       /\ Whole(md[i]) /\ md[i].deleted
       /\ Whole(md'[i]) /\ md'[i] # md[i]
       => md'[i] = [md[i] EXCEPT !.deleted = FALSE]]_vars

\* "surface 'duplicate of {id}' instead of writing a 2nd card. Defends against
\* accidental double-submit" (paste_bookmark).
OneCardPerPaste ==
  \A i, j \in Ids :
    Whole(md[i]) /\ Whole(md[j])
    /\ SourceOf[i] = NoSource /\ SourceOf[j] = NoSource
    /\ md[i].raw = md[j].raw => i = j

=============================================================================
