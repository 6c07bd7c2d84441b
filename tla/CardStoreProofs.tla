-------------------------- MODULE CardStoreProofs --------------------------
(***************************************************************************)
(* Proofs about the card store, for every corpus, every set of writers and *)
(* every choice of operations.  A step of the store is a step of the lock  *)
(* or leaves it alone, so all that FileLockProofs proves holds here too.   *)
(* The argument rests on the fence alone: who holds it holds it alone, and *)
(* who lost it never gets it back.  Mutual exclusion only adds that nobody *)
(* ever loses it.                                                          *)
(***************************************************************************)
EXTENDS CardStore, FileLockProofs

CardContents == Card \union {NoCard} \union Broken
RawContents  == Contents \union {NoFile} \union Broken

\* The parts of StoreTypeOK that are the store's own.
FileTypes ==
  /\ cardFiles \in [Ids -> Files(CardContents, Procs)]
  /\ \A i \in Ids : Consistent(cardFiles[i])
  /\ rawFiles \in [Ids \X Contents -> Files(RawContents, Procs)]
  /\ \A k \in Ids \X Contents : Consistent(rawFiles[k])

HandlerTypes ==
  /\ pc \in [Procs -> Pcs]
  /\ job \in [Procs -> JobsAsked \union {NoJob}]
  /\ draft \in [Procs -> Drafts \union {NoDraft}]

\* Where the handler is tells how far the lock is.
PcStage(p) ==
  /\ pc[p] = "idle" <=> job[p] = NoJob
  /\ pc[p] \in Writing <=> draft[p] # NoDraft
  /\ pc[p] \in {"idle", "check"} => stage[p] = "out"
  /\ pc[p] = "lock" =>
       stage[p] \in {"out", "opened", "flocked", "staging", "staged", "refused"}
  /\ pc[p] \in Writing \union {"load"} => stage[p] = "in"
  /\ pc[p] = "leave" => stage[p] \in {"in", "closing"}

PcStages == \A p \in Procs : PcStage(p)

\* What is being written is a v2 card, and the sidecar it replaces is another.
V2Drafts ==
  \A p \in Procs : pc[p] \in Writing =>
    /\ draft[p].card.raw \in Contents
    /\ draft[p].old # draft[p].card.raw

StoreTypes == FileTypes /\ HandlerTypes /\ PcStages /\ V2Drafts

\* The places of write_card, spelled out.
LEMMA WritingPlaces ==
  /\ DOMAIN Window = {"sidecar", "card"}
  /\ Window["sidecar"] = {"open raw", "write raw", "place raw", "mark", "gc"}
  /\ Window["card"] = {"open md", "write md", "place md"}
  /\ Writing = {"verify", "open raw", "write raw", "place raw", "reverify",
                "open md", "write md", "place md", "mark", "gc"}
  BY DEF Window, Writing

-----------------------------------------------------------------------------
\* The operations.

\* What a handler passes to write_card is a card, and a v2 one.
LEMMA UpdatedType ==
  ASSUME NEW j \in Updates, NEW c \in Card
  PROVE  Updated(j, c) \in Card /\ Updated(j, c).raw \in Contents
<1> USE CardsAssumption DEF Card, Fields, IsV1
<1>1. /\ j.op \in {"annotate", "pin", "extract", "claim", "delete", "restore",
                   "release", "rewrite"}
      /\ j.op = "annotate" => j.arg \in Notes
      /\ j.op = "pin" => j.arg \in BOOLEAN
      /\ j.op = "rewrite" => j.arg \in Contents
  BY DEF Updates
<1> DEFINE w == [c EXCEPT !.raw = RawBytes(c)]
<1>2. w \in Card /\ w.raw \in Contents
  BY DEF RawBytes
<1> HIDE DEF w
<1>3. CASE j.op = "annotate"
  <2>1. Updated(j, c) = [w EXCEPT !.note = j.arg]
    BY <1>3 DEF Updated, w
  <2> QED BY <1>1, <1>2, <1>3, <2>1
<1>4. CASE j.op = "pin"
  <2>1. Updated(j, c) = [w EXCEPT !.pinned = j.arg]
    BY <1>4 DEF Updated, w
  <2> QED BY <1>1, <1>2, <1>4, <2>1
<1>5. CASE j.op = "delete"
  <2>1. Updated(j, c) = [w EXCEPT !.deleted = TRUE]
    BY <1>5 DEF Updated, w
  <2> QED BY <1>2, <2>1
<1>6. CASE j.op = "restore"
  <2>1. Updated(j, c) = [w EXCEPT !.deleted = FALSE]
    BY <1>6 DEF Updated, w
  <2> QED BY <1>2, <2>1
<1>7. CASE j.op = "extract"
  <2>1. Updated(j, c) = [w EXCEPT !.pending = FALSE, !.claimed = FALSE]
    BY <1>7 DEF Updated, w
  <2> QED BY <1>2, <2>1
<1>8. CASE j.op = "claim"
  <2>1. Updated(j, c) = [w EXCEPT !.claimed = TRUE]
    BY <1>8 DEF Updated, w
  <2> QED BY <1>2, <2>1
<1>9. CASE j.op = "release"
  <2>1. Updated(j, c) = [w EXCEPT !.claimed = FALSE]
    BY <1>9 DEF Updated, w
  <2> QED BY <1>2, <2>1
<1>10. CASE j.op = "rewrite"
  <2>1. Updated(j, c) = [w EXCEPT !.raw = j.arg]
    BY <1>10 DEF Updated, w
  <2> QED BY <1>1, <1>2, <1>10, <2>1
<1> QED
  BY <1>1, <1>3, <1>4, <1>5, <1>6, <1>7, <1>8, <1>9, <1>10

LEMMA CreatedType ==
  ASSUME NEW j \in Creations
  PROVE  Created(j) \in Card /\ Created(j).raw \in Contents
  BY CardsAssumption DEF Creations, Created, Card, Fields, IsV1

-----------------------------------------------------------------------------
\* The lock inside the store.

\* The steps that touch neither the files nor a draft: the way into the lock
\* and out of it.
Quiet ==
  /\ UNCHANGED <<disk, draft>>
  /\ \A p \in Procs : pc'[p] = pc[p] \/ (pc[p] \notin Writing /\ pc'[p] \notin Writing)

\* The steps of a handler that leave the lock and the other handlers alone.
Moves(p) ==
  /\ UNCHANGED lockVars
  /\ \A q \in Procs : q # p => pc'[q] = pc[q] /\ draft'[q] = draft[q]

LEMMA QuietStep ==
  ASSUME HandlerTypes, PcStages,
         \/ Clear \/ UNCHANGED vars
         \/ \E p \in Procs : Begin(p) \/ CheckDuplicate(p) \/ Enter(p) \/ Refused(p)
                             \/ Entered(p) \/ Leave(p)
  PROVE  Quiet
<1> USE WritingPlaces DEF Quiet, HandlerTypes, Goto
<1>1. CASE Clear \/ UNCHANGED vars
  BY <1>1 DEF Clear, vars, storeVars, disk
<1>2. ASSUME NEW p \in Procs, Begin(p) \/ CheckDuplicate(p) PROVE Quiet
  BY <1>2 DEF Begin, CheckDuplicate
<1>3. ASSUME NEW p \in Procs, Enter(p) PROVE Quiet
  BY <1>3 DEF Enter, storeVars, disk
<1>4. ASSUME NEW p \in Procs, Refused(p) \/ Entered(p) PROVE Quiet
  BY <1>4 DEF Refused, Entered, disk
<1>5. ASSUME NEW p \in Procs, Leave(p) PROVE Quiet
  BY <1>5 DEF Leave, disk
<1> QED BY <1>1, <1>2, <1>3, <1>4, <1>5

LEMMA MovesStep ==
  ASSUME HandlerTypes, NEW p \in Procs,
         \/ LoadForUpdate(p) \/ LoadForCreation(p) \/ VerifyFence(p)
         \/ OpenSidecar(p) \/ FillSidecar(p) \/ PlaceSidecar(p) \/ SidecarFails(p)
         \/ ReverifyFence(p) \/ OpenCard(p) \/ FillCard(p) \/ PlaceCard(p) \/ CardFails(p)
         \/ MarkDirty(p) \/ CollectSidecar(p)
  PROVE  Moves(p)
<1> USE DEF Moves, HandlerTypes, Goto, GiveUp
<1>1. CASE LoadForUpdate(p) \/ LoadForCreation(p)
  BY <1>1 DEF LoadForUpdate, LoadForCreation, Write
<1>2. CASE VerifyFence(p) \/ ReverifyFence(p)
  BY <1>2 DEF VerifyFence, ReverifyFence
<1>3. CASE OpenSidecar(p) \/ FillSidecar(p) \/ PlaceSidecar(p) \/ SidecarFails(p)
  BY <1>3 DEF OpenSidecar, FillSidecar, PlaceSidecar, SidecarFails
<1>4. CASE OpenCard(p) \/ FillCard(p) \/ PlaceCard(p) \/ CardFails(p)
  BY <1>4 DEF OpenCard, FillCard, PlaceCard, CardFails
<1>5. CASE MarkDirty(p) \/ CollectSidecar(p)
  BY <1>5 DEF MarkDirty, CollectSidecar
<1> QED BY <1>1, <1>2, <1>3, <1>4, <1>5

LEMMA StepKinds ==
  ASSUME HandlerTypes, PcStages, [Next]_vars
  PROVE  \/ Quiet
         \/ DiscardOrphan
         \/ \E p \in Procs :
              /\ Moves(p)
              /\ \/ LoadForUpdate(p) \/ LoadForCreation(p) \/ VerifyFence(p)
                 \/ OpenSidecar(p) \/ FillSidecar(p) \/ PlaceSidecar(p) \/ SidecarFails(p)
                 \/ ReverifyFence(p)
                 \/ OpenCard(p) \/ FillCard(p) \/ PlaceCard(p) \/ CardFails(p)
                 \/ MarkDirty(p) \/ CollectSidecar(p)
         \/ \E o \in Processes : Die(o)
<1>1. CASE Clear \/ UNCHANGED vars
  BY <1>1, QuietStep
<1>2. ASSUME NEW p \in Procs,
             Begin(p) \/ CheckDuplicate(p) \/ Enter(p) \/ Refused(p) \/ Entered(p) \/ Leave(p)
      PROVE  Quiet
  BY <1>2, QuietStep
<1>3. ASSUME NEW p \in Procs,
             \/ LoadForUpdate(p) \/ LoadForCreation(p) \/ VerifyFence(p)
             \/ OpenSidecar(p) \/ FillSidecar(p) \/ PlaceSidecar(p) \/ SidecarFails(p)
             \/ ReverifyFence(p)
             \/ OpenCard(p) \/ FillCard(p) \/ PlaceCard(p) \/ CardFails(p)
             \/ MarkDirty(p) \/ CollectSidecar(p)
      PROVE  Moves(p)
  BY <1>3, MovesStep
<1> QED BY <1>1, <1>2, <1>3 DEF Next, WriterStep

\* Every step of the store is one of the lock or leaves it alone.
LEMMA LockRefined == [Next]_vars => [LockNext]_lockVars
<1> SUFFICES ASSUME [Next]_vars PROVE [LockNext]_lockVars
  OBVIOUS
<1>1. CASE Clear
  BY <1>1 DEF Clear, LockNext
<1>2. ASSUME NEW p \in Procs, WriterStep(p) PROVE [LockNext]_lockVars
  <2>1. CASE Enter(p)
    BY <2>1 DEF Enter, LockNext, LockStep
  <2>2. CASE Refused(p) \/ Entered(p) \/ Leave(p)
    BY <2>2 DEF Refused, Entered, Leave, LockNext, LockStep
  <2>3. CASE Begin(p) \/ CheckDuplicate(p)
    BY <2>3 DEF Begin, CheckDuplicate
  <2>4. CASE LoadForUpdate(p) \/ LoadForCreation(p) \/ VerifyFence(p) \/ ReverifyFence(p)
    BY <2>4 DEF LoadForUpdate, LoadForCreation, VerifyFence, ReverifyFence
  <2>5. CASE OpenSidecar(p) \/ FillSidecar(p) \/ PlaceSidecar(p) \/ SidecarFails(p)
    BY <2>5 DEF OpenSidecar, FillSidecar, PlaceSidecar, SidecarFails
  <2>6. CASE OpenCard(p) \/ FillCard(p) \/ PlaceCard(p) \/ CardFails(p)
    BY <2>6 DEF OpenCard, FillCard, PlaceCard, CardFails
  <2>7. CASE MarkDirty(p) \/ CollectSidecar(p)
    BY <2>7 DEF MarkDirty, CollectSidecar
  <2> QED BY <1>2, <2>1, <2>2, <2>3, <2>4, <2>5, <2>6, <2>7 DEF WriterStep
<1>3. ASSUME NEW o \in Processes, Die(o) PROVE [LockNext]_lockVars
  BY <1>3 DEF Die, LockNext
<1>4. CASE DiscardOrphan \/ UNCHANGED vars
  BY <1>4 DEF DiscardOrphan, vars
<1> QED BY <1>1, <1>2, <1>3, <1>4 DEF Next

-----------------------------------------------------------------------------
\* Types.

LEMMA DraftFacts ==
  ASSUME HandlerTypes, PcStages, V2Drafts, NEW p \in Procs, pc[p] \in Writing
  PROVE  /\ draft[p] \in Drafts
         /\ draft[p].id \in Ids
         /\ draft[p].card \in Card
         /\ draft[p].card \in CardContents
         /\ draft[p].card \notin {NoCard, NoFile, Empty, Torn}
         /\ draft[p].card.raw \in Contents
         /\ draft[p].card.raw \in RawContents
         /\ draft[p].card.raw \notin {NoRaw, NoFile, Empty, Torn}
         /\ <<draft[p].id, draft[p].card.raw>> \in Ids \X Contents
         /\ draft[p].old \in Contents \union {NoRaw}
         /\ draft[p].old # draft[p].card.raw
<1>1. draft[p] \in Drafts
  BY DEF PcStages, PcStage, HandlerTypes
<1>2. draft[p].card.raw \in Contents /\ draft[p].old # draft[p].card.raw
  BY DEF V2Drafts
<1> QED
  BY <1>1, <1>2, NoCardAssumption, FilesAssumption, CardsAssumption
  DEF Drafts, CardContents, RawContents

LEMMA ContentsFacts ==
  /\ Broken \subseteq CardContents /\ Broken \subseteq RawContents
  /\ NoFile \in RawContents
  BY DEF CardContents, RawContents

LEMMA FileTypesStep ==
  ASSUME StoreTypes, [Next]_vars PROVE FileTypes'
<1> USE ContentsFacts DEF StoreTypes, FileTypes
<1>1. CASE Quiet
  BY <1>1 DEF Quiet, disk
<1>2. CASE DiscardOrphan
  BY <1>2, DiscardedFile DEF DiscardOrphan
<1>3. ASSUME NEW p \in Procs,
             \/ LoadForUpdate(p) \/ LoadForCreation(p) \/ VerifyFence(p) \/ ReverifyFence(p)
             \/ MarkDirty(p)
      PROVE  FileTypes'
  BY <1>3 DEF LoadForUpdate, LoadForCreation, VerifyFence, ReverifyFence, MarkDirty, disk
<1>4. ASSUME NEW p \in Procs,
             OpenSidecar(p) \/ FillSidecar(p) \/ PlaceSidecar(p) \/ SidecarFails(p)
      PROVE  FileTypes'
  <2> DEFINE k == <<draft[p].id, draft[p].card.raw>>
  <2>1. pc[p] \in Writing
    BY <1>4, WritingPlaces DEF OpenSidecar, FillSidecar, PlaceSidecar, SidecarFails
  <2>2. /\ k \in Ids \X Contents /\ k[2] \in RawContents /\ k[2] # NoFile
        /\ rawFiles[k] \in Files(RawContents, Procs) /\ Consistent(rawFiles[k])
    BY <2>1, DraftFacts
  <2>3. UNCHANGED cardFiles
    BY <1>4 DEF OpenSidecar, FillSidecar, PlaceSidecar, SidecarFails
  <2>4. SUFFICES \E f \in Files(RawContents, Procs) :
                   Consistent(f) /\ rawFiles' = [rawFiles EXCEPT ![k] = f]
    BY <2>2, <2>3
  <2>5. CASE OpenSidecar(p)
    BY <2>2, <2>5, OpenedFile DEF OpenSidecar
  <2>6. CASE FillSidecar(p)
    <3>1. PICK f \in Written(rawFiles[k], p, k[2]) : rawFiles' = [rawFiles EXCEPT ![k] = f]
      BY <2>6 DEF FillSidecar
    <3>2. f \in Files(RawContents, Procs) /\ Consistent(f)
      <4> HIDE DEF k
      <4> QED BY <2>2, <3>1, WrittenFile
    <3> QED BY <3>1, <3>2
  <2>7. CASE PlaceSidecar(p)
    <3>1. rawFiles[k].tmp # NoFile /\ rawFiles' = [rawFiles EXCEPT ![k] = Renamed(rawFiles[k], p)]
      BY <2>7 DEF PlaceSidecar
    <3> HIDE DEF k
    <3> QED BY <2>2, <3>1, RenamedFile
  <2>8. CASE SidecarFails(p)
    <3>1. PICK f \in Failed(rawFiles[k], p, k[2]) : rawFiles' = [rawFiles EXCEPT ![k] = f]
      BY <2>8 DEF SidecarFails
    <3>2. f \in Files(RawContents, Procs) /\ Consistent(f)
      <4> HIDE DEF k
      <4> QED BY <2>2, <3>1, FailedFile
    <3> QED BY <3>1, <3>2
  <2> QED BY <1>4, <2>5, <2>6, <2>7, <2>8
<1>5. ASSUME NEW p \in Procs, OpenCard(p) \/ FillCard(p) \/ PlaceCard(p) \/ CardFails(p)
      PROVE  FileTypes'
  <2> DEFINE i == draft[p].id
             c == draft[p].card
  <2>1. pc[p] \in Writing
    BY <1>5, WritingPlaces DEF OpenCard, FillCard, PlaceCard, CardFails, Window
  <2>2. /\ i \in Ids /\ c \in CardContents /\ c # NoFile
        /\ cardFiles[i] \in Files(CardContents, Procs) /\ Consistent(cardFiles[i])
    BY <2>1, DraftFacts
  <2>3. UNCHANGED rawFiles
    BY <1>5 DEF OpenCard, FillCard, PlaceCard, CardFails
  <2>4. SUFFICES \E f \in Files(CardContents, Procs) :
                   Consistent(f) /\ cardFiles' = [cardFiles EXCEPT ![i] = f]
    BY <2>2, <2>3
  <2>5. CASE OpenCard(p)
    BY <2>2, <2>5, OpenedFile DEF OpenCard
  <2>6. CASE FillCard(p)
    <3>1. PICK f \in Written(cardFiles[i], p, c) : cardFiles' = [cardFiles EXCEPT ![i] = f]
      BY <2>6 DEF FillCard
    <3>2. f \in Files(CardContents, Procs) /\ Consistent(f)
      <4> HIDE DEF i, c
      <4> QED BY <2>2, <3>1, WrittenFile
    <3> QED BY <3>1, <3>2
  <2>7. CASE PlaceCard(p)
    <3>1. cardFiles[i].tmp # NoFile
            /\ cardFiles' = [cardFiles EXCEPT ![i] = Renamed(cardFiles[i], p)]
      BY <2>7 DEF PlaceCard
    <3> HIDE DEF i
    <3> QED BY <2>2, <3>1, RenamedFile
  <2>8. CASE CardFails(p)
    <3>1. PICK f \in Failed(cardFiles[i], p, c) : cardFiles' = [cardFiles EXCEPT ![i] = f]
      BY <2>8 DEF CardFails
    <3>2. f \in Files(CardContents, Procs) /\ Consistent(f)
      <4> HIDE DEF i, c
      <4> QED BY <2>2, <3>1, FailedFile
    <3> QED BY <3>1, <3>2
  <2> QED BY <1>5, <2>5, <2>6, <2>7, <2>8
<1>6. ASSUME NEW p \in Procs, CollectSidecar(p) PROVE FileTypes'
  <2> DEFINE k == <<draft[p].id, draft[p].old>>
  <2>1. UNCHANGED cardFiles
    BY <1>6 DEF CollectSidecar
  <2>2. pc[p] \in Writing
    BY <1>6, WritingPlaces DEF CollectSidecar
  <2>3. CASE UNCHANGED rawFiles
    BY <2>1, <2>3
  <2>4. CASE draft[p].old # NoRaw /\ rawFiles' = [rawFiles EXCEPT ![k] = Unlinked(rawFiles[k])]
    <3>1. k \in Ids \X Contents
      BY <2>2, <2>4, DraftFacts
    <3> HIDE DEF k
    <3> QED BY <2>1, <2>4, <3>1, UnlinkedFile
  <2> QED BY <1>6, <2>3, <2>4 DEF CollectSidecar
<1>7. ASSUME NEW o \in Processes, Die(o) PROVE FileTypes'
  BY <1>7, EndedFile DEF Die
<1> QED
  BY <1>1, <1>2, <1>3, <1>4, <1>5, <1>6, <1>7, StepKinds

\* What the handlers make of a card they could load.
LEMMA LoadedDraft ==
  ASSUME StoreTypes, NEW p \in Procs, LoadForUpdate(p) \/ LoadForCreation(p)
  PROVE  /\ pc[p] = "load" /\ UNCHANGED <<lockVars, disk, job>>
         /\ \/ GiveUp(p)
            \/ \E i \in Ids, c \in Card :
                 /\ Write(p, i, c) /\ c.raw \in Contents
                 /\ \/ \E j \in Updates : j.id = i /\ Whole(md[i]) /\ Admits(j, md[i])
                                          /\ c = Updated(j, md[i])
                    \/ \E j \in Creations : i \in Places(j, md) /\ c = Created(j)
<1>1. CASE LoadForUpdate(p)
  <2>1. /\ pc[p] = "load" /\ UNCHANGED <<lockVars, disk, job>> /\ job[p] \in Updates
    BY <1>1 DEF LoadForUpdate
  <2>2. GiveUp(p) \/ /\ Whole(md[job[p].id]) /\ Admits(job[p], md[job[p].id])
                     /\ Write(p, job[p].id, Updated(job[p], md[job[p].id]))
    BY <1>1 DEF LoadForUpdate
  <2>3. job[p].id \in Ids
    BY <2>1 DEF Updates
  <2>4. Whole(md[job[p].id]) => md[job[p].id] \in Card
    BY <2>3 DEF StoreTypes, FileTypes, CardContents, Files, Whole, md
  <2> QED BY <2>1, <2>2, <2>3, <2>4, UpdatedType
<1>2. CASE LoadForCreation(p)
  <2>1. /\ pc[p] = "load" /\ UNCHANGED <<lockVars, disk, job>> /\ job[p] \in Creations
        /\ GiveUp(p) \/ \E i \in Places(job[p], md) : Write(p, i, Created(job[p]))
    BY <1>2 DEF LoadForCreation
  <2> QED BY <2>1, CreatedType DEF Places
<1> QED BY <1>1, <1>2

\* The fence was there at the first check, and the draft is otherwise the same.
LEMMA CheckedDraft ==
  ASSUME StoreTypes, NEW p \in Procs, VerifyFence(p)
  PROVE  /\ pc[p] = "verify" /\ UNCHANGED <<lockVars, disk, job>>
         /\ \/ GiveUp(p)
            \/ \E r \in Contents \union {NoRaw} :
                 /\ Fence(p) /\ Goto(p, "open raw") /\ r # draft[p].card.raw
                 /\ draft' = [draft EXCEPT ![p] = [draft[p] EXCEPT !.old = r]]
                 /\ [draft[p] EXCEPT !.old = r] \in Drafts
<1> DEFINE now == md[draft[p].id]
           r == IF Whole(now) /\ now.raw # draft[p].card.raw THEN now.raw ELSE NoRaw
<1>1. /\ pc[p] = "verify" /\ UNCHANGED <<lockVars, disk, job>>
      /\ \/ GiveUp(p)
         \/ Fence(p) /\ Goto(p, "open raw") /\ draft' = [draft EXCEPT ![p].old = r]
  BY DEF VerifyFence
<1>2. pc[p] \in Writing
  BY <1>1, WritingPlaces
<1>3. /\ draft[p] \in Drafts /\ draft[p].id \in Ids
      /\ draft[p].card.raw \in Contents
  BY <1>2, DraftFacts DEF StoreTypes
<1>4. Whole(now) => now.raw \in Contents \union {NoRaw}
  <2>1. Whole(now) => now \in Card
    BY <1>3 DEF StoreTypes, FileTypes, CardContents, Files, Whole, md
  <2> QED BY <2>1 DEF Card, Fields
<1>5. r \in Contents \union {NoRaw} /\ r # draft[p].card.raw
  BY <1>3, <1>4, CardsAssumption
<1>6. [draft[p] EXCEPT !.old = r] \in Drafts
  BY <1>3, <1>5 DEF Drafts
<1> HIDE DEF r
<1>7. draft' = [draft EXCEPT ![p].old = r] =>
        draft' = [draft EXCEPT ![p] = [draft[p] EXCEPT !.old = r]]
  OBVIOUS
<1> QED BY <1>1, <1>5, <1>6, <1>7

\* How the other steps of write_card move.
LEMMA WriteSteps ==
  ASSUME NEW p \in Procs,
         \/ OpenSidecar(p) \/ FillSidecar(p) \/ PlaceSidecar(p) \/ SidecarFails(p)
         \/ ReverifyFence(p)
         \/ OpenCard(p) \/ FillCard(p) \/ PlaceCard(p) \/ CardFails(p)
         \/ MarkDirty(p) \/ CollectSidecar(p)
  PROVE  /\ pc[p] \in Writing \ {"verify"} /\ UNCHANGED <<lockVars, job>>
         /\ \/ GiveUp(p)
            \/ UNCHANGED draft /\ \E w \in Writing \ {"verify", "open raw"} : Goto(p, w)
<1> USE WritingPlaces
<1>1. CASE OpenSidecar(p)
  BY <1>1 DEF OpenSidecar
<1>2. CASE FillSidecar(p)
  BY <1>2 DEF FillSidecar
<1>3. CASE PlaceSidecar(p)
  BY <1>3 DEF PlaceSidecar
<1>4. CASE SidecarFails(p)
  BY <1>4 DEF SidecarFails
<1>5. CASE ReverifyFence(p)
  BY <1>5 DEF ReverifyFence
<1>6. CASE OpenCard(p)
  BY <1>6 DEF OpenCard
<1>7. CASE FillCard(p)
  BY <1>7 DEF FillCard
<1>8. CASE PlaceCard(p)
  BY <1>8 DEF PlaceCard
<1>9. CASE CardFails(p)
  BY <1>9 DEF CardFails, Window
<1>10. CASE MarkDirty(p)
  BY <1>10 DEF MarkDirty
<1>11. CASE CollectSidecar(p)
  BY <1>11 DEF CollectSidecar
<1> QED BY <1>1, <1>2, <1>3, <1>4, <1>5, <1>6, <1>7, <1>8, <1>9, <1>10, <1>11

LEMMA HandlerTypesStep ==
  ASSUME StoreTypes, [Next]_vars PROVE HandlerTypes'
<1> USE CardStoreAssumption DEF StoreTypes, HandlerTypes, Pcs, Writing, Goto, GiveUp, Window
<1>1. CASE Clear \/ DiscardOrphan \/ UNCHANGED vars
  BY <1>1 DEF Clear, DiscardOrphan, vars, storeVars
<1>2. ASSUME NEW p \in Procs, Begin(p) \/ CheckDuplicate(p) PROVE HandlerTypes'
  BY <1>2 DEF Begin, CheckDuplicate
<1>3. ASSUME NEW p \in Procs, Enter(p) PROVE HandlerTypes'
  BY <1>3 DEF Enter, storeVars
<1>4. ASSUME NEW p \in Procs, Refused(p) \/ Entered(p) \/ Leave(p) PROVE HandlerTypes'
  BY <1>4 DEF Refused, Entered, Leave
<1>5. ASSUME NEW p \in Procs, LoadForUpdate(p) \/ LoadForCreation(p) PROVE HandlerTypes'
  <2>1. ASSUME NEW i \in Ids, NEW c \in Card, Write(p, i, c), UNCHANGED job
        PROVE  HandlerTypes'
    <3>1. [id |-> i, card |-> c, old |-> NoRaw] \in Drafts
      BY DEF Drafts
    <3> QED BY <2>1, <3>1 DEF Write
  <2>2. CASE GiveUp(p) /\ UNCHANGED job
    BY <2>2
  <2> QED BY <1>5, <2>1, <2>2, LoadedDraft
<1>6. ASSUME NEW p \in Procs, VerifyFence(p) PROVE HandlerTypes'
  <2>1. CASE GiveUp(p) /\ UNCHANGED job
    BY <2>1
  <2>2. ASSUME NEW d \in Drafts, draft' = [draft EXCEPT ![p] = d], Goto(p, "open raw"),
               UNCHANGED job
        PROVE  HandlerTypes'
    BY <2>2
  <2> QED BY <1>6, <2>1, <2>2, CheckedDraft
<1>7. ASSUME NEW p \in Procs,
             \/ OpenSidecar(p) \/ FillSidecar(p) \/ PlaceSidecar(p) \/ SidecarFails(p)
             \/ ReverifyFence(p)
             \/ OpenCard(p) \/ FillCard(p) \/ PlaceCard(p) \/ CardFails(p)
             \/ MarkDirty(p) \/ CollectSidecar(p)
      PROVE  HandlerTypes'
  <2>1. pc[p] \in Writing /\ UNCHANGED <<lockVars, job>>
    BY <1>7, WriteSteps
  <2>2. CASE GiveUp(p)
    BY <2>1, <2>2
  <2>3. ASSUME UNCHANGED draft, NEW w \in Writing, Goto(p, w) PROVE HandlerTypes'
    BY <2>1, <2>3
  <2> QED BY <1>7, <2>2, <2>3, WriteSteps
<1>10. ASSUME NEW o \in Processes, Die(o) PROVE HandlerTypes'
  BY <1>10 DEF Die
<1> QED
  BY <1>1, <1>2, <1>3, <1>4, <1>5, <1>6, <1>7, <1>10
  DEF Next, WriterStep

LEMMA V2DraftsStep ==
  ASSUME StoreTypes, [Next]_vars PROVE V2Drafts'
<1> USE WritingPlaces DEF StoreTypes, HandlerTypes, V2Drafts, Goto, GiveUp
<1>1. CASE Quiet
  BY <1>1 DEF Quiet
<1>2. CASE DiscardOrphan
  BY <1>2 DEF DiscardOrphan
<1>3. ASSUME NEW p \in Procs, Moves(p), LoadForUpdate(p) \/ LoadForCreation(p) PROVE V2Drafts'
  <2>1. ASSUME NEW i \in Ids, NEW c \in Card, Write(p, i, c), c.raw \in Contents
        PROVE  V2Drafts'
    BY <2>1, CardsAssumption DEF Write
  <2>2. CASE GiveUp(p)
    BY <2>2
  <2> QED BY <1>3, <2>1, <2>2, LoadedDraft
<1>4. ASSUME NEW p \in Procs, Moves(p), VerifyFence(p) PROVE V2Drafts'
  <2>1. CASE GiveUp(p)
    BY <2>1
  <2>2. ASSUME NEW r \in Contents \union {NoRaw}, r # draft[p].card.raw,
               draft' = [draft EXCEPT ![p] = [draft[p] EXCEPT !.old = r]],
               Goto(p, "open raw"), pc[p] = "verify"
        PROVE  V2Drafts'
    <3>1. draft[p] \in Drafts /\ draft[p].card.raw \in Contents
      BY <2>2, DraftFacts
    <3>2. draft'[p].card = draft[p].card /\ draft'[p].old = r
      BY <2>2, <3>1 DEF Drafts
    <3> QED BY <2>2, <3>1, <3>2
  <2> QED BY <1>4, <2>1, <2>2, CheckedDraft
<1>5. ASSUME NEW p \in Procs,
             \/ OpenSidecar(p) \/ FillSidecar(p) \/ PlaceSidecar(p) \/ SidecarFails(p)
             \/ ReverifyFence(p)
             \/ OpenCard(p) \/ FillCard(p) \/ PlaceCard(p) \/ CardFails(p)
             \/ MarkDirty(p) \/ CollectSidecar(p)
      PROVE  V2Drafts'
  <2>1. pc[p] \in Writing /\ UNCHANGED <<lockVars, job>>
    BY <1>5, WriteSteps
  <2>2. CASE GiveUp(p)
    BY <2>1, <2>2
  <2>3. ASSUME UNCHANGED draft, NEW w \in Writing, Goto(p, w) PROVE V2Drafts'
    BY <2>1, <2>3
  <2> QED BY <1>5, <2>2, <2>3, WriteSteps
<1>8. ASSUME NEW o \in Processes, Die(o) PROVE V2Drafts'
  BY <1>8 DEF Die
<1> QED
  BY <1>1, <1>2, <1>3, <1>4, <1>5, <1>8, StepKinds

LEMMA PcStagesStep ==
  ASSUME LockTypeOK, StoreTypes, [Next]_vars PROVE PcStages'
<1> USE NoDraftAssumption, CardStoreAssumption
    DEF StoreTypes, HandlerTypes, PcStages, PcStage, Writing, Window, Pcs, Stages,
        Goto, GiveUp, lockVars
<1>0. stage \in [Procs -> Stages]
  BY DEF LockTypeOK
<1>1. CASE Clear \/ DiscardOrphan \/ UNCHANGED vars
  <2>1. UNCHANGED <<stage, pc, job, draft>>
    BY <1>1 DEF Clear, DiscardOrphan, vars, storeVars, ClearLockFile
  <2> QED BY <1>0, <2>1
<1>2. ASSUME NEW p \in Procs, Begin(p) \/ CheckDuplicate(p) PROVE PcStages'
  <2>1. UNCHANGED <<stage, draft>> /\ pc[p] \in {"idle", "check"}
    BY <1>2 DEF Begin, CheckDuplicate
  <2>2. CASE Begin(p)
    <3>1. PICK j \in JobsAsked :
            /\ job' = [job EXCEPT ![p] = j] /\ j # NoJob
            /\ Goto(p, IF j.op = "paste" THEN "check" ELSE "lock")
      BY <2>2 DEF Begin
    <3> QED BY <1>0, <2>1, <3>1
  <2>3. CASE CheckDuplicate(p)
    <3>1. \/ Goto(p, "idle") /\ job' = [job EXCEPT ![p] = NoJob]
          \/ Goto(p, "lock") /\ UNCHANGED job
      BY <2>3 DEF CheckDuplicate
    <3>2. pc[p] = "check"
      BY <2>3 DEF CheckDuplicate
    <3>3. CASE Goto(p, "idle") /\ job' = [job EXCEPT ![p] = NoJob]
      BY <1>0, <2>1, <3>2, <3>3
    <3>4. CASE Goto(p, "lock") /\ UNCHANGED job
      BY <1>0, <2>1, <3>2, <3>4
    <3> QED BY <3>1, <3>3, <3>4
  <2> QED BY <1>2, <2>2, <2>3
<1>3. ASSUME NEW p \in Procs, Enter(p) PROVE PcStages'
  <2>1. UNCHANGED <<pc, job, draft>> /\ pc[p] = "lock"
    BY <1>3 DEF Enter, storeVars
  <2>2. \E w \in {"opened", "flocked", "staging", "staged", "refused"} :
          stage' = [stage EXCEPT ![p] = w]
    BY <1>3 DEF Enter, OpenLockFile, LockHeld, Flock, OpenToken, WriteToken, TokenWriteFails
  <2> QED BY <1>0, <2>1, <2>2
<1>4. ASSUME NEW p \in Procs, Refused(p) \/ Entered(p) \/ Leave(p) PROVE PcStages'
  <2>1. CASE Refused(p)
    <3>1. /\ pc[p] = "lock" /\ stage' = [stage EXCEPT ![p] = "out"] /\ UNCHANGED draft
          /\ Goto(p, "idle") /\ job' = [job EXCEPT ![p] = NoJob]
      BY <2>1 DEF Refused, CloseAgain
    <3> QED BY <1>0, <3>1
  <2>2. CASE Entered(p)
    <3>1. /\ pc[p] = "lock" /\ stage' = [stage EXCEPT ![p] = "in"] /\ UNCHANGED draft
          /\ Goto(p, "load") /\ UNCHANGED job
      BY <2>2 DEF Entered, PublishToken
    <3> QED BY <1>0, <3>1
  <2>3. CASE Leave(p)
    <3>1. /\ pc[p] = "leave" /\ UNCHANGED draft
          /\ \/ stage' = [stage EXCEPT ![p] = "closing"] /\ UNCHANGED <<pc, job>>
             \/ /\ stage' = [stage EXCEPT ![p] = "out"]
                /\ Goto(p, "idle") /\ job' = [job EXCEPT ![p] = NoJob]
      BY <2>3 DEF Leave, UnlinkJson, CloseFd
    <3>2. CASE stage' = [stage EXCEPT ![p] = "closing"] /\ UNCHANGED <<pc, job>>
      BY <1>0, <3>1, <3>2
    <3>3. CASE stage' = [stage EXCEPT ![p] = "out"] /\ Goto(p, "idle")
               /\ job' = [job EXCEPT ![p] = NoJob]
      BY <1>0, <3>1, <3>3
    <3> QED BY <3>1, <3>2, <3>3
  <2> QED BY <1>4, <2>1, <2>2, <2>3
<1>5. ASSUME NEW p \in Procs, LoadForUpdate(p) \/ LoadForCreation(p) PROVE PcStages'
  <2>1. UNCHANGED <<stage, job>> /\ pc[p] = "load"
    BY <1>5 DEF LoadForUpdate, LoadForCreation
  <2>2. CASE GiveUp(p)
    BY <1>0, <2>1, <2>2
  <2>3. ASSUME NEW i \in Ids, NEW c \in Card, Write(p, i, c) PROVE PcStages'
    <3>1. draft'[p] \in Drafts
      BY <2>3 DEF Write, Drafts
    <3> QED BY <1>0, <2>1, <2>3, <3>1 DEF Write
  <2> QED BY <1>5, <2>2, <2>3, LoadedDraft
<1>6. ASSUME NEW p \in Procs, VerifyFence(p) PROVE PcStages'
  <2>1. UNCHANGED <<stage, job>> /\ pc[p] = "verify"
    BY <1>6 DEF VerifyFence
  <2>2. CASE GiveUp(p)
    BY <1>0, <2>1, <2>2
  <2>3. ASSUME NEW d \in Drafts, draft' = [draft EXCEPT ![p] = d], Goto(p, "open raw")
        PROVE  PcStages'
    BY <1>0, <2>1, <2>3
  <2> QED BY <1>6, <2>2, <2>3, CheckedDraft
<1>7. ASSUME NEW p \in Procs,
             \/ OpenSidecar(p) \/ FillSidecar(p) \/ PlaceSidecar(p) \/ SidecarFails(p)
             \/ ReverifyFence(p)
             \/ OpenCard(p) \/ FillCard(p) \/ PlaceCard(p) \/ CardFails(p)
             \/ MarkDirty(p) \/ CollectSidecar(p)
      PROVE  PcStages'
  <2>1. pc[p] \in Writing /\ UNCHANGED <<lockVars, job>>
    BY <1>7, WriteSteps
  <2>2. CASE GiveUp(p)
    BY <1>0, <2>1, <2>2
  <2>3. ASSUME UNCHANGED draft, NEW w \in Writing, Goto(p, w) PROVE PcStages'
    BY <1>0, <2>1, <2>3
  <2> QED BY <1>7, <2>2, <2>3, WriteSteps
<1>10. ASSUME NEW o \in Processes, Die(o) PROVE PcStages'
  BY <1>0, <1>10 DEF Die, LockDie
<1> QED
  BY <1>1, <1>2, <1>3, <1>4, <1>5, <1>6, <1>7, <1>10
  DEF Next, WriterStep

LEMMA StoreTypesStep ==
  ASSUME LockTypeOK, StoreTypes, [Next]_vars PROVE StoreTypes'
  BY FileTypesStep, HandlerTypesStep, V2DraftsStep, PcStagesStep DEF StoreTypes

-----------------------------------------------------------------------------
\* The fence.

LEMMA FencedAlone ==
  ASSUME LockIInv, StoreTypes, NEW p \in Procs, NEW q \in Procs,
         pc[p] \in Writing, pc[q] \in Writing, Fence(p), Fence(q)
  PROVE  p = q
  BY DEF LockIInv, TokensDistinct, StoreTypes, PcStages, PcStage, Fence, Holding

LEMMA FenceNotRegained ==
  ASSUME LockIInv, StoreTypes, PcStages', [Next]_vars, NEW p \in Procs,
         pc[p] \in Writing, pc'[p] \in Writing, Fence(p)'
  PROVE  Fence(p)
  BY LockRefined, FenceStep DEF StoreTypes, PcStages, PcStage

LEMMA DisplacedStep ==
  ASSUME [Next]_vars
  PROVE  /\ displaced \subseteq displaced'
         /\ \A p \in Procs, w \in {"sidecar", "card"} :
              pc[p] \in Window[w] /\ pc'[p] = pc[p] /\ Fence(p) /\ ~Fence(p)'
                => w \in displaced'
<1>1. CASE Displacement
  BY <1>1, WritingPlaces DEF Displacement, Lost
<1>2. CASE UNCHANGED vars
  BY <1>2 DEF vars, lockVars, Fence
<1> QED BY <1>1, <1>2 DEF Next

\* A writer in a window has the fence, unless one was displaced there.
Fenced ==
  \A p \in Procs :
    /\ "card" \notin displaced /\ pc[p] \in Window["card"] => Fence(p)
    /\ displaced = {} /\ pc[p] \in Window["sidecar"] => Fence(p)

\* A window is entered by a check or from the other one.
LEMMA EnterWindow ==
  ASSUME StoreTypes, [Next]_vars, NEW p \in Procs, pc'[p] # pc[p],
         pc'[p] \in Window["sidecar"] \union Window["card"]
  PROVE  /\ UNCHANGED lockVars
         /\ \/ Fence(p)
            \/ pc'[p] \in Window["sidecar"] /\ pc[p] \in Window["sidecar"] \union Window["card"]
            \/ pc'[p] \in Window["card"] /\ pc[p] \in Window["card"]
<1> USE WritingPlaces DEF StoreTypes, HandlerTypes, Goto, GiveUp
<1>1. CASE Quiet
  BY <1>1 DEF Quiet
<1>2. CASE DiscardOrphan
  BY <1>2 DEF DiscardOrphan
<1>3. ASSUME NEW o \in Processes, Die(o) PROVE FALSE
  BY <1>3 DEF Die
<1>4. ASSUME NEW q \in Procs, Moves(q), q # p PROVE FALSE
  BY <1>4 DEF Moves
<1>5. CASE LoadForUpdate(p) \/ LoadForCreation(p)
  <2>1. pc[p] = "load" /\ pc'[p] \in {"leave", "verify"}
    BY <1>5, LoadedDraft DEF Write
  <2> QED BY <2>1
<1>6. CASE VerifyFence(p)
  <2>1. Fence(p) \/ pc'[p] = "leave"
    BY <1>6 DEF VerifyFence
  <2> QED BY <1>6, <2>1 DEF VerifyFence
<1>7. CASE OpenSidecar(p) \/ FillSidecar(p)
  BY <1>7 DEF OpenSidecar, FillSidecar
<1>8. CASE PlaceSidecar(p) \/ SidecarFails(p)
  <2>1. pc'[p] \in {"reverify", "leave"}
    BY <1>8 DEF PlaceSidecar, SidecarFails
  <2> QED BY <2>1
<1>9. CASE ReverifyFence(p)
  BY <1>9 DEF ReverifyFence
<1>10. CASE OpenCard(p) \/ FillCard(p)
  BY <1>10 DEF OpenCard, FillCard
<1>11. CASE PlaceCard(p)
  BY <1>11 DEF PlaceCard
<1>12. CASE CardFails(p)
  <2>1. pc'[p] = "leave"
    BY <1>12 DEF CardFails
  <2> QED BY <2>1
<1>13. CASE MarkDirty(p) \/ CollectSidecar(p)
  BY <1>13 DEF MarkDirty, CollectSidecar
<1> QED
  BY <1>1, <1>2, <1>3, <1>4, <1>5, <1>6, <1>7, <1>8, <1>9, <1>10, <1>11, <1>12, <1>13,
     StepKinds

LEMMA FencedStep ==
  ASSUME StoreTypes, Fenced, [Next]_vars PROVE Fenced'
<1> SUFFICES ASSUME NEW p \in Procs
             PROVE  /\ "card" \notin displaced' /\ pc'[p] \in Window["card"] => Fence(p)'
                    /\ displaced' = {} /\ pc'[p] \in Window["sidecar"] => Fence(p)'
  BY DEF Fenced
<1>0. /\ "card" \notin displaced' => "card" \notin displaced
      /\ displaced' = {} => displaced = {} /\ "card" \notin displaced
  BY DisplacedStep
<1>1. CASE pc'[p] = pc[p]
  BY <1>0, <1>1, DisplacedStep DEF Fenced
<1>2. CASE pc'[p] # pc[p]
  <2>1. UNCHANGED lockVars => Fence(p)' = Fence(p)
    BY DEF lockVars, Fence
  <2>2. CASE "card" \notin displaced' /\ pc'[p] \in Window["card"]
    <3>1. UNCHANGED lockVars /\ (Fence(p) \/ pc[p] \in Window["card"])
      BY <1>2, <2>2, EnterWindow, WritingPlaces
    <3> QED BY <1>0, <2>1, <2>2, <3>1 DEF Fenced
  <2>3. CASE displaced' = {} /\ pc'[p] \in Window["sidecar"]
    <3>1. /\ UNCHANGED lockVars
          /\ Fence(p) \/ pc[p] \in Window["card"] \/ pc[p] \in Window["sidecar"]
      BY <1>2, <2>3, EnterWindow, WritingPlaces
    <3> QED BY <1>0, <2>1, <2>3, <3>1 DEF Fenced
  <2> QED BY <2>2, <2>3
<1> QED BY <1>1, <1>2

\* What two writers may not both do at a time.
LEMMA OneInWindow ==
  ASSUME LockIInv, StoreTypes, Fenced, NEW p \in Procs, NEW q \in Procs,
         \/ /\ "card" \notin displaced
            /\ pc[p] \in Window["card"] /\ pc[q] \in Window["card"]
         \/ /\ displaced = {}
            /\ pc[p] \in Window["card"] \union Window["sidecar"]
            /\ pc[q] \in Window["card"] \union Window["sidecar"]
  PROVE  p = q
  BY FencedAlone, WritingPlaces DEF Fenced

-----------------------------------------------------------------------------
\* The card files.

\* Who is in durable_replace of a card.
AtCards ==
  \A k \in Ids :
    cardFiles[k].busy = {p \in Procs : pc[p] \in {"write md", "place md"} /\ draft[p].id = k}

\* Alone between its check and its rename, a writer finds in the temporary
\* what it wrote, unless iter_cards has unlinked it.
CardsCalm ==
  "card" \notin displaced =>
    /\ \A k \in Ids : cardFiles[k].onAt = {}
    /\ \A p \in Procs : LET f == cardFiles[draft[p].id] IN
         /\ pc[p] = "write md" => (IF p \in f.onTmp THEN f.tmp = Empty ELSE f.tmp = NoFile)
         /\ pc[p] = "place md" => f.tmp \in {NoFile, draft[p].card}

LEMMA CardsCalmElsewhere ==
  ASSUME StoreTypes, NEW q \in Procs,
         \/ LoadForUpdate(q) \/ LoadForCreation(q) \/ VerifyFence(q) \/ ReverifyFence(q)
                \/ OpenSidecar(q) \/ FillSidecar(q) \/ PlaceSidecar(q) \/ SidecarFails(q)
                \/ MarkDirty(q) \/ CollectSidecar(q)
  PROVE  /\ UNCHANGED cardFiles
         /\ pc[q] \notin {"write md", "place md"} /\ pc'[q] \notin {"write md", "place md"}
<1>0. pc \in [Procs -> Pcs]
  BY DEF StoreTypes, HandlerTypes
<1> USE DEF Goto, GiveUp
<1>1. CASE LoadForUpdate(q) \/ LoadForCreation(q)
  <2>1. pc[q] = "load" /\ pc'[q] \in {"leave", "verify"} /\ UNCHANGED disk
    BY <1>0, <1>1, LoadedDraft DEF Write
  <2> QED BY <2>1 DEF disk
<1>2. CASE VerifyFence(q) \/ ReverifyFence(q) \/ MarkDirty(q)
  BY <1>0, <1>2 DEF VerifyFence, ReverifyFence, MarkDirty, disk
<1>3. CASE OpenSidecar(q) \/ FillSidecar(q)
  BY <1>0, <1>3 DEF OpenSidecar, FillSidecar
<1>4. CASE PlaceSidecar(q) \/ SidecarFails(q) \/ CollectSidecar(q)
  BY <1>0, <1>4 DEF PlaceSidecar, SidecarFails, CollectSidecar
<1> QED BY <1>1, <1>2, <1>3, <1>4

LEMMA AtCardsStep ==
  ASSUME StoreTypes, AtCards, [Next]_vars PROVE AtCards'
<1> DEFINE At(p, k) == pc[p] \in {"write md", "place md"} /\ draft[p].id = k
<1> SUFFICES ASSUME NEW k \in Ids, NEW p \in Procs
             PROVE  p \in cardFiles'[k].busy <=> At(p, k)'
  <2>1. ASSUME NEW k \in Ids PROVE cardFiles'[k].busy \subseteq Procs
    BY FileTypesStep DEF FileTypes, Files
  <2> QED BY <2>1 DEF AtCards
<1> USE ContentsFacts DEF Goto, GiveUp
<1>0. /\ p \in cardFiles[k].busy <=> At(p, k)
      /\ cardFiles \in [Ids -> Files(CardContents, Procs)]
      /\ pc \in [Procs -> Pcs] /\ draft \in [Procs -> Drafts \union {NoDraft}]
  BY DEF StoreTypes, HandlerTypes, FileTypes, AtCards
<1>9. cardFiles[k] \in Files(CardContents, Procs) /\ Consistent(cardFiles[k])
  BY DEF StoreTypes, FileTypes
<1>1. CASE Quiet
  <2>1. pc'[p] \in {"write md", "place md"} <=> pc[p] \in {"write md", "place md"}
    BY <1>1, WritingPlaces DEF Quiet
  <2> QED BY <1>0, <1>1, <2>1 DEF Quiet, disk
<1>2. CASE DiscardOrphan
  <2>1. cardFiles'[k] \in {cardFiles[k], Discarded(cardFiles[k])}
    BY <1>0, <1>2 DEF DiscardOrphan
  <2>2. cardFiles'[k].busy = cardFiles[k].busy
    BY <1>9, <2>1, DiscardedFile
  <2> QED BY <1>0, <1>2, <2>2 DEF DiscardOrphan
<1>3. ASSUME NEW q \in Procs, Moves(q), q # p, cardFiles'[k].busy \ {q} = cardFiles[k].busy \ {q}
      PROVE  p \in cardFiles'[k].busy <=> At(p, k)'
  BY <1>0, <1>3 DEF Moves
<1>4. ASSUME NEW q \in Procs, cardFiles'[k].busy = cardFiles[k].busy,
             pc[q] \notin {"write md", "place md"}, pc'[q] \notin {"write md", "place md"}, q = p
      PROVE  p \in cardFiles'[k].busy <=> At(p, k)'
  BY <1>0, <1>4
<1>5. ASSUME NEW q \in Procs, Moves(q),
             \/ LoadForUpdate(q) \/ LoadForCreation(q) \/ VerifyFence(q) \/ ReverifyFence(q)
                \/ OpenSidecar(q) \/ FillSidecar(q) \/ PlaceSidecar(q) \/ SidecarFails(q)
                \/ MarkDirty(q) \/ CollectSidecar(q)
      PROVE  p \in cardFiles'[k].busy <=> At(p, k)'
  <2>1. /\ UNCHANGED cardFiles
        /\ pc[q] \notin {"write md", "place md"} /\ pc'[q] \notin {"write md", "place md"}
    BY <1>5, CardsCalmElsewhere
  <2> QED BY <1>3, <1>4, <1>5, <2>1
<1>7. ASSUME NEW q \in Procs, Moves(q), OpenCard(q) \/ FillCard(q) \/ PlaceCard(q) \/ CardFails(q)
      PROVE  p \in cardFiles'[k].busy <=> At(p, k)'
  <2> DEFINE kq == draft[q].id
  <2>1. pc[q] \in Writing
    BY <1>7, WritingPlaces DEF OpenCard, FillCard, PlaceCard, CardFails, Window
  <2>2. /\ kq \in Ids /\ draft[q].card \in CardContents /\ draft[q].card # NoFile
        /\ cardFiles[kq] \in Files(CardContents, Procs) /\ Consistent(cardFiles[kq])
    BY <2>1, DraftFacts DEF StoreTypes, FileTypes
  <2>3. k # kq => cardFiles'[k] = cardFiles[k]
    BY <1>0, <1>7, <2>2 DEF OpenCard, FillCard, PlaceCard, CardFails
  <2>4. CASE OpenCard(q)
    <3>0. cardFiles'[kq] = Opened(cardFiles[kq], q)
      BY <1>0, <2>2, <2>4 DEF OpenCard
    <3>1. cardFiles'[kq].busy = cardFiles[kq].busy \union {q}
      BY <2>2, <3>0, OpenedFile
    <3>2. pc[q] = "open md" /\ pc'[q] = "write md" /\ draft' = draft
      BY <1>0, <2>4 DEF OpenCard
    <3> QED BY <1>0, <1>3, <1>7, <2>3, <3>1, <3>2
  <2>5. CASE FillCard(q)
    <3>1. PICK f \in Written(cardFiles[kq], q, draft[q].card) :
               cardFiles' = [cardFiles EXCEPT ![kq] = f]
      BY <2>5 DEF FillCard
    <3>2. f.busy = cardFiles[kq].busy
      <4> HIDE DEF kq
      <4> QED BY <2>2, <3>1, WrittenFile
    <3>3. cardFiles'[kq].busy = cardFiles[kq].busy
      BY <1>0, <2>2, <3>1, <3>2
    <3>4. pc[q] = "write md" /\ pc'[q] = "place md" /\ draft' = draft
      BY <1>0, <2>5 DEF FillCard
    <3> QED BY <1>0, <1>3, <1>7, <2>3, <3>3, <3>4
  <2>6. CASE PlaceCard(q)
    <3>0. cardFiles'[kq] = Renamed(cardFiles[kq], q) /\ cardFiles[kq].tmp # NoFile
      BY <1>0, <2>2, <2>6 DEF PlaceCard
    <3>1. cardFiles'[kq].busy = cardFiles[kq].busy \ {q}
      BY <2>2, <3>0, RenamedFile
    <3>2. pc[q] = "place md" /\ pc'[q] \notin {"write md", "place md"} /\ draft' = draft
      BY <1>0, <2>6 DEF PlaceCard
    <3> QED BY <1>0, <1>3, <1>7, <2>3, <3>1, <3>2
  <2>7. CASE CardFails(q)
    <3>1. PICK f \in Failed(cardFiles[kq], q, draft[q].card) :
               cardFiles' = [cardFiles EXCEPT ![kq] = f]
      BY <2>7 DEF CardFails
    <3>2. f.busy = cardFiles[kq].busy \ {q}
      <4> HIDE DEF kq
      <4> QED BY <2>2, <3>1, FailedFile
    <3>3. cardFiles'[kq].busy = cardFiles[kq].busy \ {q}
      BY <1>0, <2>2, <3>1, <3>2
    <3>4. pc'[q] = "leave"
      BY <1>0, <2>7 DEF CardFails
    <3> QED BY <1>0, <1>3, <1>7, <2>3, <3>3, <3>4
  <2> QED BY <1>7, <2>4, <2>5, <2>6, <2>7
<1>8. ASSUME NEW o \in Processes, Die(o) PROVE p \in cardFiles'[k].busy <=> At(p, k)'
  <2> DEFINE gone == {r \in Procs : ProcessOf[r] = o}
  <2>0. cardFiles'[k] = Ended(cardFiles[k], gone)
    BY <1>8 DEF Die
  <2>1. cardFiles'[k].busy = cardFiles[k].busy \ gone
    <3> HIDE DEF gone
    <3> QED BY <1>9, <2>0, EndedFile
  <2>2. IF p \in gone THEN pc'[p] = "idle" ELSE pc'[p] = pc[p] /\ draft'[p] = draft[p]
    BY <1>8 DEF Die
  <2> HIDE DEF gone
  <2> QED BY <1>0, <2>1, <2>2
<1> QED
  BY <1>1, <1>2, <1>5, <1>7, <1>8, StepKinds DEF StoreTypes

LEMMA CardsCalmStep ==
  ASSUME LockIInv, StoreTypes, Fenced, AtCards, CardsCalm, [Next]_vars PROVE CardsCalm'
<1> DEFINE Calm(f, p, at, c) ==
             /\ at = "write md" => (IF p \in f.onTmp THEN f.tmp = Empty ELSE f.tmp = NoFile)
             /\ at = "place md" => f.tmp \in {NoFile, c}
           Goal(p) == Calm((cardFiles[draft[p].id])', p, pc'[p], (draft[p].card)')
<1> USE ContentsFacts
<1>1. SUFFICES ASSUME ("card" \notin displaced)'
               PROVE  /\ \A k \in Ids : cardFiles'[k].onAt = {}
                      /\ \A p \in Procs : Goal(p)
  BY DEF CardsCalm
<1>2. /\ "card" \notin displaced
      /\ \A k \in Ids : cardFiles[k].onAt = {}
      /\ \A p \in Procs : Calm(cardFiles[draft[p].id], p, pc[p], draft[p].card)
  BY <1>1, DisplacedStep DEF CardsCalm
<1>3. /\ cardFiles \in [Ids -> Files(CardContents, Procs)]
      /\ pc \in [Procs -> Pcs] /\ draft \in [Procs -> Drafts \union {NoDraft}]
      /\ \A k \in Ids : cardFiles[k] \in Files(CardContents, Procs) /\ Consistent(cardFiles[k])
  BY DEF StoreTypes, HandlerTypes, FileTypes
<1>4. ASSUME NEW p \in Procs, pc[p] \in {"write md", "place md"}
      PROVE  /\ draft[p].id \in Ids /\ draft[p].card \in CardContents
             /\ draft[p].card \notin {NoFile, Empty, Torn}
             /\ p \in cardFiles[draft[p].id].busy
  <2>1. /\ draft[p].id \in Ids /\ draft[p].card \in CardContents
        /\ draft[p].card \notin {NoFile, Empty, Torn}
    BY <1>4, DraftFacts, WritingPlaces DEF StoreTypes
  <2> QED BY <1>4, <2>1 DEF AtCards
<1>5. ASSUME NEW p \in Procs, NEW q \in Procs, p # q,
             pc[p] \in {"write md", "place md"}, pc[q] \in {"open md", "write md", "place md"}
      PROVE  FALSE
  BY <1>2, <1>5, OneInWindow, WritingPlaces
\* A step that touches no file and brings nobody into durable_replace.
<1>6. ASSUME UNCHANGED cardFiles,
             \A p \in Procs : pc'[p] \in {"write md", "place md"} =>
               pc'[p] = pc[p] /\ draft'[p] = draft[p]
      PROVE  /\ \A k \in Ids : cardFiles'[k].onAt = {}
             /\ \A p \in Procs : Goal(p)
  <2>1. ASSUME NEW p \in Procs PROVE Goal(p)
    <3>1. CASE pc'[p] \in {"write md", "place md"}
      BY <1>2, <1>6, <3>1
    <3>2. CASE pc'[p] \notin {"write md", "place md"}
      BY <3>2
    <3> QED BY <3>1, <3>2
  <2> QED BY <1>2, <1>6, <2>1
<1>7. CASE Quiet
  BY <1>6, <1>7, WritingPlaces DEF Quiet, disk
<1>8. CASE DiscardOrphan
  <2>1. ASSUME NEW k \in Ids PROVE cardFiles'[k] \in {cardFiles[k], Discarded(cardFiles[k])}
    BY <1>3, <1>8 DEF DiscardOrphan
  <2>2. ASSUME NEW k \in Ids
        PROVE  /\ cardFiles'[k].onAt = {}
               /\ \/ cardFiles'[k] = cardFiles[k]
                  \/ cardFiles'[k].tmp = NoFile /\ cardFiles'[k].onTmp = {}
    <3>1. cardFiles[k] \in Files(CardContents, Procs)
            /\ Consistent(cardFiles[k]) /\ cardFiles[k].onAt = {}
      BY <1>2, <1>3
    <3> QED BY <2>1, <3>1, DiscardedFile
  <2>3. ASSUME NEW p \in Procs PROVE Goal(p)
    <3>1. pc' = pc /\ draft' = draft
      BY <1>8 DEF DiscardOrphan
    <3>2. CASE pc[p] \in {"write md", "place md"}
      <4>1. draft[p].id \in Ids
        BY <1>4, <3>2
      <4>2. Calm(cardFiles[draft[p].id], p, pc[p], draft[p].card)
        BY <1>2
      <4>3. Calm(cardFiles'[draft[p].id], p, pc[p], draft[p].card)
        <5>1. \/ cardFiles'[draft[p].id] = cardFiles[draft[p].id]
              \/ cardFiles'[draft[p].id].tmp = NoFile /\ cardFiles'[draft[p].id].onTmp = {}
          BY <2>2, <4>1
        <5> QED BY <4>2, <5>1
      <4> QED BY <3>1, <4>3
    <3>3. CASE pc[p] \notin {"write md", "place md"}
      BY <3>1, <3>3
    <3> QED BY <3>2, <3>3
  <2> QED BY <2>2, <2>3
<1>9. ASSUME NEW q \in Procs, Moves(q),
             \/ LoadForUpdate(q) \/ LoadForCreation(q) \/ VerifyFence(q) \/ ReverifyFence(q)
                \/ OpenSidecar(q) \/ FillSidecar(q) \/ PlaceSidecar(q) \/ SidecarFails(q)
                \/ MarkDirty(q) \/ CollectSidecar(q)
      PROVE  /\ \A k \in Ids : cardFiles'[k].onAt = {}
             /\ \A p \in Procs : Goal(p)
  <2>1. /\ UNCHANGED cardFiles
        /\ pc[q] \notin {"write md", "place md"} /\ pc'[q] \notin {"write md", "place md"}
    BY <1>9, CardsCalmElsewhere
  <2> QED BY <1>6, <1>9, <2>1 DEF Moves
\* Who is at it is there alone.
<1>11. ASSUME NEW q \in Procs, Moves(q), NEW f, draft[q].id \in Ids,
              cardFiles' = [cardFiles EXCEPT ![draft[q].id] = f],
              pc[q] \in {"open md", "write md", "place md"}, draft'[q] = draft[q]
                \/ pc'[q] = "leave",
              f.onAt = {}, Calm(f, q, pc'[q], draft[q].card)
       PROVE  /\ \A k \in Ids : cardFiles'[k].onAt = {}
              /\ \A p \in Procs : Goal(p)
  <2>1. ASSUME NEW k \in Ids PROVE cardFiles'[k].onAt = {}
    BY <1>2, <1>3, <1>11
  <2>2. ASSUME NEW p \in Procs, p # q PROVE Goal(p)
    <3>1. pc'[p] \notin {"write md", "place md"}
      BY <1>5, <1>11, <2>2 DEF Moves
    <3> QED BY <3>1
  <2>3. CASE pc'[q] = "leave"
    BY <2>1, <2>2, <2>3
  <2>4. CASE draft'[q] = draft[q]
    <3>1. (cardFiles[draft[q].id])' = f
      BY <1>3, <1>11, <2>4
    <3>2. Goal(q)
      BY <1>11, <2>4, <3>1
    <3> QED BY <2>1, <2>2, <3>2
  <2> QED BY <1>11, <2>3, <2>4
<1>12. ASSUME NEW q \in Procs, Moves(q), OpenCard(q) \/ FillCard(q) \/ PlaceCard(q) \/ CardFails(q)
       PROVE  /\ \A k \in Ids : cardFiles'[k].onAt = {}
              /\ \A p \in Procs : Goal(p)
  <2> DEFINE kq == draft[q].id
  <2>1. pc[q] \in {"open md", "write md", "place md"}
    BY <1>12, WritingPlaces DEF OpenCard, FillCard, PlaceCard, CardFails, Window
  <2>2. /\ kq \in Ids /\ draft[q].card \in CardContents /\ draft[q].card # NoFile
        /\ cardFiles[kq] \in Files(CardContents, Procs) /\ Consistent(cardFiles[kq])
    BY <2>1, DraftFacts, WritingPlaces DEF StoreTypes, FileTypes
  <2>3. cardFiles[kq].onAt = {}
    BY <1>2, <2>2
  <2>4. Calm(cardFiles[kq], q, pc[q], draft[q].card)
    BY <1>2
  <2>5. cardFiles[kq].busy \subseteq {q}
    <3>1. ASSUME NEW p \in cardFiles[kq].busy PROVE p = q
      <4>1. p \in Procs /\ pc[p] \in {"write md", "place md"}
        BY <2>2, <3>1 DEF AtCards
      <4> QED BY <1>5, <2>1, <4>1
    <3> QED BY <3>1
  <2>6. CASE OpenCard(q)
    <3>1. /\ cardFiles' = [cardFiles EXCEPT ![kq] = Opened(cardFiles[kq], q)]
          /\ pc'[q] = "write md" /\ draft' = draft
      BY <1>3, <2>6 DEF OpenCard, Goto
    <3>2. /\ Opened(cardFiles[kq], q).onAt = {} /\ Opened(cardFiles[kq], q).tmp = Empty
          /\ q \in Opened(cardFiles[kq], q).onTmp
      <4> HIDE DEF kq
      <4> QED BY <2>2, <2>3, OpenedFile
    <3> QED BY <1>11, <1>12, <2>1, <2>2, <3>1, <3>2
  <2>7. CASE FillCard(q)
    <3>1. PICK f \in Written(cardFiles[kq], q, draft[q].card) :
               cardFiles' = [cardFiles EXCEPT ![kq] = f]
      BY <2>7 DEF FillCard
    <3>2. pc[q] = "write md" /\ pc'[q] = "place md" /\ draft' = draft
      BY <1>3, <2>7 DEF FillCard, Goto
    <3>3. \/ cardFiles[kq].tmp = NoFile /\ q \notin cardFiles[kq].onTmp
          \/ cardFiles[kq].tmp = Empty /\ q \in cardFiles[kq].onTmp
      BY <2>4, <3>2
    <3>4. f.onAt = {} /\ f.tmp \in {NoFile, draft[q].card}
      <4> HIDE DEF kq
      <4> QED BY <2>2, <2>3, <3>1, <3>3, WrittenFile
    <3> QED BY <1>11, <1>12, <2>1, <2>2, <3>1, <3>2, <3>4
  <2>8. CASE PlaceCard(q)
    <3>1. /\ cardFiles' = [cardFiles EXCEPT ![kq] = Renamed(cardFiles[kq], q)]
          /\ cardFiles[kq].tmp # NoFile
          /\ pc'[q] \notin {"write md", "place md"} /\ draft' = draft
      BY <1>3, <2>8 DEF PlaceCard, Goto
    <3>2. Renamed(cardFiles[kq], q).onAt = {}
      <4>1. cardFiles[kq].onTmp \ {q} = {}
        BY <2>2, <2>5 DEF Consistent
      <4> HIDE DEF kq
      <4>2. Renamed(cardFiles[kq], q).onAt = cardFiles[kq].onTmp \ {q}
        <5>1. cardFiles[kq] \in Files(CardContents, Procs) /\ Consistent(cardFiles[kq])
                /\ cardFiles[kq].tmp # NoFile
          BY <2>2, <3>1
        <5> QED BY <5>1, RenamedFile
      <4> QED BY <4>1, <4>2
    <3> QED BY <1>11, <1>12, <2>1, <2>2, <3>1, <3>2
  <2>9. CASE CardFails(q)
    <3>1. PICK f \in Failed(cardFiles[kq], q, draft[q].card) :
               cardFiles' = [cardFiles EXCEPT ![kq] = f]
      BY <2>9 DEF CardFails
    <3>2. pc'[q] = "leave"
      BY <1>3, <2>9 DEF CardFails, Goto, GiveUp
    <3>3. f.onAt = {}
      <4> HIDE DEF kq
      <4> QED BY <2>2, <2>3, <3>1, FailedFile
    <3> QED BY <1>11, <1>12, <2>1, <2>2, <3>1, <3>2, <3>3
  <2> QED BY <1>12, <2>6, <2>7, <2>8, <2>9
<1>13. ASSUME NEW o \in Processes, Die(o)
       PROVE  /\ \A k \in Ids : cardFiles'[k].onAt = {}
              /\ \A p \in Procs : Goal(p)
  <2> DEFINE gone == {r \in Procs : ProcessOf[r] = o}
  <2>1. ASSUME NEW k \in Ids
        PROVE  /\ cardFiles'[k].onAt = {} /\ cardFiles'[k].onTmp = cardFiles[k].onTmp \ gone
               /\ cardFiles[k].busy \ gone # {} => cardFiles'[k].tmp = cardFiles[k].tmp
    <3>1. cardFiles'[k] = Ended(cardFiles[k], gone)
      BY <1>13 DEF Die
    <3> HIDE DEF gone
    <3>2. cardFiles[k] \in Files(CardContents, Procs)
            /\ Consistent(cardFiles[k]) /\ cardFiles[k].onAt = {}
      BY <1>2, <1>3
    <3> QED BY <3>1, <3>2, EndedFile
  <2>2. ASSUME NEW p \in Procs PROVE Goal(p)
    <3>1. IF p \in gone THEN pc'[p] = "idle" ELSE pc'[p] = pc[p] /\ draft'[p] = draft[p]
      BY <1>13 DEF Die
    <3>2. CASE pc'[p] \in {"write md", "place md"}
      <4> HIDE DEF gone
      <4>1. /\ pc'[p] = pc[p] /\ draft'[p] = draft[p] /\ p \notin gone
            /\ pc[p] \in {"write md", "place md"}
        BY <3>1, <3>2
      <4>2. draft[p].id \in Ids /\ p \in cardFiles[draft[p].id].busy
        BY <1>4, <4>1
      <4>3. /\ cardFiles'[draft[p].id].tmp = cardFiles[draft[p].id].tmp
            /\ cardFiles'[draft[p].id].onTmp = cardFiles[draft[p].id].onTmp \ gone
        BY <2>1, <4>1, <4>2
      <4>4. Calm(cardFiles[draft[p].id], p, pc[p], draft[p].card)
        BY <1>2
      <4>5. Calm(cardFiles'[draft[p].id], p, pc[p], draft[p].card)
        BY <4>1, <4>3, <4>4
      <4> QED BY <4>1, <4>5
    <3>3. CASE pc'[p] \notin {"write md", "place md"}
      BY <3>3
    <3> QED BY <3>2, <3>3
  <2> QED BY <2>1, <2>2
<1> QED
  BY <1>7, <1>8, <1>9, <1>12, <1>13, StepKinds DEF StoreTypes

LEMMA AtCardsPlaced ==
  ASSUME StoreTypes, CardsCalm, "card" \notin displaced, NEW q \in Procs, PlaceCard(q)
  PROVE  /\ cardFiles'[draft[q].id].at = draft[q].card
         /\ \A k \in Ids : k # draft[q].id => cardFiles'[k] = cardFiles[k]
<1> DEFINE kq == draft[q].id
<1>1. pc[q] = "place md" /\ cardFiles' = [cardFiles EXCEPT ![kq] = Renamed(cardFiles[kq], q)]
        /\ cardFiles[kq].tmp # NoFile
  BY DEF PlaceCard
<1>2. /\ kq \in Ids /\ cardFiles \in [Ids -> Files(CardContents, Procs)]
      /\ cardFiles[kq] \in Files(CardContents, Procs) /\ Consistent(cardFiles[kq])
  BY <1>1, DraftFacts, WritingPlaces DEF StoreTypes, FileTypes
<1>3. cardFiles[kq].tmp = draft[q].card
  BY <1>1 DEF CardsCalm
<1>4. Renamed(cardFiles[kq], q).at = cardFiles[kq].tmp
  <2> HIDE DEF kq
  <2>1. cardFiles[kq] \in Files(CardContents, Procs) /\ Consistent(cardFiles[kq])
          /\ cardFiles[kq].tmp # NoFile
    BY <1>1, <1>2
  <2> QED BY <2>1, ContentsFacts, RenamedFile
<1> QED BY <1>1, <1>2, <1>3, <1>4

\* What a step changes of the cards in place.
LEMMA AtCardsChange ==
  ASSUME StoreTypes, CardsCalm, "card" \notin displaced, [Next]_vars
  PROVE  \/ \A k \in Ids : cardFiles'[k].at = cardFiles[k].at
         \/ \E q \in Procs : Moves(q) /\ PlaceCard(q)
<1> USE ContentsFacts
<1>1. /\ cardFiles \in [Ids -> Files(CardContents, Procs)]
      /\ \A k \in Ids : cardFiles[k] \in Files(CardContents, Procs)
           /\ Consistent(cardFiles[k]) /\ cardFiles[k].onAt = {}
  BY DEF StoreTypes, FileTypes, CardsCalm
<1>2. CASE Quiet
  BY <1>2 DEF Quiet, disk
<1>3. CASE DiscardOrphan
  <2>1. ASSUME NEW k \in Ids PROVE cardFiles'[k].at = cardFiles[k].at
    <3>1. cardFiles'[k] \in {cardFiles[k], Discarded(cardFiles[k])}
      BY <1>1, <1>3 DEF DiscardOrphan
    <3>2. cardFiles[k] \in Files(CardContents, Procs) /\ Consistent(cardFiles[k])
      BY <1>1
    <3> QED BY <3>1, <3>2, DiscardedFile
  <2> QED BY <2>1
<1>4. ASSUME NEW q \in Procs, Moves(q),
             \/ LoadForUpdate(q) \/ LoadForCreation(q) \/ VerifyFence(q) \/ ReverifyFence(q)
                \/ OpenSidecar(q) \/ FillSidecar(q) \/ PlaceSidecar(q) \/ SidecarFails(q)
                \/ MarkDirty(q) \/ CollectSidecar(q)
      PROVE  \A k \in Ids : cardFiles'[k].at = cardFiles[k].at
  BY <1>4, CardsCalmElsewhere
<1>5. ASSUME NEW q \in Procs, Moves(q), OpenCard(q) \/ FillCard(q) \/ CardFails(q)
      PROVE  \A k \in Ids : cardFiles'[k].at = cardFiles[k].at
  <2> DEFINE kq == draft[q].id
  <2>1. pc[q] \in Writing
    BY <1>5, WritingPlaces DEF OpenCard, FillCard, CardFails, Window
  <2>2. kq \in Ids /\ draft[q].card \in CardContents /\ draft[q].card # NoFile
    BY <2>1, DraftFacts DEF StoreTypes
  <2>3. cardFiles[kq] \in Files(CardContents, Procs)
          /\ Consistent(cardFiles[kq]) /\ cardFiles[kq].onAt = {}
    BY <1>1, <2>2
  <2>4. SUFFICES ASSUME NEW f, cardFiles' = [cardFiles EXCEPT ![kq] = f], f.at = cardFiles[kq].at
                 PROVE  \A k \in Ids : cardFiles'[k].at = cardFiles[k].at
    <3>1. CASE OpenCard(q)
      <4>1. cardFiles' = [cardFiles EXCEPT ![kq] = Opened(cardFiles[kq], q)]
        BY <3>1 DEF OpenCard
      <4>2. Opened(cardFiles[kq], q).at = cardFiles[kq].at
        <5> HIDE DEF kq
        <5> QED BY <2>3, OpenedFile
      <4> QED BY <2>4, <4>1, <4>2
    <3>2. CASE FillCard(q)
      <4>1. PICK f \in Written(cardFiles[kq], q, draft[q].card) :
                 cardFiles' = [cardFiles EXCEPT ![kq] = f]
        BY <3>2 DEF FillCard
      <4>2. f.at = cardFiles[kq].at
        <5> HIDE DEF kq
        <5> QED BY <2>2, <2>3, <4>1, WrittenFile
      <4> QED BY <2>4, <4>1, <4>2
    <3>3. CASE CardFails(q)
      <4>1. PICK f \in Failed(cardFiles[kq], q, draft[q].card) :
                 cardFiles' = [cardFiles EXCEPT ![kq] = f]
        BY <3>3 DEF CardFails
      <4>2. f.at = cardFiles[kq].at
        <5> HIDE DEF kq
        <5> QED BY <2>2, <2>3, <4>1, FailedFile
      <4> QED BY <2>4, <4>1, <4>2
    <3> QED BY <1>5, <3>1, <3>2, <3>3
  <2> QED BY <1>1, <2>2, <2>4
<1>7. ASSUME NEW o \in Processes, Die(o)
      PROVE  \A k \in Ids : cardFiles'[k].at = cardFiles[k].at
  <2>1. ASSUME NEW k \in Ids PROVE cardFiles'[k].at = cardFiles[k].at
    <3>1. cardFiles'[k] = Ended(cardFiles[k], {r \in Procs : ProcessOf[r] = o})
      BY <1>7 DEF Die
    <3>2. cardFiles[k] \in Files(CardContents, Procs) /\ Consistent(cardFiles[k])
      BY <1>1
    <3> QED BY <3>1, <3>2, EndedFile
  <2> QED BY <2>1
<1> QED
  BY <1>2, <1>3, <1>4, <1>5, <1>7, StepKinds DEF StoreTypes

-----------------------------------------------------------------------------
\* The sidecar files.

\* Who is in durable_replace of a sidecar.
AtSidecars ==
  \A k \in (Ids \X Contents) :
    rawFiles[k].busy = {p \in Procs : pc[p] \in {"write raw", "place raw"}
                                            /\ <<draft[p].id, draft[p].card.raw>> = k}

\* Alone between its check and its rename, a writer finds in the temporary
\* what it wrote, unless iter_cards has unlinked it.
SidecarsCalm ==
  displaced = {} =>
    /\ \A k \in (Ids \X Contents) : rawFiles[k].onAt = {}
    /\ \A p \in Procs : LET f == rawFiles[<<draft[p].id, draft[p].card.raw>>] IN
         /\ pc[p] = "write raw" => (IF p \in f.onTmp THEN f.tmp = Empty ELSE f.tmp = NoFile)
         /\ pc[p] = "place raw" => f.tmp \in {NoFile, draft[p].card.raw}

LEMMA SidecarsCalmElsewhere ==
  ASSUME StoreTypes, NEW q \in Procs,
         \/ LoadForUpdate(q) \/ LoadForCreation(q) \/ VerifyFence(q) \/ ReverifyFence(q)
                \/ OpenCard(q) \/ FillCard(q) \/ PlaceCard(q) \/ CardFails(q)
                \/ MarkDirty(q)
  PROVE  /\ UNCHANGED rawFiles
         /\ pc[q] \notin {"write raw", "place raw"} /\ pc'[q] \notin {"write raw", "place raw"}
<1>0. pc \in [Procs -> Pcs]
  BY DEF StoreTypes, HandlerTypes
<1> USE DEF Goto, GiveUp
<1>1. CASE LoadForUpdate(q) \/ LoadForCreation(q)
  <2>1. pc[q] = "load" /\ pc'[q] \in {"leave", "verify"} /\ UNCHANGED disk
    BY <1>0, <1>1, LoadedDraft DEF Write
  <2> QED BY <2>1 DEF disk
<1>2. CASE VerifyFence(q) \/ ReverifyFence(q) \/ MarkDirty(q)
  BY <1>0, <1>2 DEF VerifyFence, ReverifyFence, MarkDirty, disk
<1>3. CASE OpenCard(q) \/ FillCard(q)
  BY <1>0, <1>3 DEF OpenCard, FillCard
<1>4. CASE PlaceCard(q) \/ CardFails(q)
  BY <1>0, <1>4 DEF PlaceCard, CardFails, Window
<1> QED BY <1>1, <1>2, <1>3, <1>4

LEMMA AtSidecarsStep ==
  ASSUME StoreTypes, AtSidecars, [Next]_vars PROVE AtSidecars'
<1> DEFINE At(p, k) == pc[p] \in {"write raw", "place raw"}
            /\ <<draft[p].id, draft[p].card.raw>> = k
<1> SUFFICES ASSUME NEW k \in (Ids \X Contents), NEW p \in Procs
             PROVE  p \in rawFiles'[k].busy <=> At(p, k)'
  <2>1. ASSUME NEW k \in (Ids \X Contents) PROVE rawFiles'[k].busy \subseteq Procs
    BY FileTypesStep DEF FileTypes, Files
  <2> QED BY <2>1 DEF AtSidecars
<1> USE ContentsFacts DEF Goto, GiveUp
<1>0. /\ p \in rawFiles[k].busy <=> At(p, k)
      /\ rawFiles \in [(Ids \X Contents) -> Files(RawContents, Procs)]
      /\ pc \in [Procs -> Pcs] /\ draft \in [Procs -> Drafts \union {NoDraft}]
  BY DEF StoreTypes, HandlerTypes, FileTypes, AtSidecars
<1>9. rawFiles[k] \in Files(RawContents, Procs) /\ Consistent(rawFiles[k])
  BY DEF StoreTypes, FileTypes
<1>1. CASE Quiet
  <2>1. pc'[p] \in {"write raw", "place raw"} <=> pc[p] \in {"write raw", "place raw"}
    BY <1>1, WritingPlaces DEF Quiet
  <2> QED BY <1>0, <1>1, <2>1 DEF Quiet, disk
<1>2. CASE DiscardOrphan
  <2>1. rawFiles'[k] \in {rawFiles[k], Discarded(rawFiles[k])}
    BY <1>0, <1>2 DEF DiscardOrphan
  <2>2. rawFiles'[k].busy = rawFiles[k].busy
    BY <1>9, <2>1, DiscardedFile
  <2> QED BY <1>0, <1>2, <2>2 DEF DiscardOrphan
<1>3. ASSUME NEW q \in Procs, Moves(q), q # p, rawFiles'[k].busy \ {q} = rawFiles[k].busy \ {q}
      PROVE  p \in rawFiles'[k].busy <=> At(p, k)'
  BY <1>0, <1>3 DEF Moves
<1>4. ASSUME NEW q \in Procs, rawFiles'[k].busy = rawFiles[k].busy,
             pc[q] \notin {"write raw", "place raw"}, pc'[q] \notin {"write raw", "place raw"}, q = p
      PROVE  p \in rawFiles'[k].busy <=> At(p, k)'
  BY <1>0, <1>4
<1>5. ASSUME NEW q \in Procs, Moves(q),
             \/ LoadForUpdate(q) \/ LoadForCreation(q) \/ VerifyFence(q) \/ ReverifyFence(q)
                \/ OpenCard(q) \/ FillCard(q) \/ PlaceCard(q) \/ CardFails(q)
                \/ MarkDirty(q)
      PROVE  p \in rawFiles'[k].busy <=> At(p, k)'
  <2>1. /\ UNCHANGED rawFiles
        /\ pc[q] \notin {"write raw", "place raw"} /\ pc'[q] \notin {"write raw", "place raw"}
    BY <1>5, SidecarsCalmElsewhere
  <2> QED BY <1>3, <1>4, <1>5, <2>1
<1>6. ASSUME NEW q \in Procs, Moves(q), CollectSidecar(q)
      PROVE  p \in rawFiles'[k].busy <=> At(p, k)'
  <2>0. rawFiles'[k] \in {rawFiles[k], Unlinked(rawFiles[k])}
    BY <1>0, <1>6 DEF CollectSidecar
  <2>1. rawFiles'[k].busy = rawFiles[k].busy
    BY <1>9, <2>0, UnlinkedFile
  <2>2. pc[q] = "gc" /\ pc'[q] = "leave"
    BY <1>0, <1>6 DEF CollectSidecar
  <2> QED BY <1>3, <1>4, <1>6, <2>1, <2>2
<1>7. ASSUME NEW q \in Procs, Moves(q),
             OpenSidecar(q) \/ FillSidecar(q) \/ PlaceSidecar(q) \/ SidecarFails(q)
      PROVE  p \in rawFiles'[k].busy <=> At(p, k)'
  <2> DEFINE kq == <<draft[q].id, draft[q].card.raw>>
  <2>1. pc[q] \in Writing
    BY <1>7, WritingPlaces DEF OpenSidecar, FillSidecar, PlaceSidecar, SidecarFails, Window
  <2>2. /\ kq \in (Ids \X Contents) /\ draft[q].card.raw \in RawContents
        /\ draft[q].card.raw # NoFile
        /\ rawFiles[kq] \in Files(RawContents, Procs) /\ Consistent(rawFiles[kq])
    BY <2>1, DraftFacts DEF StoreTypes, FileTypes
  <2>3. k # kq => rawFiles'[k] = rawFiles[k]
    BY <1>0, <1>7, <2>2 DEF OpenSidecar, FillSidecar, PlaceSidecar, SidecarFails
  <2>4. CASE OpenSidecar(q)
    <3>0. rawFiles'[kq] = Opened(rawFiles[kq], q)
      BY <1>0, <2>2, <2>4 DEF OpenSidecar
    <3>1. rawFiles'[kq].busy = rawFiles[kq].busy \union {q}
      BY <2>2, <3>0, OpenedFile
    <3>2. pc[q] = "open raw" /\ pc'[q] = "write raw" /\ draft' = draft
      BY <1>0, <2>4 DEF OpenSidecar
    <3> QED BY <1>0, <1>3, <1>7, <2>3, <3>1, <3>2
  <2>5. CASE FillSidecar(q)
    <3>1. PICK f \in Written(rawFiles[kq], q, draft[q].card.raw) :
               rawFiles' = [rawFiles EXCEPT ![kq] = f]
      BY <2>5 DEF FillSidecar
    <3>2. f.busy = rawFiles[kq].busy
      <4> HIDE DEF kq
      <4> QED BY <2>2, <3>1, WrittenFile
    <3>3. rawFiles'[kq].busy = rawFiles[kq].busy
      BY <1>0, <2>2, <3>1, <3>2
    <3>4. pc[q] = "write raw" /\ pc'[q] = "place raw" /\ draft' = draft
      BY <1>0, <2>5 DEF FillSidecar
    <3> QED BY <1>0, <1>3, <1>7, <2>3, <3>3, <3>4
  <2>6. CASE PlaceSidecar(q)
    <3>0. rawFiles'[kq] = Renamed(rawFiles[kq], q) /\ rawFiles[kq].tmp # NoFile
      BY <1>0, <2>2, <2>6 DEF PlaceSidecar
    <3>1. rawFiles'[kq].busy = rawFiles[kq].busy \ {q}
      BY <2>2, <3>0, RenamedFile
    <3>2. pc[q] = "place raw" /\ pc'[q] \notin {"write raw", "place raw"} /\ draft' = draft
      BY <1>0, <2>6 DEF PlaceSidecar
    <3> QED BY <1>0, <1>3, <1>7, <2>3, <3>1, <3>2
  <2>7. CASE SidecarFails(q)
    <3>1. PICK f \in Failed(rawFiles[kq], q, draft[q].card.raw) :
               rawFiles' = [rawFiles EXCEPT ![kq] = f]
      BY <2>7 DEF SidecarFails
    <3>2. f.busy = rawFiles[kq].busy \ {q}
      <4> HIDE DEF kq
      <4> QED BY <2>2, <3>1, FailedFile
    <3>3. rawFiles'[kq].busy = rawFiles[kq].busy \ {q}
      BY <1>0, <2>2, <3>1, <3>2
    <3>4. pc'[q] = "leave"
      BY <1>0, <2>7 DEF SidecarFails
    <3> QED BY <1>0, <1>3, <1>7, <2>3, <3>3, <3>4
  <2> QED BY <1>7, <2>4, <2>5, <2>6, <2>7
<1>8. ASSUME NEW o \in Processes, Die(o) PROVE p \in rawFiles'[k].busy <=> At(p, k)'
  <2> DEFINE gone == {r \in Procs : ProcessOf[r] = o}
  <2>0. rawFiles'[k] = Ended(rawFiles[k], gone)
    BY <1>8 DEF Die
  <2>1. rawFiles'[k].busy = rawFiles[k].busy \ gone
    <3> HIDE DEF gone
    <3> QED BY <1>9, <2>0, EndedFile
  <2>2. IF p \in gone THEN pc'[p] = "idle" ELSE pc'[p] = pc[p] /\ draft'[p] = draft[p]
    BY <1>8 DEF Die
  <2> HIDE DEF gone
  <2> QED BY <1>0, <2>1, <2>2
<1> QED
  BY <1>1, <1>2, <1>5, <1>6, <1>7, <1>8, StepKinds DEF StoreTypes

LEMMA SidecarsCalmStep ==
  ASSUME LockIInv, StoreTypes, Fenced, AtSidecars, SidecarsCalm, [Next]_vars PROVE SidecarsCalm'
<1> DEFINE Calm(f, p, at, c) ==
             /\ at = "write raw" => (IF p \in f.onTmp THEN f.tmp = Empty ELSE f.tmp = NoFile)
             /\ at = "place raw" => f.tmp \in {NoFile, c}
           Goal(p) ==
              Calm((rawFiles[<<draft[p].id, draft[p].card.raw>>])', p, pc'[p], (draft[p].card.raw)')
<1> USE ContentsFacts
<1>1. SUFFICES ASSUME (displaced = {})'
               PROVE  /\ \A k \in (Ids \X Contents) : rawFiles'[k].onAt = {}
                      /\ \A p \in Procs : Goal(p)
  BY DEF SidecarsCalm
<1>2. /\ displaced = {}
      /\ \A k \in (Ids \X Contents) : rawFiles[k].onAt = {}
      /\ \A p \in Procs : Calm(rawFiles[<<draft[p].id, draft[p].card.raw>>], p, pc[p], draft[p].card.raw)
  BY <1>1, DisplacedStep DEF SidecarsCalm
<1>3. /\ rawFiles \in [(Ids \X Contents) -> Files(RawContents, Procs)]
      /\ pc \in [Procs -> Pcs] /\ draft \in [Procs -> Drafts \union {NoDraft}]
      /\ \A k \in (Ids \X Contents) : rawFiles[k] \in Files(RawContents, Procs)
           /\ Consistent(rawFiles[k])
  BY DEF StoreTypes, HandlerTypes, FileTypes
<1>4. ASSUME NEW p \in Procs, pc[p] \in {"write raw", "place raw"}
      PROVE  /\ <<draft[p].id, draft[p].card.raw>> \in (Ids \X Contents)
             /\ draft[p].card.raw \in RawContents
             /\ draft[p].card.raw \notin {NoFile, Empty, Torn}
             /\ p \in rawFiles[<<draft[p].id, draft[p].card.raw>>].busy
  <2>1. /\ <<draft[p].id, draft[p].card.raw>> \in (Ids \X Contents)
        /\ draft[p].card.raw \in RawContents
        /\ draft[p].card.raw \notin {NoFile, Empty, Torn}
    BY <1>4, DraftFacts, WritingPlaces DEF StoreTypes
  <2> QED BY <1>4, <2>1 DEF AtSidecars
<1>5. ASSUME NEW p \in Procs, NEW q \in Procs, p # q,
             pc[p] \in {"write raw", "place raw"}, pc[q] \in {"open raw", "write raw", "place raw"}
      PROVE  FALSE
  BY <1>2, <1>5, OneInWindow, WritingPlaces
\* A step that touches no file and brings nobody into durable_replace.
<1>6. ASSUME UNCHANGED rawFiles,
             \A p \in Procs : pc'[p] \in {"write raw", "place raw"} =>
               pc'[p] = pc[p] /\ draft'[p] = draft[p]
      PROVE  /\ \A k \in (Ids \X Contents) : rawFiles'[k].onAt = {}
             /\ \A p \in Procs : Goal(p)
  <2>1. ASSUME NEW p \in Procs PROVE Goal(p)
    <3>1. CASE pc'[p] \in {"write raw", "place raw"}
      BY <1>2, <1>6, <3>1
    <3>2. CASE pc'[p] \notin {"write raw", "place raw"}
      BY <3>2
    <3> QED BY <3>1, <3>2
  <2> QED BY <1>2, <1>6, <2>1
<1>7. CASE Quiet
  BY <1>6, <1>7, WritingPlaces DEF Quiet, disk
<1>8. CASE DiscardOrphan
  <2>1. ASSUME NEW k \in (Ids \X Contents)
         PROVE rawFiles'[k] \in {rawFiles[k], Discarded(rawFiles[k])}
    BY <1>3, <1>8 DEF DiscardOrphan
  <2>2. ASSUME NEW k \in (Ids \X Contents)
        PROVE  /\ rawFiles'[k].onAt = {}
               /\ \/ rawFiles'[k] = rawFiles[k]
                  \/ rawFiles'[k].tmp = NoFile /\ rawFiles'[k].onTmp = {}
    <3>1. rawFiles[k] \in Files(RawContents, Procs)
            /\ Consistent(rawFiles[k]) /\ rawFiles[k].onAt = {}
      BY <1>2, <1>3
    <3> QED BY <2>1, <3>1, DiscardedFile
  <2>3. ASSUME NEW p \in Procs PROVE Goal(p)
    <3>1. pc' = pc /\ draft' = draft
      BY <1>8 DEF DiscardOrphan
    <3>2. CASE pc[p] \in {"write raw", "place raw"}
      <4>1. <<draft[p].id, draft[p].card.raw>> \in (Ids \X Contents)
        BY <1>4, <3>2
      <4>2. Calm(rawFiles[<<draft[p].id, draft[p].card.raw>>], p, pc[p], draft[p].card.raw)
        BY <1>2
      <4>3. Calm(rawFiles'[<<draft[p].id, draft[p].card.raw>>], p, pc[p], draft[p].card.raw)
        <5>1. \/ rawFiles'[<<draft[p].id, draft[p].card.raw>>] =
                    rawFiles[<<draft[p].id, draft[p].card.raw>>]
              \/ rawFiles'[<<draft[p].id, draft[p].card.raw>>].tmp = NoFile
                  /\ rawFiles'[<<draft[p].id, draft[p].card.raw>>].onTmp = {}
          BY <2>2, <4>1
        <5> QED BY <4>2, <5>1
      <4> QED BY <3>1, <4>3
    <3>3. CASE pc[p] \notin {"write raw", "place raw"}
      BY <3>1, <3>3
    <3> QED BY <3>2, <3>3
  <2> QED BY <2>2, <2>3
<1>9. ASSUME NEW q \in Procs, Moves(q),
             \/ LoadForUpdate(q) \/ LoadForCreation(q) \/ VerifyFence(q) \/ ReverifyFence(q)
                \/ OpenCard(q) \/ FillCard(q) \/ PlaceCard(q) \/ CardFails(q)
                \/ MarkDirty(q)
      PROVE  /\ \A k \in (Ids \X Contents) : rawFiles'[k].onAt = {}
             /\ \A p \in Procs : Goal(p)
  <2>1. /\ UNCHANGED rawFiles
        /\ pc[q] \notin {"write raw", "place raw"} /\ pc'[q] \notin {"write raw", "place raw"}
    BY <1>9, SidecarsCalmElsewhere
  <2> QED BY <1>6, <1>9, <2>1 DEF Moves
<1>10. ASSUME NEW q \in Procs, Moves(q), CollectSidecar(q)
      PROVE  /\ \A k \in (Ids \X Contents) : rawFiles'[k].onAt = {}
             /\ \A p \in Procs : Goal(p)
  <2>1. ASSUME NEW k \in (Ids \X Contents)
        PROVE  /\ rawFiles'[k].onAt = {} /\ rawFiles'[k].tmp = rawFiles[k].tmp
               /\ rawFiles'[k].onTmp = rawFiles[k].onTmp
    <3>1. rawFiles'[k] \in {rawFiles[k], Unlinked(rawFiles[k])}
      BY <1>3, <1>10 DEF CollectSidecar
    <3>2. rawFiles[k] \in Files(RawContents, Procs)
            /\ Consistent(rawFiles[k]) /\ rawFiles[k].onAt = {}
      BY <1>2, <1>3
    <3> QED BY <3>1, <3>2, UnlinkedFile
  <2>2. pc[q] = "gc" /\ pc'[q] = "leave"
    BY <1>3, <1>10 DEF CollectSidecar, Goto, GiveUp
  <2>3. ASSUME NEW p \in Procs PROVE Goal(p)
    <3>1. CASE pc[p] \in {"write raw", "place raw"}
      <4>1. <<draft[p].id, draft[p].card.raw>> \in (Ids \X Contents) /\ p # q
        BY <1>4, <2>2, <3>1
      <4>2. Calm(rawFiles[<<draft[p].id, draft[p].card.raw>>], p, pc[p], draft[p].card.raw)
        BY <1>2
      <4>3. pc'[p] = pc[p] /\ draft'[p] = draft[p]
        BY <1>10, <4>1 DEF Moves
      <4> QED BY <2>1, <4>1, <4>2, <4>3
    <3>2. CASE pc[p] \notin {"write raw", "place raw"}
      <4>1. pc'[p] \notin {"write raw", "place raw"}
        BY <1>10, <2>2, <3>2 DEF Moves
      <4> QED BY <4>1
    <3> QED BY <3>1, <3>2
  <2> QED BY <2>1, <2>3
\* Who is at it is there alone.
<1>11. ASSUME NEW q \in Procs, Moves(q),
              NEW f, <<draft[q].id, draft[q].card.raw>> \in (Ids \X Contents),
              rawFiles' = [rawFiles EXCEPT ![<<draft[q].id, draft[q].card.raw>>] = f],
              pc[q] \in {"open raw", "write raw", "place raw"}, draft'[q] = draft[q]
                \/ pc'[q] = "leave",
              f.onAt = {}, Calm(f, q, pc'[q], draft[q].card.raw)
       PROVE  /\ \A k \in (Ids \X Contents) : rawFiles'[k].onAt = {}
              /\ \A p \in Procs : Goal(p)
  <2>1. ASSUME NEW k \in (Ids \X Contents) PROVE rawFiles'[k].onAt = {}
    BY <1>2, <1>3, <1>11
  <2>2. ASSUME NEW p \in Procs, p # q PROVE Goal(p)
    <3>1. pc'[p] \notin {"write raw", "place raw"}
      BY <1>5, <1>11, <2>2 DEF Moves
    <3> QED BY <3>1
  <2>3. CASE pc'[q] = "leave"
    BY <2>1, <2>2, <2>3
  <2>4. CASE draft'[q] = draft[q]
    <3>1. (rawFiles[<<draft[q].id, draft[q].card.raw>>])' = f
      BY <1>3, <1>11, <2>4
    <3>2. Goal(q)
      BY <1>11, <2>4, <3>1
    <3> QED BY <2>1, <2>2, <3>2
  <2> QED BY <1>11, <2>3, <2>4
<1>12. ASSUME NEW q \in Procs, Moves(q),
              OpenSidecar(q) \/ FillSidecar(q) \/ PlaceSidecar(q) \/ SidecarFails(q)
       PROVE  /\ \A k \in (Ids \X Contents) : rawFiles'[k].onAt = {}
              /\ \A p \in Procs : Goal(p)
  <2> DEFINE kq == <<draft[q].id, draft[q].card.raw>>
  <2>1. pc[q] \in {"open raw", "write raw", "place raw"}
    BY <1>12, WritingPlaces DEF OpenSidecar, FillSidecar, PlaceSidecar, SidecarFails, Window
  <2>2. /\ kq \in (Ids \X Contents) /\ draft[q].card.raw \in RawContents
        /\ draft[q].card.raw # NoFile
        /\ rawFiles[kq] \in Files(RawContents, Procs) /\ Consistent(rawFiles[kq])
    BY <2>1, DraftFacts, WritingPlaces DEF StoreTypes, FileTypes
  <2>3. rawFiles[kq].onAt = {}
    BY <1>2, <2>2
  <2>4. Calm(rawFiles[kq], q, pc[q], draft[q].card.raw)
    BY <1>2
  <2>5. rawFiles[kq].busy \subseteq {q}
    <3>1. ASSUME NEW p \in rawFiles[kq].busy PROVE p = q
      <4>1. p \in Procs /\ pc[p] \in {"write raw", "place raw"}
        BY <2>2, <3>1 DEF AtSidecars
      <4> QED BY <1>5, <2>1, <4>1
    <3> QED BY <3>1
  <2>6. CASE OpenSidecar(q)
    <3>1. /\ rawFiles' = [rawFiles EXCEPT ![kq] = Opened(rawFiles[kq], q)]
          /\ pc'[q] = "write raw" /\ draft' = draft
      BY <1>3, <2>6 DEF OpenSidecar, Goto
    <3>2. /\ Opened(rawFiles[kq], q).onAt = {} /\ Opened(rawFiles[kq], q).tmp = Empty
          /\ q \in Opened(rawFiles[kq], q).onTmp
      <4> HIDE DEF kq
      <4> QED BY <2>2, <2>3, OpenedFile
    <3> QED BY <1>11, <1>12, <2>1, <2>2, <3>1, <3>2
  <2>7. CASE FillSidecar(q)
    <3>1. PICK f \in Written(rawFiles[kq], q, draft[q].card.raw) :
               rawFiles' = [rawFiles EXCEPT ![kq] = f]
      BY <2>7 DEF FillSidecar
    <3>2. pc[q] = "write raw" /\ pc'[q] = "place raw" /\ draft' = draft
      BY <1>3, <2>7 DEF FillSidecar, Goto
    <3>3. \/ rawFiles[kq].tmp = NoFile /\ q \notin rawFiles[kq].onTmp
          \/ rawFiles[kq].tmp = Empty /\ q \in rawFiles[kq].onTmp
      BY <2>4, <3>2
    <3>4. f.onAt = {} /\ f.tmp \in {NoFile, draft[q].card.raw}
      <4> HIDE DEF kq
      <4> QED BY <2>2, <2>3, <3>1, <3>3, WrittenFile
    <3> QED BY <1>11, <1>12, <2>1, <2>2, <3>1, <3>2, <3>4
  <2>8. CASE PlaceSidecar(q)
    <3>1. /\ rawFiles' = [rawFiles EXCEPT ![kq] = Renamed(rawFiles[kq], q)]
          /\ rawFiles[kq].tmp # NoFile
          /\ pc'[q] \notin {"write raw", "place raw"} /\ draft' = draft
      BY <1>3, <2>8 DEF PlaceSidecar, Goto
    <3>2. Renamed(rawFiles[kq], q).onAt = {}
      <4>1. rawFiles[kq].onTmp \ {q} = {}
        BY <2>2, <2>5 DEF Consistent
      <4> HIDE DEF kq
      <4>2. Renamed(rawFiles[kq], q).onAt = rawFiles[kq].onTmp \ {q}
        <5>1. rawFiles[kq] \in Files(RawContents, Procs) /\ Consistent(rawFiles[kq])
                /\ rawFiles[kq].tmp # NoFile
          BY <2>2, <3>1
        <5> QED BY <5>1, RenamedFile
      <4> QED BY <4>1, <4>2
    <3> QED BY <1>11, <1>12, <2>1, <2>2, <3>1, <3>2
  <2>9. CASE SidecarFails(q)
    <3>1. PICK f \in Failed(rawFiles[kq], q, draft[q].card.raw) :
               rawFiles' = [rawFiles EXCEPT ![kq] = f]
      BY <2>9 DEF SidecarFails
    <3>2. pc'[q] = "leave"
      BY <1>3, <2>9 DEF SidecarFails, Goto, GiveUp
    <3>3. f.onAt = {}
      <4> HIDE DEF kq
      <4> QED BY <2>2, <2>3, <3>1, FailedFile
    <3> QED BY <1>11, <1>12, <2>1, <2>2, <3>1, <3>2, <3>3
  <2> QED BY <1>12, <2>6, <2>7, <2>8, <2>9
<1>13. ASSUME NEW o \in Processes, Die(o)
       PROVE  /\ \A k \in (Ids \X Contents) : rawFiles'[k].onAt = {}
              /\ \A p \in Procs : Goal(p)
  <2> DEFINE gone == {r \in Procs : ProcessOf[r] = o}
  <2>1. ASSUME NEW k \in (Ids \X Contents)
        PROVE  /\ rawFiles'[k].onAt = {} /\ rawFiles'[k].onTmp = rawFiles[k].onTmp \ gone
               /\ rawFiles[k].busy \ gone # {} => rawFiles'[k].tmp = rawFiles[k].tmp
    <3>1. rawFiles'[k] = Ended(rawFiles[k], gone)
      BY <1>13 DEF Die
    <3> HIDE DEF gone
    <3>2. rawFiles[k] \in Files(RawContents, Procs)
            /\ Consistent(rawFiles[k]) /\ rawFiles[k].onAt = {}
      BY <1>2, <1>3
    <3> QED BY <3>1, <3>2, EndedFile
  <2>2. ASSUME NEW p \in Procs PROVE Goal(p)
    <3>1. IF p \in gone THEN pc'[p] = "idle" ELSE pc'[p] = pc[p] /\ draft'[p] = draft[p]
      BY <1>13 DEF Die
    <3>2. CASE pc'[p] \in {"write raw", "place raw"}
      <4> HIDE DEF gone
      <4>1. /\ pc'[p] = pc[p] /\ draft'[p] = draft[p] /\ p \notin gone
            /\ pc[p] \in {"write raw", "place raw"}
        BY <3>1, <3>2
      <4>2. <<draft[p].id, draft[p].card.raw>> \in (Ids \X Contents)
              /\ p \in rawFiles[<<draft[p].id, draft[p].card.raw>>].busy
        BY <1>4, <4>1
      <4>3. /\ rawFiles'[<<draft[p].id, draft[p].card.raw>>].tmp =
                    rawFiles[<<draft[p].id, draft[p].card.raw>>].tmp
            /\ rawFiles'[<<draft[p].id, draft[p].card.raw>>].onTmp =
                    rawFiles[<<draft[p].id, draft[p].card.raw>>].onTmp \ gone
        BY <2>1, <4>1, <4>2
      <4>4. Calm(rawFiles[<<draft[p].id, draft[p].card.raw>>], p, pc[p], draft[p].card.raw)
        BY <1>2
      <4>5. Calm(rawFiles'[<<draft[p].id, draft[p].card.raw>>], p, pc[p], draft[p].card.raw)
        BY <4>1, <4>3, <4>4
      <4> QED BY <4>1, <4>5
    <3>3. CASE pc'[p] \notin {"write raw", "place raw"}
      BY <3>3
    <3> QED BY <3>2, <3>3
  <2> QED BY <2>1, <2>2
<1> QED
  BY <1>7, <1>8, <1>9, <1>10, <1>12, <1>13, StepKinds DEF StoreTypes

LEMMA AtSidecarsPlaced ==
  ASSUME StoreTypes, SidecarsCalm, displaced = {}, NEW q \in Procs, PlaceSidecar(q)
  PROVE  /\ rawFiles'[<<draft[q].id, draft[q].card.raw>>].at = draft[q].card.raw
         /\ \A k \in (Ids \X Contents) : k # <<draft[q].id, draft[q].card.raw>> =>
                 rawFiles'[k] = rawFiles[k]
<1> DEFINE kq == <<draft[q].id, draft[q].card.raw>>
<1>1. pc[q] = "place raw" /\ rawFiles' = [rawFiles EXCEPT ![kq] = Renamed(rawFiles[kq], q)]
        /\ rawFiles[kq].tmp # NoFile
  BY DEF PlaceSidecar
<1>2. /\ kq \in (Ids \X Contents) /\ rawFiles \in [(Ids \X Contents) -> Files(RawContents, Procs)]
      /\ rawFiles[kq] \in Files(RawContents, Procs) /\ Consistent(rawFiles[kq])
  BY <1>1, DraftFacts, WritingPlaces DEF StoreTypes, FileTypes
<1>3. rawFiles[kq].tmp = draft[q].card.raw
  BY <1>1 DEF SidecarsCalm
<1>4. Renamed(rawFiles[kq], q).at = rawFiles[kq].tmp
  <2> HIDE DEF kq
  <2>1. rawFiles[kq] \in Files(RawContents, Procs) /\ Consistent(rawFiles[kq])
          /\ rawFiles[kq].tmp # NoFile
    BY <1>1, <1>2
  <2> QED BY <2>1, ContentsFacts, RenamedFile
<1> QED BY <1>1, <1>2, <1>3, <1>4

\* What a step changes of the sidecars in place.
LEMMA AtSidecarsChange ==
  ASSUME StoreTypes, SidecarsCalm, displaced = {}, [Next]_vars
  PROVE  \/ \A k \in (Ids \X Contents) : rawFiles'[k].at = rawFiles[k].at
         \/ \E q \in Procs : Moves(q) /\ PlaceSidecar(q)
         \/ \E q \in Procs :
              /\ Moves(q) /\ CollectSidecar(q)
              /\ \A k \in (Ids \X Contents) :
                   k # <<draft[q].id, draft[q].old>> => rawFiles'[k] = rawFiles[k]
<1> USE ContentsFacts
<1>1. /\ rawFiles \in [(Ids \X Contents) -> Files(RawContents, Procs)]
      /\ \A k \in (Ids \X Contents) : rawFiles[k] \in Files(RawContents, Procs)
           /\ Consistent(rawFiles[k]) /\ rawFiles[k].onAt = {}
  BY DEF StoreTypes, FileTypes, SidecarsCalm
<1>2. CASE Quiet
  BY <1>2 DEF Quiet, disk
<1>3. CASE DiscardOrphan
  <2>1. ASSUME NEW k \in (Ids \X Contents) PROVE rawFiles'[k].at = rawFiles[k].at
    <3>1. rawFiles'[k] \in {rawFiles[k], Discarded(rawFiles[k])}
      BY <1>1, <1>3 DEF DiscardOrphan
    <3>2. rawFiles[k] \in Files(RawContents, Procs) /\ Consistent(rawFiles[k])
      BY <1>1
    <3> QED BY <3>1, <3>2, DiscardedFile
  <2> QED BY <2>1
<1>4. ASSUME NEW q \in Procs, Moves(q),
             \/ LoadForUpdate(q) \/ LoadForCreation(q) \/ VerifyFence(q) \/ ReverifyFence(q)
                \/ OpenCard(q) \/ FillCard(q) \/ PlaceCard(q) \/ CardFails(q)
                \/ MarkDirty(q)
      PROVE  \A k \in (Ids \X Contents) : rawFiles'[k].at = rawFiles[k].at
  BY <1>4, SidecarsCalmElsewhere
<1>5. ASSUME NEW q \in Procs, Moves(q), OpenSidecar(q) \/ FillSidecar(q) \/ SidecarFails(q)
      PROVE  \A k \in (Ids \X Contents) : rawFiles'[k].at = rawFiles[k].at
  <2> DEFINE kq == <<draft[q].id, draft[q].card.raw>>
  <2>1. pc[q] \in Writing
    BY <1>5, WritingPlaces DEF OpenSidecar, FillSidecar, SidecarFails, Window
  <2>2. kq \in (Ids \X Contents) /\ draft[q].card.raw \in RawContents /\ draft[q].card.raw # NoFile
    BY <2>1, DraftFacts DEF StoreTypes
  <2>3. rawFiles[kq] \in Files(RawContents, Procs)
          /\ Consistent(rawFiles[kq]) /\ rawFiles[kq].onAt = {}
    BY <1>1, <2>2
  <2>4. SUFFICES ASSUME NEW f, rawFiles' = [rawFiles EXCEPT ![kq] = f], f.at = rawFiles[kq].at
                 PROVE  \A k \in (Ids \X Contents) : rawFiles'[k].at = rawFiles[k].at
    <3>1. CASE OpenSidecar(q)
      <4>1. rawFiles' = [rawFiles EXCEPT ![kq] = Opened(rawFiles[kq], q)]
        BY <3>1 DEF OpenSidecar
      <4>2. Opened(rawFiles[kq], q).at = rawFiles[kq].at
        <5> HIDE DEF kq
        <5> QED BY <2>3, OpenedFile
      <4> QED BY <2>4, <4>1, <4>2
    <3>2. CASE FillSidecar(q)
      <4>1. PICK f \in Written(rawFiles[kq], q, draft[q].card.raw) :
                 rawFiles' = [rawFiles EXCEPT ![kq] = f]
        BY <3>2 DEF FillSidecar
      <4>2. f.at = rawFiles[kq].at
        <5> HIDE DEF kq
        <5> QED BY <2>2, <2>3, <4>1, WrittenFile
      <4> QED BY <2>4, <4>1, <4>2
    <3>3. CASE SidecarFails(q)
      <4>1. PICK f \in Failed(rawFiles[kq], q, draft[q].card.raw) :
                 rawFiles' = [rawFiles EXCEPT ![kq] = f]
        BY <3>3 DEF SidecarFails
      <4>2. f.at = rawFiles[kq].at
        <5> HIDE DEF kq
        <5> QED BY <2>2, <2>3, <4>1, FailedFile
      <4> QED BY <2>4, <4>1, <4>2
    <3> QED BY <1>5, <3>1, <3>2, <3>3
  <2> QED BY <1>1, <2>2, <2>4
<1>6. ASSUME NEW q \in Procs, Moves(q), CollectSidecar(q)
      PROVE  \A k \in (Ids \X Contents) : k # <<draft[q].id, draft[q].old>> =>
                  rawFiles'[k] = rawFiles[k]
  BY <1>1, <1>6 DEF CollectSidecar
<1>7. ASSUME NEW o \in Processes, Die(o)
      PROVE  \A k \in (Ids \X Contents) : rawFiles'[k].at = rawFiles[k].at
  <2>1. ASSUME NEW k \in (Ids \X Contents) PROVE rawFiles'[k].at = rawFiles[k].at
    <3>1. rawFiles'[k] = Ended(rawFiles[k], {r \in Procs : ProcessOf[r] = o})
      BY <1>7 DEF Die
    <3>2. rawFiles[k] \in Files(RawContents, Procs) /\ Consistent(rawFiles[k])
      BY <1>1
    <3> QED BY <3>1, <3>2, EndedFile
  <2> QED BY <2>1
<1> QED
  BY <1>2, <1>3, <1>4, <1>5, <1>6, <1>7, StepKinds DEF StoreTypes

-----------------------------------------------------------------------------
\* What a fenced writer knows.

\* Its draft is what an operation makes of the card as it is now.
Current(p) ==
  \/ \E j \in Updates :
       /\ j.id = draft[p].id /\ Whole(md[j.id]) /\ Admits(j, md[j.id])
       /\ draft[p].card = Updated(j, md[j.id])
  \/ \E j \in Creations : draft[p].id \in Places(j, md) /\ draft[p].card = Created(j)

Loaded == Writing \ {"mark", "gc"}

DraftsCurrent ==
  "card" \notin displaced =>
    \A p \in Procs : pc[p] \in Loaded /\ Fence(p) => Current(p)

\* Between the rename of its sidecar and that of its card, the sidecar is there.
Ready == {"reverify"} \union Window["card"]

SidecarsReady ==
  displaced = {} => \A p \in Procs :
    pc[p] \in Ready /\ Fence(p) =>
      rawFiles[<<draft[p].id, draft[p].card.raw>>].at = draft[p].card.raw

\* After the rename its card is the one in place.
Committed ==
  displaced = {} => \A p \in Procs :
    pc[p] \in {"mark", "gc"} => md[draft[p].id] = draft[p].card

LEMMA KnowingPlaces ==
  /\ Loaded = {"verify", "open raw", "write raw", "place raw", "reverify",
               "open md", "write md", "place md"}
  /\ Ready = {"reverify", "open md", "write md", "place md"}
  BY WritingPlaces DEF Loaded, Ready

\* Where a writer inside write_card comes from, and what becomes of its draft.
LEMMA DraftMoves ==
  ASSUME StoreTypes, [Next]_vars, NEW p \in Procs, pc'[p] \in Writing
  PROVE  \/ /\ pc[p] \notin Writing /\ pc'[p] = "verify"
            /\ LoadForUpdate(p) \/ LoadForCreation(p)
         \/ /\ pc[p] \in Writing
            /\ draft'[p].id = draft[p].id /\ draft'[p].card = draft[p].card
            /\ pc'[p] \in Loaded => pc[p] \in Loaded
            /\ pc'[p] \in Ready => pc[p] \in Ready \/ PlaceSidecar(p)
            /\ pc'[p] \in {"mark", "gc"} => pc[p] \in {"mark", "gc"} \/ PlaceCard(p)
<1> USE WritingPlaces, KnowingPlaces DEF Goto, GiveUp
<1>0. pc \in [Procs -> Pcs] /\ draft \in [Procs -> Drafts \union {NoDraft}]
  BY DEF StoreTypes, HandlerTypes
<1>1. ASSUME pc'[p] = pc[p], draft'[p] = draft[p]
      PROVE  /\ pc[p] \in Writing
             /\ draft'[p].id = draft[p].id /\ draft'[p].card = draft[p].card
             /\ pc'[p] \in Loaded => pc[p] \in Loaded
             /\ pc'[p] \in Ready => pc[p] \in Ready
             /\ pc'[p] \in {"mark", "gc"} => pc[p] \in {"mark", "gc"}
  BY <1>1
<1>2. CASE Quiet
  BY <1>1, <1>2 DEF Quiet
<1>3. CASE DiscardOrphan
  BY <1>1, <1>3 DEF DiscardOrphan
<1>4. ASSUME NEW o \in Processes, Die(o) PROVE pc'[p] = pc[p] /\ draft'[p] = draft[p]
  BY <1>4 DEF Die
<1>5. ASSUME NEW q \in Procs, Moves(q), q # p PROVE pc'[p] = pc[p] /\ draft'[p] = draft[p]
  BY <1>5 DEF Moves
<1>6. CASE LoadForUpdate(p) \/ LoadForCreation(p)
  <2>1. pc[p] = "load" /\ pc'[p] = "verify"
    BY <1>0, <1>6, LoadedDraft DEF Write
  <2> QED BY <1>6, <2>1
<1>7. CASE VerifyFence(p)
  <2>1. pc[p] = "verify" /\ pc'[p] = "open raw"
    BY <1>0, <1>7 DEF VerifyFence
  <2>2. draft[p] \in Drafts
    BY <2>1, DraftFacts DEF StoreTypes
  <2>3. PICK r : draft' = [draft EXCEPT ![p] = [draft[p] EXCEPT !.old = r]]
    BY <1>0, <1>7, <2>1, CheckedDraft
  <2>4. draft'[p].id = draft[p].id /\ draft'[p].card = draft[p].card
    BY <1>0, <2>2, <2>3 DEF Drafts
  <2> QED BY <2>1, <2>4
<1>8. CASE OpenSidecar(p) \/ FillSidecar(p)
  BY <1>0, <1>8 DEF OpenSidecar, FillSidecar
<1>9. CASE PlaceSidecar(p)
  <2>1. pc[p] = "place raw" /\ pc'[p] = "reverify" /\ draft' = draft
    BY <1>0, <1>9 DEF PlaceSidecar
  <2> QED BY <1>9, <2>1
<1>10. CASE SidecarFails(p) \/ CardFails(p) \/ CollectSidecar(p)
  <2>1. pc'[p] = "leave"
    BY <1>0, <1>10 DEF SidecarFails, CardFails, CollectSidecar
  <2> QED BY <2>1
<1>11. CASE ReverifyFence(p)
  BY <1>0, <1>11 DEF ReverifyFence
<1>12. CASE OpenCard(p) \/ FillCard(p)
  BY <1>0, <1>12 DEF OpenCard, FillCard
<1>13. CASE PlaceCard(p)
  <2>1. pc[p] = "place md" /\ pc'[p] = "mark" /\ draft' = draft
    BY <1>0, <1>13 DEF PlaceCard
  <2> QED BY <1>13, <2>1
<1>14. CASE MarkDirty(p)
  BY <1>0, <1>14 DEF MarkDirty
<1>15. \A o \in Processes : Die(o) => pc'[p] = pc[p] /\ draft'[p] = draft[p]
  BY <1>4
<1>16. \/ pc'[p] = pc[p] /\ draft'[p] = draft[p]
       \/ Quiet \/ DiscardOrphan
       \/ LoadForUpdate(p) \/ LoadForCreation(p) \/ VerifyFence(p)
       \/ OpenSidecar(p) \/ FillSidecar(p) \/ PlaceSidecar(p) \/ SidecarFails(p)
       \/ ReverifyFence(p)
       \/ OpenCard(p) \/ FillCard(p) \/ PlaceCard(p) \/ CardFails(p)
       \/ MarkDirty(p) \/ CollectSidecar(p)
  BY <1>4, <1>5, StepKinds DEF StoreTypes
<1> QED
  BY <1>1, <1>2, <1>3, <1>6, <1>7, <1>8, <1>9, <1>10, <1>11, <1>12, <1>13, <1>14, <1>16

\* What is in place changes as follows.
LEMMA CardChange ==
  ASSUME StoreTypes, CardsCalm, "card" \notin displaced, [Next]_vars
  PROVE  \/ md' = md
         \/ \E q \in Procs : /\ Moves(q) /\ PlaceCard(q)
                             /\ md' = [md EXCEPT ![draft[q].id] = draft[q].card]
<1>1. CASE \A k \in Ids : cardFiles'[k].at = cardFiles[k].at
  BY <1>1 DEF md
<1>2. ASSUME NEW q \in Procs, Moves(q), PlaceCard(q)
      PROVE  md' = [md EXCEPT ![draft[q].id] = draft[q].card]
  <2>1. /\ cardFiles'[draft[q].id].at = draft[q].card
        /\ \A k \in Ids : k # draft[q].id => cardFiles'[k] = cardFiles[k]
    BY <1>2, AtCardsPlaced
  <2> QED BY <2>1 DEF md
<1> QED BY <1>1, <1>2, AtCardsChange

LEMMA DraftsCurrentStep ==
  ASSUME LockIInv, StoreTypes, PcStages', Fenced, CardsCalm, DraftsCurrent, [Next]_vars
  PROVE  DraftsCurrent'
<1> SUFFICES ASSUME "card" \notin displaced', NEW p \in Procs, pc'[p] \in Loaded, Fence(p)'
             PROVE  Current(p)'
  BY DEF DraftsCurrent
<1> USE KnowingPlaces, WritingPlaces
<1>1. "card" \notin displaced
  BY DisplacedStep
<1>2. CASE md' = md
  <2>1. CASE LoadForUpdate(p) \/ LoadForCreation(p)
    <3>1. pc \in [Procs -> Pcs] /\ draft \in [Procs -> Drafts \union {NoDraft}]
      BY DEF StoreTypes, HandlerTypes
    <3>2. PICK i \in Ids, c \in Card :
            /\ Write(p, i, c)
            /\ \/ \E j \in Updates : j.id = i /\ Whole(md[i]) /\ Admits(j, md[i])
                                     /\ c = Updated(j, md[i])
               \/ \E j \in Creations : i \in Places(j, md) /\ c = Created(j)
      BY <2>1, <3>1, LoadedDraft DEF GiveUp, Goto
    <3>3. draft'[p].id = i /\ draft'[p].card = c
      BY <3>1, <3>2 DEF Write
    <3> QED BY <1>2, <3>2, <3>3 DEF Current
  <2>2. CASE pc[p] \in Writing /\ pc[p] \in Loaded
             /\ draft'[p].id = draft[p].id /\ draft'[p].card = draft[p].card
    <3>1. Fence(p)
      BY <2>2, FenceNotRegained
    <3>2. Current(p)
      BY <1>1, <2>2, <3>1 DEF DraftsCurrent
    <3> QED BY <1>2, <2>2, <3>2 DEF Current
  <2> QED BY <2>1, <2>2, DraftMoves
<1>3. ASSUME NEW q \in Procs, Moves(q), PlaceCard(q) PROVE FALSE
  <2>1. pc[q] = "place md" /\ pc'[q] = "mark"
    BY <1>3 DEF PlaceCard, Goto, StoreTypes, HandlerTypes
  <2>2. p # q /\ pc[p] \in Writing /\ Fence(p)
    BY <1>3, <2>1 DEF Moves, Fence, lockVars
  <2>3. Fence(q)
    BY <1>1, <2>1 DEF Fenced
  <2> QED BY <2>1, <2>2, <2>3, FencedAlone
<1> QED BY <1>1, <1>2, <1>3, CardChange

LEMMA SidecarsReadyStep ==
  ASSUME LockIInv, StoreTypes, PcStages', Fenced, SidecarsCalm, SidecarsReady, [Next]_vars
  PROVE  SidecarsReady'
<1> SUFFICES ASSUME displaced' = {}, NEW p \in Procs, pc'[p] \in Ready, Fence(p)'
             PROVE  rawFiles'[<<draft'[p].id, draft'[p].card.raw>>].at = draft'[p].card.raw
  BY DEF SidecarsReady
<1> USE KnowingPlaces, WritingPlaces
<1> DEFINE k == <<draft[p].id, draft[p].card.raw>>
<1>1. displaced = {}
  BY DisplacedStep
<1>2. /\ pc[p] \in Writing
      /\ draft'[p].id = draft[p].id /\ draft'[p].card = draft[p].card
      /\ pc[p] \in Ready \/ PlaceSidecar(p)
  BY DraftMoves
<1>3. k \in Ids \X Contents
  BY <1>2, DraftFacts DEF StoreTypes
<1>4. SUFFICES rawFiles'[k].at = draft[p].card.raw
  BY <1>2
<1>5. CASE PlaceSidecar(p)
  BY <1>1, <1>5, AtSidecarsPlaced
<1>6. CASE pc[p] \in Ready
  <2>1. Fence(p)
    BY <1>2, FenceNotRegained
  <2>2. rawFiles[k].at = draft[p].card.raw
    BY <1>1, <1>6, <2>1 DEF SidecarsReady
  <2>3. ASSUME NEW q \in Procs, PlaceSidecar(q) PROVE rawFiles'[k].at = draft[p].card.raw
    <3>1. /\ rawFiles'[<<draft[q].id, draft[q].card.raw>>].at = draft[q].card.raw
          /\ k # <<draft[q].id, draft[q].card.raw>> => rawFiles'[k] = rawFiles[k]
      BY <1>1, <1>3, <2>3, AtSidecarsPlaced
    <3> QED BY <2>2, <3>1
  <2>4. ASSUME NEW q \in Procs, CollectSidecar(q) PROVE FALSE
    <3>1. pc[q] = "gc"
      BY <2>4 DEF CollectSidecar
    <3>2. Fence(q)
      BY <1>1, <3>1 DEF Fenced
    <3> QED BY <1>2, <1>6, <2>1, <3>1, <3>2, FencedAlone
  <2> QED BY <1>1, <1>3, <2>2, <2>3, <2>4, AtSidecarsChange
<1> QED BY <1>2, <1>5, <1>6

LEMMA CommittedStep ==
  ASSUME LockIInv, StoreTypes, Fenced, CardsCalm, Committed, [Next]_vars
  PROVE  Committed'
<1> SUFFICES ASSUME displaced' = {}, NEW p \in Procs, pc'[p] \in {"mark", "gc"}
             PROVE  md'[draft'[p].id] = draft'[p].card
  BY DEF Committed
<1> USE KnowingPlaces, WritingPlaces
<1>1. displaced = {} /\ "card" \notin displaced
  BY DisplacedStep
<1>2. /\ pc[p] \in Writing
      /\ draft'[p].id = draft[p].id /\ draft'[p].card = draft[p].card
      /\ pc[p] \in {"mark", "gc"} \/ PlaceCard(p)
  BY DraftMoves
<1>3. draft[p].id \in Ids
  BY <1>2, DraftFacts DEF StoreTypes
<1>4. SUFFICES md'[draft[p].id] = draft[p].card
  BY <1>2
<1>5. CASE PlaceCard(p)
  BY <1>1, <1>3, <1>5, AtCardsPlaced DEF md
<1>6. CASE pc[p] \in {"mark", "gc"}
  <2>1. Fence(p)
    BY <1>1, <1>6 DEF Fenced
  <2>2. ASSUME NEW q \in Procs, PlaceCard(q) PROVE FALSE
    <3>1. pc[q] = "place md"
      BY <2>2 DEF PlaceCard
    <3>2. Fence(q)
      BY <1>1, <3>1 DEF Fenced
    <3> QED BY <1>6, <2>1, <3>1, <3>2, FencedAlone
  <2> QED BY <1>1, <1>6, <2>2, CardChange DEF Committed
<1> QED BY <1>2, <1>5, <1>6

LEMMA IntactStep ==
  ASSUME LockIInv, StoreTypes, Fenced, CardsCalm, SidecarsCalm, SidecarsReady, Committed,
         IntactUnlessDisplaced, [Next]_vars
  PROVE  IntactUnlessDisplaced'
<1> SUFFICES ASSUME displaced' = {}, NEW i \in Ids, md'[i] # NoCard
             PROVE  Whole(md'[i])
                      /\ (md'[i].raw # NoRaw => rawFiles'[<<i, md'[i].raw>>].at = md'[i].raw)
  BY DEF IntactUnlessDisplaced, SidecarIntegrity, Readable
<1> USE KnowingPlaces, WritingPlaces
<1>1. displaced = {} /\ "card" \notin displaced
  BY DisplacedStep
<1>2. md[i] # NoCard =>
        Whole(md[i]) /\ (md[i].raw # NoRaw => rawFiles[<<i, md[i].raw>>].at = md[i].raw)
  BY <1>1 DEF IntactUnlessDisplaced, SidecarIntegrity, Readable
<1>3. ASSUME NEW q \in Procs, PlaceCard(q), md' = [md EXCEPT ![draft[q].id] = draft[q].card]
      PROVE  Whole(md'[i]) /\ (md'[i].raw # NoRaw => rawFiles'[<<i, md'[i].raw>>].at = md'[i].raw)
  <2>1. pc[q] = "place md" /\ UNCHANGED rawFiles
    BY <1>3 DEF PlaceCard
  <2>2. /\ draft[q].card \notin {NoCard, NoFile, Empty, Torn}
        /\ rawFiles[<<draft[q].id, draft[q].card.raw>>].at = draft[q].card.raw
    BY <1>1, <2>1, DraftFacts DEF StoreTypes, SidecarsReady, Fenced
  <2>3. CASE i = draft[q].id
    <3>1. md'[i] = draft[q].card
      BY <1>3, <2>3 DEF md
    <3> QED BY <2>1, <2>2, <2>3, <3>1 DEF Whole, Broken
  <2>4. CASE i # draft[q].id
    <3>1. md'[i] = md[i]
      BY <1>3, <2>4 DEF md
    <3> QED BY <1>2, <2>1, <3>1
  <2> QED BY <2>3, <2>4
<1>4. CASE md' = md
  <2>1. Whole(md'[i])
    BY <1>2, <1>4
  <2>2. SUFFICES ASSUME md[i].raw # NoRaw PROVE rawFiles'[<<i, md[i].raw>>].at = md[i].raw
    BY <1>4, <2>1
  <2> DEFINE k == <<i, md[i].raw>>
  <2>3. k \in Ids \X Contents
    <3>1. md[i] \in Card
      BY <1>2, <1>4 DEF StoreTypes, FileTypes, Files, CardContents, Whole, md
    <3> QED BY <2>2, <3>1 DEF Card, Fields
  <2>4. rawFiles[k].at = md[i].raw
    BY <1>2, <1>4, <2>2
  <2>5. ASSUME NEW q \in Procs, PlaceSidecar(q) PROVE rawFiles'[k].at = md[i].raw
    <3>1. /\ rawFiles'[<<draft[q].id, draft[q].card.raw>>].at = draft[q].card.raw
          /\ k # <<draft[q].id, draft[q].card.raw>> => rawFiles'[k] = rawFiles[k]
      BY <1>1, <2>3, <2>5, AtSidecarsPlaced
    <3> QED BY <2>4, <3>1
  <2>6. ASSUME NEW q \in Procs, CollectSidecar(q) PROVE k # <<draft[q].id, draft[q].old>>
    <3>1. pc[q] = "gc"
      BY <2>6 DEF CollectSidecar
    <3>2. md[draft[q].id] = draft[q].card /\ draft[q].old # draft[q].card.raw
      BY <1>1, <3>1, DraftFacts DEF Committed, StoreTypes
    <3> QED BY <3>2
  <2> QED BY <1>1, <2>3, <2>4, <2>5, <2>6, AtSidecarsChange
<1> QED BY <1>1, <1>3, <1>4, CardChange

-----------------------------------------------------------------------------
\* The invariant, and what it gives.

StoreIInv ==
  /\ LockIInv /\ StoreTypes
  /\ displaced \subseteq DOMAIN Window
  /\ Fenced
  /\ AtCards /\ AtSidecars
  /\ CardsCalm /\ SidecarsCalm
  /\ DraftsCurrent /\ SidecarsReady /\ Committed
  /\ IntactUnlessDisplaced
  /\ Undisturbed => displaced = {}

LEMMA InitStoreIInv == StoreInit => StoreIInv
<1> SUFFICES ASSUME StoreInit PROVE StoreIInv
  OBVIOUS
<1> USE WritingPlaces
<1>1. LockIInv
  BY InitLockIInv DEF StoreInit
<1>2. /\ pc = [p \in Procs |-> "idle"] /\ job = [p \in Procs |-> NoJob]
      /\ draft = [p \in Procs |-> NoDraft] /\ displaced = {}
      /\ stage = [p \in Procs |-> "out"]
  BY DEF StoreInit, LockInit
<1>3. PICK c \in Corpus :
        /\ cardFiles = [i \in Ids |-> Still(c[i])]
        /\ rawFiles = [k \in Ids \X Contents |->
             Still(IF c[k[1]] # NoCard /\ c[k[1]].raw = k[2] THEN k[2] ELSE NoFile)]
  BY DEF StoreInit
<1>4. c \in [Ids -> Card \union {NoCard}]
  BY CardStoreAssumption DEF Corpora
<1>5. FileTypes
  <2>1. ASSUME NEW i \in Ids
        PROVE  cardFiles[i] \in Files(CardContents, Procs) /\ Consistent(cardFiles[i])
    <3>1. c[i] \in CardContents /\ cardFiles[i] = Still(c[i])
      BY <1>3, <1>4 DEF CardContents
    <3>2. Still(c[i]) \in Files(CardContents, Procs) /\ Consistent(Still(c[i]))
      <4>1. c[i] \in CardContents
        BY <3>1
      <4> QED BY <4>1, StillFile
    <3> QED BY <3>1, <3>2
  <2>2. ASSUME NEW k \in Ids \X Contents
        PROVE  rawFiles[k] \in Files(RawContents, Procs) /\ Consistent(rawFiles[k])
    <3>1. PICK r \in RawContents : rawFiles[k] = Still(r)
      BY <1>3 DEF RawContents
    <3>2. Still(r) \in Files(RawContents, Procs) /\ Consistent(Still(r))
      BY StillFile
    <3> QED BY <3>1, <3>2
  <2> QED BY <1>3, <2>1, <2>2 DEF FileTypes
<1>6. StoreTypes
  BY <1>2, <1>5 DEF StoreTypes, HandlerTypes, PcStages, PcStage, V2Drafts, Pcs
<1>7. (\A i \in Ids : cardFiles[i].at = c[i] /\ cardFiles[i].busy = {} /\ cardFiles[i].onAt = {})
      /\ \A k \in Ids \X Contents : rawFiles[k].busy = {} /\ rawFiles[k].onAt = {}
  BY <1>3 DEF Still
<1>8. Fenced /\ AtCards /\ AtSidecars /\ CardsCalm /\ SidecarsCalm
  BY <1>2, <1>7 DEF Fenced, AtCards, AtSidecars, CardsCalm, SidecarsCalm
<1>9. DraftsCurrent /\ SidecarsReady /\ Committed
  BY <1>2, KnowingPlaces DEF DraftsCurrent, SidecarsReady, Committed
<1>10. IntactUnlessDisplaced
  <2> SUFFICES ASSUME NEW i \in Ids, md[i] # NoCard
               PROVE  /\ Whole(md[i])
                      /\ md[i].raw # NoRaw => rawFiles[<<i, md[i].raw>>].at = md[i].raw
    BY DEF IntactUnlessDisplaced, SidecarIntegrity, Readable
  <2>1. md[i] = c[i] /\ c[i] \in Card
    BY <1>4, <1>7 DEF md
  <2>2. Whole(md[i])
    BY <2>1, FilesAssumption, NoCardAssumption DEF Whole, Broken
  <2>3. ASSUME md[i].raw # NoRaw PROVE rawFiles[<<i, md[i].raw>>].at = md[i].raw
    <3>1. <<i, c[i].raw>> \in Ids \X Contents
      BY <2>1, <2>3 DEF Card, Fields
    <3>2. rawFiles[<<i, c[i].raw>>] = Still(c[i].raw)
      BY <1>3, <2>1, <3>1, NoCardAssumption
    <3>3. ASSUME NEW r PROVE Still(r).at = r
      BY DEF Still
    <3> QED BY <2>1, <3>2, <3>3
  <2> QED BY <2>2, <2>3
<1> QED BY <1>1, <1>2, <1>6, <1>8, <1>9, <1>10 DEF StoreIInv

\* Alone, nobody is ever displaced.
LEMMA NobodyDisplaced ==
  ASSUME Undisturbed, displaced = {}, StoreTypes, LockIInv', PcStages', [Next]_vars
  PROVE  displaced' = {}
<1>1. ASSUME NEW w \in DOMAIN Window, Lost(w) PROVE FALSE
  <2>1. PICK p \in Procs : pc[p] \in Window[w] /\ pc'[p] = pc[p] /\ ~Fence(p)'
    BY <1>1 DEF Lost
  <2>2. pc'[p] \in Writing
    BY <2>1, WritingPlaces
  <2>3. stage'[p] = "in"
    BY <2>2 DEF PcStages, PcStage
  <2>4. json'.at = token'[p] /\ token'[p] # 0
    BY <2>3 DEF LockIInv, LockTypeOK, HolderPublished, Holding, Undisturbed, OneThreadEach
  <2> QED BY <2>1, <2>4 DEF Fence
<1> QED BY <1>1 DEF Next, Displacement, vars

LEMMA StoreIInvStep == StoreIInv /\ [Next]_vars => StoreIInv'
<1> SUFFICES ASSUME StoreIInv, [Next]_vars PROVE StoreIInv'
  OBVIOUS
<1>0. /\ LockIInv /\ LockTypeOK /\ StoreTypes /\ Fenced /\ AtCards /\ AtSidecars
      /\ CardsCalm /\ SidecarsCalm /\ DraftsCurrent /\ SidecarsReady /\ Committed
      /\ IntactUnlessDisplaced
  BY DEF StoreIInv, LockIInv
<1>1. LockIInv'
  BY <1>0, LockRefined, LockIInvStep
<1>2. StoreTypes' /\ PcStages'
  BY <1>0, StoreTypesStep DEF StoreTypes
<1>3. Fenced' /\ AtCards' /\ AtSidecars' /\ CardsCalm' /\ SidecarsCalm'
  BY <1>0, FencedStep, AtCardsStep, AtSidecarsStep, CardsCalmStep, SidecarsCalmStep
<1>4. DraftsCurrent' /\ SidecarsReady' /\ Committed' /\ IntactUnlessDisplaced'
  BY <1>0, <1>2, DraftsCurrentStep, SidecarsReadyStep, CommittedStep, IntactStep
<1>5. displaced' \subseteq DOMAIN Window
  BY DEF StoreIInv, Next, Displacement, vars
<1>6. Undisturbed => displaced' = {}
  BY <1>0, <1>1, <1>2, NobodyDisplaced DEF StoreIInv
<1> QED BY <1>1, <1>2, <1>3, <1>4, <1>5, <1>6 DEF StoreIInv, Undisturbed, OneThreadEach

LEMMA StoreIInvHolds == Spec => []StoreIInv
  BY InitStoreIInv, StoreIInvStep, PTL DEF Spec

\* The store is well formed and every handler is where its lock is, also when
\* locks are removed and writers share a process.
THEOREM StoreTypesHold == Spec => []StoreTypeOK
<1>1. StoreIInv => StoreTypeOK
  BY DEF StoreIInv, LockIInv, StoreTypes, FileTypes, HandlerTypes, CardContents, RawContents,
         PcStages, PcStage, StoreTypeOK
<1> QED BY <1>1, StoreIInvHolds, PTL

\* Whatever writers there are, threads of one process too, and whoever removes
\* the lock file: as long as nobody lost the fence between a check of
\* write_card and the steps it covers, no card is torn or without its sidecar.
THEOREM StaysIntact == Spec => []IntactUnlessDisplaced
<1>1. StoreIInv => IntactUnlessDisplaced
  BY DEF StoreIInv
<1> QED BY <1>1, StoreIInvHolds, PTL

\* When the lock excludes, no card ever is without its sidecar, whoever dies
\* where.
THEOREM SidecarsStay == ASSUME Undisturbed PROVE Spec => []SidecarIntegrity
<1>1. StoreIInv => SidecarIntegrity
  BY DEF StoreIInv, IntactUnlessDisplaced
<1> QED BY <1>1, StoreIInvHolds, PTL

\* A change of a card is an operation on the card as it is at the rename.
LEMMA ChangeIsOperation ==
  ASSUME StoreIInv, "card" \notin displaced, [Next]_vars, md' # md
  PROVE  \/ \E j \in Updates :
              /\ Whole(md[j.id]) /\ Admits(j, md[j.id])
              /\ md' = [md EXCEPT ![j.id] = Updated(j, md[j.id])]
         \/ \E j \in Creations : \E i \in Places(j, md) :
              md' = [md EXCEPT ![i] = Created(j)]
<1>1. PICK q \in Procs : PlaceCard(q) /\ md' = [md EXCEPT ![draft[q].id] = draft[q].card]
  BY CardChange DEF StoreIInv
<1>2. pc[q] = "place md"
  BY <1>1 DEF PlaceCard
<1>3. Fence(q)
  BY <1>2, WritingPlaces DEF StoreIInv, Fenced
<1>4. Current(q)
  BY <1>2, <1>3, KnowingPlaces DEF StoreIInv, DraftsCurrent
<1>5. ASSUME NEW j \in Updates, j.id = draft[q].id, Whole(md[j.id]), Admits(j, md[j.id]),
             draft[q].card = Updated(j, md[j.id])
      PROVE  /\ Whole(md[j.id]) /\ Admits(j, md[j.id])
             /\ md' = [md EXCEPT ![j.id] = Updated(j, md[j.id])]
  BY <1>1, <1>5
<1>6. ASSUME NEW j \in Creations, draft[q].id \in Places(j, md), draft[q].card = Created(j)
      PROVE  \E i \in Places(j, md) : md' = [md EXCEPT ![i] = Created(j)]
  BY <1>1, <1>6
<1> QED BY <1>4, <1>5, <1>6 DEF Current

LEMMA ChangeOfLedger ==
  ASSUME StoreIInv, "card" \notin displaced, [Next]_vars PROVE [Ledger!LedgerNext]_md
<1> SUFFICES ASSUME md' # md PROVE Ledger!LedgerNext
  OBVIOUS
<1>1. \/ \E j \in Updates :
           /\ md[j.id] # NoCard /\ Admits(j, md[j.id])
           /\ md' = [md EXCEPT ![j.id] = Updated(j, md[j.id])]
      \/ \E j \in Creations : \E i \in Places(j, md) :
           md' = [md EXCEPT ![i] = Created(j)]
  BY ChangeIsOperation DEF Whole
<1> QED
  BY <1>1
  DEF Ledger!LedgerNext, Ledger!Update, Ledger!Create, Updates, Creations,
      Ledger!Updates, Ledger!Creations, Admits, Ledger!Admits, Updated,
      Ledger!Updated, Created, Ledger!Created, Places, Ledger!Places,
      Bookmarked, Ledger!Bookmarked, IsV1, Ledger!IsV1, RawBytes, Ledger!RawBytes,
      CanAnnotate, Ledger!CanAnnotate, CanPin, Ledger!CanPin,
      CanDelete, Ledger!CanDelete, CanRestore, Ledger!CanRestore,
      CanExtract, Ledger!CanExtract, CanClaim, Ledger!CanClaim,
      CanRelease, Ledger!CanRelease

\* Whatever writers there are and whoever removes the lock file: a card only
\* ever changes by an operation on the card as it then is, until a writer
\* loses the fence between the second check of write_card and the rename.
THEOREM StaleNeverLands == Spec => LedgerUnlessDisplaced
<1>1. StoreIInv /\ [Next]_vars => ("card" \notin displaced => [Ledger!LedgerNext]_md)
  BY ChangeOfLedger
<1>2. StoreIInv /\ [Next]_vars =>
        ["card" \notin displaced => [Ledger!LedgerNext]_md]_vars
  BY <1>1
<1> QED BY <1>2, StoreIInvHolds, PTL DEF Spec, LedgerUnlessDisplaced

\* When the lock excludes, the store implements the ledger: for callers, every
\* operation happens at once on the corpus as it then is.
THEOREM StoreIsLedger == ASSUME Undisturbed PROVE Spec => LedgerSpec
<1>1. StoreInit => Ledger!LedgerInit
  <2> SUFFICES ASSUME StoreInit PROVE Ledger!LedgerInit
    OBVIOUS
  <2>1. PICK c \in Corpus : cardFiles = [i \in Ids |-> Still(c[i])]
    BY DEF StoreInit
  <2>2. c \in Corpora
    BY CardStoreAssumption
  <2>3. md = c
    BY <2>1, <2>2 DEF Corpora, md, Still
  <2> QED
    BY <2>2, <2>3
    DEF Ledger!LedgerInit, Corpora, Ledger!Corpora, Card, Ledger!Card,
        Fields, Ledger!Fields, IsV1, Ledger!IsV1
<1>2. StoreIInv /\ [Next]_vars => [Ledger!LedgerNext]_md
  <2>1. StoreIInv => "card" \notin displaced
    BY DEF StoreIInv
  <2> QED BY <2>1, ChangeOfLedger
<1> QED BY <1>1, <1>2, StoreIInvHolds, PTL DEF Spec, LedgerSpec, Ledger!LedgerSpec

\* What the cards in place are.
LEMMA CardTypes == StoreIInv => md \in [Ids -> CardContents]
  BY DEF StoreIInv, StoreTypes, FileTypes, Files, md

\* When the lock excludes, a tweet that starts with at most one card never
\* gets a second.
THEOREM TweetsStaySingle ==
  ASSUME Undisturbed,
         \A c \in Corpus : \A i, j \in Ids :
           c[i] # NoCard /\ c[j] # NoCard
           /\ SourceOf[i] = SourceOf[j] /\ SourceOf[i] # NoSource => i = j
  PROVE  Spec => []OneCardPerTweet
<1>1. StoreInit => OneCardPerTweet
  <2> SUFFICES ASSUME StoreInit PROVE OneCardPerTweet
    OBVIOUS
  <2>1. PICK c \in Corpus : cardFiles = [i \in Ids |-> Still(c[i])]
    BY DEF StoreInit
  <2>2. \A i \in Ids : md[i] = c[i]
    BY <2>1 DEF md, Still
  <2> QED BY <2>2 DEF OneCardPerTweet
<1>2. StoreIInv /\ OneCardPerTweet /\ [Next]_vars => OneCardPerTweet'
  <2> SUFFICES ASSUME StoreIInv, OneCardPerTweet, [Next]_vars, md' # md
               PROVE  OneCardPerTweet'
    BY DEF OneCardPerTweet
  <2>1. "card" \notin displaced
    BY DEF StoreIInv
  <2>2. md \in [Ids -> CardContents]
    BY CardTypes
  <2>3. CASE \E j \in Updates :
               /\ Whole(md[j.id]) /\ Admits(j, md[j.id])
               /\ md' = [md EXCEPT ![j.id] = Updated(j, md[j.id])]
    BY <2>2, <2>3 DEF OneCardPerTweet, Whole
  <2>4. ASSUME NEW j \in Creations, NEW i \in Places(j, md),
               md' = [md EXCEPT ![i] = Created(j)]
        PROVE  OneCardPerTweet'
    <3>1. i \in Ids /\ SourceOf[i] = j.source
      BY DEF Places
    <3>2. CASE j.op = "paste"
      <4>1. SourceOf[i] = NoSource
        BY <3>1, <3>2 DEF Creations
      <4> QED BY <2>2, <2>4, <3>1, <4>1 DEF OneCardPerTweet
    <3>3. CASE j.op = "sync"
      <4>1. \A k \in Ids : SourceOf[k] = SourceOf[i] => md[k] = NoCard
        BY <3>1, <3>3 DEF Places, Bookmarked
      <4> QED BY <2>2, <2>4, <3>1, <4>1 DEF OneCardPerTweet
    <3> QED BY <3>2, <3>3 DEF Creations
  <2> QED BY <2>1, <2>3, <2>4, ChangeIsOperation
<1> QED BY <1>1, <1>2, StoreIInvHolds, PTL DEF Spec

\* When the lock excludes, a tombstone is lifted by a restore only, and nothing
\* else of it changes.
THEOREM TombstonesStick == ASSUME Undisturbed PROVE Spec => TombstoneSticky
<1> DEFINE Sticks ==
      \A i \in Ids :
        /\ Whole(md[i]) /\ md[i].deleted
        /\ Whole(md'[i]) /\ md'[i] # md[i]
        => md'[i] = [md[i] EXCEPT !.deleted = FALSE]
<1>1. StoreIInv /\ [Next]_vars => Sticks
  <2> SUFFICES ASSUME StoreIInv, [Next]_vars, NEW i \in Ids, Whole(md[i]),
                      md[i].deleted, md'[i] # md[i]
               PROVE  md'[i] = [md[i] EXCEPT !.deleted = FALSE]
    OBVIOUS
  <2>1. "card" \notin displaced /\ md' # md
    BY DEF StoreIInv
  <2>2. md \in [Ids -> CardContents]
    BY CardTypes
  <2>3. PICK j \in Updates :
          /\ j.id = i /\ Admits(j, md[i])
          /\ md'[i] = Updated(j, md[i])
    <3>1. ASSUME NEW j \in Creations, NEW k \in Places(j, md), md' = [md EXCEPT ![k] = Created(j)]
          PROVE  FALSE
      BY <2>2, <3>1 DEF Places, Whole
    <3>2. PICK j \in Updates :
               md' = [md EXCEPT ![j.id] = Updated(j, md[j.id])] /\ Admits(j, md[j.id])
      BY <2>1, <3>1, ChangeIsOperation
    <3> QED BY <2>2, <3>2
  <2>4. j.op = "restore"
    BY <2>3 DEF Admits, CanAnnotate, CanPin, CanDelete, CanExtract, CanClaim,
               CanRelease
  <2>5. md[i] \in Card /\ ~IsV1(md[i])
    BY <2>2 DEF Card, CardContents, Whole
  <2>6. [md[i] EXCEPT !.raw = md[i].raw] = md[i]
    BY <2>5 DEF Card, Fields
  <2> QED BY <2>3, <2>4, <2>5, <2>6 DEF Updated, RawBytes
<1>2. StoreIInv /\ [Next]_vars => [Sticks]_vars
  BY <1>1
<1> QED BY <1>2, StoreIInvHolds, PTL DEF Spec, TombstoneSticky

=============================================================================
