-------------------------------- MODULE Cards --------------------------------
(***************************************************************************)
(* A card, the operations that change one, and what each of them makes of  *)
(* the card it loaded.  Of the frontmatter only what the handlers test or  *)
(* keep apart is kept; of the content only which bytes it is.              *)
(***************************************************************************)
CONSTANTS
  Ids,        \* card ids, the stems of the .md files
  Sources,    \* ids of tweets
  NoSource,   \* what a paste card has instead
  SourceOf,   \* SourceOf[i]: the tweet id in file name i, or NoSource
  Contents,   \* raw bytes, by their checksum
  LegacyRaw,  \* the bytes the v1 adapter makes of a body
  NoRaw,      \* a v1 card has no sidecar
  NoCard,     \* there is no such .md file
  Notes,      \* values of why_saved
  Blank       \* the why_saved of a new card

ASSUME CardsAssumption ==
  /\ SourceOf \in [Ids -> Sources \union {NoSource}]
  /\ NoSource \notin Sources
  /\ LegacyRaw \in Contents
  /\ NoRaw \notin Contents
  /\ Blank \in Notes

Fields == [raw: Contents \union {NoRaw}, note: Notes,
           pinned: BOOLEAN, deleted: BOOLEAN,
           pending: BOOLEAN,   \* extraction_pending
           claimed: BOOLEAN]   \* lazy_extract_in_progress

\* Neither raw_path nor raw_checksum: a v1 card.
IsV1(c) == c.raw = NoRaw

\* The v1 adapter carries over neither a tombstone nor a claim.
Card == {c \in Fields : IsV1(c) => ~c.deleted /\ ~c.claimed}

ASSUME NoCardAssumption == NoCard \notin Card

Corpora == [Ids -> Card \union {NoCard}]

\* An update names a card it will load under the lock; a creation names the
\* tweet and the bytes.  The argument of extract tells whether the caller is
\* on an extraction owner path (lazy-extract, extract-pending), that of claim
\* whether it is more than 60 seconds younger than any claim it finds.
Updates ==
  [op: {"annotate"}, id: Ids, arg: Notes] \union
  [op: {"pin", "extract", "claim"}, id: Ids, arg: BOOLEAN] \union
  [op: {"delete", "restore", "release"}, id: Ids] \union
  [op: {"rewrite"}, id: Ids, arg: Contents]

Creations ==
  [op: {"paste"}, source: {NoSource}, arg: Contents] \union
  [op: {"sync"}, source: Sources, arg: Contents]

Jobs == Updates \union Creations

\* Seeded fault: annotate_card has lost its tombstone gate.
AdmitsDeleted(job, c) ==
  \/ job.op = "annotate" /\ ~IsV1(c)
  \/ job.op = "restore" /\ c.deleted
  \/ job.op \in {"delete", "pin"} /\ ~c.deleted /\ ~IsV1(c)

\* The gates of the handlers, each on the card it loaded under the lock.
CanAnnotate(c)   == ~c.deleted /\ ~IsV1(c)
CanPin(c, to)    == ~c.deleted /\ ~IsV1(c) /\ c.pinned # to
CanDelete(c)     == ~c.deleted /\ ~IsV1(c)
CanRestore(c)    == c.deleted

\* Here a caller that is no owner is the run that wrote the card: any other is
\* refused, whatever the card.
CanExtract(c, owner) == ~c.deleted /\ (c.pending \/ owner)
CanClaim(c, late)    == ~c.deleted /\ c.pending /\ (c.claimed => late)
CanRelease(c)        == ~c.deleted /\ c.claimed

\* The handler goes on to write_card with the card it loaded.  (rewrite is a
\* caller of write_card that brings new bytes: the tests of write_card do.)
Admits(job, c) ==
  \/ job.op = "annotate" /\ CanAnnotate(c)
  \/ job.op = "pin"      /\ CanPin(c, job.arg)
  \/ job.op = "delete"   /\ CanDelete(c)
  \/ job.op = "restore"  /\ CanRestore(c)
  \/ job.op = "extract"  /\ CanExtract(c, job.arg)
  \/ job.op = "claim"    /\ CanClaim(c, job.arg)
  \/ job.op = "release"  /\ CanRelease(c)
  \/ job.op = "rewrite"  /\ ~c.deleted

\* The bytes write_card is given: a v1 card comes with its adapter's.
RawBytes(c) == IF IsV1(c) THEN LegacyRaw ELSE c.raw

\* The card the handler passes to write_card.
Updated(job, c) ==
  LET w == [c EXCEPT !.raw = RawBytes(c)]
  IN CASE job.op = "annotate" -> [w EXCEPT !.note = job.arg]
       [] job.op = "pin"      -> [w EXCEPT !.pinned = job.arg]
       [] job.op = "delete"   -> [w EXCEPT !.deleted = TRUE]
       [] job.op = "restore"  -> [w EXCEPT !.deleted = FALSE]
       [] job.op = "extract"  -> [w EXCEPT !.pending = FALSE, !.claimed = FALSE]
       [] job.op = "claim"    -> [w EXCEPT !.claimed = TRUE]
       [] job.op = "release"  -> [w EXCEPT !.claimed = FALSE]
       [] job.op = "rewrite"  -> [w EXCEPT !.raw = job.arg]

\* paste_bookmark and card_writer.build_frontmatter: a synced card waits for
\* its extraction.
Created(job) ==
  [raw |-> job.arg, note |-> Blank, pinned |-> FALSE, deleted |-> FALSE,
   pending |-> job.op = "sync", claimed |-> FALSE]

\* A tweet has a card already, deleted or not (file names tell).
Bookmarked(corpus, s) ==
  \E i \in Ids : SourceOf[i] = s /\ corpus[i] # NoCard

\* Seeded fault: no recheck under the lock, only the file name must be free.
PlacesUnchecked(job, corpus) ==
  {i \in Ids : SourceOf[i] = job.source /\ corpus[i] = NoCard}

\* The ids under which a creation may put its card: paste_bookmark looks for
\* a free name, sync skips a tweet that has a card.
Places(job, corpus) ==
  {i \in Ids : SourceOf[i] = job.source /\ corpus[i] = NoCard
               /\ (job.op = "sync" => ~Bookmarked(corpus, job.source))}

=============================================================================
