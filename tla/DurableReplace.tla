--------------------------- MODULE DurableReplace ---------------------------
(***************************************************************************)
(* durable_replace of storage/sidecar.py, with which sidecars, cards and   *)
(* the JSON of the lock are written: the temporary beside the file is      *)
(* opened and truncated, written, and renamed over the file.  Its name is  *)
(* the file's with .tmp, the same for every writer, so two of them at a    *)
(* time share it: one may truncate, rename or unlink what the other has    *)
(* written, or write, through the descriptor it opened before, into a file *)
(* that is in its place already.                                           *)
(***************************************************************************)

CONSTANTS
  NoFile,  \* there is no such file
  Empty,   \* a file that was opened and truncated, and not written yet
  Torn     \* one content written over another, the tail of the longer left

ASSUME DurableReplaceAssumption ==
  /\ NoFile # Empty
  /\ NoFile # Torn
  /\ Empty # Torn

\* What no writer ever wanted a file to hold.
Broken == {Empty, Torn}

\* A file and its temporary: what each holds, the writers that are in
\* durable_replace, and those of them whose open descriptor is on the inode
\* that is now the temporary, or in place.  A descriptor in neither set is on
\* an inode that has no name any more.
Files(contents, writers) ==
  [at: contents, tmp: contents \union {NoFile} \union Broken,
   busy: SUBSET writers, onTmp: SUBSET writers, onAt: SUBSET writers]

\* Only writers that are still at it have a descriptor, and only a temporary
\* that is there has one on it.
Consistent(f) ==
  /\ f.onTmp \union f.onAt \subseteq f.busy
  /\ f.tmp = NoFile => f.onTmp = {}

\* A file that nobody writes.
Still(c) == [at |-> c, tmp |-> NoFile, busy |-> {}, onTmp |-> {}, onAt |-> {}]

\* os.open(tmp, O_WRONLY | O_CREAT | O_TRUNC)
Opened(f, p) ==
  [f EXCEPT !.tmp = Empty, !.busy = @ \union {p}, !.onTmp = @ \union {p}]

\* What os.write at offset 0 makes of a file.
Over(old, new) == IF old \in {Empty, new} THEN {new} ELSE {new, Torn}

\* os.write(fd, c), fsync and close: it lands where the inode is by now.
Written(f, p, c) ==
  {[f EXCEPT !.tmp = w[1], !.at = w[2], !.onTmp = @ \ {p}, !.onAt = @ \ {p}] :
     w \in (IF p \in f.onTmp THEN Over(f.tmp, c) ELSE {f.tmp})
             \X (IF p \in f.onAt THEN Over(f.at, c) ELSE {f.at})}

\* The writers ps have returned, raised or died.  A temporary that nobody is
\* at is forgotten: the next one to want it truncates it.
Ended(f, ps) ==
  LET left == f.busy \ ps IN
  [f EXCEPT !.busy = left, !.onTmp = @ \ ps, !.onAt = @ \ ps,
            !.tmp = IF left = {} THEN NoFile ELSE @]

\* os.replace(tmp, target), of whatever the temporary holds.
Renamed(f, p) ==
  Ended([f EXCEPT !.at = f.tmp, !.tmp = NoFile, !.onAt = f.onTmp, !.onTmp = {}],
        {p})

\* The temporary is unlinked.
Discarded(f) == [f EXCEPT !.tmp = NoFile, !.onTmp = {}]

\* The file is unlinked.
Unlinked(f) == [f EXCEPT !.at = NoFile, !.onAt = {}]

\* A step of p raised, os.fsync perhaps, after the write: the temporary is
\* unlinked if it can be, whoever's it is by now.
Failed(f, p, c) ==
  UNION {{Ended(g, {p}), Ended(Discarded(g), {p})} : g \in {f} \union Written(f, p, c)}

=============================================================================
