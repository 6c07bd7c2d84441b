-------------------------------- MODULE Inbox --------------------------------
(***************************************************************************)
(* The recovery inbox of /xpaste (storage/inbox.py) and the command that   *)
(* fills and clears it, step by step (commands/xpaste.md and the tools     *)
(* of mcp_server/server.py).  Every session has a server of its own, and   *)
(* no lock keeps their reads and writes of the file apart.                 *)
(***************************************************************************)
CONSTANTS
  Sessions,  \* the sessions of the user
  Pastes     \* snapshot ids; one for each content, which recovery keeps

VARIABLES
  inbox,      \* inbox[f]: the entries in file f
  cards,      \* the pastes that have become cards
  session,    \* where each session is; "seen" is what it has read of a file
  promised,   \* history: the pastes whose snapshot was reported as written
  unwanted,   \* history: those that the user has thrown away
  overlapped  \* history: two sessions were between reading and replacing one file

inboxVars == <<inbox, cards, session, promised, unwanted, overlapped>>

\* What resolve_inbox_path finds, and the last resort in the corpus.
InboxFiles == {"quick", "fallback"}

Nowhere == [at |-> "nowhere"]

InboxTypeOK ==
  /\ inbox \in [InboxFiles -> SUBSET Pastes]
  /\ cards \subseteq Pastes
  /\ session \in [Sessions ->
       {Nowhere} \union
       [at: {"asked", "wrote"}, paste: Pastes] \union
       [at: {"append", "clear"}, paste: Pastes, file: InboxFiles, seen: SUBSET Pastes]]
  /\ promised \subseteq Pastes /\ unwanted \subseteq Pastes
  /\ overlapped \in BOOLEAN

InboxInit ==
  /\ inbox = [f \in InboxFiles |-> {}]
  /\ cards = {} /\ promised = {} /\ unwanted = {}
  /\ session = [s \in Sessions |-> Nowhere]
  /\ overlapped = FALSE

-----------------------------------------------------------------------------

\* A session that changes file f: entries are read, and the file is replaced.
Within(f) ==
  {u \in Sessions : session[u].at \in {"append", "clear"} /\ session[u].file = f}

Moves(s, place) == session' = [session EXCEPT ![s] = place]

\* Two sessions would even share the .tmp file: from there on anything goes.
Opens(s, change, p, f) ==
  /\ Moves(s, [at |-> change, paste |-> p, file |-> f, seen |-> inbox[f]])
  /\ overlapped' = (overlapped \/ Within(f) # {})

\* write_paste_snapshot: _append_one reads the file; an OSError from that, or
\* from making its directory, leads on to the fallback.
ReadInbox(s, p, f) ==
  /\ session[s] = Nowhere
  /\ p \notin promised \union cards
  /\ \A u \in Sessions : session[u] # Nowhere => session[u].paste # p
  /\ Opens(s, "append", p, f)
  /\ UNCHANGED <<inbox, cards, promised, unwanted>>

\* durable_replace of the whole file.
Replace(s, entries) == inbox' = [inbox EXCEPT ![session[s].file] = entries]

Appended(s) == session[s].seen \union {session[s].paste}

AppendEntry(s) ==
  /\ session[s].at = "append"
  /\ Replace(s, Appended(s))
  /\ promised' = promised \union {session[s].paste}
  /\ Moves(s, [at |-> "asked", paste |-> session[s].paste])
  /\ UNCHANGED <<cards, unwanted, overlapped>>

\* The replace fails, before the rename or after it, and not with an OSError:
\* there is no fallback, and no snapshot is reported.
AppendFails(s) ==
  /\ session[s].at = "append"
  /\ UNCHANGED inbox \/ Replace(s, Appended(s))
  /\ Moves(s, [at |-> "asked", paste |-> session[s].paste])
  /\ UNCHANGED <<cards, promised, unwanted, overlapped>>

\* /xpaste recover: an entry that list_recoverable shows is taken up again.
Recover(s, p) ==
  /\ session[s] = Nowhere
  /\ p \in inbox["quick"]
  /\ Moves(s, [at |-> "asked", paste |-> p])
  /\ UNCHANGED <<inbox, cards, promised, unwanted, overlapped>>

\* paste_bookmark up to the card (CardStore); the entry is still there.
WriteCard(s) ==
  /\ session[s].at = "asked"
  /\ session[s].paste \notin cards
  /\ cards' = cards \union {session[s].paste}
  /\ Moves(s, [at |-> "wrote", paste |-> session[s].paste])
  /\ UNCHANGED <<inbox, promised, unwanted, overlapped>>

\* Seeded fault: the snapshot is cleared whether or not there is a card.
CardFailsCleared(s) ==
  /\ session[s].at = "asked"
  /\ Moves(s, [at |-> "wrote", paste |-> session[s].paste])
  /\ UNCHANGED <<inbox, cards, promised, unwanted, overlapped>>

\* The user cancels, the card cannot be written, or it is there already
\* ("duplicate_of", which leaves the entry): the command ends here.
NoCardWritten(s) ==
  /\ session[s].at = "asked"
  /\ Moves(s, Nowhere)
  /\ UNCHANGED <<inbox, cards, promised, unwanted, overlapped>>

\* clear_tentative_snapshot reads the file, and looks for the entry in it.
FindEntry(s) ==
  /\ session[s].at = "wrote"
  /\ \/ /\ session[s].paste \in inbox["quick"]
        /\ Opens(s, "clear", session[s].paste, "quick")
     \/ /\ session[s].paste \notin inbox["quick"]
        /\ Moves(s, Nowhere)
        /\ UNCHANGED overlapped
  /\ UNCHANGED <<inbox, cards, promised, unwanted>>

ClearEntry(s) ==
  /\ session[s].at = "clear"
  /\ Replace(s, session[s].seen \ {session[s].paste})
  /\ Moves(s, Nowhere)
  /\ UNCHANGED <<cards, promised, unwanted, overlapped>>

\* clear_paste_snapshot, called for an entry that the user does not want.
ThrowAway(s, p) ==
  /\ session[s] = Nowhere
  /\ p \in inbox["quick"]
  /\ Opens(s, "clear", p, "quick")
  /\ unwanted' = unwanted \union {p}
  /\ UNCHANGED <<inbox, cards, promised>>

\* The session or its server dies, or the file cannot be replaced.
Dies(s) ==
  /\ session[s] # Nowhere
  /\ Moves(s, Nowhere)
  /\ UNCHANGED <<inbox, cards, promised, unwanted, overlapped>>

SessionStep(s) ==
  \/ \E p \in Pastes, f \in InboxFiles : ReadInbox(s, p, f)
  \/ \E p \in Pastes : Recover(s, p) \/ ThrowAway(s, p)
  \/ AppendEntry(s) \/ AppendFails(s)
  \/ WriteCard(s) \/ NoCardWritten(s)
  \/ FindEntry(s) \/ ClearEntry(s) \/ Dies(s)

InboxNext == \E s \in Sessions : SessionStep(s)

InboxSpec == InboxInit /\ [][InboxNext]_inboxVars

-----------------------------------------------------------------------------

\* What was pasted is never lost: once the snapshot is reported as written, the
\* content is a card or an entry of the inbox, whatever dies, fails, is cancelled
\* or recovered ("abort-save NEVER silently fails", inbox.py:7), as long as no
\* two sessions are at one file at the same time (inbox.py:243).
NothingIsLost ==
  overlapped \/ promised \ unwanted \subseteq
                cards \union inbox["quick"] \union inbox["fallback"]

=============================================================================
