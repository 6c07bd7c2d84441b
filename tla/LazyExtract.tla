----------------------------- MODULE LazyExtract -----------------------------
(***************************************************************************)
(* Sessions of /xfind that share one card whose extraction is pending      *)
(* (sync/lazy_extract.py): a session claims the card, asks its host model  *)
(* for a summary, and applies it (apply_extraction of sync/service.py) or  *)
(* releases the claim.  Each of these is one critical section of the       *)
(* card_write lock (FileLock), but the clock of a claim is read before the *)
(* lock is taken.                                                          *)
(***************************************************************************)
EXTENDS Naturals

CONSTANTS
  Finders,     \* the sessions
  StaleAfter,  \* CLAIM_STALE_SECONDS
  MaxTime      \* bound on the wall clock

ASSUME LazyAssumption == StaleAfter \in Nat \ {0} /\ MaxTime \in Nat \ {0}

VARIABLES
  time,     \* the wall clock
  pending,  \* extraction_pending of the card
  stamp,    \* lazy_extract_claim_at, 0 when the card is not claimed
  finder,   \* where each session is; "read" is the clock its claim was made with
  strayed   \* history: a session has released a claim that was not its own

lazyVars == <<time, pending, stamp, finder, strayed>>

Away == [at |-> "away"]

\* Types, and that a card which is extracted is not claimed: the claim of an
\* update that came late would otherwise stay in the vault for ever.
LazyTypeOK ==
  /\ time \in 1..MaxTime
  /\ pending \in BOOLEAN
  /\ stamp \in 0..time
  /\ finder \in [Finders -> {Away} \union [at: {"claim", "extract"}, read: 1..time]]
  /\ strayed \in BOOLEAN
  /\ ~pending => stamp = 0

LazyInit ==
  /\ time = 1 /\ pending = TRUE /\ stamp = 0
  /\ finder = [s \in Finders |-> Away]
  /\ strayed = FALSE

-----------------------------------------------------------------------------

Elapse ==
  /\ time < MaxTime
  /\ time' = time + 1
  /\ UNCHANGED <<pending, stamp, finder, strayed>>

Goes(s, place) == finder' = [finder EXCEPT ![s] = place]

\* claim_for_lazy_extract reads the clock, then takes the lock.
Approach(s) ==
  /\ finder[s] = Away
  /\ Goes(s, [at |-> "claim", read |-> time])
  /\ UNCHANGED <<time, pending, stamp, strayed>>

\* A claim is fresh for a minute, by the clock that was read.
Fresh(read) == stamp # 0 /\ read < stamp + StaleAfter

\* Seeded fault: a stale claim is taken over with the time it has.
ClaimUnstamped(s) ==
  /\ finder[s].at = "claim"
  /\ pending /\ ~Fresh(finder[s].read)
  /\ stamp' = IF stamp = 0 THEN finder[s].read ELSE stamp
  /\ Goes(s, [finder[s] EXCEPT !.at = "extract"])
  /\ UNCHANGED <<time, pending, strayed>>

\* "claimed", or "reclaimed" from a session that has had it too long.
Claim(s) ==
  /\ finder[s].at = "claim"
  /\ pending /\ ~Fresh(finder[s].read)
  /\ stamp' = finder[s].read
  /\ Goes(s, [finder[s] EXCEPT !.at = "extract"])
  /\ UNCHANGED <<time, pending, strayed>>

\* "skip_done", "skip_active", or "missing": the lock was not to be had.
SkipCard(s) ==
  /\ finder[s].at = "claim"
  /\ Goes(s, Away)
  /\ UNCHANGED <<time, pending, stamp, strayed>>

\* Seeded fault: the claim is left in the card.
ApplyClaimed(s) ==
  /\ finder[s].at = "extract"
  /\ pending' = FALSE
  /\ Goes(s, Away)
  /\ UNCHANGED <<time, stamp, strayed>>

\* apply_extraction takes the run id of a lazy extraction for an owner's,
\* whoever holds the claim and whether or not the card is still pending.
Apply(s) ==
  /\ finder[s].at = "extract"
  /\ pending' = FALSE /\ stamp' = 0
  /\ Goes(s, Away)
  /\ UNCHANGED <<time, strayed>>

\* The card is extracted by /xsync or /xextract, which claim nothing.
ExtractElsewhere ==
  /\ pending
  /\ pending' = FALSE /\ stamp' = 0
  /\ UNCHANGED <<time, finder, strayed>>

\* The model or apply_extraction has failed: release_lazy_claim clears the
\* claim, whoever has it by now.
Release(s) ==
  /\ finder[s].at = "extract"
  /\ stamp' = 0
  /\ strayed' = (strayed \/ stamp \notin {0, finder[s].read})
  /\ Goes(s, Away)
  /\ UNCHANGED <<time, pending>>

\* The session dies, or cannot get the lock to release: its claim stays.
Abandon(s) ==
  /\ finder[s].at = "extract"
  /\ Goes(s, Away)
  /\ UNCHANGED <<time, pending, stamp, strayed>>

LazyNext ==
  \/ Elapse \/ ExtractElsewhere
  \/ \E s \in Finders :
       Approach(s) \/ Claim(s) \/ SkipCard(s) \/ Apply(s) \/ Release(s) \/ Abandon(s)

LazySpec == LazyInit /\ [][LazyNext]_lazyVars

-----------------------------------------------------------------------------

\* No two sessions are at the same card with claims less than a minute old
\* ("skip_active: another session is mid-extraction", lazy_extract.py:57),
\* however old the clock was when they got the lock, unless a session that had
\* lost its claim released somebody else's (lazy_extract.py:156).
OneFreshClaimant ==
  \A s, u \in Finders :
    /\ s # u
    /\ finder[s].at = "extract" /\ time < finder[s].read + StaleAfter
    /\ finder[u].at = "extract" /\ time < finder[u].read + StaleAfter
    => strayed

=============================================================================
