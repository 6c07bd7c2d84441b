----------------------------- MODULE CardLedger -----------------------------
(***************************************************************************)
(* What the card store promises its callers: every operation happens at    *)
(* once, on the corpus as it then is, or not at all.                       *)
(***************************************************************************)
EXTENDS Cards

VARIABLE cards

LedgerInit == cards \in Corpora

Update(job) ==
  /\ cards[job.id] # NoCard
  /\ Admits(job, cards[job.id])
  /\ cards' = [cards EXCEPT ![job.id] = Updated(job, cards[job.id])]

Create(job) ==
  \E i \in Places(job, cards) : cards' = [cards EXCEPT ![i] = Created(job)]

LedgerNext ==
  \/ \E job \in Updates : Update(job)
  \/ \E job \in Creations : Create(job)

LedgerSpec == LedgerInit /\ [][LedgerNext]_cards

=============================================================================
