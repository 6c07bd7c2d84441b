------------------------------ MODULE Commands ------------------------------
(***************************************************************************)
(* What the commands keep beside the cards: the codes of the nonce store,  *)
(* lazy claims, the paste inbox, the question log and the web fork.  The   *)
(* five components share no state; their steps interleave.                 *)
(***************************************************************************)
EXTENDS NonceStore, LazyExtract, Inbox, RunLog, Ask

commandVars == <<vars, lazyVars, inboxVars, logVars, askVars>>

CommandsTypeOK == LazyTypeOK /\ InboxTypeOK /\ LogTypeOK /\ AskTypeOK

CommandsInit == NonceInit /\ LazyInit /\ InboxInit /\ LogInit /\ AskInit

NonceWorks == NonceNext /\ UNCHANGED <<lazyVars, inboxVars, logVars, askVars>>
LazyWorks == LazyNext /\ UNCHANGED <<vars, inboxVars, logVars, askVars>>
InboxWorks == InboxNext /\ UNCHANGED <<vars, lazyVars, logVars, askVars>>
LogWorks == LogNext /\ UNCHANGED <<vars, lazyVars, inboxVars, askVars>>
AskWorks == AskNext /\ UNCHANGED <<vars, lazyVars, inboxVars, logVars>>

CommandsNext == NonceWorks \/ LazyWorks \/ InboxWorks \/ LogWorks \/ AskWorks

CommandsSpec == CommandsInit /\ [][CommandsNext]_commandVars

=============================================================================
