----------------------------- MODULE MCCommands -----------------------------
(***************************************************************************)
(* The components of Commands share no state, so one run checks them side  *)
(* by side: a behaviour is a behaviour of one of them, and the others stay *)
(* as they are.                                                            *)
(***************************************************************************)
EXTENDS Commands, TLC

CONSTANTS t1, t2

VARIABLE only  \* the component that is at work

MCCalls == {t1, t2}
MCKeys == {<<"delete", "card">>, <<"restore", "card">>}

MCInit == CommandsInit /\ only \in {"nonces", "lazy", "inbox", "log", "ask"}

MCNext ==
  /\ UNCHANGED only
  /\ \/ only = "nonces" /\ NonceWorks
     \/ only = "lazy" /\ LazyWorks
     \/ only = "inbox" /\ InboxWorks
     \/ only = "log" /\ LogWorks
     \/ only = "ask" /\ AskWorks

MCSpec == MCInit /\ [][MCNext]_<<commandVars, only>>

Symmetry == Permutations(MCCalls)
=============================================================================
