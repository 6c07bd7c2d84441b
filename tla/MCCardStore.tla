---------------------------- MODULE MCCardStore ----------------------------
(* Instances of CardStore for TLC. *)
EXTENDS CardStore, TLC

CONSTANTS p1, p2, p3, a, b, x, y, tweet, none

MCProcs == {p1, p2}
SeparateProcesses == [p \in MCProcs |-> p]

MCThreads == {p1, p2, p3}
SyncAndServer == [p \in MCThreads |-> IF p = p1 THEN "sync" ELSE "server"]

Symmetry == Permutations(MCProcs)

\* a and b are two file names of one tweet, x and y are names of pastes.
TweetIds == {a, b}
MCSourceOf == [i \in {a, b, x, y} |-> IF i \in TweetIds THEN tweet ELSE none]
MCSourceOfA == [i \in {a} |-> tweet]

Live(r) == [raw |-> r, note |-> "blank", pinned |-> FALSE, deleted |-> FALSE,
            pending |-> TRUE, claimed |-> FALSE]

\* One card: live v2, deleted v2, or v1.
OneCard == {[i \in {a} |-> Live("c1")],
            [i \in {a} |-> [Live("c1") EXCEPT !.deleted = TRUE]],
            [i \in {a} |-> Live(NoRaw)]}

LiveCard == {[i \in {a} |-> Live("c1")]}

\* Nothing saved yet, or a tombstone of the tweet.
FewCards == {[i \in {a, b, x, y} |-> NoCard],
             [i \in {a, b, x, y} |->
                IF i = a THEN [Live("c1") EXCEPT !.deleted = TRUE] ELSE NoCard]}

UpdatesOfA ==
  [op: {"annotate"}, id: {a}, arg: {"why"}] \union
  [op: {"pin", "extract", "claim"}, id: {a}, arg: BOOLEAN] \union
  [op: {"delete", "restore", "release"}, id: {a}] \union
  [op: {"rewrite"}, id: {a}, arg: {"c2"}]

DeleteAndAnnotate ==
  [op: {"annotate"}, id: {a}, arg: {"why"}] \union [op: {"delete"}, id: {a}]

DeleteAndRewrite ==
  [op: {"rewrite"}, id: {a}, arg: {"c2"}] \union [op: {"delete"}, id: {a}]

CreationsAsked ==
  [op: {"paste"}, source: {none}, arg: {"c1", "c2"}] \union
  [op: {"sync"}, source: {tweet}, arg: {"c1"}]

MixedAsked ==
  CreationsAsked \union [op: {"delete", "restore"}, id: {a}]
=============================================================================
