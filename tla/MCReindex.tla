----------------------------- MODULE MCReindex -----------------------------
(* Instances of Reindex for TLC. *)
EXTENDS Reindex, TLC

CONSTANTS q1, q2, f1, server, other, xsync

\* Two searches of one server, and a sync.
OneServer == q1 :> server @@ q2 :> server @@ f1 :> xsync

\* A search in each of two servers, and a sync.
TwoServers == q1 :> server @@ q2 :> other @@ f1 :> xsync
=============================================================================
