--------------------------------- MODULE Ask ---------------------------------
(***************************************************************************)
(* prepare of xask/service.py: the search of the corpus beside a task that *)
(* runs last30days in a subprocess (web_fork/last30days_runner.py), and    *)
(* what becomes of the subprocess when either fails, stalls or is late.    *)
(* The engine and the subprocess are external.                             *)
(***************************************************************************)

VARIABLES
  answer,     \* where prepare is; at the end the status it returns, or "raised"
  wants,      \* the overrides in force that have a part here
  found,      \* what the search came to
  web,        \* where the task is; at the end the status it returns
  fork,       \* the subprocess; "undying" is one that was killed and lives on
  challenged  \* challenge_status

askVars == <<answer, wants, found, web, fork, challenged>>

WebStatuses == {"ok", "empty", "missed", "failed", "skipped"}
WebOver == WebStatuses \union {"none", "cancelled"}
Returned == {"ok", "info", "error"}

AskTypeOK ==
  /\ answer \in {"idle", "search", "cancel", "await", "branch", "challenge", "raised"}
                \union Returned
  /\ wants \subseteq {"no web", "challenge"}
  /\ found \in {"nothing yet", "hits", "no hits", "no cards", "error"}
  /\ web \in {"spawn", "drain"} \union WebOver
  /\ fork \in {"none", "alive", "dead", "undying"}
  /\ challenged \in {"skipped", "found", "no_real_dissent", "failed"}

AskInit ==
  /\ answer = "idle" /\ wants = {} /\ found = "nothing yet"
  /\ web = "none" /\ fork = "none" /\ challenged = "skipped"

-----------------------------------------------------------------------------

\* An empty question, or one of more than 8192 characters.
RefuseQuestion ==
  /\ answer = "idle"
  /\ answer' \in {"info", "error"}
  /\ UNCHANGED <<wants, found, web, fork, challenged>>

\* The overrides are the flags and what parse_overrides finds; unless they say
\* "no web", the task is created.
Prepare ==
  /\ answer = "idle"
  /\ \E flags, tokens \in SUBSET {"no web", "challenge"} : wants' = flags \union tokens
  /\ web' = IF "no web" \in wants' THEN "none" ELSE "spawn"
  /\ answer' = "search"
  /\ UNCHANGED <<found, fork, challenged>>

\* engine.search raises an XSensaiError: the task is cancelled and awaited.
SearchFails ==
  /\ answer = "search"
  /\ found' = "error"
  /\ answer' = IF web = "none" THEN "error" ELSE "cancel"
  /\ UNCHANGED <<wants, web, fork, challenged>>

\* Any other exception, or a cancellation of prepare itself, leaves it, and the
\* task to itself (or cancelled too, if it was being awaited).
SearchRaises ==
  /\ answer \in {"search", "await"}
  /\ answer' = "raised"
  /\ UNCHANGED <<wants, found, web, fork, challenged>>

Search ==
  /\ answer = "search"
  /\ found' \in {"hits", "no hits", "no cards"}
  /\ answer' = "await"
  /\ UNCHANGED <<wants, web, fork, challenged>>

\* Seeded fault: the task is awaited only when it is needed.
AwaitIfNeeded ==
  /\ answer = "await"
  /\ web \in WebOver \/ found # "hits"
  /\ answer' = "branch"
  /\ UNCHANGED <<wants, found, web, fork, challenged>>

\* The status of the task is only looked at once there is one.
Await ==
  /\ answer = "await"
  /\ web \in WebOver
  /\ answer' = "branch"
  /\ UNCHANGED <<wants, found, web, fork, challenged>>

\* Once the cancelled task is over.
Cancelled ==
  /\ answer = "cancel"
  /\ web \in WebOver
  /\ answer' = "error"
  /\ UNCHANGED <<wants, found, web, fork, challenged>>

\* The branch table: EMPTY_CORPUS, NO_CORPUS_MATCH, or a prompt.
Branch ==
  /\ answer = "branch"
  /\ answer' = IF found = "no cards" THEN "error"
               ELSE IF found = "no hits" THEN "info"
               ELSE IF "challenge" \in wants THEN "challenge"
               ELSE "ok"
  /\ UNCHANGED <<wants, found, web, fork, challenged>>

\* The second search, for a card that is not among the first three.
Challenge ==
  /\ answer = "challenge"
  /\ challenged' \in {"found", "no_real_dissent", "failed"}
  /\ answer' = "ok"
  /\ UNCHANGED <<wants, found, web, fork>>

-----------------------------------------------------------------------------

\* Nothing is started: the executable is missing, a link, or somebody else's,
\* or cannot be looked at or run; or the cancellation came first.
NoFork ==
  /\ web = "spawn"
  /\ web' \in IF answer = "cancel" THEN {"cancelled"} ELSE {"skipped", "failed"}
  /\ UNCHANGED <<answer, wants, found, fork, challenged>>

Spawn ==
  /\ web = "spawn"
  /\ fork' = "alive" /\ web' = "drain"
  /\ UNCHANGED <<answer, wants, found, challenged>>

\* The subprocess ends, and its output decides.
ForkEnds ==
  /\ web = "drain"
  /\ fork' = "dead"
  /\ web' \in {"ok", "empty", "failed"}
  /\ UNCHANGED <<answer, wants, found, challenged>>

\* Too much output, no end in 20 seconds, or a cancellation: it is killed, and
\* waited for for two seconds.
KillFork ==
  /\ web = "drain"
  /\ fork' \in {"dead", "undying"}
  /\ web' \in IF answer = "cancel" THEN {"cancelled"} ELSE {"missed", "failed"}
  /\ UNCHANGED <<answer, wants, found, challenged>>

AskNext ==
  \/ RefuseQuestion \/ Prepare \/ Search \/ SearchFails \/ SearchRaises
  \/ Await \/ Cancelled \/ Branch \/ Challenge
  \/ NoFork \/ Spawn \/ ForkEnds \/ KillFork

AskSpec == AskInit /\ [][AskNext]_askVars

-----------------------------------------------------------------------------

\* When prepare has returned, no subprocess goes on, unless killing it did not
\* help ("await the cancelled web_task so the subprocess doesn't leak",
\* service.py:291), and the task starts none any more.
NoForkLeftBehind == answer \in Returned => fork # "alive" /\ web \in WebOver

=============================================================================
