---------------------------- MODULE CommandProofs ----------------------------
(***************************************************************************)
(* Proofs about what the commands keep beside the cards: lazy claims, the  *)
(* paste inbox, the question log and the web fork, for every number of     *)
(* sessions, pastes, log files and appenders.                              *)
(***************************************************************************)
EXTENDS Commands, TLAPS

-----------------------------------------------------------------------------
(* Ask *)

\* A subprocess that runs has its task, and prepare passes its wait for the
\* task only when the task is over.
AskIInv ==
  /\ fork = "alive" => web = "drain"
  /\ answer = "idle" => web = "none"
  /\ answer \in Returned \union {"branch", "challenge"} => web \in WebOver

LEMMA AskInitInv == AskInit => AskIInv
  BY DEF AskInit, AskIInv, Returned, WebOver

LEMMA AskStepInv == AskIInv /\ [AskNext]_askVars => AskIInv'
<1> SUFFICES ASSUME AskIInv, [AskNext]_askVars PROVE AskIInv'
  OBVIOUS
<1> USE DEF AskIInv, Returned, WebOver, WebStatuses
<1>1. CASE RefuseQuestion BY <1>1 DEF RefuseQuestion
<1>2. CASE Prepare BY <1>2 DEF Prepare
<1>3. CASE Search \/ SearchFails \/ SearchRaises
  BY <1>3 DEF Search, SearchFails, SearchRaises
<1>4. CASE Await \/ Cancelled BY <1>4 DEF Await, Cancelled
<1>5. CASE Branch \/ Challenge BY <1>5 DEF Branch, Challenge
<1>6. CASE NoFork \/ Spawn BY <1>6 DEF NoFork, Spawn
<1>7. CASE ForkEnds \/ KillFork BY <1>7 DEF ForkEnds, KillFork
<1>8. CASE UNCHANGED askVars BY <1>8 DEF askVars
<1> QED BY <1>1, <1>2, <1>3, <1>4, <1>5, <1>6, <1>7, <1>8 DEF AskNext

LEMMA AskTypeStep == AskTypeOK /\ [AskNext]_askVars => AskTypeOK'
<1> SUFFICES ASSUME AskTypeOK, [AskNext]_askVars PROVE AskTypeOK'
  OBVIOUS
<1> USE DEF AskTypeOK, Returned, WebOver, WebStatuses
<1>1. CASE RefuseQuestion BY <1>1 DEF RefuseQuestion
<1>2. CASE Prepare BY <1>2 DEF Prepare
<1>3. CASE Search \/ SearchFails \/ SearchRaises
  BY <1>3 DEF Search, SearchFails, SearchRaises
<1>4. CASE Await \/ Cancelled BY <1>4 DEF Await, Cancelled
<1>5. CASE Branch \/ Challenge BY <1>5 DEF Branch, Challenge
<1>6. CASE NoFork \/ Spawn BY <1>6 DEF NoFork, Spawn
<1>7. CASE ForkEnds \/ KillFork BY <1>7 DEF ForkEnds, KillFork
<1>8. CASE UNCHANGED askVars BY <1>8 DEF askVars
<1> QED BY <1>1, <1>2, <1>3, <1>4, <1>5, <1>6, <1>7, <1>8 DEF AskNext

LEMMA AskTypes == AskSpec => []AskTypeOK
<1>1. AskInit => AskTypeOK
  BY DEF AskInit, AskTypeOK, WebOver
<1> QED BY <1>1, AskTypeStep, PTL DEF AskSpec

\* When prepare has returned, no subprocess goes on but one that survives its
\* killing, and none will be started: no path out of prepare, after a failed
\* search included, leaves the task behind it.
THEOREM NoForkStays == AskSpec => []NoForkLeftBehind
<1>1. AskIInv => NoForkLeftBehind
  BY DEF AskIInv, NoForkLeftBehind, Returned, WebOver, WebStatuses
<1> QED BY AskInitInv, AskStepInv, <1>1, PTL DEF AskSpec

-----------------------------------------------------------------------------
(* LazyExtract *)

\* While the card is pending, the claim in it is the newest one: no session has
\* a claim that is less than a minute old and newer than it.
StampIsNewest ==
  ~strayed /\ pending =>
    \A s \in Finders :
      finder[s].at = "extract" /\ time < finder[s].read + StaleAfter =>
        stamp # 0 /\ finder[s].read <= stamp

LazyIInv == LazyTypeOK /\ OneFreshClaimant /\ StampIsNewest

LEMMA LazyInitInv == LazyInit => LazyIInv
<1> SUFFICES ASSUME LazyInit PROVE LazyIInv
  OBVIOUS
<1>1. /\ time = 1 /\ pending = TRUE /\ stamp = 0 /\ strayed = FALSE
      /\ finder \in [Finders -> {Away}]
      /\ \A s \in Finders : finder[s].at # "extract"
  BY DEF LazyInit, Away
<1>2. LazyTypeOK
  <2>1. \A s \in Finders : finder[s] = Away
    BY DEF LazyInit
  <2>2. finder \in [Finders -> {Away} \union [at : {"claim", "extract"}, read : 1..time]]
    BY <1>1
  <2>3. time \in 1..MaxTime /\ stamp \in 0..time
    BY <1>1, LazyAssumption
  <2> QED BY <1>1, <2>2, <2>3 DEF LazyTypeOK
<1>3. OneFreshClaimant /\ StampIsNewest
  BY <1>1 DEF OneFreshClaimant, StampIsNewest
<1> QED BY <1>2, <1>3 DEF LazyIInv

\* Where a session is.
LEMMA FinderType ==
  ASSUME LazyTypeOK, NEW s \in Finders
  PROVE  /\ finder[s].at \in {"away", "claim", "extract"}
         /\ finder[s].at = "away" <=> finder[s] = Away
         /\ finder[s].at # "away" =>
              /\ finder[s] \in [at : {"claim", "extract"}, read : 1..time]
              /\ finder[s].read \in 1..time
  BY DEF LazyTypeOK, Away


\* A session changes its place, and no other does.
LEMMA OneGoes ==
  ASSUME LazyTypeOK, NEW s \in Finders, NEW place, Goes(s, place)
  PROVE  /\ finder'[s] = place
         /\ \A u \in Finders : u # s => finder'[u] = finder[u]
  BY DEF LazyTypeOK, Goes

LEMMA LazyTypeStep == LazyTypeOK /\ [LazyNext]_lazyVars => LazyTypeOK'
<1> SUFFICES ASSUME LazyTypeOK, [LazyNext]_lazyVars PROVE LazyTypeOK'
  OBVIOUS
<1> DEFINE Places(t) == {Away} \union [at : {"claim", "extract"}, read : 1..t]
<1> USE LazyAssumption
<1>0. /\ time \in 1..MaxTime /\ time \in Nat /\ stamp \in 0..time
      /\ finder \in [Finders -> Places(time)]
  BY DEF LazyTypeOK
<1>1. CASE Elapse
  <2>1. time' = time + 1 /\ time' \in 1..MaxTime
    BY <1>0, <1>1 DEF Elapse
  <2>2. 1..time \subseteq 1..time'
    BY <1>0, <2>1
  <2>3. Places(time) \subseteq Places(time')
    BY <2>2
  <2>4. finder' \in [Finders -> Places(time')]
    BY <1>0, <1>1, <2>3 DEF Elapse
  <2> QED BY <1>0, <1>1, <2>1, <2>4 DEF Elapse, LazyTypeOK
<1>2. CASE ExtractElsewhere
  <2>1. pending' = FALSE /\ stamp' = 0 /\ time' = time /\ finder' = finder /\ strayed' = strayed
    BY <1>2 DEF ExtractElsewhere
  <2>2. stamp' \in 0..time' /\ time' \in 1..MaxTime /\ finder' \in [Finders -> Places(time')]
    BY <1>0, <2>1
  <2> QED BY <2>1, <2>2 DEF LazyTypeOK
<1>3. ASSUME NEW s \in Finders,
             Approach(s) \/ Claim(s) \/ SkipCard(s) \/ Apply(s) \/ Release(s) \/ Abandon(s)
      PROVE  LazyTypeOK'
  <2>1. ASSUME NEW place \in Places(time), Goes(s, place)
        PROVE  finder' \in [Finders -> Places(time)]
    BY <1>0, <2>1 DEF Goes
  <2>2. Away \in Places(time)
    OBVIOUS
  <2>3. CASE Approach(s)
    <3>1. [at |-> "claim", read |-> time] \in Places(time)
      BY <1>0
    <3> QED BY <1>0, <2>1, <2>3, <3>1 DEF Approach, LazyTypeOK
  <2>4. CASE Claim(s)
    <3>1. /\ finder[s] \in [at : {"claim", "extract"}, read : 1..time]
          /\ finder[s].read \in 1..time
      BY <2>4, FinderType DEF Claim, LazyTypeOK
    <3>2. [finder[s] EXCEPT !.at = "extract"] \in Places(time)
      BY <3>1
    <3>3. finder' \in [Finders -> Places(time)]
      BY <2>1, <2>4, <3>2 DEF Claim
    <3> QED BY <1>0, <2>4, <3>1, <3>3 DEF Claim, LazyTypeOK
  <2>5. CASE SkipCard(s) \/ Apply(s) \/ Release(s) \/ Abandon(s)
    <3>1. finder' \in [Finders -> Places(time)]
      BY <2>1, <2>2, <2>5 DEF SkipCard, Apply, Release, Abandon
    <3>2. time' = time /\ stamp' \in {0, stamp}
      BY <2>5 DEF SkipCard, Apply, Release, Abandon
    <3>3. stamp' \in 0..time' /\ time' \in 1..MaxTime /\ finder' \in [Finders -> Places(time')]
      BY <1>0, <3>1, <3>2
    <3>4. pending' \in BOOLEAN /\ (~pending' => stamp' = 0)
      BY <2>5 DEF SkipCard, Apply, Release, Abandon, LazyTypeOK
    <3>5. strayed' \in BOOLEAN
      BY <2>5 DEF SkipCard, Apply, Release, Abandon, LazyTypeOK
    <3> QED BY <3>3, <3>4, <3>5 DEF LazyTypeOK
  <2> QED BY <1>3, <2>3, <2>4, <2>5
<1>4. CASE UNCHANGED lazyVars
  BY <1>4 DEF lazyVars, LazyTypeOK
<1> QED BY <1>1, <1>2, <1>3, <1>4 DEF LazyNext

LEMMA FreshStep == LazyIInv /\ [LazyNext]_lazyVars => LazyIInv'
<1> SUFFICES ASSUME LazyIInv, [LazyNext]_lazyVars PROVE LazyIInv'
  OBVIOUS
<1> DEFINE Holds(s) == finder[s].at = "extract" /\ time < finder[s].read + StaleAfter
<1> USE LazyAssumption DEF LazyIInv
<1>0. LazyTypeOK /\ LazyTypeOK' /\ time \in Nat /\ stamp \in Nat
  BY LazyTypeStep DEF LazyTypeOK
<1>a. \A s \in Finders : finder[s].at # "away" => finder[s].read \in Nat /\ finder[s].read <= time
  BY <1>0, FinderType
<1>b. \A s, u \in Finders : s # u /\ Holds(s) /\ Holds(u) => strayed
  BY DEF OneFreshClaimant
<1>c. ~strayed /\ pending => \A s \in Finders : Holds(s) => stamp # 0 /\ finder[s].read <= stamp
  BY DEF StampIsNewest
<1>1. CASE Elapse
  <2>1. \A s \in Finders : Holds(s)' => Holds(s)
    BY <1>0, <1>1, <1>a DEF Elapse
  <2>2. OneFreshClaimant'
    BY <1>1, <1>b, <2>1 DEF OneFreshClaimant, Elapse
  <2>3. StampIsNewest'
    BY <1>1, <1>c, <2>1 DEF StampIsNewest, Elapse
  <2> QED BY <1>0, <2>2, <2>3
<1>2. CASE ExtractElsewhere
  BY <1>0, <1>2, <1>b DEF ExtractElsewhere, OneFreshClaimant, StampIsNewest
<1>3. ASSUME NEW s \in Finders, Approach(s) \/ SkipCard(s) \/ Abandon(s) \/ Apply(s)
      PROVE  LazyIInv'
  <2>1. finder'[s].at # "extract" /\ \A u \in Finders : u # s => finder'[u] = finder[u]
    BY <1>0, <1>3, OneGoes DEF Approach, SkipCard, Abandon, Apply, Away
  <2>2. \A u \in Finders : Holds(u)' => Holds(u)
    BY <1>3, <2>1 DEF Approach, SkipCard, Abandon, Apply
  <2>3. OneFreshClaimant'
    BY <1>3, <1>b, <2>2 DEF OneFreshClaimant, Approach, SkipCard, Abandon, Apply
  <2>4. strayed' = strayed /\ (pending' => pending /\ stamp' = stamp)
    BY <1>3 DEF Approach, SkipCard, Abandon, Apply
  <2>5. ASSUME NEW u \in Finders, Holds(u)' PROVE Holds(u) /\ finder'[u] = finder[u]
    BY <2>1, <2>2, <2>5
  <2>6. StampIsNewest'
    BY <1>c, <2>4, <2>5 DEF StampIsNewest
  <2> QED BY <1>0, <2>3, <2>6
<1>4. ASSUME NEW s \in Finders, Claim(s) PROVE LazyIInv'
  <2>1. /\ finder'[s] = [finder[s] EXCEPT !.at = "extract"]
        /\ \A u \in Finders : u # s => finder'[u] = finder[u]
    BY <1>0, <1>4, OneGoes DEF Claim
  <2>2. /\ finder[s] \in [at : {"claim", "extract"}, read : 1..time]
        /\ finder[s].read \in 1..time
    BY <1>0, <1>4, FinderType DEF Claim
  <2>3. finder'[s].read = finder[s].read
    BY <2>1, <2>2
  <2>4. ASSUME ~strayed, NEW u \in Finders, u # s, Holds(u) PROVE FALSE
    <3>1. stamp # 0 /\ finder[u].read <= stamp
      BY <1>4, <1>c, <2>4 DEF Claim
    <3>2. finder[s].read >= stamp + StaleAfter
      BY <1>0, <1>4, <2>2, <3>1 DEF Claim, Fresh
    <3> QED BY <1>0, <1>a, <2>2, <2>4, <3>1, <3>2
  <2>5. OneFreshClaimant'
    BY <1>4, <2>1, <2>4 DEF OneFreshClaimant, Claim
  <2>6. StampIsNewest'
    BY <1>4, <2>1, <2>2, <2>3, <2>4 DEF StampIsNewest, Claim
  <2> QED BY <1>0, <2>5, <2>6
<1>5. ASSUME NEW s \in Finders, Release(s) PROVE LazyIInv'
  <2>1. finder'[s].at # "extract" /\ \A u \in Finders : u # s => finder'[u] = finder[u]
    BY <1>0, <1>5, OneGoes DEF Release, Away
  <2>2. \A u \in Finders : Holds(u)' => Holds(u) /\ u # s
    BY <1>5, <2>1 DEF Release
  <2>3. OneFreshClaimant'
    BY <1>5, <1>b, <2>2 DEF OneFreshClaimant, Release
  <2>4. ASSUME ~strayed', pending, NEW u \in Finders, Holds(u), u # s PROVE FALSE
    <3>1. ~strayed /\ stamp \in {0, finder[s].read}
      BY <1>5, <2>4 DEF Release
    <3>2. stamp # 0 /\ finder[u].read <= stamp /\ stamp = finder[s].read
      BY <1>c, <2>4, <3>1
    <3>3. ~Holds(s)
      BY <1>b, <2>4, <3>1
    <3>4. time >= finder[s].read + StaleAfter
      BY <1>0, <1>5, <1>a, <3>3 DEF Release
    <3> QED BY <1>0, <1>5, <1>a, <2>4, <3>2, <3>4 DEF Release
  <2>5. StampIsNewest'
    BY <1>5, <2>2, <2>4 DEF StampIsNewest, Release
  <2> QED BY <1>0, <2>3, <2>5
<1>6. CASE UNCHANGED lazyVars
  BY <1>0, <1>6 DEF lazyVars, OneFreshClaimant, StampIsNewest
<1> QED BY <1>1, <1>2, <1>3, <1>4, <1>5, <1>6 DEF LazyNext

\* However long a session waits for the lock after it has read its clock, at most
\* one session has a claim on the card that is less than a minute old, until a
\* session releases a claim that it had lost.
THEOREM OneClaims == LazySpec => []OneFreshClaimant
<1>1. LazyIInv => OneFreshClaimant
  BY DEF LazyIInv
<1> QED BY LazyInitInv, FreshStep, <1>1, PTL DEF LazySpec

-----------------------------------------------------------------------------
(* Inbox *)

Changes(u) == session[u].at \in {"append", "clear"}

\* No two sessions are at one file, and what each has read of its file is what
\* is there.
ReadIsCurrent ==
  ~overlapped => \A u \in Sessions :
    Changes(u) =>
      /\ session[u].seen = inbox[session[u].file]
      /\ \A v \in Sessions \ {u} : Changes(v) => session[v].file # session[u].file

\* Nobody clears an entry but for a card or at the user's wish.
ClearedIsSafe ==
  \A u \in Sessions :
    /\ session[u].at = "wrote" => session[u].paste \in cards
    /\ session[u].at = "clear" => session[u].paste \in cards \union unwanted

InboxIInv == InboxTypeOK /\ ReadIsCurrent /\ ClearedIsSafe /\ NothingIsLost

Asks == [at : {"asked", "wrote"}, paste : Pastes]
Edits == [at : {"append", "clear"}, paste : Pastes, file : InboxFiles, seen : SUBSET Pastes]
Places == {Nowhere} \union Asks \union Edits

\* Where a session is.
LEMMA SessionType ==
  ASSUME InboxTypeOK, NEW s \in Sessions
  PROVE  /\ session \in [Sessions -> Places]
         /\ session[s].at \in {"nowhere", "asked", "wrote", "append", "clear"}
         /\ session[s] # Nowhere => session[s].paste \in Pastes
         /\ session[s].at \in {"asked", "wrote"} => session[s] \in Asks
         /\ Changes(s) => /\ session[s].file \in InboxFiles
                          /\ session[s].seen \subseteq Pastes
         /\ session[s].at # "nowhere" <=> session[s] # Nowhere
<1>1. session \in [Sessions -> Places]
  BY DEF InboxTypeOK, Places, Asks, Edits
<1>2. session[s] \in {Nowhere} \/ session[s] \in Asks \/ session[s] \in Edits
  BY <1>1 DEF Places
<1>3. CASE session[s] = Nowhere
  BY <1>1, <1>3 DEF Nowhere, Changes
<1>4. CASE session[s] \in Asks
  BY <1>1, <1>4 DEF Nowhere, Changes, Asks
<1>5. CASE session[s] \in Edits
  BY <1>1, <1>5 DEF Nowhere, Changes, Edits
<1> QED BY <1>2, <1>3, <1>4, <1>5

LEMMA SessionMoves ==
  ASSUME InboxTypeOK, NEW s \in Sessions, NEW place \in Places, Moves(s, place)
  PROVE  /\ session' \in [Sessions -> Places]
         /\ session'[s] = place
         /\ \A u \in Sessions \ {s} : session'[u] = session[u]
  BY SessionType DEF Moves

LEMMA InboxInitInv == InboxInit => InboxIInv
<1> SUFFICES ASSUME InboxInit PROVE InboxIInv
  OBVIOUS
<1>1. \A s \in Sessions : session[s] = Nowhere
  BY DEF InboxInit
<1>2. session \in [Sessions -> Places]
  BY DEF InboxInit, Places
<1>3. InboxTypeOK
  BY <1>2 DEF InboxInit, InboxTypeOK, Places, Asks, Edits
<1>4. ReadIsCurrent /\ ClearedIsSafe
  BY <1>1 DEF ReadIsCurrent, ClearedIsSafe, Changes, Nowhere
<1>5. NothingIsLost
  BY DEF InboxInit, NothingIsLost
<1> QED BY <1>3, <1>4, <1>5 DEF InboxIInv

\* A session opens a file to change it.
LEMMA OpensInv ==
  ASSUME InboxIInv, NEW s \in Sessions, NEW change \in {"append", "clear"},
         NEW p \in Pastes, NEW f \in InboxFiles,
         Opens(s, change, p, f), ~Changes(s), UNCHANGED <<inbox, cards, promised>>,
         unwanted' \subseteq Pastes, unwanted \subseteq unwanted',
         change = "clear" => p \in cards \union unwanted'
  PROVE  InboxIInv'
<1> DEFINE place == [at |-> change, paste |-> p, file |-> f, seen |-> inbox[f]]
<1>0. InboxTypeOK /\ ReadIsCurrent /\ ClearedIsSafe /\ NothingIsLost
  BY DEF InboxIInv
<1>1. inbox[f] \subseteq Pastes
  BY <1>0 DEF InboxTypeOK
<1>2. place \in Places
  BY <1>1 DEF Places, Edits
<1>3. /\ session' \in [Sessions -> Places] /\ session'[s] = place
      /\ \A u \in Sessions \ {s} : session'[u] = session[u]
  BY <1>0, <1>2, SessionMoves DEF Opens
<1>4. overlapped' \in BOOLEAN
  BY <1>0 DEF Opens, InboxTypeOK
<1>5. InboxTypeOK'
  BY <1>0, <1>3, <1>4 DEF InboxTypeOK, Places, Asks, Edits
<1>6. ReadIsCurrent'
  <2> SUFFICES ASSUME ~overlapped' PROVE \A u \in Sessions :
        Changes(u)' =>
          /\ session'[u].seen = inbox'[session'[u].file]
          /\ \A v \in Sessions \ {u} : Changes(v)' => session'[v].file # session'[u].file
    BY DEF ReadIsCurrent
  <2>1. ~overlapped /\ Within(f) = {}
    BY DEF Opens
  <2>2. \A u \in Sessions : Changes(u) => session[u].file # f
    BY <2>1 DEF Within, Changes
  <2>3. \A u \in Sessions \ {s} : Changes(u)' <=> Changes(u)
    BY <1>3 DEF Changes
  <2>4. session'[s].file = f /\ session'[s].seen = inbox[f]
    BY <1>3
  <2>5. \A u \in Sessions : Changes(u) =>
          /\ session[u].seen = inbox[session[u].file]
          /\ \A v \in Sessions \ {u} : Changes(v) => session[v].file # session[u].file
    BY <1>0, <2>1 DEF ReadIsCurrent
  <2> QED BY <1>3, <2>2, <2>3, <2>4, <2>5
<1>7. ClearedIsSafe'
  BY <1>0, <1>3 DEF ClearedIsSafe
<1>8. NothingIsLost'
  BY <1>0 DEF NothingIsLost, Opens
<1> QED BY <1>5, <1>6, <1>7, <1>8 DEF InboxIInv

\* A session replaces the file that it has read.
LEMMA ReplaceInv ==
  ASSUME InboxIInv, NEW s \in Sessions, Changes(s), NEW entries \in SUBSET Pastes,
         Replace(s, entries),
         NEW place \in {Nowhere} \union Asks, Moves(s, place),
         place # Nowhere => place.at = "asked",
         UNCHANGED <<cards, unwanted, overlapped>>, promised' \subseteq Pastes,
         ~overlapped => inbox[session[s].file] \subseteq entries \union cards \union unwanted,
         promised' \subseteq promised \union entries
  PROVE  InboxIInv'
<1> DEFINE f == session[s].file
<1>0. InboxTypeOK /\ ReadIsCurrent /\ ClearedIsSafe /\ NothingIsLost
  BY DEF InboxIInv
<1>1. /\ session' \in [Sessions -> Places] /\ session'[s] = place
      /\ \A u \in Sessions \ {s} : session'[u] = session[u]
  BY <1>0, SessionMoves DEF Places
<1>2. f \in InboxFiles
  BY <1>0, SessionType
<1>3. /\ inbox' \in [InboxFiles -> SUBSET Pastes] /\ inbox'[f] = entries
      /\ \A g \in InboxFiles \ {f} : inbox'[g] = inbox[g]
  BY <1>0, <1>2 DEF Replace, InboxTypeOK
<1>4. InboxTypeOK'
  BY <1>0, <1>1, <1>3 DEF InboxTypeOK, Places, Asks, Edits
<1>5. place.at \notin {"append", "clear", "wrote"}
  BY DEF Nowhere
<1>6. ReadIsCurrent'
  <2> SUFFICES ASSUME ~overlapped, NEW u \in Sessions, Changes(u)'
               PROVE /\ session'[u].seen = inbox'[session'[u].file]
                     /\ \A v \in Sessions \ {u} :
                          Changes(v)' => session'[v].file # session'[u].file
    BY DEF ReadIsCurrent
  <2>1. u # s
    BY <1>1, <1>5 DEF Changes
  <2>2. Changes(u) /\ session'[u] = session[u]
    BY <1>1, <2>1 DEF Changes
  <2>3. /\ session[u].seen = inbox[session[u].file]
        /\ \A v \in Sessions \ {u} : Changes(v) => session[v].file # session[u].file
    BY <1>0, <2>2 DEF ReadIsCurrent
  <2>4. session[u].file # f /\ session[u].file \in InboxFiles
    BY <1>0, <2>1, <2>2, <2>3, SessionType
  <2>5. \A v \in Sessions : Changes(v)' => Changes(v) /\ session'[v] = session[v]
    BY <1>1, <1>5 DEF Changes
  <2> QED BY <1>3, <2>2, <2>3, <2>4, <2>5
<1>7. ClearedIsSafe'
  BY <1>0, <1>1, <1>5 DEF ClearedIsSafe
<1>8. NothingIsLost'
  BY <1>0, <1>2, <1>3 DEF NothingIsLost, InboxFiles
<1> QED BY <1>4, <1>6, <1>7, <1>8 DEF InboxIInv

\* A session goes where it has no file open, and the files stay.
LEMMA WalksInv ==
  ASSUME InboxIInv, NEW s \in Sessions,
         NEW place \in {Nowhere} \union Asks, Moves(s, place),
         UNCHANGED <<inbox, promised, unwanted, overlapped>>,
         cards' \subseteq Pastes, cards \subseteq cards',
         place.at = "wrote" => place.paste \in cards'
  PROVE  InboxIInv'
<1>0. InboxTypeOK /\ ReadIsCurrent /\ ClearedIsSafe /\ NothingIsLost
  BY DEF InboxIInv
<1>1. /\ session' \in [Sessions -> Places] /\ session'[s] = place
      /\ \A u \in Sessions \ {s} : session'[u] = session[u]
  BY <1>0, SessionMoves DEF Places
<1>2. place.at \notin {"append", "clear"}
  BY DEF Nowhere, Asks
<1>3. InboxTypeOK'
  BY <1>0, <1>1 DEF InboxTypeOK, Places, Asks, Edits
<1>4. ReadIsCurrent'
  BY <1>0, <1>1, <1>2 DEF ReadIsCurrent, Changes
<1>5. ClearedIsSafe'
  BY <1>0, <1>1, <1>2 DEF ClearedIsSafe
<1>6. NothingIsLost'
  BY <1>0 DEF NothingIsLost
<1> QED BY <1>3, <1>4, <1>5, <1>6 DEF InboxIInv

LEMMA InboxStepInv == InboxIInv /\ [InboxNext]_inboxVars => InboxIInv'
<1> SUFFICES ASSUME InboxIInv, [InboxNext]_inboxVars PROVE InboxIInv'
  OBVIOUS
<1>0. InboxTypeOK /\ ReadIsCurrent /\ ClearedIsSafe
  BY DEF InboxIInv
<1>t. /\ inbox \in [InboxFiles -> SUBSET Pastes] /\ cards \subseteq Pastes
      /\ promised \subseteq Pastes /\ unwanted \subseteq Pastes
      /\ "quick" \in InboxFiles
  BY <1>0 DEF InboxTypeOK, InboxFiles
<1>1. ASSUME NEW s \in Sessions, NEW p \in Pastes, NEW f \in InboxFiles, ReadInbox(s, p, f)
      PROVE  InboxIInv'
  BY <1>1, <1>t, OpensInv DEF ReadInbox, Changes, Nowhere
<1>2. ASSUME NEW s \in Sessions, NEW p \in Pastes, Recover(s, p) PROVE InboxIInv'
  <2>1. [at |-> "asked", paste |-> p] \in Asks
    BY DEF Asks
  <2> QED BY <1>2, <1>t, <2>1, WalksInv DEF Recover
<1>3. ASSUME NEW s \in Sessions, NEW p \in Pastes, ThrowAway(s, p) PROVE InboxIInv'
  BY <1>3, <1>t, OpensInv DEF ThrowAway, Changes, Nowhere
<1>4. ASSUME NEW s \in Sessions, Changes(s)
      PROVE  /\ session[s].paste \in Pastes /\ session[s].seen \subseteq Pastes
             /\ ~overlapped => session[s].seen = inbox[session[s].file]
             /\ Appended(s) \in SUBSET Pastes
             /\ [at |-> "asked", paste |-> session[s].paste] \in Asks
  <2>1. session[s].paste \in Pastes /\ session[s].seen \subseteq Pastes
    BY <1>0, <1>4, SessionType DEF Changes, Nowhere
  <2> QED BY <1>0, <1>4, <2>1 DEF ReadIsCurrent, Appended, Asks
<1>5. ASSUME NEW s \in Sessions, AppendEntry(s) PROVE InboxIInv'
  <2>1. Changes(s)
    BY <1>5 DEF AppendEntry, Changes
  <2>2. promised' \subseteq Pastes /\ promised' \subseteq promised \union Appended(s)
    BY <1>4, <1>5, <1>t, <2>1 DEF AppendEntry, Appended
  <2>3. ~overlapped => inbox[session[s].file] \subseteq Appended(s)
    BY <1>4, <2>1 DEF Appended
  <2> QED BY <1>4, <1>5, <2>1, <2>2, <2>3, ReplaceInv DEF AppendEntry
<1>6. ASSUME NEW s \in Sessions, AppendFails(s) PROVE InboxIInv'
  <2>1. Changes(s)
    BY <1>6 DEF AppendFails, Changes
  <2>2. ~overlapped => inbox[session[s].file] \subseteq Appended(s)
    BY <1>4, <2>1 DEF Appended
  <2>3. CASE UNCHANGED inbox
    BY <1>4, <1>6, <1>t, <2>1, <2>3, WalksInv DEF AppendFails
  <2>4. CASE Replace(s, Appended(s))
    BY <1>4, <1>6, <1>t, <2>1, <2>2, <2>4, ReplaceInv DEF AppendFails
  <2> QED BY <1>6, <2>3, <2>4 DEF AppendFails
<1>7. ASSUME NEW s \in Sessions, WriteCard(s) PROVE InboxIInv'
  <2>1. session[s].paste \in Pastes
    BY <1>0, <1>7, SessionType DEF WriteCard
  <2>2. [at |-> "wrote", paste |-> session[s].paste] \in Asks
    BY <2>1 DEF Asks
  <2> QED BY <1>7, <1>t, <2>1, <2>2, WalksInv DEF WriteCard
<1>8. ASSUME NEW s \in Sessions, NoCardWritten(s) \/ Dies(s) PROVE InboxIInv'
  BY <1>8, <1>t, WalksInv DEF NoCardWritten, Dies, Nowhere
<1>9. ASSUME NEW s \in Sessions, FindEntry(s) PROVE InboxIInv'
  <2>1. session[s].paste \in cards /\ session[s].paste \in Pastes /\ ~Changes(s)
    BY <1>0, <1>9, <1>t DEF FindEntry, ClearedIsSafe, Changes
  <2>2. CASE Opens(s, "clear", session[s].paste, "quick")
    BY <1>9, <1>t, <2>1, <2>2, OpensInv DEF FindEntry
  <2>3. CASE Moves(s, Nowhere) /\ UNCHANGED overlapped
    BY <1>9, <1>t, <2>3, WalksInv DEF FindEntry, Nowhere
  <2> QED BY <1>9, <2>2, <2>3 DEF FindEntry
<1>10. ASSUME NEW s \in Sessions, ClearEntry(s) PROVE InboxIInv'
  <2>1. Changes(s) /\ session[s].paste \in cards \union unwanted
    BY <1>0, <1>10 DEF ClearEntry, Changes, ClearedIsSafe
  <2>2. session[s].seen \ {session[s].paste} \in SUBSET Pastes
    BY <1>4, <2>1
  <2>3. ~overlapped => inbox[session[s].file] \subseteq
          (session[s].seen \ {session[s].paste}) \union cards \union unwanted
    BY <1>4, <2>1
  <2> QED BY <1>10, <1>t, <2>1, <2>2, <2>3, ReplaceInv DEF ClearEntry
<1>11. CASE UNCHANGED inboxVars
  BY <1>11 DEF inboxVars, InboxIInv, InboxTypeOK, ReadIsCurrent, ClearedIsSafe,
               NothingIsLost, Changes
<1> QED BY <1>1, <1>2, <1>3, <1>5, <1>6, <1>7, <1>8, <1>9, <1>10, <1>11
        DEF InboxNext, SessionStep

\* Whatever dies, fails, is cancelled or is recovered, and however many sessions
\* paste: a snapshot that was reported as written is an entry of the inbox or a
\* card, unless the user has thrown it away, until two sessions are between
\* reading and replacing one file.
THEOREM PastesAreKept == InboxSpec => []NothingIsLost
<1>1. InboxIInv => NothingIsLost
  BY DEF InboxIInv
<1> QED BY InboxInitInv, InboxStepInv, <1>1, PTL DEF InboxSpec

-----------------------------------------------------------------------------
(* RunLog *)

\* The purge works on the file that has the name, and what it has locked and
\* read is its own; what it will keep is all that anybody is owed.
PurgerIsRight ==
  /\ purger.at # "off" => path \in 1..(MaxFiles - 1) /\ purger.file = path
  /\ purger.at \in {"locked", "read"} => holder[path] = "purge"
  /\ purger.at = "read" => Owed \ overtaken \subseteq purger.kept

\* An appender has the file that had the name, and its flock when it writes.
AskersAreRight ==
  \A a \in Askers :
    /\ asker[a].at # "new" => asker[a].file \in 1..path
    /\ asker[a].at = "locked" => holder[asker[a].file] = a

LogIInv == LogTypeOK /\ PurgerIsRight /\ AskersAreRight /\ LandedIsKept

LEMMA LogInitInv == LogInit => LogIInv
<1> SUFFICES ASSUME LogInit PROVE LogIInv
  OBVIOUS
<1>1. LogTypeOK
  BY LogAssumption DEF LogInit, LogTypeOK, LogFiles
<1>2. PurgerIsRight /\ AskersAreRight /\ LandedIsKept
  BY DEF LogInit, PurgerIsRight, AskersAreRight, LandedIsKept
<1> QED BY <1>1, <1>2 DEF LogIInv

LEMMA LogStepInv == LogIInv /\ [LogNext]_logVars => LogIInv'
<1> SUFFICES ASSUME LogIInv, [LogNext]_logVars PROVE LogIInv'
  OBVIOUS
<1> USE LogAssumption DEF LogFiles
<1>0. LogTypeOK /\ PurgerIsRight /\ AskersAreRight /\ LandedIsKept
  BY DEF LogIInv
<1>t. /\ path \in 0..MaxFiles /\ path \in Nat /\ MaxFiles \in Nat
      /\ lines \in [LogFiles -> SUBSET Askers]
      /\ holder \in [LogFiles -> {"nobody", "purge"} \union Askers]
      /\ expired \subseteq Askers /\ overtaken \subseteq Askers
      /\ asker \in [Askers ->
           [at : {"new", "open", "locked", "done", "failed"}, file : 0..MaxFiles]]
      /\ purger \in [at : {"off", "open", "locked", "read"}, file : 0..MaxFiles,
                     kept : SUBSET Askers]
  BY <1>0 DEF LogTypeOK
<1>f. \A a \in Askers : asker[a].at # "new" => asker[a].file \in LogFiles /\ path \in LogFiles
  BY <1>0, <1>t DEF AskersAreRight
<1>1. ASSUME NEW a \in Askers, OpenLog(a) PROVE LogIInv'
  <2>1. path' \in LogFiles /\ (path # 0 => path' = path) /\ path' \in Nat
    BY <1>1, <1>t DEF OpenLog
  <2>2. /\ asker'[a] = [at |-> "open", file |-> path']
        /\ \A b \in Askers \ {a} : asker'[b] = asker[b]
        /\ asker' \in [Askers ->
             [at : {"new", "open", "locked", "done", "failed"}, file : 0..MaxFiles]]
    BY <1>1, <1>t, <2>1 DEF OpenLog
  <2>3. LogTypeOK'
    BY <1>0, <1>1, <2>1, <2>2 DEF OpenLog, LogTypeOK
  <2>4. Owed' = Owed
    BY <1>1, <1>t, <2>2 DEF OpenLog, Owed
  <2>5. PurgerIsRight'
    BY <1>0, <1>1, <1>t, <2>1, <2>4 DEF OpenLog, PurgerIsRight
  <2>6. AskersAreRight'
    BY <1>0, <1>1, <1>t, <2>1, <2>2 DEF OpenLog, AskersAreRight
  <2>7. path = 0 => Owed = {}
    BY <1>0, <1>t DEF Owed, AskersAreRight
  <2>8. LandedIsKept'
    BY <1>0, <1>1, <2>1, <2>4, <2>7 DEF OpenLog, LandedIsKept
  <2> QED BY <2>3, <2>5, <2>6, <2>8 DEF LogIInv
<1>2. ASSUME NEW a \in Askers, LockLog(a) PROVE LogIInv'
  <2> DEFINE f == asker[a].file
  <2>1. f \in LogFiles /\ holder[f] = "nobody"
    BY <1>2, <1>f DEF LockLog
  <2>2. /\ asker'[a].at = "locked" /\ asker'[a].file = f
        /\ \A b \in Askers \ {a} : asker'[b] = asker[b]
        /\ asker' \in [Askers ->
             [at : {"new", "open", "locked", "done", "failed"}, file : 0..MaxFiles]]
    BY <1>2, <1>t DEF LockLog
  <2>3. /\ holder'[f] = a /\ \A g \in LogFiles \ {f} : holder'[g] = holder[g]
        /\ holder' \in [LogFiles -> {"nobody", "purge"} \union Askers]
    BY <1>2, <1>t, <2>1 DEF LockLog
  <2>4. LogTypeOK'
    BY <1>0, <1>2, <2>2, <2>3 DEF LockLog, LogTypeOK
  <2>5. Owed' = Owed
    BY <1>2, <1>t, <2>2 DEF LockLog, Owed
  <2>6. PurgerIsRight'
    BY <1>0, <1>2, <1>t, <2>1, <2>3, <2>5 DEF LockLog, PurgerIsRight
  <2>7. AskersAreRight'
    BY <1>0, <1>2, <1>f, <2>1, <2>2, <2>3 DEF LockLog, AskersAreRight
  <2>8. LandedIsKept'
    BY <1>0, <1>2, <2>5 DEF LockLog, LandedIsKept
  <2> QED BY <2>4, <2>6, <2>7, <2>8 DEF LogIInv
<1>3. ASSUME NEW a \in Askers, WriteLine(a) PROVE LogIInv'
  <2> DEFINE f == asker[a].file
  <2>1. f \in LogFiles /\ holder[f] = a /\ path \in LogFiles /\ path' = path /\ purger' = purger
    BY <1>0, <1>3, <1>f DEF WriteLine, AskersAreRight
  <2>2. /\ asker'[a].at = "done" /\ asker'[a].file = f
        /\ \A b \in Askers \ {a} : asker'[b] = asker[b]
        /\ asker' \in [Askers ->
             [at : {"new", "open", "locked", "done", "failed"}, file : 0..MaxFiles]]
    BY <1>3, <1>t DEF WriteLine
  <2>3. /\ holder'[f] = "nobody" /\ \A g \in LogFiles \ {f} : holder'[g] = holder[g]
        /\ holder' \in [LogFiles -> {"nobody", "purge"} \union Askers]
    BY <1>3, <1>t, <2>1 DEF WriteLine
  <2>4. /\ lines' \in [LogFiles -> SUBSET Askers]
        /\ lines'[f] = lines[f] \union {a}
        /\ \A g \in LogFiles : lines[g] \subseteq lines'[g]
    BY <1>3, <1>t, <2>1 DEF WriteLine
  <2>5. /\ overtaken' \subseteq Askers /\ overtaken \subseteq overtaken'
        /\ f # path => a \in overtaken'
    BY <1>3, <1>t DEF WriteLine
  <2>6. Owed' \subseteq Owed \union {a}
    BY <1>3, <1>t, <2>2 DEF WriteLine, Owed
  <2>7. LogTypeOK'
    BY <1>0, <1>3, <2>2, <2>3, <2>4, <2>5 DEF WriteLine, LogTypeOK
  <2>8. holder[path] = "purge" => f # path
    BY <2>1
  <2>9. PurgerIsRight'
    BY <1>0, <2>1, <2>3, <2>5, <2>6, <2>8 DEF PurgerIsRight
  <2>10. AskersAreRight'
    <3> SUFFICES ASSUME NEW b \in Askers
                 PROVE  /\ asker'[b].at # "new" => asker'[b].file \in 1..path
                        /\ asker'[b].at = "locked" => holder'[asker'[b].file] = b
      BY <2>1 DEF AskersAreRight
    <3>1. CASE b = a
      <4>1. asker[a].at # "new"
        BY <1>3 DEF WriteLine
      <4> QED BY <1>0, <2>2, <3>1, <4>1 DEF AskersAreRight
    <3>2. CASE b # a
      <4>1. /\ asker[b].at # "new" => asker[b].file \in 1..path
            /\ asker[b].at = "locked" => holder[asker[b].file] = b /\ asker[b].file \in LogFiles
        BY <1>0, <1>f DEF AskersAreRight
      <4> QED BY <2>1, <2>2, <2>3, <3>2, <4>1
    <3> QED BY <3>1, <3>2
  <2>11. LandedIsKept'
    BY <1>0, <1>t, <2>1, <2>4, <2>5, <2>6 DEF LandedIsKept
  <2> QED BY <2>7, <2>9, <2>10, <2>11 DEF LogIInv
<1>4. ASSUME NEW a \in Askers, NoLine(a) PROVE LogIInv'
  <2> DEFINE f == asker[a].file
  <2>1. f \in LogFiles
    BY <1>4, <1>f DEF NoLine
  <2>2. /\ asker'[a].at = "failed" /\ asker'[a].file = f
        /\ \A b \in Askers \ {a} : asker'[b] = asker[b]
        /\ asker' \in [Askers ->
             [at : {"new", "open", "locked", "done", "failed"}, file : 0..MaxFiles]]
    BY <1>4, <1>t DEF NoLine
  <2>3. /\ \A g \in LogFiles : holder[g] # a => holder'[g] = holder[g]
        /\ holder' \in [LogFiles -> {"nobody", "purge"} \union Askers]
    BY <1>4, <1>t, <2>1 DEF NoLine
  <2>4. LogTypeOK'
    BY <1>0, <1>4, <2>2, <2>3 DEF NoLine, LogTypeOK
  <2>5. Owed' = Owed
    BY <1>4, <1>t, <2>2 DEF NoLine, Owed
  <2>6. PurgerIsRight'
    BY <1>0, <1>4, <1>t, <2>3, <2>5 DEF NoLine, PurgerIsRight
  <2>7. AskersAreRight'
    BY <1>0, <1>4, <1>f, <2>2, <2>3 DEF NoLine, AskersAreRight
  <2>8. LandedIsKept'
    BY <1>0, <1>4, <2>5 DEF NoLine, LandedIsKept
  <2> QED BY <2>4, <2>6, <2>7, <2>8 DEF LogIInv
<1>5. ASSUME NEW a \in Askers, Expire(a) PROVE LogIInv'
  <2>1. Owed' \subseteq Owed /\ expired' \subseteq Askers
    BY <1>5, <1>t DEF Expire, Owed
  <2> QED BY <1>0, <1>5, <2>1
          DEF Expire, LogIInv, LogTypeOK, PurgerIsRight, AskersAreRight, LandedIsKept
<1>6. CASE PurgeOpens
  <2>1. Owed' = Owed
    BY <1>6 DEF PurgeOpens, Owed
  <2>2. LogTypeOK'
    BY <1>0, <1>6, <1>t DEF PurgeOpens, LogTypeOK
  <2>3. PurgerIsRight'
    BY <1>6, <1>t DEF PurgeOpens, PurgerIsRight
  <2> QED BY <1>0, <1>6, <2>1, <2>2, <2>3 DEF PurgeOpens, LogIInv, AskersAreRight, LandedIsKept
<1>7. CASE PurgeLocks
  <2>1. path \in LogFiles /\ purger.file = path /\ holder[path] = "nobody"
    BY <1>0, <1>7, <1>t DEF PurgeLocks, PurgerIsRight
  <2>2. /\ holder'[path] = "purge" /\ \A g \in LogFiles \ {path} : holder'[g] = holder[g]
        /\ holder' \in [LogFiles -> {"nobody", "purge"} \union Askers]
    BY <1>7, <1>t, <2>1 DEF PurgeLocks
  <2>3. purger'.at = "locked" /\ purger'.file = path /\ path' = path
    BY <1>7, <1>t, <2>1 DEF PurgeLocks
  <2>4. LogTypeOK'
    BY <1>0, <1>7, <1>t, <2>2 DEF PurgeLocks, LogTypeOK
  <2>5. PurgerIsRight'
    BY <1>0, <1>7, <2>2, <2>3 DEF PurgeLocks, PurgerIsRight
  <2>6. AskersAreRight'
    BY <1>0, <1>7, <1>f, <2>1, <2>2 DEF PurgeLocks, AskersAreRight
  <2>7. LandedIsKept'
    BY <1>0, <1>7 DEF PurgeLocks, LandedIsKept, Owed
  <2> QED BY <2>4, <2>5, <2>6, <2>7 DEF LogIInv
<1>8. CASE PurgeReads
  <2>1. /\ path \in LogFiles /\ path' = path /\ purger'.at = "read"
        /\ purger'.file = purger.file /\ purger'.kept = lines[path] \ expired
        /\ Owed' = Owed
    BY <1>0, <1>8, <1>t DEF PurgeReads, PurgerIsRight, Owed
  <2>2. LogTypeOK'
    BY <1>0, <1>8, <1>t, <2>1 DEF PurgeReads, LogTypeOK
  <2>3. Owed \ overtaken \subseteq lines[path] \ expired
    BY <1>0, <1>t, <2>1 DEF LandedIsKept, Owed
  <2>4. PurgerIsRight'
    BY <1>0, <1>8, <2>1, <2>3 DEF PurgeReads, PurgerIsRight
  <2> QED BY <1>0, <1>8, <2>1, <2>2, <2>4 DEF PurgeReads, LogIInv, AskersAreRight, LandedIsKept
<1>u. /\ \A g \in LogFiles : holder[g] # "purge" => Unlocked[g] = holder[g]
      /\ Unlocked \in [LogFiles -> {"nobody", "purge"} \union Askers]
  BY <1>t DEF Unlocked
<1>9. CASE PurgeReplaces
  <2>1. path \in 1..(MaxFiles - 1) /\ Owed \ overtaken \subseteq purger.kept
    BY <1>0, <1>9 DEF PurgeReplaces, PurgerIsRight
  <2>2. path' = path + 1 /\ path' \in LogFiles /\ holder' = Unlocked /\ Owed' = Owed
    BY <1>9, <1>t, <2>1 DEF PurgeReplaces, Owed
  <2>3. lines' \in [LogFiles -> SUBSET Askers] /\ lines'[path'] = purger.kept
    BY <1>9, <1>t, <2>2 DEF PurgeReplaces
  <2>4. LogTypeOK'
    BY <1>0, <1>9, <1>t, <1>u, <2>2, <2>3 DEF PurgeReplaces, LogTypeOK
  <2>5. PurgerIsRight'
    BY <1>9 DEF PurgeReplaces, PurgerIsRight
  <2>6. AskersAreRight'
    BY <1>0, <1>9, <1>f, <1>t, <1>u, <2>2 DEF PurgeReplaces, AskersAreRight
  <2>7. LandedIsKept'
    BY <1>9, <2>1, <2>2, <2>3 DEF PurgeReplaces, LandedIsKept
  <2> QED BY <2>4, <2>5, <2>6, <2>7 DEF LogIInv
<1>10. CASE PurgeFails
  <2>1. LogTypeOK'
    BY <1>0, <1>10, <1>t, <1>u DEF PurgeFails, LogTypeOK
  <2>2. PurgerIsRight'
    BY <1>10 DEF PurgeFails, PurgerIsRight
  <2>3. AskersAreRight'
    BY <1>0, <1>10, <1>f, <1>t, <1>u DEF PurgeFails, AskersAreRight
  <2>4. LandedIsKept'
    BY <1>0, <1>10 DEF PurgeFails, LandedIsKept, Owed
  <2> QED BY <2>1, <2>2, <2>3, <2>4 DEF LogIInv
<1>11. CASE UNCHANGED logVars
  BY <1>0, <1>11 DEF logVars, LogIInv, LogTypeOK, PurgerIsRight, AskersAreRight,
                     LandedIsKept, Owed
<1> QED BY <1>1, <1>2, <1>3, <1>4, <1>5, <1>6, <1>7, <1>8, <1>9, <1>10, <1>11 DEF LogNext

\* What an appender has written is in the file that has the name until it is too
\* old, through every purge, unless the appender had opened the file that a purge
\* then replaced.
THEOREM EntriesAreKept == LogSpec => []LandedIsKept
<1>1. LogIInv => LandedIsKept
  BY DEF LogIInv
<1> QED BY LogInitInv, LogStepInv, <1>1, PTL DEF LogSpec

-----------------------------------------------------------------------------
(* The composition *)

\* Each component sees its own steps, and is left alone by the others.
LEMMA EachWorksAlone ==
  CommandsSpec => LazySpec /\ InboxSpec /\ LogSpec /\ AskSpec
<1>1. CommandsInit => LazyInit /\ InboxInit /\ LogInit /\ AskInit
  BY DEF CommandsInit
<1>2. [CommandsNext]_commandVars =>
        [LazyNext]_lazyVars /\ [InboxNext]_inboxVars /\ [LogNext]_logVars /\ [AskNext]_askVars
  BY DEF CommandsNext, NonceWorks, LazyWorks, InboxWorks, LogWorks, AskWorks, commandVars
<1> QED BY <1>1, <1>2, PTL DEF CommandsSpec, LazySpec, InboxSpec, LogSpec, AskSpec

\* Claims, inbox, log and fork are what they are meant to be, however the steps
\* of the commands interleave.
THEOREM CommandTypes == CommandsSpec => []CommandsTypeOK
<1>1. LazyIInv => LazyTypeOK
  BY DEF LazyIInv
<1>2. InboxIInv => InboxTypeOK
  BY DEF InboxIInv
<1>3. LogIInv => LogTypeOK
  BY DEF LogIInv
<1>4. LazySpec => []LazyTypeOK
  BY LazyInitInv, FreshStep, <1>1, PTL DEF LazySpec
<1>5. InboxSpec => []InboxTypeOK
  BY InboxInitInv, InboxStepInv, <1>2, PTL DEF InboxSpec
<1>6. LogSpec => []LogTypeOK
  BY LogInitInv, LogStepInv, <1>3, PTL DEF LogSpec
<1>7. LazyTypeOK /\ InboxTypeOK /\ LogTypeOK /\ AskTypeOK => CommandsTypeOK
  BY DEF CommandsTypeOK
<1> QED BY EachWorksAlone, AskTypes, <1>4, <1>5, <1>6, <1>7, PTL

=============================================================================
