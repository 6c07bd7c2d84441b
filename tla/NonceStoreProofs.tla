--------------------------- MODULE NonceStoreProofs ---------------------------
(***************************************************************************)
(* Proofs about the confirmation codes, for every number of threads, cards *)
(* and codes, and for every TTL and grace.                                 *)
(***************************************************************************)
EXTENDS NonceStore, SequenceTheorems, TLAPS

\* A call's clock was read before now.
ClocksPast ==
  \A t \in Calls : call[t].kind \in {"issue", "redeem"} => call[t].at <= now

\* Nobody redeems a code that was not shown yet.
CodesShown ==
  \A t \in Calls : call[t].kind = "redeem" => call[t].code \in 0..made

\* The ledger of uses agrees with the tombstones.
UsesAreTombstones ==
  /\ \A c \in Codes : uses[c] <= 1
  /\ \A c \in 1..made : uses[c] = 0 \/ nonce[c].redeemed
  /\ \A c \in Codes : c > made => uses[c] = 0

NonceIInv ==
  /\ NonceTypeOK
  /\ ClocksPast
  /\ CodesShown
  /\ UsesAreTombstones

\* The dictionary also remembers what it should since the last restart.
LifeIInv == NonceIInv /\ LiveCodeHonoured /\ LastCodeKept

LEMMA InitInv == NonceInit => NonceIInv
  BY NonceAssumption
  DEF NonceInit, NonceIInv, NonceTypeOK, ClocksPast, CodesShown,
      UsesAreTombstones, Codes, Answers, Nonce, made

\* What redeem and issue find in the dictionary was in it.
LEMMA KeptType ==
  ASSUME NonceTypeOK, NEW at \in Nat
  PROVE  /\ made \in Nat
         /\ Kept(at) \in [Keys -> 0..made]
         /\ \A k \in Keys : Kept(at)[k] # 0 => Kept(at)[k] = byKey[k]
         /\ \A k \in Keys : Kept(at)[k] # 0 => nonce[Kept(at)[k]].key = k
  BY DEF NonceTypeOK, Kept, made

LEMMA CodeType ==
  ASSUME NonceTypeOK
  PROVE  /\ made \in Nat /\ now \in Nat
         /\ \A c \in 1..made : /\ nonce[c] \in Nonce
                               /\ nonce[c].expires \in Nat
                               /\ nonce[c].key \in Keys
<1>1. made \in Nat /\ now \in Nat
  BY LenProperties DEF NonceTypeOK, made
<1>2. \A c \in 1..made : nonce[c] \in Nonce
  BY ElementOfSeq DEF NonceTypeOK, made
<1> QED BY <1>1, <1>2 DEF Nonce

LEMMA MintInv ==
  ASSUME NonceIInv, NEW t \in Calls, NEW k \in Keys, NEW at \in Nat,
         call[t].kind = "issue", at <= now, made < MaxCodes,
         Mint(k, at), Return(t, [kind |-> "code", code |-> made + 1]),
         UNCHANGED <<now, uses, lost>>
  PROVE  NonceIInv'
<1> DEFINE n == [key |-> k, expires |-> at + TTL, redeemed |-> FALSE]
<1> USE NonceAssumption DEF NonceIInv, NonceTypeOK
<1>0. /\ made \in Nat
      /\ Kept(at) \in [Keys -> 0..made]
      /\ \A j \in Keys : Kept(at)[j] # 0 => nonce[Kept(at)[j]].key = j
  BY KeptType
<1>0a. byKey' = [Kept(at) EXCEPT ![k] = made + 1]
  BY DEF Mint
<1> HIDE DEF n
<1>1. n \in Nonce
  BY DEF Nonce, n
<1>2. /\ nonce' \in Seq(Nonce) /\ made' = made + 1
      /\ nonce'[made + 1] = n
      /\ \A c \in 1..made : nonce'[c] = nonce[c]
  BY <1>1, AppendProperties DEF Mint, made, n
<1>3. byKey' \in [Keys -> 0..made']
  BY <1>0, <1>0a, <1>2
<1>4. \A j \in Keys : byKey'[j] # 0 => nonce'[byKey'[j]].key = j
  <2> SUFFICES ASSUME NEW j \in Keys, byKey'[j] # 0
               PROVE  nonce'[byKey'[j]].key = j
    OBVIOUS
  <2>1. CASE j = k
    BY <1>0, <1>0a, <1>2, <2>1 DEF n
  <2>2. CASE j # k
    <3>1. byKey'[j] = Kept(at)[j] /\ Kept(at)[j] \in 1..made
      BY <1>0, <1>0a, <2>2
    <3> QED BY <1>0, <1>2, <3>1
  <2> QED BY <2>1, <2>2
<1>5. call' \in [Calls -> Requests \union Answers]
  <2>1. made + 1 \in Codes
    BY <1>0 DEF Codes
  <2>2. [kind |-> "code", code |-> made + 1] \in Answers
    BY <2>1 DEF Answers
  <2> QED BY <2>2 DEF Return
<1>6. NonceTypeOK'
  <2>1. lost' \in 0..made'
    BY <1>0, <1>2
  <2> QED BY <1>2, <1>3, <1>4, <1>5, <2>1 DEF made
<1>7. ClocksPast' /\ CodesShown'
  BY <1>2 DEF ClocksPast, CodesShown, Return, made
<1>8. UsesAreTombstones'
  <2>1. /\ \A c \in Codes : uses[c] <= 1 /\ (c > made => uses[c] = 0)
        /\ \A c \in 1..made : uses[c] = 0 \/ nonce'[c].redeemed
    BY <1>2 DEF UsesAreTombstones
  <2>2. \A c \in 1..made' : c # made + 1 => c \in 1..made
    BY <1>0, <1>2
  <2>3. made + 1 \in Codes /\ made + 1 > made
    BY <1>0 DEF Codes
  <2> QED BY <1>0, <1>2, <2>1, <2>2, <2>3 DEF UsesAreTombstones, Codes
<1> QED BY <1>6, <1>7, <1>8

LEMMA AcceptInv ==
  ASSUME NonceIInv, NEW t \in Calls, NEW at \in Nat, NEW k \in Keys,
         NEW c \in 0..made, call[t].kind = "redeem",
         Kept(at)[k] = c, Alive(c, at), Accept(t, c), byKey' = Kept(at),
         UNCHANGED <<now, lost>>
  PROVE  NonceIInv'
<1> USE NonceAssumption DEF NonceIInv, NonceTypeOK
<1>0. /\ made \in Nat
      /\ Kept(at) \in [Keys -> 0..made]
      /\ \A j \in Keys : Kept(at)[j] # 0 => nonce[Kept(at)[j]].key = j
  BY KeptType
<1>1. c \in 1..made /\ ~nonce[c].redeemed
  BY DEF Alive, made
<1>2. /\ nonce[c] \in Nonce
      /\ nonce' = [nonce EXCEPT ![c] = [nonce[c] EXCEPT !.redeemed = TRUE]]
  BY <1>1, ElementOfSeq DEF Accept, made
<1>3. [nonce[c] EXCEPT !.redeemed = TRUE] \in Nonce
  BY <1>2 DEF Nonce
<1>4. nonce' \in Seq(Nonce) /\ made' = made
  BY <1>1, <1>2, <1>3, ExceptSeq DEF made
<1>5. \A d \in 1..made : nonce'[d].key = nonce[d].key
  BY <1>1, <1>2, <1>3, ElementOfSeq DEF made, Nonce
<1>6. call' \in [Calls -> Requests \union Answers]
  <2>1. [kind |-> "OK"] \in Answers
    BY DEF Answers, Tags
  <2> QED BY <2>1 DEF Accept, Return
<1>7. byKey' \in [Keys -> 0..made'] /\ uses' \in [Codes -> Nat]
  BY <1>0, <1>1, <1>4 DEF Accept, Codes
<1>8. \A j \in Keys : byKey'[j] # 0 => nonce'[byKey'[j]].key = j
  <2> SUFFICES ASSUME NEW j \in Keys, byKey'[j] # 0
               PROVE  nonce'[byKey'[j]].key = j
    OBVIOUS
  <2>1. byKey'[j] \in 1..made /\ nonce[byKey'[j]].key = j
    BY <1>0
  <2> QED BY <1>5, <2>1
<1>9. NonceTypeOK'
  BY <1>4, <1>6, <1>7, <1>8 DEF made
<1>10. ClocksPast' /\ CodesShown'
  BY <1>4 DEF ClocksPast, CodesShown, Accept, Return
<1>11. UsesAreTombstones'
  <2>1. uses[c] = 0 /\ c \in Codes
    BY <1>1 DEF UsesAreTombstones, Codes, made
  <2>2. nonce'[c].redeemed /\ \A d \in 1..made : d # c => nonce'[d] = nonce[d]
    BY <1>1, <1>2 DEF made, Nonce
  <2>3. uses' = [uses EXCEPT ![c] = 1]
    BY <2>1 DEF Accept
  <2>4. \A d \in Codes : uses'[d] <= 1 /\ (d > made => uses'[d] = 0)
    BY <1>0, <1>1, <2>1, <2>3 DEF UsesAreTombstones
  <2>5. \A d \in 1..made : uses'[d] = 0 \/ nonce'[d].redeemed
    BY <2>2, <2>3 DEF UsesAreTombstones, Codes
  <2> QED BY <1>4, <2>4, <2>5 DEF UsesAreTombstones
<1> QED BY <1>9, <1>10, <1>11

\* A call that returns and leaves the codes as they are.
LEMMA ReturnInv ==
  ASSUME NonceIInv, NEW t \in Calls, NEW at \in Nat, NEW a \in Answers,
         Return(t, a), byKey' = Kept(at), UNCHANGED <<now, nonce, uses, lost>>
  PROVE  NonceIInv'
<1> USE NonceAssumption DEF NonceIInv, NonceTypeOK
<1>1. made' = made
  BY DEF made
<1>2. NonceTypeOK'
  BY <1>1, KeptType DEF Return, made
<1>3. a.kind \notin {"issue", "redeem"}
  BY DEF Answers, Tags
<1>4. ClocksPast' /\ CodesShown'
  BY <1>1, <1>3 DEF ClocksPast, CodesShown, Return
<1>5. UsesAreTombstones'
  BY <1>1 DEF UsesAreTombstones
<1> QED BY <1>2, <1>4, <1>5

LEMMA RequestType ==
  ASSUME NonceTypeOK, NEW t \in Calls
  PROVE  /\ call[t].kind \in {"issue", "redeem"} =>
              call[t].at \in Nat /\ call[t].key \in Keys
         /\ call[t].kind = "redeem" => call[t].code \in Codes \union {0}
<1>1. call[t] \in Requests \union Answers
  BY DEF NonceTypeOK
<1> QED BY <1>1 DEF Requests, Answers, Tags

LEMMA IssueInv ==
  ASSUME NonceIInv, NEW t \in Calls, Issue(t) PROVE NonceIInv'
<1> DEFINE k == call[t].key
           at == call[t].at
<1>1. k \in Keys /\ at \in Nat /\ at <= now /\ call[t].kind = "issue"
  BY RequestType DEF Issue, NonceIInv, ClocksPast
<1>2. CASE Alive(Kept(at)[k], at) /\ Return(t, [kind |-> "code", code |-> Kept(at)[k]])
           /\ byKey' = Kept(at) /\ UNCHANGED <<now, nonce, uses, lost>>
  <2>1. Kept(at)[k] \in Codes
    <3>1. /\ made \in Nat /\ made <= MaxCodes
          /\ Kept(at)[k] \in 0..made /\ Kept(at)[k] # 0
      BY <1>1, <1>2, KeptType DEF Alive, NonceIInv, NonceTypeOK
    <3> QED BY <3>1, NonceAssumption DEF Codes
  <2>2. [kind |-> "code", code |-> Kept(at)[k]] \in Answers
    BY <2>1 DEF Answers
  <2> QED BY <1>1, <1>2, <2>2, ReturnInv
<1>3. CASE made < MaxCodes /\ Mint(k, at)
           /\ Return(t, [kind |-> "code", code |-> made + 1]) /\ UNCHANGED <<now, uses, lost>>
  BY <1>1, <1>3, MintInv
<1> QED BY <1>2, <1>3 DEF Issue

LEMMA RedeemInv ==
  ASSUME NonceIInv, NEW t \in Calls, Redeem(t) PROVE NonceIInv'
<1> DEFINE k == call[t].key
           at == call[t].at
           c == call[t].code
<1>1. /\ k \in Keys /\ at \in Nat /\ at <= now /\ c \in 0..made
      /\ call[t].kind = "redeem" /\ byKey' = Kept(at) /\ UNCHANGED <<now, lost>>
  BY RequestType DEF Redeem, NonceIInv, ClocksPast, CodesShown
<1>2. CASE Kept(at)[k] = c /\ Alive(c, at) /\ Accept(t, c)
  BY <1>1, <1>2, AcceptInv
<1>3. CASE Return(t, [kind |-> Refusal(Kept(at), k, c, at)])
           /\ UNCHANGED <<nonce, uses>>
  <2>1. [kind |-> Refusal(Kept(at), k, c, at)] \in Answers
    BY DEF Refusal, Answers, Tags
  <2> QED BY <1>1, <1>3, <2>1, ReturnInv
<1> QED BY <1>2, <1>3 DEF Redeem

LEMMA StepInv == NonceIInv /\ [NonceNext]_vars => NonceIInv'
<1> SUFFICES ASSUME NonceIInv, [NonceNext]_vars PROVE NonceIInv'
  OBVIOUS
<1> USE NonceAssumption
<1>1. CASE Tick
  <2>1. NonceTypeOK' /\ CodesShown' /\ UsesAreTombstones'
    BY <1>1 DEF Tick, NonceIInv, NonceTypeOK, CodesShown, UsesAreTombstones, made
  <2>2. \A t \in Calls : call[t].kind \in {"issue", "redeem"} => call[t].at \in Nat
    BY RequestType DEF NonceIInv
  <2>3. ClocksPast'
    BY <1>1, <2>2 DEF Tick, NonceIInv, NonceTypeOK, ClocksPast
  <2> QED BY <2>1, <2>3 DEF NonceIInv
<1>2. CASE Restart
  <2>1. made \in Nat /\ made' = made
    BY <1>2, CodeType DEF Restart, NonceIInv, made
  <2>2. byKey' = [k \in Keys |-> 0] /\ lost' = made
    BY <1>2 DEF Restart
  <2>3. call' \in [Calls -> Requests \union Answers]
    BY <1>2 DEF Restart, Answers
  <2>4. NonceTypeOK'
    BY <1>2, <2>1, <2>2, <2>3 DEF Restart, NonceIInv, NonceTypeOK
  <2> QED BY <1>2, <2>1, <2>4 DEF Restart, NonceIInv, ClocksPast, CodesShown,
                                  UsesAreTombstones
<1>3. ASSUME NEW t \in Calls, NEW k \in Keys, StartIssue(t, k) PROVE NonceIInv'
  BY <1>3 DEF StartIssue, NonceIInv, NonceTypeOK, ClocksPast, CodesShown,
              UsesAreTombstones, made, Requests
<1>4. ASSUME NEW t \in Calls, NEW k \in Keys, NEW c \in Codes \union {0},
             StartRedeem(t, k, c)
      PROVE  NonceIInv'
  BY <1>4 DEF StartRedeem, NonceIInv, NonceTypeOK, ClocksPast, CodesShown,
              UsesAreTombstones, made, Requests, Codes
<1>5. CASE UNCHANGED vars
  BY <1>5 DEF vars, NonceIInv, NonceTypeOK, ClocksPast, CodesShown,
              UsesAreTombstones, made
<1> QED
  BY <1>1, <1>2, <1>3, <1>4, <1>5, IssueInv, RedeemInv DEF NonceNext, CallStep

\* The dictionary holds, for each pair, a code of that pair, and every code a
\* caller can redeem was shown (NonceStore._by_key, issue).
THEOREM NonceTypes == NonceSpec => []NonceTypeOK
<1>1. NonceIInv => NonceTypeOK
  BY DEF NonceIInv
<1> QED BY <1>1, InitInv, StepInv, PTL DEF NonceSpec

\* A code confirms at most one call, however the threads interleave, the
\* dictionary is collected and the server restarts (redeem's tombstone).
THEOREM CodesConfirmOnce == NonceSpec => []SingleUse
<1>1. NonceIInv => SingleUse
  BY DEF NonceIInv, UsesAreTombstones, SingleUse
<1> QED BY <1>1, InitInv, StepInv, PTL DEF NonceSpec

\* A redeem is accepted only with a code that was made for the operation and
\* the card it is given for.
LEMMA StepConfirms ==
  ASSUME NonceIInv, [NonceNext]_vars,
         NEW t \in Calls, call[t].kind = "redeem", call'[t].kind = "OK"
  PROVE  call[t].code \in 1..made /\ nonce[call[t].code].key = call[t].key
<1>0. NonceTypeOK
  BY DEF NonceIInv
<1>1. \A a : a \in Answers => a.kind # "redeem"
  BY DEF Answers, Tags
<1>2. Redeem(t)
  <2>1. CASE Tick \/ UNCHANGED vars
    BY <2>1 DEF Tick, vars
  <2>2. CASE Restart
    BY <2>2 DEF Restart
  <2>3. ASSUME NEW u \in Calls, CallStep(u) PROVE Redeem(t)
    <3>1. CASE \E k \in Keys : StartIssue(u, k)
      BY <1>0, <3>1 DEF StartIssue, NonceTypeOK
    <3>2. CASE \E k \in Keys, c \in Codes \union {0} : StartRedeem(u, k, c)
      BY <1>0, <3>2 DEF StartRedeem, NonceTypeOK
    <3>3. CASE Issue(u)
      BY <1>0, <3>3 DEF Issue, Return, NonceTypeOK
    <3>4. CASE Redeem(u)
      BY <1>0, <3>4 DEF Redeem, Return, Accept, NonceTypeOK
    <3> QED BY <2>3, <3>1, <3>2, <3>3, <3>4 DEF CallStep
  <2> QED BY <2>1, <2>2, <2>3 DEF NonceNext
<1> DEFINE k == call[t].key
           at == call[t].at
           c == call[t].code
<1>3. k \in Keys /\ at \in Nat /\ c \in 0..made
  BY <1>0, RequestType DEF NonceIInv, CodesShown
<1>4. Kept(at)[k] = c /\ c # 0
  <2>1. CASE Kept(at)[k] = c /\ Alive(c, at)
    BY <2>1 DEF Alive
  <2>2. CASE call' = [call EXCEPT ![t] = [kind |-> Refusal(Kept(at), k, c, at)]]
    <3>1. Refusal(Kept(at), k, c, at) # "OK"
      BY DEF Refusal
    <3> QED BY <1>0, <2>2, <3>1 DEF NonceTypeOK
  <2> QED BY <1>2, <2>1, <2>2 DEF Redeem, Return
<1> QED BY <1>0, <1>3, <1>4, KeptType

THEOREM ConfirmsOwnPair == NonceSpec => ConfirmsItsPair
<1>1. NonceIInv /\ [NonceNext]_vars =>
        [\A t \in Calls :
           call[t].kind = "redeem" /\ call'[t].kind = "OK" =>
             call[t].code \in 1..made /\ nonce[call[t].code].key = call[t].key]_vars
  BY StepConfirms
<1> QED BY <1>1, InitInv, StepInv, PTL DEF NonceSpec, ConfirmsItsPair

-----------------------------------------------------------------------------

\* A code within its grace survives the collection of any call: a call's clock
\* is never ahead of the real one.
LEMMA KeptUnlessStale ==
  ASSUME NonceTypeOK, NEW at \in Nat, at <= now, NEW c \in 1..made,
         byKey[nonce[c].key] = c, now < nonce[c].expires + Grace
  PROVE  Kept(at)[nonce[c].key] = c
<1>1. nonce[c].key \in Keys /\ nonce[c].expires \in Nat
  BY CodeType
<1> QED BY <1>1, NonceAssumption DEF Kept, NonceTypeOK

\* A call that makes no code leaves expiry and pair of every code alone and
\* takes from the dictionary only what is past its grace.
LEMMA CollectingInv ==
  ASSUME LifeIInv, NEW at \in Nat, at <= now, byKey' = Kept(at), now' = now,
         made' = made, lost' = lost,
         \A c \in 1..made : /\ nonce'[c].key = nonce[c].key
                            /\ nonce'[c].expires = nonce[c].expires
                            /\ nonce[c].redeemed => nonce'[c].redeemed
  PROVE  LiveCodeHonoured' /\ LastCodeKept'
<1> USE NonceAssumption DEF LifeIInv, NonceIInv
<1>0. /\ made \in Nat /\ now \in Nat
      /\ \A c \in 1..made : nonce[c].expires \in Nat
  BY CodeType
<1>1. LiveCodeHonoured'
  <2> SUFFICES ASSUME NEW c \in 1..made, lost < c, Alive(c, now)'
               PROVE  byKey'[nonce'[c].key] = c
    BY DEF LiveCodeHonoured
  <2>1. Alive(c, now) /\ now < nonce[c].expires + Grace
    BY <1>0 DEF Alive
  <2> QED BY <2>1, KeptUnlessStale DEF LiveCodeHonoured
<1>2. LastCodeKept'
  <2> SUFFICES ASSUME NEW c \in 1..made, lost < c,
                      now < nonce[c].expires + Grace,
                      \A d \in 1..made : nonce[d].key = nonce[c].key => d <= c
               PROVE  byKey'[nonce[c].key] = c
    BY DEF LastCodeKept
  <2> QED BY KeptUnlessStale DEF LastCodeKept
<1> QED BY <1>1, <1>2

\* A new code is made only when no code of its pair is alive.
LEMMA MintingInv ==
  ASSUME LifeIInv, NEW k \in Keys, NEW at \in Nat, at <= now,
         ~Alive(Kept(at)[k], at), Mint(k, at), now' = now, lost' = lost
  PROVE  LiveCodeHonoured' /\ LastCodeKept'
<1> DEFINE n == [key |-> k, expires |-> at + TTL, redeemed |-> FALSE]
<1> USE NonceAssumption DEF LifeIInv, NonceIInv
<1>0. /\ made \in Nat /\ now \in Nat
      /\ \A c \in 1..made : nonce[c].expires \in Nat /\ nonce[c].key \in Keys
      /\ Kept(at) \in [Keys -> 0..made]
  BY CodeType, KeptType
<1>1. n \in Nonce
  BY DEF Nonce
<1>2. /\ made' = made + 1 /\ nonce'[made + 1] = n
      /\ \A c \in 1..made : nonce'[c] = nonce[c]
  BY <1>1, AppendProperties DEF Mint, made, NonceTypeOK
<1>3. byKey' = [Kept(at) EXCEPT ![k] = made + 1]
  BY DEF Mint
<1>4. byKey'[nonce'[made + 1].key] = made + 1
  BY <1>0, <1>2, <1>3
<1> HIDE DEF n
<1>5. \A c \in 1..made' : c # made + 1 => c \in 1..made
  BY <1>0, <1>2
<1>6. LiveCodeHonoured'
  <2> SUFFICES ASSUME NEW c \in 1..made', lost < c, Alive(c, now)', c # made + 1
               PROVE  byKey'[nonce'[c].key] = c
    BY <1>4 DEF LiveCodeHonoured
  <2>1. c \in 1..made /\ nonce'[c] = nonce[c]
    BY <1>2, <1>5
  <2>2. Alive(c, now) /\ now < nonce[c].expires + Grace
    BY <1>0, <2>1 DEF Alive
  <2>3. Kept(at)[nonce[c].key] = c
    BY <2>1, <2>2, KeptUnlessStale DEF LiveCodeHonoured
  <2>4. Alive(c, at)
    BY <1>0, <2>1, <2>2 DEF Alive
  <2>5. nonce[c].key # k
    BY <2>3, <2>4
  <2> QED BY <1>0, <1>3, <2>1, <2>3, <2>5
<1>7. LastCodeKept'
  <2> SUFFICES ASSUME NEW c \in 1..made', c # made + 1, lost < c,
                      now < nonce'[c].expires + Grace,
                      \A d \in 1..made' : nonce'[d].key = nonce'[c].key => d <= c
               PROVE  byKey'[nonce'[c].key] = c
    BY <1>4 DEF LastCodeKept
  <2>1. c \in 1..made /\ nonce'[c] = nonce[c]
    BY <1>2, <1>5
  <2>2. made + 1 \in 1..made' /\ ~(made + 1 <= c)
    BY <1>0, <1>2, <2>1
  <2>3. nonce[c].key # k
    BY <1>2, <2>1, <2>2 DEF n
  <2>4. \A d \in 1..made : nonce[d].key = nonce[c].key => d <= c
    BY <1>0, <1>2, <2>1
  <2>5. byKey[nonce[c].key] = c
    BY <2>1, <2>4 DEF LastCodeKept
  <2>6. Kept(at)[nonce[c].key] = c
    BY <2>1, <2>5, KeptUnlessStale
  <2> QED BY <1>0, <1>3, <2>1, <2>3, <2>6
<1> QED BY <1>6, <1>7

LEMMA LifeStep == LifeIInv /\ [NonceNext]_vars => LifeIInv'
<1> SUFFICES ASSUME LifeIInv, [NonceNext]_vars PROVE LiveCodeHonoured' /\ LastCodeKept'
  BY StepInv DEF LifeIInv
<1> USE NonceAssumption DEF LifeIInv, NonceIInv
<1>0. /\ made \in Nat /\ now \in Nat
      /\ \A c \in 1..made : nonce[c].expires \in Nat /\ nonce[c] \in Nonce
  BY CodeType
<1>1. CASE Tick
  <2>1. /\ now' = now + 1 /\ UNCHANGED <<nonce, byKey, lost>> /\ made' = made
    BY <1>1 DEF Tick, made
  <2>2. LiveCodeHonoured'
    BY <1>0, <2>1 DEF LiveCodeHonoured, Alive
  <2>3. LastCodeKept'
    BY <1>0, <2>1 DEF LastCodeKept
  <2> QED BY <2>2, <2>3
<1>2. CASE UNCHANGED <<now, nonce, byKey, lost>>
  BY <1>2 DEF LiveCodeHonoured, LastCodeKept, Alive, made
<1>3. ASSUME NEW t \in Calls, Issue(t) PROVE LiveCodeHonoured' /\ LastCodeKept'
  <2> DEFINE k == call[t].key
             at == call[t].at
  <2>1. k \in Keys /\ at \in Nat /\ at <= now /\ now' = now /\ lost' = lost
    BY <1>3, RequestType DEF Issue, ClocksPast
  <2>2. CASE byKey' = Kept(at) /\ UNCHANGED nonce
    BY <2>1, <2>2, CollectingInv DEF made
  <2>3. CASE ~Alive(Kept(at)[k], at) /\ Mint(k, at)
    BY <2>1, <2>3, MintingInv
  <2> QED BY <1>3, <2>2, <2>3 DEF Issue
<1>4. ASSUME NEW t \in Calls, Redeem(t) PROVE LiveCodeHonoured' /\ LastCodeKept'
  <2> DEFINE at == call[t].at
             c == call[t].code
  <2>1. /\ at \in Nat /\ at <= now /\ byKey' = Kept(at) /\ c \in 0..made
        /\ UNCHANGED <<now, lost>>
    BY <1>4, RequestType DEF Redeem, ClocksPast, CodesShown
  <2>2. CASE UNCHANGED nonce
    BY <2>1, <2>2, CollectingInv DEF made
  <2>3. CASE c # 0 /\ Accept(t, c)
    <3>1. nonce' = [nonce EXCEPT ![c] = [nonce[c] EXCEPT !.redeemed = TRUE]]
      BY <2>3 DEF Accept
    <3>2. made' = made
      BY <3>1, <2>1 DEF made, NonceTypeOK
    <3>3. \A d \in 1..made :
            /\ nonce'[d].key = nonce[d].key
            /\ nonce'[d].expires = nonce[d].expires
            /\ nonce[d].redeemed => nonce'[d].redeemed
      BY <1>0, <3>1 DEF Nonce, NonceTypeOK, made
    <3> QED BY <2>1, <3>2, <3>3, CollectingInv
  <2> QED BY <1>4, <2>2, <2>3 DEF Redeem, Alive
<1>5. CASE Restart
  <2>1. lost' = made /\ made' = made
    BY <1>5 DEF Restart, made
  <2>2. \A c \in 1..made : ~(made < c)
    BY <1>0
  <2> QED BY <2>1, <2>2 DEF LiveCodeHonoured, LastCodeKept
<1> QED
  BY <1>1, <1>2, <1>3, <1>4, <1>5 DEF NonceNext, CallStep, vars, StartIssue, StartRedeem

LEMMA LifeInv == NonceSpec => []LifeIInv
<1>1. NonceInit => LifeIInv
  <2>1. NonceInit => made = 0
    BY DEF NonceInit, made
  <2>2. NonceInit => LiveCodeHonoured /\ LastCodeKept
    BY <2>1 DEF LiveCodeHonoured, LastCodeKept
  <2> QED BY <2>2, InitInv DEF LifeIInv
<1> QED BY <1>1, LifeStep, PTL DEF NonceSpec

\* Until the server restarts, the code a user was shown is the one redeem
\* compares with until it is used or expires: issue, redeem and the collection
\* of any other call never rotate or drop it.
THEOREM LiveCodesHonoured == NonceSpec => []LiveCodeHonoured
<1>1. LifeIInv => LiveCodeHonoured
  BY DEF LifeIInv
<1> QED BY <1>1, LifeInv, PTL

\* Until the server restarts, the last code of a pair is remembered until its
\* grace is over, so a late or second redeem is told what is wrong (_gc_locked).
THEOREM LastCodesKept == NonceSpec => []LastCodeKept
<1>1. LifeIInv => LastCodeKept
  BY DEF LifeIInv
<1> QED BY <1>1, LifeInv, PTL

=============================================================================
