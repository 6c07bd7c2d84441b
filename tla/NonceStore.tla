------------------------------ MODULE NonceStore ------------------------------
(***************************************************************************)
(* The confirmation codes of delete_bookmark and restore_bookmark          *)
(* (mcp_server/nonce_store.py): a dictionary from (operation, target) to   *)
(* the IssuedNonce last made for it, under a threading.Lock.  A call reads *)
(* the monotonic clock before it waits for the lock, so it may act on a    *)
(* time that is past.                                                      *)
(***************************************************************************)
EXTENDS Naturals, Sequences

CONSTANTS
  Calls,     \* the threads that can be inside issue or redeem
  Keys,      \* the pairs of an operation and a card
  TTL,       \* NONCE_TTL_SECONDS
  Grace,     \* NONCE_GC_GRACE_SECONDS
  MaxClock,  \* bound on the clock
  MaxCodes   \* bound on the codes made

ASSUME NonceAssumption ==
  /\ TTL \in Nat \ {0}
  /\ Grace \in Nat
  /\ MaxClock \in Nat
  /\ MaxCodes \in Nat

VARIABLES
  now,     \* time.monotonic()
  nonce,   \* nonce[c]: the IssuedNonce with code c, the c-th that was made; no
           \* two codes are alike
  byKey,   \* _by_key, 0 where there is no record
  call,    \* call[t]: what t asked for and the clock it read; once the call
           \* has returned, what it answered
  uses,    \* uses[c]: how many redeems of code c succeeded
  lost     \* how many codes were made before the last restart

vars == <<now, nonce, byKey, call, uses, lost>>

Codes == 1..MaxCodes

Nonce == [key: Keys, expires: Nat, redeemed: BOOLEAN]
made == Len(nonce)

Requests ==
  [kind: {"issue"}, key: Keys, at: Nat] \union
  [kind: {"redeem"}, key: Keys, at: Nat, code: Codes \union {0}]

\* Code 0 is junk that nobody issued.
Tags == {"OK", "ALREADY_REDEEMED", "EXPIRED", "INVALID", "OPERATION_MISMATCH"}

\* A thread outside of issue and redeem, and what its last call returned.
Answers == [kind: {"none"} \union Tags] \union [kind: {"code"}, code: Codes]

\* Types, and that the dictionary files a code under the pair it is bound to.
NonceTypeOK ==
  /\ now \in Nat
  /\ nonce \in Seq(Nonce) /\ made <= MaxCodes
  /\ byKey \in [Keys -> 0..made]
  /\ \A k \in Keys : byKey[k] # 0 => nonce[byKey[k]].key = k
  /\ call \in [Calls -> Requests \union Answers]
  /\ uses \in [Codes -> Nat]
  /\ lost \in 0..made

NonceInit ==
  /\ now = 0
  /\ nonce = <<>>
  /\ byKey = [k \in Keys |-> 0]
  /\ call = [t \in Calls |-> [kind |-> "none"]]
  /\ uses = [c \in Codes |-> 0]
  /\ lost = 0

-----------------------------------------------------------------------------

Tick ==
  /\ now < MaxClock
  /\ now' = now + 1
  /\ UNCHANGED <<nonce, byKey, call, uses, lost>>

\* issue() reads the clock, then waits for the lock.
StartIssue(t, k) ==
  /\ call[t] \in Answers
  /\ call' = [call EXCEPT ![t] = [kind |-> "issue", key |-> k, at |-> now]]
  /\ UNCHANGED <<now, nonce, byKey, uses, lost>>

\* redeem() of whatever the user typed: any code that was ever shown, or junk.
StartRedeem(t, k, c) ==
  /\ call[t] \in Answers
  /\ c <= made
  /\ call' = [call EXCEPT ![t] =
                [kind |-> "redeem", key |-> k, at |-> now, code |-> c]]
  /\ UNCHANGED <<now, nonce, byKey, uses, lost>>

\* Seeded fault: a record goes as soon as it is expired.
KeptNoGrace(at) ==
  [k \in Keys |->
     IF byKey[k] # 0 /\ nonce[byKey[k]].expires <= at THEN 0 ELSE byKey[k]]

\* The dictionary after _gc_locked with clock at: a record is dropped when the
\* grace after its expiry is over.
Kept(at) ==
  [k \in Keys |->
     IF byKey[k] # 0 /\ nonce[byKey[k]].expires + Grace <= at THEN 0 ELSE byKey[k]]

\* Neither redeemed nor expired at that time.
Alive(c, at) == c # 0 /\ ~nonce[c].redeemed /\ at < nonce[c].expires

Return(t, answer) == call' = [call EXCEPT ![t] = answer]

\* Seeded fault: the records are filed by card, whatever the operation.
MintAnywhere(k, at) ==
  /\ nonce' = Append(nonce, [key |-> k, expires |-> at + TTL, redeemed |-> FALSE])
  /\ byKey' = [j \in Keys |-> made + 1]

\* A new code replaces whatever the dictionary has for k.
Mint(k, at) ==
  /\ nonce' = Append(nonce, [key |-> k, expires |-> at + TTL, redeemed |-> FALSE])
  /\ byKey' = [Kept(at) EXCEPT ![k] = made + 1]

\* Seeded fault: every call makes a new code.
IssueOverwrites(t) ==
  LET k == call[t].key  at == call[t].at IN
  /\ call[t].kind = "issue"
  /\ made < MaxCodes /\ Mint(k, at) /\ Return(t, [kind |-> "code", code |-> made + 1])
  /\ UNCHANGED <<now, uses, lost>>

\* issue() under the lock: the live code of the key, or a new one.
Issue(t) ==
  LET k == call[t].key  at == call[t].at IN
  /\ call[t].kind = "issue"
  /\ \/ /\ Alive(Kept(at)[k], at)
        /\ byKey' = Kept(at)
        /\ Return(t, [kind |-> "code", code |-> Kept(at)[k]])
        /\ UNCHANGED nonce
     \/ /\ ~Alive(Kept(at)[k], at)
        /\ made < MaxCodes
        /\ Mint(k, at)
        /\ Return(t, [kind |-> "code", code |-> made + 1])
  /\ UNCHANGED <<now, uses, lost>>

\* Seeded fault: the record is left as it was.
AcceptUntouched(t, c) ==
  /\ uses' = [uses EXCEPT ![c] = @ + 1]
  /\ Return(t, [kind |-> "OK"])
  /\ UNCHANGED nonce

\* The record stays as a tombstone.
Accept(t, c) ==
  /\ nonce' = [nonce EXCEPT ![c].redeemed = TRUE]
  /\ uses' = [uses EXCEPT ![c] = @ + 1]
  /\ Return(t, [kind |-> "OK"])

\* What redeem() raises when it does not accept, in the order it looks.
Refusal(dict, k, c, at) ==
  LET r == dict[k] IN
  IF r # 0
  THEN IF nonce[r].redeemed THEN "ALREADY_REDEEMED"
       ELSE IF nonce[r].expires <= at THEN "EXPIRED" ELSE "INVALID"
  ELSE IF \E j \in Keys : dict[j] = c /\ c # 0 /\ ~nonce[c].redeemed
       THEN "OPERATION_MISMATCH" ELSE "INVALID"

\* redeem() under the lock.
Redeem(t) ==
  LET k == call[t].key  at == call[t].at  c == call[t].code IN
  /\ call[t].kind = "redeem"
  /\ byKey' = Kept(at)
  /\ \/ /\ Kept(at)[k] = c
        /\ Alive(c, at)
        /\ Accept(t, c)
     \/ /\ ~(Kept(at)[k] = c /\ Alive(c, at))
        /\ Return(t, [kind |-> Refusal(Kept(at), k, c, at)])
        /\ UNCHANGED <<nonce, uses>>
  /\ UNCHANGED <<now, lost>>

\* The server is restarted: the store is in memory only.
Restart ==
  /\ byKey' = [k \in Keys |-> 0]
  /\ call' = [t \in Calls |-> [kind |-> "none"]]
  /\ lost' = made
  /\ UNCHANGED <<now, nonce, uses>>

CallStep(t) ==
  \/ \E k \in Keys : StartIssue(t, k)
  \/ \E k \in Keys, c \in Codes \union {0} : StartRedeem(t, k, c)
  \/ Issue(t) \/ Redeem(t)

NonceNext == Tick \/ Restart \/ \E t \in Calls : CallStep(t)

NonceSpec == NonceInit /\ [][NonceNext]_vars

-----------------------------------------------------------------------------

\* One code confirms one call, however the threads meet and whatever the
\* dictionary forgets.
SingleUse == \A c \in Codes : uses[c] <= 1

\* A code confirms the operation on the card it was shown for and no other
\* (redeem looks in the dictionary before it looks at the code).
ConfirmsItsPair ==
  [][\A t \in Calls :
       call[t].kind = "redeem" /\ call'[t].kind = "OK" =>
         call[t].code \in 1..made /\ nonce[call[t].code].key = call[t].key]_vars

\* A code the user has seen is not rotated underneath them: until it expires,
\* is used or the server restarts, it is the one that redeem compares with
\* ("so the user doesn't see a code rotate underneath them mid-flow", issue, and
\* test_reissue_is_idempotent_for_live_record).  Two heads have it the other way
\* round, and the code does not do what they say: "reissuance overwrites
\* (invalidates the prior nonce for that key)" (nonce_store.py:24-25) and
\* "concurrent issue same (op,target) -> second wins" (tests/test_nonce_store.py:4).
LiveCodeHonoured ==
  \A c \in 1..made : lost < c /\ Alive(c, now) => byKey[nonce[c].key] = c

\* Until its grace is over, the last code of a pair is remembered, so that a
\* second redeem is told ALREADY_REDEEMED and a late one EXPIRED, not INVALID.
LastCodeKept ==
  \A c \in 1..made :
    /\ lost < c
    /\ now < nonce[c].expires + Grace
    /\ \A d \in 1..made : nonce[d].key = nonce[c].key => d <= c
    => byKey[nonce[c].key] = c

=============================================================================
