------------------------- MODULE TokenSessionProofs -------------------------
(***************************************************************************)
(* The session's token, for any number of concurrent calls, tokens and     *)
(* losses.                                                                 *)
(***************************************************************************)
EXTENDS TokenSession, FiniteSetTheorems, TLAPS

\* The one token request on the way is the shared one, and whoever awaits a
\* token awaits that one.
SharedInv ==
    /\ \A s \in Calls : tokenReq[s] # "none" <=> inFlight = s
    /\ \A c \in Calls : pc[c] = "token" => inFlight # NoCall /\ awaits[c] = inFlight

\* The calls that carry a token.
Bearing == {"sent", "accepted", "rejected"}

\* The token request on the way was answered with a token that is void by now.
StaleAnswer == \E s \in Calls : tokenReq[s] = "issued" /\ issued[s] \notin good

\* Before the first loss every token is good, so no call is rejected or on its
\* second try, and a token is requested only while nobody has had one.
UnharmedInv ==
    losses = 0 =>
        /\ ~StaleAnswer
        /\ cachedToken # NoToken => cachedToken \in good
        /\ \A c \in Calls :
              /\ pc[c] # "rejected"
              /\ pc[c] = "sent" => bearer[c] \in good
              /\ pc[c] \in Ended \cup {"accepted"} \/ c \in retry
        /\ inFlight # NoCall => cachedToken = NoToken
        /\ cachedToken = NoToken => \A c \in Calls : pc[c] \notin {"sent", "accepted"}

\* After one loss an answer from before it finds nobody with a token, and so
\* nobody on a second try; the second try is made with a token that is good.
OneLossInv ==
    losses = 1 =>
        /\ StaleAnswer => cachedToken = NoToken /\ \A c \in Calls : pc[c] \notin Bearing
        /\ \A c \in Calls \ retry :
              /\ pc[c] # "rejected"
              /\ pc[c] = "sent" => bearer[c] \in good
              /\ pc[c] = "token" => ~StaleAnswer

Inv == TypeOK /\ SharedInv /\ UnharmedInv /\ OneLossInv /\ OneLossIsHidden

-----------------------------------------------------------------------------

\* The session begins in the invariant.
LEMMA InitInv == Init => Inv
  BY SessionAssumption
  DEF Init, Inv, TypeOK, SharedInv, UnharmedInv, OneLossInv, OneLossIsHidden, Ended,
      StaleAnswer, NoToken, Tokens, Bearing

\* Looking for a token keeps the types, and the request shared.
LEMMA GetTokenShares ==
    ASSUME TypeOK, SharedInv, NEW c \in Calls, NEW cached \in Tokens \cup {NoToken},
           GetToken(c, cached), pc[c] # "token"
    PROVE  /\ pc' \in [Calls -> Ended \cup {"token", "sent", "accepted", "rejected"}]
           /\ bearer' \in [Calls -> Tokens \cup {NoToken}]
           /\ inFlight' \in Calls \cup {NoCall}
           /\ awaits' \in [Calls -> Calls \cup {NoCall}]
           /\ tokenReq' \in [Calls -> {"none", "sent", "issued"}]
           /\ SharedInv'
  <1> USE SessionAssumption DEF TypeOK, SharedInv, GetToken
  <1>1. CASE cached # NoToken
    BY <1>1
  <1>2. CASE cached = NoToken /\ inFlight # NoCall
    BY <1>2
  <1>3. CASE cached = NoToken /\ inFlight = NoCall
    BY <1>3
  <1> QED
    BY <1>1, <1>2, <1>3

\* When a token request ends nobody awaits one any more.
LEMMA SettleShares ==
    ASSUME TypeOK, SharedInv, NEW s \in Calls, tokenReq[s] # "none", Settle(s),
           NEW next \in {"sent", "error"},
           pc' = [c \in Calls |-> IF c \in Waiting(s) THEN next ELSE pc[c]]
    PROVE  /\ pc' \in [Calls -> Ended \cup {"token", "sent", "accepted", "rejected"}]
           /\ inFlight' \in Calls \cup {NoCall}
           /\ awaits' \in [Calls -> Calls \cup {NoCall}]
           /\ tokenReq' \in [Calls -> {"none", "sent", "issued"}]
           /\ issued' \in [Calls -> Tokens \cup {NoToken}]
           /\ SharedInv'
           /\ \A c \in Calls : pc[c] = "token" => c \in Waiting(s)
  <1> USE SessionAssumption DEF TypeOK, SharedInv, Settle
  <1>1. inFlight = s /\ \A c \in Calls : pc[c] = "token" => c \in Waiting(s)
    BY DEF Waiting
  <1>2. \A c \in Calls : pc'[c] # "token"
    BY <1>1
  <1> QED
    BY <1>1, <1>2 DEF Ended, NoToken

\* Types and sharing are kept by every step.
LEMMA StepShared == TypeOK /\ SharedInv /\ [Next]_vars => TypeOK' /\ SharedInv'
  <1> SUFFICES ASSUME TypeOK, SharedInv, [Next]_vars
               PROVE  TypeOK' /\ SharedInv'
    OBVIOUS
  <1> USE SessionAssumption
  <1>1. ASSUME NEW c \in Calls, Start(c)
        PROVE  TypeOK' /\ SharedInv'
    <2>1. pc[c] # "token" /\ cachedToken \in Tokens \cup {NoToken} /\ GetToken(c, cachedToken)
      BY <1>1 DEF Start, Ended, TypeOK
    <2> QED
      BY <1>1, <2>1, GetTokenShares DEF Start, TypeOK, serverVars
  <1>2. ASSUME NEW c \in Calls, Rejected(c)
        PROVE  TypeOK' /\ SharedInv'
    <2>1. CASE c \in retry
      <3>1. pc[c] # "token" /\ NoToken \in Tokens \cup {NoToken} /\ GetToken(c, NoToken)
        BY <1>2, <2>1 DEF Rejected
      <3> QED
        BY <1>2, <2>1, <3>1, GetTokenShares DEF Rejected, TypeOK, serverVars
    <2>2. CASE c \notin retry
      BY <1>2, <2>2 DEF Rejected, TypeOK, SharedInv, serverVars, Ended
    <2> QED
      BY <2>1, <2>2
  <1>3. ASSUME NEW s \in Calls, TokenArrives(s)
        PROVE  TypeOK' /\ SharedInv'
    <2>1. tokenReq[s] # "none" /\ Settle(s)
      BY <1>3 DEF TokenArrives
    <2>2. issued[s] \in Tokens \cup {NoToken}
      BY DEF TypeOK
    <2> QED
      BY <1>3, <2>1, <2>2, SettleShares DEF TokenArrives, TypeOK, serverVars
  <1>4. ASSUME NEW s \in Calls, TokenFails(s)
        PROVE  TypeOK' /\ SharedInv'
    BY <1>4, SettleShares DEF TokenFails, TypeOK, serverVars
  <1>5. ASSUME NEW c \in Calls, Answered(c) \/ CallFails(c) \/ RequireAuth(c)
        PROVE  TypeOK' /\ SharedInv'
    BY <1>5
    DEF Answered, CallFails, RequireAuth, TypeOK, SharedInv, serverVars, Ended
  <1>6. ASSUME NEW s \in Calls, IssueToken(s)
        PROVE  TypeOK' /\ SharedInv'
    BY <1>6 DEF IssueToken, Mint, TypeOK, SharedInv, pageVars, Tokens
  <1>7. ASSUME Restart \/ \E t \in Tokens : Expire(t)
        PROVE  TypeOK' /\ SharedInv'
    BY <1>7 DEF Restart, Expire, TypeOK, SharedInv, pageVars
  <1>8. CASE UNCHANGED vars
    BY <1>8 DEF vars, pageVars, serverVars, TypeOK, SharedInv
  <1> QED
    BY <1>1, <1>2, <1>3, <1>4, <1>5, <1>6, <1>7, <1>8 DEF Next

-----------------------------------------------------------------------------
(* Losses *)

\* A token that is given to a call was held by the page, or arrives.
LEMMA StepUnharmed ==
    ASSUME Inv, Next
    PROVE  UnharmedInv'
  <1> USE SessionAssumption DEF Inv
  <1> SUFFICES ASSUME losses' = 0 PROVE UnharmedInv'
    BY DEF UnharmedInv
  <1>1. losses = 0 /\ ~Restart /\ ~ \E t \in Tokens : Expire(t)
    BY DEF Next, Start, Answered, Rejected, CallFails, TokenArrives, TokenFails, IssueToken,
           RequireAuth, Restart, Expire, serverVars, TypeOK
  <1> USE <1>1 DEF UnharmedInv
  <1>2. ASSUME NEW c \in Calls, Start(c)
        PROVE  UnharmedInv'
    <2>1. CASE cachedToken # NoToken
      BY <1>2, <2>1 DEF Start, GetToken, TypeOK, SharedInv, serverVars, StaleAnswer, Ended
    <2>2. CASE cachedToken = NoToken /\ inFlight # NoCall
      BY <1>2, <2>2 DEF Start, GetToken, TypeOK, SharedInv, serverVars, StaleAnswer, Ended
    <2>3. CASE cachedToken = NoToken /\ inFlight = NoCall
      BY <1>2, <2>3 DEF Start, GetToken, TypeOK, SharedInv, serverVars, StaleAnswer, Ended
    <2> QED
      BY <2>1, <2>2, <2>3
  <1>3. ASSUME NEW c \in Calls, Rejected(c)
        PROVE  UnharmedInv'
    BY <1>3 DEF Rejected
  <1>4. ASSUME NEW s \in Calls, TokenArrives(s)
        PROVE  UnharmedInv'
    <2>1. issued[s] \in good /\ issued[s] # NoToken
      BY <1>4 DEF TokenArrives, StaleAnswer, TypeOK, Tokens, NoToken
    <2> QED
      BY <1>4, <2>1
      DEF TokenArrives, Settle, Waiting, TypeOK, serverVars, StaleAnswer, Ended
  <1>5. ASSUME NEW s \in Calls, TokenFails(s)
        PROVE  UnharmedInv'
    BY <1>5 DEF TokenFails, Settle, Waiting, TypeOK, serverVars, StaleAnswer, Ended
  <1>6. ASSUME NEW c \in Calls, Answered(c) \/ CallFails(c) \/ RequireAuth(c)
        PROVE  UnharmedInv'
    BY <1>6
    DEF Answered, CallFails, RequireAuth, Verified, TypeOK, serverVars, StaleAnswer, Ended
  <1>7. ASSUME NEW s \in Calls, IssueToken(s)
        PROVE  UnharmedInv'
    BY <1>7 DEF IssueToken, Mint, TypeOK, pageVars, StaleAnswer, Ended
  <1> QED
    BY <1>1, <1>2, <1>3, <1>4, <1>5, <1>6, <1>7 DEF Next

\* The first loss: nobody is on a second try, and a token that is still on its
\* way is the first of all.
LEMMA FirstLoss ==
    ASSUME Inv, losses' = 1, Restart \/ \E t \in Tokens : Expire(t)
    PROVE  OneLossInv'
  <1>1. losses = 0
    BY DEF Restart, Expire, Inv, TypeOK
  <1>2. UNCHANGED <<cachedToken, inFlight, pc, bearer, retry, tokenReq>>
    BY DEF Restart, Expire, pageVars
  <1>3. StaleAnswer' => inFlight # NoCall
    BY <1>2, SessionAssumption DEF StaleAnswer, Inv, SharedInv
  <1> QED
    BY <1>1, <1>2, <1>3 DEF Inv, UnharmedInv, OneLossInv, Ended, Bearing

\* After one loss a second try gets a token that was requested after it.
LEMMA StepOneLoss ==
    ASSUME Inv, Next
    PROVE  OneLossInv'
  <1> USE SessionAssumption DEF Inv
  <1> SUFFICES ASSUME losses' = 1 PROVE OneLossInv'
    BY DEF OneLossInv
  <1>1. CASE Restart \/ \E t \in Tokens : Expire(t)
    BY <1>1, FirstLoss
  <1>2. CASE ~(Restart \/ \E t \in Tokens : Expire(t))
    <2>1. losses = 1
      BY <1>2
      DEF Next, Start, Answered, Rejected, CallFails, TokenArrives, TokenFails, IssueToken,
          RequireAuth, serverVars
    <2> USE <2>1 DEF OneLossInv, Bearing
    <2>2. ASSUME NEW c \in Calls, Start(c)
          PROVE  OneLossInv'
      <3>1. StaleAnswer' => StaleAnswer
        BY <2>2 DEF Start, GetToken, StaleAnswer, serverVars, TypeOK
      <3>2. retry' = retry \cup {c} /\ UNCHANGED <<good, cachedToken>>
        BY <2>2 DEF Start, serverVars
      <3>3. \A d \in Calls \ {c} : pc'[d] = pc[d] /\ bearer'[d] = bearer[d]
        BY <2>2 DEF Start, GetToken, TypeOK
      <3>4. cachedToken = NoToken => pc'[c] = "token"
        BY <2>2 DEF Start, GetToken, TypeOK
      <3> QED
        BY <3>1, <3>2, <3>3, <3>4
    <2>3. ASSUME NEW c \in Calls, Rejected(c)
          PROVE  OneLossInv'
      <3>1. c \in retry /\ ~StaleAnswer
        BY <2>3 DEF Rejected
      <3>2. ~StaleAnswer' /\ UNCHANGED good
        BY <2>3, <3>1 DEF Rejected, GetToken, StaleAnswer, serverVars, TypeOK
      <3>3. pc'[c] = "token" /\ retry' = retry \ {c}
        BY <2>3, <3>1 DEF Rejected, GetToken, TypeOK
      <3>4. \A d \in Calls \ {c} : pc'[d] = pc[d] /\ bearer'[d] = bearer[d]
        BY <2>3 DEF Rejected, GetToken, TypeOK
      <3> QED
        BY <3>1, <3>2, <3>3, <3>4
    <2>4. ASSUME NEW s \in Calls, TokenArrives(s)
          PROVE  OneLossInv'
      <3>1. ~StaleAnswer' /\ UNCHANGED <<good, retry>>
        BY <2>4 DEF TokenArrives, Settle, StaleAnswer, SharedInv, TypeOK, serverVars
      <3>2. \A c \in Calls \ retry : c \in Waiting(s) => issued[s] \in good
        BY <2>4 DEF TokenArrives, Waiting, StaleAnswer
      <3> QED
        BY <2>4, <3>1, <3>2 DEF TokenArrives, TypeOK
    <2>5. ASSUME NEW s \in Calls, TokenFails(s)
          PROVE  OneLossInv'
      <3>1. ~StaleAnswer' /\ UNCHANGED <<good, retry, bearer>>
        BY <2>5 DEF TokenFails, Settle, StaleAnswer, SharedInv, TypeOK, serverVars
      <3> QED
        BY <2>5, <3>1 DEF TokenFails, TypeOK
    <2>6. ASSUME NEW c \in Calls, Answered(c) \/ CallFails(c) \/ RequireAuth(c)
          PROVE  OneLossInv'
      <3>1. /\ StaleAnswer' <=> StaleAnswer
            /\ UNCHANGED <<good, cachedToken, retry, bearer>>
        BY <2>6 DEF Answered, CallFails, RequireAuth, StaleAnswer, serverVars
      <3>2. \A d \in Calls \ {c} : pc'[d] = pc[d]
        BY <2>6 DEF Answered, CallFails, RequireAuth, TypeOK
      <3>3. /\ pc[c] \in Bearing /\ pc'[c] \notin {"sent", "token"}
            /\ pc'[c] = "rejected" => pc[c] = "sent" /\ bearer[c] \notin good
        BY <2>6 DEF Answered, CallFails, RequireAuth, Verified, TypeOK
      <3> QED
        BY <3>1, <3>2, <3>3
    <2>7. ASSUME NEW s \in Calls, IssueToken(s)
          PROVE  OneLossInv'
      <3>1. StaleAnswer' => StaleAnswer
        BY <2>7 DEF IssueToken, Mint, StaleAnswer, TypeOK
      <3> QED
        BY <2>7, <3>1 DEF IssueToken, Mint, pageVars
    <2> QED
      BY <1>2, <2>2, <2>3, <2>4, <2>5, <2>6, <2>7 DEF Next
  <1> QED
    BY <1>1, <1>2

\* A call ends in a 401 only on its second try.
LEMMA StepHidden ==
    ASSUME Inv, Next
    PROVE  OneLossIsHidden'
  <1> USE DEF Inv
  <1> SUFFICES ASSUME NEW c \in Calls, pc'[c] = "unauthorized"
               PROVE  losses' > 1
    BY DEF OneLossIsHidden
  <1>1. losses' >= losses /\ losses \in Nat /\ losses' \in Nat
    BY DEF Next, Start, Answered, Rejected, CallFails, TokenArrives, TokenFails, IssueToken,
           RequireAuth, Restart, Expire, serverVars, TypeOK
  <1>2. CASE pc[c] = "unauthorized"
    BY <1>1, <1>2 DEF OneLossIsHidden
  <1>3. CASE pc[c] # "unauthorized"
    <2>1. Rejected(c) /\ c \notin retry
      BY <1>3
      DEF Next, Start, GetToken, Answered, Rejected, CallFails, TokenArrives, TokenFails,
          IssueToken, RequireAuth, Restart, Expire, pageVars, TypeOK
    <2>2. losses # 0 /\ losses # 1
      BY <2>1 DEF Rejected, UnharmedInv, OneLossInv
    <2> QED
      BY <1>1, <2>2
  <1> QED
    BY <1>2, <1>3

\* Every step keeps the invariant.
LEMMA StepInv == Inv /\ [Next]_vars => Inv'
  <1> SUFFICES ASSUME Inv, [Next]_vars PROVE Inv'
    OBVIOUS
  <1>1. TypeOK' /\ SharedInv'
    BY StepShared DEF Inv
  <1>2. CASE UNCHANGED vars
    BY <1>1, <1>2
    DEF Inv, vars, pageVars, serverVars, UnharmedInv, OneLossInv, OneLossIsHidden, StaleAnswer
  <1>3. CASE Next
    BY <1>1, <1>3, StepUnharmed, StepOneLoss, StepHidden DEF Inv
  <1> QED
    BY <1>2, <1>3

\* The inductive invariant holds in every state of the session.
THEOREM Invariance == Spec => []Inv
  BY InitInv, StepInv, PTL DEF Spec

\* Every variable of the session keeps its type.
THEOREM TypeCorrectness == Spec => []TypeOK
  BY Invariance, PTL DEF Inv

\* However many calls are rejected at once, one token request is on the way at
\* most (client.ts, getToken).
THEOREM TokenRequestsAreShared == Spec => []OneTokenRequest
  <1>1. Inv => OneTokenRequest
    <2> SUFFICES ASSUME Inv PROVE OneTokenRequest
      OBVIOUS
    <2>1. {s \in Calls : tokenReq[s] # "none"} \subseteq {inFlight}
      BY DEF Inv, SharedInv
    <2>2. IsFiniteSet({inFlight}) /\ Cardinality({inFlight}) = 1
      BY FS_Singleton
    <2> QED
      BY <2>1, <2>2, FS_Subset DEF OneTokenRequest
  <1> QED
    BY <1>1, Invariance, PTL

\* No call is left awaiting a promise that was settled or forgotten (client.ts).
THEOREM NobodyIsLeftWaiting == Spec => []AwaitsLiveRequest
  <1>1. Inv => AwaitsLiveRequest
    BY DEF Inv, TypeOK, SharedInv, AwaitsLiveRequest
  <1> QED
    BY <1>1, Invariance, PTL

\* For any number of calls, one restart or expiry reaches no caller as a 401
\* (client.ts clears the token and tries once more).
THEOREM LossIsHidden == Spec => []OneLossIsHidden
  BY Invariance, PTL DEF Inv
=============================================================================
