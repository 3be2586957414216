---------------------------- MODULE TokenSession ----------------------------
(***************************************************************************)
(* The bearer token of a browser session: the calls the page makes to the  *)
(* API at the same time, the token they share, and the issuer that mints   *)
(* and verifies tokens.                                                    *)
(*                                                                         *)
(* The page runs one continuation at a time, so a step of a call goes from *)
(* one await to the next.  A promise for a token is named after the call   *)
(* that made it: several calls may await it.  The server handles a request *)
(* at some time after it was sent, and its answer arrives at some time     *)
(* after that.  A token is a number; it is good from its issue until it    *)
(* expires or the server restarts with a key of its own.                   *)
(***************************************************************************)
EXTENDS Naturals, FiniteSets

CONSTANTS
    Calls,          \* the authorized calls that run at one time
    NoCall,         \* no token request is shared
    MaxTokens,      \* bound on the tokens issued
    MaxLosses       \* bound on the restarts and expiries

ASSUME SessionAssumption ==
    NoCall \notin Calls /\ MaxTokens \in Nat /\ MaxLosses \in Nat

NoToken == 0

Tokens == 1..MaxTokens

VARIABLES
    cachedToken,    \* the page: the token it holds, or NoToken
    inFlight,       \* the page: the call whose token request is shared
    pc,             \* per call: what it awaits, or how it ended
    awaits,         \* per call: the call whose token request it awaits
    bearer,         \* per call: the token its request carries
    retry,          \* the calls that may still try a second token
    tokenReq,       \* per call: its token request
    issued,         \* per call: the token its token request was answered with
    good,           \* the server: the tokens that pass Verified
    minted,         \* the server: how many tokens it issued
    losses          \* how often good tokens were lost

pageVars == <<cachedToken, inFlight, pc, awaits, bearer, retry>>

serverVars == <<good, minted, losses>>

vars == <<pageVars, tokenReq, issued, serverVars>>

Ended == {"idle", "answered", "unauthorized", "error"}

TypeOK ==
    /\ cachedToken \in Tokens \cup {NoToken}
    /\ inFlight \in Calls \cup {NoCall}
    /\ pc \in [Calls -> Ended \cup {"token", "sent", "accepted", "rejected"}]
    /\ awaits \in [Calls -> Calls \cup {NoCall}]
    /\ bearer \in [Calls -> Tokens \cup {NoToken}]
    /\ retry \subseteq Calls
    /\ tokenReq \in [Calls -> {"none", "sent", "issued"}]
    /\ issued \in [Calls -> Tokens \cup {NoToken}]
    /\ good \subseteq Tokens
    /\ minted \in 0..MaxTokens /\ losses \in 0..MaxLosses

Init ==
    /\ cachedToken = NoToken /\ inFlight = NoCall
    /\ pc = [c \in Calls |-> "idle"]
    /\ awaits = [c \in Calls |-> NoCall]
    /\ bearer = [c \in Calls |-> NoToken]
    /\ retry = {}
    /\ tokenReq = [c \in Calls |-> "none"]
    /\ issued = [c \in Calls |-> NoToken]
    /\ good = {} /\ minted = 0 /\ losses = 0

-----------------------------------------------------------------------------
(* getToken and authorized, in the page *)

\* Mutant: each call that finds no token requests one of its own.
GetTokenUnshared(c, cached) ==
    \/ /\ cached # NoToken
       /\ pc' = [pc EXCEPT ![c] = "sent"]
       /\ bearer' = [bearer EXCEPT ![c] = cached]
       /\ UNCHANGED <<awaits, inFlight, tokenReq>>
    \/ /\ cached = NoToken
       /\ pc' = [pc EXCEPT ![c] = "token"]
       /\ awaits' = [awaits EXCEPT ![c] = c]
       /\ inFlight' = c
       /\ tokenReq' = [tokenReq EXCEPT ![c] = "sent"]
       /\ UNCHANGED bearer

\* A cached token is sent at once; otherwise the call awaits the shared token
\* request, and makes it when there is none.
GetToken(c, cached) ==
    \/ /\ cached # NoToken
       /\ pc' = [pc EXCEPT ![c] = "sent"]
       /\ bearer' = [bearer EXCEPT ![c] = cached]
       /\ UNCHANGED <<awaits, inFlight, tokenReq>>
    \/ /\ cached = NoToken /\ inFlight # NoCall
       /\ pc' = [pc EXCEPT ![c] = "token"]
       /\ awaits' = [awaits EXCEPT ![c] = inFlight]
       /\ UNCHANGED <<bearer, inFlight, tokenReq>>
    \/ /\ cached = NoToken /\ inFlight = NoCall
       /\ pc' = [pc EXCEPT ![c] = "token"]
       /\ awaits' = [awaits EXCEPT ![c] = c]
       /\ inFlight' = c
       /\ tokenReq' = [tokenReq EXCEPT ![c] = "sent"]
       /\ UNCHANGED bearer

\* createJob or getJob makes an authorized call.
Start(c) ==
    /\ pc[c] \in Ended
    /\ GetToken(c, cachedToken)
    /\ retry' = retry \cup {c}
    /\ UNCHANGED <<cachedToken, issued, serverVars>>

Waiting(s) == {c \in Calls : pc[c] = "token" /\ awaits[c] = s}

\* The token request of call s ends: the promise is forgotten, whichever way.
Settle(s) ==
    /\ inFlight' = NoCall
    /\ tokenReq' = [tokenReq EXCEPT ![s] = "none"]
    /\ issued' = [issued EXCEPT ![s] = NoToken]
    /\ awaits' = [c \in Calls |-> IF c \in Waiting(s) THEN NoCall ELSE awaits[c]]

\* The token arrives: it is cached, and every call that awaits it goes on.
TokenArrives(s) ==
    /\ tokenReq[s] = "issued"
    /\ Settle(s)
    /\ cachedToken' = issued[s]
    /\ pc' = [c \in Calls |-> IF c \in Waiting(s) THEN "sent" ELSE pc[c]]
    /\ bearer' = [c \in Calls |-> IF c \in Waiting(s) THEN issued[s] ELSE bearer[c]]
    /\ UNCHANGED <<retry, serverVars>>

\* Mutant: only a token that arrives ends the sharing of its request.
TokenFailsSticky(s) ==
    /\ tokenReq[s] # "none"
    /\ tokenReq' = [tokenReq EXCEPT ![s] = "none"]
    /\ issued' = [issued EXCEPT ![s] = NoToken]
    /\ pc' = [c \in Calls |-> IF c \in Waiting(s) THEN "error" ELSE pc[c]]
    /\ awaits' = [c \in Calls |-> IF c \in Waiting(s) THEN NoCall ELSE awaits[c]]
    /\ UNCHANGED <<cachedToken, inFlight, bearer, retry, serverVars>>

\* The network or the server fails the token request: so do its calls.
TokenFails(s) ==
    /\ tokenReq[s] # "none"
    /\ Settle(s)
    /\ pc' = [c \in Calls |-> IF c \in Waiting(s) THEN "error" ELSE pc[c]]
    /\ UNCHANGED <<cachedToken, bearer, retry, serverVars>>

\* Any answer but a 401 is the caller's.
Answered(c) ==
    /\ pc[c] = "accepted"
    /\ pc' = [pc EXCEPT ![c] = "answered"]
    /\ UNCHANGED <<cachedToken, inFlight, awaits, bearer, retry, tokenReq, issued, serverVars>>

\* Mutant: the call is repeated, but the page keeps its token.
RejectedUncleared(c) ==
    /\ pc[c] = "rejected"
    /\ \/ /\ c \in retry
          /\ GetToken(c, cachedToken)
          /\ retry' = retry \ {c}
       \/ /\ c \notin retry
          /\ pc' = [pc EXCEPT ![c] = "unauthorized"]
          /\ UNCHANGED <<inFlight, awaits, bearer, retry, tokenReq>>
    /\ UNCHANGED <<cachedToken, issued, serverVars>>

\* The first 401 clears the token, whichever it is by now, and the call is
\* repeated once.
Rejected(c) ==
    /\ pc[c] = "rejected"
    /\ \/ /\ c \in retry
          /\ cachedToken' = NoToken
          /\ GetToken(c, NoToken)
          /\ retry' = retry \ {c}
       \/ /\ c \notin retry
          /\ pc' = [pc EXCEPT ![c] = "unauthorized"]
          /\ UNCHANGED <<cachedToken, inFlight, awaits, bearer, retry, tokenReq>>
    /\ UNCHANGED <<issued, serverVars>>

\* The network fails the call, or its signal aborts it.
CallFails(c) ==
    /\ pc[c] \in {"sent", "accepted", "rejected"}
    /\ pc' = [pc EXCEPT ![c] = "error"]
    /\ UNCHANGED <<cachedToken, inFlight, awaits, bearer, retry, tokenReq, issued, serverVars>>

-----------------------------------------------------------------------------
(* The server *)

\* Issue of the issuer: a token signed with its key, good until it expires.
Mint(token) == minted' = token /\ good' = good \cup {token}

\* handleToken: the page asks with its client id, and is given a token.
IssueToken(s) ==
    /\ tokenReq[s] = "sent" /\ minted < MaxTokens
    /\ Mint(minted + 1)
    /\ tokenReq' = [tokenReq EXCEPT ![s] = "issued"]
    /\ issued' = [issued EXCEPT ![s] = minted + 1]
    /\ UNCHANGED <<pageVars, losses>>

\* Verify of the issuer: signed with the key it has now, and not expired.
Verified(token) == token \in good

\* requireAuth: the handler behind it runs, or the answer is a 401.
RequireAuth(c) ==
    /\ pc[c] = "sent"
    /\ pc' = [pc EXCEPT ![c] = IF Verified(bearer[c]) THEN "accepted" ELSE "rejected"]
    /\ UNCHANGED <<cachedToken, inFlight, awaits, bearer, retry, tokenReq, issued, serverVars>>

\* A server without a configured key generates one: every token is void.
Restart ==
    /\ losses < MaxLosses /\ good # {}
    /\ good' = {}
    /\ losses' = losses + 1
    /\ UNCHANGED <<pageVars, tokenReq, issued, minted>>

Expire(t) ==
    /\ losses < MaxLosses /\ t \in good
    /\ good' = good \ {t}
    /\ losses' = losses + 1
    /\ UNCHANGED <<pageVars, tokenReq, issued, minted>>

Next ==
    \/ \E c \in Calls :
          \/ Start(c) \/ Answered(c) \/ Rejected(c) \/ CallFails(c)
          \/ TokenArrives(c) \/ TokenFails(c) \/ IssueToken(c) \/ RequireAuth(c)
    \/ Restart
    \/ \E t \in Tokens : Expire(t)

Spec == Init /\ [][Next]_vars

-----------------------------------------------------------------------------
(* Properties *)

\* The calls share one token request: however their rejections interleave with
\* it, there are never two on the way (getToken reuses the one in flight).
OneTokenRequest == Cardinality({s \in Calls : tokenReq[s] # "none"}) <= 1

\* A call that awaits a token awaits a request that is on its way, so neither a
\* failed token request nor a cleared token leaves a later call hanging or fails
\* it with an old error (finally forgets the promise in both cases).
AwaitsLiveRequest ==
    \A c \in Calls : pc[c] = "token" => tokenReq[awaits[c]] # "none"

\* One restart of the server, or one expiry, goes unnoticed: with however many
\* calls under way no call ends in a 401, because the token it is repeated with
\* was requested after the loss (authorized clears the token and retries once).
OneLossIsHidden ==
    (\E c \in Calls : pc[c] = "unauthorized") => losses > 1
=============================================================================
