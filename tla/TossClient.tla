----------------------------- MODULE TossClient -----------------------------
(***************************************************************************)
(* The broker's API client (app/toss/client.py) as its callers share it:   *)
(* ticks, routes and scripts run requests concurrently in one event loop   *)
(* over one cached access token and one account number. A step runs from   *)
(* one await to the next.                                                  *)
(*                                                                         *)
(* A request that needs the account number first asks for the accounts,    *)
(* which is a request of its own, with its own look for a token, while the *)
(* outer one already holds one: req[c].outer keeps what the outer call has *)
(* in its frame.                                                           *)
(*                                                                         *)
(* The broker is external: it issues tokens, drops them at any time (an    *)
(* expiry or a revocation) and answers 401 to one it has dropped; issuing  *)
(* one drops no other. Time is reduced to the moment a cached token comes  *)
(* within TOKEN_REFRESH_MARGIN_S of its expiry, and a step reads the clock *)
(* once; backoff delays are left out, and so is what a body holds.         *)
(***************************************************************************)
EXTENDS Integers, FiniteSets, Sequences

CONSTANTS
    Clients,       \* concurrent callers
    MaxRetries,    \* TossConfig.max_retries
    NoToken,
    MaxAged,       \* bound: tokens that come near their expiry
    MaxDrops       \* bound: tokens the broker drops

ASSUME ClientAssumption ==
    /\ MaxRetries \in Nat /\ MaxAged \in Nat /\ MaxDrops \in Nat
    /\ NoToken \notin Nat

VARIABLES
    cached,        \* TossClient._token
    aged,          \* now >= _token_exp - TOKEN_REFRESH_MARGIN_S
    accountSeq,    \* is _account_seq known
    req,           \* the request of each client
    waiters,       \* queue of _token_lock
    issued,        \* tokens the broker has issued: 1..issued
    live,          \* those it accepts
    agings, drops  \* bounds

client == <<cached, aged, accountSeq>>
broker == <<issued, live>>
clientVars == <<client, req, waiters, broker, agings, drops>>

Tokens == Nat \cup {NoToken}
NoOuter == [token |-> NoToken, retried |-> FALSE, refusedAt |-> 0]
Idle == [pc |-> "idle", account |-> FALSE, nested |-> FALSE, token |-> NoToken,
         retried |-> FALSE, attempt |-> 0, outer |-> NoOuter, refusedAt |-> 0]

Requests ==
    [pc      : {"idle", "waiting", "fetching", "sending"},
     account : BOOLEAN,                 \* needs X-Tossinvest-Account
     nested  : BOOLEAN,                 \* it is get_accounts for an outer call
     token   : Tokens,                  \* of the Authorization header
     retried : BOOLEAN,                 \* _retried_auth
     attempt : 0..MaxRetries,
     refusedAt : Nat,                   \* history: drops when it was refused
     outer   : [token : Tokens, retried : BOOLEAN, refusedAt : Nat]]

ClientInit ==
    /\ cached = NoToken /\ aged = FALSE
    /\ accountSeq \in BOOLEAN
    /\ req = [c \in Clients |-> Idle]
    /\ waiters = <<>>
    /\ issued = 0 /\ live = {}
    /\ agings = 0 /\ drops = 0
-----------------------------------------------------------------------------
Locked == \E c \in Clients : req[c].pc = "fetching"
LockedByOther(c) == \E d \in Clients \ {c} : req[d].pc = "fetching"
Valid == cached # NoToken /\ ~aged

(* With a valid token in hand: if the account number is needed and not     *)
(* known, get_accounts is called, which finds the same token without an    *)
(* await; else the request is sent.                                        *)
Sending(r, token) == [r EXCEPT !.pc = "sending", !.token = token, !.attempt = 0]
Nested(r, token) ==
    [r EXCEPT !.nested = TRUE, !.retried = FALSE, !.attempt = 0,
              !.refusedAt = 0,
              !.outer = [token |-> token, retried |-> r.retried, refusedAt |-> r.refusedAt]]

NeedsAccount(r) == r.account /\ ~r.nested /\ ~accountSeq
WithToken(r, token) ==
    IF NeedsAccount(r) THEN Sending(Nested(r, token), token) ELSE Sending(r, token)

(* _ensure_token when the cached token is not valid: the lock, at once or  *)
(* in its queue. A caller that has just fetched has released it, but comes *)
(* after those who are waiting.                                            *)
WaitOrFetch(c, r) ==
    IF LockedByOther(c) \/ waiters # <<>>
    THEN /\ req' = [req EXCEPT ![c] = [r EXCEPT !.pc = "waiting"]]
         /\ waiters' = Append(waiters, c)
    ELSE /\ req' = [req EXCEPT ![c] = [r EXCEPT !.pc = "fetching"]]
         /\ UNCHANGED waiters

EnsureToken(c, r, token) ==
    IF token # NoToken /\ ~aged
    THEN req' = [req EXCEPT ![c] = WithToken(r, token)] /\ UNCHANGED waiters
    ELSE WaitOrFetch(c, r)

(* get_accounts, get_prices, get_stocks, get_stock_warnings and            *)
(* get_candles; get_holdings and get_buying_power need the account number. *)
Call(c, account) ==
    /\ req[c].pc = "idle"
    /\ EnsureToken(c, [Idle EXCEPT !.account = account], cached)
    /\ UNCHANGED <<client, broker, agings, drops>>

FetchWithoutLook(c) == [req[c] EXCEPT !.pc = "fetching"]
LookAgain(c) ==
    IF Valid THEN WithToken(req[c], cached) ELSE [req[c] EXCEPT !.pc = "fetching"]

WokenByRenewal == ~Locked /\ Valid
Woken == ~Locked

(* The lock is free: its first waiter finds that the token was renewed     *)
(* while it waited, or renews it.                                          *)
Acquire(c) ==
    /\ waiters # <<>> /\ c = Head(waiters)
    /\ Woken
    /\ req' = [req EXCEPT ![c] = LookAgain(c)]
    /\ waiters' = Tail(waiters)
    /\ UNCHANGED <<client, broker, agings, drops>>

(* POST /oauth2/token; an answer may grant less time than the margin. The  *)
(* caller has its token all the same, but get_accounts, if it comes next,  *)
(* finds that token too old and looks for another.                         *)
Fetched(c) ==
    /\ req[c].pc = "fetching"
    /\ issued' = issued + 1 /\ live' = live \cup {issued + 1}
    /\ cached' = issued + 1
    /\ \/ aged' = FALSE /\ agings' = agings
       \/ aged' = TRUE /\ agings < MaxAged /\ agings' = agings + 1
    /\ IF aged' /\ NeedsAccount(req[c])
       THEN WaitOrFetch(c, Nested(req[c], issued + 1))
       ELSE /\ req' = [req EXCEPT ![c] = WithToken(req[c], issued + 1)]
            /\ UNCHANGED waiters
    /\ UNCHANGED <<accountSeq, drops>>

(* An error goes up to the caller, through the outer call of get_accounts; *)
(* async with releases the lock.                                           *)
Raise(c) == req' = [req EXCEPT ![c] = Idle]

FetchFails(c) ==
    /\ req[c].pc = "fetching"
    /\ Raise(c)
    /\ UNCHANGED <<client, waiters, broker, agings, drops>>
-----------------------------------------------------------------------------
AttemptsLeft(c) == req[c].attempt < MaxRetries

(* _send_with_retry: a transport error, 429 or 5xx is tried again with the *)
(* same headers, and returned or raised at the last attempt.               *)
SendAgain(c) ==
    /\ req[c].pc = "sending"
    /\ AttemptsLeft(c)
    /\ req' = [req EXCEPT ![c].attempt = @ + 1]
    /\ UNCHANGED <<client, waiters, broker, agings, drops>>

GiveUp(c) ==
    /\ req[c].pc = "sending"
    /\ ~AttemptsLeft(c)
    /\ Raise(c)
    /\ UNCHANGED <<client, waiters, broker, agings, drops>>

(* 401, the first of this call: drop the cached token, whichever it is by  *)
(* now, and make the call once more.                                       *)
MayRetry(c) == ~req[c].retried
TokenKept(c) == cached
TokenAfter401(c) == NoToken
Again(c) == [req[c] EXCEPT !.retried = TRUE, !.token = NoToken, !.attempt = 0,
                           !.refusedAt = drops]

Refused(c) == req[c].pc = "sending" /\ req[c].token \notin live

RenewAndRetry(c) ==
    /\ Refused(c)
    /\ MayRetry(c)
    /\ cached' = TokenAfter401(c)
    /\ EnsureToken(c, Again(c), TokenAfter401(c))
    /\ UNCHANGED <<aged, accountSeq, broker, agings, drops>>

FailRefused(c) ==
    /\ Refused(c)
    /\ ~MayRetry(c)
    /\ Raise(c)
    /\ UNCHANGED <<client, waiters, broker, agings, drops>>

Accepted(c) == req[c].pc = "sending" /\ req[c].token \in live

(* Any other 4xx, or an account list that is empty.                        *)
FailOtherwise(c) ==
    /\ Accepted(c)
    /\ Raise(c)
    /\ UNCHANGED <<client, waiters, broker, agings, drops>>

(* The accounts: the outer call goes on with the token it had.             *)
GotAccounts(c) ==
    /\ Accepted(c)
    /\ req[c].nested
    /\ accountSeq' = TRUE
    /\ req' = [req EXCEPT ![c] =
                 Sending([@ EXCEPT !.nested = FALSE, !.retried = req[c].outer.retried,
                                   !.refusedAt = req[c].outer.refusedAt,
                                   !.outer = NoOuter], req[c].outer.token)]
    /\ UNCHANGED <<cached, aged, waiters, broker, agings, drops>>

Answered(c) ==
    /\ Accepted(c)
    /\ ~req[c].nested
    /\ Raise(c)
    /\ UNCHANGED <<client, waiters, broker, agings, drops>>
-----------------------------------------------------------------------------
Age ==
    /\ Valid /\ agings < MaxAged
    /\ aged' = TRUE /\ agings' = agings + 1
    /\ UNCHANGED <<cached, accountSeq, req, waiters, broker, drops>>

Drop(t) ==
    /\ drops < MaxDrops /\ drops' = drops + 1
    /\ live' = live \ {t}
    /\ UNCHANGED <<client, req, waiters, issued, agings>>

Resolve(c) ==
    \/ Acquire(c) \/ Fetched(c) \/ FetchFails(c)
    \/ SendAgain(c) \/ GiveUp(c)
    \/ RenewAndRetry(c) \/ FailRefused(c)
    \/ FailOtherwise(c) \/ GotAccounts(c) \/ Answered(c)

ClientNext ==
    \/ \E c \in Clients : Resolve(c) \/ \E account \in BOOLEAN : Call(c, account)
    \/ Age
    \/ \E t \in live : Drop(t)

(* Every HTTP call is answered, fails or times out, and the event loop     *)
(* runs what is ready. Nobody has to make a call.                          *)
ClientSpec == ClientInit /\ [][ClientNext]_clientVars /\ \A c \in Clients : WF_clientVars(Resolve(c))
-----------------------------------------------------------------------------
ClientTypeOK ==
    /\ cached \in Tokens /\ aged \in BOOLEAN /\ accountSeq \in BOOLEAN
    /\ req \in [Clients -> Requests]
    /\ waiters \in Seq(Clients)
    /\ issued \in Nat /\ live \subseteq 1..issued
    /\ agings \in 0..MaxAged /\ drops \in 0..MaxDrops

(* client.py:132, callers that find no valid token share one renewal: a    *)
(* fetch is under way only while no usable token is cached, and one at a   *)
(* time.                                                                   *)
FetchesAreShared ==
    /\ \A c \in Clients : req[c].pc = "fetching" => ~Valid
    /\ \A c, d \in Clients : req[c].pc = "fetching" /\ req[d].pc = "fetching" => c = d

(* client.py:7, a 401 is answered by one retry with a new token: no call   *)
(* is refused for good unless the broker has dropped another token since it*)
(* refused the first, even if late refusals of other requests clear the    *)
(* cached token and the account number is fetched on the way.              *)
RefusedOnlyIfDroppedAgain ==
    \A c \in Clients : Refused(c) /\ ~MayRetry(c) => drops > req[c].refusedAt

(* Every request ends, whatever others do to the token and its lock.       *)
EveryRequestEnds ==
    \A c \in Clients : req[c].pc # "idle" ~> req[c].pc = "idle"
=============================================================================
