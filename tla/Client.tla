------------------------------- MODULE Client -------------------------------
(***************************************************************************)
(* client.Do and the OAuth token it sends (internal/client/client.go,      *)
(* auth.go).  The goroutines of a process share one Client, and with it    *)
(* one access token behind a read-write lock; all processes share the      *)
(* refresh token in the OS keychain, which the broker may replace whenever *)
(* it is used.  A refresh holds the write lock from the read of the        *)
(* keychain to the write of the new refresh token.                         *)
(*                                                                         *)
(* `tt login` (cmd/login.go) exchanges the refresh token of a new grant,   *)
(* that of another OAuth application, and stores its credentials entry by  *)
(* entry in the same keychain, which commands are using.  Of the entries   *)
(* only client_secret and refresh_token are read by the program.           *)
(*                                                                         *)
(* Access tokens are numbered in the order in which the broker issues      *)
(* them, and so are the refresh tokens of a grant; 0 is no access token,   *)
(* respectively the refresh token the grant was made with.  The rate       *)
(* limiter only delays a call.                                             *)
(***************************************************************************)
EXTENDS Naturals

CONSTANTS
    Process,
    Call,         \* invocations of client.Do
    ClientOf,     \* the process each call belongs to
    None,         \* no call: the write lock is free
    MaxAttempts,  \* maxAttempts
    MaxTokens     \* bound on the tokens the broker issues

ASSUME ClientAssumption ==
    /\ ClientOf \in [Call -> Process]
    /\ None \notin Call
    /\ MaxAttempts \in Nat \ {0}
    /\ MaxTokens \in Nat

VARIABLES
    issued,         \* access tokens the broker has issued
    accepted,       \* those it still accepts
    brokerRefresh,  \* the refresh token it accepts for each grant
    keychain,       \* the grants of its client_secret and of its refresh_token,
                    \* and which of the grant's refresh tokens that is
    access,         \* token.accessToken of each process
    aged,           \* time.Since(issuedAt) >= RefreshThreshold
    writer,         \* the call that holds the write lock of its client
    pc,
    local,          \* the local variables of each call, and its request
    login,          \* how far `tt login` is
    loginHeld,      \* the refresh token it will store
    lost,           \* history: for each grant, that a new refresh token was lost
                    \* on its way to the keychain
    overtaken       \* history: the login ended while a refresh of the old grant
                    \* was under way

broker == <<issued, accepted, brokerRefresh>>
token == <<access, aged>>
logins == <<login, loginHeld, overtaken>>
vars == <<broker, keychain, token, writer, pc, local, logins, lost>>

\* The grant whose credentials an earlier login stored, and that of a new login.
Grant == {"stored", "entered"}

Access == 0..MaxTokens
Refreshing == {"presenting", "answered", "rotated"}
Step == {"idle", "locking", "injecting", "sending", "returned"} \cup Refreshing

\* held is, in a refresh, the refresh token read from the keychain and then the
\* access token the broker answered; grant is the grant of the credentials read,
\* "mixed" if they are of two; header is the token the request carries.
Local == [held : Access, grant : Grant \cup {"mixed"}, header : Access,
          attempts : 0..MaxAttempts, refreshed : BOOLEAN]
NoLocal == [held |-> 0, grant |-> "stored", header |-> 0, attempts |-> 0, refreshed |-> FALSE]

TypeOK ==
    /\ issued \in Access
    /\ accepted \subseteq 1..issued
    /\ brokerRefresh \in [Grant -> 0..issued]
    /\ keychain \in [secret : Grant, grant : Grant, refresh : Access]
    /\ keychain.refresh <= brokerRefresh[keychain.grant]
    /\ access \in [Process -> 0..issued]
    /\ aged \in [Process -> BOOLEAN]
    /\ writer \in [Process -> Call \cup {None}]
    /\ pc \in [Call -> Step]
    /\ local \in [Call -> Local]
    /\ login \in {"presenting", "answered", "half", "done", "torn", "failed"}
    /\ loginHeld \in {0, 1}
    /\ lost \in [Grant -> BOOLEAN]
    /\ overtaken \in BOOLEAN

Init ==
    /\ issued = 0
    /\ accepted = {}
    /\ brokerRefresh = [g \in Grant |-> 0]
    /\ keychain = [secret |-> "stored", grant |-> "stored", refresh |-> 0]
    /\ access = [p \in Process |-> 0]
    /\ aged = [p \in Process |-> TRUE]
    /\ writer = [p \in Process |-> None]
    /\ pc = [c \in Call |-> "idle"]
    /\ local = [c \in Call |-> NoLocal]
    /\ login = "presenting" /\ loginHeld = 0
    /\ lost = [g \in Grant |-> FALSE]
    /\ overtaken = FALSE

\* Call c goes to step with these locals, which end with the call.
Goto(c, step, locals) ==
    /\ pc' = [pc EXCEPT ![c] = step]
    /\ local' = [local EXCEPT ![c] = IF step = "returned" THEN NoLocal ELSE locals]

LockIsFree(c) == writer[ClientOf[c]] = None
Unlock(c) == writer' = [writer EXCEPT ![ClientOf[c]] = None]

\* A refresh before the first attempt is EnsureToken's, a later one follows a 401.
Proactive(c) == local[c].attempts = 0

-----------------------------------------------------------------------------
(***************************************************************************)
(* EnsureToken and doTokenRefresh.                                         *)
(***************************************************************************)

\* needsRefresh
Start(c) ==
    /\ pc[c] = "idle"
    /\ LockIsFree(c)
    /\ Goto(c, IF aged[ClientOf[c]] THEN "locking" ELSE "injecting", local[c])
    /\ UNCHANGED <<broker, keychain, token, writer, lost, logins>>

\* Fault: no second look at the token's age under the lock.
StillNeededOnceSeen(c) == TRUE

\* EnsureToken looks again once it holds the lock; after a 401 it always refreshes.
StillNeeded(c) == Proactive(c) => aged[ClientOf[c]]

\* The grant of the refresh_token and the client_secret in the keychain.
Read == IF keychain.secret = keychain.grant THEN keychain.grant ELSE "mixed"

\* Fault: refreshes are not serialised.
PresentUnlocked(c) ==
    /\ pc[c] = "locking"
    /\ StillNeeded(c)
    /\ writer' = [writer EXCEPT ![ClientOf[c]] = c]
    /\ Goto(c, "presenting", [local[c] EXCEPT !.held = keychain.refresh, !.grant = Read])
    /\ UNCHANGED <<broker, keychain, token, lost, logins>>

\* The lock is taken, and the keychain read under it.
Present(c) ==
    /\ pc[c] = "locking"
    /\ LockIsFree(c)
    /\ StillNeeded(c)
    /\ writer' = [writer EXCEPT ![ClientOf[c]] = c]
    /\ Goto(c, "presenting", [local[c] EXCEPT !.held = keychain.refresh, !.grant = Read])
    /\ UNCHANGED <<broker, keychain, token, lost, logins>>

\* The lock is taken and given back: another call refreshed meanwhile.
FindFresh(c) ==
    /\ pc[c] = "locking"
    /\ LockIsFree(c)
    /\ ~StillNeeded(c)
    /\ Goto(c, "injecting", local[c])
    /\ UNCHANGED <<broker, keychain, token, writer, lost, logins>>

\* The grants whose new refresh token some of these calls lose.
Losing(calls) ==
    [g \in Grant |-> lost[g] \/ \E c \in calls : pc[c] = "rotated" /\ local[c].grant = g]

\* Fault: a failed refresh returns with the lock held.
RefreshFailsLocked(c) ==
    /\ pc[c] \in Refreshing
    /\ Goto(c, "returned", NoLocal)
    /\ lost' = Losing({c})
    /\ UNCHANGED <<broker, keychain, token, writer, logins>>

\* The keychain cannot be read, the broker refuses, or its answer is lost or
\* does not parse.
RefreshFails(c) ==
    /\ pc[c] \in Refreshing
    /\ Goto(c, "returned", NoLocal)
    /\ Unlock(c)
    /\ lost' = Losing({c})
    /\ UNCHANGED <<broker, keychain, token, logins>>

\* The call's new refresh token goes to the keychain.
Saved(c) == [keychain EXCEPT !.grant = local[c].grant, !.refresh = brokerRefresh[local[c].grant]]

\* Fault: the new refresh token is saved after a proactive refresh only.
PersistProactive(c) ==
    \/ /\ keychain' = IF pc[c] = "rotated" /\ Proactive(c) THEN Saved(c) ELSE keychain
       /\ UNCHANGED lost
    \/ /\ pc[c] = "rotated"
       /\ lost' = Losing({c})
       /\ UNCHANGED keychain

\* persistRefreshedToken: a new refresh token goes to the keychain.  A write that
\* fails is logged, and the refresh counts as done.
Persist(c) ==
    \/ /\ keychain' = IF pc[c] = "rotated" THEN Saved(c) ELSE keychain
       /\ UNCHANGED lost
    \/ /\ pc[c] = "rotated"
       /\ lost' = Losing({c})
       /\ UNCHANGED keychain

\* The answer arrives.
ReceiveToken(c) ==
    /\ pc[c] \in {"answered", "rotated"}
    /\ access' = [access EXCEPT ![ClientOf[c]] = local[c].held]
    /\ aged' = [aged EXCEPT ![ClientOf[c]] = FALSE]
    /\ Persist(c)
    /\ Unlock(c)
    /\ Goto(c, "injecting", [local[c] EXCEPT !.held = 0, !.grant = "stored",
                                         !.refreshed = ~Proactive(c)])
    /\ UNCHANGED <<broker, logins>>

-----------------------------------------------------------------------------
(***************************************************************************)
(* The attempts of client.Do.                                              *)
(***************************************************************************)

\* Fault: a retry keeps the header of the first attempt.
HeaderInjectedOnce(c) == IF Proactive(c) THEN access[ClientOf[c]] ELSE local[c].header

\* authHeader
Header(c) == access[ClientOf[c]]

\* injectHeaders.  After a 401 on the last attempt there is none left to make.
Inject(c) ==
    /\ pc[c] = "injecting"
    /\ LockIsFree(c)
    /\ Goto(c, IF local[c].attempts < MaxAttempts THEN "sending" ELSE "returned",
            [local[c] EXCEPT !.header = Header(c)])
    /\ UNCHANGED <<broker, keychain, token, writer, lost, logins>>

Attempt(c, step) ==
    /\ pc[c] = "sending"
    /\ Goto(c, step, [local[c] EXCEPT !.attempts = @ + 1])
    /\ UNCHANGED <<broker, keychain, token, writer, lost, logins>>

\* Any status that is neither 401, 429 nor one of the four 5xx.
Answered(c) ==
    /\ local[c].header \in accepted
    /\ Attempt(c, "returned")

\* Fault: client.Do counts its retries, not its attempts.
RetryOnceMore(c) ==
    Attempt(c, IF local[c].attempts < MaxAttempts THEN "sending" ELSE "returned")

\* A network error, 429 or 5xx.
Retry(c) ==
    Attempt(c, IF local[c].attempts + 1 < MaxAttempts THEN "sending" ELSE "returned")

\* 401: refresh and retry, once.
Unauthorized(c) ==
    /\ local[c].header \notin accepted
    /\ Attempt(c, IF local[c].refreshed THEN "returned" ELSE "locking")

-----------------------------------------------------------------------------
(***************************************************************************)
(* The environment.                                                        *)
(***************************************************************************)

\* The broker exchanges the refresh token, and may replace it by a new one.
Exchange(c) ==
    /\ pc[c] = "presenting"
    /\ local[c].grant # "mixed"
    /\ local[c].held = brokerRefresh[local[c].grant]
    /\ issued < MaxTokens
    /\ issued' = issued + 1
    /\ accepted' = accepted \cup {issued + 1}
    /\ \E rotate \in BOOLEAN :
          /\ brokerRefresh' = IF rotate THEN [brokerRefresh EXCEPT ![local[c].grant] = @ + 1]
                              ELSE brokerRefresh
          /\ Goto(c, IF rotate THEN "rotated" ELSE "answered",
                  [local[c] EXCEPT !.held = issued + 1])
    /\ UNCHANGED <<keychain, token, writer, lost, logins>>

\* The broker stops accepting an access token: it expires, or is revoked.
Expire(t) ==
    /\ t \in accepted
    /\ accepted' = accepted \ {t}
    /\ UNCHANGED <<issued, brokerRefresh, keychain, token, writer, pc, local, lost, logins>>

\* RefreshThreshold has passed since the process's token was issued.
Age(p) ==
    /\ ~aged[p]
    /\ aged' = [aged EXCEPT ![p] = TRUE]
    /\ UNCHANGED <<broker, keychain, access, writer, pc, local, lost, logins>>

\* The process is killed, its calls end, and what it had not saved is lost.
Crash(p) ==
    LET killed == {c \in Call : ClientOf[c] = p /\ pc[c] \notin {"idle", "returned"}} IN
    /\ killed # {}
    /\ pc' = [c \in Call |-> IF c \in killed THEN "returned" ELSE pc[c]]
    /\ local' = [c \in Call |-> IF c \in killed THEN NoLocal ELSE local[c]]
    /\ lost' = Losing(killed)
    /\ access' = [access EXCEPT ![p] = 0]
    /\ aged' = [aged EXCEPT ![p] = TRUE]
    /\ writer' = [writer EXCEPT ![p] = None]
    /\ UNCHANGED <<broker, keychain, logins>>

-----------------------------------------------------------------------------
(***************************************************************************)
(* tt login: runLogin and persistLoginCredentials.                         *)
(***************************************************************************)

\* The broker exchanges the refresh token the operator entered.  If it answers
\* without a new one, the entered one is stored.  The access token is stored and
\* never read, so it is none of those that calls send.
LoginExchange ==
    /\ login = "presenting"
    /\ brokerRefresh["entered"] = 0
    /\ issued < MaxTokens
    /\ issued' = issued + 1
    /\ \E new \in {0, 1} :
          /\ brokerRefresh' = [brokerRefresh EXCEPT !["entered"] = new]
          /\ loginHeld' = new
    /\ login' = "answered"
    /\ UNCHANGED <<accepted, keychain, token, writer, pc, local, lost, overtaken>>

LosesLoginToken ==
    lost' = [lost EXCEPT !["entered"] = brokerRefresh["entered"] # 0]

\* The answer is lost on its way; client.Do presents the same token again.
LoginRetried ==
    /\ login = "answered"
    /\ login' = "presenting"
    /\ loginHeld' = 0
    /\ LosesLoginToken
    /\ UNCHANGED <<broker, keychain, token, writer, pc, local, overtaken>>

\* The broker refuses, an entry before the last cannot be stored, or the process
\* is killed.
LoginFails ==
    /\ login \in {"presenting", "answered", "half"}
    /\ login' = IF login = "half" THEN "torn" ELSE "failed"
    /\ loginHeld' = 0
    /\ LosesLoginToken
    /\ UNCHANGED <<broker, keychain, token, writer, pc, local, overtaken>>

\* The loop over the four entries stores client_secret, in whatever order.
StoreSecret ==
    /\ login = "answered"
    /\ login' = "half"
    /\ keychain' = [keychain EXCEPT !.secret = "entered"]
    /\ UNCHANGED <<broker, token, writer, pc, local, loginHeld, lost, overtaken>>

\* The refresh token comes last.
StoreRefresh ==
    /\ login = "half"
    /\ login' = "done"
    /\ keychain' = [keychain EXCEPT !.grant = "entered", !.refresh = loginHeld]
    /\ loginHeld' = 0
    /\ overtaken' = \E c \in Call : pc[c] \in Refreshing
    /\ UNCHANGED <<broker, token, writer, pc, local, lost>>

-----------------------------------------------------------------------------
Do(c) ==
    \/ Start(c)
    \/ Present(c)
    \/ FindFresh(c)
    \/ RefreshFails(c)
    \/ ReceiveToken(c)
    \/ Inject(c)
    \/ Answered(c)
    \/ Retry(c)
    \/ Unauthorized(c)

Next ==
    \/ \E c \in Call : Do(c) \/ Exchange(c)
    \/ \E t \in 1..MaxTokens : Expire(t)
    \/ \E p \in Process : Age(p) \/ Crash(p)
    \/ LoginExchange \/ LoginRetried \/ LoginFails \/ StoreSecret \/ StoreRefresh

Spec == Init /\ [][Next]_vars

(***************************************************************************)
(* A started call goes on: every request times out after 30 seconds.       *)
(* Nothing is assumed of the order in which waiting calls get the lock.    *)
(***************************************************************************)
FairSpec == Spec /\ \A c \in Call : WF_vars(Do(c) /\ pc[c] # "idle")

-----------------------------------------------------------------------------
(***************************************************************************)
(* Properties.                                                             *)
(***************************************************************************)

\* The token in memory is never replaced by one that was issued before it,
\* however the refreshes of several calls overlap.
AccessNeverGoesBack ==
    [][\A p \in Process : access'[p] < access[p] => Crash(p)]_vars

\* EnsureToken asks the broker for a token only while the one in memory is old:
\* the calls that waited for a refresh use its result.
RefreshOnlyWhenAged ==
    \A c \in Call : pc[c] \in Refreshing /\ Proactive(c) => aged[ClientOf[c]]

\* "401 single refresh-and-retry": what is sent after a 401 carries a token
\* newer than the one that was rejected, whoever refreshed it since.
RetryUsesNewToken ==
    [][\A c \in Call : pc[c] = "injecting" /\ pc'[c] = "sending" /\ local[c].refreshed
          => local'[c].header > local[c].header]_vars

\* The keychain holds the refresh token the broker accepts for its grant, unless
\* one is on its way or was lost to a crash, a lost answer or a failed write: no
\* overlap of calls, processes and a login puts an older one in its place.
KeychainIsCurrent ==
    \/ lost[keychain.grant]
    \/ keychain.refresh = brokerRefresh[keychain.grant]
    \/ \E c \in Call : pc[c] = "rotated" /\ local[c].grant = keychain.grant

\* The client_secret and the refresh_token in the keychain are of one grant,
\* except while a login stores them, after one that was cut short between the
\* two, and when a refresh that was under way as it ended wrote the old grant's
\* token over the new one (login.go:42-63): otherwise no refresh would succeed.
KeychainIsOfOneGrant ==
    keychain.secret = keychain.grant \/ login \in {"half", "torn"} \/ overtaken

\* The next refresh will be accepted: what the keychain holds fits together and is
\* not outdated, but for the named exceptions.
KeychainIsUsable == KeychainIsCurrent /\ KeychainIsOfOneGrant

\* Every call returns, whatever the broker answers and however calls wait for
\* each other's refresh.
EveryCallReturns == \A c \in Call : pc[c] = "locking" ~> pc[c] = "returned"
=============================================================================
