---------------------------- MODULE ClientProofs ----------------------------
(***************************************************************************)
(* Proofs about Client, for every set of processes and calls, every number *)
(* of attempts and every number of tokens the broker issues.               *)
(***************************************************************************)
EXTENDS Client, TLAPS

\* A call refreshes exactly while it holds its client's lock.
LockIsHeld == \A c \in Call : pc[c] \in Refreshing <=> writer[ClientOf[c]] = c

\* A call that sends has an attempt left, and one that does not run has no state.
CallsAreInOrder ==
    \A c \in Call :
        /\ pc[c] = "sending" => local[c].attempts < MaxAttempts
        /\ pc[c] \in {"idle", "returned"} => local[c] = NoLocal

\* The token in an answer is newer than the one in memory, because the lock was
\* held since before it was issued.
AnswerIsNewer ==
    \A c \in Call : pc[c] \in {"answered", "rotated"} =>
        local[c].held \in access[ClientOf[c]] + 1 .. issued

\* The header of a call is no newer than the token in memory, and older once a
\* 401 led to a refresh and the next attempt has not been made.
HeaderIsOlder ==
    \A c \in Call :
        /\ local[c].header <= access[ClientOf[c]]
        /\ local[c].refreshed => pc[c] \in {"injecting", "sending"}
        /\ local[c].refreshed /\ pc[c] = "injecting" => local[c].header < access[ClientOf[c]]

\* What the keychain and the refreshes under way know of the new grant: nothing
\* before the login stored it, nothing else after it, unless one overlapped.
GrantsFit ==
    /\ keychain.secret = IF login \in {"half", "torn", "done"} THEN "entered" ELSE "stored"
    /\ login # "done" => /\ keychain.grant = "stored"
                         /\ \A c \in Call : pc[c] \in Refreshing => local[c].grant # "entered"
    /\ login = "done" /\ ~overtaken =>
          /\ keychain.grant = "entered"
          /\ \A c \in Call : pc[c] \in Refreshing => local[c].grant = "entered"
    /\ login \in {"answered", "half"} => loginHeld = brokerRefresh["entered"]
    /\ \A c \in Call : pc[c] \in {"answered", "rotated"} => local[c].grant \in Grant

\* Everything rests on the lock: what a refresh knows stays true until it is stored,
\* because no other refresh of its client is under way.
IInv ==
    /\ TypeOK
    /\ LockIsHeld
    /\ CallsAreInOrder
    /\ RefreshOnlyWhenAged
    /\ AnswerIsNewer
    /\ HeaderIsOlder
    /\ GrantsFit
    /\ KeychainIsCurrent
    /\ KeychainIsOfOneGrant

-----------------------------------------------------------------------------

LEMMA NoLocalType == NoLocal \in Local
BY ClientAssumption DEF NoLocal, Local, Access, Grant

LEMMA InitIInv == Init => IInv
<1> SUFFICES ASSUME Init
             PROVE  IInv
    OBVIOUS
<1>1. TypeOK
    <2>1. 0 \in Access /\ 0 \in 0..issued /\ accepted \subseteq 1..issued
        BY ClientAssumption DEF Init, Access
    <2>2. keychain \in [secret : Grant, grant : Grant, refresh : Access]
        BY <2>1 DEF Init, Grant
    <2>3. keychain.refresh <= brokerRefresh[keychain.grant]
        BY DEF Init, Grant
    <2> QED
        BY <2>1, <2>2, <2>3, NoLocalType DEF Init, TypeOK, Step
<1>2. LockIsHeld /\ CallsAreInOrder /\ RefreshOnlyWhenAged
    BY ClientAssumption DEF Init, LockIsHeld, CallsAreInOrder, RefreshOnlyWhenAged,
        Refreshing
<1>3. AnswerIsNewer /\ HeaderIsOlder
    BY ClientAssumption DEF Init, AnswerIsNewer, HeaderIsOlder, NoLocal
<1>4. GrantsFit /\ KeychainIsCurrent /\ KeychainIsOfOneGrant
    BY DEF Init, GrantsFit, KeychainIsCurrent, KeychainIsOfOneGrant, Refreshing, Grant
<1> QED
    BY <1>1, <1>2, <1>3, <1>4 DEF IInv

\* What Goto does to the call it moves and to the others.
LEMMA GotoEffect ==
    ASSUME TypeOK, NEW c \in Call, NEW step \in Step, NEW locals \in Local,
           Goto(c, step, locals)
    PROVE  /\ pc' \in [Call -> Step] /\ local' \in [Call -> Local]
           /\ pc'[c] = step
           /\ local'[c] = IF step = "returned" THEN NoLocal ELSE locals
           /\ \A d \in Call : d # c => pc'[d] = pc[d] /\ local'[d] = local[d]
BY NoLocalType DEF TypeOK, Goto

\* A call that refreshes gives the lock of its client back: no other of its calls
\* refreshes.
LEMMA UnlockEffect ==
    ASSUME TypeOK, LockIsHeld, NEW c \in Call, pc[c] \in Refreshing, Unlock(c)
    PROVE  /\ writer' \in [Process -> Call \cup {None}]
           /\ writer'[ClientOf[c]] = None
           /\ \A p \in Process : p # ClientOf[c] => writer'[p] = writer[p]
           /\ \A d \in Call : d # c /\ ClientOf[d] = ClientOf[c] => pc[d] \notin Refreshing
BY ClientAssumption DEF TypeOK, LockIsHeld, Unlock

\* A step of a call that neither is in a refresh nor enters one leaves all of IInv
\* alone but what it says of the attempts and their headers.
LEMMA OutsideRefresh ==
    ASSUME IInv, NEW c \in Call, NEW step \in Step \ Refreshing, NEW locals \in Local,
           pc[c] \notin Refreshing, Goto(c, step, locals),
           UNCHANGED <<broker, keychain, token, writer, lost, logins>>
    PROVE  /\ TypeOK' /\ LockIsHeld' /\ RefreshOnlyWhenAged' /\ AnswerIsNewer' /\ GrantsFit'
           /\ KeychainIsCurrent' /\ KeychainIsOfOneGrant'
<1> USE DEF broker, token, logins
<1>1. /\ pc' \in [Call -> Step] /\ local' \in [Call -> Local]
      /\ pc'[c] \notin Refreshing
      /\ \A d \in Call : d # c => pc'[d] = pc[d] /\ local'[d] = local[d]
    BY GotoEffect DEF IInv
<1>2. TypeOK'
    BY <1>1 DEF IInv, TypeOK
<1>3. LockIsHeld' /\ RefreshOnlyWhenAged' /\ AnswerIsNewer'
    BY <1>1 DEF IInv, LockIsHeld, RefreshOnlyWhenAged, AnswerIsNewer, Refreshing, Proactive
<1>4. GrantsFit'
    BY <1>1 DEF IInv, GrantsFit, Refreshing
<1>5. KeychainIsCurrent' /\ KeychainIsOfOneGrant'
    BY <1>1 DEF IInv, KeychainIsCurrent, KeychainIsOfOneGrant, Refreshing
<1> QED
    BY <1>2, <1>3, <1>4, <1>5

\* The locals of a call whose refresh succeeded.
LEMMA RefreshedLocals ==
    ASSUME NEW l \in Local, NEW retried \in BOOLEAN
    PROVE  LET locals == [l EXCEPT !.held = 0, !.grant = "stored", !.refreshed = retried] IN
           /\ locals \in Local
           /\ locals.refreshed = retried
           /\ locals.header = l.header /\ locals.attempts = l.attempts
<1> DEFINE cleared == [l EXCEPT !.held = 0, !.grant = "stored"]
           locals == [cleared EXCEPT !.refreshed = retried]
<1>1. cleared \in Local /\ cleared.header = l.header /\ cleared.attempts = l.attempts
    <2>1. 0 \in Access
        BY ClientAssumption DEF Access
    <2>2. cleared \in Local
        BY <2>1 DEF Local, Grant
    <2>3. cleared.header = l.header /\ cleared.attempts = l.attempts
        OBVIOUS
    <2> QED
        BY <2>2
<1>2. locals \in Local /\ locals.refreshed = retried
      /\ locals.header = l.header /\ locals.attempts = l.attempts
    <2> HIDE DEF cleared
    <2> QED
        BY <1>1 DEF Local
<1>3. locals = [l EXCEPT !.held = 0, !.grant = "stored", !.refreshed = retried]
    OBVIOUS
<1> QED
    BY <1>2

\* EnsureToken and the attempts, outside a refresh.
LEMMA StartKeeps ==
    ASSUME IInv, NEW c \in Call, Start(c)
    PROVE  IInv'
<1> DEFINE step == IF aged[ClientOf[c]] THEN "locking" ELSE "injecting"
           locals == local[c]
<1>1. /\ Goto(c, step, locals)
      /\ pc[c] \notin Refreshing
      /\ UNCHANGED <<broker, keychain, token, writer, lost, logins>>
    BY DEF Start, Refreshing
<1>2. step \in Step \ Refreshing
    BY DEF Step, Refreshing
<1>3. /\ locals \in Local
      /\ locals.header = local[c].header
      /\ locals.attempts = local[c].attempts /\ locals.refreshed = local[c].refreshed
    <2>1. local[c] \in Local
        BY DEF IInv, TypeOK
    <2> QED
        BY <2>1
<1> HIDE DEF locals
<1>4. /\ pc'[c] = step
      /\ local'[c] = IF step = "returned" THEN NoLocal ELSE locals
      /\ \A d \in Call : d # c => pc'[d] = pc[d] /\ local'[d] = local[d]
    <2> HIDE DEF step
    <2> QED
        BY <1>1, <1>2, <1>3, GotoEffect DEF IInv
<1>5. CallsAreInOrder'
    BY <1>4 DEF IInv, CallsAreInOrder
<1>6. HeaderIsOlder'
    BY <1>3, <1>4 DEF Start, IInv, HeaderIsOlder, token
<1>7. /\ TypeOK' /\ LockIsHeld' /\ RefreshOnlyWhenAged' /\ AnswerIsNewer' /\ GrantsFit'
      /\ KeychainIsCurrent' /\ KeychainIsOfOneGrant'
    <2> HIDE DEF step
    <2> QED
        BY <1>1, <1>2, <1>3, OutsideRefresh
<1> QED
    BY <1>5, <1>6, <1>7 DEF IInv

LEMMA FindFreshKeeps ==
    ASSUME IInv, NEW c \in Call, FindFresh(c)
    PROVE  IInv'
<1> DEFINE step == "injecting"
           locals == local[c]
<1>1. /\ Goto(c, step, locals)
      /\ pc[c] \notin Refreshing
      /\ UNCHANGED <<broker, keychain, token, writer, lost, logins>>
    BY DEF FindFresh, Refreshing
<1>2. step \in Step \ Refreshing
    BY DEF Step, Refreshing
<1>3. /\ locals \in Local
      /\ locals.header = local[c].header
      /\ locals.attempts = local[c].attempts /\ locals.refreshed = local[c].refreshed
    <2>1. local[c] \in Local
        BY DEF IInv, TypeOK
    <2> QED
        BY <2>1
<1> HIDE DEF locals
<1>4. /\ pc'[c] = step
      /\ local'[c] = IF step = "returned" THEN NoLocal ELSE locals
      /\ \A d \in Call : d # c => pc'[d] = pc[d] /\ local'[d] = local[d]
    <2> HIDE DEF step
    <2> QED
        BY <1>1, <1>2, <1>3, GotoEffect DEF IInv
<1>5. CallsAreInOrder'
    BY <1>4 DEF IInv, CallsAreInOrder
<1>6. HeaderIsOlder'
    BY <1>3, <1>4 DEF FindFresh, IInv, HeaderIsOlder, token
<1>7. /\ TypeOK' /\ LockIsHeld' /\ RefreshOnlyWhenAged' /\ AnswerIsNewer' /\ GrantsFit'
      /\ KeychainIsCurrent' /\ KeychainIsOfOneGrant'
    <2> HIDE DEF step
    <2> QED
        BY <1>1, <1>2, <1>3, OutsideRefresh
<1> QED
    BY <1>5, <1>6, <1>7 DEF IInv

LEMMA InjectKeeps ==
    ASSUME IInv, NEW c \in Call, Inject(c)
    PROVE  IInv'
<1> DEFINE step == IF local[c].attempts < MaxAttempts THEN "sending" ELSE "returned"
           locals == [local[c] EXCEPT !.header = Header(c)]
<1>1. /\ Goto(c, step, locals)
      /\ pc[c] \notin Refreshing
      /\ UNCHANGED <<broker, keychain, token, writer, lost, logins>>
    BY DEF Inject, Refreshing
<1>2. step \in Step \ Refreshing
    BY DEF Step, Refreshing
<1>3. /\ locals \in Local
      /\ locals.header = access[ClientOf[c]]
      /\ locals.attempts = local[c].attempts /\ locals.refreshed = local[c].refreshed
    <2>1. local[c] \in Local
        BY DEF IInv, TypeOK
    <2> QED
        BY ClientAssumption DEF IInv, TypeOK, Local, Access, Header
<1> HIDE DEF locals
<1>4. /\ pc'[c] = step
      /\ local'[c] = IF step = "returned" THEN NoLocal ELSE locals
      /\ \A d \in Call : d # c => pc'[d] = pc[d] /\ local'[d] = local[d]
    <2> HIDE DEF step
    <2> QED
        BY <1>1, <1>2, <1>3, GotoEffect DEF IInv
<1>5. CallsAreInOrder'
    BY <1>3, <1>4 DEF IInv, CallsAreInOrder
<1>6. HeaderIsOlder'
    BY <1>1, <1>3, <1>4, ClientAssumption DEF IInv, TypeOK, HeaderIsOlder, NoLocal, token
<1>7. /\ TypeOK' /\ LockIsHeld' /\ RefreshOnlyWhenAged' /\ AnswerIsNewer' /\ GrantsFit'
      /\ KeychainIsCurrent' /\ KeychainIsOfOneGrant'
    <2> HIDE DEF step
    <2> QED
        BY <1>1, <1>2, <1>3, OutsideRefresh
<1> QED
    BY <1>5, <1>6, <1>7 DEF IInv

\* The locals of a call after an attempt: it had one left.
LEMMA AttemptLocals ==
    ASSUME IInv, NEW c \in Call, pc[c] = "sending"
    PROVE  LET locals == [local[c] EXCEPT !.attempts = @ + 1] IN
           /\ locals \in Local
           /\ locals.attempts = local[c].attempts + 1
           /\ locals.header = local[c].header /\ locals.refreshed = local[c].refreshed
<1>1. local[c] \in Local
    BY DEF IInv, TypeOK
<1>2. local[c].attempts + 1 \in 0..MaxAttempts
    BY <1>1, ClientAssumption DEF IInv, CallsAreInOrder, Local
<1> QED
    BY <1>1, <1>2 DEF Local

LEMMA AnsweredKeeps ==
    ASSUME IInv, NEW c \in Call, Answered(c)
    PROVE  IInv'
<1> DEFINE step == "returned"
           locals == [local[c] EXCEPT !.attempts = @ + 1]
<1>1. /\ Goto(c, step, locals)
      /\ pc[c] \notin Refreshing
      /\ UNCHANGED <<broker, keychain, token, writer, lost, logins>>
    BY DEF Answered, Attempt, Refreshing
<1>2. step \in Step \ Refreshing
    BY DEF Step, Refreshing
<1>3. /\ locals \in Local
      /\ locals.attempts = local[c].attempts + 1
      /\ locals.header = local[c].header /\ locals.refreshed = local[c].refreshed
    BY AttemptLocals DEF Answered, Attempt
<1> HIDE DEF locals
<1>4. /\ pc'[c] = step
      /\ local'[c] = IF step = "returned" THEN NoLocal ELSE locals
      /\ \A d \in Call : d # c => pc'[d] = pc[d] /\ local'[d] = local[d]
    <2> HIDE DEF step
    <2> QED
        BY <1>1, <1>2, <1>3, GotoEffect DEF IInv
<1>5. CallsAreInOrder'
    BY <1>4 DEF IInv, CallsAreInOrder
<1>6. HeaderIsOlder'
    BY <1>1, <1>4, ClientAssumption DEF IInv, TypeOK, HeaderIsOlder, NoLocal, token
<1>7. /\ TypeOK' /\ LockIsHeld' /\ RefreshOnlyWhenAged' /\ AnswerIsNewer' /\ GrantsFit'
      /\ KeychainIsCurrent' /\ KeychainIsOfOneGrant'
    <2> HIDE DEF step
    <2> QED
        BY <1>1, <1>2, <1>3, OutsideRefresh
<1> QED
    BY <1>5, <1>6, <1>7 DEF IInv

LEMMA RetryKeeps ==
    ASSUME IInv, NEW c \in Call, Retry(c)
    PROVE  IInv'
<1> DEFINE step == IF local[c].attempts + 1 < MaxAttempts THEN "sending" ELSE "returned"
           locals == [local[c] EXCEPT !.attempts = @ + 1]
<1>1. /\ Goto(c, step, locals)
      /\ pc[c] \notin Refreshing
      /\ UNCHANGED <<broker, keychain, token, writer, lost, logins>>
    BY DEF Retry, Attempt, Refreshing
<1>2. step \in Step \ Refreshing
    BY DEF Step, Refreshing
<1>3. /\ locals \in Local
      /\ locals.attempts = local[c].attempts + 1
      /\ locals.header = local[c].header /\ locals.refreshed = local[c].refreshed
    BY AttemptLocals DEF Retry, Attempt
<1> HIDE DEF locals
<1>4. /\ pc'[c] = step
      /\ local'[c] = IF step = "returned" THEN NoLocal ELSE locals
      /\ \A d \in Call : d # c => pc'[d] = pc[d] /\ local'[d] = local[d]
    <2> HIDE DEF step
    <2> QED
        BY <1>1, <1>2, <1>3, GotoEffect DEF IInv
<1>5. CallsAreInOrder'
    <2>1. step \notin {"idle"} /\ (step = "sending" => local[c].attempts + 1 < MaxAttempts)
        OBVIOUS
    <2> HIDE DEF step
    <2> QED
        BY <1>3, <1>4, <2>1 DEF IInv, CallsAreInOrder
<1>6. HeaderIsOlder'
    BY <1>1, <1>3, <1>4, ClientAssumption DEF IInv, TypeOK, HeaderIsOlder, NoLocal, token
<1>7. /\ TypeOK' /\ LockIsHeld' /\ RefreshOnlyWhenAged' /\ AnswerIsNewer' /\ GrantsFit'
      /\ KeychainIsCurrent' /\ KeychainIsOfOneGrant'
    <2> HIDE DEF step
    <2> QED
        BY <1>1, <1>2, <1>3, OutsideRefresh
<1> QED
    BY <1>5, <1>6, <1>7 DEF IInv

LEMMA UnauthorizedKeeps ==
    ASSUME IInv, NEW c \in Call, Unauthorized(c)
    PROVE  IInv'
<1> DEFINE step == IF local[c].refreshed THEN "returned" ELSE "locking"
           locals == [local[c] EXCEPT !.attempts = @ + 1]
<1>1. /\ Goto(c, step, locals)
      /\ pc[c] \notin Refreshing
      /\ UNCHANGED <<broker, keychain, token, writer, lost, logins>>
    BY DEF Unauthorized, Attempt, Refreshing
<1>2. step \in Step \ Refreshing
    BY DEF Step, Refreshing
<1>3. /\ locals \in Local
      /\ locals.attempts = local[c].attempts + 1
      /\ locals.header = local[c].header /\ locals.refreshed = local[c].refreshed
    BY AttemptLocals DEF Unauthorized, Attempt
<1> HIDE DEF locals
<1>4. /\ pc'[c] = step
      /\ local'[c] = IF step = "returned" THEN NoLocal ELSE locals
      /\ \A d \in Call : d # c => pc'[d] = pc[d] /\ local'[d] = local[d]
    <2> HIDE DEF step
    <2> QED
        BY <1>1, <1>2, <1>3, GotoEffect DEF IInv
<1>5. CallsAreInOrder'
    BY <1>4 DEF IInv, CallsAreInOrder
<1>6. HeaderIsOlder'
    BY <1>1, <1>3, <1>4, ClientAssumption DEF IInv, TypeOK, HeaderIsOlder, NoLocal, token
<1>7. /\ TypeOK' /\ LockIsHeld' /\ RefreshOnlyWhenAged' /\ AnswerIsNewer' /\ GrantsFit'
      /\ KeychainIsCurrent' /\ KeychainIsOfOneGrant'
    <2> HIDE DEF step
    <2> QED
        BY <1>1, <1>2, <1>3, OutsideRefresh
<1> QED
    BY <1>5, <1>6, <1>7 DEF IInv

\* doTokenRefresh, from the lock to its release.
LEMMA PresentKeeps ==
    ASSUME IInv, NEW c \in Call, Present(c)
    PROVE  IInv'
<1> USE DEF IInv, broker, token, logins
<1> DEFINE locals == [local[c] EXCEPT !.held = keychain.refresh, !.grant = Read]
<1>1. Goto(c, "presenting", locals)
    BY DEF Present
<1>2. /\ locals \in Local
      /\ locals.held = keychain.refresh /\ locals.grant = Read
      /\ locals.header = local[c].header
      /\ locals.attempts = local[c].attempts /\ locals.refreshed = local[c].refreshed
    <2>1. local[c] \in Local
        BY DEF TypeOK
    <2> QED
        BY <2>1 DEF TypeOK, Local, Read
<1> HIDE DEF locals
<1>3. /\ pc' \in [Call -> Step] /\ local' \in [Call -> Local]
      /\ pc'[c] = "presenting" /\ local'[c] = locals
      /\ \A d \in Call : d # c => pc'[d] = pc[d] /\ local'[d] = local[d]
    BY <1>1, <1>2, GotoEffect DEF Step, Refreshing
<1>4. TypeOK'
    BY <1>3 DEF Present, TypeOK
<1>5. LockIsHeld' /\ CallsAreInOrder' /\ RefreshOnlyWhenAged'
    BY <1>2, <1>3, ClientAssumption DEF Present, TypeOK, LockIsHeld, CallsAreInOrder,
        RefreshOnlyWhenAged, Proactive, StillNeeded, Refreshing, LockIsFree
<1>6. AnswerIsNewer'
    BY <1>3 DEF Present, AnswerIsNewer
<1>7. HeaderIsOlder'
    BY <1>2, <1>3 DEF Present, HeaderIsOlder
<1>8. GrantsFit'
    BY <1>2, <1>3 DEF Present, Read, GrantsFit
<1>9. KeychainIsCurrent'
    BY <1>3 DEF Present, KeychainIsCurrent
<1>10. KeychainIsOfOneGrant'
    BY DEF Present, KeychainIsOfOneGrant
<1> QED
    BY <1>4, <1>5, <1>6, <1>7, <1>8, <1>9, <1>10

LEMMA RefreshFailsKeeps ==
    ASSUME IInv, NEW c \in Call, RefreshFails(c)
    PROVE  IInv'
<1> USE DEF IInv, broker, token, logins
<1>1. /\ pc' \in [Call -> Step] /\ local' \in [Call -> Local]
      /\ pc'[c] = "returned" /\ local'[c] = NoLocal
      /\ \A d \in Call : d # c => pc'[d] = pc[d] /\ local'[d] = local[d]
    <2>1. "returned" \in Step /\ Goto(c, "returned", NoLocal)
        BY DEF RefreshFails, Step
    <2> QED
        BY <2>1, NoLocalType, GotoEffect
<1>2. pc[c] \in Refreshing /\ Unlock(c)
    BY DEF RefreshFails
<1>3. /\ writer' \in [Process -> Call \cup {None}]
      /\ writer'[ClientOf[c]] = None
      /\ \A p \in Process : p # ClientOf[c] => writer'[p] = writer[p]
      /\ \A d \in Call : d # c /\ ClientOf[d] = ClientOf[c] => pc[d] \notin Refreshing
    BY <1>2, UnlockEffect
<1>4. TypeOK'
    BY <1>1, <1>3 DEF RefreshFails, TypeOK, Losing
<1>5. LockIsHeld' /\ CallsAreInOrder' /\ RefreshOnlyWhenAged'
    BY <1>1, <1>3, ClientAssumption DEF RefreshFails, LockIsHeld, CallsAreInOrder,
        RefreshOnlyWhenAged, Proactive, Refreshing
<1>6. AnswerIsNewer'
    BY <1>1 DEF RefreshFails, AnswerIsNewer
<1>7. HeaderIsOlder'
    BY <1>1, ClientAssumption DEF RefreshFails, TypeOK, HeaderIsOlder, NoLocal, Access
<1>8. GrantsFit'
    BY <1>1 DEF RefreshFails, GrantsFit, Refreshing
<1>9. KeychainIsCurrent'
    <2>1. UNCHANGED <<broker, keychain>> /\ lost' = Losing({c})
        BY DEF RefreshFails
    <2>2. keychain.grant \in Grant
        BY DEF TypeOK
    <2>3. lost'[keychain.grant] =
              (lost[keychain.grant] \/ (pc[c] = "rotated" /\ local[c].grant = keychain.grant))
        BY <2>1, <2>2 DEF Losing
    <2> QED
        BY <1>1, <2>1, <2>3 DEF KeychainIsCurrent
<1>10. KeychainIsOfOneGrant'
    BY DEF RefreshFails, KeychainIsOfOneGrant
<1> QED
    BY <1>4, <1>5, <1>6, <1>7, <1>8, <1>9, <1>10

LEMMA ReceiveTokenKeeps ==
    ASSUME IInv, NEW c \in Call, ReceiveToken(c)
    PROVE  IInv'
<1> USE DEF IInv, broker, token, logins
<1> DEFINE retried == ~Proactive(c)
           locals == [local[c] EXCEPT !.held = 0, !.grant = "stored", !.refreshed = retried]
<1>1. Goto(c, "injecting", locals)
    BY DEF ReceiveToken
<1>2. /\ locals \in Local
      /\ locals.refreshed = retried
      /\ locals.header = local[c].header /\ locals.attempts = local[c].attempts
    <2>1. local[c] \in Local
        BY DEF TypeOK
    <2>2. retried \in BOOLEAN
        OBVIOUS
    <2> HIDE DEF retried
    <2> QED
        BY ONLY <2>1, <2>2, RefreshedLocals
<1> HIDE DEF locals
<1>3. /\ pc' \in [Call -> Step] /\ local' \in [Call -> Local]
      /\ pc'[c] = "injecting" /\ local'[c] = locals
      /\ \A d \in Call : d # c => pc'[d] = pc[d] /\ local'[d] = local[d]
    BY <1>1, <1>2, GotoEffect DEF Step
<1>4. pc[c] \in Refreshing /\ Unlock(c)
    BY DEF ReceiveToken, Refreshing
<1>5. /\ writer' \in [Process -> Call \cup {None}]
      /\ writer'[ClientOf[c]] = None
      /\ \A p \in Process : p # ClientOf[c] => writer'[p] = writer[p]
      /\ \A d \in Call : d # c /\ ClientOf[d] = ClientOf[c] => pc[d] \notin Refreshing
    BY <1>4, UnlockEffect
<1>6. \/ /\ pc[c] = "rotated"
         /\ keychain'.secret = keychain.secret /\ keychain'.grant = local[c].grant
         /\ keychain'.refresh = brokerRefresh[local[c].grant]
         /\ keychain' \in [secret : Grant, grant : Grant, refresh : Access]
         /\ UNCHANGED lost
      \/ pc[c] = "answered" /\ UNCHANGED <<keychain, lost>>
      \/ pc[c] = "rotated" /\ UNCHANGED keychain /\ lost' = Losing({c})
    <2>1. pc[c] \in {"answered", "rotated"} /\ Persist(c)
        BY DEF ReceiveToken
    <2>2. local[c].grant \in Grant
        BY <2>1 DEF GrantsFit
    <2>3. /\ brokerRefresh[local[c].grant] \in Access
          /\ keychain \in [secret : Grant, grant : Grant, refresh : Access]
        BY <2>2, ClientAssumption DEF TypeOK, Access
    <2> QED
        BY <2>1, <2>2, <2>3 DEF Persist, Saved
<1>7. local[c].grant \in Grant /\ local[c].held \in access[ClientOf[c]] + 1 .. issued
    BY DEF ReceiveToken, GrantsFit, AnswerIsNewer
<1>8. TypeOK'
    <2>1. /\ access' \in [Process -> 0..issued] /\ aged' \in [Process -> BOOLEAN]
          /\ UNCHANGED <<broker, logins>>
        BY <1>7, ClientAssumption DEF ReceiveToken, TypeOK
    <2>2. /\ keychain' \in [secret : Grant, grant : Grant, refresh : Access]
          /\ keychain'.refresh <= brokerRefresh[keychain'.grant]
          /\ lost' \in [Grant -> BOOLEAN]
        <3>1. CASE pc[c] = "rotated" /\ keychain'.grant = local[c].grant
                   /\ keychain'.refresh = brokerRefresh[local[c].grant]
                   /\ keychain' \in [secret : Grant, grant : Grant, refresh : Access]
                   /\ UNCHANGED lost
            BY <3>1 DEF TypeOK
        <3>2. CASE UNCHANGED keychain /\ (UNCHANGED lost \/ lost' = Losing({c}))
            BY <3>2 DEF TypeOK, Losing
        <3> QED
            BY <1>6, <3>1, <3>2
    <2> QED
        BY <1>3, <1>5, <2>1, <2>2 DEF TypeOK
<1>9. LockIsHeld' /\ CallsAreInOrder' /\ RefreshOnlyWhenAged'
    BY <1>3, <1>5, ClientAssumption DEF ReceiveToken, LockIsHeld, CallsAreInOrder,
        RefreshOnlyWhenAged, Proactive, Refreshing
<1>10. AnswerIsNewer'
    BY <1>3, <1>5 DEF ReceiveToken, AnswerIsNewer, Refreshing
<1>11. HeaderIsOlder'
    BY <1>2, <1>3, <1>7, ClientAssumption DEF ReceiveToken, TypeOK, HeaderIsOlder, Local,
        Access
<1>12. GrantsFit'
    <2>1. UNCHANGED <<broker, logins>>
        BY DEF ReceiveToken
    <2>2. /\ keychain'.secret = keychain.secret
          /\ keychain'.grant \in {keychain.grant, local[c].grant}
        BY <1>6
    <2>3. pc[c] \in Refreshing /\ \A d \in Call : pc'[d] \in Refreshing =>
              pc[d] \in Refreshing /\ pc'[d] = pc[d] /\ local'[d] = local[d]
        BY <1>3, <1>4 DEF Refreshing
    <2> QED
        BY <1>7, <2>1, <2>2, <2>3 DEF GrantsFit, Refreshing, Grant
<1>13. KeychainIsCurrent'
    <2>1. UNCHANGED broker
        BY DEF ReceiveToken
    <2>2. CASE /\ keychain'.grant = local[c].grant
               /\ keychain'.refresh = brokerRefresh[local[c].grant]
        BY <2>1, <2>2 DEF KeychainIsCurrent
    <2>3. CASE pc[c] = "answered" /\ UNCHANGED <<keychain, lost>>
        BY <1>3, <2>1, <2>3 DEF KeychainIsCurrent
    <2>4. CASE pc[c] = "rotated" /\ UNCHANGED keychain /\ lost' = Losing({c})
        <3>1. keychain.grant \in Grant
            BY DEF TypeOK
        <3> QED
            BY <1>3, <2>1, <2>4, <3>1 DEF KeychainIsCurrent, Losing
    <2> QED
        BY <1>6, <2>2, <2>3, <2>4
<1>14. KeychainIsOfOneGrant'
    <2>1. UNCHANGED logins
        BY DEF ReceiveToken
    <2> QED
        BY <1>4, <1>6, <2>1 DEF KeychainIsOfOneGrant, GrantsFit, Grant
<1> QED
    BY <1>8, <1>9, <1>10, <1>11, <1>12, <1>13, <1>14

\* The environment.
LEMMA ExchangeKeeps ==
    ASSUME IInv, NEW c \in Call, Exchange(c)
    PROVE  IInv'
<1> USE DEF IInv, broker, token, logins
<1>1. PICK rotate \in BOOLEAN :
        /\ brokerRefresh' = IF rotate THEN [brokerRefresh EXCEPT ![local[c].grant] = @ + 1]
                            ELSE brokerRefresh
        /\ Goto(c, IF rotate THEN "rotated" ELSE "answered", [local[c] EXCEPT !.held = issued + 1])
    BY DEF Exchange
<1> DEFINE step == IF rotate THEN "rotated" ELSE "answered"
           locals == [local[c] EXCEPT !.held = issued + 1]
<1>2. local[c].grant \in Grant /\ local[c].held = brokerRefresh[local[c].grant]
    BY DEF Exchange, TypeOK, Local
<1>3. /\ locals \in Local
      /\ locals.held = issued + 1 /\ locals.grant = local[c].grant
      /\ locals.header = local[c].header /\ locals.attempts = local[c].attempts
      /\ locals.refreshed = local[c].refreshed
    <2>1. local[c] \in Local
        BY DEF TypeOK
    <2> QED
        BY ClientAssumption DEF Exchange, TypeOK, Local, Access
<1> HIDE DEF locals
<1>4. /\ pc' \in [Call -> Step] /\ local' \in [Call -> Local]
      /\ pc'[c] = step /\ local'[c] = locals
      /\ \A d \in Call : d # c => pc'[d] = pc[d] /\ local'[d] = local[d]
    <2>1. step \in Step /\ step # "returned" /\ Goto(c, step, locals)
        BY <1>1 DEF Step, Refreshing, locals
    <2> HIDE DEF step
    <2> QED
        BY <1>3, <2>1, GotoEffect
<1>5. TypeOK'
    BY <1>2, <1>4, ClientAssumption DEF Exchange, TypeOK, Access
<1>6. LockIsHeld' /\ CallsAreInOrder' /\ RefreshOnlyWhenAged'
    BY <1>3, <1>4 DEF Exchange, LockIsHeld, CallsAreInOrder, RefreshOnlyWhenAged, Proactive,
        Refreshing
<1>7. AnswerIsNewer'
    <2>1. /\ issued \in Nat /\ issued' = issued + 1 /\ UNCHANGED access
          /\ access[ClientOf[c]] \in 0..issued
        BY ClientAssumption DEF Exchange, TypeOK, Access
    <2>2. locals.held \in access'[ClientOf[c]] + 1 .. issued'
        BY <1>3, <2>1
    <2>3. ASSUME NEW d \in Call, d # c, pc'[d] \in {"answered", "rotated"}
          PROVE  local'[d].held \in access'[ClientOf[d]] + 1 .. issued'
        <3>1. local[d].held \in access[ClientOf[d]] + 1 .. issued
            BY <1>4, <2>3 DEF AnswerIsNewer
        <3>2. access[ClientOf[d]] \in Nat
            BY ClientAssumption DEF TypeOK
        <3> QED
            BY <1>4, <2>1, <2>3, <3>1
    <2> QED
        BY <1>4, <2>2, <2>3 DEF AnswerIsNewer
<1>8. HeaderIsOlder'
    BY <1>3, <1>4 DEF Exchange, HeaderIsOlder
<1>9. GrantsFit'
    BY <1>2, <1>3, <1>4 DEF Exchange, GrantsFit, Refreshing
<1>10. KeychainIsCurrent'
    BY <1>1, <1>3, <1>4 DEF Exchange, KeychainIsCurrent
<1>11. KeychainIsOfOneGrant'
    BY DEF Exchange, KeychainIsOfOneGrant
<1> QED
    BY <1>5, <1>6, <1>7, <1>8, <1>9, <1>10, <1>11

LEMMA ExpireKeeps ==
    ASSUME IInv, NEW t \in 1..MaxTokens, Expire(t)
    PROVE  IInv'
<1> USE DEF IInv, broker, token, logins
<1>1. TypeOK'
    BY DEF Expire, TypeOK
<1>2. LockIsHeld' /\ CallsAreInOrder' /\ RefreshOnlyWhenAged'
    BY DEF Expire, LockIsHeld, CallsAreInOrder, RefreshOnlyWhenAged, Proactive
<1>3. AnswerIsNewer'
    BY DEF Expire, AnswerIsNewer
<1>4. HeaderIsOlder'
    BY DEF Expire, HeaderIsOlder
<1>5. GrantsFit'
    BY DEF Expire, GrantsFit
<1>6. KeychainIsCurrent'
    BY DEF Expire, KeychainIsCurrent
<1>7. KeychainIsOfOneGrant'
    BY DEF Expire, KeychainIsOfOneGrant
<1> QED
    BY <1>1, <1>2, <1>3, <1>4, <1>5, <1>6, <1>7

LEMMA AgeKeeps ==
    ASSUME IInv, NEW p \in Process, Age(p)
    PROVE  IInv'
<1> USE DEF IInv, broker, token, logins
<1>1. TypeOK'
    BY DEF Age, TypeOK
<1>2. LockIsHeld' /\ CallsAreInOrder' /\ RefreshOnlyWhenAged'
    BY DEF Age, LockIsHeld, CallsAreInOrder, RefreshOnlyWhenAged, Proactive
<1>3. AnswerIsNewer'
    BY DEF Age, AnswerIsNewer
<1>4. HeaderIsOlder'
    BY DEF Age, HeaderIsOlder
<1>5. GrantsFit'
    BY DEF Age, GrantsFit
<1>6. KeychainIsCurrent'
    BY DEF Age, KeychainIsCurrent
<1>7. KeychainIsOfOneGrant'
    BY DEF Age, KeychainIsOfOneGrant
<1> QED
    BY <1>1, <1>2, <1>3, <1>4, <1>5, <1>6, <1>7

LEMMA CrashKeeps ==
    ASSUME IInv, NEW p \in Process, Crash(p)
    PROVE  IInv'
<1> USE DEF IInv, broker, token, logins
<1>1. ASSUME NEW c \in Call
      PROVE  IF ClientOf[c] = p /\ pc[c] \notin {"idle", "returned"}
             THEN pc'[c] = "returned" /\ local'[c] = NoLocal
             ELSE pc'[c] = pc[c] /\ local'[c] = local[c]
    BY DEF Crash
<1>2. /\ access' = [access EXCEPT ![p] = 0] /\ aged' = [aged EXCEPT ![p] = TRUE]
      /\ writer' = [writer EXCEPT ![p] = None]
    BY DEF Crash
<1>3. TypeOK'
    BY NoLocalType DEF Crash, TypeOK, Access, Step, Losing
<1>4. LockIsHeld' /\ CallsAreInOrder' /\ RefreshOnlyWhenAged'
    <2>1. LockIsHeld'
        BY <1>1, <1>2, ClientAssumption DEF LockIsHeld, TypeOK, Refreshing
    <2>2. CallsAreInOrder'
        BY <1>1 DEF CallsAreInOrder
    <2>3. RefreshOnlyWhenAged'
        BY <1>1, <1>2 DEF RefreshOnlyWhenAged, TypeOK, Proactive
    <2> QED
        BY <2>1, <2>2, <2>3
<1>5. AnswerIsNewer'
    BY DEF Crash, AnswerIsNewer
<1>6. HeaderIsOlder'
    BY DEF Crash, TypeOK, HeaderIsOlder, CallsAreInOrder, NoLocal
<1>7. GrantsFit'
    BY DEF Crash, GrantsFit, Refreshing
<1>8. KeychainIsCurrent'
    BY DEF Crash, KeychainIsCurrent, TypeOK, Losing
<1>9. KeychainIsOfOneGrant'
    BY DEF Crash, KeychainIsOfOneGrant
<1> QED
    BY <1>3, <1>4, <1>5, <1>6, <1>7, <1>8, <1>9

\* tt login.
LEMMA LoginExchangeKeeps ==
    ASSUME IInv, LoginExchange
    PROVE  IInv'
<1> USE DEF IInv, broker, token, logins
<1>1. TypeOK'
    BY ClientAssumption DEF LoginExchange, TypeOK, Grant, Access
<1>2. LockIsHeld' /\ CallsAreInOrder' /\ RefreshOnlyWhenAged'
    BY DEF LoginExchange, LockIsHeld, CallsAreInOrder, RefreshOnlyWhenAged, Proactive
<1>3. AnswerIsNewer'
    BY DEF LoginExchange, TypeOK, AnswerIsNewer, Access
<1>4. HeaderIsOlder'
    BY DEF LoginExchange, HeaderIsOlder
<1>5. GrantsFit'
    BY DEF LoginExchange, GrantsFit, TypeOK, Grant
<1>6. KeychainIsCurrent'
    BY DEF LoginExchange, KeychainIsCurrent, GrantsFit
<1>7. KeychainIsOfOneGrant'
    BY DEF LoginExchange, KeychainIsOfOneGrant
<1> QED
    BY <1>1, <1>2, <1>3, <1>4, <1>5, <1>6, <1>7

LEMMA LoginRetriedKeeps ==
    ASSUME IInv, LoginRetried
    PROVE  IInv'
<1> USE DEF IInv, broker, token, logins
<1>1. TypeOK'
    BY DEF LoginRetried, LosesLoginToken, TypeOK
<1>2. LockIsHeld' /\ CallsAreInOrder' /\ RefreshOnlyWhenAged'
    BY DEF LoginRetried, LockIsHeld, CallsAreInOrder, RefreshOnlyWhenAged, Proactive
<1>3. AnswerIsNewer'
    BY DEF LoginRetried, AnswerIsNewer
<1>4. HeaderIsOlder'
    BY DEF LoginRetried, HeaderIsOlder
<1>5. GrantsFit'
    BY DEF LoginRetried, GrantsFit
<1>6. KeychainIsCurrent'
    BY DEF LoginRetried, LosesLoginToken, KeychainIsCurrent, GrantsFit
<1>7. KeychainIsOfOneGrant'
    BY DEF LoginRetried, KeychainIsOfOneGrant
<1> QED
    BY <1>1, <1>2, <1>3, <1>4, <1>5, <1>6, <1>7

LEMMA LoginFailsKeeps ==
    ASSUME IInv, LoginFails
    PROVE  IInv'
<1> USE DEF IInv, broker, token, logins
<1>1. TypeOK'
    BY DEF LoginFails, LosesLoginToken, TypeOK
<1>2. LockIsHeld' /\ CallsAreInOrder' /\ RefreshOnlyWhenAged'
    BY DEF LoginFails, LockIsHeld, CallsAreInOrder, RefreshOnlyWhenAged, Proactive
<1>3. AnswerIsNewer'
    BY DEF LoginFails, AnswerIsNewer
<1>4. HeaderIsOlder'
    BY DEF LoginFails, HeaderIsOlder
<1>5. GrantsFit'
    BY DEF LoginFails, GrantsFit
<1>6. KeychainIsCurrent'
    BY DEF LoginFails, LosesLoginToken, KeychainIsCurrent, GrantsFit
<1>7. KeychainIsOfOneGrant'
    BY DEF LoginFails, KeychainIsOfOneGrant
<1> QED
    BY <1>1, <1>2, <1>3, <1>4, <1>5, <1>6, <1>7

LEMMA StoreSecretKeeps ==
    ASSUME IInv, StoreSecret
    PROVE  IInv'
<1> USE DEF IInv, broker, token, logins
<1>1. TypeOK'
    BY DEF StoreSecret, TypeOK, Grant
<1>2. LockIsHeld' /\ CallsAreInOrder' /\ RefreshOnlyWhenAged'
    BY DEF StoreSecret, LockIsHeld, CallsAreInOrder, RefreshOnlyWhenAged, Proactive
<1>3. AnswerIsNewer'
    BY DEF StoreSecret, AnswerIsNewer
<1>4. HeaderIsOlder'
    BY DEF StoreSecret, HeaderIsOlder
<1>5. GrantsFit'
    BY DEF StoreSecret, GrantsFit
<1>6. KeychainIsCurrent'
    BY DEF StoreSecret, KeychainIsCurrent
<1>7. KeychainIsOfOneGrant'
    BY DEF StoreSecret, KeychainIsOfOneGrant
<1> QED
    BY <1>1, <1>2, <1>3, <1>4, <1>5, <1>6, <1>7

LEMMA StoreRefreshKeeps ==
    ASSUME IInv, StoreRefresh
    PROVE  IInv'
<1> USE DEF IInv, broker, token, logins
<1>1. /\ keychain' \in [secret : Grant, grant : Grant, refresh : Access]
      /\ keychain'.secret = "entered" /\ keychain'.grant = "entered"
      /\ keychain'.refresh = brokerRefresh["entered"]
    <2>1. /\ keychain' = [keychain EXCEPT !.grant = "entered", !.refresh = loginHeld]
          /\ keychain.secret = "entered"
          /\ loginHeld = brokerRefresh["entered"]
        BY DEF StoreRefresh, GrantsFit
    <2>2. /\ keychain \in [secret : Grant, grant : Grant, refresh : Access]
          /\ brokerRefresh["entered"] \in Access
        BY ClientAssumption DEF TypeOK, Grant, Access
    <2> QED
        BY <2>1, <2>2
<1>2. TypeOK'
    BY <1>1 DEF StoreRefresh, TypeOK
<1>3. LockIsHeld' /\ CallsAreInOrder' /\ RefreshOnlyWhenAged'
    BY DEF StoreRefresh, LockIsHeld, CallsAreInOrder, RefreshOnlyWhenAged, Proactive
<1>4. AnswerIsNewer'
    BY DEF StoreRefresh, AnswerIsNewer
<1>5. HeaderIsOlder'
    BY DEF StoreRefresh, HeaderIsOlder
<1>6. GrantsFit'
    BY DEF StoreRefresh, GrantsFit
<1>7. KeychainIsCurrent'
    BY <1>1 DEF StoreRefresh, KeychainIsCurrent
<1>8. KeychainIsOfOneGrant'
    BY <1>1 DEF KeychainIsOfOneGrant
<1> QED
    BY <1>2, <1>3, <1>4, <1>5, <1>6, <1>7, <1>8

-----------------------------------------------------------------------------

LEMMA NextKeeps ==
    ASSUME IInv, [Next]_vars
    PROVE  IInv'
<1>1. ASSUME NEW c \in Call, Do(c) \/ Exchange(c)
      PROVE  IInv'
    BY <1>1, StartKeeps, PresentKeeps, FindFreshKeeps, RefreshFailsKeeps, ReceiveTokenKeeps,
        InjectKeeps, AnsweredKeeps, RetryKeeps, UnauthorizedKeeps, ExchangeKeeps DEF Do
<1>2. ASSUME NEW t \in 1..MaxTokens, Expire(t)
      PROVE  IInv'
    BY <1>2, ExpireKeeps
<1>3. ASSUME NEW p \in Process, Age(p) \/ Crash(p)
      PROVE  IInv'
    BY <1>3, AgeKeeps, CrashKeeps
<1>4. ASSUME LoginExchange \/ LoginRetried \/ LoginFails \/ StoreSecret \/ StoreRefresh
      PROVE  IInv'
    BY <1>4, LoginExchangeKeeps, LoginRetriedKeeps, LoginFailsKeeps, StoreSecretKeeps,
        StoreRefreshKeeps
<1>5. CASE UNCHANGED vars
    BY <1>5 DEF vars, broker, token, logins, IInv, TypeOK, LockIsHeld, CallsAreInOrder,
        RefreshOnlyWhenAged, Proactive, AnswerIsNewer, HeaderIsOlder, GrantsFit,
        KeychainIsCurrent, KeychainIsOfOneGrant
<1> QED
    BY <1>1, <1>2, <1>3, <1>4, <1>5 DEF Next

\* IInv holds in every state the client, the broker, crashes and a login reach.
THEOREM Invariance == Spec => []IInv
<1>1. Init => IInv
    BY InitIInv
<1>2. IInv /\ [Next]_vars => IInv'
    BY NextKeeps
<1> QED
    BY <1>1, <1>2, PTL DEF Spec

\* Every variable keeps its type, and the keychain never holds a refresh token
\* the broker has not issued yet.
THEOREM TypeCorrect == Spec => []TypeOK
<1>1. IInv => TypeOK
    BY DEF IInv
<1> QED
    BY <1>1, Invariance, PTL

\* EnsureToken refreshes only an old token: the check under the lock suffices,
\* because only the holder of the lock makes a token young again.
THEOREM RefreshesAreNeeded == Spec => []RefreshOnlyWhenAged
<1>1. IInv => RefreshOnlyWhenAged
    BY DEF IInv
<1> QED
    BY <1>1, Invariance, PTL

\* What the keychain holds is current and of one grant, but for the exceptions
\* KeychainIsUsable names, however processes and a login interleave.
THEOREM KeychainStaysUsable == Spec => []KeychainIsUsable
<1>1. IInv => KeychainIsUsable
    BY DEF IInv, KeychainIsUsable
<1> QED
    BY <1>1, Invariance, PTL

LEMMA NoOlderAccess ==
    ASSUME IInv, [Next]_vars, NEW p \in Process, access'[p] < access[p]
    PROVE  Crash(p)
<1>1. access[p] \in Nat /\ ~(access[p] < access[p])
    BY DEF IInv, TypeOK
<1>2. ASSUME NEW c \in Call, ReceiveToken(c)
      PROVE  FALSE
    <2>1. access' = [access EXCEPT ![ClientOf[c]] = local[c].held]
        BY <1>2 DEF ReceiveToken
    <2>2. local[c].held \in access[ClientOf[c]] + 1 .. issued
        BY <1>2 DEF ReceiveToken, IInv, AnswerIsNewer
    <2> QED
        BY <1>1, <2>1, <2>2
<1>3. ASSUME NEW q \in Process, Crash(q)
      PROVE  Crash(p)
    BY <1>1, <1>3 DEF Crash, IInv, TypeOK
<1>4. CASE UNCHANGED access
    BY <1>1, <1>4
<1>5. ASSUME NEW c \in Call, Do(c) \/ Exchange(c)
      PROVE  UNCHANGED access \/ ReceiveToken(c)
    BY <1>5 DEF Do, Start, Present, FindFresh, RefreshFails, Inject, Answered, Retry,
        Unauthorized, Attempt, Exchange, token
<1>6. ASSUME \/ \E t \in 1..MaxTokens : Expire(t)
             \/ \E q \in Process : Age(q)
             \/ LoginExchange \/ LoginRetried \/ LoginFails \/ StoreSecret \/ StoreRefresh
             \/ UNCHANGED vars
      PROVE  UNCHANGED access
    BY <1>6 DEF Expire, Age, LoginExchange, LoginRetried, LoginFails, StoreSecret,
        StoreRefresh, vars, token
<1> QED
    BY <1>2, <1>3, <1>4, <1>5, <1>6 DEF Next

\* The token in memory is replaced by newer ones only, because the lock is held
\* from before the refresh token is presented until the answer is stored.
THEOREM NeverGoesBack == Spec => AccessNeverGoesBack
<1>1. IInv /\ [Next]_vars => [\A p \in Process : access'[p] < access[p] => Crash(p)]_vars
    BY NoOlderAccess
<1> QED
    BY <1>1, Invariance, PTL DEF Spec, AccessNeverGoesBack

LEMMA RetryIsNewer ==
    ASSUME IInv, [Next]_vars, NEW c \in Call,
           pc[c] = "injecting", pc'[c] = "sending", local[c].refreshed
    PROVE  local'[c].header > local[c].header
<1>1. pc \in [Call -> Step] /\ local \in [Call -> Local]
    BY DEF IInv, TypeOK
<1>2. ASSUME NEW d \in Call, Do(d) \/ Exchange(d)
      PROVE  Inject(c)
    <2>1. \E step : pc' = [pc EXCEPT ![d] = step]
        BY <1>2 DEF Do, Start, Present, FindFresh, RefreshFails, ReceiveToken, Inject,
            Answered, Retry, Unauthorized, Attempt, Exchange, Goto
    <2>2. d = c
        BY <2>1
    <2> QED
        BY <1>2, <2>2 DEF Do, Start, Present, FindFresh, RefreshFails, ReceiveToken,
            Answered, Retry, Unauthorized, Attempt, Exchange, Refreshing
<1>3. ASSUME NEW p \in Process, Crash(p)
      PROVE  FALSE
    BY <1>3 DEF Crash
<1>4. ~UNCHANGED pc
    OBVIOUS
<1>5. Inject(c)
    BY <1>2, <1>3 DEF Next, Expire, Age, LoginExchange, LoginRetried, LoginFails,
        StoreSecret, StoreRefresh, vars
<1>6. local'[c].header = access[ClientOf[c]]
    BY <1>1, <1>5 DEF Inject, Goto, Header
<1> QED
    BY <1>6 DEF IInv, HeaderIsOlder

\* The attempt after a 401 carries a token newer than the rejected one.
THEOREM RetriesUseNewTokens == Spec => RetryUsesNewToken
<1>1. IInv /\ [Next]_vars =>
          [\A c \in Call : pc[c] = "injecting" /\ pc'[c] = "sending" /\ local[c].refreshed
              => local'[c].header > local[c].header]_vars
    BY RetryIsNewer
<1> QED
    BY <1>1, Invariance, PTL DEF Spec, RetryUsesNewToken
=============================================================================
