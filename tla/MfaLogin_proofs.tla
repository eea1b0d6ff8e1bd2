-------------------------- MODULE MfaLogin_proofs --------------------------
(***************************************************************************)
(* What MfaLogin guarantees for any number of calls, users and challenges, *)
(* any timeout and any window of steps.                                    *)
(***************************************************************************)
EXTENDS MfaLogin, TLAPS

Spending == {"user", "code", "record", "grant"}

\* A challenge is with the call that creates it until it is handed out, and
\* challenges are numbered as they are generated.
ChallengesFit ==
  /\ handed \subseteq 1..minted
  /\ stored \subseteq handed
  /\ \A c \in Calls :
       /\ challenge[c] <= minted
       /\ pc[c] \in {"find", "revoke"} \cup Spending => challenge[c] \in handed
       /\ pc[c] = "create" => challenge[c] \notin handed \cup {None}

OneCreates ==
  \A c, d \in Calls :
    pc[c] = "create" /\ pc[d] = "create" /\ challenge[c] = challenge[d] => c = d

\* A challenge is gone once a call is past deleting it, or checked a code on it.
SpentIsGone ==
  /\ \A t \in tried : t \in handed \ stored
  /\ \A c \in Calls : pc[c] \in Spending => challenge[c] \notin stored

Guessing == {"user", "code"}

\* A call that did not race for its challenge is alone with it: no code was
\* checked on it, and nobody is about to check one; once it is past deleting it,
\* nobody else is about to.
AloneUnlessRaced ==
  \A c \in Calls :
    pc[c] \in {"revoke"} \cup Guessing /\ c \notin raced =>
      /\ challenge[c] \notin tried
      /\ \A d \in Calls \ {c} : challenge[d] = challenge[c] =>
           pc[d] \notin Guessing /\ (pc[c] \in Guessing => pc[d] # "revoke")

\* A code about to be recorded belongs to a user and to a step.
DecidingFits ==
  \A c \in Calls :
    /\ Deciding(c) => User(c) \in Users
    /\ pc[c] = "record" => code[c] \in Code /\ code[c] > seen[c]

\* The last used step is the newest accepted.
NewestIsLast(u) ==
  accepted[u] # {} =>
    lastUsedStep[u] \in accepted[u] /\ \A k \in accepted[u] : k <= lastUsedStep[u]

\* For a user without overlapping calls, one call at most is deciding, it read
\* what is still stored, and that is the newest accepted step.
OneDecides ==
  \A u \in Users \ overlapped :
    /\ u \notin replayed
    /\ u \in registered => NewestIsLast(u)
    /\ \A c \in Calls :
         Deciding(c) /\ User(c) = u =>
           /\ NewestIsLast(u)
           /\ seen[c] = lastUsedStep[u]
           /\ \A d \in Calls : Deciding(d) /\ User(d) = u => d = c

IInv ==
  /\ TypeOK
  /\ ChallengesFit
  /\ OneCreates
  /\ SpentIsGone
  /\ AloneUnlessRaced
  /\ DecidingFits
  /\ OneDecides

-----------------------------------------------------------------------------
LEMMA InitIInv == Init => IInv
<1> SUFFICES ASSUME Init
             PROVE  IInv
  OBVIOUS
<1> USE MfaAssumption DEF Init
<1>1. TypeOK
  BY DEF TypeOK, Challenge, Step, None, NoStep
<1>2. ChallengesFit /\ OneCreates /\ SpentIsGone /\ AloneUnlessRaced
  BY DEF ChallengesFit, OneCreates, SpentIsGone, AloneUnlessRaced, Spending, Guessing, None
<1>3. DecidingFits /\ OneDecides
  BY DEF DecidingFits, OneDecides, NewestIsLast, Deciding
<1>4. QED
  BY <1>1, <1>2, <1>3 DEF IInv

-----------------------------------------------------------------------------
(* The steps of one call.                                                  *)

CallAction(c) ==
  \/ \E u \in Users : StartPasswordStage(c, u)
  \/ \E t \in handed, k \in Step : StartMfaStage(c, t, k)
  \/ CreateMfaChallengeToken(c)
  \/ VerifyTemporaryMfaToken(c)
  \/ RevokeTemporaryMfaToken(c)
  \/ FindUserById(c)
  \/ CheckCode(c)
  \/ UpdateLastUsedTotpStep(c)
  \/ Grant(c)
  \/ Fail(c)
  \/ Return(c)

\* Nothing happens to a call.
WorldAction ==
  \/ \E u \in Users : ToggleMfa(u) \/ DeleteUser(u)
  \/ PurgeExpiredMfaChallengeTokens
  \/ Tick
  \/ UNCHANGED vars

LEMMA StepCases ==
  [Next]_vars => WorldAction \/ \E c \in Calls : CallAction(c)
  BY DEF Next, WorldAction, CallAction

LEMMA WorldFits ==
  ASSUME WorldAction
  PROVE  /\ UNCHANGED <<owner, lastUsedStep, minted, handed, callVars, history>>
         /\ stored' \subseteq stored /\ registered' \subseteq registered
  BY DEF WorldAction, ToggleMfa, DeleteUser, PurgeExpiredMfaChallengeTokens, Tick, vars, storeVars

\* What happens to one call leaves the others where they are.
LEMMA OtherCalls ==
  ASSUME TypeOK, NEW c \in Calls, NEW d \in Calls, d # c, CallAction(c)
  PROVE  /\ pc'[d] = pc[d] /\ challenge'[d] = challenge[d]
         /\ code'[d] = code[d] /\ seen'[d] = seen[d]
<1> USE DEF TypeOK, Goto, Answer, Proceed
<1>1. CASE \/ \E u \in Users : StartPasswordStage(c, u)
           \/ \E t \in handed, k \in Step : StartMfaStage(c, t, k)
  BY <1>1 DEF StartPasswordStage, StartMfaStage
<1>2. CASE \/ CreateMfaChallengeToken(c) \/ VerifyTemporaryMfaToken(c)
           \/ RevokeTemporaryMfaToken(c)
  BY <1>2 DEF CreateMfaChallengeToken, VerifyTemporaryMfaToken, RevokeTemporaryMfaToken
<1>3. CASE FindUserById(c)
  BY <1>3 DEF FindUserById
<1>4. CASE CheckCode(c) \/ UpdateLastUsedTotpStep(c)
  BY <1>4 DEF CheckCode, UpdateLastUsedTotpStep
<1>5. CASE Grant(c) \/ Fail(c) \/ Return(c)
  BY <1>5 DEF Grant, Fail, Return
<1>6. QED
  BY <1>1, <1>2, <1>3, <1>4, <1>5 DEF CallAction

\* An answer keeps the types.
LEMMA AnswerFits ==
  ASSUME TypeOK, NEW c \in Calls, NEW result \in Outcome, Answer(c, result)
  PROVE  /\ pc' \in [Calls -> {"idle"} \cup Waiting \cup Outcome]
         /\ challenge' \in [Calls -> Challenge \cup {None}]
         /\ code' \in [Calls -> Step] /\ seen' \in [Calls -> Step]
         /\ raced' \in SUBSET Calls
         /\ pc'[c] = result /\ challenge'[c] = None
  BY DEF TypeOK, Answer, Goto, Step

\* So does a call that goes on.
LEMMA ProceedFits ==
  ASSUME TypeOK, NEW c \in Calls, NEW where \in Waiting \cup {"idle"}, Proceed(c, where)
  PROVE  /\ pc' \in [Calls -> {"idle"} \cup Waiting \cup Outcome]
         /\ challenge' \in [Calls -> Challenge \cup {None}]
         /\ code' \in [Calls -> Step] /\ seen' \in [Calls -> Step]
         /\ raced' \in SUBSET Calls
         /\ pc'[c] = where
  BY DEF TypeOK, Proceed, Goto

LEMMA TypeStep == IInv /\ [Next]_vars => TypeOK'
<1> SUFFICES ASSUME IInv, [Next]_vars
             PROVE  TypeOK'
  OBVIOUS
<1> TypeOK /\ ChallengesFit /\ DecidingFits
  BY DEF IInv
<1> USE MfaAssumption DEF TypeOK, storeVars, history
<1>1. ASSUME NEW c \in Calls, NEW u \in Users, StartPasswordStage(c, u)
      PROVE  TypeOK'
  <2>1. /\ minted + 1 \in Challenge /\ minted + 1 \in 0..MaxChallenges
        /\ now + ChallengeTimeout \in Nat
    BY <1>1 DEF StartPasswordStage, Challenge
  <2>2. QED
    BY <1>1, <2>1 DEF StartPasswordStage, Goto, Waiting
<1>2. ASSUME NEW c \in Calls, NEW t \in handed, NEW k \in Step, StartMfaStage(c, t, k)
      PROVE  TypeOK'
  BY <1>2 DEF StartMfaStage, Goto, Waiting
<1>3. ASSUME NEW c \in Calls, CreateMfaChallengeToken(c)
      PROVE  TypeOK'
  <2>1. challenge[c] \in Challenge
    BY <1>3 DEF CreateMfaChallengeToken, ChallengesFit
  <2>2. QED
    BY <1>3, <2>1, AnswerFits DEF CreateMfaChallengeToken, Outcome
<1>4. ASSUME NEW c \in Calls, VerifyTemporaryMfaToken(c)
      PROVE  TypeOK'
  BY <1>4, AnswerFits, ProceedFits DEF VerifyTemporaryMfaToken, Outcome, Waiting
<1>4a. ASSUME NEW c \in Calls, CheckCode(c)
       PROVE  TypeOK'
  <2>1. tried' \in SUBSET Challenge
    BY <1>4a DEF CheckCode, ChallengesFit, Spending
  <2>2. QED
    BY <1>4a, <2>1, AnswerFits, ProceedFits DEF CheckCode, Outcome, Waiting
<1>5. ASSUME NEW c \in Calls, RevokeTemporaryMfaToken(c)
      PROVE  TypeOK'
  <2>1. raced' \in SUBSET Calls
    BY <1>5 DEF RevokeTemporaryMfaToken, Finders
  <2>2. QED
    BY <1>5, <2>1 DEF RevokeTemporaryMfaToken, Goto, Waiting
<1>6. ASSUME NEW c \in Calls, FindUserById(c)
      PROVE  TypeOK'
  <2>1. CASE \E r \in Outcome : Answer(c, r)
    <3>1. overlapped' \in SUBSET Users
      BY <1>6 DEF FindUserById
    <3>2. QED
      BY <1>6, <2>1, <3>1, AnswerFits DEF FindUserById
  <2>2. CASE /\ User(c) \in registered
             /\ Goto(c, "code") /\ seen' = [seen EXCEPT ![c] = lastUsedStep[User(c)]]
             /\ UNCHANGED <<challenge, code, raced>>
    <3>1. lastUsedStep[User(c)] \in Step
      BY <2>2
    <3>2. overlapped' \in SUBSET Users
      BY <1>6 DEF FindUserById
    <3>3. QED
      BY <1>6, <2>2, <3>1, <3>2 DEF FindUserById, Goto, Waiting
  <2>3. QED
    BY <1>6, <2>1, <2>2 DEF FindUserById, Outcome
<1>7. ASSUME NEW c \in Calls, UpdateLastUsedTotpStep(c)
      PROVE  TypeOK'
  <2>1. User(c) \in Users /\ code[c] \in Code
    BY <1>7 DEF UpdateLastUsedTotpStep, DecidingFits, Deciding
  <2>2. lastUsedStep' \in [Users -> Step]
    BY <1>7 DEF UpdateLastUsedTotpStep
  <2>3. accepted' \in [Users -> SUBSET Code] /\ replayed' \in SUBSET Users
    BY <1>7, <2>1 DEF UpdateLastUsedTotpStep, Accept
  <2>4. /\ pc' \in [Calls -> {"idle"} \cup Waiting \cup Outcome]
        /\ code' \in [Calls -> Step] /\ seen' \in [Calls -> Step]
    BY <1>7 DEF UpdateLastUsedTotpStep, Goto, Waiting, Step
  <2>5. QED
    BY <1>7, <2>2, <2>3, <2>4 DEF UpdateLastUsedTotpStep
<1>8. ASSUME NEW c \in Calls, Grant(c) \/ Fail(c)
      PROVE  TypeOK'
  BY <1>8, AnswerFits DEF Grant, Fail, Outcome
<1>9. ASSUME NEW c \in Calls, Return(c)
      PROVE  TypeOK'
  BY <1>9, ProceedFits DEF Return
<1>10. ASSUME NEW u \in Users, ToggleMfa(u) \/ DeleteUser(u)
       PROVE  TypeOK'
  BY <1>10 DEF ToggleMfa, DeleteUser, callVars
<1>11. CASE PurgeExpiredMfaChallengeTokens \/ Tick
  BY <1>11 DEF PurgeExpiredMfaChallengeTokens, Tick, callVars
<1>12. CASE UNCHANGED vars
  BY <1>12 DEF vars, callVars
<1>13. QED
  BY <1>1, <1>2, <1>3, <1>4, <1>5, <1>6, <1>7, <1>8, <1>9, <1>10, <1>11, <1>12, <1>4a DEF Next

-----------------------------------------------------------------------------
(* The invariant is kept.                                                  *)

\* What never goes back; the owner of a challenge never changes.
LEMMA Progress ==
  ASSUME TypeOK, [Next]_vars
  PROVE  /\ minted \in Nat /\ minted' \in Nat /\ minted <= minted'
         /\ handed \subseteq handed'
         /\ \A t \in 1..minted : owner'[t] = owner[t]
<1> USE MfaAssumption DEF TypeOK, storeVars
<1>1. ASSUME NEW c \in Calls, NEW u \in Users, StartPasswordStage(c, u)
      PROVE  /\ minted' = minted + 1 /\ handed' = handed
             /\ \A t \in 1..minted : owner'[t] = owner[t]
  <2>1. \A t \in 1..minted : t \in Challenge /\ t # minted + 1
    BY DEF Challenge
  <2>2. QED
    BY <1>1, <2>1 DEF StartPasswordStage
<1>2. ASSUME NEW c \in Calls, CallAction(c), ~(\E u \in Users : StartPasswordStage(c, u))
      PROVE  minted' = minted /\ owner' = owner /\ handed \subseteq handed'
  <2>1. CASE \E t \in handed, k \in Step : StartMfaStage(c, t, k)
    BY <2>1 DEF StartMfaStage
  <2>2. CASE \/ CreateMfaChallengeToken(c) \/ VerifyTemporaryMfaToken(c)
             \/ RevokeTemporaryMfaToken(c) \/ FindUserById(c)
    BY <2>2 DEF CreateMfaChallengeToken, VerifyTemporaryMfaToken, RevokeTemporaryMfaToken,
                FindUserById
  <2>3. CASE CheckCode(c) \/ UpdateLastUsedTotpStep(c) \/ Grant(c) \/ Fail(c) \/ Return(c)
    BY <2>3 DEF CheckCode, UpdateLastUsedTotpStep, Grant, Fail, Return
  <2>4. QED
    BY <1>2, <2>1, <2>2, <2>3 DEF CallAction
<1>3. minted \in Nat
  OBVIOUS
<1>4. QED
  BY <1>1, <1>2, <1>3, WorldFits, StepCases

LEMMA Numbers ==
  ASSUME TypeOK
  PROVE  \A c \in Calls : challenge[c] \in Nat
<1>1. Challenge \cup {None} \subseteq Nat
  BY DEF Challenge, None
<1>2. QED
  BY <1>1 DEF TypeOK

\* The user of a challenge that a call was given stays the same.
LEMMA UserStays ==
  ASSUME TypeOK, ChallengesFit, [Next]_vars, NEW c \in Calls, challenge[c] # None,
         challenge'[c] = challenge[c]
  PROVE  User(c)' = User(c)
<1>1. challenge[c] \in 1..minted
  BY Numbers, Progress DEF ChallengesFit, None
<1>2. QED
  BY <1>1, Progress DEF User

\* Challenges get into the store, and to a client, by being created.
LEMMA StoreStep ==
  ASSUME IInv, [Next]_vars
  PROVE  \/ stored' \subseteq stored /\ handed' = handed
         \/ \E c \in Calls : /\ pc[c] = "create" /\ CreateMfaChallengeToken(c)
                             /\ stored' = stored \cup {challenge[c]}
                             /\ handed' = handed \cup {challenge[c]}
<1> USE DEF storeVars
<1>1. ASSUME NEW c \in Calls, CallAction(c), ~CreateMfaChallengeToken(c)
      PROVE  stored' \subseteq stored /\ handed' = handed
  <2>1. CASE \/ \E u \in Users : StartPasswordStage(c, u)
             \/ \E t \in handed, k \in Step : StartMfaStage(c, t, k)
    BY <2>1 DEF StartPasswordStage, StartMfaStage
  <2>2. CASE VerifyTemporaryMfaToken(c) \/ RevokeTemporaryMfaToken(c) \/ FindUserById(c)
    BY <2>2 DEF VerifyTemporaryMfaToken, RevokeTemporaryMfaToken, FindUserById
  <2>3. CASE CheckCode(c) \/ UpdateLastUsedTotpStep(c) \/ Grant(c) \/ Fail(c) \/ Return(c)
    BY <2>3 DEF CheckCode, UpdateLastUsedTotpStep, Grant, Fail, Return
  <2>4. QED
    BY <1>1, <2>1, <2>2, <2>3 DEF CallAction
<1>2. ASSUME NEW c \in Calls, CreateMfaChallengeToken(c)
      PROVE  /\ pc[c] = "create" /\ stored' = stored \cup {challenge[c]}
             /\ handed' = handed \cup {challenge[c]}
  BY <1>2 DEF CreateMfaChallengeToken
<1>3. QED
  BY <1>1, <1>2, WorldFits, StepCases

\* Where the challenge of a call comes from.
LEMMA OwnChallenge ==
  ASSUME IInv, [Next]_vars, NEW d \in Calls
  PROVE  \/ /\ challenge'[d] = challenge[d]
            /\ pc'[d] = "create" => pc[d] = "create"
            /\ pc'[d] \in {"find", "revoke"} \cup Spending => challenge[d] \in handed
            /\ pc'[d] \in Spending => pc[d] \in Spending \/ RevokeTemporaryMfaToken(d)
         \/ pc'[d] = "create" /\ challenge'[d] = minted + 1 /\ minted' = minted + 1
            /\ handed' = handed /\ minted < MaxChallenges
         \/ pc'[d] = "find" /\ challenge'[d] \in handed
         \/ challenge'[d] = None /\ pc'[d] \in Outcome
<1> TypeOK /\ ChallengesFit
  BY DEF IInv
<1> USE DEF TypeOK, Goto, Answer, Proceed, Spending, ChallengesFit
<1>1. CASE WorldAction
  BY <1>1, WorldFits DEF callVars
<1>2. ASSUME NEW c \in Calls, d # c, CallAction(c)
      PROVE  /\ challenge'[d] = challenge[d] /\ pc'[d] = pc[d]
  BY <1>2, OtherCalls
<1>3. CASE CallAction(d)
  <2>1. CASE \E u \in Users : StartPasswordStage(d, u)
    BY <2>1 DEF StartPasswordStage
  <2>2. CASE \E t \in handed, k \in Step : StartMfaStage(d, t, k)
    BY <2>2 DEF StartMfaStage
  <2>3. CASE CreateMfaChallengeToken(d)
    BY <2>3 DEF CreateMfaChallengeToken, Outcome
  <2>4. CASE VerifyTemporaryMfaToken(d)
    BY <2>4 DEF VerifyTemporaryMfaToken, Outcome
  <2>5. CASE RevokeTemporaryMfaToken(d)
    BY <2>5 DEF RevokeTemporaryMfaToken
  <2>6. CASE FindUserById(d)
    BY <2>6 DEF FindUserById, Outcome
  <2>7. CASE CheckCode(d) \/ UpdateLastUsedTotpStep(d)
    BY <2>7 DEF CheckCode, UpdateLastUsedTotpStep, Outcome
  <2>8. CASE Grant(d) \/ Fail(d)
    BY <2>8 DEF Grant, Fail, Outcome
  <2>9. CASE Return(d)
    BY <2>9 DEF Return
  <2>10. QED
    BY <1>3, <2>1, <2>2, <2>3, <2>4, <2>5, <2>6, <2>7, <2>8, <2>9 DEF CallAction
<1>4. QED
  BY <1>1, <1>2, <1>3, StepCases

LEMMA ChallengesStep == IInv /\ [Next]_vars => ChallengesFit' /\ OneCreates'
<1> SUFFICES ASSUME IInv, [Next]_vars
             PROVE  ChallengesFit' /\ OneCreates'
  OBVIOUS
<1> TypeOK /\ ChallengesFit /\ OneCreates
  BY DEF IInv
<1>1. minted \in Nat /\ minted' \in Nat /\ minted <= minted' /\ 1..minted \subseteq 1..minted'
  BY Progress
<1>2. ASSUME NEW c \in Calls, pc[c] = "create"
      PROVE  challenge[c] \in 1..minted
  BY <1>1, <1>2, Numbers DEF ChallengesFit, None
<1>3. handed' \subseteq 1..minted'
  <2>1. handed \subseteq 1..minted
    BY DEF ChallengesFit
  <2>2. handed' \subseteq 1..minted
    BY <1>2, <2>1, StoreStep
  <2>3. QED
    BY <1>1, <2>2
<1>4. stored' \subseteq handed'
  BY StoreStep DEF ChallengesFit
<1>5. ASSUME NEW d \in Calls
      PROVE  /\ challenge'[d] <= minted'
             /\ pc'[d] \in {"find", "revoke"} \cup Spending => challenge'[d] \in handed'
  <2>1. handed \subseteq handed' /\ handed \subseteq 1..minted' /\ None <= minted'
    BY <1>1, Progress DEF ChallengesFit, None
  <2>2. challenge[d] <= minted' /\ minted + 1 \in Nat
    BY <1>1, Numbers DEF ChallengesFit
  <2>3. CASE challenge'[d] = minted + 1 /\ minted' = minted + 1 /\ pc'[d] = "create"
    <3>1. challenge'[d] <= minted'
      BY <1>1, <2>3
    <3>2. pc'[d] \notin {"find", "revoke"} \cup Spending
      BY <2>3 DEF Spending
    <3>3. QED
      BY <3>1, <3>2
  <2>4. CASE challenge'[d] \in handed /\ pc'[d] = "find"
    <3>1. challenge'[d] \in 1..minted'
      BY <2>1, <2>4
    <3>2. QED
      BY <1>1, <2>1, <2>4, <3>1
  <2>5. CASE challenge'[d] = None /\ pc'[d] \in Outcome
    BY <2>1, <2>5 DEF Outcome, Spending
  <2>6. QED
    BY <2>1, <2>2, <2>3, <2>4, <2>5, OwnChallenge
<1>6. ASSUME NEW d \in Calls, pc'[d] = "create"
      PROVE  \/ pc[d] = "create" /\ challenge'[d] = challenge[d]
             \/ challenge'[d] = minted + 1 /\ pc[d] = "idle" /\ handed' = handed
  <2>1. CASE challenge'[d] = challenge[d] /\ pc[d] = "create"
    BY <2>1
  <2>2. CASE ~(challenge'[d] = challenge[d] /\ pc[d] = "create")
    <3>1. challenge'[d] = minted + 1 /\ handed' = handed
      BY <1>6, <2>2, OwnChallenge DEF Outcome
    <3>2. challenge[d] # minted + 1
      BY <1>1, Numbers DEF ChallengesFit
    <3>3. CallAction(d)
      BY <3>1, <3>2, StepCases, WorldFits, OtherCalls DEF callVars
    <3>4. pc[d] = "idle"
      BY <1>6, <2>2, <3>1, <3>2, <3>3
      DEF CallAction, StartPasswordStage, StartMfaStage, CreateMfaChallengeToken,
          VerifyTemporaryMfaToken, RevokeTemporaryMfaToken, FindUserById, CheckCode,
          UpdateLastUsedTotpStep, Grant, Fail, Return, Goto, Answer, Proceed, TypeOK, Outcome
    <3>5. QED
      BY <3>1, <3>4
  <2>3. QED
    BY <2>1, <2>2
<1>7. ASSUME NEW d \in Calls, pc'[d] = "create"
      PROVE  challenge'[d] \notin handed' \cup {None}
  <2>1. CASE pc[d] = "create" /\ challenge'[d] = challenge[d]
    <3>1. challenge[d] \notin handed \cup {None}
      BY <2>1 DEF ChallengesFit
    <3>2. ASSUME NEW c \in Calls, pc[c] = "create", CreateMfaChallengeToken(c)
          PROVE  challenge[c] # challenge[d]
      <4>1. pc'[c] # "create"
        BY <3>2 DEF CreateMfaChallengeToken, Answer, Goto, TypeOK
      <4>2. c # d
        BY <1>7, <4>1
      <4>3. QED
        BY <2>1, <3>2, <4>2 DEF OneCreates
    <3>3. QED
      BY <2>1, <3>1, <3>2, StoreStep
  <2>2. CASE challenge'[d] = minted + 1 /\ handed' = handed
    <3>1. minted + 1 \notin 1..minted /\ minted + 1 # None
      BY <1>1 DEF None
    <3>2. QED
      BY <2>2, <3>1 DEF ChallengesFit
  <2>3. QED
    BY <1>6, <1>7, <2>1, <2>2
<1>8. ASSUME NEW c \in Calls, NEW d \in Calls, pc'[c] = "create", pc'[d] = "create",
             challenge'[c] = challenge'[d]
      PROVE  c = d
  <2>1. ASSUME NEW e \in Calls, pc[e] = "create"
        PROVE  challenge[e] # minted + 1
    BY <1>1, <1>2, <2>1
  <2>2. CASE pc[c] = "create" /\ pc[d] = "create"
    BY <1>6, <1>8, <2>2 DEF OneCreates
  <2>3. CASE pc[c] = "idle" /\ pc[d] = "idle"
    <3>1. pc'[c] # pc[c] /\ pc'[d] # pc[d]
      BY <1>8, <2>3
    <3>2. QED
      BY <3>1, StepCases, WorldFits, OtherCalls DEF callVars
  <2>4. QED
    BY <1>6, <1>8, <2>1, <2>2, <2>3
<1>9. QED
  BY <1>3, <1>4, <1>5, <1>7, <1>8 DEF ChallengesFit, OneCreates

\* A challenge is tried by a code that is checked.
LEMMA TriedStep ==
  ASSUME IInv, [Next]_vars
  PROVE  \/ tried' = tried
         \/ \E c \in Calls : CheckCode(c) /\ tried' = tried \cup {challenge[c]}
<1> USE DEF history
<1>1. ASSUME NEW c \in Calls, CallAction(c)
      PROVE  tried' = tried \/ (CheckCode(c) /\ tried' = tried \cup {challenge[c]})
  <2>1. CASE \/ \E u \in Users : StartPasswordStage(c, u)
             \/ \E t \in handed, k \in Step : StartMfaStage(c, t, k)
    BY <2>1 DEF StartPasswordStage, StartMfaStage
  <2>2. CASE CreateMfaChallengeToken(c) \/ VerifyTemporaryMfaToken(c) \/ FindUserById(c)
    BY <2>2 DEF CreateMfaChallengeToken, VerifyTemporaryMfaToken, FindUserById
  <2>3. CASE RevokeTemporaryMfaToken(c)
    BY <2>3 DEF RevokeTemporaryMfaToken
  <2>4. CASE CheckCode(c)
    BY <2>4 DEF CheckCode
  <2>5. CASE UpdateLastUsedTotpStep(c) \/ Grant(c) \/ Fail(c) \/ Return(c)
    BY <2>5 DEF UpdateLastUsedTotpStep, Grant, Fail, Return
  <2>6. QED
    BY <1>1, <2>1, <2>2, <2>3, <2>4, <2>5 DEF CallAction
<1>2. QED
  BY <1>1, WorldFits, StepCases

\* That a call raced is forgotten only with its answer.
LEMMA RacedStep ==
  ASSUME TypeOK, [Next]_vars, NEW d \in Calls, d \in raced, d \notin raced'
  PROVE  pc'[d] \in Outcome
<1> USE DEF TypeOK, Answer, Goto, Proceed, Outcome
<1>1. ASSUME NEW c \in Calls, CallAction(c)
      PROVE  pc'[d] \in Outcome
  <2>1. CASE \/ \E u \in Users : StartPasswordStage(c, u)
             \/ \E t \in handed, k \in Step : StartMfaStage(c, t, k)
    BY <2>1 DEF StartPasswordStage, StartMfaStage
  <2>2. CASE CreateMfaChallengeToken(c) \/ VerifyTemporaryMfaToken(c) \/ FindUserById(c)
    BY <2>2 DEF CreateMfaChallengeToken, VerifyTemporaryMfaToken, FindUserById
  <2>3. CASE RevokeTemporaryMfaToken(c)
    BY <2>3 DEF RevokeTemporaryMfaToken
  <2>4. CASE CheckCode(c)
    BY <2>4 DEF CheckCode
  <2>5. CASE UpdateLastUsedTotpStep(c) \/ Grant(c) \/ Fail(c) \/ Return(c)
    BY <2>5 DEF UpdateLastUsedTotpStep, Grant, Fail, Return
  <2>6. QED
    BY <1>1, <2>1, <2>2, <2>3, <2>4, <2>5 DEF CallAction
<1>2. QED
  BY <1>1, WorldFits, StepCases DEF callVars

LEMMA SpentStep == IInv /\ [Next]_vars => SpentIsGone'
<1> SUFFICES ASSUME IInv, [Next]_vars
             PROVE  SpentIsGone'
  OBVIOUS
<1> TypeOK /\ ChallengesFit /\ SpentIsGone
  BY DEF IInv
\* Nothing that was handed out comes back.
<1>1. ASSUME NEW t \in handed \ stored
      PROVE  t \in handed' \ stored'
  <2>1. \A c \in Calls : pc[c] = "create" => challenge[c] # t
    BY DEF ChallengesFit
  <2>2. QED
    BY <2>1, StoreStep, Progress
<1>2. ASSUME NEW t \in tried'
      PROVE  t \in handed' \ stored'
  <2>1. CASE t \in tried
    BY <1>1, <2>1 DEF SpentIsGone
  <2>2. ASSUME NEW c \in Calls, CheckCode(c), t = challenge[c]
        PROVE  t \in handed \ stored
    <3>1. pc[c] \in Spending
      BY <2>2 DEF CheckCode, Spending
    <3>2. QED
      BY <2>2, <3>1 DEF SpentIsGone, ChallengesFit
  <2>3. QED
    BY <1>1, <1>2, <2>1, <2>2, TriedStep
<1>3. ASSUME NEW d \in Calls, pc'[d] \in Spending
      PROVE  challenge'[d] \notin stored'
  <2>1. /\ challenge'[d] = challenge[d] /\ challenge[d] \in handed
        /\ pc[d] \in Spending \/ RevokeTemporaryMfaToken(d)
    BY <1>3, OwnChallenge DEF Spending, Outcome
  <2>2. CASE RevokeTemporaryMfaToken(d)
    BY <2>1, <2>2 DEF RevokeTemporaryMfaToken
  <2>3. CASE pc[d] \in Spending
    BY <1>1, <2>1, <2>3 DEF SpentIsGone
  <2>4. QED
    BY <2>1, <2>2, <2>3
<1>4. QED
  BY <1>2, <1>3 DEF SpentIsGone

\* A call gets to a challenge by finding it, and to the code by deleting it.
LEMMA GuessOrigin ==
  ASSUME IInv, [Next]_vars, NEW d \in Calls, pc'[d] \in {"revoke"} \cup Guessing
  PROVE  /\ challenge'[d] = challenge[d]
         /\ \/ pc[d] \in {"revoke"} \cup Guessing
            \/ VerifyTemporaryMfaToken(d) /\ challenge[d] \in stored
         /\ pc'[d] \in Guessing => pc[d] \in Guessing \/ RevokeTemporaryMfaToken(d)
<1> TypeOK
  BY DEF IInv
<1> USE DEF TypeOK, Goto, Answer, Proceed, Guessing
<1>1. challenge'[d] = challenge[d]
  BY OwnChallenge DEF Outcome
<1>2. CASE UNCHANGED pc[d]
  BY <1>1, <1>2
<1>3. CASE CallAction(d)
  <2>1. \/ VerifyTemporaryMfaToken(d) \/ RevokeTemporaryMfaToken(d) \/ FindUserById(d)
    BY <1>3 DEF CallAction, StartPasswordStage, StartMfaStage, CreateMfaChallengeToken, CheckCode,
       UpdateLastUsedTotpStep, Grant, Fail, Return, Outcome
  <2>2. CASE VerifyTemporaryMfaToken(d)
    BY <1>1, <2>2 DEF VerifyTemporaryMfaToken
  <2>3. CASE RevokeTemporaryMfaToken(d)
    BY <1>1, <2>3 DEF RevokeTemporaryMfaToken
  <2>4. CASE FindUserById(d)
    BY <1>1, <2>4 DEF FindUserById
  <2>5. QED
    BY <2>1, <2>2, <2>3, <2>4
<1>4. QED
  BY <1>2, <1>3, StepCases, WorldFits, OtherCalls DEF callVars

LEMMA AloneStep == IInv /\ [Next]_vars => AloneUnlessRaced'
<1> SUFFICES ASSUME IInv, [Next]_vars, NEW c \in Calls,
                    pc'[c] \in {"revoke"} \cup Guessing, c \notin raced'
             PROVE  /\ challenge'[c] \notin tried'
                    /\ \A d \in Calls \ {c} : challenge'[d] = challenge'[c] =>
                         pc'[d] \notin Guessing /\ (pc'[c] \in Guessing => pc'[d] # "revoke")
  BY DEF AloneUnlessRaced
<1> TypeOK /\ SpentIsGone /\ AloneUnlessRaced
  BY DEF IInv
<1>1. challenge'[c] = challenge[c] /\ c \notin raced
  BY GuessOrigin, RacedStep DEF Guessing, Outcome
<1>2. /\ challenge[c] \notin tried
      /\ \A d \in Calls \ {c} : challenge[d] = challenge[c] => pc[d] \notin Guessing
  <2>1. CASE pc[c] \in {"revoke"} \cup Guessing
    BY <1>1, <2>1 DEF AloneUnlessRaced
  <2>2. CASE challenge[c] \in stored
    BY <2>2 DEF SpentIsGone, Guessing, Spending
  <2>3. QED
    BY <2>1, <2>2, GuessOrigin
<1>3. ASSUME NEW d \in Calls, CheckCode(d)
      PROVE  challenge[d] # challenge[c]
  <2>1. pc[d] \in Guessing
    BY <1>3 DEF CheckCode, Guessing
  <2>2. CASE d = c
    BY <1>3, <2>2 DEF CheckCode, Proceed, Answer, Goto, TypeOK, Guessing
  <2>3. QED
    BY <1>2, <2>1, <2>2
<1>4. challenge'[c] \notin tried'
  BY <1>1, <1>2, <1>3, TriedStep
\* Of two calls that found it, the one that deletes it marks both.
<1>5. ASSUME NEW d \in Calls \ {c}, NEW e \in {c, d}, RevokeTemporaryMfaToken(e),
             pc[c] = "revoke", pc[d] = "revoke", challenge[d] = challenge[c]
      PROVE  FALSE
  <2>1. {c, d} \subseteq Finders(challenge[e])
    BY <1>5 DEF Finders
  <2>2. c \in raced'
    BY <1>5, <2>1 DEF RevokeTemporaryMfaToken
  <2>3. QED
    BY <2>2
<1>6. ASSUME NEW d \in Calls \ {c}, challenge'[d] = challenge'[c], pc'[d] \in Guessing
      PROVE  FALSE
  <2>1. challenge[d] = challenge[c]
    BY <1>1, <1>6, GuessOrigin
  <2>2. RevokeTemporaryMfaToken(d)
    BY <1>2, <1>6, <2>1, GuessOrigin
  <2>3. pc[d] = "revoke" /\ pc[c] = pc'[c]
    BY <2>2, OtherCalls DEF CallAction, RevokeTemporaryMfaToken
  <2>4. pc[c] = "revoke"
    BY <1>1, <2>1, <2>3 DEF AloneUnlessRaced
  <2>5. QED
    BY <1>5, <2>1, <2>2, <2>3, <2>4
<1>7. ASSUME NEW d \in Calls \ {c}, challenge'[d] = challenge'[c], pc'[c] \in Guessing,
             pc'[d] = "revoke"
      PROVE  FALSE
  <2>1. challenge[d] = challenge[c]
    BY <1>1, <1>7, GuessOrigin
  <2>2. CASE RevokeTemporaryMfaToken(c)
    <3>1. pc[c] = "revoke" /\ pc[d] = "revoke"
      BY <1>7, <2>2, OtherCalls DEF CallAction, RevokeTemporaryMfaToken
    <3>2. QED
      BY <1>5, <2>1, <2>2, <3>1
  <2>3. CASE pc[c] \in Guessing
    <3>1. challenge[d] \notin stored /\ pc[d] \notin {"revoke"} \cup Guessing
      BY <1>1, <1>2, <2>1, <2>3 DEF SpentIsGone, AloneUnlessRaced, Guessing, Spending
    <3>2. QED
      BY <1>7, <3>1, GuessOrigin
  <2>4. QED
    BY <1>7, <2>2, <2>3, GuessOrigin
<1>8. QED
  BY <1>4, <1>6, <1>7

\* A call decides because it did before, or has just found its user.
LEMMA DecidingOrigin ==
  ASSUME IInv, [Next]_vars, NEW d \in Calls, Deciding(d)'
  PROVE  /\ User(d)' = User(d)
         /\ \/ Deciding(d) /\ seen'[d] = seen[d]
            \/ /\ FindUserById(d) /\ User(d) \in registered
               /\ pc'[d] = "code" /\ seen'[d] = lastUsedStep[User(d)]
         /\ pc'[d] = "record" => \/ pc[d] = "record" /\ code'[d] = code[d]
                                 \/ CheckCode(d) /\ code'[d] = code[d]
<1> TypeOK /\ ChallengesFit
  BY DEF IInv
<1> USE DEF TypeOK, Deciding
<1>1. User(d)' = User(d)
  <2>1. challenge'[d] = challenge[d] /\ challenge[d] \in handed
    BY OwnChallenge DEF Spending, Outcome
  <2>2. None \notin handed
    BY DEF ChallengesFit, None
  <2>3. QED
    BY <2>1, <2>2, UserStays
<1>2. ASSUME UNCHANGED <<pc[d], seen[d], code[d]>>
      PROVE  Deciding(d) /\ seen'[d] = seen[d]
             /\ (pc'[d] = "record" => pc[d] = "record" /\ code'[d] = code[d])
  BY <1>2
<1>3. CASE WorldAction
  BY <1>1, <1>2, <1>3, WorldFits DEF callVars
<1>4. ASSUME NEW c \in Calls, d # c, CallAction(c)
      PROVE  UNCHANGED <<pc[d], seen[d], code[d]>>
  BY <1>4, OtherCalls
<1>5. CASE CallAction(d)
  <2> USE DEF Goto, Answer, Proceed
  <2>1. FindUserById(d) \/ CheckCode(d)
    BY <1>5 DEF CallAction, StartPasswordStage, StartMfaStage, CreateMfaChallengeToken,
       VerifyTemporaryMfaToken, RevokeTemporaryMfaToken, UpdateLastUsedTotpStep, Grant, Fail,
       Return
  <2>2. CASE FindUserById(d)
    BY <1>1, <2>2 DEF FindUserById
  <2>3. CASE CheckCode(d)
    BY <1>1, <2>3 DEF CheckCode
  <2>4. QED
    BY <2>1, <2>2, <2>3
<1>6. QED
  BY <1>1, <1>2, <1>3, <1>4, <1>5, StepCases

LEMMA DecidingStep == IInv /\ [Next]_vars => DecidingFits'
<1> SUFFICES ASSUME IInv, [Next]_vars, NEW d \in Calls, Deciding(d)'
             PROVE  DecidingFits!(d)'
  BY DEF DecidingFits, Deciding
<1> TypeOK /\ DecidingFits
  BY DEF IInv
<1>1. User(d)' \in Users
  BY DecidingOrigin DEF DecidingFits, TypeOK
<1>2. ASSUME pc'[d] = "record"
      PROVE  code'[d] \in Code /\ code'[d] > seen'[d]
  <2>1. seen'[d] = seen[d] /\ code'[d] = code[d]
    BY <1>2, DecidingOrigin
  <2>2. CASE pc[d] = "record"
    BY <2>1, <2>2 DEF DecidingFits
  <2>3. CASE CheckCode(d)
    <3>1. Matches(code[d]) /\ ~(seen[d] # NoStep /\ code[d] <= seen[d])
      BY <1>2, <2>3 DEF CheckCode, Answer, Goto, TypeOK
    <3>2. code[d] \in Code /\ code[d] \in Nat
      BY <3>1, MfaAssumption DEF Matches, Code
    <3>3. seen[d] \in Int
      BY MfaAssumption DEF TypeOK, Step, Code, NoStep
    <3>4. code[d] > seen[d]
      BY <3>1, <3>2, <3>3 DEF NoStep
    <3>5. QED
      BY <2>1, <3>2, <3>4
  <2>4. QED
    BY <1>2, <2>2, <2>3, DecidingOrigin
<1>3. QED
  BY <1>1, <1>2

\* What is known of the codes of a user changes with a code that is recorded.
LEMMA CodesStep ==
  ASSUME IInv, [Next]_vars
  PROVE  /\ overlapped \subseteq overlapped' /\ registered' \subseteq registered
         /\ \/ \E c \in Calls : UpdateLastUsedTotpStep(c)
            \/ UNCHANGED <<lastUsedStep, accepted, replayed>>
<1> USE DEF storeVars, history
<1>1. ASSUME NEW c \in Calls, CallAction(c)
      PROVE  /\ overlapped \subseteq overlapped' /\ registered' = registered
             /\ UpdateLastUsedTotpStep(c) \/ UNCHANGED <<lastUsedStep, accepted, replayed>>
  <2>1. CASE \/ \E u \in Users : StartPasswordStage(c, u)
             \/ \E t \in handed, k \in Step : StartMfaStage(c, t, k)
    BY <2>1 DEF StartPasswordStage, StartMfaStage
  <2>2. CASE \/ CreateMfaChallengeToken(c) \/ VerifyTemporaryMfaToken(c)
             \/ RevokeTemporaryMfaToken(c) \/ FindUserById(c)
    BY <2>2 DEF CreateMfaChallengeToken, VerifyTemporaryMfaToken, RevokeTemporaryMfaToken,
                FindUserById
  <2>3. CASE CheckCode(c) \/ Grant(c) \/ Fail(c) \/ Return(c)
    BY <2>3 DEF CheckCode, Grant, Fail, Return
  <2>4. CASE UpdateLastUsedTotpStep(c)
    BY <2>4 DEF UpdateLastUsedTotpStep
  <2>5. QED
    BY <1>1, <2>1, <2>2, <2>3, <2>4 DEF CallAction
<1>2. QED
  BY <1>1, WorldFits, StepCases

LEMMA DecidesStep == IInv /\ [Next]_vars => OneDecides'
<1> SUFFICES ASSUME IInv, [Next]_vars, NEW u \in Users, u \notin overlapped'
             PROVE  OneDecides!(u)'
  BY DEF OneDecides
<1> TypeOK /\ DecidingFits /\ OneDecides
  BY DEF IInv
<1>0. u \notin overlapped /\ registered' \subseteq registered
  BY CodesStep
<1>1. ASSUME NEW c \in Calls, UpdateLastUsedTotpStep(c), User(c) = u
      PROVE  OneDecides!(u)'
  <2>1. pc[c] = "record" /\ Deciding(c) /\ pc'[c] = "grant"
    BY <1>1 DEF UpdateLastUsedTotpStep, Deciding, Goto, TypeOK
  <2>2. code[c] \in Code /\ code[c] > seen[c] /\ Code \subseteq Nat
    BY <2>1, MfaAssumption DEF DecidingFits, Code
  <2>3. /\ NewestIsLast(u) /\ seen[c] = lastUsedStep[u] /\ u \notin replayed
        /\ \A d \in Calls : Deciding(d) /\ User(d) = u => d = c
    BY <1>0, <1>1, <2>1 DEF OneDecides
  <2>4. accepted[u] \subseteq Nat /\ seen[c] \in Int
    BY <2>2, MfaAssumption DEF TypeOK, Step, Code, NoStep
  <2>5. ASSUME NEW k \in accepted[u]
        PROVE  k \in Nat /\ code[c] \in Nat /\ k < code[c]
    <3>1. k \in Nat /\ code[c] \in Nat
      BY <2>2, <2>4
    <3>2. k <= seen[c]
      BY <2>3 DEF NewestIsLast
    <3>3. QED
      BY <2>2, <2>4, <3>1, <3>2
  <2>6. u \notin replayed' /\ accepted'[u] = accepted[u] \cup {code[c]}
    <3>1. ASSUME NEW k \in accepted[u]
          PROVE  ~(code[c] <= k)
      BY <2>5
    <3>2. QED
      BY <1>0, <1>1, <2>3, <3>1 DEF UpdateLastUsedTotpStep, Accept, TypeOK
  <2>7. u \in registered' => NewestIsLast(u)'
    <3>1. u \in registered => lastUsedStep'[u] = code[c]
      BY <1>1 DEF UpdateLastUsedTotpStep
    <3>2. ASSUME NEW k \in accepted[u] \cup {code[c]}
          PROVE  k <= code[c]
      <4>1. code[c] \in Nat
        BY <2>2
      <4>2. QED
        BY <2>5, <4>1
    <3>3. QED
      BY <1>0, <2>6, <3>1, <3>2 DEF NewestIsLast
  <2>8. \A d \in Calls : ~(Deciding(d)' /\ User(d)' = u)
    <3>1. ASSUME NEW d \in Calls, Deciding(d)', User(d)' = u
          PROVE  FALSE
      <4>1. d # c
        BY <2>1, <3>1 DEF Deciding
      <4>2. pc'[d] = pc[d]
        BY <1>1, <4>1, OtherCalls DEF CallAction
      <4>3. Deciding(d) /\ User(d) = u
        BY <3>1, <4>2, DecidingOrigin DEF Deciding
      <4>4. QED
        BY <2>3, <4>1, <4>3
    <3>2. QED
      BY <3>1
  <2>9. QED
    BY <2>6, <2>7, <2>8
<1>2. ASSUME \A c \in Calls : ~(UpdateLastUsedTotpStep(c) /\ User(c) = u)
      PROVE  OneDecides!(u)'
  <2>1. /\ lastUsedStep'[u] = lastUsedStep[u] /\ accepted'[u] = accepted[u]
        /\ u \in replayed' <=> u \in replayed
    <3>1. ASSUME NEW c \in Calls, UpdateLastUsedTotpStep(c)
          PROVE  /\ lastUsedStep'[u] = lastUsedStep[u] /\ accepted'[u] = accepted[u]
                 /\ u \in replayed' <=> u \in replayed
      BY <1>2, <3>1 DEF UpdateLastUsedTotpStep, Accept, TypeOK
    <3>2. QED
      BY <3>1, CodesStep
  <2>2. u \notin replayed' /\ (NewestIsLast(u) => NewestIsLast(u)')
    BY <1>0, <2>1 DEF OneDecides, NewestIsLast
  <2>3. u \in registered' => NewestIsLast(u)'
    BY <1>0, <2>2 DEF OneDecides
  <2>4. ASSUME NEW c \in Calls, NEW d \in Calls, d # c, FindUserById(c), Deciding(c)',
               User(c) = u, Deciding(d), User(d) = u
        PROVE  FALSE
    BY <2>4 DEF FindUserById, Answer, Goto, Deciding, Outcome, TypeOK
  <2>5. ASSUME NEW d \in Calls, Deciding(d)', User(d)' = u
        PROVE  /\ NewestIsLast(u)'
               /\ seen'[d] = lastUsedStep'[u]
               /\ \A e \in Calls : Deciding(e)' /\ User(e)' = u => e = d
    <3>1. User(d) = u
      BY <2>5, DecidingOrigin
    <3>2. CASE Deciding(d) /\ seen'[d] = seen[d]
      <4>1. NewestIsLast(u)' /\ seen'[d] = lastUsedStep'[u]
        BY <1>0, <2>1, <2>2, <3>1, <3>2 DEF OneDecides
      <4>2. ASSUME NEW e \in Calls, Deciding(e)', User(e)' = u, e # d
            PROVE  FALSE
        <5>1. User(e) = u
          BY <4>2, DecidingOrigin
        <5>2. ~Deciding(e)
          BY <1>0, <3>1, <3>2, <4>2, <5>1 DEF OneDecides
        <5>3. FindUserById(e)
          BY <4>2, <5>2, DecidingOrigin
        <5>4. QED
          BY <2>4, <3>1, <3>2, <4>2, <5>1, <5>3
      <4>3. QED
        BY <4>1, <4>2
    <3>3. CASE /\ FindUserById(d) /\ User(d) \in registered
               /\ seen'[d] = lastUsedStep[User(d)]
      <4>1. NewestIsLast(u)' /\ seen'[d] = lastUsedStep'[u]
        BY <1>0, <2>1, <2>2, <3>1, <3>3 DEF OneDecides
      <4>2. ASSUME NEW e \in Calls, Deciding(e)', User(e)' = u, e # d
            PROVE  FALSE
        <5>1. pc'[e] = pc[e]
          BY <3>3, <4>2, OtherCalls DEF CallAction
        <5>2. Deciding(e) /\ User(e) = u
          BY <4>2, <5>1, DecidingOrigin DEF Deciding
        <5>3. QED
          BY <2>4, <2>5, <3>1, <3>3, <4>2, <5>2
      <4>3. QED
        BY <4>1, <4>2
    <3>4. QED
      BY <2>5, <3>2, <3>3, DecidingOrigin
  <2>6. QED
    BY <2>2, <2>3, <2>5
<1>3. QED
  BY <1>1, <1>2

-----------------------------------------------------------------------------
(* The theorems.                                                           *)

\* The inductive invariant holds throughout.
THEOREM Invariance == Spec => []IInv
<1>1. IInv /\ [Next]_vars => IInv'
  BY TypeStep, ChallengesStep, SpentStep, AloneStep, DecidingStep, DecidesStep DEF IInv
<1>2. QED
  BY InitIInv, <1>1, PTL DEF Spec

\* Every variable keeps its type; what is stored is always the step of a code.
THEOREM TypeCorrect == Spec => []TypeOK
<1>1. IInv => TypeOK
  BY DEF IInv
<1>2. QED
  BY <1>1, Invariance, PTL

\* A challenge that a code was checked on is never found again; a second code is
\* checked on it only if two calls had found it before it was deleted
\* (login.ts:248-255).
THEOREM SecondGuess == Spec => []SecondGuessNeedsRace
<1>1. ASSUME IInv
      PROVE  tried \cap stored = {}
  BY <1>1 DEF IInv, SpentIsGone
<1>2. ASSUME IInv, NEW c \in Calls, pc[c] = "code", challenge[c] \in tried
      PROVE  c \in raced
  BY <1>2 DEF IInv, AloneUnlessRaced, Guessing
<1>3. IInv => SecondGuessNeedsRace
  BY <1>1, <1>2 DEF SecondGuessNeedsRace
<1>4. QED
  BY <1>3, Invariance, PTL

\* Unless two calls for a user overlap, no code is accepted again or after a
\* newer one (login.ts:257-294).
THEOREM ReplayCause == Spec => []ReplayNeedsOverlap
<1>1. IInv => ReplayNeedsOverlap
  BY DEF IInv, OneDecides, NewestIsLast, ReplayNeedsOverlap
<1>2. QED
  BY <1>1, Invariance, PTL

=============================================================================
