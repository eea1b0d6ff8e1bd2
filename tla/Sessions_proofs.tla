-------------------------- MODULE Sessions_proofs --------------------------
(***************************************************************************)
(* What Sessions guarantees for any number of calls, users, grants and     *)
(* resets, and any lifetime of a session.                                  *)
(***************************************************************************)
EXTENDS Sessions, TLAPS

Until == 0..(MaxTime + Lifetime)
Validating == {"find", "decide", "purge", "extend"}
Resetting == {"update", "sessions", "refresh"}

\* Grants are numbered as they are generated, and stored as they are handed out.
GrantsFit ==
  /\ stored \subseteq handed
  /\ handed \subseteq 1..minted
  /\ \A g \in 1..minted : owner[g] \in Users

\* What a call holds: no login was checked against a password of the future,
\* and a grant is with the login that makes it until it is handed out.
CallsFit ==
  \A c \in Calls :
    /\ pc[c] = "password" => user[c] \in Users /\ seen[c] <= password[user[c]]
    /\ pc[c] = "grant" => item[c] \in (1..minted) \ handed /\ owner[item[c]] = user[c]
    /\ pc[c] \in Validating => item[c] \in handed /\ kind[item[c]] = "session"
    /\ pc[c] \in Resetting => user[c] \in Users

OneGrants ==
  \A c, d \in Calls :
    pc[c] = "grant" /\ pc[d] = "grant" /\ item[c] = item[d] => c = d

\* Two calls that decide on one session have crossed.
CrossingIsSeen ==
  \A c, d \in Calls, g \in Grant :
    Deciding(c, g) /\ Deciding(d, g) /\ g \notin crossed => c = d

\* A call that has crossed no other goes by the expiry that is stored.
SeenFits ==
  \A c \in Calls :
    /\ pc[c] \in {"decide", "purge"} /\ item[c] \notin crossed => seen[c] = expires[item[c]]
    /\ pc[c] = "purge" => now >= seen[c]
    /\ pc[c] = "extend" => seen[c] \in Until
    /\ pc[c] = "extend" /\ item[c] \notin crossed => expires[item[c]] <= seen[c]

Excused == spared \cup late

\* The grants of a kind that were checked against an older password.
Old(k, u) == {g \in OfKind(k, u) : basis[g] < password[u]}

\* Which of them are left at each stage of a reset.
ResetLeaves ==
  \A u \in Users :
    /\ Old("session", u) \subseteq Excused \/ \E c \in Calls : pc[c] = "sessions" /\ user[c] = u
    /\ Old("refresh", u) \subseteq Excused \/ Recovering(u)

IInv ==
  /\ TypeOK
  /\ GrantsFit
  /\ CallsFit
  /\ OneGrants
  /\ CrossingIsSeen
  /\ SeenFits
  /\ LostSessionHasCause
  /\ ResetLeaves

-----------------------------------------------------------------------------
LEMMA InitIInv == Init => IInv
<1> SUFFICES ASSUME Init
             PROVE  IInv
  OBVIOUS
<1> USE SessionAssumption DEF Init
<1>1. TypeOK
  BY DEF TypeOK, Grant, None, Kind
<1>2. GrantsFit /\ CallsFit /\ OneGrants
  BY DEF GrantsFit, CallsFit, OneGrants, Validating, Resetting
<1>3. CrossingIsSeen /\ SeenFits
  BY DEF CrossingIsSeen, SeenFits, Deciding
<1>4. LostSessionHasCause /\ ResetLeaves
  BY DEF LostSessionHasCause, ResetLeaves, Old, OfKind
<1>5. QED
  BY <1>1, <1>2, <1>3, <1>4 DEF IInv

-----------------------------------------------------------------------------
(* The steps of one call.                                                  *)

LoginAction(c) ==
  \/ \E u \in Users : StartLogin(c, u)
  \/ VerifyPassword(c)
  \/ \E g \in Grant : AcceptChallenge(c, g)
  \/ StoreGrant(c)

SessionAction(c) ==
  \/ \E g \in Grant : StartValidate(c, g)
  \/ FindSession(c)
  \/ Decide(c)
  \/ PurgeSession(c)
  \/ ExtendSession(c)

ResetAction(c) ==
  \/ \E u \in Users : StartRecovery(c, u)
  \/ UpdateUser(c)
  \/ UpdateUserInDoubt(c)
  \/ DeleteUserSessions(c)
  \/ RevokeAllRefreshTokens(c)
  \/ RevocationFails(c)

EndAction(c) == Fail(c) \/ Return(c)

CallAction(c) == LoginAction(c) \/ SessionAction(c) \/ ResetAction(c) \/ EndAction(c)

\* Nothing happens to a call.
WorldAction ==
  \/ \E g \in Grant : Logout(g)
  \/ \E u \in Users : DeleteUser(u)
  \/ Tick
  \/ UNCHANGED vars

LEMMA StepCases ==
  [Next]_vars => WorldAction \/ \E c \in Calls : CallAction(c)
  BY DEF Next, WorldAction, CallAction, LoginAction, SessionAction, ResetAction, EndAction

LEMMA WorldFits ==
  ASSUME TypeOK, WorldAction
  PROVE  /\ UNCHANGED <<kind, owner, expires, mfaEnabled, password, minted, callVars, basis,
                        handed, crossed>>
         /\ spared \cap stored' \subseteq spared' /\ spared' \subseteq spared
         /\ late \cap stored' \subseteq late' /\ late' \subseteq late
         /\ stored' \subseteq stored /\ stored \ stored' \subseteq ended'
         /\ ended \subseteq ended' /\ now <= now'
<1>1. CASE \/ \E g \in Grant : Logout(g)
           \/ \E u \in Users : DeleteUser(u)
  BY <1>1 DEF Logout, DeleteUser, Discard, Forget, TypeOK
<1>2. CASE Tick \/ UNCHANGED vars
  BY <1>2 DEF Tick, vars, storeVars, history, TypeOK
<1>3. QED
  BY <1>1, <1>2 DEF WorldAction

\* What happens to one call leaves the others where they are.
LEMMA OtherCalls ==
  ASSUME TypeOK, NEW c \in Calls, NEW d \in Calls, d # c, CallAction(c)
  PROVE  /\ pc'[d] = pc[d] /\ user'[d] = user[d]
         /\ item'[d] = item[d] /\ seen'[d] = seen[d]
<1> USE DEF TypeOK, Goto, Answer, Proceed
<1>1. CASE LoginAction(c)
  BY <1>1 DEF LoginAction, StartLogin, VerifyPassword, AcceptChallenge, StoreGrant, Generate
<1>2. CASE SessionAction(c)
  BY <1>2 DEF SessionAction, StartValidate, FindSession, Decide, PurgeSession, ExtendSession,
              Extend
<1>3. CASE ResetAction(c) \/ EndAction(c)
  BY <1>3 DEF ResetAction, EndAction, StartRecovery, UpdateUser, UpdateUserInDoubt,
              DeleteUserSessions, RevokeAllRefreshTokens, RevocationFails, Fail, Return
<1>4. QED
  BY <1>1, <1>2, <1>3 DEF CallAction

CallTypes ==
  /\ pc' \in [Calls -> {"idle"} \cup Waiting \cup Outcome]
  /\ user' \in [Calls -> Users \cup {None}]
  /\ item' \in [Calls -> Grant \cup {None}]
  /\ seen' \in [Calls -> Nat]

\* An answer keeps the types, and so does a call that goes on.
LEMMA AnswerFits ==
  ASSUME TypeOK, NEW c \in Calls, NEW result \in Outcome, Answer(c, result)
  PROVE  /\ CallTypes /\ pc'[c] = result
         /\ user'[c] = None /\ item'[c] = None /\ seen'[c] = 0
  BY DEF TypeOK, Answer, Goto, CallTypes

LEMMA ProceedFits ==
  ASSUME TypeOK, NEW c \in Calls, NEW where \in Waiting \cup {"idle"}, Proceed(c, where)
  PROVE  /\ CallTypes /\ pc'[c] = where
         /\ user'[c] = user[c] /\ item'[c] = item[c] /\ seen'[c] = seen[c]
  BY DEF TypeOK, Proceed, Goto, CallTypes

\* What is generated is the grant after the last one.
LEMMA GenerateFits ==
  ASSUME TypeOK, NEW c \in Calls, NEW k \in Kind, NEW u \in Users, NEW v \in 0..MaxResets,
         Generate(c, k, u, v)
  PROVE  /\ minted + 1 \in Grant /\ minted' = minted + 1 /\ minted' \in 0..MaxGrants
         /\ kind' \in [Grant -> Kind \cup {"none"}]
         /\ owner' \in [Grant -> Users \cup {None}]
         /\ basis' \in [Grant -> 0..MaxResets]
         /\ expires' \in [Grant -> Until]
         /\ item' \in [Calls -> Grant \cup {None}]
         /\ item'[c] = minted + 1 /\ owner'[minted + 1] = u
         /\ \A g \in Grant : g # minted + 1 =>
              /\ kind'[g] = kind[g] /\ owner'[g] = owner[g]
              /\ basis'[g] = basis[g] /\ expires'[g] = expires[g]
<1> USE SessionAssumption DEF TypeOK
<1>1. minted + 1 \in Grant /\ minted' = minted + 1 /\ minted' \in 0..MaxGrants
  BY DEF Generate, Grant
<1>2. now + Lifetime \in Until /\ 0 \in Until
  BY DEF Until
<1>3. expires' \in [Grant -> Until]
  BY <1>1, <1>2 DEF Generate, Until
<1>4. QED
  BY <1>1, <1>3 DEF Generate

LEMMA TypeStep == IInv /\ [Next]_vars => TypeOK'
<1> SUFFICES ASSUME IInv, [Next]_vars
             PROVE  TypeOK'
  OBVIOUS
<1> TypeOK /\ GrantsFit /\ CallsFit /\ SeenFits
  BY DEF IInv
<1> USE SessionAssumption DEF storeVars, history
<1>1. ASSUME NEW c \in Calls, NEW u \in Users, StartLogin(c, u) \/ StartRecovery(c, u)
      PROVE  TypeOK'
  <2>1. password[u] \in Nat
    BY DEF TypeOK
  <2>2. QED
    BY <1>1, <2>1 DEF StartLogin, StartRecovery, Goto, Waiting, TypeOK
<1>2. ASSUME NEW c \in Calls, VerifyPassword(c)
      PROVE  TypeOK'
  <2>1. user[c] \in Users /\ seen[c] \in 0..MaxResets
    BY <1>2 DEF VerifyPassword, CallsFit, TypeOK
  <2>2. PICK k \in Kind : Generate(c, k, user[c], seen[c])
    BY <1>2 DEF VerifyPassword
  <2>3. pc' \in [Calls -> {"idle"} \cup Waiting \cup Outcome]
    BY <1>2 DEF VerifyPassword, Goto, Waiting, TypeOK
  <2>4. QED
    BY <1>2, <2>1, <2>2, <2>3, GenerateFits DEF VerifyPassword, TypeOK, Until
<1>3. ASSUME NEW c \in Calls, NEW g \in Grant, AcceptChallenge(c, g)
      PROVE  TypeOK'
  <2>1. owner[g] \in Users /\ basis[g] \in 0..MaxResets /\ basis[g] \in Nat
    BY <1>3 DEF AcceptChallenge, TypeOK
  <2>2. PICK k \in Kind : Generate(c, k, owner[g], basis[g])
    BY <1>3 DEF AcceptChallenge, Kind
  <2>3. pc' \in [Calls -> {"idle"} \cup Waiting \cup Outcome]
    BY <1>3 DEF AcceptChallenge, Goto, Waiting, TypeOK
  <2>4. user' \in [Calls -> Users \cup {None}] /\ seen' \in [Calls -> Nat]
    BY <1>3, <2>1 DEF AcceptChallenge, TypeOK
  <2>5. QED
    BY <1>3, <2>1, <2>2, <2>3, <2>4, GenerateFits DEF AcceptChallenge, TypeOK, Until
<1>4. ASSUME NEW c \in Calls, StoreGrant(c)
      PROVE  TypeOK'
  <2>1. item[c] \in Grant /\ user[c] \in Users
    BY <1>4, SMTT(30) DEF StoreGrant, CallsFit, GrantsFit, TypeOK, Grant, None
  <2>2. CallTypes
    BY <1>4, AnswerFits DEF StoreGrant, Outcome
  <2>3. QED
    BY <1>4, <2>1, <2>2 DEF StoreGrant, TypeOK, CallTypes
<1>5. ASSUME NEW c \in Calls, NEW g \in Grant, StartValidate(c, g)
      PROVE  TypeOK'
  BY <1>5 DEF StartValidate, Goto, Waiting, TypeOK
<1>6. ASSUME NEW c \in Calls, FindSession(c)
      PROVE  TypeOK'
  <2>1. item[c] \in Grant
    BY <1>6 DEF FindSession, CallsFit, Validating, TypeOK
  <2>2. expires[item[c]] \in Nat
    BY <2>1 DEF TypeOK
  <2>3. CallTypes
    <3>1. CASE Answer(c, "null")
      BY <3>1, AnswerFits DEF Outcome
    <3>2. CASE Goto(c, "decide") /\ seen' = [seen EXCEPT ![c] = expires[item[c]]]
               /\ UNCHANGED <<user, item>>
      BY <3>2, <2>2 DEF Goto, CallTypes, TypeOK, Waiting
    <3>3. QED
      BY <1>6, <3>1, <3>2 DEF FindSession
  <2>4. crossed' \in SUBSET Grant
    BY <1>6, <2>1 DEF FindSession, TypeOK
  <2>5. QED
    BY <1>6, <2>3, <2>4 DEF FindSession, TypeOK, CallTypes
<1>7. ASSUME NEW c \in Calls, Decide(c)
      PROVE  TypeOK'
  <2>1. CallTypes
    <3>1. CASE Proceed(c, "purge")
      BY <3>1, ProceedFits DEF Waiting
    <3>2. CASE Answer(c, "valid")
      BY <3>2, AnswerFits DEF Outcome
    <3>3. CASE Extend(c, now + Lifetime)
      <4>1. now + Lifetime \in Nat
        BY DEF TypeOK
      <4>2. QED
        BY <3>3, <4>1 DEF Extend, Goto, CallTypes, TypeOK, Waiting
    <3>4. QED
      BY <1>7, <3>1, <3>2, <3>3 DEF Decide
  <2>2. QED
    BY <1>7, <2>1 DEF Decide, TypeOK, CallTypes
<1>8. ASSUME NEW c \in Calls, PurgeSession(c)
      PROVE  TypeOK'
  <2>1. CallTypes
    BY <1>8, AnswerFits DEF PurgeSession, Outcome
  <2>2. QED
    BY <1>8, <2>1 DEF PurgeSession, Forget, TypeOK, CallTypes
<1>9. ASSUME NEW c \in Calls, ExtendSession(c)
      PROVE  TypeOK'
  <2>1. CallTypes
    BY <1>9, AnswerFits DEF ExtendSession, Outcome
  <2>2. seen[c] \in Until
    BY <1>9 DEF ExtendSession, SeenFits
  <2>3. expires' \in [Grant -> Until]
    BY <1>9, <2>2 DEF ExtendSession, TypeOK, Until
  <2>4. QED
    BY <1>9, <2>1, <2>3 DEF ExtendSession, TypeOK, CallTypes, Until
<1>10. ASSUME NEW c \in Calls, UpdateUser(c)
       PROVE  TypeOK'
  <2>1. CallTypes
    BY <1>10, ProceedFits DEF UpdateUser, Waiting
  <2>2. user[c] \in Users
    BY <1>10 DEF UpdateUser, TypeOK
  <2>3. password[user[c]] + 1 \in 0..MaxResets
    BY <1>10, <2>2 DEF UpdateUser, TypeOK
  <2>4. password' \in [Users -> 0..MaxResets]
    BY <1>10, <2>2, <2>3 DEF UpdateUser, TypeOK
  <2>5. QED
    BY <1>10, <2>1, <2>4 DEF UpdateUser, TypeOK, CallTypes
<1>10a. ASSUME NEW c \in Calls, UpdateUserInDoubt(c)
        PROVE  TypeOK'
  <2>1. CallTypes
    BY <1>10a, AnswerFits DEF UpdateUserInDoubt, Outcome
  <2>2. user[c] \in Users
    BY <1>10a DEF UpdateUserInDoubt, TypeOK
  <2>3. password[user[c]] + 1 \in 0..MaxResets
    BY <1>10a, <2>2 DEF UpdateUserInDoubt, TypeOK
  <2>4. password' \in [Users -> 0..MaxResets]
    BY <1>10a, <2>2, <2>3 DEF UpdateUserInDoubt, TypeOK
  <2>5. spared' \in SUBSET Grant
    BY <1>10a DEF UpdateUserInDoubt, SignIns, OfKind, TypeOK
  <2>6. QED
    BY <1>10a, <2>1, <2>4, <2>5 DEF UpdateUserInDoubt, TypeOK, CallTypes
<1>11. ASSUME NEW c \in Calls, DeleteUserSessions(c) \/ RevokeAllRefreshTokens(c)
       PROVE  TypeOK'
  <2>1. CallTypes
    BY <1>11, AnswerFits, ProceedFits
    DEF DeleteUserSessions, RevokeAllRefreshTokens, Waiting, Outcome
  <2>2. /\ stored' \in SUBSET Grant /\ ended' \in SUBSET Grant
        /\ spared' \in SUBSET Grant /\ late' \in SUBSET Grant
    BY <1>11 DEF DeleteUserSessions, RevokeAllRefreshTokens, Discard, Forget, OfKind, TypeOK
  <2>3. QED
    BY <1>11, <2>1, <2>2 DEF DeleteUserSessions, RevokeAllRefreshTokens, TypeOK, CallTypes
<1>12. ASSUME NEW c \in Calls, RevocationFails(c)
       PROVE  TypeOK'
  <2>1. CallTypes
    BY <1>12, AnswerFits DEF RevocationFails, Outcome
  <2>2. spared' \in SUBSET Grant
    BY <1>12 DEF RevocationFails, Outdated, SignIns, OfKind, TypeOK
  <2>3. QED
    BY <1>12, <2>1, <2>2 DEF RevocationFails, TypeOK, CallTypes
<1>13. ASSUME NEW c \in Calls, Fail(c) \/ Return(c)
       PROVE  TypeOK'
  <2>1. CallTypes
    BY <1>13, AnswerFits, ProceedFits DEF Fail, Return, Outcome
  <2>2. QED
    BY <1>13, <2>1 DEF Fail, Return, TypeOK, CallTypes
<1>14. CASE \/ \E g \in Grant : Logout(g)
            \/ \E u \in Users : DeleteUser(u)
  BY <1>14 DEF Logout, DeleteUser, Discard, Forget, callVars, TypeOK
<1>15. CASE Tick
  <2>1. now' \in 0..MaxTime
    BY <1>15 DEF Tick, TypeOK
  <2>2. QED
    BY <1>15, <2>1 DEF Tick, callVars, TypeOK
<1>16. CASE UNCHANGED vars
  BY <1>16 DEF vars, callVars, TypeOK
<1>17. QED
  BY <1>1, <1>2, <1>3, <1>4, <1>5, <1>6, <1>7, <1>8, <1>9, <1>10, <1>10a, <1>11, <1>12, <1>13,
     <1>14, <1>15, <1>16, StepCases
  DEF CallAction, LoginAction, SessionAction, ResetAction, EndAction, WorldAction

-----------------------------------------------------------------------------
(* The parts of the invariant are kept.                                    *)

\* What never goes back; a grant that was generated never changes.
LEMMA Progress ==
  ASSUME IInv, [Next]_vars
  PROVE  /\ minted \in Nat /\ minted' \in Nat /\ minted <= minted' /\ now <= now'
         /\ handed \subseteq handed' /\ ended \subseteq ended' /\ crossed \subseteq crossed'
         /\ spared \cap stored' \subseteq spared' /\ late \cap stored' \subseteq late'
         /\ \A u \in Users : password[u] <= password'[u]
         /\ \A g \in 1..minted : /\ g \in Grant /\ kind'[g] = kind[g]
                                /\ owner'[g] = owner[g] /\ basis'[g] = basis[g]
<1> TypeOK /\ CallsFit
  BY DEF IInv
<1> USE SessionAssumption DEF storeVars
<1>1. /\ minted \in Nat /\ now \in Nat
      /\ \A u \in Users : password[u] \in Nat
      /\ \A g \in 1..minted : g \in Grant /\ g # minted + 1
  BY DEF TypeOK, Grant
<1>2. ASSUME NEW c \in Calls, VerifyPassword(c)
      PROVE  /\ UNCHANGED <<now, password, handed, ended, crossed, spared, late>>
             /\ minted' = minted + 1
             /\ \A g \in 1..minted : /\ kind'[g] = kind[g] /\ owner'[g] = owner[g]
                                    /\ basis'[g] = basis[g]
  <2>1. user[c] \in Users /\ seen[c] \in 0..MaxResets
    BY <1>2 DEF VerifyPassword, CallsFit, TypeOK
  <2>2. QED
    BY <1>1, <1>2, <2>1, GenerateFits DEF VerifyPassword
<1>3. ASSUME NEW c \in Calls, NEW g \in Grant, AcceptChallenge(c, g)
      PROVE  /\ UNCHANGED <<now, password, handed, ended, crossed, spared, late>>
             /\ minted' = minted + 1
             /\ \A h \in 1..minted : /\ kind'[h] = kind[h] /\ owner'[h] = owner[h]
                                    /\ basis'[h] = basis[h]
  <2>1. owner[g] \in Users /\ basis[g] \in 0..MaxResets
    BY <1>3 DEF AcceptChallenge, TypeOK
  <2>2. QED
    BY <1>1, <1>3, <2>1, GenerateFits DEF AcceptChallenge, Kind
<1>4. ASSUME NEW c \in Calls, UpdateUser(c) \/ UpdateUserInDoubt(c)
      PROVE  \A u \in Users : password[u] <= password'[u]
  BY <1>1, <1>4 DEF UpdateUser, UpdateUserInDoubt, TypeOK
<1>5. ASSUME NEW c \in Calls, CallAction(c), ~VerifyPassword(c),
             ~(\E g \in Grant : AcceptChallenge(c, g))
      PROVE  /\ UNCHANGED <<kind, owner, basis, minted, now>>
             /\ password' = password \/ UpdateUser(c) \/ UpdateUserInDoubt(c)
             /\ handed \subseteq handed' /\ ended \subseteq ended' /\ crossed \subseteq crossed'
             /\ spared \cap stored' \subseteq spared' /\ late \cap stored' \subseteq late'
  <2>1. CASE LoginAction(c)
    BY <1>5, <2>1 DEF LoginAction, StartLogin, StoreGrant, history
  <2>2. CASE SessionAction(c)
    BY <2>2 DEF SessionAction, StartValidate, FindSession, Decide, PurgeSession,
                ExtendSession, Forget, history
  <2>3. CASE ResetAction(c) \/ EndAction(c)
    BY <2>3 DEF ResetAction, EndAction, StartRecovery, UpdateUser, UpdateUserInDoubt,
                DeleteUserSessions, RevokeAllRefreshTokens, RevocationFails, Fail, Return,
                Discard, Forget, history
  <2>4. QED
    BY <1>5, <2>1, <2>2, <2>3 DEF CallAction
<1>6. QED
  BY <1>1, <1>2, <1>3, <1>4, <1>5, WorldFits, StepCases

\* Grants get into the store, and to a client, by being stored.
LEMMA StoreStep ==
  ASSUME IInv, [Next]_vars
  PROVE  \/ stored' \subseteq stored /\ handed' = handed
         \/ \E c \in Calls : /\ StoreGrant(c) /\ item[c] \in (1..minted) \ handed
                             /\ stored' = stored \cup {item[c]}
                             /\ handed' = handed \cup {item[c]}
<1> TypeOK /\ CallsFit
  BY DEF IInv
<1> USE DEF storeVars, history
<1>1. ASSUME NEW c \in Calls, CallAction(c), ~StoreGrant(c)
      PROVE  stored' \subseteq stored /\ handed' = handed
  <2>1. CASE LoginAction(c)
    BY <1>1, <2>1 DEF LoginAction, StartLogin, VerifyPassword, AcceptChallenge
  <2>2. CASE SessionAction(c)
    BY <2>2 DEF SessionAction, StartValidate, FindSession, Decide, PurgeSession, ExtendSession
  <2>3. CASE ResetAction(c) \/ EndAction(c)
    BY <2>3 DEF ResetAction, EndAction, StartRecovery, UpdateUser, UpdateUserInDoubt,
                DeleteUserSessions, RevokeAllRefreshTokens, RevocationFails, Fail, Return, Discard
  <2>4. QED
    BY <1>1, <2>1, <2>2, <2>3 DEF CallAction
<1>2. ASSUME NEW c \in Calls, StoreGrant(c)
      PROVE  /\ stored' = stored \cup {item[c]} /\ handed' = handed \cup {item[c]}
             /\ item[c] \in (1..minted) \ handed
  BY <1>2 DEF StoreGrant, CallsFit
<1>3. QED
  BY <1>1, <1>2, WorldFits, StepCases

\* The expiry of a session changes by an extension of it.
LEMMA ExpiryStep ==
  ASSUME IInv, [Next]_vars, NEW g \in 1..minted
  PROVE  \/ expires'[g] = expires[g]
         \/ \E c \in Calls : ExtendSession(c) /\ item[c] = g /\ expires'[g] = seen[c]
<1> TypeOK /\ CallsFit
  BY DEF IInv
<1> USE SessionAssumption DEF storeVars
<1>1. g \in Grant /\ g # minted + 1
  BY DEF TypeOK, Grant
<1>2. ASSUME NEW c \in Calls, VerifyPassword(c)
      PROVE  expires'[g] = expires[g]
  <2>1. user[c] \in Users /\ seen[c] \in 0..MaxResets
    BY <1>2 DEF VerifyPassword, CallsFit, TypeOK
  <2>2. QED
    BY <1>1, <1>2, <2>1, GenerateFits DEF VerifyPassword
<1>3. ASSUME NEW c \in Calls, NEW h \in Grant, AcceptChallenge(c, h)
      PROVE  expires'[g] = expires[g]
  <2>1. owner[h] \in Users /\ basis[h] \in 0..MaxResets
    BY <1>3 DEF AcceptChallenge, TypeOK
  <2>2. QED
    BY <1>1, <1>3, <2>1, GenerateFits DEF AcceptChallenge, Kind
<1>4. ASSUME NEW c \in Calls, ExtendSession(c)
      PROVE  expires'[g] = expires[g] \/ (item[c] = g /\ expires'[g] = seen[c])
  BY <1>1, <1>4 DEF ExtendSession, TypeOK
<1>5. ASSUME NEW c \in Calls, CallAction(c), ~VerifyPassword(c), ~ExtendSession(c),
             ~(\E h \in Grant : AcceptChallenge(c, h))
      PROVE  expires' = expires
  <2>1. CASE LoginAction(c)
    BY <1>5, <2>1 DEF LoginAction, StartLogin, StoreGrant
  <2>2. CASE SessionAction(c)
    BY <1>5, <2>2 DEF SessionAction, StartValidate, FindSession, Decide, PurgeSession
  <2>3. CASE ResetAction(c) \/ EndAction(c)
    BY <2>3 DEF ResetAction, EndAction, StartRecovery, UpdateUser, UpdateUserInDoubt,
                DeleteUserSessions, RevokeAllRefreshTokens, RevocationFails, Fail, Return
  <2>4. QED
    BY <1>5, <2>1, <2>2, <2>3 DEF CallAction
<1>6. QED
  BY <1>2, <1>3, <1>4, <1>5, WorldFits, StepCases

\* How a login gets where it is.
LEMMA LoginOrigin ==
  ASSUME IInv, [Next]_vars, NEW d \in Calls
  PROVE  /\ pc'[d] = "password" =>
              \/ pc[d] = "password" /\ user'[d] = user[d] /\ seen'[d] = seen[d]
              \/ user'[d] \in Users /\ seen'[d] = password[user'[d]] /\ password' = password
         /\ pc'[d] = "grant" =>
              \/ pc[d] = "grant" /\ user'[d] = user[d] /\ item'[d] = item[d]
              \/ /\ minted' = minted + 1 /\ item'[d] = minted + 1 /\ handed' = handed
                 /\ owner'[minted + 1] = user'[d]
<1> TypeOK /\ CallsFit
  BY DEF IInv
<1> USE DEF Goto, Answer, Proceed
<1>1. CASE WorldAction
  BY <1>1, WorldFits DEF callVars
<1>2. ASSUME NEW c \in Calls, d # c, CallAction(c)
      PROVE  /\ pc'[d] = pc[d] /\ user'[d] = user[d]
             /\ item'[d] = item[d] /\ seen'[d] = seen[d]
  BY <1>2, OtherCalls
<1>3. CASE \E u \in Users : StartLogin(d, u)
  BY <1>3 DEF StartLogin, TypeOK, storeVars
<1>4. CASE VerifyPassword(d)
  <2>1. user[d] \in Users /\ seen[d] \in 0..MaxResets
    BY <1>4, SessionAssumption DEF VerifyPassword, CallsFit, TypeOK
  <2>2. QED
    BY <1>4, <2>1, GenerateFits DEF VerifyPassword, TypeOK
<1>5. ASSUME NEW g \in Grant, AcceptChallenge(d, g)
      PROVE  /\ pc'[d] = "grant"
             /\ minted' = minted + 1 /\ item'[d] = minted + 1 /\ handed' = handed
             /\ owner'[minted + 1] = user'[d]
  <2>1. owner[g] \in Users /\ basis[g] \in 0..MaxResets
    BY <1>5 DEF AcceptChallenge, TypeOK
  <2>2. user'[d] = owner[g] /\ pc'[d] = "grant" /\ handed' = handed
    BY <1>5 DEF AcceptChallenge, TypeOK
  <2>3. QED
    BY <1>5, <2>1, <2>2, GenerateFits DEF AcceptChallenge, Kind
<1>6. CASE StoreGrant(d)
  BY <1>6 DEF StoreGrant, TypeOK
<1>7. CASE SessionAction(d)
  BY <1>7 DEF SessionAction, StartValidate, FindSession, Decide, PurgeSession, ExtendSession,
              Extend, TypeOK
<1>8. CASE ResetAction(d) \/ EndAction(d)
  BY <1>8 DEF ResetAction, EndAction, StartRecovery, UpdateUser, UpdateUserInDoubt,
              DeleteUserSessions, RevokeAllRefreshTokens, RevocationFails, Fail, Return, Outcome,
              TypeOK
<1>9. QED
  BY <1>1, <1>2, <1>3, <1>4, <1>5, <1>6, <1>7, <1>8, StepCases DEF CallAction, LoginAction

\* How a validation gets where it is.
LEMMA ValidateOrigin ==
  ASSUME IInv, [Next]_vars, NEW d \in Calls
  PROVE  /\ pc'[d] = "find" =>
              \/ pc[d] = "find" /\ item'[d] = item[d]
              \/ item'[d] \in handed /\ kind[item'[d]] = "session"
         /\ pc'[d] \in {"decide", "purge", "extend"} =>
              /\ item'[d] = item[d]
              /\ \/ pc'[d] = pc[d] /\ seen'[d] = seen[d]
                 \/ /\ FindSession(d) /\ pc[d] = "find" /\ pc'[d] = "decide"
                    /\ seen'[d] = expires[item[d]] /\ expires' = expires
                    /\ (\E c \in Calls \ {d} : Deciding(c, item[d])) => item[d] \in crossed'
                 \/ /\ Decide(d) /\ pc[d] = "decide" /\ pc'[d] = "purge"
                    /\ seen'[d] = seen[d] /\ now >= seen[d] /\ expires' = expires
                 \/ /\ Decide(d) /\ pc[d] = "decide" /\ pc'[d] = "extend"
                    /\ seen'[d] = now + Lifetime /\ expires' = expires
                    /\ now < seen[d] /\ 2 * (seen[d] - now) < Lifetime
<1> TypeOK /\ CallsFit
  BY DEF IInv
<1> USE DEF Goto, Answer, Proceed, TypeOK
<1>1. CASE WorldAction
  BY <1>1, WorldFits DEF callVars
<1>2. ASSUME NEW c \in Calls, d # c, CallAction(c)
      PROVE  /\ pc'[d] = pc[d] /\ item'[d] = item[d] /\ seen'[d] = seen[d]
  BY <1>2, OtherCalls
<1>3. CASE LoginAction(d)
  BY <1>3 DEF LoginAction, StartLogin, VerifyPassword, AcceptChallenge, StoreGrant
<1>4. CASE \E g \in Grant : StartValidate(d, g)
  BY <1>4 DEF StartValidate
<1>5. CASE FindSession(d)
  BY <1>5 DEF FindSession, storeVars
<1>6. CASE Decide(d)
  BY <1>6 DEF Decide, Extend, storeVars
<1>7. CASE PurgeSession(d) \/ ExtendSession(d)
  BY <1>7 DEF PurgeSession, ExtendSession
<1>8. CASE ResetAction(d) \/ EndAction(d)
  BY <1>8 DEF ResetAction, EndAction, StartRecovery, UpdateUser, UpdateUserInDoubt,
              DeleteUserSessions, RevokeAllRefreshTokens, RevocationFails, Fail, Return, Outcome
<1>9. QED
  BY <1>1, <1>2, <1>3, <1>4, <1>5, <1>6, <1>7, <1>8, StepCases
  DEF CallAction, SessionAction

\* A reset has a user, whom it keeps.
LEMMA ResetOrigin ==
  ASSUME IInv, [Next]_vars, NEW d \in Calls
  PROVE  /\ pc'[d] \in Resetting => user'[d] \in Users
         /\ pc[d] \in {"sessions", "refresh"} =>
              \/ pc'[d] = pc[d] /\ user'[d] = user[d]
              \/ DeleteUserSessions(d) /\ pc'[d] = "refresh" /\ user'[d] = user[d]
              \/ RevokeAllRefreshTokens(d) /\ pc[d] = "refresh"
              \/ RevocationFails(d) /\ Outdated(user[d]) \subseteq spared'
<1> TypeOK /\ CallsFit
  BY DEF IInv
<1> USE DEF Goto, Answer, Proceed, TypeOK, Resetting, CallsFit
<1>1. CASE WorldAction
  BY <1>1, WorldFits DEF callVars
<1>2. ASSUME NEW c \in Calls, d # c, CallAction(c)
      PROVE  pc'[d] = pc[d] /\ user'[d] = user[d]
  BY <1>2, OtherCalls
<1>3. CASE LoginAction(d)
  BY <1>3 DEF LoginAction, StartLogin, VerifyPassword, AcceptChallenge, StoreGrant
<1>4. CASE SessionAction(d)
  BY <1>4 DEF SessionAction, StartValidate, FindSession, Decide, PurgeSession, ExtendSession,
              Extend
<1>5. CASE ResetAction(d)
  BY <1>5 DEF ResetAction, StartRecovery, UpdateUser, UpdateUserInDoubt, DeleteUserSessions,
              RevokeAllRefreshTokens, RevocationFails
<1>6. CASE EndAction(d)
  BY <1>6 DEF EndAction, Fail, Return, Outcome, Waiting
<1>7. QED
  BY <1>1, <1>2, <1>3, <1>4, <1>5, <1>6, StepCases DEF CallAction

LEMMA GrantsStep == IInv /\ [Next]_vars => GrantsFit'
<1> SUFFICES ASSUME IInv, [Next]_vars
             PROVE  GrantsFit'
  OBVIOUS
<1> TypeOK /\ GrantsFit /\ CallsFit
  BY DEF IInv
<1>1. stored' \subseteq handed' /\ handed' \subseteq 1..minted
  BY StoreStep DEF GrantsFit
<1>2. 1..minted \subseteq 1..minted'
  BY Progress
<1>3. ASSUME NEW g \in 1..minted'
      PROVE  owner'[g] \in Users
  <2>1. CASE g \in 1..minted
    BY <2>1, Progress DEF GrantsFit
  <2>2. CASE g \notin 1..minted
    <3>1. minted' # minted
      BY <2>2
    <3>2. PICK c \in Calls : VerifyPassword(c) \/ \E h \in Grant : AcceptChallenge(c, h)
      <4>1. ASSUME NEW c \in Calls, CallAction(c), ~VerifyPassword(c),
                   ~(\E h \in Grant : AcceptChallenge(c, h))
            PROVE  minted' = minted
        <5>1. CASE LoginAction(c)
          BY <4>1, <5>1 DEF LoginAction, StartLogin, StoreGrant
        <5>2. CASE SessionAction(c)
          BY <5>2 DEF SessionAction, StartValidate, FindSession, Decide, PurgeSession,
                      ExtendSession
        <5>3. CASE ResetAction(c) \/ EndAction(c)
          BY <5>3 DEF ResetAction, EndAction, StartRecovery, UpdateUser, UpdateUserInDoubt,
                      DeleteUserSessions, RevokeAllRefreshTokens, RevocationFails, Fail, Return
        <5>4. QED
          BY <4>1, <5>1, <5>2, <5>3 DEF CallAction
      <4>2. QED
        BY <3>1, <4>1, WorldFits, StepCases
    <3>3. minted' = minted + 1 /\ owner'[minted + 1] \in Users
      <4>1. CASE VerifyPassword(c)
        <5>1. user[c] \in Users /\ seen[c] \in 0..MaxResets
          BY <4>1, SessionAssumption DEF VerifyPassword, CallsFit, TypeOK
        <5>2. QED
          BY <4>1, <5>1, GenerateFits DEF VerifyPassword
      <4>2. ASSUME NEW h \in Grant, AcceptChallenge(c, h)
            PROVE  minted' = minted + 1 /\ owner'[minted + 1] \in Users
        <5>1. owner[h] \in Users /\ basis[h] \in 0..MaxResets
          BY <4>2 DEF AcceptChallenge, TypeOK
        <5>2. QED
          BY <4>2, <5>1, GenerateFits DEF AcceptChallenge, Kind
      <4>3. QED
        BY <3>2, <4>1, <4>2
    <3>4. g = minted + 1
      BY <2>2, <3>3, Progress
    <3>5. QED
      BY <3>3, <3>4
  <2>3. QED
    BY <2>1, <2>2
<1>4. QED
  BY <1>1, <1>2, <1>3 DEF GrantsFit

LEMMA CallsStep == IInv /\ [Next]_vars => CallsFit'
<1> SUFFICES ASSUME IInv, [Next]_vars, NEW d \in Calls
             PROVE  CallsFit!(d)'
  BY DEF CallsFit
<1> TypeOK /\ GrantsFit /\ CallsFit /\ OneGrants
  BY DEF IInv
<1>1. pc'[d] = "password" => user'[d] \in Users /\ seen'[d] <= password'[user'[d]]
  <2>1. TypeOK'
    BY TypeStep
  <2>2. CASE pc[d] = "password" /\ user'[d] = user[d] /\ seen'[d] = seen[d]
    <3>1. user[d] \in Users /\ seen[d] <= password[user[d]]
      BY <2>2 DEF CallsFit
    <3>2. password[user[d]] <= password'[user[d]]
      BY <3>1, Progress
    <3>3. seen[d] \in Nat /\ password[user[d]] \in Nat /\ password'[user[d]] \in Nat
      BY <2>1, <3>1 DEF TypeOK
    <3>4. QED
      BY <2>2, <3>1, <3>2, <3>3
  <2>3. CASE user'[d] \in Users /\ seen'[d] = password[user'[d]] /\ password' = password
    <3>1. seen'[d] \in Nat
      BY <2>1 DEF TypeOK
    <3>2. QED
      BY <2>3, <3>1
  <2>4. QED
    BY <2>2, <2>3, LoginOrigin
<1>2. pc'[d] = "grant" => item'[d] \in (1..minted') \ handed' /\ owner'[item'[d]] = user'[d]
  <2>1. CASE pc[d] = "grant" /\ pc'[d] = "grant" /\ user'[d] = user[d] /\ item'[d] = item[d]
    <3>1. item[d] \in (1..minted) \ handed /\ owner[item[d]] = user[d]
      BY <2>1 DEF CallsFit
    <3>2. item[d] \in 1..minted' /\ owner'[item[d]] = user[d]
      BY <3>1, Progress
    <3>3. ASSUME NEW c \in Calls, StoreGrant(c)
          PROVE  item[c] # item[d]
      <4>1. pc[c] = "grant" /\ pc'[c] = "success"
        BY <3>3 DEF StoreGrant, Answer, Goto, TypeOK
      <4>2. c # d
        BY <2>1, <4>1
      <4>3. QED
        BY <2>1, <4>1, <4>2 DEF OneGrants
    <3>4. item[d] \notin handed'
      BY <3>1, <3>3, StoreStep
    <3>5. QED
      BY <2>1, <3>2, <3>4
  <2>2. CASE /\ minted' = minted + 1 /\ item'[d] = minted + 1 /\ handed' = handed
             /\ owner'[minted + 1] = user'[d]
    <3>1. minted + 1 \in 1..minted' /\ minted + 1 \notin 1..minted
      BY <2>2, Progress
    <3>2. QED
      BY <2>2, <3>1 DEF GrantsFit
  <2>3. QED
    BY <2>1, <2>2, LoginOrigin
<1>3. pc'[d] \in Validating => item'[d] \in handed' /\ kind'[item'[d]] = "session"
  <2>1. ASSUME pc'[d] \in Validating
        PROVE  item'[d] \in handed /\ kind[item'[d]] = "session"
    <3>1. CASE pc'[d] = "find"
      BY <3>1, ValidateOrigin DEF CallsFit, Validating
    <3>2. CASE pc'[d] \in {"decide", "purge", "extend"}
      <4>1. item'[d] = item[d] /\ pc[d] \in Validating
        BY <3>2, ValidateOrigin DEF Validating
      <4>2. QED
        BY <4>1 DEF CallsFit
    <3>3. QED
      BY <2>1, <3>1, <3>2 DEF Validating
  <2>2. QED
    BY <2>1, Progress DEF GrantsFit
<1>4. pc'[d] \in Resetting => user'[d] \in Users
  BY ResetOrigin
<1>5. QED
  BY <1>1, <1>2, <1>3, <1>4

LEMMA OneGrantsStep == IInv /\ [Next]_vars => OneGrants'
<1> SUFFICES ASSUME IInv, [Next]_vars, NEW c \in Calls, NEW d \in Calls,
                    pc'[c] = "grant", pc'[d] = "grant", item'[c] = item'[d], c # d
             PROVE  FALSE
  BY DEF OneGrants
<1> TypeOK /\ CallsFit /\ OneGrants
  BY DEF IInv
<1>1. CASE pc[c] = "grant" /\ item'[c] = item[c] /\ pc[d] = "grant" /\ item'[d] = item[d]
  BY <1>1 DEF OneGrants
<1>2. ASSUME NEW a \in Calls, pc[a] = "grant", item'[a] = item[a]
      PROVE  item'[a] # minted + 1
  <2>1. item[a] \in 1..minted
    BY <1>2 DEF CallsFit
  <2>2. QED
    BY <1>2, <2>1, Progress
<1>3. CASE ~(pc[c] = "grant" /\ item'[c] = item[c]) /\ ~(pc[d] = "grant" /\ item'[d] = item[d])
  <2>1. /\ ~(pc[c] = "grant" /\ item'[c] = item[c])
        /\ ~(pc[d] = "grant" /\ item'[d] = item[d])
        /\ minted' # minted
    BY <1>3, LoginOrigin, Progress
  <2>2. WorldAction \/ \E a \in Calls : CallAction(a)
    BY StepCases
  <2>3. PICK a \in Calls : CallAction(a)
    BY <2>1, <2>2, WorldFits
  <2>4. PICK b \in {c, d} : b # a
    OBVIOUS
  <2>5. pc'[b] = pc[b] /\ item'[b] = item[b]
    BY <2>3, <2>4, OtherCalls
  <2>6. QED
    BY <2>1, <2>4, <2>5
<1>4. QED
  BY <1>1, <1>2, <1>3, LoginOrigin

\* A call that decides on a session decided on it before, or has just found it.
LEMMA DecidingOrigin ==
  ASSUME IInv, [Next]_vars, NEW d \in Calls, NEW g \in Grant, Deciding(d, g)'
  PROVE  /\ item[d] = g /\ item'[d] = g
         /\ \/ Deciding(d, g)
            \/ /\ FindSession(d) /\ pc[d] = "find"
               /\ (\E c \in Calls \ {d} : Deciding(c, g)) => g \in crossed'
  BY ValidateOrigin DEF Deciding

LEMMA CrossingStep == IInv /\ [Next]_vars => CrossingIsSeen'
<1> SUFFICES ASSUME IInv, [Next]_vars, NEW c \in Calls, NEW d \in Calls, NEW g \in Grant,
                    Deciding(c, g)', Deciding(d, g)', g \notin crossed', c # d
             PROVE  FALSE
  BY DEF CrossingIsSeen
<1> TypeOK /\ CrossingIsSeen
  BY DEF IInv
<1>1. g \notin crossed
  BY Progress
<1>2. CASE Deciding(c, g) /\ Deciding(d, g)
  BY <1>1, <1>2 DEF CrossingIsSeen
<1>3. CASE Deciding(c, g) /\ ~Deciding(d, g)
  BY <1>3, DecidingOrigin
<1>4. CASE ~Deciding(c, g) /\ Deciding(d, g)
  BY <1>4, DecidingOrigin
<1>5. CASE ~Deciding(c, g) /\ ~Deciding(d, g)
  <2>1. FindSession(c) /\ FindSession(d) /\ pc[c] = "find" /\ pc[d] = "find"
    BY <1>5, DecidingOrigin
  <2>2. CallAction(c)
    BY <2>1 DEF CallAction, SessionAction
  <2>3. pc'[d] = "find"
    BY <2>1, <2>2, OtherCalls
  <2>4. QED
    BY <2>3 DEF Deciding
<1>6. QED
  BY <1>2, <1>3, <1>4, <1>5

\* The expiry of a session that one call decides on is left alone by others.
LEMMA ExpiryStays ==
  ASSUME IInv, [Next]_vars, NEW d \in Calls, NEW g \in Grant,
         Deciding(d, g), Deciding(d, g)', g \notin crossed
  PROVE  expires'[g] = expires[g]
<1> TypeOK /\ GrantsFit /\ CallsFit /\ CrossingIsSeen
  BY DEF IInv
<1>1. g \in 1..minted
  BY DEF Deciding, CallsFit, GrantsFit, Validating
<1>2. ASSUME NEW c \in Calls, ExtendSession(c), item[c] = g
      PROVE  FALSE
  <2>1. Deciding(c, g) /\ pc'[c] = "valid"
    BY <1>2 DEF ExtendSession, Deciding, Answer, Goto, TypeOK
  <2>2. c = d
    BY <2>1 DEF CrossingIsSeen
  <2>3. QED
    BY <2>1, <2>2 DEF Deciding
<1>3. QED
  BY <1>1, <1>2, ExpiryStep

LEMMA SeenStep == IInv /\ [Next]_vars => SeenFits'
<1> SUFFICES ASSUME IInv, [Next]_vars, NEW d \in Calls,
                    pc'[d] \in {"decide", "purge", "extend"}
             PROVE  SeenFits!(d)'
  BY DEF SeenFits
<1> TypeOK /\ GrantsFit /\ CallsFit /\ SeenFits
  BY DEF IInv
<1> USE SessionAssumption
<1>1. item'[d] = item[d] /\ item[d] \in Grant
  <2>1. item'[d] = item[d] /\ pc[d] \in Validating
    BY ValidateOrigin DEF Validating
  <2>2. item[d] \in 1..minted
    BY <2>1 DEF CallsFit, GrantsFit
  <2>3. QED
    BY <2>1, <2>2, Progress
<1>2. crossed \subseteq crossed' /\ now <= now' /\ now \in 0..MaxTime /\ now' \in 0..MaxTime
  BY Progress, TypeStep DEF TypeOK
<1>3. expires[item[d]] \in Nat /\ seen[d] \in Nat
  BY <1>1 DEF TypeOK
<1>4. CASE pc'[d] = pc[d] /\ seen'[d] = seen[d]
  <2>1. Deciding(d, item[d]) /\ Deciding(d, item[d])'
    BY <1>1, <1>4 DEF Deciding
  <2>2. item[d] \notin crossed' => expires'[item[d]] = expires[item[d]]
    BY <1>1, <1>2, <2>1, ExpiryStays
  <2>3. pc'[d] = "purge" => now' >= seen'[d]
    <3>1. pc'[d] = "purge" => now >= seen[d]
      BY <1>4 DEF SeenFits
    <3>2. now >= seen[d] => now' >= seen[d]
      BY <1>2, <1>3
    <3>3. QED
      BY <1>4, <3>1, <3>2
  <2>4. item'[d] \notin crossed' => item[d] \notin crossed /\ expires'[item'[d]] = expires[item[d]]
    BY <1>1, <1>2, <2>2
  <2>5. pc'[d] \in {"decide", "purge"} /\ item'[d] \notin crossed' => seen'[d] = expires'[item'[d]]
    BY <1>4, <2>4 DEF SeenFits
  <2>6. pc'[d] = "extend" =>
          seen'[d] \in Until /\ (item'[d] \notin crossed' => expires'[item'[d]] <= seen'[d])
    BY <1>4, <2>4 DEF SeenFits
  <2>7. Until' = Until
    BY DEF Until
  <2>8. QED
    BY <2>3, <2>5, <2>6, <2>7
<1>5. CASE /\ pc'[d] = "decide" /\ seen'[d] = expires[item[d]] /\ expires' = expires
  BY <1>1, <1>5
<1>6. CASE /\ pc[d] = "decide" /\ pc'[d] = "purge"
           /\ seen'[d] = seen[d] /\ now >= seen[d] /\ expires' = expires
  <2>1. now' >= seen'[d]
    BY <1>2, <1>3, <1>6
  <2>2. item'[d] \notin crossed' => seen'[d] = expires'[item'[d]]
    BY <1>1, <1>2, <1>6 DEF SeenFits
  <2>3. QED
    BY <1>6, <2>1, <2>2
<1>7. CASE /\ pc[d] = "decide" /\ pc'[d] = "extend"
           /\ seen'[d] = now + Lifetime /\ expires' = expires
           /\ now < seen[d] /\ 2 * (seen[d] - now) < Lifetime
  <2>1. now + Lifetime \in Until /\ seen[d] <= now + Lifetime
    BY <1>2, <1>3, <1>7 DEF Until
  <2>2. item'[d] \notin crossed' => expires'[item'[d]] <= seen'[d]
    BY <1>1, <1>2, <1>7, <2>1 DEF SeenFits
  <2>3. QED
    BY <1>7, <2>1, <2>2
<1>8. QED
  BY <1>4, <1>5, <1>6, <1>7, ValidateOrigin

\* Why a grant leaves the store.
LEMMA LossStep ==
  ASSUME IInv, [Next]_vars, NEW g \in stored \ stored', kind[g] = "session"
  PROVE  \/ g \in ended'
         \/ \E c \in Calls : PurgeSession(c) /\ item[c] = g
<1> USE DEF storeVars, history
<1>1. CASE WorldAction
  BY <1>1, WorldFits DEF IInv
<1>2. ASSUME NEW c \in Calls, LoginAction(c)
      PROVE  FALSE
  BY <1>2 DEF LoginAction, StartLogin, VerifyPassword, AcceptChallenge, StoreGrant
<1>3. ASSUME NEW c \in Calls, SessionAction(c)
      PROVE  PurgeSession(c) /\ item[c] = g
  BY <1>3 DEF SessionAction, StartValidate, FindSession, Decide, PurgeSession, ExtendSession
<1>4. ASSUME NEW c \in Calls, ResetAction(c) \/ EndAction(c)
      PROVE  g \in ended'
  BY <1>4 DEF ResetAction, EndAction, StartRecovery, UpdateUser, UpdateUserInDoubt,
              DeleteUserSessions, RevokeAllRefreshTokens, RevocationFails, Fail, Return, Discard
<1>5. QED
  BY <1>1, <1>2, <1>3, <1>4, StepCases DEF CallAction

LEMMA LostStep == IInv /\ [Next]_vars => LostSessionHasCause'
<1> SUFFICES ASSUME IInv, [Next]_vars, NEW g \in handed' \ stored',
                    kind'[g] = "session", now' < expires'[g]
             PROVE  g \in ended' \cup crossed'
  BY DEF LostSessionHasCause
<1> TypeOK /\ GrantsFit /\ CallsFit /\ SeenFits /\ LostSessionHasCause
  BY DEF IInv
<1>1. g \in handed
  BY StoreStep
<1>2. g \in 1..minted /\ g \in Grant /\ kind[g] = "session"
  BY <1>1, Progress DEF GrantsFit
<1>3. now \in Nat /\ now' \in Nat /\ now <= now' /\ expires[g] \in Nat
  BY <1>2, Progress, TypeStep DEF TypeOK
<1>4. CASE g \notin stored
  <2>1. expires'[g] = expires[g]
    <3>1. ASSUME NEW c \in Calls, ExtendSession(c), item[c] = g
          PROVE  expires'[g] = expires[g]
      BY <1>2, <1>4, <3>1 DEF ExtendSession, TypeOK
    <3>2. QED
      BY <1>2, <3>1, ExpiryStep
  <2>2. now < expires[g]
    BY <1>3, <2>1
  <2>3. QED
    BY <1>1, <1>2, <1>4, <2>2, Progress DEF LostSessionHasCause
<1>5. CASE g \in stored
  <2>1. ASSUME NEW c \in Calls, PurgeSession(c), item[c] = g
        PROVE  g \in crossed'
    <3>1. pc[c] = "purge" /\ expires' = expires
      BY <2>1 DEF PurgeSession
    <3>2. seen[c] # expires[g]
      <4>1. now >= seen[c] /\ now < expires[g]
        BY <1>3, <3>1 DEF SeenFits
      <4>2. seen[c] \in Nat
        BY DEF TypeOK
      <4>3. QED
        BY <1>3, <4>1, <4>2
    <3>3. g \in crossed
      BY <2>1, <3>1, <3>2 DEF SeenFits
    <3>4. QED
      BY <3>3, Progress
  <2>2. QED
    BY <1>2, <1>5, <2>1, LossStep
<1>6. QED
  BY <1>4, <1>5

\* A password changes by an updateUser, told to have happened or not.
LEMMA PasswordStep ==
  ASSUME TypeOK, [Next]_vars, NEW u \in Users, password'[u] # password[u]
  PROVE  \/ \E c \in Calls : pc'[c] = "sessions" /\ user'[c] = u
         \/ SignIns(u) \subseteq spared'
<1>1. ASSUME NEW c \in Calls, UpdateUser(c)
      PROVE  pc'[c] = "sessions" /\ user'[c] = u
  BY <1>1 DEF UpdateUser, Proceed, Goto, TypeOK
<1>2. ASSUME NEW c \in Calls, UpdateUserInDoubt(c)
      PROVE  SignIns(u) \subseteq spared'
  <2>1. user[c] = u
    BY <1>2 DEF UpdateUserInDoubt, TypeOK
  <2>2. QED
    BY <1>2, <2>1 DEF UpdateUserInDoubt
<1>3. ASSUME NEW c \in Calls, CallAction(c), ~UpdateUser(c), ~UpdateUserInDoubt(c)
      PROVE  password' = password
  <2>1. CASE LoginAction(c)
    BY <2>1 DEF LoginAction, StartLogin, VerifyPassword, AcceptChallenge, StoreGrant, storeVars
  <2>2. CASE SessionAction(c)
    BY <2>2 DEF SessionAction, StartValidate, FindSession, Decide, PurgeSession, ExtendSession,
                storeVars
  <2>3. CASE ResetAction(c) \/ EndAction(c)
    BY <1>3, <2>3 DEF ResetAction, EndAction, StartRecovery, DeleteUserSessions,
                      RevokeAllRefreshTokens, RevocationFails, Fail, Return, storeVars
  <2>4. QED
    BY <1>3, <2>1, <2>2, <2>3 DEF CallAction
<1>4. QED
  BY <1>1, <1>2, <1>3, WorldFits, StepCases

\* A sign-in under an older password was one before, or its user has just been
\* given a new one.
LEMMA OldOrigin ==
  ASSUME IInv, [Next]_vars, NEW u \in Users, NEW k \in {"session", "refresh"},
         NEW g \in Old(k, u)', g \notin Excused'
  PROVE  \/ g \in Old(k, u) \ Excused
         \/ \E c \in Calls : pc'[c] = "sessions" /\ user'[c] = u
<1> TypeOK /\ GrantsFit /\ CallsFit
  BY DEF IInv
<1>1. /\ g \in stored' /\ kind'[g] = k /\ owner'[g] = u /\ basis'[g] < password'[u]
      /\ g \notin Excused
  <2>1. g \in stored'
    BY DEF Old, OfKind
  <2>2. g \notin Excused
    BY <2>1, Progress DEF Excused
  <2>3. QED
    BY <2>1, <2>2 DEF Old, OfKind
<1>2. g \in 1..minted
  BY <1>1, StoreStep DEF GrantsFit
<1>3. g \in Grant /\ kind[g] = k /\ owner[g] = u /\ basis[g] = basis'[g]
  BY <1>1, <1>2, Progress
<1>4. ASSUME NEW c \in Calls, StoreGrant(c), item[c] = g
      PROVE  FALSE
  <2>1. user[c] = u /\ password' = password
    BY <1>3, <1>4 DEF StoreGrant, CallsFit
  <2>2. g \in late'
    BY <1>1, <1>3, <1>4, <2>1 DEF StoreGrant
  <2>3. QED
    BY <2>2 DEF Excused
<1>5. g \in stored
  BY <1>1, <1>4, StoreStep
<1>6. CASE password'[u] = password[u]
  BY <1>1, <1>3, <1>5, <1>6 DEF Old, OfKind
<1>7. CASE password'[u] # password[u]
  <2>1. g \in SignIns(u)
    BY <1>3, <1>5 DEF SignIns, OfKind
  <2>2. g \notin spared'
    BY DEF Excused
  <2>3. QED
    BY <1>7, <2>1, <2>2, PasswordStep
<1>8. QED
  BY <1>6, <1>7

LEMMA ResetStep == IInv /\ [Next]_vars => ResetLeaves'
<1> SUFFICES ASSUME IInv, [Next]_vars, NEW u \in Users
             PROVE  ResetLeaves!(u)'
  BY DEF ResetLeaves
<1> TypeOK /\ ResetLeaves
  BY DEF IInv
\* A reset that is at work goes on as long as there is something it must delete.
<1>1. ASSUME NEW c \in Calls, NEW k \in {"session", "refresh"}, NEW g \in Old(k, u),
             g \in stored', g \notin Excused',
             pc[c] \in {"sessions", "refresh"}, user[c] = u,
             k = "session" => pc[c] = "sessions"
      PROVE  /\ user'[c] = u /\ pc'[c] \in {"sessions", "refresh"}
             /\ k = "session" => pc'[c] = "sessions"
  <2>1. g \in OfKind(k, u) /\ g \in Outdated(u) /\ g \notin spared'
    BY <1>1 DEF Old, OfKind, Outdated, SignIns, Excused
  <2>2. CASE DeleteUserSessions(c) /\ pc'[c] = "refresh" /\ user'[c] = user[c]
    BY <1>1, <2>1, <2>2 DEF DeleteUserSessions, Discard
  <2>3. CASE RevokeAllRefreshTokens(c) /\ pc[c] = "refresh"
    BY <1>1, <2>1, <2>3 DEF RevokeAllRefreshTokens, Discard
  <2>4. CASE RevocationFails(c) /\ Outdated(user[c]) \subseteq spared'
    BY <1>1, <2>1, <2>4
  <2>5. QED
    BY <1>1, <2>2, <2>3, <2>4, ResetOrigin
<1>2. ASSUME NEW g \in Old("session", u)', g \notin Excused'
      PROVE  \E c \in Calls : pc'[c] = "sessions" /\ user'[c] = u
  <2>1. CASE g \in Old("session", u) \ Excused
    <3>1. PICK c \in Calls : pc[c] = "sessions" /\ user[c] = u
      BY <2>1 DEF ResetLeaves
    <3>2. g \in stored'
      BY DEF Old, OfKind
    <3>3. QED
      BY <1>1, <1>2, <2>1, <3>1, <3>2
  <2>2. QED
    BY <1>2, <2>1, OldOrigin
<1>3. ASSUME NEW g \in Old("refresh", u)', g \notin Excused'
      PROVE  Recovering(u)'
  <2>1. CASE g \in Old("refresh", u) \ Excused
    <3>1. PICK c \in Calls : pc[c] \in {"sessions", "refresh"} /\ user[c] = u
      BY <2>1 DEF ResetLeaves, Recovering
    <3>2. g \in stored'
      BY DEF Old, OfKind
    <3>3. user'[c] = u /\ pc'[c] \in {"sessions", "refresh"}
      BY <1>1, <1>3, <2>1, <3>1, <3>2
    <3>4. QED
      BY <3>3 DEF Recovering
  <2>2. QED
    BY <1>3, <2>1, OldOrigin DEF Recovering
<1>4. QED
  BY <1>2, <1>3

-----------------------------------------------------------------------------
(* The theorems.                                                           *)

\* The inductive invariant holds throughout.
THEOREM Invariance == Spec => []IInv
<1>1. IInv /\ [Next]_vars => IInv'
  BY TypeStep, GrantsStep, CallsStep, OneGrantsStep, CrossingStep, SeenStep, LostStep, ResetStep
  DEF IInv
<1>2. QED
  BY InitIInv, <1>1, PTL DEF Spec

\* Every variable keeps its type, whatever the calls do (session.ts, login.ts).
THEOREM TypeCorrect == Spec => []TypeOK
<1>1. IInv => TypeOK
  BY DEF IInv
<1>2. QED
  BY <1>1, Invariance, PTL

\* A session is lost before its expiry only by a logout, a reset, with its user
\* or because two calls validated it at the same time (session.ts:69-82).
THEOREM LostHasCause == Spec => []LostSessionHasCause
<1>1. IInv => LostSessionHasCause
  BY DEF IInv
<1>2. QED
  BY <1>1, Invariance, PTL

\* Once no reset is at work, a sign-in under an old password is one that a reset
\* spared when it broke off, or one stored after the reset
\* (complete-account-recovery.ts:25-38).
THEOREM Survivors == Spec => []SurvivorsHaveCause
<1>1. ASSUME IInv, NEW u \in Users
      PROVE  Outdated(u) \subseteq spared \cup late \/ Recovering(u)
  <2>1. /\ Old("session", u) \subseteq Excused \/ Recovering(u)
        /\ Old("refresh", u) \subseteq Excused \/ Recovering(u)
    BY <1>1 DEF IInv, ResetLeaves, Recovering
  <2>2. Outdated(u) = Old("session", u) \cup Old("refresh", u)
    BY DEF Outdated, SignIns, Old
  <2>3. QED
    BY <2>1, <2>2 DEF Excused
<1>2. IInv => SurvivorsHaveCause
  BY <1>1 DEF SurvivorsHaveCause
<1>3. QED
  BY <1>2, Invariance, PTL

\* A grant that was handed out and deleted never comes back (session.ts:80).
THEOREM Deleted == Spec => DeletedStaysDeleted
<1>1. IInv /\ [Next]_vars => (\A g \in handed : g \notin stored => g \notin stored')
  BY StoreStep
<1>2. QED
  BY <1>1, Invariance, PTL DEF Spec, DeletedStaysDeleted

\* An extension takes time away from a session only when two calls extend it at
\* the same time (session.ts:78-80).
THEOREM NeverShorter == Spec => ExtensionNeverShortens
<1>1. ASSUME IInv, [Next]_vars, NEW g \in handed
      PROVE  expires'[g] >= expires[g] \/ g \in crossed
  <2>1. TypeOK /\ SeenFits /\ GrantsFit
    BY <1>1 DEF IInv
  <2>2. g \in 1..minted /\ g \in Grant
    BY <1>1, <2>1, Progress DEF GrantsFit
  <2>3. expires[g] \in Nat
    BY <2>1, <2>2 DEF TypeOK
  <2>4. ASSUME NEW c \in Calls, ExtendSession(c), item[c] = g, expires'[g] = seen[c],
               g \notin crossed
        PROVE  expires'[g] >= expires[g]
    <3>1. pc[c] = "extend"
      BY <2>4 DEF ExtendSession
    <3>2. expires[g] <= seen[c]
      BY <2>1, <2>4, <3>1 DEF SeenFits
    <3>3. seen[c] \in Nat
      BY <2>1 DEF TypeOK
    <3>4. expires'[g] \in Nat /\ expires[g] <= expires'[g]
      BY <2>4, <3>2, <3>3
    <3>5. QED
      BY <2>3, <3>4
  <2>5. CASE expires'[g] = expires[g]
    BY <2>3, <2>5
  <2>6. QED
    BY <1>1, <2>2, <2>4, <2>5, ExpiryStep
<1>2. IInv /\ [Next]_vars => \A g \in handed : expires'[g] >= expires[g] \/ g \in crossed
  BY <1>1
<1>3. QED
  BY <1>2, Invariance, PTL DEF Spec, ExtensionNeverShortens

=============================================================================
