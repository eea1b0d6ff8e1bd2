-------------------------- MODULE Middleware_proofs --------------------------
(***************************************************************************)
(* What Middleware guarantees for any number of requests, sessions and     *)
(* tokens, any lifetimes and any number of ticks in a second; and what     *)
(* Normalizer guarantees of the payload that such a token bears            *)
(* (token.ts:87), for any finite input and any limits.                     *)
(***************************************************************************)
EXTENDS Middleware, Normalizer, FiniteSetTheorems, SequenceTheorems, TLAPS

CookieStates == {"find", "decide", "purge", "extend", "reply"}
Passing      == {"revocation", "fetch", "accepted"}

\* A request is one of the transport, and works with an item that exists.
CallsFit ==
  \A c \in Calls :
    /\ pc[c] \in CookieStates => config.transport = "cookie" /\ item[c] # None
    /\ pc[c] \in Passing \cup {"refused"} => config.transport = "jwt"
    /\ pc[c] = "revocation" => "revocation" \in config.checks
    /\ pc[c] = "fetch" => "fetch" \in config.checks

\* Items are numbered as they are generated.
ItemsFit ==
  /\ stored \subseteq 1..minted
  /\ jar.token <= minted
  /\ \A c \in Calls : item[c] <= minted /\ reply[c].token <= minted

\* No session, stored or read, has more than a lifetime left; a token has the
\* expiry that it was generated with.
ExpiriesFit ==
  /\ \A c \in Calls : seen[c] <= now + Lifetime
  /\ config.transport = "cookie" => \A i \in Item : expires[i] <= now + Lifetime
  /\ config.transport = "jwt" =>
       \A i \in 1..minted : expires[i] = (issuedAt[i] \div PerSecond) + TokenTimeoutMs

\* A request with a dead token has the check that will refuse it before it.
DeadFits ==
  \A c \in dead :
    /\ pc[c] \in {"revocation", "fetch", "refused"}
    /\ Dead(item[c])
    /\ pc[c] = "fetch" => user = "deleted"

\* A token that passed the first check was presented in time.
PassingIsYoung ==
  \A c \in Calls :
    pc[c] \in Passing
      => /\ item[c] # None
         /\ began[c] <= issuedAt[item[c]] + TokenTimeoutMs * PerSecond

IInv ==
  /\ TypeOK
  /\ CallsFit
  /\ ItemsFit
  /\ ExpiriesFit
  /\ BlankMeansGone
  /\ DeadFits
  /\ PassingIsYoung
  /\ RefusalHasCause

-----------------------------------------------------------------------------
(* Seconds.                                                                *)

\* Whole seconds are at most as long, and less than a second shorter.
LEMMA WholeSeconds ==
  ASSUME NEW x \in Nat
  PROVE  /\ x \div PerSecond \in Nat
         /\ (x \div PerSecond) * PerSecond \in Nat
         /\ (x \div PerSecond) * PerSecond <= x
         /\ (x \div PerSecond) * PerSecond > x - PerSecond
<1> PerSecond \in Nat \ {0}
  BY MiddlewareAssumption
<1>1. x \div PerSecond \in Nat
  OBVIOUS
<1>2. (x \div PerSecond) * PerSecond \in Nat
  BY <1>1
<1>3. (x \div PerSecond) * PerSecond <= x
  OBVIOUS
<1>4. (x \div PerSecond) * PerSecond > x - PerSecond
  OBVIOUS
<1>5. QED
  BY <1>1, <1>2, <1>3, <1>4

\* The cookie of a session with at most a lifetime left is of the type.
LEMMA CookieFits ==
  ASSUME NEW i \in Item, NEW e \in Nat, now \in Nat, e <= now + Lifetime
  PROVE  SerializeCookie(i, e) \in [token : Item \cup {None}, age : 0..Lifetime]
<1>1. CASE e <= now
  BY <1>1, MiddlewareAssumption DEF SerializeCookie
<1>2. CASE e > now
  <2>1. e - now \in Nat /\ e - now <= Lifetime
    BY <1>2, MiddlewareAssumption
  <2>2. ((e - now) \div PerSecond) * PerSecond \in 0..Lifetime
    BY <2>1, WholeSeconds, MiddlewareAssumption
  <2>3. QED
    BY <1>2, <2>2 DEF SerializeCookie
<1>3. QED
  BY <1>1, <1>2, MiddlewareAssumption

-----------------------------------------------------------------------------
LEMMA InitIInv == Init => IInv
<1> SUFFICES ASSUME Init
             PROVE  IInv
  OBVIOUS
<1> USE MiddlewareAssumption DEF Init, Item, None, NoCookie, Blank
<1>1. TypeOK
  BY DEF TypeOK, Waiting
<1>2. CallsFit /\ ItemsFit /\ ExpiriesFit
  BY DEF CallsFit, ItemsFit, ExpiriesFit, CookieStates, Passing
<1>3. BlankMeansGone /\ DeadFits /\ PassingIsYoung /\ RefusalHasCause
  BY DEF BlankMeansGone, DeadFits, PassingIsYoung, RefusalHasCause, Passing
<1>4. QED
  BY <1>1, <1>2, <1>3 DEF IInv

\* Crossing gathers items only.
LEMMA CrossingFits ==
  ASSUME TypeOK, CallsFit, config.transport = "cookie", NEW i \in Item
  PROVE  Crossing(i) \in SUBSET Item
<1>1. ASSUME NEW d \in InFlight
      PROVE  item[d] \in Item
  BY <1>1 DEF InFlight, TypeOK, CallsFit, CookieStates, Passing, Waiting
<1>2. QED
  BY <1>1 DEF Crossing, TypeOK

-----------------------------------------------------------------------------
(* The steps of one request.                                               *)

CallAction(c) ==
  \/ Login(c)
  \/ StartRequest(c)
  \/ FindSession(c)
  \/ Decide(c)
  \/ PurgeSession(c)
  \/ ExtendSession(c)
  \/ Logout(c)
  \/ Deliver(c)
  \/ LoseResponse(c)
  \/ \E i \in 0..minted : StartJwtRequest(c, i)
  \/ CheckRevocation(c)
  \/ FetchUser(c)
  \/ Answer(c)
  \/ Throw(c)

\* Nothing happens to a request.
WorldAction ==
  \/ IssueToken
  \/ \E i \in 1..minted : RevokeJwt(i)
  \/ DeleteUser
  \/ Tick
  \/ UNCHANGED vars

LEMMA StepCases ==
  [Next]_vars => WorldAction \/ \E c \in Calls : CallAction(c)
  BY DEF Next, WorldAction, CallAction

\* What happens to one request leaves the others where they are.
LEMMA OtherCalls ==
  ASSUME TypeOK, NEW c \in Calls, NEW d \in Calls, d # c, CallAction(c)
  PROVE  /\ pc'[d] = pc[d] /\ item'[d] = item[d] /\ seen'[d] = seen[d]
         /\ reply'[d] = reply[d] /\ began'[d] = began[d]
         /\ d \in dead' <=> d \in dead
<1> USE DEF TypeOK, Goto, Done, Respond, storeVars, history
<1>1. CASE Login(c) \/ StartRequest(c) \/ FindSession(c) \/ PurgeSession(c)
  BY <1>1 DEF Login, StartRequest, FindSession, PurgeSession
<1>2. CASE Decide(c) \/ ExtendSession(c) \/ Logout(c)
  BY <1>2 DEF Decide, ExtendSession, Logout
<1>3. CASE Deliver(c) \/ LoseResponse(c) \/ Answer(c) \/ Throw(c)
  BY <1>3 DEF Deliver, LoseResponse, Answer, Throw
<1>4. CASE CheckRevocation(c) \/ FetchUser(c) \/ \E i \in 0..minted : StartJwtRequest(c, i)
  BY <1>4 DEF CheckRevocation, FetchUser, StartJwtRequest
<1>5. QED
  BY <1>1, <1>2, <1>3, <1>4 DEF CallAction

\* A request that is over has nothing left, and keeps the types.
LEMMA DoneFits ==
  ASSUME TypeOK, NEW c \in Calls, Done(c)
  PROVE  /\ pc' \in [Calls -> Waiting \cup {"idle", "accepted", "refused"}]
         /\ item' \in [Calls -> Item \cup {None}]
         /\ seen' \in [Calls -> Nat]
         /\ reply' \in [Calls -> [token : Item \cup {None}, age : 0..Lifetime]]
         /\ began' \in [Calls -> 0..MaxTime]
         /\ dead' \in SUBSET Calls
         /\ pc'[c] = "idle" /\ item'[c] = None /\ seen'[c] = 0
         /\ reply'[c] = Blank /\ began'[c] = 0 /\ c \notin dead'
<1> USE MiddlewareAssumption DEF TypeOK, Done, Goto
<1>1. Blank \in [token : Item \cup {None}, age : 0..Lifetime]
  BY DEF Blank
<1>2. QED
  BY <1>1

\* A response keeps the types, if its cookie does.
LEMMA RespondFits ==
  ASSUME TypeOK, NEW c \in Calls,
         NEW cookie \in [token : Item \cup {None}, age : 0..Lifetime], Respond(c, cookie)
  PROVE  /\ pc' \in [Calls -> Waiting \cup {"idle", "accepted", "refused"}]
         /\ seen' \in [Calls -> Nat]
         /\ reply' \in [Calls -> [token : Item \cup {None}, age : 0..Lifetime]]
         /\ pc'[c] = "reply" /\ reply'[c] = cookie /\ seen'[c] = 0
  BY DEF TypeOK, Respond, Goto, Waiting

LEMMA TypeStep == IInv /\ [Next]_vars => TypeOK'
<1> SUFFICES ASSUME IInv, [Next]_vars
             PROVE  TypeOK'
  OBVIOUS
<1> TypeOK /\ CallsFit /\ ItemsFit /\ ExpiriesFit
  BY DEF IInv
<1> Blank \in [token : Item \cup {None}, age : 0..Lifetime]
  BY MiddlewareAssumption DEF Blank
<1> USE MiddlewareAssumption DEF TypeOK, storeVars, history
<1>1. ASSUME NEW c \in Calls, Login(c)
      PROVE  TypeOK'
  <2>1. minted + 1 \in Item /\ now + Lifetime \in Nat
    BY <1>1 DEF Login, Item
  <2>2. SerializeCookie(minted + 1, now + Lifetime)
          \in [token : Item \cup {None}, age : 0..Lifetime]
    BY <2>1, CookieFits
  <2>3. Crossing(minted + 1) \in SUBSET Item
    BY <1>1, <2>1, CrossingFits DEF Login
  <2>4. /\ pc' \in [Calls -> Waiting \cup {"idle", "accepted", "refused"}]
        /\ seen' \in [Calls -> Nat]
        /\ reply' \in [Calls -> [token : Item \cup {None}, age : 0..Lifetime]]
    BY <1>1, <2>2, RespondFits DEF Login
  <2>5. /\ stored' \in SUBSET Item /\ minted' \in 0..MaxItems
        /\ expires' \in [Item -> Nat] /\ item' \in [Calls -> Item \cup {None}]
    BY <1>1, <2>1 DEF Login
  <2>6. QED
    BY <1>1, <2>3, <2>4, <2>5 DEF Login
<1>2. ASSUME NEW c \in Calls, StartRequest(c)
      PROVE  TypeOK'
  <2>1. jar.token \in Item
    BY <1>2 DEF StartRequest, None
  <2>2. Crossing(jar.token) \in SUBSET Item
    BY <1>2, <2>1, CrossingFits DEF StartRequest
  <2>3. QED
    BY <1>2, <2>1, <2>2 DEF StartRequest, Goto, Waiting
<1>3. ASSUME NEW c \in Calls, FindSession(c)
      PROVE  TypeOK'
  <2>1. CASE item[c] \in stored
    <3>1. expires[item[c]] \in Nat
      BY <2>1
    <3>2. pc' = [pc EXCEPT ![c] = "decide"] /\ seen' = [seen EXCEPT ![c] = expires[item[c]]]
      BY <1>3, <2>1 DEF FindSession, Goto
    <3>3. QED
      BY <1>3, <2>1, <3>1, <3>2 DEF FindSession, Waiting
  <2>2. CASE item[c] \notin stored
    BY <1>3, <2>2, RespondFits DEF FindSession
  <2>3. QED
    BY <2>1, <2>2
<1>4. ASSUME NEW c \in Calls, Decide(c)
      PROVE  TypeOK'
  <2>1. CASE Done(c)
    BY <1>4, <2>1, DoneFits DEF Decide
  <2>2. CASE Goto(c, "purge") /\ UNCHANGED <<item, seen, reply, began, dead>>
    BY <1>4, <2>2 DEF Decide, Goto, Waiting
  <2>3. CASE /\ Goto(c, "extend")
             /\ seen' = [seen EXCEPT ![c] = now + Lifetime]
             /\ UNCHANGED <<item, reply, began, dead>>
    BY <1>4, <2>3 DEF Decide, Goto, Waiting
  <2>4. QED
    BY <1>4, <2>1, <2>2, <2>3 DEF Decide
<1>5. ASSUME NEW c \in Calls, PurgeSession(c)
      PROVE  TypeOK'
  BY <1>5, RespondFits DEF PurgeSession
<1>6. ASSUME NEW c \in Calls, ExtendSession(c)
      PROVE  TypeOK'
  <2>1. item[c] \in Item
    BY <1>6 DEF ExtendSession, CallsFit, CookieStates
  <2>2. SerializeCookie(item[c], seen[c]) \in [token : Item \cup {None}, age : 0..Lifetime]
    BY <2>1, CookieFits DEF ExpiriesFit
  <2>3. QED
    BY <1>6, <2>1, <2>2, RespondFits DEF ExtendSession
<1>7. ASSUME NEW c \in Calls, Logout(c)
      PROVE  TypeOK'
  <2>1. jar.token \in Item
    BY <1>7 DEF Logout, None
  <2>2. Crossing(jar.token) \in SUBSET Item
    BY <1>7, <2>1, CrossingFits DEF Logout
  <2>3. QED
    BY <1>7, <2>1, <2>2, RespondFits DEF Logout
<1>8. ASSUME NEW c \in Calls, Deliver(c)
      PROVE  TypeOK'
  <2>1. jar' \in [token : Item \cup {None}, until : Nat]
    BY <1>8 DEF Deliver, NoCookie
  <2>2. QED
    BY <1>8, <2>1, DoneFits DEF Deliver
<1>9. ASSUME NEW c \in Calls, LoseResponse(c)
      PROVE  TypeOK'
  <2>1. item[c] \in Item
    BY <1>9 DEF LoseResponse, CallsFit, CookieStates
  <2>2. QED
    BY <1>9, <2>1, DoneFits DEF LoseResponse
<1>10. ASSUME NEW c \in Calls, Answer(c) \/ Throw(c)
       PROVE  TypeOK'
  BY <1>10, DoneFits DEF Answer, Throw
<1>11. ASSUME NEW c \in Calls, NEW i \in 0..minted, StartJwtRequest(c, i)
       PROVE  TypeOK'
  <2>1. i \in Item \cup {None}
    BY DEF Item, None
  <2>2. QED
    BY <1>11, <2>1 DEF StartJwtRequest, Goto, NextCheck, Waiting
<1>12. ASSUME NEW c \in Calls, CheckRevocation(c) \/ FetchUser(c)
       PROVE  TypeOK'
  BY <1>12 DEF CheckRevocation, FetchUser, Goto, NextCheck, Waiting
<1>13. CASE IssueToken
  <2>1. minted + 1 \in Item
    BY <1>13 DEF IssueToken, Item
  <2>2. (now \div PerSecond) + TokenTimeoutMs \in Nat
    <3>1. now \in Nat
      OBVIOUS
    <3>2. now \div PerSecond \in Nat
      BY <3>1, WholeSeconds
    <3>3. QED
      BY <3>2
  <2>3. QED
    BY <1>13, <2>1, <2>2 DEF IssueToken
<1>14. ASSUME NEW i \in 1..minted, RevokeJwt(i)
       PROVE  TypeOK'
  <2>1. i \in Item
    BY DEF Item
  <2>2. QED
    BY <1>14, <2>1 DEF RevokeJwt
<1>15. CASE DeleteUser \/ Tick
  BY <1>15 DEF DeleteUser, Tick
<1>16. CASE UNCHANGED vars
  BY <1>16 DEF vars
<1>17. QED
  BY <1>1, <1>2, <1>3, <1>4, <1>5, <1>6, <1>7, <1>8, <1>9, <1>10, <1>11, <1>12, <1>13,
     <1>14, <1>15, <1>16
  DEF Next

-----------------------------------------------------------------------------
(* The invariant is kept.                                                  *)

\* What never goes back: the configuration, the numbering, the clock, a
\* revocation and a deletion.
LEMMA Progress ==
  ASSUME TypeOK, [Next]_vars
  PROVE  /\ config' = config
         /\ minted' = minted \/ minted' = minted + 1
         /\ now <= now'
         /\ revoked \subseteq revoked'
         /\ user = "deleted" => user' = "deleted"
         /\ \A i \in 1..minted : issuedAt'[i] = issuedAt[i]
<1> USE DEF TypeOK, Item, storeVars, history
<1>1. ASSUME NEW c \in Calls, CallAction(c)
      PROVE  /\ UNCHANGED <<config, now, revoked, user, issuedAt>>
             /\ minted' = minted \/ minted' = minted + 1
  <2>1. CASE Login(c) \/ StartRequest(c) \/ FindSession(c) \/ Decide(c)
    BY <2>1 DEF Login, StartRequest, FindSession, Decide
  <2>2. CASE PurgeSession(c) \/ ExtendSession(c) \/ Logout(c) \/ Deliver(c)
    BY <2>2 DEF PurgeSession, ExtendSession, Logout, Deliver
  <2>3. CASE LoseResponse(c) \/ CheckRevocation(c) \/ FetchUser(c) \/ Answer(c) \/ Throw(c)
    BY <2>3 DEF LoseResponse, CheckRevocation, FetchUser, Answer, Throw
  <2>4. CASE \E i \in 0..minted : StartJwtRequest(c, i)
    BY <2>4 DEF StartJwtRequest
  <2>5. QED
    BY <1>1, <2>1, <2>2, <2>3, <2>4 DEF CallAction
<1>2. CASE IssueToken
  <2>1. ASSUME NEW i \in 1..minted
        PROVE  issuedAt'[i] = issuedAt[i]
    <3>1. i \in Item /\ i # minted + 1
      BY MiddlewareAssumption
    <3>2. QED
      BY <1>2, <3>1 DEF IssueToken
  <2>2. QED
    BY <1>2, <2>1 DEF IssueToken
<1>3. ASSUME NEW i \in 1..minted, RevokeJwt(i)
      PROVE  UNCHANGED <<config, minted, now, user, issuedAt>> /\ revoked \subseteq revoked'
  BY <1>3 DEF RevokeJwt
<1>4. CASE DeleteUser
  BY <1>4 DEF DeleteUser
<1>5. CASE Tick
  BY <1>5 DEF Tick
<1>6. CASE UNCHANGED vars
  BY <1>6 DEF vars
<1>7. CASE WorldAction
  <2> HIDE DEF TypeOK, Item, storeVars, history
  <2>1. CASE \E i \in 1..minted : RevokeJwt(i)
    <3>1. now <= now
      BY DEF TypeOK
    <3>2. QED
      BY <1>3, <2>1, <3>1
  <2>2. QED
    BY <1>2, <1>4, <1>5, <1>6, <1>7, <2>1 DEF WorldAction
<1>8. CASE \E c \in Calls : CallAction(c)
  <2>1. PICK c \in Calls : CallAction(c)
    BY <1>8
  <2>2. UNCHANGED <<config, now, revoked, user, issuedAt>>
    BY <1>1, <2>1
  <2>3. minted' = minted \/ minted' = minted + 1
    BY <1>1, <2>1
  <2>4. QED
    BY <2>2, <2>3
<1>9. QED
  BY <1>7, <1>8, StepCases

\* A token that is dead stays dead.
LEMMA DeadForGood ==
  ASSUME TypeOK, [Next]_vars, NEW i \in 0..minted, Dead(i)
  PROVE  Dead(i)'
  BY Progress DEF Dead

\* Steps of the world leave all requests alone.
LEMMA WorldFits ==
  ASSUME WorldAction
  PROVE  \/ UNCHANGED <<pc, item, seen, reply, began, dead, jar, stored>>
         \/ /\ stored' = {}
            /\ UNCHANGED <<pc, item, seen, reply, began, dead, jar>>
  BY DEF WorldAction, IssueToken, RevokeJwt, DeleteUser, Tick, vars, storeVars, history

LEMMA CallsStep == IInv /\ [Next]_vars => CallsFit'
<1> SUFFICES ASSUME IInv, [Next]_vars, NEW d \in Calls
             PROVE  CallsFit!(d)'
  BY DEF CallsFit
<1> TypeOK /\ CallsFit
  BY DEF IInv
<1>1. config' = config
  BY Progress
<1> USE DEF TypeOK, CallsFit, CookieStates, Passing, Item, None
<1>2. CASE WorldAction
  BY <1>1, <1>2, WorldFits
<1>3. ASSUME NEW c \in Calls, d # c, CallAction(c)
      PROVE  CallsFit!(d)'
  BY <1>1, <1>3, OtherCalls, ZenonT(30)
<1>4. ASSUME CallAction(d)
      PROVE  CallsFit!(d)'
  <2> USE DEF Goto, Done, Respond
  <2>1. CASE Login(d) \/ StartRequest(d) \/ Logout(d)
    <3>1. minted + 1 # None
      OBVIOUS
    <3>2. QED
      BY <1>1, <2>1, <3>1, SMTT(30) DEF Login, StartRequest, Logout
  <2>2. CASE FindSession(d) \/ Decide(d)
    BY <1>1, <2>2 DEF FindSession, Decide
  <2>3. CASE PurgeSession(d) \/ ExtendSession(d)
    BY <1>1, <2>3, SMTT(30) DEF PurgeSession, ExtendSession
  <2>4. CASE Deliver(d) \/ LoseResponse(d) \/ Answer(d) \/ Throw(d)
    BY <1>1, <2>4 DEF Deliver, LoseResponse, Answer, Throw
  <2>5. ASSUME NEW i \in 0..minted, StartJwtRequest(d, i)
        PROVE  CallsFit!(d)'
    BY <1>1, <2>5 DEF StartJwtRequest, NextCheck
  <2>6. CASE CheckRevocation(d) \/ FetchUser(d)
    BY <1>1, <2>6 DEF CheckRevocation, FetchUser, NextCheck
  <2>7. QED
    BY <1>4, <2>1, <2>2, <2>3, <2>4, <2>5, <2>6 DEF CallAction
<1>5. QED
  BY <1>2, <1>3, <1>4, StepCases

LEMMA ItemsStep == IInv /\ [Next]_vars => ItemsFit'
<1> SUFFICES ASSUME IInv, [Next]_vars
             PROVE  ItemsFit'
  OBVIOUS
<1> TypeOK /\ ItemsFit /\ CallsFit
  BY DEF IInv
<1> USE MiddlewareAssumption
<1>0. /\ jar.token \in Nat
      /\ \A d \in Calls : item[d] \in Nat /\ reply[d].token \in Nat
  <2>1. Item \cup {None} \subseteq Nat
    BY DEF Item, None
  <2>2. jar.token \in Item \cup {None}
    BY DEF TypeOK
  <2>3. \A d \in Calls : item[d] \in Item \cup {None} /\ reply[d].token \in Item \cup {None}
    BY DEF TypeOK
  <2>4. QED
    BY <2>1, <2>2, <2>3
<1>1. minted' \in Nat /\ minted <= minted' /\ minted \in Nat
  BY Progress DEF TypeOK
<1>2. 1..minted \subseteq 1..minted'
  BY <1>1
<1>3. ASSUME NEW c \in Calls, CallAction(c)
      PROVE  stored' \subseteq 1..minted' /\ jar'.token <= minted'
  <2> USE DEF ItemsFit, TypeOK, storeVars, history
  <2>1. CASE Login(c)
    <3>1. minted' = minted + 1 /\ stored' = stored \cup {minted + 1} /\ jar' = jar
      BY <2>1 DEF Login
    <3>2. minted + 1 \in 1..minted'
      BY <1>1, <3>1
    <3>3. stored' \subseteq 1..minted'
      BY <1>2, <3>1, <3>2
    <3>4. jar'.token <= minted'
      BY <1>0, <1>1, <3>1
    <3>5. QED
      BY <3>3, <3>4
  <2>2. CASE Deliver(c)
    BY <1>1, <1>2, <2>2 DEF Deliver, NoCookie, None
  <2>3. CASE StartRequest(c) \/ FindSession(c) \/ Decide(c) \/ LoseResponse(c)
    BY <1>1, <1>2, <2>3 DEF StartRequest, FindSession, Decide, LoseResponse
  <2>4. CASE PurgeSession(c) \/ ExtendSession(c) \/ Logout(c)
    BY <1>1, <1>2, <2>4 DEF PurgeSession, ExtendSession, Logout
  <2>5. CASE CheckRevocation(c) \/ FetchUser(c) \/ Answer(c) \/ Throw(c)
    BY <1>1, <1>2, <2>5 DEF CheckRevocation, FetchUser, Answer, Throw
  <2>6. CASE \E i \in 0..minted : StartJwtRequest(c, i)
    BY <1>1, <1>2, <2>6 DEF StartJwtRequest
  <2>7. QED
    BY <1>3, <2>1, <2>2, <2>3, <2>4, <2>5, <2>6 DEF CallAction
<1>4. ASSUME NEW c \in Calls, CallAction(c)
      PROVE  item'[c] <= minted' /\ reply'[c].token <= minted'
  <2> USE DEF ItemsFit, TypeOK, storeVars, history, Goto, Respond
  <2>1. CASE Login(c)
    BY <1>1, <2>1 DEF Login, SerializeCookie
  <2>2. CASE Done(c)
    BY <1>1, <2>2 DEF Done, Blank, None
  <2>3. CASE StartRequest(c)
    BY <1>1, <2>3 DEF StartRequest
  <2>4. CASE FindSession(c) \/ PurgeSession(c) \/ Logout(c)
    BY <1>1, <2>4 DEF FindSession, PurgeSession, Logout, Blank, None
  <2>5. CASE ExtendSession(c)
    BY <1>1, <2>5 DEF ExtendSession, SerializeCookie
  <2>6. CASE CheckRevocation(c) \/ FetchUser(c)
    BY <1>1, <2>6 DEF CheckRevocation, FetchUser
  <2>7. ASSUME NEW i \in 0..minted, StartJwtRequest(c, i)
        PROVE  item'[c] <= minted' /\ reply'[c].token <= minted'
    BY <1>1, <2>7 DEF StartJwtRequest
  <2>8. CASE Decide(c)
    BY <1>1, <2>2, <2>8 DEF Decide
  <2>9. QED
    BY <1>4, <2>1, <2>2, <2>3, <2>4, <2>5, <2>6, <2>7, <2>8
    DEF CallAction, Deliver, LoseResponse, Answer, Throw
<1>5. ASSUME NEW c \in Calls, CallAction(c)
      PROVE  ItemsFit'
  <2>1. ASSUME NEW d \in Calls
        PROVE  item'[d] <= minted' /\ reply'[d].token <= minted'
    <3>1. CASE d # c
      <4>1. item'[d] = item[d] /\ reply'[d] = reply[d]
        BY <1>5, <3>1, OtherCalls
      <4>2. item[d] <= minted /\ reply[d].token <= minted
        BY DEF ItemsFit
      <4>3. QED
        BY <1>0, <1>1, <4>1, <4>2
    <3>2. QED
      BY <1>4, <1>5, <3>1
  <2>2. QED
    BY <1>3, <1>5, <2>1 DEF ItemsFit
<1>6. CASE WorldAction
  <2>1. UNCHANGED <<item, reply, jar>> /\ stored' \subseteq stored
    BY <1>6, WorldFits
  <2>2. stored' \subseteq 1..minted'
    BY <1>2, <2>1 DEF ItemsFit
  <2>3. jar'.token <= minted'
    BY <1>0, <1>1, <2>1 DEF ItemsFit
  <2>4. \A d \in Calls : item'[d] <= minted' /\ reply'[d].token <= minted'
    BY <1>0, <1>1, <2>1 DEF ItemsFit
  <2>5. QED
    BY <2>2, <2>3, <2>4 DEF ItemsFit
<1>7. QED
  BY <1>5, <1>6, StepCases

LEMMA ExpiriesStep == IInv /\ [Next]_vars => ExpiriesFit'
<1> SUFFICES ASSUME IInv, [Next]_vars
             PROVE  ExpiriesFit'
  OBVIOUS
<1> TypeOK /\ ExpiriesFit /\ CallsFit
  BY DEF IInv
<1> USE MiddlewareAssumption
<1>1. now <= now' /\ now \in Nat /\ now' \in Nat /\ config' = config
  BY Progress, TypeStep DEF TypeOK
<1>2. ASSUME NEW d \in Calls
      PROVE  seen'[d] <= now' + Lifetime
  <2> USE DEF ExpiriesFit, TypeOK
  <2>1. ASSUME seen'[d] \in {seen[d], 0, now + Lifetime}
        PROVE  seen'[d] <= now' + Lifetime
    BY <1>1, <2>1
  <2>2. ASSUME NEW c \in Calls, d # c, CallAction(c)
        PROVE  seen'[d] <= now' + Lifetime
    BY <2>1, <2>2, OtherCalls
  <2>3. CASE WorldAction
    BY <2>1, <2>3, WorldFits
  <2>4. ASSUME CallAction(d)
        PROVE  seen'[d] <= now' + Lifetime
    <3> USE DEF Goto, Respond, Done
    <3>1. CASE FindSession(d)
      <4>1. CASE item[d] \in stored
        <5>1. seen'[d] = expires[item[d]] /\ item[d] \in Item
          BY <3>1, <4>1 DEF FindSession
        <5>2. expires[item[d]] <= now + Lifetime
          BY <3>1, <5>1 DEF FindSession, CallsFit, CookieStates
        <5>3. QED
          BY <1>1, <5>1, <5>2
      <4>2. QED
        BY <2>1, <3>1, <4>1 DEF FindSession
    <3>2. CASE Login(d) \/ StartRequest(d) \/ Decide(d) \/ PurgeSession(d)
      BY <2>1, <3>2 DEF Login, StartRequest, Decide, PurgeSession
    <3>3. CASE ExtendSession(d) \/ Logout(d) \/ Deliver(d) \/ LoseResponse(d)
      BY <2>1, <3>3 DEF ExtendSession, Logout, Deliver, LoseResponse
    <3>4. CASE CheckRevocation(d) \/ FetchUser(d) \/ Answer(d) \/ Throw(d)
      BY <2>1, <3>4 DEF CheckRevocation, FetchUser, Answer, Throw
    <3>5. CASE \E i \in 0..minted : StartJwtRequest(d, i)
      BY <2>1, <3>5 DEF StartJwtRequest
    <3>6. QED
      BY <2>4, <3>1, <3>2, <3>3, <3>4, <3>5 DEF CallAction
  <2>5. QED
    BY <2>2, <2>3, <2>4, StepCases
<1>3. ASSUME config.transport = "cookie", NEW i \in Item
      PROVE  expires'[i] <= now' + Lifetime
  <2> USE DEF ExpiriesFit, TypeOK
  <2>1. ASSUME expires'[i] \in {expires[i], now + Lifetime}
        PROVE  expires'[i] <= now' + Lifetime
    BY <1>1, <1>3, <2>1
  <2>2. ASSUME NEW c \in Calls, ExtendSession(c)
        PROVE  expires'[i] <= now' + Lifetime
    <3>1. expires'[i] = expires[i] \/ expires'[i] = seen[c]
      BY <2>2 DEF ExtendSession
    <3>2. QED
      BY <1>1, <1>3, <3>1
  <2>3. ASSUME NEW c \in Calls, CallAction(c)
        PROVE  expires'[i] <= now' + Lifetime
    <3> USE DEF storeVars, history
    <3>1. CASE Login(c)
      BY <2>1, <3>1 DEF Login
    <3>2. CASE StartRequest(c) \/ FindSession(c) \/ Decide(c) \/ PurgeSession(c)
      BY <2>1, <3>2 DEF StartRequest, FindSession, Decide, PurgeSession
    <3>3. CASE Logout(c) \/ Deliver(c) \/ LoseResponse(c)
      BY <2>1, <3>3 DEF Logout, Deliver, LoseResponse
    <3>4. CASE CheckRevocation(c) \/ FetchUser(c) \/ Answer(c) \/ Throw(c)
      BY <2>1, <3>4 DEF CheckRevocation, FetchUser, Answer, Throw
    <3>5. CASE \E k \in 0..minted : StartJwtRequest(c, k)
      BY <2>1, <3>5 DEF StartJwtRequest
    <3>6. QED
      BY <2>2, <2>3, <3>1, <3>2, <3>3, <3>4, <3>5 DEF CallAction
  <2>4. CASE WorldAction
    BY <1>3, <2>1, <2>4
    DEF WorldAction, IssueToken, RevokeJwt, DeleteUser, Tick, vars, storeVars
  <2>5. QED
    BY <2>3, <2>4, StepCases
<1>4. ASSUME config.transport = "jwt", NEW i \in 1..minted'
      PROVE  expires'[i] = (issuedAt'[i] \div PerSecond) + TokenTimeoutMs
  <2> USE DEF ExpiriesFit
  <2>1. CASE IssueToken
    <3>1. minted' = minted + 1 /\ minted + 1 \in Item /\ minted \in Nat
      BY <2>1 DEF IssueToken, TypeOK, Item
    <3>2. CASE i = minted + 1
      BY <2>1, <3>1, <3>2 DEF IssueToken, TypeOK
    <3>3. CASE i # minted + 1
      <4>1. i \in 1..minted /\ i \in Item
        BY <3>1, <3>3 DEF TypeOK, Item
      <4>2. expires'[i] = expires[i] /\ issuedAt'[i] = issuedAt[i]
        BY <2>1, <3>3, <4>1 DEF IssueToken, TypeOK
      <4>3. QED
        BY <1>4, <4>1, <4>2
    <3>4. QED
      BY <3>2, <3>3
  <2>2. CASE WorldAction /\ ~IssueToken
    BY <1>4, <2>2 DEF WorldAction, RevokeJwt, DeleteUser, Tick, vars, storeVars, history
  <2>3. ASSUME NEW c \in Calls, CallAction(c)
        PROVE  UNCHANGED <<minted, expires, issuedAt>>
    <3> USE DEF storeVars, history
    <3>1. ~Login(c) /\ ~StartRequest(c) /\ ~Logout(c)
      BY <1>4 DEF Login, StartRequest, Logout
    <3>2. /\ ~FindSession(c) /\ ~Decide(c) /\ ~PurgeSession(c)
          /\ ~ExtendSession(c) /\ ~Deliver(c) /\ ~LoseResponse(c)
      BY <1>4 DEF FindSession, Decide, PurgeSession, ExtendSession, Deliver, LoseResponse,
                  CallsFit, CookieStates
    <3>3. CASE CheckRevocation(c) \/ FetchUser(c) \/ Answer(c) \/ Throw(c)
      BY <3>3 DEF CheckRevocation, FetchUser, Answer, Throw
    <3>4. CASE \E k \in 0..minted : StartJwtRequest(c, k)
      BY <3>4 DEF StartJwtRequest
    <3>5. QED
      BY <2>3, <3>1, <3>2, <3>3, <3>4 DEF CallAction
  <2>4. QED
    BY <1>4, <2>1, <2>2, <2>3, StepCases
<1>5. QED
  BY <1>1, <1>2, <1>3, <1>4 DEF ExpiriesFit

\* A token's expiry, in ticks, is its timeout after its issue or less than a
\* second sooner.
LEMMA ExpiryInTicks ==
  ASSUME NEW x \in Nat, NEW e, e = (x \div PerSecond) + TokenTimeoutMs
  PROVE  /\ e * PerSecond \in Nat
         /\ e * PerSecond <= x + TokenTimeoutMs * PerSecond
         /\ e * PerSecond > x + (TokenTimeoutMs - 1) * PerSecond
<1> DEFINE s == x \div PerSecond
<1>1. s \in Nat /\ s * PerSecond \in Nat /\ s * PerSecond <= x /\ s * PerSecond > x - PerSecond
  BY WholeSeconds
<1>2. TokenTimeoutMs * PerSecond \in Nat
  BY MiddlewareAssumption
<1> HIDE DEF s
<1>3. (s + TokenTimeoutMs) * PerSecond = s * PerSecond + TokenTimeoutMs * PerSecond
  BY <1>1, MiddlewareAssumption
<1>4. (TokenTimeoutMs - 1) * PerSecond = TokenTimeoutMs * PerSecond - PerSecond
  BY MiddlewareAssumption
<1>5. e = s + TokenTimeoutMs
  BY DEF s
<1>6. QED
  BY <1>1, <1>2, <1>3, <1>4, <1>5, MiddlewareAssumption

\* Only a login adds a session, and one that no request works with yet.
LEMMA StoredShrinks ==
  ASSUME TypeOK, ItemsFit, [Next]_vars, NEW i \in 0..minted, i \notin stored
  PROVE  i \notin stored'
<1> USE DEF storeVars, history
<1>1. ASSUME NEW c \in Calls, Login(c)
      PROVE  i \notin stored'
  <2>1. i # minted + 1
    BY DEF TypeOK
  <2>2. QED
    BY <1>1, <2>1 DEF Login
<1>2. CASE WorldAction
  BY <1>2, WorldFits
<1>3. ASSUME NEW c \in Calls, CallAction(c)
      PROVE  i \notin stored'
  <2>1. CASE StartRequest(c) \/ FindSession(c) \/ Decide(c) \/ PurgeSession(c)
    BY <2>1 DEF StartRequest, FindSession, Decide, PurgeSession
  <2>2. CASE ExtendSession(c) \/ Logout(c) \/ Deliver(c) \/ LoseResponse(c)
    BY <2>2 DEF ExtendSession, Logout, Deliver, LoseResponse
  <2>3. CASE CheckRevocation(c) \/ FetchUser(c) \/ Answer(c) \/ Throw(c)
    BY <2>3 DEF CheckRevocation, FetchUser, Answer, Throw
  <2>4. CASE \E k \in 0..minted : StartJwtRequest(c, k)
    BY <2>4 DEF StartJwtRequest
  <2>5. QED
    BY <1>1, <1>3, <2>1, <2>2, <2>3, <2>4 DEF CallAction
<1>4. QED
  BY <1>2, <1>3, StepCases

\* The item of a request is none, or was generated.
LEMMA ItemExists ==
  ASSUME TypeOK, ItemsFit, NEW d \in Calls
  PROVE  item[d] \in 0..minted
<1>1. item[d] \in Nat
  BY DEF TypeOK, Item, None
<1>2. minted \in Nat /\ item[d] <= minted
  BY DEF TypeOK, ItemsFit
<1>3. QED
  BY <1>1, <1>2

LEMMA BlankStep == IInv /\ [Next]_vars => BlankMeansGone'
<1> SUFFICES ASSUME IInv, [Next]_vars, NEW d \in Calls
             PROVE  BlankMeansGone!(d)'
  BY DEF BlankMeansGone
<1> TypeOK /\ CallsFit /\ ItemsFit /\ BlankMeansGone
  BY DEF IInv
<1>1. item[d] \notin stored => item[d] \notin stored'
  BY ItemExists, StoredShrinks
<1>2. CASE WorldAction
  BY <1>1, <1>2, WorldFits DEF BlankMeansGone
<1>3. ASSUME NEW c \in Calls, d # c, CallAction(c)
      PROVE  BlankMeansGone!(d)'
  BY <1>1, <1>3, OtherCalls DEF BlankMeansGone
<1>4. ASSUME CallAction(d)
      PROVE  BlankMeansGone!(d)'
  <2> USE DEF Goto, Respond, TypeOK, storeVars, history
  <2>1. CASE Login(d)
    <3>1. reply'[d].token = minted + 1
      BY <2>1 DEF Login, SerializeCookie
    <3>2. minted + 1 # None
      BY DEF None
    <3>3. QED
      BY <3>1, <3>2
  <2>2. CASE FindSession(d) \/ PurgeSession(d) \/ Logout(d)
    BY <2>2 DEF FindSession, PurgeSession, Logout
  <2>3. CASE ExtendSession(d)
    <3>1. reply'[d].token = item[d]
      BY <2>3 DEF ExtendSession, SerializeCookie
    <3>2. item[d] # None
      BY <2>3 DEF ExtendSession, CallsFit, CookieStates
    <3>3. QED
      BY <3>1, <3>2
  <2>4. CASE StartRequest(d)
    BY <2>4 DEF StartRequest
  <2>5. CASE Decide(d)
    BY <2>5 DEF Decide, Done
  <2>6. CASE Deliver(d) \/ LoseResponse(d) \/ Answer(d) \/ Throw(d)
    BY <2>6 DEF Deliver, LoseResponse, Answer, Throw, Done
  <2>7. CASE \E i \in 0..minted : StartJwtRequest(d, i)
    BY <2>7 DEF StartJwtRequest, NextCheck
  <2>8. CASE CheckRevocation(d) \/ FetchUser(d)
    BY <2>8 DEF CheckRevocation, FetchUser, NextCheck
  <2>9. QED
    BY <1>4, <2>1, <2>2, <2>3, <2>4, <2>5, <2>6, <2>7, <2>8 DEF CallAction
<1>5. QED
  BY <1>2, <1>3, <1>4, StepCases

LEMMA DeadStep == IInv /\ [Next]_vars => DeadFits'
<1> SUFFICES ASSUME IInv, [Next]_vars
             PROVE  DeadFits'
  OBVIOUS
<1>0. dead' \subseteq Calls
  BY TypeStep DEF TypeOK
<1> SUFFICES ASSUME NEW d \in Calls, d \in dead'
             PROVE  DeadFits!(d)'
  BY <1>0 DEF DeadFits
<1> TypeOK /\ CallsFit /\ ItemsFit /\ DeadFits
  BY DEF IInv
<1>1. ASSUME d \in dead, pc'[d] = pc[d], item'[d] = item[d]
      PROVE  DeadFits!(d)'
  <2>1. config' = config /\ revoked \subseteq revoked' /\ (user = "deleted" => user' = "deleted")
    BY Progress
  <2>2. Dead(item[d]) /\ pc[d] \in {"revocation", "fetch", "refused"}
    BY <1>1 DEF DeadFits
  <2>3. Dead(item[d])'
    BY <1>1, <2>1, <2>2 DEF Dead
  <2>4. pc[d] = "fetch" => user = "deleted"
    BY <1>1 DEF DeadFits
  <2>5. QED
    BY <1>1, <2>1, <2>2, <2>3, <2>4
<1>3. CASE WorldAction
  BY <1>1, <1>3, WorldFits
<1>4. ASSUME NEW c \in Calls, d # c, CallAction(c)
      PROVE  DeadFits!(d)'
  BY <1>1, <1>4, OtherCalls
<1>5. ASSUME CallAction(d)
      PROVE  DeadFits!(d)'
  <2> USE DEF Goto, Respond, TypeOK, storeVars, history
  <2>1. ~Done(d)
    BY DEF Done
  <2>2. CASE d \notin dead
    <3>1. PICK i \in 0..minted : StartJwtRequest(d, i)
      BY <1>5, <2>1, <2>2
      DEF CallAction, Login, StartRequest, FindSession, Decide, PurgeSession, ExtendSession,
          Logout, Deliver, LoseResponse, CheckRevocation, FetchUser, Answer, Throw
    <3>2. Dead(i) /\ item'[d] = i
      BY <2>2, <3>1 DEF StartJwtRequest
    <3>3. UNCHANGED <<config, revoked, user>>
      BY <3>1 DEF StartJwtRequest
    <3>4. Dead(item[d])'
      BY <3>2, <3>3 DEF Dead
    <3>5. pc'[d] = "refused" \/ pc'[d] = NextCheck({})
      BY <3>1 DEF StartJwtRequest
    <3>6. QED
      BY <3>2, <3>3, <3>4, <3>5 DEF NextCheck, Dead
  <2>3. CASE d \in dead
    <3>1. pc[d] \in {"revocation", "fetch", "refused"}
      BY <2>3 DEF DeadFits
    <3>2. CheckRevocation(d) \/ FetchUser(d)
      BY <1>5, <2>1, <3>1
      DEF CallAction, Login, StartRequest, FindSession, Decide, PurgeSession, ExtendSession,
          Logout, Deliver, LoseResponse, StartJwtRequest, Answer, Throw
    <3>3. item'[d] = item[d] /\ Dead(item[d]) /\ UNCHANGED <<config, revoked, user>>
      BY <2>3, <3>2 DEF CheckRevocation, FetchUser, DeadFits
    <3>4. Dead(item[d])'
      BY <3>3 DEF Dead
    <3>5. CASE CheckRevocation(d)
      BY <3>3, <3>4, <3>5 DEF CheckRevocation, NextCheck, Dead
    <3>6. CASE FetchUser(d)
      BY <2>3, <3>3, <3>4, <3>6 DEF FetchUser, DeadFits
    <3>7. QED
      BY <3>2, <3>5, <3>6
  <2>4. QED
    BY <2>2, <2>3
<1>6. QED
  BY <1>3, <1>4, <1>5, StepCases

\* The requests that have not passed their checks, and those that have, go by
\* when their token was issued.
LEMMA IssuedStays ==
  ASSUME TypeOK, ItemsFit, [Next]_vars, NEW d \in Calls, item[d] # None
  PROVE  issuedAt'[item[d]] = issuedAt[item[d]]
<1>1. item[d] \in 1..minted
  BY ItemExists DEF None, TypeOK
<1>2. QED
  BY <1>1, Progress

\* A token is accepted until less than a second before its timeout, or to it.
LEMMA VerifyIsTimely ==
  ASSUME TypeOK, ExpiriesFit, config.transport = "jwt", NEW i \in 1..minted
  PROVE  /\ VerifyJwtToken(i) => now <= issuedAt[i] + TokenTimeoutMs * PerSecond
         /\ ~VerifyJwtToken(i) => now > issuedAt[i] + (TokenTimeoutMs - 1) * PerSecond
<1>1. i \in Item /\ i # None
  BY MiddlewareAssumption DEF TypeOK, Item, None
<1>2. now \in Nat /\ issuedAt[i] \in Nat
  BY <1>1, MiddlewareAssumption DEF TypeOK
<1>3. expires[i] = (issuedAt[i] \div PerSecond) + TokenTimeoutMs
  BY DEF ExpiriesFit
<1>4. /\ expires[i] * PerSecond \in Nat
      /\ expires[i] * PerSecond <= issuedAt[i] + TokenTimeoutMs * PerSecond
      /\ expires[i] * PerSecond > issuedAt[i] + (TokenTimeoutMs - 1) * PerSecond
  BY <1>2, <1>3, ExpiryInTicks
<1>5. VerifyJwtToken(i) <=> now <= expires[i] * PerSecond
  BY <1>1 DEF VerifyJwtToken
<1> DEFINE latest == issuedAt[i] + TokenTimeoutMs * PerSecond
           soonest == issuedAt[i] + (TokenTimeoutMs - 1) * PerSecond
           expiry == expires[i] * PerSecond
<1>6. latest \in Int /\ soonest \in Int
  BY <1>2, MiddlewareAssumption
<1>7. expiry \in Nat /\ expiry <= latest /\ expiry > soonest
  BY <1>4
<1> HIDE DEF latest, soonest, expiry
<1>8. (now <= expiry => now <= latest) /\ (~(now <= expiry) => now > soonest)
  BY <1>2, <1>6, <1>7
<1>9. QED
  BY <1>5, <1>8 DEF latest, soonest, expiry

LEMMA YoungStep == IInv /\ [Next]_vars => PassingIsYoung'
<1> SUFFICES ASSUME IInv, [Next]_vars, NEW d \in Calls
             PROVE  PassingIsYoung!(d)'
  BY DEF PassingIsYoung
<1> TypeOK /\ ItemsFit /\ ExpiriesFit /\ PassingIsYoung
  BY DEF IInv
<1>1. ASSUME pc'[d] \in Passing => pc[d] \in Passing, item'[d] = item[d], began'[d] = began[d]
      PROVE  PassingIsYoung!(d)'
  BY <1>1, IssuedStays DEF PassingIsYoung
<1>2. CASE WorldAction
  BY <1>1, <1>2, WorldFits
<1>3. ASSUME NEW c \in Calls, d # c, CallAction(c)
      PROVE  PassingIsYoung!(d)'
  BY <1>1, <1>3, OtherCalls
<1>4. ASSUME CallAction(d)
      PROVE  PassingIsYoung!(d)'
  <2> USE DEF Goto, Respond, Passing, TypeOK
  <2>1. CASE Login(d) \/ StartRequest(d) \/ FindSession(d) \/ PurgeSession(d)
    BY <2>1 DEF Login, StartRequest, FindSession, PurgeSession
  <2>2. CASE Decide(d) \/ ExtendSession(d) \/ Logout(d)
    BY <2>2 DEF Decide, ExtendSession, Logout, Done
  <2>3. CASE Deliver(d) \/ LoseResponse(d) \/ Answer(d) \/ Throw(d)
    BY <2>3 DEF Deliver, LoseResponse, Answer, Throw, Done
  <2>4. CASE CheckRevocation(d) \/ FetchUser(d)
    BY <1>1, <2>4 DEF CheckRevocation, FetchUser, NextCheck, history
  <2>5. ASSUME NEW i \in 0..minted, StartJwtRequest(d, i)
        PROVE  PassingIsYoung!(d)'
    <3>1. item'[d] = i /\ began'[d] = now /\ issuedAt' = issuedAt
      BY <2>5 DEF StartJwtRequest
    <3>2. CASE ~VerifyJwtToken(i)
      BY <2>5, <3>2 DEF StartJwtRequest
    <3>3. CASE VerifyJwtToken(i)
      <4>1. i # None /\ i \in 1..minted
        BY <3>3 DEF VerifyJwtToken, None
      <4>2. now <= issuedAt[i] + TokenTimeoutMs * PerSecond
        BY <2>5, <3>3, <4>1, VerifyIsTimely DEF StartJwtRequest
      <4>3. QED
        BY <3>1, <4>1, <4>2
    <3>4. QED
      BY <3>2, <3>3
  <2>6. QED
    BY <1>4, <2>1, <2>2, <2>3, <2>4, <2>5 DEF CallAction
<1>5. QED
  BY <1>2, <1>3, <1>4, StepCases

LEMMA RefusalStep == IInv /\ [Next]_vars => RefusalHasCause'
<1> SUFFICES ASSUME IInv, [Next]_vars, NEW d \in Calls
             PROVE  RefusalHasCause!(d)'
  BY DEF RefusalHasCause
<1> TypeOK /\ CallsFit /\ ItemsFit /\ ExpiriesFit /\ RefusalHasCause
  BY DEF IInv
<1>1. ASSUME pc'[d] = pc[d], item'[d] = item[d], began'[d] = began[d]
      PROVE  RefusalHasCause!(d)'
  <2>1. CASE item[d] = None
    BY <1>1, <2>1
  <2>2. CASE item[d] # None /\ Dead(item[d])
    <3>1. Dead(item[d])'
      BY <1>1, <2>2, Progress DEF Dead
    <3>2. QED
      BY <1>1, <3>1 DEF Dead
  <2>3. CASE item[d] # None /\ ~Dead(item[d])
    BY <1>1, <2>3, IssuedStays DEF RefusalHasCause
  <2>4. QED
    BY <2>1, <2>2, <2>3
<1>2. CASE WorldAction
  BY <1>1, <1>2, WorldFits
<1>3. ASSUME NEW c \in Calls, d # c, CallAction(c)
      PROVE  RefusalHasCause!(d)'
  BY <1>1, <1>3, OtherCalls
<1>4. ASSUME CallAction(d)
      PROVE  RefusalHasCause!(d)'
  <2> USE DEF Goto, Respond, TypeOK
  <2>1. CASE Login(d) \/ StartRequest(d) \/ FindSession(d) \/ PurgeSession(d)
    BY <2>1 DEF Login, StartRequest, FindSession, PurgeSession
  <2>2. CASE Decide(d) \/ ExtendSession(d) \/ Logout(d)
    BY <2>2 DEF Decide, ExtendSession, Logout, Done
  <2>3. CASE Deliver(d) \/ LoseResponse(d) \/ Answer(d) \/ Throw(d)
    BY <2>3 DEF Deliver, LoseResponse, Answer, Throw, Done
  <2>4. CASE pc'[d] = "refused" /\ (CheckRevocation(d) \/ FetchUser(d))
    <3>1. item' = item /\ UNCHANGED <<config, revoked, user>>
      BY <2>4 DEF CheckRevocation, FetchUser, storeVars
    <3>2. Dead(item[d])
      BY <2>4 DEF CheckRevocation, FetchUser, NextCheck, Dead, CallsFit
    <3>3. Dead(item[d])'
      BY <3>1, <3>2 DEF Dead
    <3>4. QED
      BY <3>3
  <2>5. ASSUME NEW i \in 0..minted, StartJwtRequest(d, i), pc'[d] = "refused"
        PROVE  RefusalHasCause!(d)'
    <3>1. item'[d] = i /\ began'[d] = now /\ issuedAt' = issuedAt
      BY <2>5 DEF StartJwtRequest
    <3>2. ~VerifyJwtToken(i)
      BY <2>5 DEF StartJwtRequest, NextCheck
    <3>3. CASE i = None
      BY <3>1, <3>3
    <3>4. CASE i # None
      <4>1. i \in 1..minted
        BY <3>4 DEF None
      <4>2. now > issuedAt[i] + (TokenTimeoutMs - 1) * PerSecond
        BY <2>5, <3>2, <4>1, VerifyIsTimely DEF StartJwtRequest
      <4>3. QED
        BY <3>1, <4>2
    <3>5. QED
      BY <3>3, <3>4
  <2>6. QED
    BY <1>4, <2>1, <2>2, <2>3, <2>4, <2>5 DEF CallAction
<1>5. QED
  BY <1>2, <1>3, <1>4, StepCases

-----------------------------------------------------------------------------
(* The cookie in the jar.                                                  *)

\* The sessions whose requests never overlapped, and lost no response.
Untouched == stored \ crossed

\* The request of an untouched session is the only one.
IsAlone(i) == \A c, d \in InFlight : item[c] = i => d = c

\* A cookie under way lasts, to the second, as long as its session.
ReplyLasts(i) ==
  \A c \in Calls :
    pc[c] = "reply" /\ reply[c].token = i => now + reply[c].age + PerSecond > expires[i]

\* So does the cookie in the jar, unless a newer one is under way.
JarLasts(i) ==
  jar.token = i /\ (\A c \in Calls : item[c] = i => pc[c] # "reply")
    => jar.until + PerSecond > expires[i]

\* The session of the last login is that of every request; its cookie is in
\* the jar or under way, unless less than a second of it is left.
LoginKept(i) ==
  i = minted =>
    /\ \A c \in InFlight : item[c] = i
    /\ (\A c \in Calls : pc[c] # "reply") =>
         jar.token = i \/ (jar.token = None /\ now + PerSecond > expires[i])

ItemFits(i) ==
  /\ config.transport = "cookie"
  /\ IsAlone(i)
  /\ ReplyLasts(i)
  /\ JarLasts(i)
  /\ LoginKept(i)

\* A response sets the cookie of its request's session, or blanks it.
RepliesMatch ==
  \A c \in Calls : pc[c] = "reply" => reply[c].token \in {None, item[c]}

JarInv ==
  /\ IInv
  /\ RepliesMatch
  /\ \A i \in Untouched : ItemFits(i)

LEMMA InitJarInv == Init => JarInv
  BY InitIInv DEF JarInv, RepliesMatch, Untouched, Init

\* A cookie expires with its session, or less than a second sooner.
LEMMA CookieLasts ==
  ASSUME NEW i, NEW e \in Nat, now \in Nat
  PROVE  /\ SerializeCookie(i, e).token = i
         /\ now + SerializeCookie(i, e).age + PerSecond > e
<1>0. PerSecond \in Nat \ {0}
  BY MiddlewareAssumption
<1>1. CASE e <= now
  BY <1>0, <1>1 DEF SerializeCookie
<1>2. CASE e > now
  <2>1. e - now \in Nat
    BY <1>2
  <2>2. PICK w \in Nat : w = ((e - now) \div PerSecond) * PerSecond
    BY <2>1, WholeSeconds
  <2>3. w > (e - now) - PerSecond
    BY <2>1, <2>2, WholeSeconds
  <2>4. SerializeCookie(i, e) = [token |-> i, age |-> w]
    BY <1>2, <2>2 DEF SerializeCookie
  <2>5. now + w + PerSecond > e
    BY <1>0, <2>3
  <2>6. QED
    BY <2>4, <2>5
<1>3. QED
  BY <1>1, <1>2

\* A session that was touched stays so.
LEMMA CrossedGrows ==
  ASSUME [Next]_vars
  PROVE  crossed \subseteq crossed'
<1> USE DEF storeVars, history
<1>1. CASE WorldAction
  BY <1>1 DEF WorldAction, IssueToken, RevokeJwt, DeleteUser, Tick, vars
<1>2. ASSUME NEW c \in Calls, CallAction(c)
      PROVE  crossed \subseteq crossed'
  <2>1. CASE Login(c) \/ StartRequest(c) \/ Logout(c)
    BY <2>1 DEF Login, StartRequest, Logout, Crossing
  <2>2. CASE FindSession(c) \/ Decide(c) \/ PurgeSession(c) \/ ExtendSession(c)
    BY <2>2 DEF FindSession, Decide, PurgeSession, ExtendSession
  <2>3. CASE Deliver(c) \/ LoseResponse(c) \/ CheckRevocation(c) \/ FetchUser(c)
    BY <2>3 DEF Deliver, LoseResponse, CheckRevocation, FetchUser
  <2>4. CASE Answer(c) \/ Throw(c) \/ \E i \in 0..minted : StartJwtRequest(c, i)
    BY <2>4 DEF Answer, Throw, StartJwtRequest
  <2>5. QED
    BY <1>2, <2>1, <2>2, <2>3, <2>4 DEF CallAction
<1>3. QED
  BY <1>1, <1>2, StepCases

\* An untouched session was untouched before, or is that of the login.
LEMMA UntouchedStep ==
  ASSUME TypeOK, ItemsFit, [Next]_vars, NEW i \in Untouched'
  PROVE  \/ i \in Untouched
         \/ minted' = minted + 1 /\ i = minted + 1 /\ \E c \in Calls : Login(c)
<1>1. i \in stored' /\ i \notin crossed
  BY CrossedGrows DEF Untouched
<1>2. CASE i \in stored
  BY <1>1, <1>2 DEF Untouched
<1>3. CASE i \notin stored
  <2>1. i \notin 0..minted
    BY <1>1, <1>3, StoredShrinks
  <2>2. PICK c \in Calls : Login(c)
    <3>1. ~WorldAction
      BY <1>1, <1>3, WorldFits
    <3>2. PICK c \in Calls : CallAction(c)
      BY <3>1, StepCases
    <3>3. Login(c) \/ stored' \subseteq stored
      <4> USE DEF storeVars
      <4>1. CASE StartRequest(c) \/ FindSession(c) \/ Decide(c) \/ PurgeSession(c)
        BY <4>1 DEF StartRequest, FindSession, Decide, PurgeSession
      <4>2. CASE ExtendSession(c) \/ Logout(c) \/ Deliver(c) \/ LoseResponse(c)
        BY <4>2 DEF ExtendSession, Logout, Deliver, LoseResponse
      <4>3. CASE CheckRevocation(c) \/ FetchUser(c) \/ Answer(c) \/ Throw(c)
        BY <4>3 DEF CheckRevocation, FetchUser, Answer, Throw
      <4>4. CASE \E k \in 0..minted : StartJwtRequest(c, k)
        BY <4>4 DEF StartJwtRequest
      <4>5. QED
        BY <3>2, <4>1, <4>2, <4>3, <4>4 DEF CallAction
    <3>4. QED
      BY <1>1, <1>3, <3>3
  <2>3. stored' = stored \cup {minted + 1} /\ minted' = minted + 1
    BY <2>2 DEF Login
  <2>4. QED
    BY <1>1, <1>3, <2>2, <2>3
<1>4. QED
  BY <1>2, <1>3

LEMMA RepliesStep == JarInv /\ [Next]_vars => RepliesMatch'
<1> SUFFICES ASSUME JarInv, [Next]_vars, NEW d \in Calls
             PROVE  RepliesMatch!(d)'
  BY DEF RepliesMatch
<1> TypeOK /\ RepliesMatch
  BY DEF JarInv, IInv
<1>1. CASE WorldAction
  BY <1>1, WorldFits DEF RepliesMatch
<1>2. ASSUME NEW c \in Calls, d # c, CallAction(c)
      PROVE  RepliesMatch!(d)'
  BY <1>2, OtherCalls DEF RepliesMatch
<1>3. ASSUME CallAction(d)
      PROVE  RepliesMatch!(d)'
  <2> USE DEF Goto, Respond, TypeOK, Blank
  <2>1. CASE Login(d) \/ ExtendSession(d)
    BY <2>1 DEF Login, ExtendSession, SerializeCookie
  <2>2. CASE FindSession(d) \/ PurgeSession(d) \/ Logout(d)
    BY <2>2 DEF FindSession, PurgeSession, Logout
  <2>3. CASE StartRequest(d)
    BY <2>3 DEF StartRequest
  <2>4. CASE Decide(d)
    BY <2>4 DEF Decide, Done
  <2>5. CASE Deliver(d) \/ LoseResponse(d) \/ Answer(d) \/ Throw(d)
    BY <2>5 DEF Deliver, LoseResponse, Answer, Throw, Done
  <2>6. CASE \E i \in 0..minted : StartJwtRequest(d, i)
    BY <2>6 DEF StartJwtRequest, NextCheck
  <2>7. CASE CheckRevocation(d) \/ FetchUser(d)
    BY <2>7 DEF CheckRevocation, FetchUser, NextCheck
  <2>8. QED
    BY <1>3, <2>1, <2>2, <2>3, <2>4, <2>5, <2>6, <2>7 DEF CallAction
<1>4. QED
  BY <1>1, <1>2, <1>3, StepCases

\* A session that a login alone created fits: its cookie is on its way.
LEMMA LoginFits ==
  ASSUME JarInv, NEW c \in Calls, Login(c), NEW i \in Untouched', i = minted + 1
  PROVE  ItemFits(i)'
<1> TypeOK /\ ItemsFit
  BY DEF JarInv, IInv
<1>1. i \in Item /\ now \in Nat /\ now + Lifetime \in Nat
  BY MiddlewareAssumption DEF Login, TypeOK, Item
<1>2. \A d \in Calls : pc[d] = "idle"
  <2>1. i \notin Crossing(i)
    BY DEF Login, Untouched
  <2>2. InFlight = {}
    BY <2>1 DEF Crossing
  <2>3. QED
    BY <2>2 DEF InFlight
<1>3. PICK cookie : cookie = SerializeCookie(i, now + Lifetime)
  OBVIOUS
<1>4. /\ pc' = [pc EXCEPT ![c] = "reply"] /\ reply' = [reply EXCEPT ![c] = cookie]
      /\ item' = [item EXCEPT ![c] = i] /\ now' = now /\ config' = config
      /\ expires' = [expires EXCEPT ![i] = now + Lifetime] /\ minted' = i
      /\ config.transport = "cookie"
  BY <1>3 DEF Login, Respond, Goto
<1>5. pc'[c] = "reply" /\ item'[c] = i /\ reply'[c] = cookie /\ expires'[i] = now + Lifetime
  BY <1>1, <1>4 DEF TypeOK
<1>6. \A d \in Calls : d # c => pc'[d] = "idle"
  BY <1>2, <1>4 DEF TypeOK
<1>7. InFlight' = {c}
  BY <1>5, <1>6 DEF InFlight
<1>8. now' + cookie.age + PerSecond > expires'[i]
  BY <1>1, <1>3, <1>4, <1>5, CookieLasts
<1>9. IsAlone(i)'
  BY <1>7 DEF IsAlone
<1>10. ReplyLasts(i)'
  BY <1>5, <1>6, <1>8 DEF ReplyLasts
<1>11. JarLasts(i)'
  BY <1>5 DEF JarLasts
<1>12. LoginKept(i)'
  BY <1>5, <1>7 DEF LoginKept
<1>13. QED
  BY <1>4, <1>9, <1>10, <1>11, <1>12 DEF ItemFits

\* What starting a request leaves: a session that it touches is its own, and
\* then no other request was under way.
LEMMA StartTouches ==
  ASSUME NEW c \in Calls, NEW k, crossed' = Crossing(k),
         NEW i \in Untouched \cap Untouched'
  PROVE  \/ InFlight = {}
         \/ i # k /\ \A d \in InFlight : item[d] # i
  BY DEF Crossing, Untouched

\* A request that moves on, or is over, without a response.
LEMMA MoveFits ==
  ASSUME TypeOK, NEW i \in Untouched, ItemFits(i),
         NEW c \in Calls, pc[c] \notin {"idle", "reply"}, pc'[c] # "reply",
         pc'[c] # "idle" => item'[c] = item[c],
         \A d \in Calls : d # c => pc'[d] = pc[d] /\ item'[d] = item[d] /\ reply'[d] = reply[d],
         item'[c] \in {item[c], None},
         UNCHANGED <<config, expires, now, minted, jar>>
  PROVE  ItemFits(i)'
<1>1. InFlight' \subseteq InFlight /\ \A d \in InFlight' : item'[d] = item[d]
  BY DEF InFlight
<1>2. IsAlone(i)'
  BY <1>1 DEF ItemFits, IsAlone
<1>3. \A d \in Calls : pc'[d] = "reply" => pc[d] = "reply" /\ reply'[d] = reply[d]
  OBVIOUS
<1>4. ReplyLasts(i)'
  BY <1>3 DEF ItemFits, ReplyLasts
<1>5. \A d \in Calls : pc[d] = "reply" => pc'[d] = "reply" /\ item'[d] = item[d]
  OBVIOUS
<1>6. JarLasts(i)'
  BY <1>5 DEF ItemFits, JarLasts
<1>7. LoginKept(i)'
  BY <1>1, <1>5 DEF ItemFits, LoginKept
<1>8. QED
  BY <1>2, <1>4, <1>6, <1>7 DEF ItemFits

\* A request for another session that answers with a blank cookie.
LEMMA BlankFits ==
  ASSUME TypeOK, RepliesMatch, NEW i \in Untouched, i # None, ItemFits(i),
         NEW c \in Calls, pc[c] # "idle", item[c] # i, Respond(c, Blank), item' = item,
         UNCHANGED <<config, expires, now, minted, jar>>
  PROVE  ItemFits(i)'
<1>1. /\ pc'[c] = "reply" /\ reply'[c] = Blank
      /\ \A d \in Calls : d # c => pc'[d] = pc[d] /\ reply'[d] = reply[d]
  BY DEF Respond, Goto, TypeOK
<1>2. InFlight' = InFlight
  BY <1>1 DEF InFlight
<1>3. IsAlone(i)'
  BY <1>2 DEF ItemFits, IsAlone
<1>4. ReplyLasts(i)'
  BY <1>1 DEF ItemFits, ReplyLasts, Blank
<1>5. JarLasts(i)'
  BY <1>1 DEF ItemFits, JarLasts
<1>6. LoginKept(i)'
  BY <1>2 DEF ItemFits, LoginKept, InFlight
<1>7. QED
  BY <1>3, <1>4, <1>5, <1>6 DEF ItemFits

\* An untouched session still fits after a step that does not touch it.
LEMMA UntouchedFits ==
  ASSUME JarInv, [Next]_vars, NEW i \in Untouched, i \in Untouched'
  PROVE  ItemFits(i)'
<1> TypeOK /\ CallsFit /\ ItemsFit /\ BlankMeansGone /\ RepliesMatch /\ ItemFits(i)
  BY DEF JarInv, IInv
<1>0. i \in Item /\ i # None /\ i <= minted /\ i # minted + 1 /\ config.transport = "cookie"
  BY DEF TypeOK, ItemsFit, Untouched, Item, None, ItemFits
<1> USE DEF storeVars, history
<1>1. CASE WorldAction
  <2>1. ~IssueToken /\ ~\E k \in 1..minted : RevokeJwt(k)
    BY <1>0 DEF IssueToken, RevokeJwt
  <2>2. ~DeleteUser
    BY DEF DeleteUser, Untouched
  <2>3. CASE Tick
    <3>1. now' = now + 1 /\ UNCHANGED <<config, expires, minted, jar, pc, item, reply>>
      BY <2>3 DEF Tick
    <3>2. now \in Nat /\ PerSecond \in Nat /\ expires[i] \in Nat
      BY <1>0, MiddlewareAssumption DEF TypeOK
    <3>3. \A d \in Calls : reply[d].age \in Nat
      BY MiddlewareAssumption DEF TypeOK
    <3>4. ReplyLasts(i)'
      BY <3>1, <3>2, <3>3 DEF ReplyLasts, ItemFits
    <3>5. LoginKept(i)'
      BY <3>1, <3>2 DEF LoginKept, ItemFits, InFlight
    <3>6. IsAlone(i)' /\ JarLasts(i)'
      BY <3>1 DEF IsAlone, JarLasts, ItemFits, InFlight
    <3>7. QED
      BY <3>1, <3>4, <3>5, <3>6 DEF ItemFits
  <2>4. CASE UNCHANGED vars
    BY <2>4 DEF vars, ItemFits, IsAlone, ReplyLasts, JarLasts, LoginKept, InFlight
  <2>5. QED
    BY <1>1, <2>1, <2>2, <2>3, <2>4 DEF WorldAction
<1>2. ASSUME NEW c \in Calls, Login(c)
      PROVE  ItemFits(i)'
  <2>1. PICK new : new = minted + 1
    OBVIOUS
  <2>2. PICK cookie : cookie = SerializeCookie(new, now + Lifetime)
    OBVIOUS
  <2>3. /\ pc' = [pc EXCEPT ![c] = "reply"] /\ reply' = [reply EXCEPT ![c] = cookie]
        /\ item' = [item EXCEPT ![c] = new] /\ crossed' = Crossing(new) /\ pc[c] = "idle"
        /\ expires' = [expires EXCEPT ![new] = now + Lifetime] /\ minted' = new
        /\ UNCHANGED <<config, now, jar>>
    BY <1>2, <2>1, <2>2 DEF Login, Respond, Goto
  <2>4. i # new /\ cookie.token = new
    BY <1>0, <2>1, <2>2 DEF SerializeCookie
  <2>5. /\ pc'[c] = "reply" /\ reply'[c] = cookie /\ item'[c] = new
        /\ \A d \in Calls : d # c => pc'[d] = pc[d] /\ reply'[d] = reply[d] /\ item'[d] = item[d]
        /\ expires'[i] = expires[i]
    BY <1>0, <2>3, <2>4 DEF TypeOK
  <2>6. \A d \in InFlight : item[d] # i
    BY <2>3, StartTouches
  <2>7. IsAlone(i)'
    BY <2>4, <2>5, <2>6 DEF IsAlone, InFlight
  <2>8. ReplyLasts(i)'
    BY <2>3, <2>4, <2>5 DEF ReplyLasts, ItemFits
  <2>9. JarLasts(i)'
    BY <2>3, <2>4, <2>5 DEF JarLasts, ItemFits
  <2>10. LoginKept(i)'
    BY <2>3, <2>4 DEF LoginKept
  <2>11. QED
    BY <1>0, <2>3, <2>7, <2>8, <2>9, <2>10 DEF ItemFits
<1>3. ASSUME NEW c \in Calls, StartRequest(c)
      PROVE  ItemFits(i)'
  <2>1. /\ pc' = [pc EXCEPT ![c] = "find"] /\ item' = [item EXCEPT ![c] = jar.token]
        /\ crossed' = Crossing(jar.token) /\ pc[c] = "idle" /\ jar.token # None
        /\ UNCHANGED <<config, expires, now, minted, jar, reply>>
    BY <1>3 DEF StartRequest, Goto
  <2>2. /\ pc'[c] = "find" /\ item'[c] = jar.token
        /\ \A d \in Calls : d # c => pc'[d] = pc[d] /\ item'[d] = item[d]
    BY <2>1 DEF TypeOK
  <2>3. \A d \in InFlight : item[d] # i
    BY <1>0, <2>1, StartTouches
  <2>4. InFlight # {} => jar.token # i
    BY <2>1, StartTouches
  <2>5. IsAlone(i)'
    BY <2>2, <2>3, <2>4 DEF IsAlone, InFlight
  <2>6. ReplyLasts(i)'
    BY <2>1, <2>2 DEF ReplyLasts, ItemFits
  <2>7. JarLasts(i)'
    BY <2>1, <2>2, <2>4 DEF JarLasts, ItemFits, InFlight
  <2>8. LoginKept(i)'
    <3>1. SUFFICES ASSUME i = minted
                   PROVE  LoginKept(i)'
      BY <2>1 DEF LoginKept
    <3>2. InFlight = {}
      BY <2>3, <3>1 DEF LoginKept, ItemFits
    <3>3. \A d \in Calls : pc[d] # "reply"
      BY <3>2 DEF InFlight
    <3>4. jar.token = i
      BY <2>1, <3>1, <3>3 DEF LoginKept, ItemFits
    <3>5. InFlight' = {c}
      BY <2>2, <3>2 DEF InFlight
    <3>6. QED
      BY <2>1, <2>2, <3>4, <3>5 DEF LoginKept
  <2>9. QED
    BY <1>0, <2>1, <2>5, <2>6, <2>7, <2>8 DEF ItemFits
<1>4. ASSUME NEW c \in Calls, FindSession(c)
      PROVE  ItemFits(i)'
  <2>1. pc[c] = "find" /\ item' = item /\ UNCHANGED <<config, expires, now, minted, jar>>
    BY <1>4 DEF FindSession
  <2>2. CASE item[c] \in stored
    <3>1. pc' = [pc EXCEPT ![c] = "decide"] /\ reply' = reply
      BY <1>4, <2>2 DEF FindSession, Goto
    <3>2. pc'[c] = "decide" /\ \A d \in Calls : d # c => pc'[d] = pc[d]
      BY <3>1 DEF TypeOK
    <3>3. QED
      BY <2>1, <3>1, <3>2, MoveFits
  <2>3. CASE item[c] \notin stored
    <3>1. item[c] # i /\ Respond(c, Blank)
      BY <1>4, <2>3 DEF FindSession, Untouched
    <3>2. QED
      BY <1>0, <2>1, <3>1, BlankFits
  <2>4. QED
    BY <2>2, <2>3
<1>5. ASSUME NEW c \in Calls, Decide(c)
      PROVE  ItemFits(i)'
  <2>1. pc[c] = "decide" /\ UNCHANGED <<config, expires, now, minted, jar>>
    BY <1>5 DEF Decide
  <2>2. /\ \/ pc'[c] = "idle" /\ item'[c] = None
           \/ pc'[c] \in {"purge", "extend"} /\ item'[c] = item[c]
        /\ \A d \in Calls : d # c => pc'[d] = pc[d] /\ item'[d] = item[d] /\ reply'[d] = reply[d]
    BY <1>5 DEF Decide, Done, Goto, TypeOK
  <2>3. QED
    BY <2>1, <2>2, MoveFits
<1>6. ASSUME NEW c \in Calls, PurgeSession(c)
      PROVE  ItemFits(i)'
  <2>1. /\ pc[c] = "purge" /\ item' = item /\ Respond(c, Blank)
        /\ UNCHANGED <<config, expires, now, minted, jar>>
    BY <1>6 DEF PurgeSession
  <2>2. item[c] # i
    BY <1>6 DEF PurgeSession, Untouched
  <2>3. QED
    BY <1>0, <2>1, <2>2, BlankFits
<1>7. ASSUME NEW c \in Calls, ExtendSession(c)
      PROVE  ItemFits(i)'
  <2>1. PICK cookie : cookie = SerializeCookie(item[c], seen[c])
    OBVIOUS
  <2>2. /\ pc' = [pc EXCEPT ![c] = "reply"] /\ reply' = [reply EXCEPT ![c] = cookie]
        /\ pc[c] = "extend" /\ UNCHANGED <<config, now, minted, jar, item>>
        /\ expires' = [expires EXCEPT ![item[c]] = IF item[c] \in stored THEN seen[c] ELSE @]
    BY <1>7, <2>1 DEF ExtendSession, Respond, Goto
  <2>3. /\ pc'[c] = "reply" /\ reply'[c] = cookie
        /\ \A d \in Calls : d # c => pc'[d] = pc[d] /\ reply'[d] = reply[d]
    BY <2>2 DEF TypeOK
  <2>4. seen[c] \in Nat /\ now \in Nat
    BY DEF TypeOK
  <2>5. cookie.token = item[c] /\ now + cookie.age + PerSecond > seen[c]
    BY <2>1, <2>4, CookieLasts
  <2>6. expires'[i] = IF i = item[c] THEN seen[c] ELSE expires[i]
    BY <1>0, <2>2 DEF TypeOK, Untouched
  <2>7. InFlight' = InFlight
    BY <2>2, <2>3 DEF InFlight
  <2>8. IsAlone(i)'
    BY <2>2, <2>7 DEF IsAlone, ItemFits
  <2>9. ReplyLasts(i)'
    <3>1. CASE i = item[c]
      <4>1. \A d \in Calls : d # c => pc'[d] = "idle"
        BY <2>2, <2>3, <3>1 DEF IsAlone, ItemFits, InFlight
      <4>2. QED
        BY <2>2, <2>3, <2>5, <2>6, <3>1, <4>1 DEF ReplyLasts
    <3>2. CASE i # item[c]
      BY <2>2, <2>3, <2>5, <2>6, <3>2 DEF ReplyLasts, ItemFits
    <3>3. QED
      BY <3>1, <3>2
  <2>10. JarLasts(i)'
    <3>1. CASE i = item[c]
      BY <2>2, <2>3, <3>1 DEF JarLasts
    <3>2. CASE i # item[c]
      BY <2>2, <2>3, <2>6, <3>2 DEF JarLasts, ItemFits
    <3>3. QED
      BY <3>1, <3>2
  <2>11. LoginKept(i)'
    BY <2>2, <2>3, <2>7 DEF LoginKept, ItemFits
  <2>12. QED
    BY <1>0, <2>2, <2>8, <2>9, <2>10, <2>11 DEF ItemFits
<1>8. ASSUME NEW c \in Calls, Logout(c)
      PROVE  ItemFits(i)'
  <2>1. /\ pc' = [pc EXCEPT ![c] = "reply"] /\ item' = [item EXCEPT ![c] = jar.token]
        /\ reply' = [reply EXCEPT ![c] = Blank]
        /\ crossed' = Crossing(jar.token) /\ pc[c] = "idle" /\ jar.token # None
        /\ stored' = stored \ {jar.token}
        /\ UNCHANGED <<config, expires, now, minted, jar>>
    BY <1>8 DEF Logout, Respond, Goto
  <2>2. /\ pc'[c] = "reply" /\ item'[c] = jar.token /\ reply'[c] = Blank
        /\ \A d \in Calls : d # c => pc'[d] = pc[d] /\ item'[d] = item[d] /\ reply'[d] = reply[d]
    BY <2>1 DEF TypeOK
  <2>3. jar.token # i
    BY <2>1 DEF Untouched
  <2>4. \A d \in InFlight : item[d] # i
    BY <2>1, StartTouches
  <2>5. IsAlone(i)'
    BY <2>2, <2>3, <2>4 DEF IsAlone, InFlight
  <2>6. ReplyLasts(i)'
    BY <1>0, <2>1, <2>2 DEF ReplyLasts, ItemFits, Blank
  <2>7. JarLasts(i)'
    BY <2>1, <2>3 DEF JarLasts
  <2>8. i # minted
    <3>1. SUFFICES ASSUME i = minted
                   PROVE  FALSE
      OBVIOUS
    <3>2. InFlight = {}
      BY <2>4, <3>1 DEF LoginKept, ItemFits
    <3>3. \A d \in Calls : pc[d] # "reply"
      BY <3>2 DEF InFlight
    <3>4. QED
      BY <2>1, <2>3, <3>1, <3>3 DEF LoginKept, ItemFits
  <2>9. LoginKept(i)'
    BY <2>1, <2>8 DEF LoginKept
  <2>10. QED
    BY <1>0, <2>1, <2>5, <2>6, <2>7, <2>9 DEF ItemFits
<1>9. ASSUME NEW c \in Calls, Deliver(c)
      PROVE  ItemFits(i)'
  <2>1. /\ pc[c] = "reply" /\ UNCHANGED <<config, expires, now, minted, stored>>
        /\ jar' = IF reply[c].age = 0 THEN NoCookie
                  ELSE [token |-> reply[c].token, until |-> now + reply[c].age]
    BY <1>9 DEF Deliver
  <2>2. /\ pc'[c] = "idle" /\ item'[c] = None
        /\ \A d \in Calls : d # c => pc'[d] = pc[d] /\ item'[d] = item[d] /\ reply'[d] = reply[d]
    BY <1>9 DEF Deliver, Done, Goto, TypeOK
  <2>3. InFlight' \subseteq InFlight \ {c} /\ \A d \in InFlight' : item'[d] = item[d]
    BY <2>2 DEF InFlight
  <2>4. IsAlone(i)'
    BY <2>3 DEF IsAlone, ItemFits
  <2>5. ReplyLasts(i)'
    BY <2>1, <2>2 DEF ReplyLasts, ItemFits
  <2>6. now \in Nat /\ PerSecond \in Nat /\ expires[i] \in Nat /\ reply[c].age \in Nat
    BY <1>0, MiddlewareAssumption DEF TypeOK
  <2>7. reply[c].token = i => now + reply[c].age + PerSecond > expires[i]
    BY <2>1 DEF ReplyLasts, ItemFits
  <2>8. jar'.token = i => jar'.until + PerSecond > expires[i]
    BY <1>0, <2>1, <2>7 DEF NoCookie
  <2>9. JarLasts(i)'
    BY <2>1, <2>8 DEF JarLasts
  <2>10. LoginKept(i)'
    <3>1. SUFFICES ASSUME i = minted
                   PROVE  LoginKept(i)'
      BY <2>1 DEF LoginKept
    <3>2. item[c] = i
      BY <2>1, <3>1 DEF LoginKept, ItemFits, InFlight
    <3>3. reply[c].token = i
      BY <2>1, <3>2 DEF RepliesMatch, BlankMeansGone, Untouched
    <3>4. CASE reply[c].age = 0
      <4>1. jar'.token = None /\ now + PerSecond > expires[i]
        BY <2>1, <2>6, <2>7, <3>3, <3>4 DEF NoCookie
      <4>2. QED
        BY <2>1, <2>3, <3>1, <4>1 DEF LoginKept, ItemFits
    <3>5. CASE reply[c].age # 0
      <4>1. jar'.token = i
        BY <2>1, <3>3, <3>5
      <4>2. QED
        BY <2>3, <3>1, <4>1 DEF LoginKept, ItemFits
    <3>6. QED
      BY <3>4, <3>5
  <2>11. QED
    BY <1>0, <2>1, <2>4, <2>5, <2>9, <2>10 DEF ItemFits
<1>10. ASSUME NEW c \in Calls, LoseResponse(c)
       PROVE  ItemFits(i)'
  <2>1. pc[c] = "reply" /\ item[c] # i /\ UNCHANGED <<config, expires, now, minted, jar>>
    BY <1>10 DEF LoseResponse, Untouched
  <2>2. /\ pc'[c] = "idle" /\ item'[c] = None
        /\ \A d \in Calls : d # c => pc'[d] = pc[d] /\ item'[d] = item[d] /\ reply'[d] = reply[d]
    BY <1>10 DEF LoseResponse, Done, Goto, TypeOK
  <2>3. InFlight' \subseteq InFlight /\ \A d \in InFlight' : item'[d] = item[d]
    BY <2>1, <2>2 DEF InFlight
  <2>4. IsAlone(i)'
    BY <2>3 DEF IsAlone, ItemFits
  <2>5. ReplyLasts(i)'
    BY <2>1, <2>2 DEF ReplyLasts, ItemFits
  <2>6. JarLasts(i)'
    BY <2>1, <2>2 DEF JarLasts, ItemFits
  <2>7. i # minted
    BY <2>1 DEF LoginKept, ItemFits, InFlight
  <2>8. LoginKept(i)'
    BY <2>1, <2>7 DEF LoginKept
  <2>9. QED
    BY <1>0, <2>1, <2>4, <2>5, <2>6, <2>8 DEF ItemFits
<1>11. ASSUME NEW c \in Calls, Throw(c)
       PROVE  ItemFits(i)'
  <2>1. pc[c] \notin {"idle", "reply"} /\ UNCHANGED <<config, expires, now, minted, jar>>
    BY <1>11 DEF Throw, Waiting
  <2>2. /\ pc'[c] = "idle" /\ item'[c] = None
        /\ \A d \in Calls : d # c => pc'[d] = pc[d] /\ item'[d] = item[d] /\ reply'[d] = reply[d]
    BY <1>11 DEF Throw, Done, Goto, TypeOK
  <2>3. QED
    BY <2>1, <2>2, MoveFits
<1>12. ASSUME NEW c \in Calls
       PROVE  /\ ~CheckRevocation(c) /\ ~FetchUser(c) /\ ~Answer(c)
              /\ ~\E k \in 0..minted : StartJwtRequest(c, k)
  BY <1>0 DEF CheckRevocation, FetchUser, Answer, StartJwtRequest, CallsFit, Passing
<1>13. QED
  BY <1>1, <1>2, <1>3, <1>4, <1>5, <1>6, <1>7, <1>8, <1>9, <1>10, <1>11, <1>12, StepCases
  DEF CallAction

LEMMA JarStep == JarInv /\ [Next]_vars => JarInv'
<1> SUFFICES ASSUME JarInv, [Next]_vars
             PROVE  JarInv'
  OBVIOUS
<1>1. IInv'
  BY TypeStep, CallsStep, ItemsStep, ExpiriesStep, BlankStep, DeadStep, YoungStep, RefusalStep
  DEF JarInv, IInv
<1>2. RepliesMatch'
  BY RepliesStep
<1>3. ASSUME NEW i \in Untouched'
      PROVE  ItemFits(i)'
  <2>1. TypeOK /\ ItemsFit
    BY DEF JarInv, IInv
  <2>2. CASE i \in Untouched
    BY <1>3, <2>2, UntouchedFits
  <2>3. CASE i \notin Untouched
    BY <1>3, <2>1, <2>3, UntouchedStep, LoginFits
  <2>4. QED
    BY <2>2, <2>3
<1>4. QED
  BY <1>1, <1>2, <1>3 DEF JarInv

-----------------------------------------------------------------------------
(* The theorems.                                                           *)

\* The inductive invariant holds throughout.
THEOREM Invariance == Spec => []IInv
<1>1. IInv /\ [Next]_vars => IInv'
  BY TypeStep, CallsStep, ItemsStep, ExpiriesStep, BlankStep, DeadStep, YoungStep, RefusalStep
  DEF IInv
<1>2. QED
  BY InitIInv, <1>1, PTL DEF Spec

\* Every variable keeps its type; in particular, no cookie is given longer
\* than a session's lifetime or less than no time (session.ts, middleware.ts:149).
THEOREM TypeCorrect == Spec => []TypeOK
<1>1. IInv => TypeOK
  BY DEF IInv
<1>2. QED
  BY <1>1, Invariance, PTL

\* A browser is told to forget its cookie only when the session is gone for
\* good (middleware.ts:128).
THEOREM BlankIsRight == Spec => []BlankMeansGone
<1>1. IInv => BlankMeansGone
  BY DEF IInv
<1>2. QED
  BY <1>1, Invariance, PTL

\* A token that was revoked, or whose user was deleted, before a request was
\* made does not pass it (middleware.ts:236, 266).
THEOREM Refused == Spec => []DeadIsRefused
<1>1. IInv => DeadIsRefused
  BY DEF IInv, DeadFits, DeadIsRefused
<1>2. QED
  BY <1>1, Invariance, PTL

\* For any length of a second and any lifetime, a request that passes was made
\* before its token expired, and a token that the server signed is refused
\* sooner than a second before that only for a check that was configured
\* (token.ts:98, 162; middleware.ts:236-272).
THEOREM GoodForItsTime == Spec => []TokenGoodForItsTime
<1>1. IInv => AcceptedIsYoung
  BY DEF IInv, PassingIsYoung, AcceptedIsYoung, Passing
<1>2. IInv => RefusalHasCause
  BY DEF IInv
<1>3. IInv => TokenGoodForItsTime
  BY <1>1, <1>2 DEF TokenGoodForItsTime
<1>4. QED
  BY <1>3, Invariance, PTL

\* What is known of the cookies of untouched sessions holds throughout.
THEOREM JarInvariance == Spec => []JarInv
BY InitJarInv, JarStep, PTL DEF Spec

\* The last login stays in the jar until the last second of its session: only
\* a request that overlaps with one of its own, or a lost response, has the
\* browser forget or replace it (middleware.ts:128, 149).
THEOREM LoginStays == Spec => []LoginStaysInJar
<1>1. JarInv => LoginStaysInJar
  <2> SUFFICES ASSUME JarInv, minted \in Untouched, now + PerSecond <= expires[minted],
                      ~(\E c \in Calls : item[c] = minted)
               PROVE  jar.token = minted
    BY DEF LoginStaysInJar, Untouched
  <2>1. LoginKept(minted)
    BY DEF JarInv, ItemFits
  <2>2. \A c \in Calls : pc[c] # "reply"
    BY <2>1 DEF LoginKept, InFlight
  <2>3. now \in Nat /\ PerSecond \in Nat /\ expires[minted] \in Nat
    BY MiddlewareAssumption DEF JarInv, IInv, TypeOK, Untouched
  <2>4. QED
    BY <2>1, <2>2, <2>3 DEF LoginKept
<1>2. QED
  BY <1>1, JarInvariance, PTL

\* The cookie lasts as long as its session, to the second: the session that a
\* request extended is not lost to the browser (middleware.ts:136).
THEOREM CookieLastsAsLong == Spec => []CookieOutlivesSession
<1>1. JarInv => CookieOutlivesSession
  BY DEF JarInv, ItemFits, JarLasts, Untouched, CookieOutlivesSession
<1>2. QED
  BY <1>1, JarInvariance, PTL

-----------------------------------------------------------------------------
(* The walk over a payload: one round of the loop.                         *)

\* The slots of a container that the walk has left behind it.
Passed(o) ==
  {i \in 1..Len(Slots(o)) :
     o \in visited /\ \A n \in 1..Len(stack) : stack[n].source = o => i < stack[n].index}

\* Those of them that counted.
Taken == UNION {{o} \X {i \in Passed(o) : Counts(o, i)} : o \in Container}

Walking == status \in {"running", "done"}

\* A container has one frame at most, which has passed a number of its slots.
FramesFit ==
  /\ \A n \in 1..Len(stack) :
       stack[n].source \in visited /\ stack[n].index <= Len(Slots(stack[n].source)) + 1
  /\ \A m, n \in 1..Len(stack) : stack[m].source = stack[n].source => m = n

\* Only a visited container has a copy with anything in it, and a container is
\* in one copy, once: that of another which was visited.
CopiesFit ==
  /\ \A p \in Container : \A m \in 1..Len(target[p]) :
       /\ p \in visited
       /\ target[p][m].value \in Container => target[p][m].value \in visited \ {Root}
  /\ \A p, q \in Container : \A m \in 1..Len(target[p]), n \in 1..Len(target[q]) :
       target[p][m].value \in Container /\ target[p][m].value = target[q][n].value
         => p = q /\ m = n
  /\ \A o \in visited \ {Root} : \E p \in Container : \E m \in 1..Len(target[p]) :
       target[p][m].value = o

\* What was visited can be reached, in the copy and in the input.
ReachedFits ==
  /\ Root \in visited
  /\ \A S \in SUBSET Container : Closed(S, Copies) => visited \subseteq S
  /\ \A S \in SUBSET Container : Closed(S, Children) => visited \subseteq S

\* A copy holds what was passed and survives, in order, and nothing else.
KeptFits ==
  Walking => \A o \in Container :
    /\ {target[o][n].at : n \in 1..Len(target[o])} = Passed(o) \cap Surviving(o)
    /\ \A m, n \in 1..Len(target[o]) : m < n => target[o][m].at < target[o][n].at
    /\ \A n \in 1..Len(target[o]) :
         IsCopy(Slots(o)[target[o][n].at].value, target[o][n].value)
    /\ \A i \in Passed(o) \cap Surviving(o) :
         Slots(o)[i].value \in Container => Slots(o)[i].value \in visited

CountFits ==
  /\ Walking => count = Cardinality(Taken)
  /\ status = "NODE_EXCEEDED" => Cardinality(Counted(Reachable)) > MaxNodes

\* A frame has the depth of its container, and only the last may be too deep.
DepthFits ==
  /\ Walking => \E d \in Depths :
       /\ \A n \in 1..Len(stack) : stack[n].depth = d[stack[n].source]
       /\ \A o \in visited : d[o] > MaxDepth => stack # <<>> /\ o = Current.source
  /\ status = "DEPTH_EXCEEDED" => \E d \in Depths : \E o \in visited : d[o] > MaxDepth

WalkInv ==
  /\ WalkTypeOK
  /\ FramesFit
  /\ CopiesFit
  /\ ReachedFits
  /\ KeptFits
  /\ CountFits
  /\ DepthFits

\* The slot that the last frame f has come to is passed, and w is what its
\* copy would be.
Passes(n, f, w) ==
  /\ n = Len(stack) /\ f = stack[n] /\ status = "running"
  /\ f.index <= Len(Slots(f.source)) /\ f.depth <= MaxDepth
  /\ UNCHANGED <<input, jwt, status>>
  /\ count' = (IF Counts(f.source, f.index) THEN count + 1 ELSE count) /\ count' <= MaxNodes
  /\ IF Survives(f.source, f.index)
     THEN /\ target' = [target EXCEPT ![f.source] =
                          Append(target[f.source], [at |-> f.index, value |-> w])]
          /\ IsCopy(Slots(f.source)[f.index].value, w)
     ELSE target' = target

\* No container is entered.
Stays(n, f, w) ==
  /\ w \notin Container
  /\ Survives(f.source, f.index) /\ Slots(f.source)[f.index].value \in Container
       => Slots(f.source)[f.index].value \in visited
  /\ visited' = visited
  /\ stack' = [stack EXCEPT ![n] = [f EXCEPT !.index = @ + 1]]

Enters(n, f, w) ==
  /\ w \in Container \ visited
  /\ w = Slots(f.source)[f.index].value /\ Survives(f.source, f.index)
  /\ visited' = visited \cup {w}
  /\ stack' = Append([stack EXCEPT ![n] = [f EXCEPT !.index = @ + 1]], NewFrame(w, f.depth + 1))

Copied == Container \cup {Null, "plain", "text"}

\* The types of what the last frame has to do with.
LEMMA LastFrame ==
  ASSUME WalkTypeOK, status = "running"
  PROVE  /\ Len(stack) \in Nat \ {0}
         /\ Current \in Frame
         /\ \A n \in 1..Len(stack) : stack[n] \in Frame
  BY DEF WalkTypeOK, Current

\* The types of a container and its slots.
LEMMA SlotTypes ==
  ASSUME WalkTypeOK, NEW o \in Container
  PROVE  /\ Slots(o) \in Seq(Slot)
         /\ Len(Slots(o)) \in Nat
         /\ \A i \in 1..Len(Slots(o)) : Slots(o)[i] \in Slot
         /\ input.isArray[o] \in BOOLEAN
<1>1. input.slots \in [Container -> Seq(Slot)] /\ input.isArray \in [Container -> BOOLEAN]
  BY NormalizerAssumption DEF WalkTypeOK
<1>2. Slots(o) \in Seq(Slot)
  BY <1>1 DEF Slots
<1>3. QED
  BY <1>1, <1>2

\* A container is no value, nor what a value becomes.
LEMMA Apart ==
  /\ \A v \in Value \cup {Null, "text"} : v \notin Container
  /\ Root \in Container
  /\ MaxDepth \in Nat /\ MaxNodes \in Nat
  /\ IsFiniteSet(Container)
  BY NormalizerAssumption

\* A round of the loop that goes on passes a slot.
LEMMA RoundPasses ==
  ASSUME WalkTypeOK, SkipKey \/ ReadThrows \/ TakeValue \/ TakeContainer,
         NEW n, n = Len(stack), NEW f, f = Current
  PROVE  \E w \in Copied : Passes(n, f, w) /\ (Stays(n, f, w) \/ Enters(n, f, w))
<1>1. /\ AtSlot /\ status = "running"
      /\ f = stack[n] /\ f.index <= Len(Slots(f.source)) /\ f.depth <= MaxDepth
  BY DEF SkipKey, ReadThrows, TakeValue, TakeContainer, Countable, AtSlot, Current
<1>2. f \in Frame /\ f.source \in Container /\ f.index \in Nat \ {0} /\ n \in Nat \ {0}
  BY <1>1, LastFrame DEF Frame
<1>3. PICK s \in Slot : s = Slots(f.source)[f.index]
  BY <1>1, <1>2, SlotTypes
<1>4. Here = s
  BY <1>3 DEF Here
<1>5. Advance = [stack EXCEPT ![n] = [f EXCEPT !.index = @ + 1]]
  BY <1>1, <1>2 DEF Advance, WalkTypeOK
<1>6. /\ Survives(f.source, f.index) <=>
           ~Dropped(f.source, s) /\ (input.isArray[f.source] \/ s.value # "unsupported")
      /\ Counts(f.source, f.index) <=> ~Dropped(f.source, s) /\ s.value # "throws"
  BY <1>3 DEF Survives, Counts
<1>7. \A w : Put(w) => target' = [target EXCEPT ![f.source] =
                                    Append(target[f.source], [at |-> f.index, value |-> w])]
  BY <1>2 DEF Put, WalkTypeOK
<1>8. Current.source = f.source
  OBVIOUS
<1>9. count \in Nat /\ count <= MaxNodes
  BY <1>1, Apart DEF WalkTypeOK
<1>10. CASE SkipKey
  <2>1. /\ Dropped(f.source, s) /\ stack' = [stack EXCEPT ![n] = [f EXCEPT !.index = @ + 1]]
        /\ UNCHANGED <<input, jwt, visited, count, target, status>>
    BY <1>4, <1>5, <1>10 DEF SkipKey
  <2>2. Passes(n, f, Null)
    BY <1>1, <1>6, <1>9, <2>1 DEF Passes
  <2>3. Stays(n, f, Null)
    BY <1>6, <2>1, Apart DEF Stays
  <2>4. QED
    BY <2>2, <2>3 DEF Copied
<1>11. CASE ReadThrows
  <2>1. /\ ~Dropped(f.source, s) /\ s.value = "throws" /\ Put(Null)
        /\ stack' = [stack EXCEPT ![n] = [f EXCEPT !.index = @ + 1]]
        /\ UNCHANGED <<input, jwt, visited, count, status>>
    BY <1>4, <1>5, <1>11 DEF ReadThrows
  <2>2. IsCopy(s.value, Null) /\ s.value \notin Container
    BY <2>1, Apart, SMTT(30) DEF IsCopy, Value
  <2>3. Passes(n, f, Null)
    BY <1>1, <1>3, <1>6, <1>7, <1>9, <2>1, <2>2 DEF Passes
  <2>4. Stays(n, f, Null)
    BY <1>3, <2>1, <2>2, Apart DEF Stays
  <2>5. QED
    BY <2>3, <2>4 DEF Copied
<1>12. CASE TakeValue
  <2>1. /\ ~Dropped(f.source, s) /\ s.value # "throws" /\ s.value \in Value
        /\ count' = count + 1 /\ count' <= MaxNodes
        /\ stack' = [stack EXCEPT ![n] = [f EXCEPT !.index = @ + 1]]
        /\ UNCHANGED <<input, jwt, visited, status>>
    BY <1>4, <1>5, <1>9, <1>12, Apart DEF TakeValue, Countable, OverBudget
  <2>2. s.value \notin Container
    BY <2>1, Apart
  <2>3. PlaceValue
    BY <1>12 DEF TakeValue
  <2>4. \E w \in {Null, "text", "plain"} :
          IF Survives(f.source, f.index) THEN Put(w) /\ IsCopy(s.value, w) ELSE target' = target
    <3>1. CASE s.value = "unsupported"
      BY <1>4, <1>6, <1>8, <2>1, <2>2, <2>3, <3>1 DEF PlaceValue, IsCopy
    <3>2. CASE s.value = "date"
      BY <1>4, <1>6, <2>1, <2>2, <2>3, <3>2 DEF PlaceValue, IsCopy
    <3>3. CASE s.value = "plain"
      BY <1>4, <1>6, <2>1, <2>2, <2>3, <3>3 DEF PlaceValue, IsCopy
    <3>4. CASE s.value \notin {"unsupported", "date", "plain"}
      BY <1>4, <1>6, <2>1, <2>2, <2>3, <3>4 DEF PlaceValue, IsCopy
    <3>5. QED
      BY <3>1, <3>2, <3>3, <3>4
  <2>5. PICK w \in {Null, "text", "plain"} :
          IF Survives(f.source, f.index) THEN Put(w) /\ IsCopy(s.value, w) ELSE target' = target
    BY <2>4, SMTT(30)
  <2>6. Passes(n, f, w)
    BY <1>1, <1>3, <1>6, <1>7, <2>1, <2>5 DEF Passes
  <2>7. w \notin Container
    BY <2>5, Apart DEF Value
  <2>8. Stays(n, f, w)
    BY <1>3, <2>1, <2>2, <2>7 DEF Stays
  <2>9. QED
    BY <2>6, <2>8 DEF Copied
<1>13. CASE TakeContainer
  <2>1. /\ ~Dropped(f.source, s) /\ s.value # "throws" /\ s.value \in Container
        /\ count' = count + 1 /\ count' <= MaxNodes
        /\ UNCHANGED <<input, jwt, status>>
    BY <1>4, <1>9, <1>13, Apart DEF TakeContainer, Countable, OverBudget
  <2>2. Survives(f.source, f.index)
    BY <1>6, <2>1, Apart DEF Value
  <2>3. IsCopy(s.value, s.value) /\ IsCopy(s.value, Null)
    BY <2>1, Apart DEF IsCopy, Value
  <2>4. CASE s.value \in visited
    <3>1. /\ Put(Null) /\ stack' = [stack EXCEPT ![n] = [f EXCEPT !.index = @ + 1]]
          /\ visited' = visited
      <4>1. Put(Null) /\ stack' = Advance /\ UNCHANGED visited
        BY <1>4, <1>13, <2>4, Zenon DEF TakeContainer, Seen
      <4>2. QED
        BY <1>5, <4>1, Zenon
    <3>2. Passes(n, f, Null)
      BY <1>1, <1>3, <1>6, <1>7, <2>1, <2>2, <2>3, <3>1 DEF Passes
    <3>3. Stays(n, f, Null)
      BY <1>3, <2>4, <3>1, Apart DEF Stays
    <3>4. QED
      BY <3>2, <3>3 DEF Copied
  <2>5. CASE s.value \notin visited
    <3>1. /\ Put(s.value) /\ visited' = visited \cup {s.value}
          /\ stack' = Append([stack EXCEPT ![n] = [f EXCEPT !.index = @ + 1]],
                             NewFrame(s.value, f.depth + 1))
      <4>1. /\ Put(s.value) /\ visited' = visited \cup {s.value}
            /\ stack' = Append(Advance, NewFrame(s.value, Current.depth + 1))
        BY <1>4, <1>13, <2>5, Zenon DEF TakeContainer, Seen
      <4>2. QED
        BY <1>5, <4>1, Zenon
    <3>2. Passes(n, f, s.value)
      BY <1>1, <1>3, <1>6, <1>7, <2>1, <2>2, <2>3, <3>1 DEF Passes
    <3>3. Enters(n, f, s.value)
      BY <1>3, <2>1, <2>2, <2>5, <3>1 DEF Enters
    <3>4. QED
      BY <2>1, <3>2, <3>3 DEF Copied
  <2>6. QED
    BY <2>4, <2>5
<1>14. QED
  BY <1>10, <1>11, <1>12, <1>13

\* What is known of the slot that is passed.
LEMMA PassTypes ==
  ASSUME WalkTypeOK, NEW n, NEW f, NEW w \in Copied, Passes(n, f, w)
  PROVE  /\ n \in Nat \ {0} /\ n = Len(stack) /\ f = stack[n] /\ f \in Frame
         /\ f.source \in Container /\ f.index \in Nat \ {0} /\ f.depth \in 0..MaxDepth
         /\ f.index \in 1..Len(Slots(f.source)) /\ n \in 1..Len(stack)
         /\ [f EXCEPT !.index = @ + 1] \in Frame
         /\ \A m \in 1..n : stack[m] \in Frame
<1>1. /\ n \in Nat \ {0} /\ n = Len(stack) /\ f = stack[n] /\ f \in Frame
      /\ \A m \in 1..n : stack[m] \in Frame
  BY LastFrame DEF Passes, Current
<1>2. /\ f.source \in Container /\ f.index \in Nat \ {0} /\ f.depth \in 0..MaxDepth
      /\ [f EXCEPT !.index = @ + 1] \in Frame
  BY <1>1, Apart, SMTT(30) DEF Frame, Passes
<1>3. f.index \in 1..Len(Slots(f.source))
  BY <1>2, SlotTypes DEF Passes
<1>4. n \in 1..Len(stack)
  BY <1>1
<1>5. QED
  BY <1>1, <1>2, <1>3, <1>4

\* The frames after a slot was passed.
LEMMA FramesAfter ==
  ASSUME WalkTypeOK, NEW n, NEW f, NEW w \in Copied, Passes(n, f, w),
         Stays(n, f, w) \/ Enters(n, f, w)
  PROVE  /\ stack' \in Seq(Frame)
         /\ \A m \in 1..(n - 1) : stack'[m] = stack[m]
         /\ stack'[n] = [f EXCEPT !.index = @ + 1]
         /\ Stays(n, f, w) => Len(stack') = n
         /\ Enters(n, f, w) => /\ Len(stack') = n + 1
                               /\ stack'[n + 1] = NewFrame(w, f.depth + 1)
<1>1. PICK g \in Frame : g = [f EXCEPT !.index = @ + 1]
  BY PassTypes
<1>2. n \in Nat \ {0} /\ n = Len(stack) /\ stack \in Seq(Frame)
  BY PassTypes DEF WalkTypeOK
<1>3. PICK t : t = [stack EXCEPT ![n] = g]
  OBVIOUS
<1>4. /\ t \in Seq(Frame) /\ Len(t) = n /\ t[n] = g
      /\ \A m \in 1..(n - 1) : t[m] = stack[m]
  BY <1>2, <1>3, ExceptSeq
<1>5. CASE Stays(n, f, w)
  <2>1. stack' = t /\ ~Enters(n, f, w)
    BY <1>1, <1>3, <1>5 DEF Stays, Enters
  <2>2. QED
    BY <1>1, <1>4, <2>1
<1>6. CASE Enters(n, f, w)
  <2>1. stack' = Append(t, NewFrame(w, f.depth + 1)) /\ ~Stays(n, f, w)
    BY <1>1, <1>3, <1>6 DEF Stays, Enters
  <2>2. NewFrame(w, f.depth + 1) \in Frame
    <3>1. w \in Container /\ f.depth \in 0..MaxDepth /\ MaxDepth \in Nat
      BY <1>6, PassTypes, Apart DEF Enters
    <3>2. f.depth + 1 \in 0..(MaxDepth + 1)
      BY <3>1
    <3>3. QED
      BY <3>1, <3>2 DEF NewFrame, Frame
  <2>3. QED
    BY <1>1, <1>2, <1>4, <2>1, <2>2, AppendProperties, SMTT(30)
<1>7. QED
  BY <1>5, <1>6

\* The slots before the index of its frame are those that a container has passed.
LEMMA PassedHere ==
  ASSUME WalkTypeOK, FramesFit, NEW n \in 1..Len(stack)
  PROVE  Passed(stack[n].source) = 1..(stack[n].index - 1)
<1>1. stack[n] \in Frame /\ stack[n].source \in Container /\ stack[n].index \in Nat \ {0}
  <2>1. stack[n] \in Frame
    BY ElementOfSeq DEF WalkTypeOK
  <2>2. QED
    BY <2>1 DEF Frame
<1>2. PICK o \in Container : o = stack[n].source
  BY <1>1
<1>3. PICK k \in Nat \ {0} : k = stack[n].index
  BY <1>1
<1>4. o \in visited /\ k <= Len(Slots(o)) + 1 /\ \A m \in 1..Len(stack) : stack[m].source = o => m = n
  BY <1>2, <1>3 DEF FramesFit
<1>5. Len(Slots(o)) \in Nat
  BY SlotTypes
<1>6. \A i \in 1..Len(Slots(o)) : i \in Passed(o) <=> i < k
  BY <1>2, <1>3, <1>4 DEF Passed
<1>7. Passed(o) \subseteq 1..Len(Slots(o))
  BY DEF Passed
<1>8. \A i : i \in Passed(o) <=> i \in 1..(k - 1)
  <2>1. \A i \in 1..(k - 1) : i \in 1..Len(Slots(o)) /\ i < k
    BY <1>3, <1>4, <1>5
  <2>2. \A i \in 1..Len(Slots(o)) : i < k => i \in 1..(k - 1)
    BY <1>3, <1>5
  <2>3. QED
    BY <1>6, <1>7, <2>1, <2>2
<1>9. QED
  BY <1>2, <1>3, <1>8

\* The container of the last frame has passed one slot more, and the others none.
LEMMA PassedAfter ==
  ASSUME WalkTypeOK, FramesFit, NEW n, NEW f, NEW w \in Copied, Passes(n, f, w),
         Stays(n, f, w) \/ Enters(n, f, w), NEW o \in Container
  PROVE  /\ o = f.source => Passed(o)' = Passed(o) \cup {f.index} /\ f.index \notin Passed(o)
         /\ o # f.source => Passed(o)' = Passed(o)
<1>0. /\ \A m \in 1..(n - 1) : stack'[m] = stack[m]
      /\ stack'[n] = [f EXCEPT !.index = @ + 1]
      /\ Stays(n, f, w) => Len(stack') = n
      /\ Enters(n, f, w) => Len(stack') = n + 1 /\ stack'[n + 1] = NewFrame(w, f.depth + 1)
  BY FramesAfter
<1>1. /\ n \in Nat \ {0} /\ n = Len(stack) /\ f = stack[n] /\ f \in Frame
      /\ f.index \in Nat \ {0} /\ f.index \in 1..Len(Slots(f.source))
      /\ f.source \in visited
  <2>1. /\ n \in Nat \ {0} /\ n = Len(stack) /\ f = stack[n] /\ f \in Frame
        /\ f.index \in Nat \ {0} /\ f.index \in 1..Len(Slots(f.source))
    BY PassTypes
  <2>2. n \in 1..Len(stack)
    BY <2>1
  <2>3. QED
    BY <2>1, <2>2 DEF FramesFit
<1>2. PICK k \in Nat \ {0} : k = f.index
  BY <1>1
<1>3. PICK src : src = f.source
  OBVIOUS
<1>4. /\ \A m \in 1..(n - 1) : stack'[m] = stack[m]
      /\ stack'[n].source = src /\ stack'[n].index = k + 1
  BY <1>0, <1>1, <1>2, <1>3 DEF Frame
<1>5. \A m \in 1..n : stack[m].source = src => m = n
  BY <1>1, <1>3, SMTT(30) DEF FramesFit
<1>6. Slots(o)' = Slots(o) /\ Len(Slots(o)) \in Nat
  BY SlotTypes DEF Slots, Passes
<1>7. Passed(src) = 1..(k - 1)
  BY <1>1, <1>2, <1>3, PassedHere
<1>8. CASE o = src
  <2>1. o \in visited /\ o \in visited'
    BY <1>1, <1>3, <1>8 DEF Stays, Enters
  <2>2. \A m \in 1..Len(stack') : stack'[m].source = src => m = n
    <3>1. CASE Stays(n, f, w)
      <4>1. \A m \in 1..n : m \in 1..(n - 1) \/ m = n
        BY <1>1
      <4>2. \A m \in 1..(n - 1) : m \in 1..n /\ m # n
        BY <1>1
      <4>3. Len(stack') = n
        BY <1>0, <3>1
      <4>4. ASSUME NEW m \in 1..n, stack'[m].source = src
            PROVE  m = n
        <5>1. m \notin 1..(n - 1)
          BY <1>4, <1>5, <4>2, <4>4
        <5>2. QED
          BY <4>1, <5>1
      <4>5. QED
        BY <4>3, <4>4
    <3>2. CASE Enters(n, f, w)
      <4>1. stack'[n + 1].source = w /\ w # src /\ Len(stack') = n + 1
        <5>1. Len(stack') = n + 1 /\ stack'[n + 1] = NewFrame(w, f.depth + 1)
          BY <1>0, <3>2
        <5>2. NewFrame(w, f.depth + 1).source = w
          BY DEF NewFrame
        <5>3. w \notin visited
          BY <3>2 DEF Enters
        <5>4. QED
          BY <1>1, <1>3, <5>1, <5>2, <5>3
      <4>2. \A m \in 1..(n + 1) : m \in 1..(n - 1) \/ m = n \/ m = n + 1
        BY <1>1
      <4>3. \A m \in 1..(n - 1) : m \in 1..n /\ m # n
        BY <1>1
      <4>4. QED
        BY <1>4, <1>5, <4>1, <4>2, <4>3
    <3>3. QED
      BY <3>1, <3>2
  <2>3. n \in 1..Len(stack')
    BY <1>0, <1>1
  <2>4. \A i \in 1..Len(Slots(o)) : i \in Passed(o)' <=> i < k + 1
    BY <1>4, <1>6, <1>8, <2>1, <2>2, <2>3 DEF Passed
  <2>5. Passed(o)' \subseteq 1..Len(Slots(o))
    BY <1>6 DEF Passed
  <2>6. k \in 1..Len(Slots(o))
    BY <1>1, <1>2, <1>3, <1>8
  <2>7. \A i : i \in Passed(o)' <=> i \in 1..(k - 1) \/ i = k
    <3>1. \A i \in 1..(k - 1) : i \in 1..Len(Slots(o)) /\ i < k + 1
      BY <1>6, <2>6
    <3>2. \A i \in 1..Len(Slots(o)) : i < k + 1 => i \in 1..(k - 1) \/ i = k
      BY <1>6
    <3>3. k < k + 1
      OBVIOUS
    <3>4. QED
      BY <2>4, <2>5, <2>6, <3>1, <3>2, <3>3
  <2>8. QED
    BY <1>2, <1>3, <1>7, <1>8, <2>7
<1>9. CASE o # src
  <2>1. CASE o \in visited
    <3>1. \A m \in 1..Len(stack) : stack[m].source = o =>
            m \in 1..Len(stack') /\ stack'[m] = stack[m]
      BY <1>0, <1>1, <1>3, <1>4, <1>9
    <3>2. \A m \in 1..Len(stack') : stack'[m].source = o =>
            m \in 1..Len(stack) /\ stack'[m] = stack[m]
      <4>1. CASE Stays(n, f, w)
        <5>1. \A m \in 1..n : m \in 1..(n - 1) \/ m = n
          BY <1>1
        <5>2. QED
          BY <1>0, <1>1, <1>3, <1>4, <1>9, <4>1, <5>1
      <4>2. CASE Enters(n, f, w)
        <5>1. stack'[n + 1].source = w /\ w # o /\ Len(stack') = n + 1
          BY <1>0, <2>1, <4>2 DEF NewFrame, Enters
        <5>2. \A m \in 1..(n + 1) : m \in 1..(n - 1) \/ m = n \/ m = n + 1
          BY <1>1
        <5>3. \A m \in 1..(n - 1) : m \in 1..n
          BY <1>1
        <5>4. QED
          BY <1>1, <1>3, <1>4, <1>9, <5>1, <5>2, <5>3, SMTT(30)
      <4>3. QED
        BY <4>1, <4>2
    <3>3. o \in visited'
      BY <2>1 DEF Stays, Enters
    <3>4. QED
      BY <1>3, <1>6, <1>9, <2>1, <3>1, <3>2, <3>3 DEF Passed
  <2>2. CASE o \notin visited
    <3>1. Passed(o) = {}
      BY <2>2 DEF Passed
    <3>2. CASE o \notin visited'
      BY <1>3, <1>9, <3>1, <3>2 DEF Passed
    <3>3. CASE o \in visited'
      <4>1. Enters(n, f, w) /\ o = w
        BY <2>2, <3>3 DEF Stays, Enters
      <4>2. stack'[n + 1].source = o /\ stack'[n + 1].index = 1 /\ n + 1 \in 1..Len(stack')
        BY <1>0, <1>1, <4>1 DEF NewFrame
      <4>3. \A i \in 1..Len(Slots(o)) : ~(i < 1)
        OBVIOUS
      <4>4. Passed(o)' = {}
        BY <1>6, <4>2, <4>3 DEF Passed
      <4>5. QED
        BY <1>3, <1>9, <3>1, <4>4
    <3>4. QED
      BY <3>2, <3>3
  <2>3. QED
    BY <2>1, <2>2
<1>10. QED
  BY <1>8, <1>9, <1>3

-----------------------------------------------------------------------------
(* The invariant of the walk holds at first, and through a round.          *)

\* At first there is one frame, which has passed nothing.
LEMMA WalkInitFits == WalkInit => WalkInv
<1> SUFFICES ASSUME WalkInit
             PROVE  WalkInv
  OBVIOUS
<1>0. NewFrame(Root, 0) \in Frame
  BY Apart DEF NewFrame, Frame
<1>1. /\ stack \in Seq(Frame) /\ Len(stack) = 1 /\ stack # <<>>
      /\ stack[1] = [source |-> Root, index |-> 1, depth |-> 0]
      /\ visited = {Root} /\ count = 0 /\ status = "running"
      /\ \A o \in Container : target[o] = <<>>
  BY <1>0 DEF WalkInit, NewFrame
<1>2. WalkTypeOK
  <2>1. target \in [Container -> Seq(Placed)]
    BY DEF WalkInit
  <2>2. count \in 0..(IF status = "NODE_EXCEEDED" THEN MaxNodes + 1 ELSE MaxNodes)
    BY <1>1, Apart
  <2>3. QED
    BY <1>1, <2>1, <2>2, Apart DEF WalkTypeOK, WalkInit
<1>3. FramesFit
  <2>1. Len(Slots(Root)) \in Nat
    BY <1>2, Apart, SlotTypes
  <2>2. \A n \in 1..Len(stack) : n = 1
    BY <1>1
  <2>3. QED
    BY <1>1, <2>1, <2>2 DEF FramesFit
<1>4. CopiesFit
  BY <1>1 DEF CopiesFit
<1>5. ReachedFits
  BY <1>1 DEF ReachedFits, Closed
<1>6. ASSUME NEW o \in Container
      PROVE  Passed(o) = {}
  <2>1. CASE o = Root
    <3>1. 1 \in 1..Len(stack) /\ stack[1].source = o /\ stack[1].index = 1
      BY <1>1, <2>1
    <3>2. \A i \in 1..Len(Slots(o)) : ~(i < 1)
      OBVIOUS
    <3>3. QED
      BY <3>1, <3>2 DEF Passed
  <2>2. CASE o # Root
    BY <1>1, <2>2 DEF Passed
  <2>3. QED
    BY <2>1, <2>2
<1>7. KeptFits
  <2> SUFFICES ASSUME NEW o \in Container
               PROVE  /\ {target[o][n].at : n \in 1..Len(target[o])} = Passed(o) \cap Surviving(o)
                      /\ \A m, n \in 1..Len(target[o]) : m < n => target[o][m].at < target[o][n].at
                      /\ \A n \in 1..Len(target[o]) :
                           IsCopy(Slots(o)[target[o][n].at].value, target[o][n].value)
                      /\ \A i \in Passed(o) \cap Surviving(o) :
                           Slots(o)[i].value \in Container => Slots(o)[i].value \in visited
    BY DEF KeptFits
  <2>1. Len(target[o]) = 0
    BY <1>1
  <2>2. 1..Len(target[o]) = {}
    BY <2>1
  <2>3. QED
    BY <1>6, <2>2
<1>8. CountFits
  <2>1. Taken = {}
    BY <1>6 DEF Taken
  <2>2. Cardinality({}) = 0
    BY FS_EmptySet
  <2>3. QED
    BY <1>1, <2>1, <2>2 DEF CountFits
<1>9. DepthFits
  <2>1. PICK d : d = [o \in visited |-> 0]
    OBVIOUS
  <2>2. \A p \in Container : Copies[p] = {}
    BY <1>1 DEF Copies
  <2>3. d \in Depths
    BY <1>1, <2>1, <2>2, Apart DEF Depths
  <2>4. \A n \in 1..Len(stack) : stack[n].depth = d[stack[n].source]
    BY <1>1, <2>1
  <2>5. \A o \in visited : ~(d[o] > MaxDepth)
    BY <2>1, Apart
  <2>6. QED
    BY <1>1, <2>3, <2>4, <2>5 DEF DepthFits
<1>10. QED
  BY <1>2, <1>3, <1>4, <1>5, <1>7, <1>8, <1>9 DEF WalkInv

\* The types are kept when a slot is passed.
LEMMA PassKeepsTypes ==
  ASSUME WalkTypeOK, NEW n, NEW f, NEW w \in Copied, Passes(n, f, w),
         Stays(n, f, w) \/ Enters(n, f, w)
  PROVE  WalkTypeOK'
<1>0. /\ stack' \in Seq(Frame)
      /\ Stays(n, f, w) => Len(stack') = n
      /\ Enters(n, f, w) => Len(stack') = n + 1
  BY FramesAfter
<1>1. n \in Nat \ {0} /\ f.source \in Container /\ f.index \in Nat
  BY PassTypes
<1>2. stack' # <<>>
  BY <1>0, <1>1
<1>3. visited' \in SUBSET Container
  BY DEF WalkTypeOK, Stays, Enters
<1>4. target' \in [Container -> Seq(Placed)]
  <2>1. [at |-> f.index, value |-> w] \in Placed
    BY <1>1 DEF Placed, Copied
  <2>2. PICK s \in Seq(Placed) : s = Append(target[f.source], [at |-> f.index, value |-> w])
    BY <1>1, <2>1, AppendProperties DEF WalkTypeOK
  <2>3. target' = target \/ target' = [target EXCEPT ![f.source] = s]
    BY <2>2, SMTT(30) DEF Passes
  <2>4. QED
    BY <2>3 DEF WalkTypeOK
<1>5. count' \in 0..MaxNodes /\ status' = "running" /\ input' \in Inputs /\ jwt' \in BOOLEAN
  <2>1. count \in Nat /\ MaxNodes \in Nat
    BY Apart DEF Passes, WalkTypeOK
  <2>2. count' \in Nat
    BY <2>1 DEF Passes
  <2>3. QED
    BY <2>1, <2>2, SMTT(30) DEF Passes, WalkTypeOK
<1>6. QED
  BY <1>0, <1>2, <1>3, <1>4, <1>5 DEF WalkTypeOK

\* A container that is entered has a frame that no other had.
LEMMA PassKeepsFrames ==
  ASSUME WalkTypeOK, FramesFit, NEW n, NEW f, NEW w \in Copied, Passes(n, f, w),
         Stays(n, f, w) \/ Enters(n, f, w)
  PROVE  FramesFit'
<1>0. /\ \A m \in 1..(n - 1) : stack'[m] = stack[m]
      /\ stack'[n] = [f EXCEPT !.index = @ + 1]
      /\ Stays(n, f, w) => Len(stack') = n
      /\ Enters(n, f, w) => Len(stack') = n + 1 /\ stack'[n + 1] = NewFrame(w, f.depth + 1)
  BY FramesAfter
<1>1. /\ n \in Nat \ {0} /\ n = Len(stack) /\ f = stack[n] /\ f \in Frame
      /\ f.index \in Nat \ {0} /\ f.index \in 1..Len(Slots(f.source)) /\ f.source \in Container
  BY PassTypes
<1>2. \A o : Slots(o)' = Slots(o)
  BY SMTT(30) DEF Slots, Passes
<1>3. \A m \in 1..n : stack'[m].source = stack[m].source
  <2>1. \A m \in 1..n : m \in 1..(n - 1) \/ m = n
    BY <1>1
  <2>2. stack'[n].source = f.source
    BY <1>0, <1>1 DEF Frame
  <2>3. QED
    BY <1>0, <1>1, <2>1, <2>2, ZenonT(30)
<1>4. \A m \in 1..n : stack'[m].source \in visited /\ visited \subseteq visited'
  BY <1>1, <1>3 DEF FramesFit, Stays, Enters
<1>5. \A m \in 1..n : stack'[m].index <= Len(Slots(stack'[m].source)) + 1
  <2>1. \A m \in 1..n : m \in 1..(n - 1) \/ m = n
    BY <1>1
  <2>2. PICK k \in Nat : k = Len(Slots(f.source))
    BY <1>1, SlotTypes
  <2>3. stack'[n].index = f.index + 1
    BY <1>0, <1>1 DEF Frame
  <2>4. stack'[n].index <= k + 1
    BY <1>1, <2>2, <2>3
  <2>5. stack'[n].source = f.source
    BY <1>0, <1>1 DEF Frame
  <2>6. \A m \in 1..(n - 1) : m \in 1..Len(stack)
    BY <1>1
  <2>7. QED
    BY <1>0, <2>1, <2>2, <2>4, <2>5, <2>6 DEF FramesFit
<1>6. \A k, m \in 1..n : stack'[k].source = stack'[m].source => k = m
  BY <1>1, <1>3 DEF FramesFit
<1>7. CASE Stays(n, f, w)
  BY <1>0, <1>2, <1>4, <1>5, <1>6, <1>7 DEF FramesFit
<1>8. CASE Enters(n, f, w)
  <2>1. \A m \in 1..Len(stack') : m \in 1..n \/ m = n + 1
    BY <1>0, <1>1, <1>8, SMTT(30)
  <2>2. stack'[n + 1].source = w /\ stack'[n + 1].index = 1 /\ w \in visited' \ visited
    BY <1>0, <1>8 DEF NewFrame, Enters
  <2>3. w \in Container /\ Len(Slots(w)) \in Nat
    BY <1>8, SlotTypes DEF Enters
  <2>4. stack'[n + 1].index <= Len(Slots(stack'[n + 1].source)) + 1
    BY <2>2, <2>3
  <2>5. \A m \in 1..Len(stack') :
          /\ stack'[m].source \in visited'
          /\ stack'[m].index <= Len(Slots(stack'[m].source)) + 1
    BY <1>4, <1>5, <2>1, <2>2, <2>4
  <2>6. \A k, m \in 1..Len(stack') : stack'[k].source = stack'[m].source => k = m
    BY <1>4, <1>6, <2>1, <2>2
  <2>7. QED
    BY <1>2, <2>5, <2>6 DEF FramesFit
<1>9. QED
  BY <1>7, <1>8

\* What is placed is the last of its copy.
LEMMA CopyAfter ==
  ASSUME WalkTypeOK, NEW n, NEW f, NEW w \in Copied, Passes(n, f, w), NEW o \in Container
  PROVE  /\ target[o] \in Seq(Placed) /\ Len(target[o]) \in Nat
         /\ o # f.source \/ ~Survives(f.source, f.index) => target'[o] = target[o]
         /\ o = f.source /\ Survives(f.source, f.index) =>
              /\ Len(target'[o]) = Len(target[o]) + 1
              /\ \A m \in 1..Len(target[o]) : target'[o][m] = target[o][m]
              /\ target'[o][Len(target[o]) + 1].at = f.index
              /\ target'[o][Len(target[o]) + 1].value = w
<1>1. f.source \in Container /\ f.index \in Nat
  BY PassTypes
<1>2. target[o] \in Seq(Placed) /\ Len(target[o]) \in Nat
  BY DEF WalkTypeOK
<1>3. CASE o # f.source \/ ~Survives(f.source, f.index)
  <2>1. target'[o] = target[o]
    BY <1>1, <1>3 DEF Passes, WalkTypeOK
  <2>2. QED
    BY <1>2, <1>3, <2>1
<1>4. CASE o = f.source /\ Survives(f.source, f.index)
  <2>1. PICK e \in Placed : e = [at |-> f.index, value |-> w]
    BY <1>1, ZenonT(30) DEF Placed, Copied
  <2>2. target'[o] = Append(target[o], e)
    BY <1>1, <1>4, <2>1 DEF Passes, WalkTypeOK
  <2>3. QED
    BY <1>2, <1>4, <2>1, <2>2, AppendProperties
<1>5. QED
  BY <1>3, <1>4

\* The container of the last frame was visited.
LEMMA PassSource ==
  ASSUME WalkTypeOK, FramesFit, NEW n, NEW f, NEW w \in Copied, Passes(n, f, w)
  PROVE  f.source \in Container /\ f.source \in visited /\ f.index \in 1..Len(Slots(f.source))
<1>1. /\ n \in Nat \ {0} /\ n = Len(stack) /\ f = stack[n]
      /\ f.source \in Container /\ f.index \in 1..Len(Slots(f.source))
  BY PassTypes
<1>2. n \in 1..Len(stack)
  BY <1>1
<1>3. QED
  BY <1>1, <1>2 DEF FramesFit

\* The containers in a copy, after a step: the one that is entered is new.
LEMMA CopiesAfter ==
  ASSUME WalkTypeOK, NEW n, NEW f, NEW w \in Copied, Passes(n, f, w),
         Stays(n, f, w) \/ Enters(n, f, w), NEW o \in Container
  PROVE  Copies'[o] = IF Enters(n, f, w) /\ o = f.source THEN Copies[o] \cup {w} ELSE Copies[o]
<1>1. Copies[o] = {target[o][m].value : m \in 1..Len(target[o])} \cap Container
  BY DEF Copies
<1>2. Copies'[o] = {target'[o][m].value : m \in 1..Len(target'[o])} \cap Container
  BY DEF Copies
<1>3. /\ Len(target[o]) \in Nat
      /\ o # f.source \/ ~Survives(f.source, f.index) => target'[o] = target[o]
      /\ o = f.source /\ Survives(f.source, f.index) =>
              /\ Len(target'[o]) = Len(target[o]) + 1
              /\ \A m \in 1..Len(target[o]) : target'[o][m] = target[o][m]
              /\ target'[o][Len(target[o]) + 1].value = w
  BY CopyAfter
<1>4. CASE o # f.source \/ ~Survives(f.source, f.index)
  BY <1>1, <1>2, <1>3, <1>4 DEF Enters
<1>5. CASE o = f.source /\ Survives(f.source, f.index)
  <2>1. PICK k \in Nat : k = Len(target[o])
    BY <1>3
  <2>2. \A m \in 1..(k + 1) : m \in 1..k \/ m = k + 1
    BY <2>1
  <2>3. k + 1 \in 1..(k + 1) /\ \A m \in 1..k : m \in 1..(k + 1)
    BY <2>1
  <2>4. {target'[o][m].value : m \in 1..Len(target'[o])}
          = {target[o][m].value : m \in 1..Len(target[o])} \cup {w}
    <3>1. ASSUME NEW m \in 1..Len(target'[o])
          PROVE  \/ target'[o][m].value = w
                 \/ m \in 1..Len(target[o]) /\ target'[o][m].value = target[o][m].value
      BY <1>3, <1>5, <2>1, <2>2, <3>1, ZenonT(30)
    <3>2. ASSUME NEW m \in 1..Len(target[o])
          PROVE  m \in 1..Len(target'[o]) /\ target'[o][m].value = target[o][m].value
      BY <1>3, <1>5, <2>1, <2>3, <3>2
    <3>3. Len(target'[o]) \in 1..Len(target'[o]) /\ target'[o][Len(target'[o])].value = w
      BY <1>3, <1>5, <2>1, <2>3, SMTT(30)
    <3>4. QED
      BY <3>1, <3>2, <3>3
  <2>5. Enters(n, f, w) <=> w \in Container
    BY DEF Stays, Enters
  <2>6. ({target[o][m].value : m \in 1..Len(target[o])} \cup {w}) \cap Container
          = IF w \in Container THEN Copies[o] \cup {w} ELSE Copies[o]
    BY <1>1
  <2>7. Copies'[o] = IF w \in Container THEN Copies[o] \cup {w} ELSE Copies[o]
    BY <1>2, <2>4, <2>6
  <2>8. QED
    BY <1>5, <2>5, <2>7
<1>6. QED
  BY <1>4, <1>5

\* A container that is entered is in no copy yet.
LEMMA PassKeepsCopies ==
  ASSUME WalkTypeOK, FramesFit, CopiesFit, ReachedFits,
         NEW n, NEW f, NEW w \in Copied, Passes(n, f, w), Stays(n, f, w) \/ Enters(n, f, w)
  PROVE  CopiesFit'
<1>1. f.source \in Container /\ f.source \in visited /\ Root \in visited
  BY PassSource DEF ReachedFits
<1>2. visited \subseteq visited' /\ (w \in Container => w \in visited' \ visited)
  BY DEF Stays, Enters
<1>3. CASE ~Survives(f.source, f.index)
  <2>1. target' = target /\ visited' = visited
    BY <1>3 DEF Passes, Stays, Enters
  <2>2. QED
    BY <2>1 DEF CopiesFit
<1>4. CASE Survives(f.source, f.index)
  <2>1. PICK src \in Container : src = f.source
    BY <1>1
  <2>2. PICK k \in Nat : k = Len(target[src])
    BY CopyAfter
  <2>3. /\ \A o \in Container : o # src => target'[o] = target[o]
        /\ Len(target'[src]) = k + 1
        /\ \A m \in 1..k : target'[src][m] = target[src][m]
        /\ target'[src][k + 1].value = w
    <3>1. src = f.source /\ Survives(f.source, f.index)
      BY <1>4, <2>1
    <3>2. \A o \in Container : o # src => target'[o] = target[o]
      BY <3>1, CopyAfter
    <3>3. /\ Len(target'[src]) = Len(target[src]) + 1
          /\ \A m \in 1..Len(target[src]) : target'[src][m] = target[src][m]
          /\ target'[src][Len(target[src]) + 1].value = w
      BY <3>1, CopyAfter
    <3>4. QED
      BY <2>2, <3>2, <3>3
  <2>4. /\ \A m \in 1..(k + 1) : m \in 1..k \/ m = k + 1
        /\ k + 1 \in 1..(k + 1) /\ \A m \in 1..k : m \in 1..(k + 1)
    BY <2>2
  \* What was there is there, and nothing else but w.
  <2>5. ASSUME NEW p \in Container, NEW m \in 1..Len(target'[p])
        PROVE  \/ p = src /\ m = k + 1 /\ target'[p][m].value = w
               \/ m \in 1..Len(target[p]) /\ target'[p][m].value = target[p][m].value
    BY <2>2, <2>3, <2>4, <2>5
  <2>6. ASSUME NEW p \in Container, NEW m \in 1..Len(target[p])
        PROVE  m \in 1..Len(target'[p]) /\ target'[p][m].value = target[p][m].value
    BY <2>2, <2>3, <2>4, <2>6
  <2>7. \A p \in Container : \A m \in 1..Len(target[p]) : target[p][m].value # w \/ w \notin Container
    BY <1>2 DEF CopiesFit
  <2>8. \A p \in Container : \A m \in 1..Len(target'[p]) :
          /\ p \in visited'
          /\ target'[p][m].value \in Container => target'[p][m].value \in visited' \ {Root}
    BY <1>1, <1>2, <2>1, <2>5, SMTT(30) DEF CopiesFit
  <2>9. \A p, q \in Container : \A m \in 1..Len(target'[p]), j \in 1..Len(target'[q]) :
          target'[p][m].value \in Container /\ target'[p][m].value = target'[q][j].value
            => p = q /\ m = j
    <3> SUFFICES ASSUME NEW p \in Container, NEW q \in Container,
                        NEW m \in 1..Len(target'[p]), NEW j \in 1..Len(target'[q]),
                        target'[p][m].value \in Container,
                        target'[p][m].value = target'[q][j].value
                 PROVE  p = q /\ m = j
      OBVIOUS
    <3>1. \/ p = src /\ m = k + 1 /\ target'[p][m].value = w
          \/ m \in 1..Len(target[p]) /\ target'[p][m].value = target[p][m].value
      BY <2>5
    <3>2. \/ q = src /\ j = k + 1 /\ target'[q][j].value = w
          \/ j \in 1..Len(target[q]) /\ target'[q][j].value = target[q][j].value
      BY <2>5
    <3>3. CASE target'[p][m].value = w
      BY <2>7, <3>1, <3>2, <3>3
    <3>4. CASE target'[p][m].value # w
      BY <3>1, <3>2, <3>4 DEF CopiesFit
    <3>5. QED
      BY <3>3, <3>4
  <2>10. ASSUME NEW o \in visited' \ {Root}
         PROVE  \E p \in Container : \E m \in 1..Len(target'[p]) : target'[p][m].value = o
    <3>1. CASE o \in visited
      BY <2>6, <2>10, <3>1, SMTT(30) DEF CopiesFit
    <3>2. CASE o \notin visited
      <4>1. o = w
        BY <2>10, <3>2 DEF Stays, Enters
      <4>2. QED
        BY <2>3, <2>4, <4>1
    <3>3. QED
      BY <3>1, <3>2
  <2>11. QED
    BY <2>8, <2>9, <2>10 DEF CopiesFit
<1>5. QED
  BY <1>3, <1>4

\* What survives of an input does not change.
LEMMA SameInput ==
  ASSUME UNCHANGED <<input, jwt>>
  PROVE  /\ \A o : Slots(o)' = Slots(o)
         /\ \A o, i : Survives(o, i)' <=> Survives(o, i)
         /\ \A o, i : Counts(o, i)' <=> Counts(o, i)
         /\ \A o : Surviving(o)' = Surviving(o)
         /\ Children' = Children
         /\ Reachable' = Reachable
         /\ \A S : Counted(S)' = Counted(S)
<1>1. /\ \A o : Slots(o)' = Slots(o)
      /\ \A o, s : Dropped(o, s)' <=> Dropped(o, s)
      /\ input' = input
  BY DEF Slots, Dropped
<1>2. \A o, i : Survives(o, i)' <=> Survives(o, i)
  BY <1>1 DEF Survives
<1>3. \A o, i : Counts(o, i)' <=> Counts(o, i)
  BY <1>1 DEF Counts
<1>4. \A o : Surviving(o)' = Surviving(o)
  BY <1>1, <1>2 DEF Surviving
<1>5. Children' = Children
  BY <1>1, <1>4 DEF Children
<1>6. Reachable' = Reachable
  BY <1>5 DEF Reachable, Reach, Closed
<1>7. \A S : Counted(S)' = Counted(S)
  BY <1>1, <1>3 DEF Counted
<1>8. QED
  BY <1>1, <1>2, <1>3, <1>4, <1>5, <1>6, <1>7

\* The container that is entered is reached from the one of its slot.
LEMMA PassKeepsReached ==
  ASSUME WalkTypeOK, FramesFit, ReachedFits,
         NEW n, NEW f, NEW w \in Copied, Passes(n, f, w), Stays(n, f, w) \/ Enters(n, f, w)
  PROVE  ReachedFits'
<1>1. f.source \in Container /\ f.source \in visited /\ f.index \in 1..Len(Slots(f.source))
  BY PassSource
<1>2. Root \in visited'
  BY DEF ReachedFits, Stays, Enters
<1>3. Children' = Children
  BY SameInput DEF Passes
<1>4. Enters(n, f, w) => w \in Children[f.source]
  BY <1>1 DEF Enters, Children, Surviving
<1>5. \A o \in Container : Copies[o] \subseteq Copies'[o]
  BY CopiesAfter
<1>6. Enters(n, f, w) => w \in Copies'[f.source]
  BY <1>1, CopiesAfter
<1>7. visited' = visited \/ (Enters(n, f, w) /\ visited' = visited \cup {w})
  BY DEF Stays, Enters
<1>8. ASSUME NEW S \in SUBSET Container, Closed(S, Copies')
      PROVE  visited' \subseteq S
  <2>1. Closed(S, Copies)
    BY <1>5, <1>8 DEF Closed
  <2>2. visited \subseteq S
    BY <2>1 DEF ReachedFits
  <2>3. QED
    BY <1>1, <1>6, <1>7, <1>8, <2>2 DEF Closed
<1>9. ASSUME NEW S \in SUBSET Container, Closed(S, Children)
      PROVE  visited' \subseteq S
  <2>1. visited \subseteq S
    BY <1>9 DEF ReachedFits
  <2>2. QED
    BY <1>1, <1>4, <1>7, <1>9, <2>1 DEF Closed
<1>10. \A S : Closed(S, Copies') <=> Closed(S, Copies)'
  BY DEF Closed
<1>11. \A S : Closed(S, Children') <=> Closed(S, Children)'
  BY DEF Closed
<1>12. QED
  BY <1>2, <1>3, <1>8, <1>9, <1>10, <1>11 DEF ReachedFits

\* The slot that is passed comes after the others of its copy.
LEMMA PassKeepsKept ==
  ASSUME WalkTypeOK, FramesFit, KeptFits,
         NEW n, NEW f, NEW w \in Copied, Passes(n, f, w), Stays(n, f, w) \/ Enters(n, f, w)
  PROVE  KeptFits'
<1> DEFINE Held(o) == {target[o][m].at : m \in 1..Len(target[o])}
           InOrder(o) == \A m, j \in 1..Len(target[o]) : m < j => target[o][m].at < target[o][j].at
           AreCopies(o) == \A m \in 1..Len(target[o]) :
                             IsCopy(Slots(o)[target[o][m].at].value, target[o][m].value)
           AreVisited(o) == \A i \in Passed(o) \cap Surviving(o) :
                              Slots(o)[i].value \in Container => Slots(o)[i].value \in visited
<1> SUFFICES ASSUME NEW o \in Container
             PROVE  /\ Held(o)' = Passed(o)' \cap Surviving(o)'
                    /\ InOrder(o)' /\ AreCopies(o)' /\ AreVisited(o)'
  BY SMTT(30) DEF KeptFits
<1>1. Held(o) = Passed(o) \cap Surviving(o) /\ InOrder(o) /\ AreCopies(o) /\ AreVisited(o)
  BY DEF KeptFits, Walking, Passes
<1>2. Slots(o)' = Slots(o) /\ Surviving(o)' = Surviving(o)
  BY SameInput DEF Passes
<1>3. visited \subseteq visited'
  BY DEF Stays, Enters
<1>4. /\ o = f.source => Passed(o)' = Passed(o) \cup {f.index} /\ f.index \notin Passed(o)
      /\ o # f.source => Passed(o)' = Passed(o)
  BY PassedAfter
<1>5. CASE o # f.source
  <2>1. target'[o] = target[o] /\ Passed(o)' = Passed(o)
    BY <1>4, <1>5, CopyAfter
  <2>2. Held(o)' = Held(o) /\ (InOrder(o)' <=> InOrder(o))
    BY <2>1
  <2>3. AreCopies(o)'
    BY <1>1, <1>2, <2>1
  <2>4. AreVisited(o)'
    BY <1>1, <1>2, <1>3, <2>1
  <2>5. QED
    BY <1>1, <1>2, <2>1, <2>2, <2>3, <2>4
<1>6. CASE o = f.source
  <2>1. PICK k \in Nat \ {0} : k = f.index
    BY PassTypes
  <2>2. k \in 1..Len(Slots(o))
    BY <1>6, <2>1, PassSource
  <2>3. Passed(o)' = Passed(o) \cup {k}
    BY <1>4, <1>6, <2>1
  <2>4. k \in Surviving(o) <=> Survives(o, k)
    BY <2>2 DEF Surviving
  <2>5. Passed(o) = 1..(k - 1)
    <3>1. Len(stack) \in 1..Len(stack) /\ f = stack[Len(stack)]
      BY PassTypes
    <3>2. QED
      BY <1>6, <2>1, <3>1, PassedHere
  <2>6. CASE ~Survives(o, k)
    <3>1. target'[o] = target[o]
      BY <1>6, <2>1, <2>6, CopyAfter
    <3>2. Passed(o)' \cap Surviving(o) = Passed(o) \cap Surviving(o)
      BY <2>3, <2>4, <2>6
    <3>3. Held(o)' = Held(o) /\ (InOrder(o)' <=> InOrder(o))
      BY <3>1
    <3>4. AreCopies(o)'
      BY <1>1, <1>2, <3>1
    <3>5. AreVisited(o)'
      BY <1>1, <1>2, <1>3, <3>2
    <3>6. QED
      BY <1>1, <1>2, <3>2, <3>3, <3>4, <3>5
  <2>7. CASE Survives(o, k)
    <3>1. PICK l \in Nat : l = Len(target[o])
      BY CopyAfter
    <3>2. /\ Len(target'[o]) = l + 1
          /\ \A m \in 1..l : target'[o][m] = target[o][m]
          /\ target'[o][l + 1].at = k /\ target'[o][l + 1].value = w
      <4>1. Survives(f.source, f.index)
        BY <1>6, <2>1, <2>7
      <4>2. /\ Len(target'[o]) = Len(target[o]) + 1
            /\ \A m \in 1..Len(target[o]) : target'[o][m] = target[o][m]
            /\ target'[o][Len(target[o]) + 1].at = f.index
            /\ target'[o][Len(target[o]) + 1].value = w
        BY <1>6, <4>1, CopyAfter
      <4>3. QED
        BY <2>1, <3>1, <4>2
    <3>3. /\ \A m \in 1..(l + 1) : m \in 1..l \/ m = l + 1
          /\ l + 1 \in 1..(l + 1) /\ \A m \in 1..l : m \in 1..(l + 1)
      BY <3>1
    <3>4. ASSUME NEW m \in 1..Len(target'[o])
          PROVE  \/ m = l + 1 /\ target'[o][m].at = k /\ target'[o][m].value = w
                 \/ m \in 1..l /\ target'[o][m] = target[o][m]
      BY <3>2, <3>3, <3>4
    <3>5. \A m \in 1..l : m \in 1..Len(target'[o])
      BY <3>2, <3>3
    <3>6. l + 1 \in 1..Len(target'[o])
      BY <3>2, <3>3
    <3>7. Held(o)' = Held(o) \cup {k}
      <4>1. ASSUME NEW m \in 1..Len(target'[o])
            PROVE  target'[o][m].at \in Held(o) \cup {k}
        BY <3>1, <3>4, SMTT(30)
      <4>2. ASSUME NEW m \in 1..Len(target[o])
            PROVE  target[o][m].at \in Held(o)'
        BY <3>1, <3>2, <3>5
      <4>3. k \in Held(o)'
        BY <3>2, <3>6
      <4>4. QED
        BY <4>1, <4>2, <4>3
    <3>8. Held(o)' = Passed(o)' \cap Surviving(o)
      BY <1>1, <2>3, <2>4, <2>7, <3>7
    <3>9. \A m \in 1..l : target[o][m].at \in 1..(k - 1)
      BY <1>1, <2>5, <3>1
    <3>10. InOrder(o)'
      <4> SUFFICES ASSUME NEW m \in 1..Len(target'[o]), NEW j \in 1..Len(target'[o]), m < j
                   PROVE  target'[o][m].at < target'[o][j].at
        OBVIOUS
      <4>1. m \in 1..l
        BY <3>2, <3>4
      <4>2. CASE j = l + 1
        <5>1. target[o][m].at < k
          BY <3>9, <4>1
        <5>2. QED
          BY <3>2, <4>1, <4>2, <5>1
      <4>3. CASE j # l + 1
        <5>1. j \in 1..l
          BY <3>4, <4>3
        <5>2. QED
          BY <1>1, <3>1, <3>2, <4>1, <5>1
      <4>4. QED
        BY <4>2, <4>3
    <3>11. AreCopies(o)'
      <4> SUFFICES ASSUME NEW m \in 1..Len(target'[o])
                   PROVE  IsCopy(Slots(o)[target'[o][m].at].value, target'[o][m].value)
        BY <1>2, SMTT(30) DEF IsCopy
      <4>1. IsCopy(Slots(o)[k].value, w)
        BY <1>6, <2>1, <2>7 DEF Passes
      <4>2. QED
        BY <1>1, <3>1, <3>4, <4>1, ZenonT(30)
    <3>12. AreVisited(o)'
      <4>1. Slots(o)[k].value \in Container => Slots(o)[k].value \in visited'
        BY <1>6, <2>1, <2>7, <1>3 DEF Stays, Enters
      <4>2. QED
        BY <1>1, <1>2, <1>3, <2>3, <4>1
    <3>13. QED
      BY <1>2, <3>8, <3>10, <3>11, <3>12
  <2>8. QED
    BY <2>6, <2>7
<1>7. QED
  BY <1>5, <1>6

-----------------------------------------------------------------------------
(* Counting.                                                               *)

\* An input is finite.
LEMMA SlotsFinite ==
  ASSUME WalkTypeOK, NEW S \in SUBSET Container
  PROVE  IsFiniteSet(Counted(S))
<1> DEFINE T(o) == {o} \X {i \in 1..Len(Slots(o)) : Counts(o, i)}
           All == {T(o) : o \in S}
<1>1. IsFiniteSet(S)
  BY Apart, FS_Subset
<1>2. ASSUME NEW o \in S
      PROVE  IsFiniteSet(T(o))
  <2>1. Len(Slots(o)) \in Nat
    BY <1>2, SlotTypes
  <2>2. IsFiniteSet(1..Len(Slots(o)))
    BY <2>1, FS_Interval
  <2>3. {i \in 1..Len(Slots(o)) : Counts(o, i)} \in SUBSET (1..Len(Slots(o)))
    OBVIOUS
  <2>4. IsFiniteSet({i \in 1..Len(Slots(o)) : Counts(o, i)})
    BY <2>2, <2>3, FS_Subset
  <2>5. IsFiniteSet({o})
    BY FS_Singleton
  <2>6. QED
    BY <2>4, <2>5, FS_Product
<1> HIDE DEF T
<1>3. [o \in S |-> T(o)] \in Surjection(S, All)
  BY DEF Surjection
<1>4. IsFiniteSet(All)
  BY <1>1, <1>3, FS_Surjection
<1>5. \A t \in All : IsFiniteSet(t)
  BY <1>2
<1>6. IsFiniteSet(UNION All)
  BY <1>4, <1>5, FS_UNION
<1>7. Counted(S) = UNION All
  BY DEF Counted, T
<1>8. QED
  BY <1>6, <1>7

\* The slots that were taken count, and are of containers that were visited.
LEMMA TakenFits ==
  ASSUME WalkTypeOK
  PROVE  Taken \subseteq Counted(visited) /\ IsFiniteSet(Taken)
<1>1. Taken \subseteq Counted(visited)
  BY DEF Taken, Counted, Passed
<1>2. visited \in SUBSET Container
  BY DEF WalkTypeOK
<1>3. IsFiniteSet(Counted(visited))
  BY <1>2, SlotsFinite
<1>4. QED
  BY <1>1, <1>3, FS_Subset

\* What was visited follows from the input alone.
LEMMA VisitedReachable ==
  ASSUME WalkTypeOK, ReachedFits
  PROVE  visited \subseteq Reachable
  BY DEF Reachable, Reach, ReachedFits, WalkTypeOK

\* One slot more is taken when one counts.
LEMMA PassKeepsCount ==
  ASSUME WalkTypeOK, FramesFit, CountFits,
         NEW n, NEW f, NEW w \in Copied, Passes(n, f, w), Stays(n, f, w) \/ Enters(n, f, w)
  PROVE  CountFits'
<1>1. count = Cardinality(Taken) /\ status' = "running"
  BY DEF CountFits, Walking, Passes
<1>2. \A o, i : Counts(o, i)' <=> Counts(o, i)
  BY SameInput DEF Passes
<1>3. f.source \in Container
  BY PassSource
<1>4. \A o \in Container :
        /\ o = f.source => Passed(o)' = Passed(o) \cup {f.index} /\ f.index \notin Passed(o)
        /\ o # f.source => Passed(o)' = Passed(o)
  BY PassedAfter
<1>5. CASE Counts(f.source, f.index)
  <2>1. Taken' = Taken \cup {<<f.source, f.index>>}
    BY <1>2, <1>3, <1>4, <1>5 DEF Taken
  <2>2. <<f.source, f.index>> \notin Taken
    BY <1>4 DEF Taken
  <2>3. Cardinality(Taken') = Cardinality(Taken) + 1
    BY <2>1, <2>2, TakenFits, FS_AddElement
  <2>4. count' = count + 1
    BY <1>5 DEF Passes
  <2>5. QED
    BY <1>1, <2>3, <2>4 DEF CountFits, Walking
<1>6. CASE ~Counts(f.source, f.index)
  <2>1. Taken' = Taken
    BY <1>2, <1>3, <1>4, <1>6 DEF Taken
  <2>2. count' = count
    BY <1>6 DEF Passes
  <2>3. QED
    BY <1>1, <2>1, <2>2 DEF CountFits, Walking
<1>7. QED
  BY <1>5, <1>6

\* A container that is entered lies one deeper than the one of its slot.
LEMMA PassKeepsDepth ==
  ASSUME WalkTypeOK, FramesFit, CopiesFit, ReachedFits, DepthFits,
         NEW n, NEW f, NEW w \in Copied, Passes(n, f, w), Stays(n, f, w) \/ Enters(n, f, w)
  PROVE  DepthFits'
<1>1. PICK d \in Depths :
        /\ \A m \in 1..Len(stack) : stack[m].depth = d[stack[m].source]
        /\ \A o \in visited : d[o] > MaxDepth => stack # <<>> /\ o = Current.source
  BY DEF DepthFits, Walking, Passes
<1>2. /\ n \in Nat \ {0} /\ n = Len(stack) /\ f = stack[n] /\ f \in Frame
      /\ f.source \in Container /\ f.depth \in 0..MaxDepth /\ n \in 1..Len(stack)
  BY PassTypes
<1>3. f.source \in visited /\ Current = f
  BY <1>2, PassSource DEF Current
<1>4. d[f.source] = f.depth
  BY <1>1, <1>2
<1>5. \A o \in visited : ~(d[o] > MaxDepth)
  BY <1>1, <1>2, <1>3, <1>4, Apart
<1>6. /\ \A m \in 1..(n - 1) : stack'[m] = stack[m]
      /\ stack'[n] = [f EXCEPT !.index = @ + 1]
      /\ Stays(n, f, w) => Len(stack') = n
      /\ Enters(n, f, w) => Len(stack') = n + 1 /\ stack'[n + 1] = NewFrame(w, f.depth + 1)
  BY FramesAfter, ZenonT(30)
<1>7. \A m \in 1..n : stack'[m].source \in visited /\ stack'[m].depth = d[stack'[m].source]
  <2>1. \A m \in 1..n : m \in 1..(n - 1) \/ m = n
    BY <1>2
  <2>2. stack'[n].source = f.source /\ stack'[n].depth = f.depth
    BY <1>2, <1>6 DEF Frame
  <2>3. \A m \in 1..(n - 1) : m \in 1..Len(stack)
    BY <1>2
  <2>4. \A m \in 1..Len(stack) : stack[m].source \in visited
    BY DEF FramesFit
  <2>5. QED
    BY <1>1, <1>3, <1>4, <1>6, <2>1, <2>2, <2>3, <2>4
<1>8. /\ d \in [visited -> 0..MaxDepth + 1] /\ d[Root] = 0 /\ Root \in visited
      /\ \A p \in visited : \A o \in Copies[p] : d[o] = d[p] + 1
  BY <1>1 DEF Depths, ReachedFits
<1>9. status' = "running"
  BY DEF Passes
<1>10. CASE Stays(n, f, w)
  <2>1. ~Enters(n, f, w) /\ visited' = visited
    BY <1>10 DEF Stays, Enters
  <2>2. \A o \in Container : Copies'[o] = Copies[o]
    BY <1>10, <2>1, CopiesAfter, ZenonT(30)
  <2>3. visited \subseteq Container
    BY DEF WalkTypeOK
  <2>4. d \in Depths'
    BY <1>8, <2>1, <2>2, <2>3 DEF Depths
  <2>5. \A m \in 1..Len(stack') : stack'[m].depth = d[stack'[m].source]
    BY <1>6, <1>7, <1>10
  <2>6. QED
    BY <1>5, <1>9, <2>1, <2>4, <2>5 DEF DepthFits, Walking
<1>11. CASE Enters(n, f, w)
  <2>1. w \in Container \ visited /\ visited' = visited \cup {w} /\ visited \subseteq Container
    BY <1>11 DEF Enters, WalkTypeOK
  <2>2. PICK e : e = [o \in visited' |-> IF o = w THEN f.depth + 1 ELSE d[o]]
    OBVIOUS
  <2>3. e[w] = f.depth + 1 /\ \A o \in visited : e[o] = d[o]
    BY <2>1, <2>2
  <2>4. f.depth + 1 \in 0..(MaxDepth + 1)
    BY <1>2, Apart
  <2>5. e \in [visited' -> 0..MaxDepth + 1]
    BY <1>8, <2>1, <2>2, <2>4
  <2>6. e[Root] = 0
    BY <1>8, <2>3
  <2>7. \A o \in Container : Copies'[o] = IF o = f.source THEN Copies[o] \cup {w} ELSE Copies[o]
    BY <1>11, CopiesAfter
  <2>8. Copies[w] = {}
    BY <2>1 DEF Copies, CopiesFit
  <2>9. \A p \in visited : Copies[p] \subseteq visited
    BY <2>1 DEF Copies, CopiesFit
  <2>10. ASSUME NEW p \in visited', NEW o \in Copies'[p]
         PROVE  e[o] = e[p] + 1
    <3>1. CASE p = w
      BY <1>3, <2>1, <2>7, <2>8, <2>10, <3>1
    <3>2. CASE p # w /\ o \in Copies[p]
      BY <1>8, <2>1, <2>3, <2>9, <2>10, <3>2
    <3>3. CASE p # w /\ o \notin Copies[p]
      BY <1>3, <1>4, <2>1, <2>3, <2>7, <2>10, <3>3, ZenonT(30)
    <3>4. QED
      BY <3>1, <3>2, <3>3
  <2>11. e \in Depths'
    BY <2>5, <2>6, <2>10 DEF Depths
  <2>12. stack'[n + 1].source = w /\ stack'[n + 1].depth = f.depth + 1 /\ Len(stack') = n + 1
    BY <1>6, <1>11 DEF NewFrame
  <2>13. \A m \in 1..Len(stack') : stack'[m].depth = e[stack'[m].source]
    <3>1. \A m \in 1..Len(stack') : m \in 1..n \/ m = n + 1
      BY <1>2, <2>12
    <3>2. QED
      BY <1>7, <2>3, <2>12, <3>1
  <2>14. stack' # <<>> /\ Current'.source = w
    BY <1>2, <2>12 DEF Current
  <2>15. \A o \in visited' : e[o] > MaxDepth => o = w
    BY <1>5, <2>1, <2>3
  <2>16. QED
    BY <1>9, <2>11, <2>13, <2>14, <2>15 DEF DepthFits, Walking
<1>12. QED
  BY <1>10, <1>11

-----------------------------------------------------------------------------
(* The invariant holds through the last rounds.                            *)

\* The last slot of a container was the one before.
LEMMA PopFits ==
  ASSUME WalkInv, PopFrame
  PROVE  WalkInv'
<1> WalkTypeOK /\ FramesFit /\ CopiesFit /\ ReachedFits /\ KeptFits /\ CountFits /\ DepthFits
  BY DEF WalkInv
<1>1. PICK n \in Nat \ {0} : n = Len(stack)
  BY LastFrame DEF PopFrame
<1>2. PICK f \in Frame : f = stack[n]
  BY <1>1, LastFrame DEF PopFrame, Current
<1>3. /\ f.source \in Container /\ f.index \in Nat \ {0} /\ f.depth \in 0..MaxDepth
      /\ f.index > Len(Slots(f.source))
      /\ stack' = SubSeq(stack, 1, n - 1)
      /\ status' = (IF n = 1 THEN "done" ELSE "running")
      /\ UNCHANGED <<input, jwt, visited, count, target>> /\ status = "running"
  BY <1>1, <1>2, Apart DEF PopFrame, Current, Frame
<1>4. \A m \in 1..n : stack[m] \in Frame
  BY <1>1, <1>3, LastFrame
<1>5. /\ stack' \in Seq(Frame) /\ Len(stack') = n - 1
      /\ \A m \in 1..(n - 1) : stack'[m] = stack[m]
  <2>1. \A m \in 1..(n - 1) : stack[m] \in Frame
    BY <1>4
  <2>2. PICK l \in Nat : l = n - 1
    BY <1>1
  <2>3. /\ SubSeq(stack, 1, l) \in Seq(Frame)
        /\ Len(SubSeq(stack, 1, l)) = IF 1 <= l THEN l - 1 + 1 ELSE 0
        /\ \A m \in 1..(l - 1 + 1) : SubSeq(stack, 1, l)[m] = stack[1 + m - 1]
    BY <2>1, <2>2, SubSeqProperties
  <2>4. \A m \in 1..l : m \in 1..(l - 1 + 1) /\ 1 + m - 1 = m
    BY <2>2
  <2>5. QED
    BY <1>3, <2>2, <2>3, <2>4
<1>6. stack' # <<>> <=> n # 1
  <2>1. stack' # <<>> <=> Len(stack') # 0
    BY <1>5, EmptySeq
  <2>2. QED
    BY <1>1, <1>5, <2>1
<1>7. WalkTypeOK'
  BY <1>3, <1>5, <1>6 DEF WalkTypeOK
<1>8. /\ \A o : Slots(o)' = Slots(o)
      /\ \A o : Surviving(o)' = Surviving(o)
      /\ \A o, i : Counts(o, i)' <=> Counts(o, i)
      /\ Children' = Children
  BY <1>3, SameInput
<1>9. \A m \in 1..Len(stack') : m \in 1..Len(stack) /\ m # n /\ stack'[m] = stack[m]
  BY <1>1, <1>5
<1>10. FramesFit'
  <2>1. \A m \in 1..Len(stack') :
          stack'[m].source \in visited /\ stack'[m].index <= Len(Slots(stack'[m].source)) + 1
    BY <1>9 DEF FramesFit
  <2>2. \A k, m \in 1..Len(stack') : stack'[k].source = stack'[m].source => k = m
    BY <1>9 DEF FramesFit
  <2>3. visited' = visited /\ \A o : Slots(o)' = Slots(o)
    BY <1>3, <1>8
  <2>4. QED
    BY <2>1, <2>2, <2>3 DEF FramesFit
<1>11. Copies' = Copies
  BY <1>3 DEF Copies
<1>12. CopiesFit' /\ ReachedFits'
  BY <1>3, <1>8, <1>11 DEF CopiesFit, ReachedFits, Closed
<1>13. ASSUME NEW o \in Container
       PROVE  Passed(o)' = Passed(o)
  <2>1. ASSUME NEW i \in 1..Len(Slots(o)), i \in Passed(o)
        PROVE  i \in Passed(o)'
    BY <1>3, <1>8, <1>9, <2>1 DEF Passed
  <2>2. ASSUME NEW i \in 1..Len(Slots(o)), i \in Passed(o)'
        PROVE  i \in Passed(o)
    <3>1. \A m \in 1..Len(stack) : m \in 1..Len(stack') \/ m = n
      BY <1>1, <1>5
    <3>2. stack[n].source = o => i < stack[n].index
      <4>1. Len(Slots(o)) \in Nat
        BY SlotTypes
      <4>2. PICK k \in Nat : k = f.index
        BY <1>3
      <4>3. f.source = o => k > Len(Slots(o))
        BY <1>3, <4>2
      <4>4. f.source = o => i < k
        BY <4>1, <4>2, <4>3
      <4>5. QED
        BY <1>2, <4>2, <4>4
    <3>3. QED
      BY <1>3, <1>8, <1>9, <2>2, <3>1, <3>2 DEF Passed
  <2>3. Passed(o) \subseteq 1..Len(Slots(o)) /\ Passed(o)' \subseteq 1..Len(Slots(o))
    BY <1>8 DEF Passed
  <2>4. QED
    BY <2>1, <2>2, <2>3
<1>14. Walking /\ Walking'
  BY <1>3, SMTT(30) DEF Walking
<1>15. KeptFits'
  BY <1>3, <1>8, <1>13, <1>14, SMTT(30) DEF KeptFits, IsCopy
<1>16. CountFits'
  <2>1. Taken' = Taken
    BY <1>8, <1>13 DEF Taken
  <2>2. QED
    BY <1>3, <1>14, <2>1 DEF CountFits
<1>17. DepthFits'
  <2>1. PICK d \in Depths :
          /\ \A m \in 1..Len(stack) : stack[m].depth = d[stack[m].source]
          /\ \A o \in visited : d[o] > MaxDepth => stack # <<>> /\ o = Current.source
    BY <1>14 DEF DepthFits
  <2>2. d[f.source] = f.depth
    BY <1>1, <1>2, <2>1
  <2>3. Current = f
    BY <1>1, <1>2 DEF Current
  <2>4. \A o \in visited : ~(d[o] > MaxDepth)
    BY <1>3, <2>1, <2>2, <2>3, Apart
  <2>5. d \in Depths'
    BY <1>3, <1>11 DEF Depths
  <2>6. \A m \in 1..Len(stack') : stack'[m].depth = d[stack'[m].source]
    BY <1>9, <2>1
  <2>7. QED
    BY <1>3, <2>4, <2>5, <2>6 DEF DepthFits
<1>18. QED
  BY <1>7, <1>10, <1>12, <1>15, <1>16, <1>17 DEF WalkInv

\* The walk is given up: what it found out is why.
LEMMA RefusalFits ==
  ASSUME WalkInv, TooDeep \/ TooMany
  PROVE  WalkInv'
<1> WalkTypeOK /\ FramesFit /\ CopiesFit /\ ReachedFits /\ KeptFits /\ CountFits /\ DepthFits
  BY DEF WalkInv
<1>1. /\ stack' = <<>> /\ UNCHANGED <<input, jwt, visited, target>> /\ status = "running"
      /\ status' \in {"DEPTH_EXCEEDED", "NODE_EXCEEDED"}
  BY DEF TooDeep, TooMany, Refuse, Countable, AtSlot
<1>2. /\ \A o : Slots(o)' = Slots(o)
      /\ Children' = Children /\ Reachable' = Reachable
      /\ \A S : Counted(S)' = Counted(S)
  BY <1>1, SameInput
<1>3. Copies' = Copies
  BY <1>1 DEF Copies
<1>4. FramesFit' /\ CopiesFit' /\ ReachedFits'
  BY <1>1, <1>2, <1>3 DEF FramesFit, CopiesFit, ReachedFits, Closed
<1>5. KeptFits'
  BY <1>1 DEF KeptFits, Walking
<1>6. CASE TooDeep
  <2>1. status' = "DEPTH_EXCEEDED" /\ count' = count
    BY <1>6 DEF TooDeep, Refuse
  <2>2. WalkTypeOK'
    BY <1>1, <2>1, Apart DEF WalkTypeOK
  <2>3. CountFits'
    BY <2>1 DEF CountFits, Walking
  <2>4. PICK d \in Depths : \A m \in 1..Len(stack) : stack[m].depth = d[stack[m].source]
    BY <1>1 DEF DepthFits, Walking
  <2>5. Len(stack) \in 1..Len(stack) /\ Current.source \in visited
    BY <1>1, LastFrame DEF Current, FramesFit
  <2>6. d[Current.source] > MaxDepth
    BY <1>6, <2>4, <2>5 DEF TooDeep, Current
  <2>7. d \in Depths'
    BY <1>1, <1>3, <2>4 DEF Depths
  <2>8. DepthFits'
    BY <1>1, <2>1, <2>5, <2>6, <2>7 DEF DepthFits, Walking
  <2>9. QED
    BY <1>4, <1>5, <2>2, <2>3, <2>8 DEF WalkInv
<1>7. CASE TooMany
  <2>1. status' = "NODE_EXCEEDED" /\ count' = count + 1 /\ count' > MaxNodes
    BY <1>7 DEF TooMany, Refuse, OverBudget
  <2>2. count \in Nat /\ count <= MaxNodes /\ MaxNodes \in Nat
    BY <1>1, Apart DEF WalkTypeOK
  <2>3. WalkTypeOK'
    BY <1>1, <2>1, <2>2 DEF WalkTypeOK
  <2>4. DepthFits'
    BY <2>1 DEF DepthFits, Walking
  <2>5. PICK f \in Frame : f = Current
    BY <1>1, LastFrame
  <2>6. Len(stack) \in 1..Len(stack) /\ f = stack[Len(stack)]
    BY <1>1, <2>5, LastFrame DEF Current
  <2>7. f.source \in visited /\ f.source \in Container /\ f.index \in Nat \ {0}
    BY <2>5, <2>6 DEF FramesFit, Frame
  <2>8. f.index \in 1..Len(Slots(f.source)) /\ Counts(f.source, f.index)
    BY <1>7, <2>5, <2>7, SlotTypes DEF TooMany, Countable, AtSlot, Here, Counts
  <2>9. Passed(f.source) = 1..(f.index - 1)
    BY <2>6, PassedHere
  <2>10. <<f.source, f.index>> \notin Taken
    <3>1. f.index \notin 1..(f.index - 1)
      BY <2>7
    <3>2. <<f.source, f.index>> \in Taken => f.index \in Passed(f.source)
      BY DEF Taken
    <3>3. QED
      BY <2>9, <3>1, <3>2
  <2>11. visited \subseteq Reachable
    BY VisitedReachable
  <2>12. Taken \cup {<<f.source, f.index>>} \subseteq Counted(Reachable)
    BY <2>7, <2>8, <2>11, TakenFits DEF Counted
  <2>13. IsFiniteSet(Counted(Reachable))
    BY SlotsFinite DEF Reachable, Reach
  <2>14. Cardinality(Taken \cup {<<f.source, f.index>>}) = Cardinality(Taken) + 1
    BY <2>10, TakenFits, FS_AddElement
  <2>15. Cardinality(Taken) = count
    BY <1>1 DEF CountFits, Walking
  <2>16. Cardinality(Taken \cup {<<f.source, f.index>>}) <= Cardinality(Counted(Reachable))
    BY <2>12, <2>13, FS_Subset
  <2>17. Cardinality(Counted(Reachable)) \in Nat
    BY <2>13, FS_CardinalityType
  <2>18. Cardinality(Counted(Reachable)) > MaxNodes
    BY <2>1, <2>2, <2>14, <2>15, <2>16, <2>17
  <2>19. CountFits'
    BY <1>2, <2>1, <2>18 DEF CountFits, Walking
  <2>20. QED
    BY <1>4, <1>5, <2>3, <2>4, <2>19 DEF WalkInv
<1>8. QED
  BY <1>6, <1>7

\* Every round keeps the invariant.
LEMMA WalkStep == WalkInv /\ [WalkNext]_walkVars => WalkInv'
<1> SUFFICES ASSUME WalkInv, [WalkNext]_walkVars
             PROVE  WalkInv'
  OBVIOUS
<1> WalkTypeOK /\ FramesFit /\ CopiesFit /\ ReachedFits /\ KeptFits /\ CountFits /\ DepthFits
  BY DEF WalkInv
<1>1. CASE SkipKey \/ ReadThrows \/ TakeValue \/ TakeContainer
  <2>1. PICK n, f : n = Len(stack) /\ f = Current
    OBVIOUS
  <2>2. PICK w \in Copied : Passes(n, f, w) /\ (Stays(n, f, w) \/ Enters(n, f, w))
    BY <1>1, <2>1, RoundPasses
  <2>3. WalkTypeOK'
    BY <2>2, PassKeepsTypes
  <2>4. FramesFit'
    BY <2>2, PassKeepsFrames
  <2>5. CopiesFit'
    BY <2>2, PassKeepsCopies
  <2>6. ReachedFits'
    BY <2>2, PassKeepsReached
  <2>7. KeptFits'
    BY <2>2, PassKeepsKept
  <2>8. CountFits'
    BY <2>2, PassKeepsCount
  <2>9. DepthFits'
    BY <2>2, PassKeepsDepth
  <2>10. QED
    BY <2>3, <2>4, <2>5, <2>6, <2>7, <2>8, <2>9 DEF WalkInv
<1>2. CASE PopFrame
  BY <1>2, PopFits
<1>3. CASE TooDeep \/ TooMany
  BY <1>3, RefusalFits
<1>4. CASE UNCHANGED walkVars
  <2>1. UNCHANGED <<input, jwt, stack, visited, count, target, status>>
    BY <1>4 DEF walkVars
  <2>2. /\ \A o : Slots(o)' = Slots(o)
        /\ \A o : Surviving(o)' = Surviving(o)
        /\ \A o, i : Counts(o, i)' <=> Counts(o, i)
        /\ \A S : Counted(S)' = Counted(S)
        /\ Children' = Children /\ Reachable' = Reachable
    BY <2>1, SameInput
  <2>3. Copies' = Copies
    BY <2>1 DEF Copies
  <2>4. \A o : Passed(o)' = Passed(o)
    BY <2>1, <2>2 DEF Passed
  <2>5. Taken' = Taken
    BY <2>2, <2>4 DEF Taken
  <2>6. Depths' = Depths
    BY <2>1, <2>3 DEF Depths
  <2>7. WalkTypeOK' /\ FramesFit' /\ CopiesFit' /\ ReachedFits'
    <3>1. WalkTypeOK'
      BY <2>1 DEF WalkTypeOK
    <3>2. FramesFit' /\ CopiesFit'
      BY <2>1, <2>2 DEF FramesFit, CopiesFit
    <3>3. ReachedFits'
      BY <2>1, <2>2, <2>3, SMTT(30) DEF ReachedFits, Closed
    <3>4. QED
      BY <3>1, <3>2, <3>3
  <2>8. KeptFits'
    BY <2>1, <2>2, <2>4 DEF KeptFits, Walking, IsCopy
  <2>9. CountFits' /\ DepthFits'
    BY <2>1, <2>2, <2>5, <2>6 DEF CountFits, DepthFits, Walking, Current
  <2>10. QED
    BY <2>7, <2>8, <2>9 DEF WalkInv
<1>5. QED
  BY <1>1, <1>2, <1>3, <1>4 DEF WalkNext

-----------------------------------------------------------------------------
(* What the invariant of the walk says of its result.                      *)

\* A tree: what is reached in it is what was visited, each container once.
LEMMA TreeHolds == WalkInv => ResultIsTree
<1> SUFFICES ASSUME WalkInv
             PROVE  ResultIsTree
  OBVIOUS
<1> WalkTypeOK /\ CopiesFit /\ ReachedFits /\ visited \subseteq Container
  BY DEF WalkInv, WalkTypeOK
<1>1. Closed(visited, Copies)
  BY DEF Closed, Copies, CopiesFit, ReachedFits
<1>2. Reach(Copies) = visited
  BY <1>1 DEF Reach, ReachedFits
<1>3. Placements(Root) = {}
  BY Apart DEF Placements, CopiesFit
<1>4. ASSUME NEW o \in visited \ {Root}
      PROVE  Cardinality(Placements(o)) = 1
  <2>0. PICK p \in Container : \E m \in 1..Len(target[p]) : target[p][m].value = o
    BY DEF CopiesFit
  <2>1. PICK m \in 1..Len(target[p]) : target[p][m].value = o
    BY <2>0
  <2>2. \A q \in Container : \A j \in 1..Len(target[q]) :
          target[q][j].value = o => q = p /\ j = m
    BY <2>1 DEF CopiesFit
  <2>3. Placements(o) = {<<p, m>>}
    BY <2>1, <2>2 DEF Placements
  <2>4. QED
    BY <2>3, FS_Singleton
<1>5. QED
  BY <1>2, <1>3, <1>4 DEF ResultIsTree

\* A walk that is done has passed every slot of what it visited.
LEMMA DonePassed ==
  ASSUME WalkInv, status = "done", NEW o \in Container
  PROVE  Passed(o) = IF o \in visited THEN 1..Len(Slots(o)) ELSE {}
<1>1. stack = <<>>
  BY DEF WalkInv, WalkTypeOK
<1>2. 1..Len(stack) = {}
  BY <1>1
<1>3. QED
  BY <1>2 DEF Passed

\* Then every container that can be reached was visited.
LEMMA DoneReached ==
  ASSUME WalkInv, status = "done"
  PROVE  visited = Reachable
<1> WalkTypeOK /\ ReachedFits /\ KeptFits /\ visited \subseteq Container
  BY DEF WalkInv, WalkTypeOK
<1>1. \A o \in visited : Surviving(o) \subseteq Passed(o)
  BY DonePassed DEF Surviving
<1>2. \A o \in visited : \A i \in Surviving(o) :
        Slots(o)[i].value \in Container => Slots(o)[i].value \in visited
  BY <1>1 DEF KeptFits, Walking
<1>3. Closed(visited, Children)
  BY <1>2 DEF Closed, Children, ReachedFits
<1>4. QED
  BY <1>3 DEF Reachable, Reach, ReachedFits

\* So nothing that survives is missing from the copies.
LEMMA NothingIsLost == WalkInv => NothingLost
<1> SUFFICES ASSUME WalkInv, status = "done"
             PROVE  /\ visited = Reachable
                    /\ \A o \in visited :
                         /\ {target[o][n].at : n \in 1..Len(target[o])} = Surviving(o)
                         /\ \A m, n \in 1..Len(target[o]) : m < n => target[o][m].at < target[o][n].at
                         /\ \A n \in 1..Len(target[o]) :
                              IsCopy(Slots(o)[target[o][n].at].value, target[o][n].value)
  BY DEF NothingLost
<1>1. visited = Reachable
  BY DoneReached
<1>2. visited \subseteq Container
  BY DEF WalkInv, WalkTypeOK
<1>3. ASSUME NEW o \in visited
      PROVE  Passed(o) \cap Surviving(o) = Surviving(o)
  BY <1>2, DonePassed DEF Surviving
<1>4. QED
  BY <1>1, <1>2, <1>3 DEF WalkInv, KeptFits, Walking

\* What was taken is what counts of the input, when the walk is done.
LEMMA CauseHolds == WalkInv => RefusedForCause
<1> SUFFICES ASSUME WalkInv
             PROVE  RefusedForCause
  OBVIOUS
<1> WalkTypeOK /\ CountFits /\ DepthFits /\ visited \subseteq Container
  BY DEF WalkInv, WalkTypeOK
<1>1. ASSUME status = "done"
      PROVE  /\ Cardinality(Counted(Reachable)) <= MaxNodes
             /\ \E d \in Depths : \A o \in visited : d[o] <= MaxDepth
  <2>1. Counted(Reachable) = Taken
    <3>1. \A o \in Container : Passed(o) = IF o \in visited THEN 1..Len(Slots(o)) ELSE {}
      BY <1>1, DonePassed
    <3>2. Counted(visited) \subseteq Taken
      BY <3>1 DEF Counted, Taken
    <3>3. QED
      BY <1>1, <3>2, TakenFits, DoneReached
  <2>2. Cardinality(Counted(Reachable)) <= MaxNodes
    BY <1>1, <2>1, Apart DEF CountFits, Walking, WalkTypeOK
  <2>3. PICK d \in Depths : \A o \in visited : d[o] > MaxDepth => stack # <<>>
    BY <1>1 DEF DepthFits, Walking
  <2>4. stack = <<>>
    BY <1>1 DEF WalkTypeOK
  <2>5. \A o \in visited : d[o] \in 0..MaxDepth + 1
    BY DEF Depths
  <2>6. \A o \in visited : d[o] <= MaxDepth
    BY <2>3, <2>4, <2>5, Apart
  <2>7. QED
    BY <2>2, <2>6
<1>2. QED
  BY <1>1 DEF RefusedForCause, CountFits, DepthFits

\* The invariant of the walk holds throughout.
THEOREM WalkInvariance == WalkSpec => []WalkInv
BY WalkInitFits, WalkStep, PTL DEF WalkSpec

\* Every variable keeps its type; in particular, no more values are counted
\* than MaxNodes, and one more only by the walk that is given up for it
\* (normalize-payload.ts:88).
THEOREM WalkTypeCorrect == WalkSpec => []WalkTypeOK
<1>1. WalkInv => WalkTypeOK
  BY DEF WalkInv
<1>2. QED
  BY <1>1, WalkInvariance, PTL

\* The result is a tree at all times, whatever cycles and shared objects the
\* input has (normalize-payload.ts:77, 78).
THEOREM WalkIsTree == WalkSpec => []ResultIsTree
BY TreeHolds, WalkInvariance, PTL

\* A walk that is done has copied every container that can be reached, with
\* all of its slots that survive, in order, and nothing else.
THEOREM WalkLosesNothing == WalkSpec => []NothingLost
BY NothingIsLost, WalkInvariance, PTL

\* An input is refused exactly when it has more values than MaxNodes, or a
\* container deeper than MaxDepth on the way it was reached
\* (normalize-payload.ts:91, 104).
THEOREM WalkRefusesForCause == WalkSpec => []RefusedForCause
BY CauseHolds, WalkInvariance, PTL

=============================================================================
