----------------------------- MODULE Middleware -----------------------------
(***************************************************************************)
(* AuthMiddlewareEngine (middleware/middleware.ts): who a request is from. *)
(* handleRequest validates the session in a cookie and keeps the cookie of *)
(* the browser in step with the session; handleJwtRequest verifies an      *)
(* access token (internal/token.ts), then asks for its revocation and its  *)
(* user if it was told to.  An application uses one transport or the other *)
(* (middleware.ts:199).                                                    *)
(*                                                                         *)
(* Each action is one adapter operation, or the code between two awaits,   *)
(* or a message to the browser.  There are one user and one browser.       *)
(* Items, numbered as they are generated, are sessions or access tokens;   *)
(* a token bears its jti's number.  Time is in ticks, which stand for      *)
(* milliseconds: PerSecond of them are a second.                           *)
(***************************************************************************)
EXTENDS Integers

CONSTANTS Calls,    \* slots for concurrent requests
          MaxItems, \* bound: how many sessions or tokens are ever generated
          MaxTime,  \* bound: the last tick of the clock
          PerSecond,
          Lifetime, \* SessionManager.timeoutMs, in ticks
          TokenTimeoutMs \* login.ts DEFAULT_TOKEN_TIMEOUT_MS

Item == 1..MaxItems
None == 0           \* no item; presented: not a token the server signed

ASSUME MiddlewareAssumption ==
  /\ MaxItems \in Nat
  /\ MaxTime \in Nat
  /\ PerSecond \in Nat \ {0}
  /\ Lifetime \in Nat
  /\ TokenTimeoutMs \in Nat

VARIABLES
  config,   \* the transport, and which checks of a token were configured
  \* the store
  stored,   \* the sessions with a record
  expires,  \* expires[i]: expiresAt of a session; exp of a token, in seconds
  revoked,  \* the tokens recorded as revoked
  user,     \* the user's record: present or deleted
  \* the environment
  now,      \* Date.now()
  minted,   \* how many items were generated
  jar,      \* the cookie of the browser, and the tick it lasts until
  \* the requests in flight
  pc,       \* the adapter call it waits for, or its answer
  item,     \* the session or token presented, or created
  seen,     \* the expiry a session request goes by
  reply,    \* the cookie of a response on its way, and its Max-Age
  \* history, read by the properties only
  issuedAt, \* issuedAt[i]: when the token was generated
  began,    \* when the token was presented
  dead,     \* the requests made with an item that was not to be accepted
  crossed   \* the sessions with requests that overlapped, or a lost response

storeVars == <<stored, expires, revoked, user>>
history   == <<issuedAt, began, dead, crossed>>
vars == <<config, storeVars, now, minted, jar, pc, item, seen, reply, history>>

Waiting == {"find", "decide", "purge", "extend", "reply", "revocation", "fetch"}
NoCookie == [token |-> None, until |-> 0]
Blank == [token |-> None, age |-> 0]

\* A type: what every variable holds.
TypeOK ==
  /\ config \in [transport : {"cookie", "jwt"}, checks : SUBSET {"revocation", "fetch"}]
  /\ stored \in SUBSET Item
  /\ expires \in [Item -> Nat]
  /\ revoked \in SUBSET Item
  /\ user \in {"present", "deleted"}
  /\ now \in 0..MaxTime
  /\ minted \in 0..MaxItems
  /\ jar \in [token : Item \cup {None}, until : Nat]
  /\ pc \in [Calls -> Waiting \cup {"idle", "accepted", "refused"}]
  /\ item \in [Calls -> Item \cup {None}]
  /\ seen \in [Calls -> Nat]
  /\ reply \in [Calls -> [token : Item \cup {None}, age : 0..Lifetime]]
  /\ issuedAt \in [Item -> 0..MaxTime]
  /\ began \in [Calls -> 0..MaxTime]
  /\ dead \in SUBSET Calls
  /\ crossed \in SUBSET Item

Init ==
  /\ config \in [transport : {"cookie", "jwt"}, checks : SUBSET {"revocation", "fetch"}]
  /\ config.transport = "cookie" => config.checks = {}
  /\ stored = {}
  /\ expires = [i \in Item |-> 0]
  /\ revoked = {}
  /\ user = "present"
  /\ now = 0
  /\ minted = 0
  /\ jar = NoCookie
  /\ pc = [c \in Calls |-> "idle"]
  /\ item = [c \in Calls |-> None]
  /\ seen = [c \in Calls |-> 0]
  /\ reply = [c \in Calls |-> Blank]
  /\ issuedAt = [i \in Item |-> 0]
  /\ began = [c \in Calls |-> 0]
  /\ dead = {}
  /\ crossed = {}

-----------------------------------------------------------------------------
(* Helpers.                                                                *)

Goto(c, where) == pc' = [pc EXCEPT ![c] = where]

InFlight == {c \in Calls : pc[c] # "idle"}

\* The request is over, and nothing of it is left.
Done(c) ==
  /\ Goto(c, "idle")
  /\ item' = [item EXCEPT ![c] = None]
  /\ seen' = [seen EXCEPT ![c] = 0]
  /\ reply' = [reply EXCEPT ![c] = Blank]
  /\ began' = [began EXCEPT ![c] = 0]
  /\ dead' = dead \ {c}

\* The response carries a cookie.
Respond(c, cookie) ==
  /\ Goto(c, "reply")
  /\ reply' = [reply EXCEPT ![c] = cookie]
  /\ seen' = [seen EXCEPT ![c] = 0]

\* Mutant: the milliseconds are divided once more.
SerializeCookieDividingTwice(i, expiresAt) ==
  [token |-> i, age |-> IF expiresAt <= now THEN 0
                        ELSE (expiresAt - now) \div (PerSecond * PerSecond)]

\* serializeCookie: Max-Age, in whole seconds, outranks Expires in a browser.
SerializeCookie(i, expiresAt) ==
  [token |-> i,
   age |-> IF expiresAt <= now THEN 0
           ELSE ((expiresAt - now) \div PerSecond) * PerSecond]

\* Whatever else is under way touches the session i of a new request.
Crossing(i) ==
  IF InFlight = {} THEN crossed ELSE crossed \cup {i} \cup {item[d] : d \in InFlight}

-----------------------------------------------------------------------------
(* Sessions: the cookie transport.                                         *)

\* A login ended well; its response sets the cookie (setSessionCookie).
Login(c) ==
  /\ config.transport = "cookie"
  /\ pc[c] = "idle" /\ user = "present" /\ minted < MaxItems
  /\ minted' = minted + 1
  /\ stored' = stored \cup {minted + 1}
  /\ expires' = [expires EXCEPT ![minted + 1] = now + Lifetime]
  /\ item' = [item EXCEPT ![c] = minted + 1]
  /\ Respond(c, SerializeCookie(minted + 1, now + Lifetime))
  /\ crossed' = Crossing(minted + 1)
  /\ UNCHANGED <<config, revoked, user, now, jar, issuedAt, began, dead>>

\* handleRequest, up to the first await; a request without a cookie is nobody's.
StartRequest(c) ==
  /\ config.transport = "cookie"
  /\ pc[c] = "idle"
  /\ jar.token # None /\ now < jar.until
  /\ Goto(c, "find")
  /\ item' = [item EXCEPT ![c] = jar.token]
  /\ crossed' = Crossing(jar.token)
  /\ UNCHANGED <<config, storeVars, now, minted, jar, seen, reply, issuedAt, began, dead>>

FindSession(c) ==
  /\ pc[c] = "find"
  /\ IF item[c] \in stored
     THEN /\ Goto(c, "decide")
          /\ seen' = [seen EXCEPT ![c] = expires[item[c]]]
          /\ UNCHANGED reply
     ELSE Respond(c, Blank)
  /\ UNCHANGED <<config, storeVars, now, minted, jar, item, history>>

\* Mutant: an expired session is left for somebody else to delete.
DecideLeavingExpired(c) ==
  /\ pc[c] = "decide"
  /\ \/ now >= seen[c] /\ Respond(c, Blank) /\ UNCHANGED <<item, began, dead>>
     \/ /\ now < seen[c] /\ 2 * (seen[c] - now) < Lifetime
        /\ Goto(c, "extend")
        /\ seen' = [seen EXCEPT ![c] = now + Lifetime]
        /\ UNCHANGED <<item, reply, began, dead>>
     \/ now < seen[c] /\ 2 * (seen[c] - now) >= Lifetime /\ Done(c)
  /\ UNCHANGED <<config, storeVars, now, minted, jar, issuedAt, crossed>>

\* validate: expired, or in its last half, or neither: then no cookie is set.
Decide(c) ==
  /\ pc[c] = "decide"
  /\ \/ now >= seen[c] /\ Goto(c, "purge") /\ UNCHANGED <<item, seen, reply, began, dead>>
     \/ /\ now < seen[c] /\ 2 * (seen[c] - now) < Lifetime
        /\ Goto(c, "extend")
        /\ seen' = [seen EXCEPT ![c] = now + Lifetime]
        /\ UNCHANGED <<item, reply, began, dead>>
     \/ now < seen[c] /\ 2 * (seen[c] - now) >= Lifetime /\ Done(c)
  /\ UNCHANGED <<config, storeVars, now, minted, jar, issuedAt, crossed>>

PurgeSession(c) ==
  /\ pc[c] = "purge"
  /\ stored' = stored \ {item[c]}
  /\ Respond(c, Blank)
  /\ UNCHANGED <<config, expires, revoked, user, now, minted, jar, item, history>>

\* Mutant: the caller is not told of the extension.
ExtendSessionQuietly(c) ==
  /\ pc[c] = "extend"
  /\ expires' = [expires EXCEPT ![item[c]] = IF item[c] \in stored THEN seen[c] ELSE @]
  /\ Done(c)
  /\ UNCHANGED <<config, stored, revoked, user, now, minted, jar, issuedAt, crossed>>

\* updateSessionExpiry, then a cookie with the new expiry.
ExtendSession(c) ==
  /\ pc[c] = "extend"
  /\ expires' = [expires EXCEPT ![item[c]] = IF item[c] \in stored THEN seen[c] ELSE @]
  /\ Respond(c, SerializeCookie(item[c], seen[c]))
  /\ UNCHANGED <<config, stored, revoked, user, now, minted, jar, item, history>>

\* The application signs the browser out: invalidate, then a blank cookie.
Logout(c) ==
  /\ config.transport = "cookie"
  /\ pc[c] = "idle"
  /\ jar.token # None /\ now < jar.until
  /\ stored' = stored \ {jar.token}
  /\ item' = [item EXCEPT ![c] = jar.token]
  /\ Respond(c, Blank)
  /\ crossed' = Crossing(jar.token)
  /\ UNCHANGED <<config, expires, revoked, user, now, minted, jar, issuedAt, began, dead>>

\* Responses arrive in any order, and Max-Age counts from the arrival.
Deliver(c) ==
  /\ pc[c] = "reply"
  /\ jar' = IF reply[c].age = 0 THEN NoCookie
            ELSE [token |-> reply[c].token, until |-> now + reply[c].age]
  /\ Done(c)
  /\ UNCHANGED <<config, storeVars, now, minted, issuedAt, crossed>>

LoseResponse(c) ==
  /\ pc[c] = "reply"
  /\ crossed' = crossed \cup {item[c]}
  /\ Done(c)
  /\ UNCHANGED <<config, storeVars, now, minted, jar, issuedAt>>

-----------------------------------------------------------------------------
(* Access tokens: the bearer transport.                                    *)

\* createJwtToken, from login.ts: the timeout is handed over as seconds.
IssueToken ==
  /\ config.transport = "jwt"
  /\ user = "present" /\ minted < MaxItems
  /\ minted' = minted + 1
  /\ expires' = [expires EXCEPT ![minted + 1] = (now \div PerSecond) + TokenTimeoutMs]
  /\ issuedAt' = [issuedAt EXCEPT ![minted + 1] = now]
  /\ UNCHANGED <<config, stored, revoked, user, now, jar, pc, item, seen, reply, began,
                 dead, crossed>>

\* Mutant: a token lasts through the second of its exp.
VerifyJwtTokenBySecond(i) == i # None /\ now \div PerSecond <= expires[i]

\* verifyJwtToken: signed here, and the clock is not past exp.
VerifyJwtToken(i) == i # None /\ now <= expires[i] * PerSecond

\* Mutant: with a user to fetch, the revocation is not asked for.
NextCheckOne(S) ==
  IF "fetch" \in config.checks THEN "fetch"
  ELSE IF "revocation" \in config.checks \ S THEN "revocation" ELSE "accepted"

\* The next check that was configured, after those in S.
NextCheck(S) ==
  IF "revocation" \in config.checks \ S THEN "revocation"
  ELSE IF "fetch" \in config.checks THEN "fetch" ELSE "accepted"

\* Some check that was configured turns the token i down from now on.
Dead(i) ==
  \/ "revocation" \in config.checks /\ i \in revoked
  \/ "fetch" \in config.checks /\ user = "deleted"

\* handleJwtRequest, up to the first await.
StartJwtRequest(c, i) ==
  /\ config.transport = "jwt"
  /\ pc[c] = "idle"
  /\ Goto(c, IF VerifyJwtToken(i) THEN NextCheck({}) ELSE "refused")
  /\ item' = [item EXCEPT ![c] = i]
  /\ began' = [began EXCEPT ![c] = now]
  /\ dead' = IF Dead(i) THEN dead \cup {c} ELSE dead
  /\ UNCHANGED <<config, storeVars, now, minted, jar, seen, reply, issuedAt, crossed>>

CheckRevocation(c) ==
  /\ pc[c] = "revocation"
  /\ Goto(c, IF item[c] \in revoked THEN "refused" ELSE NextCheck({"revocation"}))
  /\ UNCHANGED <<config, storeVars, now, minted, jar, item, seen, reply, history>>

FetchUser(c) ==
  /\ pc[c] = "fetch"
  /\ Goto(c, IF user = "present" THEN "accepted" ELSE "refused")
  /\ UNCHANGED <<config, storeVars, now, minted, jar, item, seen, reply, history>>

Answer(c) ==
  /\ pc[c] \in {"accepted", "refused"}
  /\ Done(c)
  /\ UNCHANGED <<config, storeVars, now, minted, jar, issuedAt, crossed>>

\* revokeJwt: recordRevokedJti.
RevokeJwt(i) ==
  /\ config.transport = "jwt"
  /\ i \in 1..minted
  /\ revoked' = revoked \cup {i}
  /\ UNCHANGED <<config, stored, expires, user, now, minted, jar, pc, item, seen, reply,
                 history>>

-----------------------------------------------------------------------------
\* An adapter call rejects: handleRequest and handleJwtRequest throw.
Throw(c) ==
  /\ pc[c] \in Waiting \ {"reply"}
  /\ Done(c)
  /\ UNCHANGED <<config, storeVars, now, minted, jar, issuedAt, crossed>>

\* The application deletes the user, with the sessions.
DeleteUser ==
  /\ user = "present"
  /\ user' = "deleted"
  /\ stored' = {}
  /\ UNCHANGED <<config, expires, revoked, now, minted, jar, pc, item, seen, reply, history>>

Tick ==
  /\ now < MaxTime
  /\ now' = now + 1
  /\ UNCHANGED <<config, storeVars, minted, jar, pc, item, seen, reply, history>>

Next ==
  \/ \E c \in Calls :
        \/ Login(c)
        \/ StartRequest(c)
        \/ FindSession(c)
        \/ Decide(c)
        \/ PurgeSession(c)
        \/ ExtendSession(c)
        \/ Logout(c)
        \/ Deliver(c)
        \/ LoseResponse(c)
        \/ \E i \in 0..minted : StartJwtRequest(c, i)
        \/ CheckRevocation(c)
        \/ FetchUser(c)
        \/ Answer(c)
        \/ Throw(c)
  \/ IssueToken
  \/ \E i \in 1..minted : RevokeJwt(i)
  \/ DeleteUser
  \/ Tick

Spec == Init /\ [][Next]_vars

-----------------------------------------------------------------------------
(* Properties.                                                             *)

\* A browser is told to forget its cookie only when the session is gone for
\* good: no request in flight brings it back (middleware.ts:128).
BlankMeansGone ==
  \A c \in Calls :
    pc[c] = "reply" /\ reply[c].token = None => item[c] \notin stored

\* The last login is the one in the jar until the last second of its session,
\* unless another request overlapped with one of its own, whose late response
\* may blank or replace the cookie, or a response was lost.
LoginStaysInJar ==
  /\ minted \in stored \ crossed
  /\ now + PerSecond <= expires[minted]
  /\ ~(\E c \in Calls : item[c] = minted)
  => jar.token = minted

\* The cookie lasts as long as the session, to the second: a session that was
\* extended is not lost to the browser (middleware.ts:136), unless the
\* response with the new expiry is under way, was overtaken or lost.
CookieOutlivesSession ==
  \A i \in stored \ crossed :
    jar.token = i /\ ~(\E c \in Calls : item[c] = i)
      => jar.until + PerSecond > expires[i]

\* What was revoked, or whose user was deleted, before a request was made does
\* not pass it, whichever checks follow each other (middleware.ts:236, 266).
DeadIsRefused == \A c \in dead : pc[c] # "accepted"

\* A request that passes was made before its token expired, which it does
\* after the number of seconds that createJwtToken was given (token.ts:95, 153).
AcceptedIsYoung ==
  \A c \in Calls :
    pc[c] = "accepted"
      => /\ item[c] # None
         /\ began[c] <= issuedAt[item[c]] + TokenTimeoutMs * PerSecond

\* A token that the server signed is good for that long less a second, and is
\* refused sooner only for a check that was configured.
RefusalHasCause ==
  \A c \in Calls :
    pc[c] = "refused" =>
      \/ item[c] = None
      \/ began[c] > issuedAt[item[c]] + (TokenTimeoutMs - 1) * PerSecond
      \/ Dead(item[c])

\* An access token is good for its time: no longer, and no shorter without a
\* cause, whatever a second is worth (token.ts:98, 162; middleware.ts:236-272).
TokenGoodForItsTime == AcceptedIsYoung /\ RefusalHasCause

-----------------------------------------------------------------------------
(* What the repository says and the code does not do.                      *)

\* login.ts:39: a token lasts DEFAULT_TOKEN_TIMEOUT_MS milliseconds.
TokenDiesOnTime ==
  \A c \in Calls :
    pc[c] = "accepted" => began[c] <= issuedAt[item[c]] + TokenTimeoutMs

=============================================================================
