------------------------------ MODULE Sessions ------------------------------
(***************************************************************************)
(* Who is signed in.  SessionManager creates, validates, extends and       *)
(* deletes sessions (session/session.ts); LoginEngine hands out sessions,  *)
(* refresh tokens and challenges (login/login.ts); completeAccountRecovery *)
(* takes sessions and refresh tokens away after a password reset           *)
(* (internal/complete-account-recovery.ts).                                *)
(*                                                                         *)
(* Each action is one adapter operation, or the code between two awaits.   *)
(* What a login leaves in the store is a grant: a session, a refresh-token *)
(* family or, for users with a second factor, a challenge.  Grants are     *)
(* numbered as they are generated and remember the password that the login *)
(* was checked against.  A password is the number of resets before it.     *)
(* Rotation inside a family is module RefreshTokens, codes are MfaLogin,   *)
(* and what makes a reset legitimate is OneTimeLinks.                      *)
(***************************************************************************)
EXTENDS Integers

CONSTANTS Calls,      \* slots for concurrent calls of the library
          Users,
          MaxGrants,  \* bound: how many grants are ever generated
          MaxResets,  \* bound: how many resets are ever applied
          MaxTime,    \* bound: the last tick of the clock
          Lifetime    \* SessionManager.timeoutMs, in ticks

Grant == 1..MaxGrants
None == 0             \* no grant, no user

ASSUME SessionAssumption ==
  /\ MaxGrants \in Nat
  /\ MaxResets \in Nat
  /\ MaxTime \in Nat
  /\ Lifetime \in Nat
  /\ None \notin Users

VARIABLES
  \* the store
  stored,     \* the grants with a record
  kind,       \* kind[g]: what the grant is
  owner,      \* owner[g]: the userId of the record
  expires,    \* expires[g]: the expiresAt of a session
  registered, \* the users that exist
  mfaEnabled, \* the users with a second factor, which MfaLogin turns on and off
  password,   \* password[u]: how often the password of u was reset
  \* the environment
  now,        \* Date.now()
  minted,     \* how many grants were generated
  \* the calls in flight
  pc,         \* the adapter call it waits for, or the status it answered with
  user,       \* the user of a login or a reset
  item,       \* the grant a login creates, or the session that is validated
  seen,       \* the password or the expiry it goes by
  \* history, read by the properties only
  basis,      \* basis[g]: the password the login of g was checked against
  handed,     \* the grants that were returned to a client
  ended,      \* the grants deleted by a logout, a reset, or with their user
  crossed,    \* the sessions validated by two calls at the same time
  spared,     \* the stored sign-ins that were there when a reset broke off
  late        \* the stored sign-ins of logins that ended after a reset

storeVars == <<stored, kind, owner, expires, registered, mfaEnabled, password>>
callVars  == <<pc, user, item, seen>>
history   == <<basis, handed, ended, crossed, spared, late>>
vars == <<storeVars, now, minted, callVars, history>>

Kind == {"session", "refresh", "challenge"}
Waiting == {"password", "grant", "find", "decide", "purge", "extend",
            "update", "sessions", "refresh"}
Outcome == {"success", "valid", "null", "system-error"}

\* A type: what every variable holds.
TypeOK ==
  /\ stored \in SUBSET Grant
  /\ kind \in [Grant -> Kind \cup {"none"}]
  /\ owner \in [Grant -> Users \cup {None}]
  /\ expires \in [Grant -> 0..(MaxTime + Lifetime)]
  /\ registered \in SUBSET Users
  /\ mfaEnabled \in SUBSET Users
  /\ password \in [Users -> 0..MaxResets]
  /\ now \in 0..MaxTime
  /\ minted \in 0..MaxGrants
  /\ pc \in [Calls -> {"idle"} \cup Waiting \cup Outcome]
  /\ user \in [Calls -> Users \cup {None}]
  /\ item \in [Calls -> Grant \cup {None}]
  /\ seen \in [Calls -> Nat]
  /\ basis \in [Grant -> 0..MaxResets]
  /\ handed \in SUBSET Grant
  /\ ended \in SUBSET Grant
  /\ crossed \in SUBSET Grant
  /\ spared \in SUBSET Grant
  /\ late \in SUBSET Grant

Init ==
  /\ stored = {}
  /\ kind = [g \in Grant |-> "none"]
  /\ owner = [g \in Grant |-> None]
  /\ expires = [g \in Grant |-> 0]
  /\ registered = Users
  /\ mfaEnabled \in SUBSET Users
  /\ password = [u \in Users |-> 0]
  /\ now = 0
  /\ minted = 0
  /\ pc = [c \in Calls |-> "idle"]
  /\ user = [c \in Calls |-> None]
  /\ item = [c \in Calls |-> None]
  /\ seen = [c \in Calls |-> 0]
  /\ basis = [g \in Grant |-> 0]
  /\ handed = {}
  /\ ended = {}
  /\ crossed = {}
  /\ spared = {}
  /\ late = {}

-----------------------------------------------------------------------------
(* Helpers.                                                                *)

Goto(c, where) == pc' = [pc EXCEPT ![c] = where]

\* The caller has its answer, and the call is done with what it held.
Answer(c, result) ==
  /\ Goto(c, result)
  /\ user' = [user EXCEPT ![c] = None]
  /\ item' = [item EXCEPT ![c] = None]
  /\ seen' = [seen EXCEPT ![c] = 0]

\* It goes on, with all it holds.
Proceed(c, where) ==
  /\ Goto(c, where)
  /\ UNCHANGED <<user, item, seen>>

OfKind(k, u) == {g \in stored : kind[g] = k /\ owner[g] = u}

SignIns(u) == OfKind("session", u) \cup OfKind("refresh", u)

\* The sign-ins whose login was checked against a password no longer valid.
Outdated(u) == {g \in SignIns(u) : basis[g] < password[u]}

\* History: a cause is kept for as long as the sign-in is there.
Forget(G) ==
  /\ spared' = spared \ G
  /\ late' = late \ G

\* Records are deleted for a reason outside the sessions themselves.
Discard(G) ==
  /\ stored' = stored \ G
  /\ ended' = ended \cup G
  /\ Forget(G)

-----------------------------------------------------------------------------
(* executePasswordStage and executeMfaStage.                               *)

\* findUserByEmail: the password that is checked is the one of this moment.
StartLogin(c, u) ==
  /\ pc[c] = "idle"
  /\ u \in registered
  /\ Goto(c, "password")
  /\ user' = [user EXCEPT ![c] = u]
  /\ seen' = [seen EXCEPT ![c] = password[u]]
  /\ UNCHANGED <<storeVars, now, minted, item, history>>

\* Generate what a login of u will leave behind, which had password v.
Generate(c, k, u, v) ==
  /\ minted < MaxGrants
  /\ minted' = minted + 1
  /\ kind' = [kind EXCEPT ![minted + 1] = k]
  /\ owner' = [owner EXCEPT ![minted + 1] = u]
  /\ basis' = [basis EXCEPT ![minted + 1] = v]
  /\ expires' = [expires EXCEPT ![minted + 1] = IF k = "session" THEN now + Lifetime ELSE 0]
  /\ item' = [item EXCEPT ![c] = minted + 1]

\* verifyPassword resolved: a challenge for a user with a second factor, else
\* the kind of sign-in that the application asked for.
VerifyPassword(c) ==
  /\ pc[c] = "password"
  /\ \E k \in Kind :
       /\ (k = "challenge") <=> (user[c] \in mfaEnabled)
       /\ Generate(c, k, user[c], seen[c])
  /\ Goto(c, "grant")
  /\ UNCHANGED <<stored, registered, mfaEnabled, password, now, user, seen,
                 handed, ended, crossed, spared, late>>

\* A challenge with a correct code: it is deleted, and the login it stands for
\* goes on without another look at the password.
AcceptChallenge(c, g) ==
  /\ pc[c] = "idle"
  /\ g \in stored \cap handed
  /\ kind[g] = "challenge"
  /\ owner[g] \in registered
  /\ stored' = stored \ {g}
  /\ \E k \in {"session", "refresh"} : Generate(c, k, owner[g], basis[g])
  /\ Goto(c, "grant")
  /\ user' = [user EXCEPT ![c] = owner[g]]
  /\ seen' = [seen EXCEPT ![c] = basis[g]]
  /\ UNCHANGED <<registered, mfaEnabled, password, now, handed, ended, crossed, spared, late>>

\* createSession, createRefreshToken or createMfaChallengeToken.
StoreGrant(c) ==
  /\ pc[c] = "grant"
  /\ stored' = stored \cup {item[c]}
  /\ handed' = handed \cup {item[c]}
  /\ late' = IF kind[item[c]] # "challenge" /\ basis[item[c]] < password[user[c]]
             THEN late \cup {item[c]} ELSE late
  /\ Answer(c, "success")
  /\ UNCHANGED <<kind, owner, expires, registered, mfaEnabled, password, now, minted,
                 basis, ended, crossed, spared>>

-----------------------------------------------------------------------------
(* validate and invalidate.                                                *)

StartValidate(c, g) ==
  /\ pc[c] = "idle"
  /\ g \in handed
  /\ kind[g] = "session"
  /\ Goto(c, "find")
  /\ item' = [item EXCEPT ![c] = g]
  /\ UNCHANGED <<storeVars, now, minted, user, seen, history>>

Deciding(c, g) == pc[c] \in {"decide", "purge", "extend"} /\ item[c] = g

\* findSessionByTokenHash joins the user; the call goes by this expiry.
FindSession(c) ==
  /\ pc[c] = "find"
  /\ IF item[c] \in stored /\ owner[item[c]] \in registered
     THEN /\ Goto(c, "decide")
          /\ seen' = [seen EXCEPT ![c] = expires[item[c]]]
          /\ crossed' = IF \E d \in Calls \ {c} : Deciding(d, item[c])
                        THEN crossed \cup {item[c]} ELSE crossed
          /\ UNCHANGED <<user, item>>
     ELSE /\ Answer(c, "null")
          /\ UNCHANGED crossed
  /\ UNCHANGED <<storeVars, now, minted, basis, handed, ended, spared, late>>

\* The new expiry is computed before the store is asked to write it.
Extend(c, until) ==
  /\ Goto(c, "extend")
  /\ seen' = [seen EXCEPT ![c] = until]
  /\ UNCHANGED <<user, item>>

\* Mutant: the extension is one lifetime short.
DecideWithoutLifetime(c) ==
  /\ pc[c] = "decide"
  /\ \/ /\ now >= seen[c]
        /\ Proceed(c, "purge")
     \/ /\ now < seen[c]
        /\ 2 * (seen[c] - now) < Lifetime
        /\ Extend(c, now)
     \/ /\ 2 * (seen[c] - now) >= Lifetime
        /\ now < seen[c]
        /\ Answer(c, "valid")
  /\ UNCHANGED <<storeVars, now, minted, history>>

\* Mutant: a session in its last half is purged.
DecidePurgingEarly(c) ==
  /\ pc[c] = "decide"
  /\ \/ /\ now >= seen[c]
        /\ Proceed(c, "purge")
     \/ /\ now < seen[c]
        /\ 2 * (seen[c] - now) < Lifetime
        /\ Proceed(c, "purge")
     \/ /\ 2 * (seen[c] - now) >= Lifetime
        /\ now < seen[c]
        /\ Answer(c, "valid")
  /\ UNCHANGED <<storeVars, now, minted, history>>

\* Expired: purge.  Less than half of the lifetime left: extend.
Decide(c) ==
  /\ pc[c] = "decide"
  /\ \/ /\ now >= seen[c]
        /\ Proceed(c, "purge")
     \/ /\ now < seen[c]
        /\ 2 * (seen[c] - now) < Lifetime
        /\ Extend(c, now + Lifetime)
     \/ /\ 2 * (seen[c] - now) >= Lifetime
        /\ now < seen[c]
        /\ Answer(c, "valid")
  /\ UNCHANGED <<storeVars, now, minted, history>>

\* deleteSessionByTokenHash, whatever the expiry is by now.
PurgeSession(c) ==
  /\ pc[c] = "purge"
  /\ stored' = stored \ {item[c]}
  /\ Forget({item[c]})
  /\ Answer(c, "null")
  /\ UNCHANGED <<kind, owner, expires, registered, mfaEnabled, password, now, minted,
                 basis, handed, ended, crossed>>

\* Mutant: the store writes the session back, deleted or not.
ExtendByUpsert(c) ==
  /\ pc[c] = "extend"
  /\ expires' = [expires EXCEPT ![item[c]] = seen[c]]
  /\ stored' = stored \cup {item[c]}
  /\ Answer(c, "valid")
  /\ UNCHANGED <<kind, owner, registered, mfaEnabled, password, now, minted, history>>

\* updateSessionExpiry: no effect on a session that is gone by now.
ExtendSession(c) ==
  /\ pc[c] = "extend"
  /\ expires' = [expires EXCEPT ![item[c]] = IF item[c] \in stored THEN seen[c] ELSE @]
  /\ Answer(c, "valid")
  /\ UNCHANGED <<stored, kind, owner, registered, mfaEnabled, password, now, minted, history>>

\* invalidate, or revokeFamily: one adapter call.
Logout(g) ==
  /\ g \in handed
  /\ kind[g] \in {"session", "refresh"}
  /\ Discard({g})
  /\ UNCHANGED <<kind, owner, expires, registered, mfaEnabled, password, now, minted, callVars,
                 basis, handed, crossed>>

-----------------------------------------------------------------------------
(* completeAccountRecovery.                                                *)

\* completeReset has consumed its link, found the user, hashed the password.
StartRecovery(c, u) ==
  /\ pc[c] = "idle"
  /\ u \in registered
  /\ Goto(c, "update")
  /\ user' = [user EXCEPT ![c] = u]
  /\ UNCHANGED <<storeVars, now, minted, item, seen, history>>

UpdateUser(c) ==
  /\ pc[c] = "update"
  /\ user[c] \in registered
  /\ password[user[c]] < MaxResets
  /\ password' = [password EXCEPT ![user[c]] = @ + 1]
  /\ Proceed(c, "sessions")
  /\ UNCHANGED <<stored, kind, owner, expires, registered, mfaEnabled, now, minted, history>>

\* updateUser rejects although it took effect: the call throws (line 25), and
\* under the new password nothing is revoked.
UpdateUserInDoubt(c) ==
  /\ pc[c] = "update"
  /\ user[c] \in registered
  /\ password[user[c]] < MaxResets
  /\ password' = [password EXCEPT ![user[c]] = @ + 1]
  /\ spared' = spared \cup SignIns(user[c])
  /\ Answer(c, "system-error")
  /\ UNCHANGED <<stored, kind, owner, expires, registered, mfaEnabled, now, minted,
                 basis, handed, ended, crossed, late>>

\* Mutant: the refresh tokens are forgotten.
DeleteUserSessionsOnly(c) ==
  /\ pc[c] = "sessions"
  /\ Discard(OfKind("session", user[c]))
  /\ Answer(c, "success")
  /\ UNCHANGED <<kind, owner, expires, registered, mfaEnabled, password, now, minted,
                 basis, handed, crossed>>

DeleteUserSessions(c) ==
  /\ pc[c] = "sessions"
  /\ Discard(OfKind("session", user[c]))
  /\ Proceed(c, "refresh")
  /\ UNCHANGED <<kind, owner, expires, registered, mfaEnabled, password, now, minted,
                 basis, handed, crossed>>

RevokeAllRefreshTokens(c) ==
  /\ pc[c] = "refresh"
  /\ Discard(OfKind("refresh", user[c]))
  /\ Answer(c, "success")
  /\ UNCHANGED <<kind, owner, expires, registered, mfaEnabled, password, now, minted,
                 basis, handed, crossed>>

\* A failed revocation is reported and swallowed, and ends the revocations.
RevocationFails(c) ==
  /\ pc[c] \in {"sessions", "refresh"}
  /\ Answer(c, "success")
  /\ spared' = spared \cup Outdated(user[c])
  /\ UNCHANGED <<storeVars, now, minted, basis, handed, ended, crossed, late>>

-----------------------------------------------------------------------------
\* An adapter call rejects, or updateUser finds no user.
Fail(c) ==
  /\ pc[c] \in Waiting \ {"decide", "sessions", "refresh"}
  /\ Answer(c, "system-error")
  /\ UNCHANGED <<storeVars, now, minted, history>>

Return(c) ==
  /\ pc[c] \in Outcome
  /\ Proceed(c, "idle")
  /\ UNCHANGED <<storeVars, now, minted, history>>

\* The application deletes a user; the store cascades to all its grants.
DeleteUser(u) ==
  /\ u \in registered
  /\ registered' = registered \ {u}
  /\ Discard({g \in stored : owner[g] = u})
  /\ UNCHANGED <<kind, owner, expires, mfaEnabled, password, now, minted, callVars,
                 basis, handed, crossed>>

Tick ==
  /\ now < MaxTime
  /\ now' = now + 1
  /\ UNCHANGED <<storeVars, minted, callVars, history>>

Next ==
  \/ \E c \in Calls :
        \/ \E u \in Users : StartLogin(c, u) \/ StartRecovery(c, u)
        \/ \E g \in Grant : AcceptChallenge(c, g) \/ StartValidate(c, g)
        \/ VerifyPassword(c)
        \/ StoreGrant(c)
        \/ FindSession(c)
        \/ Decide(c)
        \/ PurgeSession(c)
        \/ ExtendSession(c)
        \/ UpdateUser(c)
        \/ UpdateUserInDoubt(c)
        \/ DeleteUserSessions(c)
        \/ RevokeAllRefreshTokens(c)
        \/ RevocationFails(c)
        \/ Fail(c)
        \/ Return(c)
  \/ \E g \in Grant : Logout(g)
  \/ \E u \in Users : DeleteUser(u)
  \/ Tick

Spec == Init /\ [][Next]_vars

-----------------------------------------------------------------------------
(* Properties.                                                             *)

\* A grant that was handed out and deleted never comes back: no extension that
\* was on its way, and no late login, revives what a logout or a reset ended.
DeletedStaysDeleted ==
  [][\A g \in handed : g \notin stored => g \notin stored']_vars

\* A session is lost before its expiry only by a logout, a reset or with its
\* user, or when two calls validated it at the same time: one saw it expired,
\* the other extended it, and the first deletes the extended session.
LostSessionHasCause ==
  \A g \in handed \ stored :
    kind[g] = "session" /\ now < expires[g] => g \in ended \cup crossed

\* An extension never takes time away from a session, unless two calls extend
\* it at the same time and the one that came first is written last.
ExtensionNeverShortens ==
  [][\A g \in handed : expires'[g] >= expires[g] \/ g \in crossed]_vars

Recovering(u) ==
  \E c \in Calls : pc[c] \in {"sessions", "refresh"} /\ user[c] = u

\* Once no reset of a user is at work, a sign-in under an older password is left
\* only if it was there when a reset broke off, by a failed revocation or by an
\* updateUser that rejected what it had done, or if it was checked before a reset
\* and stored after it, as an MFA challenge allows.  The causes are kept for each
\* sign-in: one that was stored in time goes with the reset, whatever other calls
\* did or left behind.  complete-account-recovery.ts:10-12 has no exceptions.
SurvivorsHaveCause ==
  \A u \in Users : Outdated(u) \subseteq spared \cup late \/ Recovering(u)

=============================================================================
