------------------------------ MODULE MfaLogin ------------------------------
(***************************************************************************)
(* The second factor.  LoginEngine.executePasswordStage hands out a        *)
(* temporary challenge to a user with MFA, LoginEngine.executeMfaStage     *)
(* takes the challenge with a TOTP code (login/login.ts), SessionManager   *)
(* keeps the challenges (session/session.ts) and MfaEngine.verifyToken     *)
(* matches codes against the steps around the clock (mfa/mfa.ts).          *)
(*                                                                         *)
(* Each action is one adapter operation, or the code between two awaits.   *)
(* The clock counts TOTP steps, and a code is named by the step it is      *)
(* generated for: two steps with the same six digits are left out.         *)
(* Challenges are numbered in the order they are generated.                *)
(***************************************************************************)
EXTENDS Integers

CONSTANTS Calls,             \* slots for concurrent calls of the library
          Users,
          MaxChallenges,     \* bound: how many challenges are ever generated
          MaxTime,           \* bound: the last step of the clock
          ChallengeTimeout,  \* mfaChallengeTimeoutMs, in steps
          Window             \* windowSteps of verifyToken

Challenge == 1..MaxChallenges
Code == 0..(MaxTime + Window)   \* the steps a client can have a code for
None == 0                       \* no challenge, no user
NoStep == -1                    \* no step yet; presented: not a code at all

ASSUME MfaAssumption ==
  /\ MaxChallenges \in Nat
  /\ MaxTime \in Nat
  /\ ChallengeTimeout \in Nat
  /\ Window \in Nat
  /\ None \notin Users

VARIABLES
  \* the store
  stored,       \* the challenges with a record
  owner,        \* owner[t]: the userId of the record
  expires,      \* expires[t]: the expiresAt of the record
  registered,   \* the users that exist
  enabled,      \* the users with mfaEnabled and a secret
  lastUsedStep, \* lastUsedStep[u]: the lastUsedTotpStep of u
  \* the environment
  now,          \* Date.now(), in steps
  minted,       \* how many challenges were generated
  handed,       \* the challenges that were returned to a client
  \* the calls in flight
  pc,           \* the adapter call it waits for, or the status it answered with
  challenge,    \* the challenge it created or was given
  code,         \* the step of the code it was given
  seen,         \* the lastUsedTotpStep it read
  \* history, read by the properties only
  accepted,     \* accepted[u]: the steps whose code let a call for u go on, up to
                \* the first overlap
  replayed,     \* the users with a code accepted although not newer than another
  overlapped,   \* the users with two calls between reading and writing the step
  tried,        \* the challenges that a code was checked on
  raced         \* the calls at work that had found their challenge, as another
                \* one had, when it was deleted

storeVars == <<stored, owner, expires, registered, enabled, lastUsedStep>>
callVars  == <<pc, challenge, code, seen, raced>>
history   == <<accepted, replayed, overlapped, tried>>
vars == <<storeVars, now, minted, handed, callVars, history>>

Waiting == {"create", "find", "revoke", "user", "code", "record", "grant"}
Outcome == {"mfa-required", "invalid-mfa-token", "invalid-credentials",
            "invalid-mfa-code", "success", "system-error"}
Step == {NoStep} \cup Code

\* A type: what every variable holds.
TypeOK ==
  /\ stored \in SUBSET Challenge
  /\ owner \in [Challenge -> Users \cup {None}]
  /\ expires \in [Challenge -> Nat]
  /\ registered \in SUBSET Users
  /\ enabled \in SUBSET Users
  /\ lastUsedStep \in [Users -> Step]
  /\ now \in 0..MaxTime
  /\ minted \in 0..MaxChallenges
  /\ handed \in SUBSET Challenge
  /\ pc \in [Calls -> {"idle"} \cup Waiting \cup Outcome]
  /\ challenge \in [Calls -> Challenge \cup {None}]
  /\ code \in [Calls -> Step]
  /\ seen \in [Calls -> Step]
  /\ accepted \in [Users -> SUBSET Code]
  /\ replayed \in SUBSET Users
  /\ overlapped \in SUBSET Users
  /\ tried \in SUBSET Challenge
  /\ raced \in SUBSET Calls

Init ==
  /\ stored = {}
  /\ owner = [t \in Challenge |-> None]
  /\ expires = [t \in Challenge |-> 0]
  /\ registered = Users
  /\ enabled = Users
  /\ lastUsedStep = [u \in Users |-> NoStep]
  /\ now = 0
  /\ minted = 0
  /\ handed = {}
  /\ pc = [c \in Calls |-> "idle"]
  /\ challenge = [c \in Calls |-> None]
  /\ code = [c \in Calls |-> NoStep]
  /\ seen = [c \in Calls |-> NoStep]
  /\ accepted = [u \in Users |-> {}]
  /\ replayed = {}
  /\ overlapped = {}
  /\ tried = {}
  /\ raced = {}

-----------------------------------------------------------------------------
(* Helpers.                                                                *)

User(c) == owner[challenge[c]]

Goto(c, where) == pc' = [pc EXCEPT ![c] = where]

\* The caller has its answer, and the call is done with what it held.
Answer(c, result) ==
  /\ Goto(c, result)
  /\ challenge' = [challenge EXCEPT ![c] = None]
  /\ code' = [code EXCEPT ![c] = NoStep]
  /\ seen' = [seen EXCEPT ![c] = NoStep]
  /\ raced' = raced \ {c}

\* It goes on, with all it holds.
Proceed(c, where) ==
  /\ Goto(c, where)
  /\ UNCHANGED <<challenge, code, seen, raced>>

-----------------------------------------------------------------------------
(* executePasswordStage: the user is found, the password is right.         *)

StartPasswordStage(c, u) ==
  /\ pc[c] = "idle"
  /\ u \in registered \cap enabled
  /\ minted < MaxChallenges
  /\ minted' = minted + 1
  /\ owner' = [owner EXCEPT ![minted + 1] = u]
  /\ expires' = [expires EXCEPT ![minted + 1] = now + ChallengeTimeout]
  /\ challenge' = [challenge EXCEPT ![c] = minted + 1]
  /\ Goto(c, "create")
  /\ UNCHANGED <<stored, registered, enabled, lastUsedStep, now, handed, code,
                 seen, raced, history>>

CreateMfaChallengeToken(c) ==
  /\ pc[c] = "create"
  /\ stored' = stored \cup {challenge[c]}
  /\ handed' = handed \cup {challenge[c]}
  /\ Answer(c, "mfa-required")
  /\ UNCHANGED <<owner, expires, registered, enabled, lastUsedStep, now, minted, history>>

-----------------------------------------------------------------------------
(* executeMfaStage.                                                        *)

StartMfaStage(c, t, k) ==
  /\ pc[c] = "idle"
  /\ t \in handed
  /\ Goto(c, "find")
  /\ challenge' = [challenge EXCEPT ![c] = t]
  /\ code' = [code EXCEPT ![c] = k]
  /\ UNCHANGED <<storeVars, now, minted, handed, seen, raced, history>>

\* verifyTemporaryMfaToken: unknown and expired get the same answer.
VerifyTemporaryMfaToken(c) ==
  /\ pc[c] = "find"
  /\ IF challenge[c] \in stored /\ now < expires[challenge[c]]
     THEN Proceed(c, "revoke")
     ELSE Answer(c, "invalid-mfa-token")
  /\ UNCHANGED <<storeVars, now, minted, handed, history>>

\* Mutant: the challenge is kept for another attempt at the code.
RevokeNothing(c) ==
  /\ pc[c] = "revoke"
  /\ Proceed(c, "user")
  /\ UNCHANGED <<storeVars, now, minted, handed, history>>

\* The calls that found a challenge and are about to delete it.
Finders(t) == {c \in Calls : pc[c] = "revoke" /\ challenge[c] = t}

\* revokeTemporaryMfaToken returns nothing: a call goes on although another one
\* deleted the challenge before it.
RevokeTemporaryMfaToken(c) ==
  /\ pc[c] = "revoke"
  /\ stored' = stored \ {challenge[c]}
  /\ raced' = IF Finders(challenge[c]) = {c} THEN raced
              ELSE raced \cup Finders(challenge[c])
  /\ Goto(c, "user")
  /\ UNCHANGED <<owner, expires, registered, enabled, lastUsedStep, now, minted,
                 handed, challenge, code, seen, history>>

\* Between reading lastUsedTotpStep and writing it.
Deciding(c) == pc[c] \in {"code", "record"}

\* findUserById: the last used step is the one of this moment.
FindUserById(c) ==
  /\ pc[c] = "user"
  /\ \/ /\ User(c) \notin registered
        /\ Answer(c, "invalid-credentials")
        /\ UNCHANGED overlapped
     \/ /\ User(c) \in registered \ enabled
        /\ Answer(c, "invalid-mfa-code")
        /\ UNCHANGED overlapped
     \/ /\ User(c) \in registered \cap enabled
        /\ Goto(c, "code")
        /\ seen' = [seen EXCEPT ![c] = lastUsedStep[User(c)]]
        /\ UNCHANGED <<challenge, code, raced>>
        /\ overlapped' = IF \E d \in Calls \ {c} : Deciding(d) /\ User(d) = User(c)
                         THEN overlapped \cup {User(c)} ELSE overlapped
  /\ UNCHANGED <<storeVars, now, minted, handed, accepted, replayed, tried>>

\* verifyToken: the code is the one of a step around the current one.
Matches(k) == k \in Code /\ k >= now - Window /\ k <= now + Window

\* Mutant: a code is replayed when its step is older than the last one.
CheckCodeStrictly(c) ==
  /\ pc[c] = "code"
  /\ IF Matches(code[c]) /\ ~(seen[c] # NoStep /\ code[c] < seen[c])
     THEN Proceed(c, "record")
     ELSE Answer(c, "invalid-mfa-code")
  /\ tried' = tried \cup {challenge[c]}
  /\ UNCHANGED <<storeVars, now, minted, handed, accepted, replayed, overlapped>>

\* The code, then the replay check against the step that was read.
CheckCode(c) ==
  /\ pc[c] = "code"
  /\ IF Matches(code[c]) /\ ~(seen[c] # NoStep /\ code[c] <= seen[c])
     THEN Proceed(c, "record")
     ELSE Answer(c, "invalid-mfa-code")
  /\ tried' = tried \cup {challenge[c]}
  /\ UNCHANGED <<storeVars, now, minted, handed, accepted, replayed, overlapped>>

\* History, kept until two calls of the user overlap: the code of c is good for
\* a sign-in.
Accept(c) ==
  \/ /\ User(c) \in overlapped
     /\ UNCHANGED <<accepted, replayed>>
  \/ /\ User(c) \notin overlapped
     /\ accepted' = [accepted EXCEPT ![User(c)] = @ \cup {code[c]}]
     /\ replayed' = IF \E k \in accepted[User(c)] : code[c] <= k
                    THEN replayed \cup {User(c)} ELSE replayed

\* Mutant: the current step is recorded and not the one that matched.
RecordCurrentStep(c) ==
  /\ pc[c] = "record"
  /\ lastUsedStep' = [u \in Users |->
       IF u = User(c) /\ u \in registered THEN now ELSE lastUsedStep[u]]
  /\ Goto(c, "grant")
  /\ code' = [code EXCEPT ![c] = NoStep]
  /\ seen' = [seen EXCEPT ![c] = NoStep]
  /\ Accept(c)
  /\ UNCHANGED <<stored, owner, expires, registered, enabled, now, minted, handed,
                 challenge, raced, overlapped, tried>>

\* updateLastUsedTotpStep: written without looking at what is there by now.
UpdateLastUsedTotpStep(c) ==
  /\ pc[c] = "record"
  /\ lastUsedStep' = [u \in Users |->
       IF u = User(c) /\ u \in registered THEN code[c] ELSE lastUsedStep[u]]
  /\ Goto(c, "grant")
  /\ code' = [code EXCEPT ![c] = NoStep]
  /\ seen' = [seen EXCEPT ![c] = NoStep]
  /\ Accept(c)
  /\ UNCHANGED <<stored, owner, expires, registered, enabled, now, minted, handed,
                 challenge, raced, overlapped, tried>>

\* sessions.create or refreshTokens.issue.
Grant(c) ==
  /\ pc[c] = "grant"
  /\ Answer(c, "success")
  /\ UNCHANGED <<storeVars, now, minted, handed, history>>

-----------------------------------------------------------------------------
\* An adapter call rejects: the challenge stays spent, a recorded step stays
\* recorded, and nobody is signed in.
Fail(c) ==
  /\ pc[c] \in Waiting \ {"code"}
  /\ Answer(c, "system-error")
  /\ UNCHANGED <<storeVars, now, minted, handed, history>>

Return(c) ==
  /\ pc[c] \in Outcome
  /\ Proceed(c, "idle")
  /\ UNCHANGED <<storeVars, now, minted, handed, history>>

\* The application turns the second factor off or on again (updateUser).
ToggleMfa(u) ==
  /\ u \in registered
  /\ enabled' = IF u \in enabled THEN enabled \ {u} ELSE enabled \cup {u}
  /\ UNCHANGED <<stored, owner, expires, registered, lastUsedStep, now, minted,
                 handed, callVars, history>>

\* The application deletes a user; the store cascades to the challenges.
DeleteUser(u) ==
  /\ u \in registered
  /\ registered' = registered \ {u}
  /\ stored' = {t \in stored : owner[t] # u}
  /\ UNCHANGED <<owner, expires, enabled, lastUsedStep, now, minted, handed,
                 callVars, history>>

PurgeExpiredMfaChallengeTokens ==
  /\ stored' = {t \in stored : ~(expires[t] < now)}
  /\ UNCHANGED <<owner, expires, registered, enabled, lastUsedStep, now, minted,
                 handed, callVars, history>>

Tick ==
  /\ now < MaxTime
  /\ now' = now + 1
  /\ UNCHANGED <<storeVars, minted, handed, callVars, history>>

Next ==
  \/ \E c \in Calls :
        \/ \E u \in Users : StartPasswordStage(c, u)
        \/ \E t \in handed, k \in Step : StartMfaStage(c, t, k)
        \/ CreateMfaChallengeToken(c)
        \/ VerifyTemporaryMfaToken(c)
        \/ RevokeTemporaryMfaToken(c)
        \/ FindUserById(c)
        \/ CheckCode(c)
        \/ UpdateLastUsedTotpStep(c)
        \/ Grant(c)
        \/ Fail(c)
        \/ Return(c)
  \/ \E u \in Users : ToggleMfa(u) \/ DeleteUser(u)
  \/ PurgeExpiredMfaChallengeTokens
  \/ Tick

Spec == Init /\ [][Next]_vars

-----------------------------------------------------------------------------
(* Properties.                                                             *)

\* A challenge that a code was checked on is in the store no more: no later call
\* can go by it, whether the code was right or wrong and whatever failed since.
\* A second code is checked only by a call that had found the challenge, as
\* another one had, when it was deleted: to verify and to revoke are two adapter calls, and
\* the second revoke does not ask what it deleted (login.ts:248-255).
\* how-it-works.md:520 leaves the condition out.
SecondGuessNeedsRace ==
  /\ tried \cap stored = {}
  /\ \A c \in Calls : pc[c] = "code" /\ challenge[c] \in tried => c \in raced

\* Without two calls between reading and writing the last used step of a user
\* at the same time, no code is accepted again or after a newer one, and the
\* step that is stored is the newest accepted: one call after the other, no
\* code is replayed, whatever fails in between (login.ts:257-294).  README.md:43
\* promises it without the condition; two calls that overlap do replay a code.
ReplayNeedsOverlap ==
  \A u \in Users \ overlapped :
    /\ u \notin replayed
    /\ u \in registered /\ accepted[u] # {} =>
         lastUsedStep[u] \in accepted[u] /\ \A k \in accepted[u] : k <= lastUsedStep[u]

=============================================================================
