---------------------------- MODULE RefreshTokens ----------------------------
(***************************************************************************)
(* RefreshTokenEngine (internal/refresh-token.ts) under its callers in     *)
(* LoginEngine (login/login.ts): issue at login, rotation by               *)
(* refreshAccessToken, family revocation at logout, revocation of all the  *)
(* families of a user, removal of a user, and the scheduled purge.         *)
(*                                                                         *)
(* The process is single-threaded, so a call runs undisturbed between two  *)
(* awaits of the adapter and any other call may run at an await: each      *)
(* action below is one adapter operation, or the code between two of them. *)
(*                                                                         *)
(* generateSecureToken never repeats itself, so tokens are numbered in the *)
(* order they are generated and a family carries the number of the token   *)
(* that started it.  Nothing in the code updates the owner, the family or  *)
(* the expiry of a record, so they are kept per token and only the status  *)
(* of the record lives and dies in the store.                              *)
(***************************************************************************)
EXTENDS Integers

CONSTANTS Calls,           \* slots for concurrent calls of the library
          Users,
          MaxTokens,       \* bound: how many tokens are ever generated
          MaxTime,         \* bound: the last tick of the clock
          Timeout,         \* refreshTokenTimeoutMs, in ticks
          ConditionalMark  \* does markRefreshTokenUsed keep its contract?

Token == 1..MaxTokens
None == 0            \* no token, no family, no user

ASSUME ConstantsAssumption ==
  /\ MaxTokens \in Nat
  /\ MaxTime \in Nat
  /\ Timeout \in Nat
  /\ ConditionalMark \in BOOLEAN
  /\ None \notin Users

VARIABLES
  \* the store
  status,     \* status[t]: the status of t's record, "absent" when it has none
  owner,      \* owner[t]: the userId of the record
  family,     \* family[t]: the familyId of the record
  expires,    \* expires[t]: the expiresAt of the record
  registered, \* the users that exist
  \* the environment
  now,        \* Date.now()
  minted,     \* how many tokens were generated
  handed,     \* the tokens that were returned to a client
  \* the calls in flight
  pc,         \* the adapter call it waits for, or the status it answered with
  presented,  \* the token a rotation was called with, None in a login
  fresh,      \* the token the call generated
  \* history, read by the properties only
  parent,     \* parent[t]: the token whose rotation generated t
  shown,      \* the tokens that were presented
  disturbed   \* the families with a token presented twice, or with records
              \* revoked by a logout, for their user or with their user

storeVars == <<status, owner, family, expires, registered>>
callVars  == <<pc, presented, fresh>>
history   == <<parent, shown, disturbed>>
vars == <<storeVars, now, minted, handed, callVars, history>>

Status == {"absent", "active", "used"}
Outcome == {"success-jwt", "invalid-credentials", "refresh-token-reused", "system-error"}
Waiting == {"find", "expiry", "mark", "mint", "revoke", "user", "orphan"}

\* A type: what every variable holds.
TypeOK ==
  /\ status \in [Token -> Status]
  /\ owner \in [Token -> Users \cup {None}]
  /\ family \in [Token -> Token \cup {None}]
  /\ expires \in [Token -> Nat]
  /\ registered \in SUBSET Users
  /\ now \in Nat
  /\ minted \in 0..MaxTokens
  /\ handed \in SUBSET Token
  /\ pc \in [Calls -> {"idle"} \cup Waiting \cup Outcome]
  /\ presented \in [Calls -> Token \cup {None}]
  /\ fresh \in [Calls -> Token \cup {None}]
  /\ parent \in [Token -> Token \cup {None}]
  /\ shown \in SUBSET Token
  /\ disturbed \in SUBSET Token

Init ==
  /\ status = [t \in Token |-> "absent"]
  /\ owner = [t \in Token |-> None]
  /\ family = [t \in Token |-> None]
  /\ expires = [t \in Token |-> 0]
  /\ registered = Users
  /\ now = 0
  /\ minted = 0
  /\ handed = {}
  /\ pc = [c \in Calls |-> "idle"]
  /\ presented = [c \in Calls |-> None]
  /\ fresh = [c \in Calls |-> None]
  /\ parent = [t \in Token |-> None]
  /\ shown = {}
  /\ disturbed = {}

-----------------------------------------------------------------------------
(* Helpers.                                                                *)

Stored(t) == status[t] # "absent"

\* The records of one family, and those of one user.
InFamily(f) == {t \in Token : Stored(t) /\ family[t] = f}
OwnedBy(u)  == {t \in Token : Stored(t) /\ owner[t] = u}

Delete(T) == status' = [t \in Token |-> IF t \in T THEN "absent" ELSE status[t]]

\* The same deletion, for another reason than an alarm of a rotation.
Sweep(T) ==
  /\ Delete(T)
  /\ disturbed' = disturbed \cup {family[t] : t \in T}

Goto(c, where) == pc' = [pc EXCEPT ![c] = where]

Answer(c, result) ==
  /\ Goto(c, result)
  /\ fresh' = [fresh EXCEPT ![c] = None]

\* generateSecureToken() and new Date(Date.now() + timeoutMs) for a record the
\* call is about to create.
Generate(c, u, f, from) ==
  LET t == minted + 1 IN
  /\ minted < MaxTokens
  /\ minted' = t
  /\ fresh' = [fresh EXCEPT ![c] = t]
  /\ owner' = [owner EXCEPT ![t] = u]
  /\ family' = [family EXCEPT ![t] = f]
  /\ expires' = [expires EXCEPT ![t] = now + Timeout]
  /\ parent' = [parent EXCEPT ![t] = from]

-----------------------------------------------------------------------------
(* issue: the first token of a family, at the end of a successful login.   *)

\* Mutant: the family is named after the user and not generated.
StartIssueFamilyOfUser(c, u) ==
  /\ pc[c] = "idle"
  /\ u \in registered
  /\ Generate(c, u, 1, None)
  /\ Goto(c, "mint")
  /\ UNCHANGED <<status, registered, now, handed, presented, shown, disturbed>>

StartIssue(c, u) ==
  /\ pc[c] = "idle"
  /\ u \in registered
  /\ Generate(c, u, minted + 1, None)
  /\ Goto(c, "mint")
  /\ UNCHANGED <<status, registered, now, handed, presented, shown, disturbed>>

\* Mutant: the successor is stored with the status of the token it replaces.
CreateSpreadsOldRecord(c) ==
  /\ pc[c] = "mint"
  /\ IF presented[c] = None
     THEN /\ status' = [status EXCEPT ![fresh[c]] = "active"]
          /\ Answer(c, "success-jwt")
          /\ handed' = handed \cup {fresh[c]}
     ELSE /\ status' = [status EXCEPT ![fresh[c]] = "used"]
          /\ Goto(c, "user")
          /\ UNCHANGED <<fresh, handed>>
  /\ UNCHANGED <<owner, family, expires, registered, now, minted, presented, history>>

\* createRefreshToken, for a login and for a rotation.  A login answers with
\* the token; a rotation still has to look its user up.
CreateRefreshToken(c) ==
  /\ pc[c] = "mint"
  /\ status' = [status EXCEPT ![fresh[c]] = "active"]
  /\ IF presented[c] = None
     THEN /\ Answer(c, "success-jwt")
          /\ handed' = handed \cup {fresh[c]}
     ELSE /\ Goto(c, "user")
          /\ UNCHANGED <<fresh, handed>>
  /\ UNCHANGED <<owner, family, expires, registered, now, minted, presented, history>>

-----------------------------------------------------------------------------
(* rotate, and the rest of refreshAccessToken.                             *)

StartRotate(c, t) ==
  /\ pc[c] = "idle"
  /\ t \in handed
  /\ Goto(c, "find")
  /\ presented' = [presented EXCEPT ![c] = t]
  /\ shown' = shown \cup {t}
  /\ disturbed' = IF t \in shown THEN disturbed \cup {family[t]} ELSE disturbed
  /\ UNCHANGED <<storeVars, now, minted, handed, fresh, parent>>

\* findRefreshTokenByHash: from here on the call goes by the record it read,
\* which another call may change or delete in the meantime.
FindRefreshToken(c) ==
  /\ pc[c] = "find"
  /\ \/ /\ status[presented[c]] = "absent"
        /\ Answer(c, "invalid-credentials")
     \/ /\ status[presented[c]] = "used"
        /\ Goto(c, "revoke")
        /\ UNCHANGED fresh
     \/ /\ status[presented[c]] = "active"
        /\ Goto(c, "expiry")
        /\ UNCHANGED fresh
  /\ UNCHANGED <<storeVars, now, minted, handed, presented, history>>

CheckExpiry(c) ==
  /\ pc[c] = "expiry"
  /\ IF now >= expires[presented[c]]
     THEN Answer(c, "invalid-credentials")
     ELSE Goto(c, "mark") /\ UNCHANGED fresh
  /\ UNCHANGED <<storeVars, now, minted, handed, presented, history>>

\* Mutant: the update has no WHERE status = 'active'.
MarkWonUnconditionally(c) ==
  /\ pc[c] = "mark"
  /\ Stored(presented[c])
  /\ status' = [status EXCEPT ![presented[c]] = "used"]
  /\ Generate(c, owner[presented[c]], family[presented[c]], presented[c])
  /\ Goto(c, "mint")
  /\ UNCHANGED <<registered, now, handed, presented, shown, disturbed>>

\* markRefreshTokenUsed kept to its contract: this call made the transition.
MarkWon(c) ==
  /\ pc[c] = "mark"
  /\ ConditionalMark
  /\ status[presented[c]] = "active"
  /\ status' = [status EXCEPT ![presented[c]] = "used"]
  /\ Generate(c, owner[presented[c]], family[presented[c]], presented[c])
  /\ Goto(c, "mint")
  /\ UNCHANGED <<registered, now, handed, presented, shown, disturbed>>

\* markRefreshTokenUsed returned something falsy: the record is used or gone,
\* or the adapter (testing/memory-adapter.ts) never says that it won.
MarkLost(c) ==
  /\ pc[c] = "mark"
  /\ ~(ConditionalMark /\ status[presented[c]] = "active")
  /\ status' = [status EXCEPT ![presented[c]] = IF @ = "absent" THEN @ ELSE "used"]
  /\ Goto(c, "revoke")
  /\ UNCHANGED <<owner, family, expires, registered, now, minted, handed,
                 presented, fresh, history>>

\* Mutant: only the presented token is deleted.
RevokeOnlyPresented(c) ==
  /\ pc[c] = "revoke"
  /\ Delete({presented[c]})
  /\ Answer(c, "refresh-token-reused")
  /\ UNCHANGED <<owner, family, expires, registered, now, minted, handed,
                 presented, history>>

\* Mutant: all the families of the user are revoked.
RevokeWholeUser(c) ==
  /\ pc[c] = "revoke"
  /\ Delete(OwnedBy(owner[presented[c]]))
  /\ Answer(c, "refresh-token-reused")
  /\ UNCHANGED <<owner, family, expires, registered, now, minted, handed,
                 presented, history>>

RevokeReused(c) ==
  /\ pc[c] = "revoke"
  /\ Delete(InFamily(family[presented[c]]))
  /\ Answer(c, "refresh-token-reused")
  /\ UNCHANGED <<owner, family, expires, registered, now, minted, handed,
                 presented, history>>

\* findUserById, then the access token, which is made without an await.
FindUser(c) ==
  /\ pc[c] = "user"
  /\ IF owner[fresh[c]] \in registered
     THEN /\ Answer(c, "success-jwt")
          /\ handed' = handed \cup {fresh[c]}
     ELSE /\ Goto(c, "orphan")
          /\ UNCHANGED <<fresh, handed>>
  /\ UNCHANGED <<storeVars, now, minted, presented, history>>

RevokeOrphan(c) ==
  /\ pc[c] = "orphan"
  /\ Delete(InFamily(family[fresh[c]]))
  /\ Answer(c, "invalid-credentials")
  /\ UNCHANGED <<owner, family, expires, registered, now, minted, handed,
                 presented, history>>

\* An adapter call rejects, the JWT secret is too short, or the process dies:
\* the call has no further effect, what is stored stays.
Fail(c) ==
  /\ pc[c] \in Waiting \ {"expiry"}
  /\ Answer(c, "system-error")
  /\ UNCHANGED <<storeVars, now, minted, handed, presented, history>>

\* The caller has its answer and the slot is free for another call.
Return(c) ==
  /\ pc[c] \in Outcome
  /\ Goto(c, "idle")
  /\ presented' = [presented EXCEPT ![c] = None]
  /\ UNCHANGED <<storeVars, now, minted, handed, fresh, history>>

-----------------------------------------------------------------------------
(* Operations of one adapter call.                                         *)

\* logoutJwtSession / revokeFamily: a client names the family of its token.
Logout(f) ==
  /\ \E t \in handed : family[t] = f
  /\ Sweep(InFamily(f))
  /\ UNCHANGED <<owner, family, expires, registered, now, minted, handed,
                 callVars, parent, shown>>

\* revokeAllForUser: "log out everywhere".
RevokeAllForUser(u) ==
  /\ Sweep(OwnedBy(u))
  /\ UNCHANGED <<owner, family, expires, registered, now, minted, handed,
                 callVars, parent, shown>>

\* The application deletes a user; the store cascades to the user's tokens.
DeleteUser(u) ==
  /\ u \in registered
  /\ registered' = registered \ {u}
  /\ Sweep(OwnedBy(u))
  /\ UNCHANGED <<owner, family, expires, now, minted, handed,
                 callVars, parent, shown>>

\* Mutant: the cutoff is inclusive.
PurgeableInclusive == {t \in Token : Stored(t) /\ expires[t] <= now}

Purgeable == {t \in Token : Stored(t) /\ expires[t] < now}

PurgeExpired ==
  /\ Delete(Purgeable)
  /\ UNCHANGED <<owner, family, expires, registered, now, minted, handed,
                 callVars, history>>

Tick ==
  /\ now < MaxTime
  /\ now' = now + 1
  /\ UNCHANGED <<storeVars, minted, handed, callVars, history>>

-----------------------------------------------------------------------------
\* The part of a call that the runtime drives once the call has started.
Step(c) ==
  \/ CreateRefreshToken(c)
  \/ FindRefreshToken(c)
  \/ CheckExpiry(c)
  \/ MarkWon(c)
  \/ MarkLost(c)
  \/ RevokeReused(c)
  \/ FindUser(c)
  \/ RevokeOrphan(c)

Next ==
  \/ \E c \in Calls :
        \/ \E u \in Users : StartIssue(c, u)
        \/ \E t \in Token : StartRotate(c, t)
        \/ Step(c)
        \/ Fail(c)
        \/ Return(c)
  \/ \E f \in Token : Logout(f)
  \/ \E u \in Users : RevokeAllForUser(u) \/ DeleteUser(u)
  \/ PurgeExpired
  \/ Tick

Spec == Init /\ [][Next]_vars

\* A started call is driven to its answer: the event loop resumes it and the
\* adapter settles every promise.  Clients, the purge and the clock are free.
FairSpec == Spec /\ \A c \in Calls : WF_vars(Step(c))

-----------------------------------------------------------------------------
(* Properties.                                                             *)

Minting(c) == pc[c] = "mint"
Active(f)  == {t \in InFamily(f) : status[t] = "active"}
Minters(f) == {c \in Calls : Minting(c) /\ family[fresh[c]] = f}

\* However the calls interleave, a family has at most one holder of its right
\* to continue: one active record, or one call between marking the old token
\* used and storing its successor, and never both (refresh-token.ts:107-141).
OneHolderPerFamily ==
  \A f \in Token :
    /\ \A s, t \in Active(f) : s = t
    /\ \A c, d \in Minters(f) : c = d
    /\ Active(f) = {} \/ Minters(f) = {}

\* A presented token is exchanged at most once: no two rotations ever generate
\* a successor of the same token, whatever calls raced or were retried.
OneChildPerToken ==
  \A s, t \in Token : parent[s] = parent[t] /\ parent[s] # None => s = t

\* A reuse alarm has a cause: some token of the family was presented twice, or
\* its records were revoked by someone else, or the token expired during the
\* call.  A client that presents each token once is never accused on its own.
AlarmHasCause ==
  \A c \in Calls :
    pc[c] \in {"revoke", "refresh-token-reused"} =>
      \/ family[presented[c]] \in disturbed
      \/ now >= expires[presented[c]]

\* A token a client holds and has not presented yet stays good for its whole
\* lifetime, unless something happened to its family: no interleaving and no
\* failure of other calls takes a session away from an honest client.
HonestTokenStaysGood ==
  \A t \in handed \ shown :
    now < expires[t] /\ status[t] # "active" => family[t] \in disturbed

\* The evidence that a token was exchanged outlives every step but two: its
\* expiry, and a deletion that takes the family's records all together.  A
\* replay within the lifetime of the token is therefore still recognised.
EvidenceKept ==
  [][\A t \in Token :
       status[t] = "used" /\ status'[t] = "absent" =>
          expires[t] < now \/ InFamily(family[t])' = {}]_vars

\* Once a rotation has seen reuse, a moment comes when the family has no record
\* left, whatever the family was doing meanwhile and whoever else revokes or
\* extends it, unless a call of that alarm fails.  It may not last: a rotation
\* that had won before stores its successor afterwards, and that token works,
\* although refresh-token.test.ts:223-225 wants it dead.
ReuseKillsFamily ==
  \A c \in Calls :
    pc[c] = "revoke"
      ~> \/ pc[c] = "refresh-token-reused" /\ InFamily(family[presented[c]]) = {}
         \/ pc[c] = "system-error"

-----------------------------------------------------------------------------
(* The rotation chain this module implements.                              *)

Opened(f) == \E t \in Token : family[t] = f

chainPhase ==
  [f \in Token |-> IF ~Opened(f) THEN "unopened"
                   ELSE IF Minters(f) # {} THEN "minting"
                   ELSE IF Active(f) # {} THEN "live" ELSE "dead"]

Head(f) == IF Active(f) = {} THEN None ELSE CHOOSE t \in Active(f) : TRUE

chainHead == [f \in Token |-> Head(f)]

chainSpent == {t \in Token : \E s \in Token : parent[s] = t}

Chain == INSTANCE RotationChain
           WITH Family <- Token, phase <- chainPhase, head <- chainHead,
                spent <- chainSpent

\* Seen from outside, every family is a rotation chain: one head, spent once,
\* and a family that is dead (no active record, no call about to store one)
\* never gets a head again, whatever call was still in flight.
RefinesChain == Chain!ChainSpec

=============================================================================
