---------------------------- MODULE Registration ----------------------------
(***************************************************************************)
(* RegistrationEngine (register/register.ts) with the verification that    *)
(* ends a registration (verification/verification.ts), the dispatcher that *)
(* sends its mail (module Dispatcher), and the purge of users who never    *)
(* verified.                                                               *)
(*                                                                         *)
(* Each action is one adapter operation, one hashing, or the code between  *)
(* two awaits.  A call registers once; the user it creates, the link of    *)
(* that user and the task that mails it bear the call's name.  Module      *)
(* OneTimeLinks has the inside of TokenEngine: here creating a link and    *)
(* consuming one are single steps.  runInTransaction is the application's: *)
(* what it wrote is seen by others from its commit on, and a second        *)
(* createUser for an address waits for the transaction of the first.       *)
(***************************************************************************)
EXTENDS Dispatcher

CONSTANTS Engines, \* the configurations considered, sets of features
          Emails,
          MaxTime, \* bound: the last tick of the clock
          Grace    \* verificationGracePeriodMs, in ticks

\* transactional: runInTransaction is given; protect: protectAgainstEnumeration;
\* verification: there is one.
Feature == {"transactional", "protect", "verification"}

ASSUME RegistrationAssumption ==
  /\ Engines \subseteq SUBSET Feature
  /\ MaxTime \in Nat
  /\ Grace \in Nat
  /\ "none" \notin Calls \cup Emails

None == "none"
NoPurge == -Grace - 1

VARIABLES
  engine,    \* its configuration
  \* the store
  users,     \* the users stored, by the call that created them
  staged,    \* the users of transactions that have not committed
  verified,  \* the users whose verificationStatus is "verified"
  createdAt,
  slot,      \* slot[e]: the link stored for that address
  \* the calls
  pc,        \* what the call waits for, or the status it answered with
  email,
  answer,    \* the status that a transaction will answer with
  send,      \* createAndDispatch, before the task is dispatched
  \* the one who follows a link: verifyEmail
  visit,     \* what it waits for, or the status it answered with
  visited,   \* the link presented
  found,     \* the user that the call read
  \* the environment
  now,
  cutoff,    \* the cutoff of a purge under way
  mailed,    \* the links that reached their mailbox
  \* history, read by the properties only
  purged,
  faulted    \* the calls for which something failed outside the engine

storeVars == <<users, staged, verified, createdAt, slot>>
callVars  == <<pc, email, answer, send>>
visitVars == <<visit, visited, found>>
envVars   == <<engine, now, cutoff, mailed, purged>>
vars == <<storeVars, callVars, visitVars, envVars, faulted, dispatcherVars>>

Success == {"success", "success-pending-verification"}
Answered == Success \cup {"email-already-exists", "validation-error", "system-error"}
Working == {"find", "dummy", "hash", "create", "commit"}

\* A type: what every variable holds.
TypeOK ==
  /\ DispatcherTypeOK
  /\ engine \in Engines
  /\ users \in SUBSET Calls
  /\ staged \in SUBSET Calls
  /\ verified \in SUBSET (users \cup staged)
  /\ createdAt \in [Calls -> 0..MaxTime]
  /\ slot \in [Emails -> Calls \cup {None}]
  /\ pc \in [Calls -> Working \cup Answered \cup {"idle", "crashed"}]
  /\ email \in [Calls -> Emails \cup {None}]
  /\ answer \in [Calls -> Answered \cup {None}]
  /\ send \in [Calls -> {"none", "create", "over"}]
  /\ visit \in {"idle", "consume", "find", "mark", "success", "invalid-token", "system-error"}
  /\ visited \in Calls \cup {None}
  /\ found \in Calls \cup {None}
  /\ now \in 0..MaxTime
  /\ cutoff \in NoPurge..MaxTime
  /\ mailed \in SUBSET Calls
  /\ purged \in SUBSET Calls
  /\ faulted \in SUBSET Calls

Init ==
  /\ DispatcherInit
  /\ engine \in Engines
  /\ users = {}
  /\ staged = {}
  /\ verified = {}
  /\ createdAt = [c \in Calls |-> 0]
  /\ slot = [e \in Emails |-> None]
  /\ pc = [c \in Calls |-> "idle"]
  /\ email = [c \in Calls |-> None]
  /\ answer = [c \in Calls |-> None]
  /\ send = [c \in Calls |-> "none"]
  /\ visit = "idle"
  /\ visited = None
  /\ found = None
  /\ now = 0
  /\ cutoff = NoPurge
  /\ mailed = {}
  /\ purged = {}
  /\ faulted = {}

-----------------------------------------------------------------------------
(* Helpers.                                                                *)

Goto(c, where) == pc' = [pc EXCEPT ![c] = where]

Holder(e, where) == {d \in where : email[d] = e}

\* Mutant: the answer is given before the transaction ends.
ReturnUncommitted(c, status) == Goto(c, status) /\ UNCHANGED answer

\* performRegistration is done: its transaction, if any, has to commit.
Return(c, status) ==
  IF "transactional" \in engine
  THEN Goto(c, "commit") /\ answer' = [answer EXCEPT ![c] = status]
  ELSE Goto(c, status) /\ UNCHANGED answer

SuccessStatus ==
  IF "verification" \in engine THEN "success-pending-verification" ELSE "success"

-----------------------------------------------------------------------------
(* execute.                                                                *)

\* validateInputs throws: nothing else happens.
RejectInput(c) ==
  /\ pc[c] = "idle"
  /\ Goto(c, "validation-error")
  /\ UNCHANGED <<storeVars, email, answer, send, visitVars, envVars, faulted, dispatcherVars>>

Start(c, e) ==
  /\ pc[c] = "idle"
  /\ Goto(c, "find")
  /\ email' = [email EXCEPT ![c] = e]
  /\ UNCHANGED <<storeVars, answer, send, visitVars, envVars, faulted, dispatcherVars>>

\* findUserByEmail.
FindUser(c) ==
  /\ pc[c] = "find"
  /\ IF Holder(email[c], users) = {}
     THEN Goto(c, "hash") /\ UNCHANGED answer
     ELSE IF "protect" \in engine
     THEN Goto(c, "dummy") /\ UNCHANGED answer
     ELSE Return(c, "email-already-exists")
  /\ UNCHANGED <<storeVars, email, send, visitVars, envVars, faulted, dispatcherVars>>

\* hashPassword for an address that is taken: only to take as long.
DummyHash(c) ==
  /\ pc[c] = "dummy"
  /\ Return(c, SuccessStatus)
  /\ UNCHANGED <<storeVars, email, send, visitVars, envVars, faulted, dispatcherVars>>

\* Mutant: the send is begun while the user is being created.
HashPasswordSending(c) ==
  /\ pc[c] = "hash"
  /\ Goto(c, "create")
  /\ send' = [send EXCEPT ![c] = IF "verification" \in engine THEN "create" ELSE @]
  /\ UNCHANGED <<storeVars, email, answer, visitVars, envVars, faulted, dispatcherVars>>

\* Without a password there is nothing to hash, and the step is a moment.
HashPassword(c) ==
  /\ pc[c] = "hash"
  /\ Goto(c, "create")
  /\ UNCHANGED <<storeVars, email, answer, send, visitVars, envVars, faulted, dispatcherVars>>

\* The user is in the store, or in the transaction; the send is begun, and
\* nobody waits for it.
StoreUser(c) ==
  /\ IF "transactional" \in engine
     THEN staged' = staged \cup {c} /\ UNCHANGED users
     ELSE users' = users \cup {c} /\ UNCHANGED staged
  /\ verified' = IF "verification" \in engine THEN verified ELSE verified \cup {c}
  /\ createdAt' = [createdAt EXCEPT ![c] = now]
  /\ send' = [send EXCEPT ![c] = IF "verification" \in engine THEN "create" ELSE @]
  /\ Return(c, SuccessStatus)
  /\ UNCHANGED <<slot, email, visitVars, envVars, faulted, dispatcherVars>>

\* Mutant: the lookup is thought to be enough.
CreateUserUnchecked(c) == pc[c] = "create" /\ StoreUser(c)

\* createUser: the store raises when the address is taken by now.
CreateUser(c) ==
  /\ pc[c] = "create"
  /\ Holder(email[c], staged) = {}
  /\ Holder(email[c], users) = {}
  /\ StoreUser(c)

CreateUserThrows(c) ==
  /\ pc[c] = "create"
  /\ Holder(email[c], users) # {}
  /\ Goto(c, "system-error")
  /\ UNCHANGED <<storeVars, email, answer, send, visitVars, envVars, faulted, dispatcherVars>>

\* The work of the transaction is done; the send it began is no part of it.
Commit(c) ==
  /\ pc[c] = "commit"
  /\ users' = users \cup (staged \cap {c})
  /\ staged' = staged \ {c}
  /\ Goto(c, answer[c])
  /\ answer' = [answer EXCEPT ![c] = None]
  /\ UNCHANGED <<verified, createdAt, slot, email, send, visitVars, envVars,
                 faulted, dispatcherVars>>

\* The commit is rejected, and may have taken effect all the same.
CommitFails(c) ==
  /\ pc[c] = "commit"
  /\ users' \in {users, users \cup (staged \cap {c})}
  /\ staged' = staged \ {c}
  /\ verified' = IF c \in users' THEN verified ELSE verified \ {c}
  /\ Goto(c, "system-error")
  /\ answer' = [answer EXCEPT ![c] = None]
  /\ faulted' = faulted \cup {c}
  /\ UNCHANGED <<createdAt, slot, email, send, visitVars, envVars, dispatcherVars>>

\* An adapter call or the hashing rejects.  createUser outside a transaction
\* may have taken effect: then the user exists, but no send was begun.
Fail(c) ==
  /\ pc[c] \in Working \ {"commit"}
  /\ \E created \in SUBSET {c} :
       /\ created # {} => /\ pc[c] = "create"
                          /\ "transactional" \notin engine
                          /\ Holder(email[c], users) = {}
       /\ users' = users \cup created
       /\ verified' = IF "verification" \in engine THEN verified ELSE verified \cup created
       /\ createdAt' = [d \in Calls |-> IF d \in created THEN now ELSE createdAt[d]]
  /\ Goto(c, "system-error")
  /\ faulted' = faulted \cup {c}
  /\ UNCHANGED <<staged, slot, email, answer, send, visitVars, envVars, dispatcherVars>>

-----------------------------------------------------------------------------
(* createAndDispatch, by the adapter of the engine and not the transaction. *)

\* Mutant: a link is stored, and its mail forgotten if the user is not yet
\* seen in the store.
CreateLinkIfSeen(c) ==
  /\ send[c] = "create"
  /\ slot' = [slot EXCEPT ![email[c]] = c]
  /\ send' = [send EXCEPT ![c] = "over"]
  /\ IF c \in users THEN Dispatch(c) ELSE UNCHANGED dispatcherVars
  /\ UNCHANGED <<users, staged, verified, createdAt, pc, email, answer, visitVars,
                 envVars, faulted>>

\* TokenEngine.create replaces the link of the address; dispatch follows.
CreateLink(c) ==
  /\ send[c] = "create"
  /\ slot' = [slot EXCEPT ![email[c]] = c]
  /\ send' = [send EXCEPT ![c] = "over"]
  /\ Dispatch(c)
  /\ UNCHANGED <<users, staged, verified, createdAt, pc, email, answer, visitVars,
                 envVars, faulted>>

\* All retries used up; the last write may have taken effect.
CreateLinkFails(c) ==
  /\ send[c] = "create"
  /\ slot' \in {slot, [slot EXCEPT ![email[c]] = c]}
  /\ send' = [send EXCEPT ![c] = "over"]
  /\ faulted' = faulted \cup {c}
  /\ UNCHANGED <<users, staged, verified, createdAt, pc, email, answer, visitVars,
                 envVars, dispatcherVars>>

\* The hook of the task: onVerificationRequired.
SendMail(c) ==
  /\ HandlerSucceeds(c)
  /\ mailed' = mailed \cup {c}
  /\ UNCHANGED <<storeVars, callVars, visitVars, engine, now, cutoff, purged, faulted>>

TaskStep(c) ==
  /\ RunHandler(c) \/ HandlerFails(c) \/ OnFailureSettles(c)
  /\ UNCHANGED <<storeVars, callVars, visitVars, envVars, faulted>>

Wait ==
  /\ Waiting
  /\ UNCHANGED <<storeVars, callVars, visitVars, envVars, faulted>>

-----------------------------------------------------------------------------
(* verifyEmail.                                                            *)

VisitGoto(where) == visit' = where

Present(l) ==
  /\ visit = "idle"
  /\ l \in mailed
  /\ VisitGoto("consume")
  /\ visited' = l
  /\ UNCHANGED <<storeVars, callVars, found, envVars, faulted, dispatcherVars>>

\* consume: whatever link is stored is gone; the one presented counts if it
\* is that one and has not expired.
ConsumeLink ==
  /\ visit = "consume"
  /\ slot' = [slot EXCEPT ![email[visited]] = None]
  /\ \/ VisitGoto("invalid-token")
     \/ slot[email[visited]] = visited /\ VisitGoto("find")
  /\ UNCHANGED <<users, staged, verified, createdAt, callVars, visited, found, envVars,
                 faulted, dispatcherVars>>

FindVisitor ==
  /\ visit = "find"
  /\ IF Holder(email[visited], users) = {}
     THEN VisitGoto("invalid-token") /\ UNCHANGED found
     ELSE /\ VisitGoto("mark")
          /\ found' \in Holder(email[visited], users)
  /\ UNCHANGED <<storeVars, callVars, visited, envVars, faulted, dispatcherVars>>

\* markUserVerified changes nothing when the user is gone by now.
MarkUserVerified ==
  /\ visit = "mark"
  /\ verified' = verified \cup ({found} \cap users)
  /\ VisitGoto("success")
  /\ UNCHANGED <<users, staged, createdAt, slot, callVars, visited, found, envVars,
                 faulted, dispatcherVars>>

VisitFails ==
  /\ visit \in {"consume", "find", "mark"}
  /\ VisitGoto("system-error")
  /\ UNCHANGED <<storeVars, callVars, visited, found, envVars, faulted, dispatcherVars>>

Leave ==
  /\ visit \in {"success", "invalid-token", "system-error"}
  /\ VisitGoto("idle")
  /\ visited' = None
  /\ found' = None
  /\ UNCHANGED <<storeVars, callVars, envVars, faulted, dispatcherVars>>

-----------------------------------------------------------------------------
(* purgeExpiredRegistrations.                                              *)

StartPurge ==
  /\ cutoff = NoPurge
  /\ cutoff' = now - Grace
  /\ UNCHANGED <<storeVars, callVars, visitVars, engine, now, mailed, purged, faulted,
                 dispatcherVars>>

\* Mutant: the age is all that counts.
ExpiredByAge == {c \in users : createdAt[c] < cutoff}

Expired == {c \in users \ verified : createdAt[c] < cutoff}

\* deleteExpiredUnverifiedUsers, one statement of the store.
Purge ==
  /\ cutoff # NoPurge
  /\ users' = users \ Expired
  /\ verified' = verified \ Expired
  /\ purged' = purged \cup Expired
  /\ cutoff' = NoPurge
  /\ UNCHANGED <<staged, createdAt, slot, callVars, visitVars, engine, now, mailed,
                 faulted, dispatcherVars>>

PurgeFails ==
  /\ cutoff # NoPurge
  /\ cutoff' = NoPurge
  /\ UNCHANGED <<storeVars, callVars, visitVars, engine, now, mailed, purged, faulted,
                 dispatcherVars>>

-----------------------------------------------------------------------------
\* The process dies: calls, sends and tasks with it, and the transactions
\* that had not committed.
Crash ==
  /\ \E c \in Calls : pc[c] \in Working \/ send[c] = "create" \/ task[c] \in Unfinished
  /\ pc' = [c \in Calls |-> IF pc[c] \in Working THEN "crashed" ELSE pc[c]]
  /\ faulted' = faulted \cup {c \in Calls : \/ pc[c] \in Working
                                           \/ send[c] = "create"
                                           \/ task[c] \in Unfinished}
  /\ send' = [c \in Calls |-> IF send[c] = "create" THEN "over" ELSE send[c]]
  /\ answer' = [c \in Calls |-> None]
  /\ staged' = {}
  /\ verified' = verified \cap users
  /\ visit' = "idle"
  /\ visited' = None
  /\ found' = None
  /\ cutoff' = NoPurge
  /\ DispatcherCrash
  /\ UNCHANGED <<users, createdAt, slot, email, engine, now, mailed, purged>>

Tick ==
  /\ now < MaxTime
  /\ now' = now + 1
  /\ UNCHANGED <<storeVars, callVars, visitVars, engine, cutoff, mailed, purged, faulted,
                 dispatcherVars>>

CallStep(c) ==
  \/ FindUser(c)
  \/ DummyHash(c)
  \/ HashPassword(c)
  \/ CreateUser(c)
  \/ CreateUserThrows(c)
  \/ Commit(c)
  \/ CommitFails(c)
  \/ Fail(c)

Next ==
  \/ \E c \in Calls :
        \/ RejectInput(c)
        \/ \E e \in Emails : Start(c, e)
        \/ CallStep(c)
        \/ CreateLink(c)
        \/ CreateLinkFails(c)
        \/ SendMail(c)
        \/ TaskStep(c)
        \/ Present(c)
  \/ ConsumeLink
  \/ FindVisitor
  \/ MarkUserVerified
  \/ VisitFails
  \/ Leave
  \/ StartPurge
  \/ Purge
  \/ PurgeFails
  \/ Wait
  \/ Crash
  \/ Tick

\* Timers fire.  Nothing is asked of the adapter, the mail hook or the caller.
Spec == Init /\ [][Next]_vars /\ WF_vars(Poll /\ Wait)

-----------------------------------------------------------------------------
(* Properties.                                                             *)

\* Of two registrations of one address that both found nobody, one creates
\* the user: never are there two, committed or not (register.ts:140, 153).
OneUserPerAddress ==
  \A c, d \in users \cup staged : email[c] = email[d] => c = d

\* Who is told "success" has an account, or somebody had one with the
\* address: a transaction that rolls back never answers so (register.ts:92).
SuccessMeansAccount ==
  \A c \in Calls :
    pc[c] \in Success => \E d \in users \cup purged : email[d] = email[c]

\* A mail tells of a user who is or was in the store, or whose transaction is
\* still open; else something failed after the send was begun, outside the
\* engine, which starts it before the commit (register.ts:168).
GhostMailHasCause ==
  mailed \subseteq users \cup purged \cup staged \cup faulted

\* A pending user nobody is sending mail to was sent a link, unless something
\* failed for it.  That link may have expired by then, have been consumed before
\* the commit, or have been deleted when an older link was presented.
StrandedHasCause ==
  \A c \in users \ verified :
    /\ send[c] # "create"
    /\ task[c] \notin Unfinished
    => c \in mailed \cup faulted \/ task[c] = "failed"

\* A verified user stays, and stays verified: no purge takes it for one that
\* never verified, although its cutoff is older than the verification.
VerifiedStays == [][verified \cap users \subseteq verified' \cap users']_vars

\* verifyEmail answers "success" for a user that is verified, or that a purge
\* deleted between its lookup and its update (verification.ts:170, 175).
VerifyAnswerHolds ==
  visit = "success" => found \in (verified \cap users) \cup purged

=============================================================================
