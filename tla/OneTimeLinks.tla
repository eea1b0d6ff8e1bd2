---------------------------- MODULE OneTimeLinks ----------------------------
(***************************************************************************)
(* One-time links.  TokenEngine.create and consume (internal/token.ts)     *)
(* keep one link per purpose and e-mail address; VerificationEngine and    *)
(* PasswordResetEngine send links in the background and accept them.       *)
(*                                                                         *)
(* Each action is one adapter operation, or the code between two awaits.   *)
(* Links are numbered in the order they are generated, addresses are       *)
(* already lowercased and trimmed, and the identifier `purpose:email` is   *)
(* the pair <<purpose, user>>.  A password is named after the link whose   *)
(* reset set it.  The revocations at the end of a reset touch none of this *)
(* state and cannot change its answer: module Sessions has them.           *)
(***************************************************************************)
EXTENDS Integers

CONSTANTS Calls,      \* slots for concurrent calls and background sends
          Users,
          MaxTokens,  \* bound: how many links are ever generated
          MaxTime,    \* bound: the last tick of the clock
          Timeout,    \* defaultTokenTimeoutMs, in ticks
          MaxRetries  \* tokenCreationRetry.maxRetries

Token == 1..MaxTokens
None == 0             \* no link, no user; presented: not a link at all

ASSUME LinkAssumption ==
  /\ MaxTokens \in Nat
  /\ MaxTime \in Nat
  /\ Timeout \in Nat
  /\ MaxRetries \in Nat
  /\ None \notin Users

VARIABLES
  \* the store
  slot,       \* slot[p, u]: the link stored for that purpose and user
  registered, \* the users that exist
  verified,   \* the users whose verificationStatus is not "pending"
  password,   \* password[u]: the link whose reset set it, None at first
  \* links
  minted,     \* how many links were generated
  aim,        \* aim[t]: the purpose and user that link t was created for
  expires,    \* expires[t]: the expiresAt stored with link t
  \* the environment
  now,        \* Date.now()
  mailed,     \* the links that reached their user
  \* the calls in flight
  pc,         \* the adapter call it waits for, or the status it answered with
  target,     \* its purpose and user
  link,       \* a send: the link it created; else the link it was given
  seen,       \* the link that it read from the store
  tries,      \* a send: how many attempts at storing a link have failed
  \* history, read by the properties only
  undone      \* the slots that had their record deleted by a presentation, or a send
              \* given up or dead, since a link was last stored well

storeVars == <<slot, registered, verified, password>>
linkVars  == <<minted, aim, expires>>
callVars  == <<pc, target, link, seen, tries>>
vars == <<storeVars, linkVars, now, mailed, callVars, undone>>

Purpose == {"email-verification", "password-reset"}
Slot == Purpose \X Users
NoTarget == <<"none", None>>

Sends  == {"generate", "store", "mail"}
Claims == {"get", "delete", "check"}
\* Beyond consume: the call acts on the strength of its link.
Trusted == {"find", "verify", "update"}
Outcome == {"success", "invalid-token", "system-error"}

\* A type: what every variable holds.
TypeOK ==
  /\ slot \in [Slot -> Token \cup {None}]
  /\ registered \in SUBSET Users
  /\ verified \in SUBSET Users
  /\ password \in [Users -> Token \cup {None}]
  /\ minted \in 0..MaxTokens
  /\ aim \in [Token -> Slot \cup {NoTarget}]
  /\ expires \in [Token -> Nat]
  /\ now \in Nat
  /\ mailed \in SUBSET Token
  /\ pc \in [Calls -> {"idle"} \cup Sends \cup Claims \cup Trusted \cup Outcome]
  /\ target \in [Calls -> Slot \cup {NoTarget}]
  /\ link \in [Calls -> Token \cup {None}]
  /\ seen \in [Calls -> Token \cup {None}]
  /\ tries \in [Calls -> 0..MaxRetries]
  /\ undone \in SUBSET Slot

Init ==
  /\ slot = [s \in Slot |-> None]
  /\ registered = Users
  /\ verified \in SUBSET Users
  /\ password = [u \in Users |-> None]
  /\ minted = 0
  /\ aim = [t \in Token |-> NoTarget]
  /\ expires = [t \in Token |-> 0]
  /\ now = 0
  /\ mailed = {}
  /\ pc = [c \in Calls |-> "idle"]
  /\ target = [c \in Calls |-> NoTarget]
  /\ link = [c \in Calls |-> None]
  /\ seen = [c \in Calls |-> None]
  /\ tries = [c \in Calls |-> 0]
  /\ undone = {}

-----------------------------------------------------------------------------
(* Helpers.                                                                *)

User(c) == target[c][2]

Goto(c, where) == pc' = [pc EXCEPT ![c] = where]

\* The call forgets what it held; a caller gets its answer.
Finish(c, result) ==
  /\ Goto(c, result)
  /\ seen' = [seen EXCEPT ![c] = None]
  /\ tries' = [tries EXCEPT ![c] = 0]

\* A background send has no caller: its slot is free at once.
EndSend(c) ==
  /\ Finish(c, "idle")
  /\ target' = [target EXCEPT ![c] = NoTarget]
  /\ link' = [link EXCEPT ![c] = None]

-----------------------------------------------------------------------------
(* createAndDispatch: create a link, store it, send it.  Nobody waits.     *)

\* requestReset, resendVerification (password correct, user still pending)
\* and the end of a registration.
RequestLink(c, s) ==
  /\ pc[c] = "idle"
  /\ s[2] \in registered
  /\ s[1] = "email-verification" => s[2] \notin verified
  /\ Goto(c, "generate")
  /\ target' = [target EXCEPT ![c] = s]
  /\ UNCHANGED <<storeVars, linkVars, now, mailed, link, seen, tries, undone>>

\* Every attempt generates a link of its own.
GenerateLink(c) ==
  /\ pc[c] = "generate"
  /\ minted < MaxTokens
  /\ minted' = minted + 1
  /\ aim' = [aim EXCEPT ![minted + 1] = target[c]]
  /\ expires' = [expires EXCEPT ![minted + 1] = now + Timeout]
  /\ link' = [link EXCEPT ![c] = minted + 1]
  /\ Goto(c, "store")
  /\ UNCHANGED <<storeVars, now, mailed, target, seen, tries, undone>>

\* Mutant: the store inserts and does not replace.
StoreLinkIfEmpty(c) ==
  /\ pc[c] = "store"
  /\ slot' = [slot EXCEPT ![target[c]] = IF @ = None THEN link[c] ELSE @]
  /\ Goto(c, "mail")
  /\ undone' = undone \ {target[c]}
  /\ UNCHANGED <<registered, verified, password, linkVars, now, mailed,
                 target, link, seen, tries>>

\* setVerificationToken: the new link takes the place of the old one.
StoreLink(c) ==
  /\ pc[c] = "store"
  /\ slot' = [slot EXCEPT ![target[c]] = link[c]]
  /\ Goto(c, "mail")
  /\ undone' = undone \ {target[c]}
  /\ UNCHANGED <<registered, verified, password, linkVars, now, mailed,
                 target, link, seen, tries>>

\* The write is rejected, and may have been applied all the same.
StoreFails(c) ==
  /\ pc[c] = "store"
  /\ slot' \in {slot, [slot EXCEPT ![target[c]] = link[c]]}
  /\ IF tries[c] < MaxRetries
     THEN /\ tries' = [tries EXCEPT ![c] = @ + 1]
          /\ Goto(c, "generate")
          /\ link' = [link EXCEPT ![c] = None]
          /\ UNCHANGED <<target, seen, undone>>
     ELSE /\ EndSend(c)
          /\ undone' = undone \cup {target[c]}
  /\ UNCHANGED <<registered, verified, password, linkVars, now, mailed>>

\* The dispatched hook, after whatever retries of its own.
SendMail(c) ==
  /\ pc[c] = "mail"
  /\ mailed' = mailed \cup {link[c]}
  /\ EndSend(c)
  /\ UNCHANGED <<storeVars, linkVars, now, undone>>

HookFails(c) ==
  /\ pc[c] = "mail"
  /\ EndSend(c)
  /\ undone' = undone \cup {target[c]}
  /\ UNCHANGED <<storeVars, linkVars, now, mailed>>

-----------------------------------------------------------------------------
(* consume, and the two callers of it.                                     *)

\* Somebody follows a link, mistypes one, or uses a link of another kind.
Present(c, s, t) ==
  /\ pc[c] = "idle"
  /\ t \in mailed \cup {None}
  /\ Goto(c, "get")
  /\ target' = [target EXCEPT ![c] = s]
  /\ link' = [link EXCEPT ![c] = t]
  /\ UNCHANGED <<storeVars, linkVars, now, mailed, seen, tries, undone>>

\* Mutant: the identifier is the address, without the purpose.
GetRecordOfAnyPurpose(c) ==
  /\ pc[c] = "get"
  /\ \E p \in Purpose :
       LET record == slot[<<p, User(c)>>] IN
       IF record = None
       THEN Finish(c, "invalid-token")
       ELSE /\ Goto(c, "delete")
            /\ seen' = [seen EXCEPT ![c] = record]
            /\ UNCHANGED tries
  /\ UNCHANGED <<storeVars, linkVars, now, mailed, target, link, undone>>

\* getVerificationToken: the call goes by this record from here on.
GetRecord(c) ==
  /\ pc[c] = "get"
  /\ IF slot[target[c]] = None
     THEN Finish(c, "invalid-token")
     ELSE /\ Goto(c, "delete")
          /\ seen' = [seen EXCEPT ![c] = slot[target[c]]]
          /\ UNCHANGED tries
  /\ UNCHANGED <<storeVars, linkVars, now, mailed, target, link, undone>>

\* deleteVerificationToken: by identifier, whatever is stored there by now.
DeleteRecord(c) ==
  /\ pc[c] = "delete"
  /\ slot' = [slot EXCEPT ![target[c]] = None]
  /\ Goto(c, "check")
  /\ undone' = undone \cup {target[c]}
  /\ UNCHANGED <<registered, verified, password, linkVars, now, mailed,
                 target, link, seen, tries>>

\* Expiry, then the comparison of the hashes.
CheckRecord(c) ==
  /\ pc[c] = "check"
  /\ IF now <= expires[seen[c]] /\ seen[c] = link[c]
     THEN /\ Goto(c, "find")
          /\ seen' = [seen EXCEPT ![c] = None]
          /\ UNCHANGED tries
     ELSE Finish(c, "invalid-token")
  /\ UNCHANGED <<storeVars, linkVars, now, mailed, target, link, undone>>

\* findUserByEmail; a reset then hashes the new password, which it was given.
FindUser(c) ==
  /\ pc[c] = "find"
  /\ IF User(c) \notin registered
     THEN Finish(c, "invalid-token")
     ELSE /\ Goto(c, IF target[c][1] = "password-reset" THEN "update" ELSE "verify")
          /\ UNCHANGED <<seen, tries>>
  /\ UNCHANGED <<storeVars, linkVars, now, mailed, target, link, undone>>

\* markUserVerified changes nothing when the user is gone by now.
MarkUserVerified(c) ==
  /\ pc[c] = "verify"
  /\ verified' = verified \cup ({User(c)} \cap registered)
  /\ Finish(c, "success")
  /\ UNCHANGED <<slot, registered, password, linkVars, now, mailed,
                 target, link, undone>>

\* updateUser of completeAccountRecovery; it throws when the user is gone.
UpdateUser(c) ==
  /\ pc[c] = "update"
  /\ IF User(c) \in registered
     THEN /\ password' = [password EXCEPT ![User(c)] = link[c]]
          /\ Finish(c, "success")
     ELSE /\ Finish(c, "system-error")
          /\ UNCHANGED password
  /\ UNCHANGED <<slot, registered, verified, linkVars, now, mailed,
                 target, link, undone>>

-----------------------------------------------------------------------------
\* Mutant: a call that fails puts its link back for another attempt.
FailRestoringLink(c) ==
  /\ pc[c] \in {"get", "delete", "find", "verify", "update"}
  /\ slot' = IF pc[c] \in Trusted THEN [slot EXCEPT ![target[c]] = link[c]] ELSE slot
  /\ Finish(c, "system-error")
  /\ UNCHANGED <<registered, verified, password, linkVars, now, mailed,
                 target, link, undone>>

\* An adapter call or the hashing rejects: the call is over.  What it did so
\* far stays done, the link stays consumed.
Fail(c) ==
  /\ pc[c] \in {"get", "delete", "find", "verify", "update"}
  /\ Finish(c, "system-error")
  /\ UNCHANGED <<storeVars, linkVars, now, mailed, target, link, undone>>

Return(c) ==
  /\ pc[c] \in Outcome
  /\ Goto(c, "idle")
  /\ target' = [target EXCEPT ![c] = NoTarget]
  /\ link' = [link EXCEPT ![c] = None]
  /\ UNCHANGED <<storeVars, linkVars, now, mailed, seen, tries, undone>>

\* The process dies with everything that was in flight, sends included.
Crash ==
  /\ \E c \in Calls : pc[c] # "idle"
  /\ pc' = [c \in Calls |-> "idle"]
  /\ target' = [c \in Calls |-> NoTarget]
  /\ link' = [c \in Calls |-> None]
  /\ seen' = [c \in Calls |-> None]
  /\ tries' = [c \in Calls |-> 0]
  /\ undone' = undone \cup {target[c] : c \in {d \in Calls : pc[d] \in Sends}}
  /\ UNCHANGED <<storeVars, linkVars, now, mailed>>

\* The application deletes a user; the links stored for the address stay.
DeleteUser(u) ==
  /\ u \in registered
  /\ registered' = registered \ {u}
  /\ verified' = verified \ {u}
  /\ UNCHANGED <<slot, password, linkVars, now, mailed, callVars, undone>>

Tick ==
  /\ now < MaxTime
  /\ now' = now + 1
  /\ UNCHANGED <<storeVars, linkVars, mailed, callVars, undone>>

Step(c) ==
  \/ GenerateLink(c)
  \/ StoreLink(c)
  \/ StoreFails(c)
  \/ SendMail(c)
  \/ HookFails(c)
  \/ GetRecord(c)
  \/ DeleteRecord(c)
  \/ CheckRecord(c)
  \/ FindUser(c)
  \/ MarkUserVerified(c)
  \/ UpdateUser(c)
  \/ Fail(c)

Next ==
  \/ \E c \in Calls :
        \/ \E s \in Slot : RequestLink(c, s)
        \/ \E s \in Slot, t \in mailed \cup {None} : Present(c, s, t)
        \/ Step(c)
        \/ Return(c)
  \/ \E u \in Users : DeleteUser(u)
  \/ Crash
  \/ Tick

Spec == Init /\ [][Next]_vars

-----------------------------------------------------------------------------
(* Properties.                                                             *)

\* Whoever acts on the strength of a link was mailed a link that was created
\* for this very purpose and this very user (token.ts:184, 200-210).  Two calls
\* may act on one link, see DeadLinksStayDead.
TrustedByOwnLink ==
  \A c \in Calls :
    pc[c] \in Trusted => link[c] \in mailed /\ aim[link[c]] = target[c]

\* A link can still be accepted while it is stored, about to be stored, or was
\* read by a call that has not compared it yet.
Usable(t) ==
  \/ \E s \in Slot : slot[s] = t
  \/ \E c \in Calls : pc[c] = "store" /\ link[c] = t
  \/ \E c \in Calls : pc[c] \in {"delete", "check"} /\ seen[c] = t

\* Dead links stay dead: a link that was consumed, replaced by a newer one or
\* lost never becomes acceptable again, whatever fails and is retried.  It is
\* accepted by two calls only if both read it before either deleted it, which
\* token.ts:190-192, cryptography.md:50 and core-concepts.md:990 take to be
\* impossible.
DeadLinksStayDead ==
  [][\A t \in 1..minted : ~Usable(t) => ~Usable(t)']_vars

\* Once no send for a slot is at work, and since a link was last stored well no
\* send was given up or died and no presentation deleted the record, the link
\* that is stored is in the mailbox.  Racing sends and retries after an unknown
\* outcome never leave dead links only, and a send that goes well makes up for
\* whatever was lost or consumed before it.  A presentation deletes what is stored
\* by then, be its link wrong, older, or older than what it read (token.ts:193).
MailboxHasTheLink ==
  \A s \in Slot \ undone :
    /\ \E t \in mailed : aim[t] = s
    /\ \A c \in Calls : ~(pc[c] \in Sends /\ target[c] = s)
    => slot[s] \in mailed

=============================================================================
