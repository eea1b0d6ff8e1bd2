------------------------ MODULE OneTimeLinks_proofs ------------------------
(***************************************************************************)
(* What OneTimeLinks guarantees for any number of calls, users and links,  *)
(* any timeout and any number of retries.                                  *)
(***************************************************************************)
EXTENDS OneTimeLinks, TLAPS

\* What a call holds was created for what the call is about.
CallsFit ==
  \A c \in Calls :
    /\ pc[c] # "idle" => target[c] \in Slot
    /\ pc[c] \in {"store", "mail"} => link[c] # None /\ aim[link[c]] = target[c]
    /\ pc[c] \in {"delete", "check"} => seen[c] # None /\ aim[seen[c]] = target[c]
    /\ pc[c] \in Claims => link[c] \in mailed \cup {None}
    /\ link[c] <= minted /\ seen[c] <= minted

\* So was what the store and the mailboxes hold; links are numbered as they
\* are generated.
LinksFit ==
  /\ mailed \subseteq 1..minted
  /\ \A s \in Slot : slot[s] <= minted /\ (slot[s] # None => aim[slot[s]] = s)

\* The link stored in a slot that is not undone was mailed, unless its sender, or
\* one that will replace it, is still at work; there is one if any was mailed.
MailFits ==
  \A s \in Slot \ undone :
    /\ slot[s] # None /\ slot[s] \notin mailed =>
         \E c \in Calls : /\ pc[c] \in Sends /\ target[c] = s
                          /\ pc[c] = "mail" => link[c] = slot[s]
    /\ slot[s] = None => /\ \A t \in mailed : aim[t] # s
                         /\ \A c \in Calls : ~(pc[c] = "mail" /\ target[c] = s)

IInv ==
  /\ TypeOK
  /\ CallsFit
  /\ LinksFit
  /\ TrustedByOwnLink
  /\ MailFits

-----------------------------------------------------------------------------
LEMMA InitIInv == Init => IInv
<1> SUFFICES ASSUME Init
             PROVE  IInv
  OBVIOUS
<1> USE LinkAssumption DEF Init
<1>1. TypeOK
  BY DEF TypeOK, Token, None
<1>2. CallsFit /\ LinksFit /\ TrustedByOwnLink /\ MailFits
  BY DEF CallsFit, LinksFit, TrustedByOwnLink, MailFits, Claims, Trusted, Sends, Token, None
<1>3. QED
  BY <1>1, <1>2 DEF IInv

-----------------------------------------------------------------------------
(* The steps of one call.                                                  *)

CallAction(c) ==
  \/ \E s \in Slot : RequestLink(c, s)
  \/ \E s \in Slot, t \in mailed \cup {None} : Present(c, s, t)
  \/ Step(c)
  \/ Return(c)

\* Nothing happens to a call.
WorldAction == (\E u \in Users : DeleteUser(u)) \/ Tick \/ UNCHANGED vars

LEMMA StepCases ==
  [Next]_vars => WorldAction \/ Crash \/ \E c \in Calls : CallAction(c)
  BY DEF Next, WorldAction, CallAction

LEMMA WorldFits ==
  ASSUME WorldAction
  PROVE  UNCHANGED <<slot, password, linkVars, mailed, callVars, undone>>
  BY DEF WorldAction, DeleteUser, Tick, vars, storeVars

\* What happens to one call leaves the others where they are.
LEMMA OtherCalls ==
  ASSUME TypeOK, NEW c \in Calls, NEW d \in Calls, d # c, CallAction(c)
  PROVE  /\ pc'[d] = pc[d] /\ target'[d] = target[d] /\ link'[d] = link[d]
         /\ seen'[d] = seen[d] /\ tries'[d] = tries[d]
<1> USE DEF TypeOK, Goto, Finish, EndSend
<1>1. CASE \/ \E s \in Slot : RequestLink(c, s)
           \/ \E s \in Slot, t \in mailed \cup {None} : Present(c, s, t)
  BY <1>1 DEF RequestLink, Present
<1>2. CASE GenerateLink(c) \/ StoreLink(c) \/ StoreFails(c) \/ SendMail(c) \/ HookFails(c)
  BY <1>2 DEF GenerateLink, StoreLink, StoreFails, SendMail, HookFails
<1>3. CASE GetRecord(c) \/ DeleteRecord(c) \/ CheckRecord(c) \/ FindUser(c)
  BY <1>3 DEF GetRecord, DeleteRecord, CheckRecord, FindUser
<1>4. CASE MarkUserVerified(c) \/ UpdateUser(c) \/ Fail(c) \/ Return(c)
  BY <1>4 DEF MarkUserVerified, UpdateUser, Fail, Return
<1>5. QED
  BY <1>1, <1>2, <1>3, <1>4 DEF CallAction, Step

\* Whatever ends a call keeps its types.
LEMMA FinishFits ==
  ASSUME TypeOK, NEW c \in Calls, NEW result \in Outcome \cup {"idle"}, Finish(c, result)
  PROVE  /\ pc' \in [Calls -> {"idle"} \cup Sends \cup Claims \cup Trusted \cup Outcome]
         /\ seen' \in [Calls -> Token \cup {None}]
         /\ tries' \in [Calls -> 0..MaxRetries]
         /\ pc'[c] = result /\ seen'[c] = None
  BY LinkAssumption DEF TypeOK, Finish, Goto

LEMMA TypeStep == IInv /\ [Next]_vars => TypeOK'
<1> SUFFICES ASSUME IInv, [Next]_vars
             PROVE  TypeOK'
  OBVIOUS
<1> TypeOK /\ CallsFit /\ LinksFit
  BY DEF IInv
<1> USE LinkAssumption DEF TypeOK, storeVars, linkVars
<1>1. ASSUME NEW c \in Calls, NEW s \in Slot, RequestLink(c, s)
      PROVE  TypeOK'
  BY <1>1 DEF RequestLink, Goto, Sends
<1>2. ASSUME NEW c \in Calls, NEW s \in Slot, NEW t \in mailed \cup {None}, Present(c, s, t)
      PROVE  TypeOK'
  BY <1>2 DEF Present, Goto, Claims
<1>3. ASSUME NEW c \in Calls, GenerateLink(c)
      PROVE  TypeOK'
  <2>1. minted + 1 \in Token /\ minted + 1 \in 0..MaxTokens /\ now + Timeout \in Nat
    BY <1>3 DEF GenerateLink, Token
  <2>2. target[c] \in Slot
    BY <1>3 DEF GenerateLink, CallsFit
  <2>3. QED
    BY <1>3, <2>1, <2>2 DEF GenerateLink, Goto, Sends
<1>4. ASSUME NEW c \in Calls, StoreLink(c)
      PROVE  TypeOK'
  BY <1>4 DEF StoreLink, Goto, Sends
<1>5. ASSUME NEW c \in Calls, StoreFails(c)
      PROVE  TypeOK'
  <2>1. slot' \in [Slot -> Token \cup {None}] /\ target[c] \in Slot
    BY <1>5 DEF StoreFails, CallsFit
  <2>2. CASE tries[c] < MaxRetries
    <3>1. tries[c] + 1 \in 0..MaxRetries
      BY <2>2
    <3>2. QED
      BY <1>5, <2>1, <2>2, <3>1 DEF StoreFails, Goto, Sends
  <2>3. CASE ~(tries[c] < MaxRetries)
    BY <1>5, <2>1, <2>3, FinishFits DEF StoreFails, EndSend
  <2>4. QED
    BY <2>2, <2>3
<1>6. ASSUME NEW c \in Calls, SendMail(c)
      PROVE  TypeOK'
  <2>1. link[c] \in Token
    BY <1>6 DEF SendMail, CallsFit
  <2>2. QED
    BY <1>6, <2>1, FinishFits DEF SendMail, EndSend
<1>7. ASSUME NEW c \in Calls, HookFails(c)
      PROVE  TypeOK'
  <2>1. target[c] \in Slot
    BY <1>7 DEF HookFails, CallsFit
  <2>2. QED
    BY <1>7, <2>1, FinishFits DEF HookFails, EndSend
<1>8. ASSUME NEW c \in Calls, GetRecord(c)
      PROVE  TypeOK'
  <2>1. slot[target[c]] \in Token \cup {None}
    BY <1>8 DEF GetRecord, CallsFit
  <2>2. CASE slot[target[c]] = None
    BY <1>8, <2>2, FinishFits DEF GetRecord, Outcome
  <2>3. CASE slot[target[c]] # None
    BY <1>8, <2>1, <2>3 DEF GetRecord, Goto, Claims
  <2>4. QED
    BY <2>2, <2>3
<1>9. ASSUME NEW c \in Calls, DeleteRecord(c)
      PROVE  TypeOK'
  <2>1. target[c] \in Slot
    BY <1>9 DEF DeleteRecord, CallsFit
  <2>2. QED
    BY <1>9, <2>1 DEF DeleteRecord, Goto, Claims
<1>10. ASSUME NEW c \in Calls, CheckRecord(c)
       PROVE  TypeOK'
  <2>1. CASE Finish(c, "invalid-token")
    BY <1>10, <2>1, FinishFits DEF CheckRecord, Outcome
  <2>2. CASE /\ Goto(c, "find")
             /\ seen' = [seen EXCEPT ![c] = None]
             /\ UNCHANGED tries
    BY <1>10, <2>2 DEF CheckRecord, Goto, Trusted
  <2>3. QED
    BY <1>10, <2>1, <2>2 DEF CheckRecord
<1>11. ASSUME NEW c \in Calls, FindUser(c)
       PROVE  TypeOK'
  <2>1. CASE Finish(c, "invalid-token")
    BY <1>11, <2>1, FinishFits DEF FindUser, Outcome
  <2>2. CASE pc' \in {[pc EXCEPT ![c] = "update"], [pc EXCEPT ![c] = "verify"]}
             /\ UNCHANGED <<seen, tries>>
    BY <1>11, <2>2 DEF FindUser, Trusted
  <2>3. QED
    BY <1>11, <2>1, <2>2 DEF FindUser, Goto
<1>12. ASSUME NEW c \in Calls, MarkUserVerified(c)
       PROVE  TypeOK'
  BY <1>12, FinishFits DEF MarkUserVerified, Outcome
<1>13. ASSUME NEW c \in Calls, UpdateUser(c)
       PROVE  TypeOK'
  BY <1>13, FinishFits DEF UpdateUser, Outcome
<1>14. ASSUME NEW c \in Calls, Fail(c)
       PROVE  TypeOK'
  BY <1>14, FinishFits DEF Fail, Outcome
<1>15. ASSUME NEW c \in Calls, Return(c)
       PROVE  TypeOK'
  BY <1>15 DEF Return, Goto
<1>16. CASE Crash
  <2>1. undone' \in SUBSET Slot
    BY <1>16 DEF Crash, CallsFit, Sends
  <2>2. QED
    BY <1>16, <2>1 DEF Crash
<1>17. CASE WorldAction
  BY <1>17 DEF WorldAction, DeleteUser, Tick, vars, callVars
<1>18. QED
  BY <1>1, <1>2, <1>3, <1>4, <1>5, <1>6, <1>7, <1>8, <1>9, <1>10, <1>11, <1>12, <1>13,
     <1>14, <1>15, <1>16, <1>17, StepCases
  DEF CallAction, Step

-----------------------------------------------------------------------------
(* The invariant is kept.                                                  *)

\* What never goes back; what a link was created for never changes.
LEMMA Progress ==
  ASSUME TypeOK, [Next]_vars
  PROVE  /\ minted \in Nat /\ minted' \in Nat /\ minted <= minted'
         /\ mailed \subseteq mailed'
         /\ \A t \in 1..minted : aim'[t] = aim[t]
<1> USE LinkAssumption DEF TypeOK, storeVars, linkVars
<1>1. ASSUME NEW c \in Calls, GenerateLink(c)
      PROVE  /\ minted \in Nat /\ minted' = minted + 1 /\ UNCHANGED mailed
             /\ \A t \in 1..minted : aim'[t] = aim[t]
  <2>1. \A t \in 1..minted : t \in Token /\ t # minted + 1
    BY DEF Token
  <2>2. QED
    BY <1>1, <2>1 DEF GenerateLink
<1>2. ASSUME NEW c \in Calls, CallAction(c), ~GenerateLink(c)
      PROVE  /\ UNCHANGED linkVars
             /\ mailed \subseteq mailed'
  <2>1. CASE \/ \E s \in Slot : RequestLink(c, s)
             \/ \E s \in Slot, t \in mailed \cup {None} : Present(c, s, t)
    BY <2>1 DEF RequestLink, Present
  <2>2. CASE StoreLink(c) \/ SendMail(c) \/ HookFails(c)
    BY <2>2 DEF StoreLink, SendMail, HookFails
  <2>3. CASE StoreFails(c)
    BY <2>3 DEF StoreFails
  <2>4. CASE GetRecord(c) \/ DeleteRecord(c) \/ CheckRecord(c) \/ FindUser(c)
    BY <2>4 DEF GetRecord, DeleteRecord, CheckRecord, FindUser
  <2>5. CASE MarkUserVerified(c) \/ UpdateUser(c) \/ Fail(c) \/ Return(c)
    BY <2>5 DEF MarkUserVerified, UpdateUser, Fail, Return
  <2>6. QED
    BY <1>2, <2>1, <2>2, <2>3, <2>4, <2>5 DEF CallAction, Step
<1>3. CASE Crash
  BY <1>3 DEF Crash
<1>4. minted \in Nat
  OBVIOUS
<1>5. QED
  BY <1>1, <1>2, <1>3, <1>4, WorldFits, StepCases

\* Links are numbers.
LEMMA Numbers ==
  ASSUME TypeOK
  PROVE  /\ \A c \in Calls : link[c] \in Nat /\ seen[c] \in Nat
         /\ \A s \in Slot : slot[s] \in Nat
<1>1. Token \cup {None} \subseteq Nat
  BY DEF Token, None
<1>2. QED
  BY <1>1 DEF TypeOK

\* A call whose state is kept stays in order.
LEMMA KeptCall ==
  ASSUME IInv, [Next]_vars, NEW d \in Calls,
         pc'[d] = pc[d], target'[d] = target[d], link'[d] = link[d], seen'[d] = seen[d]
  PROVE  CallsFit!(d)' /\ TrustedByOwnLink!(d)'
<1> TypeOK /\ CallsFit /\ LinksFit /\ TrustedByOwnLink
  BY DEF IInv
<1>1. link[d] \in Nat /\ seen[d] \in Nat /\ link[d] <= minted /\ seen[d] <= minted
  BY Numbers DEF CallsFit
<1>2. link[d] # None => aim'[link[d]] = aim[link[d]]
  BY <1>1, Progress DEF None
<1>3. seen[d] # None => aim'[seen[d]] = aim[seen[d]]
  BY <1>1, Progress DEF None
<1>4. link[d] <= minted' /\ seen[d] <= minted'
  BY <1>1, Progress
<1>5. mailed \subseteq mailed'
  BY Progress
<1>6. CallsFit!(d)'
  BY <1>2, <1>3, <1>4, <1>5 DEF CallsFit
<1>7. None \notin mailed
  BY DEF LinksFit, None
<1>8. TrustedByOwnLink!(d)'
  BY <1>2, <1>5, <1>7 DEF TrustedByOwnLink
<1>9. QED
  BY <1>6, <1>8

LEMMA CallsStep == IInv /\ [Next]_vars => CallsFit' /\ TrustedByOwnLink'
<1> SUFFICES ASSUME IInv, [Next]_vars, NEW d \in Calls
             PROVE  CallsFit!(d)' /\ TrustedByOwnLink!(d)'
  BY DEF CallsFit, TrustedByOwnLink
<1> TypeOK /\ CallsFit /\ LinksFit /\ TrustedByOwnLink
  BY DEF IInv
<1>1. link[d] \in Nat /\ seen[d] \in Nat /\ link[d] <= minted /\ seen[d] <= minted
  BY Numbers DEF CallsFit
<1>2. link[d] <= minted' /\ seen[d] <= minted' /\ 0 <= minted'
  BY <1>1, Progress
<1>3. mailed \subseteq mailed'
  BY Progress
<1>4. ASSUME NEW c \in Calls, d # c, CallAction(c)
      PROVE  CallsFit!(d)' /\ TrustedByOwnLink!(d)'
  BY <1>4, OtherCalls, KeptCall
<1>5. CASE WorldAction
  BY <1>5, WorldFits, KeptCall DEF callVars
<1>6. CASE Crash
  BY <1>2, <1>6 DEF Crash, None, Claims, Trusted
<1>7. ASSUME CallAction(d)
      PROVE  CallsFit!(d)' /\ TrustedByOwnLink!(d)'
  <2> USE DEF TypeOK, Goto, Claims, Trusted, storeVars, linkVars
  <2>1. ASSUME Finish(d, "idle") \/ (\E r \in Outcome : Finish(d, r)),
               link'[d] \in {link[d], None},
               pc'[d] # "idle" => target'[d] = target[d] /\ pc[d] # "idle"
        PROVE  CallsFit!(d)' /\ TrustedByOwnLink!(d)'
    <3>1. pc'[d] \in Outcome \cup {"idle"} /\ seen'[d] = None
      BY <2>1 DEF Finish
    <3>2. link'[d] <= minted' /\ seen'[d] <= minted'
      BY <1>2, <2>1, <3>1 DEF None
    <3>3. QED
      BY <2>1, <3>1, <3>2 DEF CallsFit, Outcome
  <2>2. ASSUME NEW s \in Slot, RequestLink(d, s)
        PROVE  CallsFit!(d)' /\ TrustedByOwnLink!(d)'
    BY <1>2, <2>2 DEF RequestLink
  <2>3. ASSUME NEW s \in Slot, NEW t \in mailed \cup {None}, Present(d, s, t)
        PROVE  CallsFit!(d)' /\ TrustedByOwnLink!(d)'
    <3>1. t <= minted'
      BY <2>3, Progress DEF Present, LinksFit, None
    <3>2. QED
      BY <1>2, <2>3, <3>1 DEF Present
  <2>4. CASE GenerateLink(d)
    <3>1. minted + 1 \in Token
      BY <2>4, LinkAssumption DEF GenerateLink, Token
    <3>2. /\ pc'[d] = "store" /\ link'[d] = minted + 1 /\ target' = target /\ seen' = seen
          /\ aim'[minted + 1] = target[d] /\ minted' = minted + 1
      BY <2>4, <3>1 DEF GenerateLink
    <3>3. link'[d] # None /\ link'[d] <= minted'
      BY <3>2, Progress DEF None
    <3>4. target[d] \in Slot
      BY <2>4 DEF GenerateLink, CallsFit
    <3>5. QED
      BY <1>2, <3>2, <3>3, <3>4
  <2>5. CASE StoreLink(d)
    BY <1>2, <2>5 DEF StoreLink, CallsFit
  <2>6. CASE StoreFails(d)
    <3>1. CASE tries[d] < MaxRetries
      BY <1>2, <2>6, <3>1 DEF StoreFails, CallsFit, None
    <3>2. CASE ~(tries[d] < MaxRetries)
      BY <2>1, <2>6, <3>2 DEF StoreFails, EndSend, Finish
    <3>3. QED
      BY <3>1, <3>2
  <2>7. CASE SendMail(d) \/ HookFails(d)
    BY <2>1, <2>7 DEF SendMail, HookFails, EndSend, Finish
  <2>8. CASE GetRecord(d)
    <3>1. CASE slot[target[d]] = None
      BY <2>1, <2>8, <3>1 DEF GetRecord, Outcome
    <3>2. CASE slot[target[d]] # None
      <4>1. target[d] \in Slot /\ link[d] \in mailed \cup {None}
        BY <2>8 DEF GetRecord, CallsFit
      <4>2. slot[target[d]] <= minted /\ aim[slot[target[d]]] = target[d]
        BY <3>2, <4>1 DEF LinksFit
      <4>3. /\ pc'[d] = "delete" /\ seen'[d] = slot[target[d]]
            /\ UNCHANGED <<link, target, minted, aim, mailed>>
        BY <2>8, <3>2 DEF GetRecord
      <4>4. QED
        BY <1>1, <3>2, <4>1, <4>2, <4>3
    <3>3. QED
      BY <3>1, <3>2
  <2>9. CASE DeleteRecord(d)
    BY <1>2, <2>9 DEF DeleteRecord, CallsFit
  <2>10. CASE CheckRecord(d)
    <3>1. CASE Finish(d, "invalid-token")
      BY <2>1, <2>10, <3>1 DEF CheckRecord, Outcome
    <3>2. CASE ~Finish(d, "invalid-token")
      <4>1. seen[d] = link[d] /\ pc'[d] = "find" /\ seen'[d] = None /\ pc[d] = "check"
        BY <2>10, <3>2 DEF CheckRecord
      <4>2. link[d] \in mailed /\ aim[link[d]] = target[d] /\ target[d] \in Slot
        BY <4>1 DEF CallsFit
      <4>3. UNCHANGED <<link, target, aim, mailed>>
        BY <2>10 DEF CheckRecord
      <4>4. QED
        BY <1>2, <4>1, <4>2, <4>3 DEF None
    <3>3. QED
      BY <3>1, <3>2
  <2>11. CASE FindUser(d)
    <3>1. CASE Finish(d, "invalid-token")
      BY <2>1, <2>11, <3>1 DEF FindUser, Outcome
    <3>2. CASE ~Finish(d, "invalid-token")
      BY <1>2, <2>11, <3>2 DEF FindUser, CallsFit, TrustedByOwnLink
    <3>3. QED
      BY <3>1, <3>2
  <2>12. CASE MarkUserVerified(d) \/ UpdateUser(d) \/ Fail(d)
    BY <2>1, <2>12 DEF MarkUserVerified, UpdateUser, Fail, Outcome
  <2>13. CASE Return(d)
    BY <1>2, <2>13 DEF Return, None
  <2>14. QED
    BY <1>7, <2>2, <2>3, <2>4, <2>5, <2>6, <2>7, <2>8, <2>9, <2>10, <2>11, <2>12, <2>13
    DEF CallAction, Step
<1>8. QED
  BY <1>4, <1>5, <1>6, <1>7, StepCases

\* What a step may do to the store: put a link there that was about to be
\* stored, or delete one that somebody presented a link for.
LEMMA SlotStep ==
  ASSUME IInv, [Next]_vars, NEW s \in Slot, slot'[s] # slot[s]
  PROVE  \/ /\ slot'[s] = None /\ s \in undone'
         \/ \E c \in Calls : /\ pc[c] = "store" /\ target[c] = s /\ slot'[s] = link[c]
                             /\ StoreLink(c) \/ StoreFails(c)
<1> TypeOK /\ CallsFit
  BY DEF IInv
<1> USE DEF TypeOK, storeVars
<1>1. ASSUME NEW c \in Calls, StoreLink(c) \/ StoreFails(c)
      PROVE  pc[c] = "store" /\ target[c] = s /\ slot'[s] = link[c]
  <2>1. CASE StoreLink(c)
    BY <2>1 DEF StoreLink
  <2>2. CASE StoreFails(c)
    BY <2>2 DEF StoreFails
  <2>3. QED
    BY <1>1, <2>1, <2>2
<1>2. ASSUME NEW c \in Calls, DeleteRecord(c)
      PROVE  slot'[s] = None /\ s \in undone'
  BY <1>2 DEF DeleteRecord
<1>3. ASSUME NEW c \in Calls, CallAction(c), ~DeleteRecord(c), ~StoreLink(c), ~StoreFails(c)
      PROVE  slot' = slot
  <2>1. CASE \/ \E r \in Slot : RequestLink(c, r)
             \/ \E r \in Slot, t \in mailed \cup {None} : Present(c, r, t)
    BY <2>1 DEF RequestLink, Present
  <2>2. CASE GenerateLink(c) \/ SendMail(c) \/ HookFails(c)
    BY <2>2 DEF GenerateLink, SendMail, HookFails
  <2>3. CASE GetRecord(c) \/ CheckRecord(c) \/ FindUser(c)
    BY <2>3 DEF GetRecord, CheckRecord, FindUser
  <2>4. CASE MarkUserVerified(c) \/ UpdateUser(c) \/ Fail(c) \/ Return(c)
    BY <2>4 DEF MarkUserVerified, UpdateUser, Fail, Return
  <2>5. QED
    BY <1>3, <2>1, <2>2, <2>3, <2>4 DEF CallAction, Step
<1>4. CASE Crash
  BY <1>4 DEF Crash
<1>5. QED
  BY <1>1, <1>2, <1>3, <1>4, WorldFits, StepCases

\* What a step may do to the mailboxes.
LEMMA MailboxStep ==
  ASSUME IInv, [Next]_vars, NEW t, t \in mailed' \ mailed
  PROVE  \E c \in Calls : SendMail(c) /\ link[c] = t /\ pc[c] = "mail"
<1> USE DEF storeVars
<1>1. ASSUME NEW c \in Calls, CallAction(c), ~SendMail(c)
      PROVE  mailed' = mailed
  <2>1. CASE \/ \E r \in Slot : RequestLink(c, r)
             \/ \E r \in Slot, k \in mailed \cup {None} : Present(c, r, k)
    BY <2>1 DEF RequestLink, Present
  <2>2. CASE GenerateLink(c) \/ StoreLink(c) \/ StoreFails(c) \/ HookFails(c)
    BY <2>2 DEF GenerateLink, StoreLink, StoreFails, HookFails
  <2>3. CASE GetRecord(c) \/ DeleteRecord(c) \/ CheckRecord(c) \/ FindUser(c)
    BY <2>3 DEF GetRecord, DeleteRecord, CheckRecord, FindUser
  <2>4. CASE MarkUserVerified(c) \/ UpdateUser(c) \/ Fail(c) \/ Return(c)
    BY <2>4 DEF MarkUserVerified, UpdateUser, Fail, Return
  <2>5. QED
    BY <1>1, <2>1, <2>2, <2>3, <2>4 DEF CallAction, Step
<1>2. ASSUME NEW c \in Calls, SendMail(c)
      PROVE  link[c] = t /\ pc[c] = "mail"
  BY <1>2 DEF SendMail
<1>3. CASE Crash
  BY <1>3 DEF Crash
<1>4. QED
  BY <1>1, <1>2, <1>3, WorldFits, StepCases

LEMMA LinksStep == IInv /\ [Next]_vars => LinksFit'
<1> SUFFICES ASSUME IInv, [Next]_vars
             PROVE  LinksFit'
  OBVIOUS
<1> TypeOK /\ CallsFit /\ LinksFit
  BY DEF IInv
<1>1. ASSUME NEW t \in 1..minted
      PROVE  t \in 1..minted' /\ aim'[t] = aim[t]
  BY Progress
<1>2. ASSUME NEW c \in Calls, pc[c] \in {"store", "mail"}
      PROVE  link[c] \in 1..minted /\ aim[link[c]] = target[c]
  BY <1>2, Numbers, Progress DEF CallsFit, None
<1>3. ASSUME NEW t \in mailed'
      PROVE  t \in 1..minted'
  BY <1>1, <1>2, MailboxStep DEF LinksFit
<1>4. ASSUME NEW s \in Slot
      PROVE  slot'[s] <= minted' /\ (slot'[s] # None => aim'[slot'[s]] = s)
  <2>1. CASE slot'[s] = None
    BY <2>1, Progress DEF None
  <2>2. CASE slot'[s] # None /\ slot'[s] = slot[s]
    <3>1. slot[s] \in 1..minted
      BY <2>2, Numbers, Progress DEF LinksFit, None
    <3>2. aim[slot[s]] = s
      BY <2>2 DEF LinksFit
    <3>3. slot[s] \in 1..minted' /\ aim'[slot[s]] = s
      BY <1>1, <3>1, <3>2
    <3>4. QED
      BY <2>2, <3>3
  <2>3. CASE slot'[s] # None /\ slot'[s] # slot[s]
    <3>1. PICK c \in Calls : pc[c] = "store" /\ target[c] = s /\ slot'[s] = link[c]
      BY <2>3, SlotStep
    <3>2. slot'[s] \in 1..minted /\ aim[slot'[s]] = s
      BY <1>2, <3>1
    <3>3. slot'[s] \in 1..minted' /\ aim'[slot'[s]] = s
      BY <1>1, <3>2
    <3>4. QED
      BY <3>3
  <2>4. QED
    BY <2>1, <2>2, <2>3
<1>5. QED
  BY <1>3, <1>4 DEF LinksFit

\* A link becomes usable by being generated, and never again.
LEMMA UsableStep ==
  ASSUME IInv, [Next]_vars, NEW t \in 1..minted, ~Usable(t)
  PROVE  ~Usable(t)'
<1> TypeOK /\ CallsFit
  BY DEF IInv
<1>1. ASSUME NEW s \in Slot
      PROVE  slot'[s] # t
  <2>1. slot[s] # t /\ t # None
    BY DEF Usable, None
  <2>2. \A c \in Calls : pc[c] = "store" => link[c] # t
    BY DEF Usable
  <2>3. QED
    BY <2>1, <2>2, SlotStep
<1>2. ASSUME NEW d \in Calls
      PROVE  /\ ~(pc'[d] = "store" /\ link'[d] = t)
             /\ ~(pc'[d] \in {"delete", "check"} /\ seen'[d] = t)
  <2> USE DEF TypeOK, Goto, Finish, EndSend
  <2>1. /\ ~(pc[d] = "store" /\ link[d] = t)
        /\ ~(pc[d] \in {"delete", "check"} /\ seen[d] = t)
    BY DEF Usable
  <2>2. CASE WorldAction
    BY <2>1, <2>2, WorldFits DEF callVars
  <2>3. ASSUME NEW c \in Calls, d # c, CallAction(c)
        PROVE  /\ ~(pc'[d] = "store" /\ link'[d] = t)
               /\ ~(pc'[d] \in {"delete", "check"} /\ seen'[d] = t)
    BY <2>1, <2>3, OtherCalls
  <2>4. CASE Crash
    BY <2>4 DEF Crash
  <2>5. ASSUME CallAction(d)
        PROVE  /\ ~(pc'[d] = "store" /\ link'[d] = t)
               /\ ~(pc'[d] \in {"delete", "check"} /\ seen'[d] = t)
    <3>1. CASE \/ \E s \in Slot : RequestLink(d, s)
               \/ \E s \in Slot, k \in mailed \cup {None} : Present(d, s, k)
      BY <3>1 DEF RequestLink, Present
    <3>2. CASE GenerateLink(d)
      <4>1. link'[d] = minted + 1 /\ pc'[d] = "store"
        BY <3>2 DEF GenerateLink
      <4>2. t # minted + 1
        OBVIOUS
      <4>3. QED
        BY <4>1, <4>2
    <3>3. CASE StoreLink(d) \/ StoreFails(d) \/ SendMail(d) \/ HookFails(d)
      BY <3>3 DEF StoreLink, StoreFails, SendMail, HookFails
    <3>4. CASE GetRecord(d)
      <4>1. target[d] \in Slot
        BY <3>4 DEF GetRecord, CallsFit
      <4>2. slot[target[d]] # t
        BY <4>1 DEF Usable
      <4>3. QED
        BY <3>4, <4>2 DEF GetRecord
    <3>5. CASE DeleteRecord(d) \/ CheckRecord(d) \/ FindUser(d)
      BY <2>1, <3>5 DEF DeleteRecord, CheckRecord, FindUser
    <3>6. CASE MarkUserVerified(d) \/ UpdateUser(d) \/ Fail(d) \/ Return(d)
      BY <3>6 DEF MarkUserVerified, UpdateUser, Fail, Return
    <3>7. QED
      BY <2>5, <3>1, <3>2, <3>3, <3>4, <3>5, <3>6 DEF CallAction, Step
  <2>6. QED
    BY <2>2, <2>3, <2>4, <2>5, StepCases
<1>3. QED
  BY <1>1, <1>2 DEF Usable

-----------------------------------------------------------------------------
(* Mail.                                                                   *)

\* The send c is at work on the slot s, and s holds its link if it is done
\* with storing.
Minds(c, s) ==
  /\ pc[c] \in Sends /\ target[c] = s
  /\ pc[c] = "mail" => link[c] = slot[s]

\* A send for a slot that stays out of trouble goes on, ends with its mail, or
\* is overtaken.
LEMMA MindStep ==
  ASSUME IInv, [Next]_vars, NEW s \in Slot, s \notin undone',
         NEW c \in Calls, Minds(c, s), slot'[s] = slot[s], slot[s] \notin mailed'
  PROVE  Minds(c, s)'
<1> TypeOK /\ CallsFit
  BY DEF IInv
<1> USE DEF TypeOK, Minds, Sends, Goto, Finish, EndSend
<1>1. CASE WorldAction
  BY <1>1, WorldFits DEF callVars
<1>2. CASE Crash
  <2>1. target[c] \in undone'
    BY <1>2 DEF Crash
  <2>2. QED
    BY <2>1
<1>3. ASSUME NEW d \in Calls, d # c, CallAction(d)
      PROVE  Minds(c, s)'
  BY <1>3, OtherCalls
<1>4. ASSUME CallAction(c)
      PROVE  Minds(c, s)'
  <2>1. GenerateLink(c) \/ StoreLink(c) \/ StoreFails(c) \/ SendMail(c) \/ HookFails(c)
    BY <1>4 DEF CallAction, Step, RequestLink, Present, Return, GetRecord, DeleteRecord,
                CheckRecord, FindUser, MarkUserVerified, UpdateUser, Fail, Outcome
  <2>2. CASE GenerateLink(c)
    BY <2>2 DEF GenerateLink
  <2>3. CASE StoreLink(c)
    BY <2>3 DEF StoreLink
  <2>4. CASE StoreFails(c)
    BY <2>4 DEF StoreFails
  <2>5. CASE SendMail(c)
    BY <2>5 DEF SendMail
  <2>6. CASE HookFails(c)
    BY <2>6 DEF HookFails
  <2>7. QED
    BY <2>1, <2>2, <2>3, <2>4, <2>5, <2>6
<1>5. QED
  BY <1>1, <1>2, <1>3, <1>4, StepCases

\* Only a link that is stored well makes up for what was lost.
LEMMA UndoneStep ==
  ASSUME IInv, [Next]_vars, NEW s \in Slot, s \in undone, s \notin undone'
  PROVE  \E c \in Calls : StoreLink(c) /\ target[c] = s
<1>1. ASSUME NEW c \in Calls, CallAction(c), ~StoreLink(c)
      PROVE  undone \subseteq undone'
  <2>1. CASE \/ \E r \in Slot : RequestLink(c, r)
             \/ \E r \in Slot, t \in mailed \cup {None} : Present(c, r, t)
    BY <2>1 DEF RequestLink, Present
  <2>2. CASE GenerateLink(c) \/ StoreFails(c) \/ SendMail(c) \/ HookFails(c)
    BY <2>2 DEF GenerateLink, StoreFails, SendMail, HookFails
  <2>3. CASE GetRecord(c) \/ DeleteRecord(c) \/ CheckRecord(c) \/ FindUser(c)
    BY <2>3 DEF GetRecord, DeleteRecord, CheckRecord, FindUser
  <2>4. CASE MarkUserVerified(c) \/ UpdateUser(c) \/ Fail(c) \/ Return(c)
    BY <2>4 DEF MarkUserVerified, UpdateUser, Fail, Return
  <2>5. QED
    BY <1>1, <2>1, <2>2, <2>3, <2>4 DEF CallAction, Step
<1>2. ASSUME NEW c \in Calls, StoreLink(c)
      PROVE  undone' = undone \ {target[c]}
  BY <1>2 DEF StoreLink
<1>3. CASE Crash
  BY <1>3 DEF Crash
<1>4. QED
  BY <1>1, <1>2, <1>3, WorldFits, StepCases

LEMMA MailStep == IInv /\ [Next]_vars => MailFits'
<1> SUFFICES ASSUME IInv, [Next]_vars, NEW s \in Slot, s \notin undone'
             PROVE  MailFits!(s)'
  BY DEF MailFits
<1> TypeOK /\ CallsFit /\ LinksFit /\ MailFits
  BY DEF IInv
<1>0. mailed \subseteq mailed'
  BY Progress
<1>3. ASSUME NEW c \in Calls, StoreLink(c), target[c] = s
      PROVE  slot'[s] # None /\ Minds(c, s)'
  BY <1>3 DEF StoreLink, CallsFit, Goto, Minds, Sends, TypeOK
<1>4. CASE \E c \in Calls : StoreLink(c) /\ target[c] = s
  BY <1>3, <1>4 DEF Minds
<1> SUFFICES ASSUME \A c \in Calls : ~(StoreLink(c) /\ target[c] = s)
             PROVE  MailFits!(s)'
  BY <1>4
<1>5. s \notin undone
  BY UndoneStep
<1>1. ASSUME slot'[s] # None, slot'[s] \notin mailed'
      PROVE  \E c \in Calls : Minds(c, s)'
  <2>1. CASE slot'[s] = slot[s]
    <3>1. PICK c \in Calls : Minds(c, s)
      BY <1>0, <1>1, <1>5, <2>1 DEF MailFits, Minds
    <3>2. QED
      BY <1>1, <2>1, <3>1, MindStep
  <2>2. CASE slot'[s] # slot[s]
    <3>1. PICK c \in Calls : /\ pc[c] = "store" /\ target[c] = s /\ slot'[s] = link[c]
                             /\ StoreLink(c) \/ StoreFails(c)
      BY <1>1, <2>2, SlotStep
    <3>2. StoreFails(c)
      BY <3>1
    <3>3. QED
      BY <3>1, <3>2 DEF StoreFails, Goto, Minds, Sends, TypeOK
  <2>3. QED
    BY <2>1, <2>2
<1>2. ASSUME slot'[s] = None
      PROVE  /\ \A t \in mailed' : aim'[t] # s
             /\ \A c \in Calls : ~(pc'[c] = "mail" /\ target'[c] = s)
  <2>1. slot[s] = None
    <3>1. ASSUME NEW c \in Calls, pc[c] = "store"
          PROVE  link[c] # None
      BY <3>1 DEF CallsFit
    <3>2. QED
      BY <1>2, <1>5, <3>1, SlotStep
  <2>2. /\ \A t \in mailed : aim[t] # s
        /\ \A c \in Calls : ~(pc[c] = "mail" /\ target[c] = s)
    BY <1>5, <2>1 DEF MailFits
  <2>3. ASSUME NEW t \in mailed'
        PROVE  aim'[t] # s
    <3>1. t \in 1..minted /\ aim[t] # s
      <4>1. CASE t \in mailed
        BY <2>2, <4>1 DEF LinksFit
      <4>2. CASE t \notin mailed
        <5>1. PICK c \in Calls : link[c] = t /\ pc[c] = "mail"
          BY <4>2, MailboxStep
        <5>2. t \in Nat /\ t # None /\ t <= minted /\ aim[t] = target[c]
          BY <5>1, Numbers DEF CallsFit
        <5>3. QED
          BY <2>2, <5>1, <5>2, Progress DEF None
      <4>3. QED
        BY <4>1, <4>2
    <3>2. QED
      BY <3>1, Progress
  <2>4. ASSUME NEW d \in Calls, pc'[d] = "mail", target'[d] = s
        PROVE  FALSE
    <3> USE DEF TypeOK, Goto, Finish, EndSend
    <3>1. CASE WorldAction
      BY <2>2, <2>4, <3>1, WorldFits DEF callVars
    <3>2. CASE Crash
      BY <2>4, <3>2 DEF Crash
    <3>3. ASSUME NEW c \in Calls, d # c, CallAction(c)
          PROVE  FALSE
      BY <2>2, <2>4, <3>3, OtherCalls
    <3>4. ASSUME CallAction(d)
          PROVE  FALSE
      <4>1. CASE StoreLink(d)
        <5>1. slot'[s] = link[d] /\ link[d] # None
          BY <2>4, <4>1 DEF StoreLink, CallsFit
        <5>2. QED
          BY <1>2, <5>1
      <4>2. CASE \/ \E r \in Slot : RequestLink(d, r)
                 \/ \E r \in Slot, k \in mailed \cup {None} : Present(d, r, k)
        BY <2>4, <4>2 DEF RequestLink, Present
      <4>3. CASE GenerateLink(d) \/ StoreFails(d) \/ SendMail(d) \/ HookFails(d)
        BY <2>4, <4>3 DEF GenerateLink, StoreFails, SendMail, HookFails
      <4>4. CASE GetRecord(d) \/ DeleteRecord(d) \/ CheckRecord(d) \/ FindUser(d)
        BY <2>4, <4>4 DEF GetRecord, DeleteRecord, CheckRecord, FindUser
      <4>5. CASE MarkUserVerified(d) \/ UpdateUser(d) \/ Fail(d) \/ Return(d)
        BY <2>4, <4>5 DEF MarkUserVerified, UpdateUser, Fail, Return
      <4>6. QED
        BY <3>4, <4>1, <4>2, <4>3, <4>4, <4>5 DEF CallAction, Step
    <3>5. QED
      BY <3>1, <3>2, <3>3, <3>4, StepCases
  <2>5. QED
    BY <2>3, <2>4
<1>6. QED
  BY <1>1, <1>2 DEF Minds

-----------------------------------------------------------------------------
(* The theorems.                                                           *)

\* The inductive invariant holds throughout.
THEOREM Invariance == Spec => []IInv
<1>1. IInv /\ [Next]_vars => IInv'
  BY TypeStep, CallsStep, LinksStep, MailStep DEF IInv
<1>2. QED
  BY InitIInv, <1>1, PTL DEF Spec

\* Every variable keeps its type: a failed attempt at storing a link is followed
\* by at most MaxRetries others (retry.ts).
THEOREM TypeCorrect == Spec => []TypeOK
<1>1. IInv => TypeOK
  BY DEF IInv
<1>2. QED
  BY <1>1, Invariance, PTL

\* Whoever acts on the strength of a link was mailed one for this purpose and
\* this user (token.ts:184, 200-210).
THEOREM OwnLink == Spec => []TrustedByOwnLink
<1>1. IInv => TrustedByOwnLink
  BY DEF IInv
<1>2. QED
  BY <1>1, Invariance, PTL

\* When no send for a slot is at work and none was given up since a link was last
\* stored well, the user holds the link that is stored, or a presentation deleted
\* it, however sends and retries race.
THEOREM Mailbox == Spec => []MailboxHasTheLink
<1>1. IInv => MailboxHasTheLink
  BY DEF IInv, MailFits, MailboxHasTheLink
<1>2. QED
  BY <1>1, Invariance, PTL

\* A link that was consumed, replaced or lost never becomes acceptable again.
THEOREM DeadLinks == Spec => DeadLinksStayDead
<1>1. IInv /\ [Next]_vars => [\A t \in 1..minted : ~Usable(t) => ~Usable(t)']_vars
  BY UsableStep
<1>2. QED
  BY <1>1, Invariance, PTL DEF Spec, DeadLinksStayDead

=============================================================================
