------------------------ MODULE Registration_proofs ------------------------
(***************************************************************************)
(* What Registration and its Dispatcher guarantee for any number of calls  *)
(* and addresses, any number of retries and any grace period.              *)
(***************************************************************************)
EXTENDS Registration, FiniteSetTheorems, TLAPS

\* Before its createUser a call has left nothing behind; it is in a
\* transaction only while that is open; its task follows its send.
CallsFit ==
  \A c \in Calls :
    /\ pc[c] \in {"idle", "find", "dummy", "hash", "create", "validation-error"} =>
         c \notin users \cup staged \cup purged /\ send[c] = "none"
    /\ c \in staged => pc[c] = "commit"
    /\ c \in users \cup purged => pc[c] # "commit"
    /\ pc[c] = "commit" => /\ "transactional" \in engine
                           /\ answer[c] \in Success \cup {"email-already-exists"}
    /\ task[c] # "none" => send[c] = "over"
    /\ c \in mailed => send[c] = "over"

\* A send is begun for a user; it ends in a task, and the task in a mail.
SendsFit ==
  \A c \in Calls :
    /\ send[c] # "none" => c \in users \cup purged \cup staged \cup faulted
    /\ send[c] = "over" => task[c] # "none" \/ c \in faulted
    /\ task[c] = "sent" => c \in mailed
    /\ c \in (users \cup staged) \ verified => send[c] # "none" \/ c \in faulted

HasAccount(c) == \E d \in users \cup purged : email[d] = email[c]

\* A success is answered, or will be after the commit, to an address that has
\* an account, or gets one with the commit.
AccountsFit ==
  \A c \in Calls :
    /\ pc[c] \in Success \cup {"dummy"} => HasAccount(c)
    /\ pc[c] = "commit" /\ answer[c] \in Success => c \in staged \/ HasAccount(c)

\* The visitor's user was in the store.
VisitFits ==
  /\ visit \in {"mark", "success"} => found \in users \cup purged
  /\ VerifyAnswerHolds

IInv ==
  /\ TypeOK
  /\ CountIsExact
  /\ CallsFit
  /\ OneUserPerAddress
  /\ SendsFit
  /\ AccountsFit
  /\ VisitFits

Active == {c \in Calls : task[c] \in Unfinished}

-----------------------------------------------------------------------------
(* Counting.                                                               *)

LEMMA ActiveIsFinite == IsFiniteSet(Active)
  BY FS_Subset, DispatcherAssumption DEF Active

\* One call more or less under way.
LEMMA CountAdd ==
  ASSUME CountIsExact, NEW c \in Calls, c \notin Active, Active' = Active \cup {c}
  PROVE  Cardinality(Active') = activeTasksCount + 1
  BY ActiveIsFinite, FS_AddElement DEF CountIsExact, Active

LEMMA CountRemove ==
  ASSUME CountIsExact, NEW c \in Calls, c \in Active, Active' = Active \ {c}
  PROVE  Cardinality(Active') = activeTasksCount - 1 /\ activeTasksCount - 1 \in Nat
<1>1. IsFiniteSet(Active) /\ Cardinality(Active) = activeTasksCount
  BY ActiveIsFinite DEF CountIsExact, Active
<1>2. Cardinality(Active') = Cardinality(Active) - 1
  BY <1>1, FS_RemoveElement
<1>3. IsFiniteSet(Active')
  BY <1>1, FS_Subset
<1>4. Cardinality(Active') \in Nat
  BY <1>3, FS_CardinalityType
<1>5. QED
  BY <1>1, <1>2, <1>4

LEMMA InitIInv == Init => IInv
<1> SUFFICES ASSUME Init
             PROVE  IInv
  OBVIOUS
<1> USE DispatcherAssumption, RegistrationAssumption DEF Init, DispatcherInit
<1>1. TypeOK
  BY DEF TypeOK, DispatcherTypeOK, NoPurge, None, Unfinished
<1>2. CountIsExact
  <2>1. {c \in Calls : task[c] \in Unfinished} = {}
    BY DEF Unfinished
  <2>2. QED
    BY <2>1, FS_EmptySet DEF CountIsExact
<1>3. CallsFit /\ OneUserPerAddress /\ SendsFit
  BY DEF CallsFit, OneUserPerAddress, SendsFit
<1>4. AccountsFit /\ VisitFits
  BY DEF AccountsFit, VisitFits, VerifyAnswerHolds, Success
<1>5. QED
  BY <1>1, <1>2, <1>3, <1>4 DEF IInv

-----------------------------------------------------------------------------
(* The kinds of steps.                                                     *)

\* execute: nothing of the dispatcher, the visitor or the purge changes.
CallAction(c) ==
  \/ RejectInput(c)
  \/ \E e \in Emails : Start(c, e)
  \/ CallStep(c)

\* The send of a call, and its task.
SendAction(c) == CreateLink(c) \/ CreateLinkFails(c) \/ SendMail(c) \/ TaskStep(c)

VisitAction ==
  \/ \E c \in Calls : Present(c)
  \/ ConsumeLink
  \/ FindVisitor
  \/ MarkUserVerified
  \/ VisitFails
  \/ Leave

PurgeAction == StartPurge \/ Purge \/ PurgeFails

LEMMA StepCases ==
  [Next]_vars => \/ \E c \in Calls : CallAction(c) \/ SendAction(c)
                 \/ VisitAction \/ PurgeAction
                 \/ Wait \/ Crash \/ Tick \/ UNCHANGED vars
  BY DEF Next, CallAction, SendAction, VisitAction, PurgeAction

-----------------------------------------------------------------------------
(* Types.                                                                  *)

LEMMA CountStep == IInv /\ [Next]_vars => CountIsExact' /\ activeTasksCount' \in Nat
<1> SUFFICES ASSUME IInv, [Next]_vars
             PROVE  Cardinality(Active') = activeTasksCount' /\ activeTasksCount' \in Nat
  BY DEF CountIsExact, Active
<1> TypeOK /\ CountIsExact /\ CallsFit
  BY DEF IInv
<1>1. ASSUME UNCHANGED <<task, activeTasksCount>>
      PROVE  Cardinality(Active') = activeTasksCount' /\ activeTasksCount' \in Nat
  BY <1>1 DEF Active, CountIsExact, TypeOK, DispatcherTypeOK
<1>2. ASSUME NEW c \in Calls, Dispatch(c), send[c] = "create"
      PROVE  Cardinality(Active') = activeTasksCount' /\ activeTasksCount' \in Nat
  <2>1. c \notin Active
    BY <1>2 DEF Active, CallsFit, Unfinished
  <2>2. Active' = Active \cup {c}
    BY <1>2 DEF Dispatch, Active, TypeOK, DispatcherTypeOK, Unfinished
  <2>3. QED
    BY <1>2, <2>1, <2>2, CountAdd, SMTT(30) DEF Dispatch, TypeOK, DispatcherTypeOK
<1>3. ASSUME NEW c \in Calls, NEW outcome \in {"sent", "failed"}, task[c] \in Unfinished,
             Settle(c, outcome)
      PROVE  Cardinality(Active') = activeTasksCount' /\ activeTasksCount' \in Nat
  <2>1. c \in Active
    BY <1>3 DEF Active
  <2>2. Active' = Active \ {c}
    BY <1>3 DEF Settle, Active, TypeOK, DispatcherTypeOK, Unfinished
  <2>3. QED
    BY <1>3, <2>1, <2>2, CountRemove DEF Settle
<1>4. ASSUME NEW c \in Calls, RunHandler(c) \/ HandlerFails(c)
      PROVE  Cardinality(Active') = activeTasksCount' /\ activeTasksCount' \in Nat
  <2>1. Active' = Active
    BY <1>4 DEF RunHandler, HandlerFails, Active, TypeOK, DispatcherTypeOK, Unfinished
  <2>2. activeTasksCount' = activeTasksCount
    BY <1>4 DEF RunHandler, HandlerFails
  <2>3. QED
    BY <2>1, <2>2 DEF CountIsExact, Active, TypeOK, DispatcherTypeOK
<1>5. CASE Crash
  <2>1. Active' = {}
    BY <1>5 DEF Crash, DispatcherCrash, Active, Unfinished
  <2>2. QED
    BY <1>5, <2>1, FS_EmptySet DEF Crash, DispatcherCrash
<1>6. ASSUME NEW c \in Calls, CallAction(c)
      PROVE  UNCHANGED <<task, activeTasksCount>>
  BY <1>6 DEF CallAction, CallStep, RejectInput, Start, FindUser, DummyHash, HashPassword,
              CreateUser, StoreUser, CreateUserThrows, Commit, CommitFails, Fail, dispatcherVars
<1>7. ASSUME NEW c \in Calls, SendAction(c)
      PROVE  Cardinality(Active') = activeTasksCount' /\ activeTasksCount' \in Nat
  <2>1. CASE CreateLink(c)
    BY <1>2, <2>1 DEF CreateLink
  <2>2. CASE CreateLinkFails(c)
    BY <1>1, <2>2 DEF CreateLinkFails, dispatcherVars
  <2>3. CASE SendMail(c)
    BY <1>3, <2>3 DEF SendMail, HandlerSucceeds, Unfinished
  <2>4. CASE TaskStep(c)
    BY <1>3, <1>4, <2>4 DEF TaskStep, OnFailureSettles, Unfinished
  <2>5. QED
    BY <1>7, <2>1, <2>2, <2>3, <2>4 DEF SendAction
<1>8. CASE VisitAction \/ PurgeAction \/ Tick \/ UNCHANGED vars
  BY <1>1, <1>8 DEF VisitAction, Present, ConsumeLink, FindVisitor, MarkUserVerified,
     VisitFails, Leave, PurgeAction, StartPurge, Purge, PurgeFails, Tick, vars, dispatcherVars
<1>9. CASE Wait
  BY <1>1, <1>9 DEF Wait, Waiting, StartWaiting, Poll, StopWaiting
<1>10. QED
  BY <1>1, <1>5, <1>6, <1>7, <1>8, <1>9, StepCases

LEMMA DispatcherTypeStep == IInv /\ [Next]_vars => DispatcherTypeOK'
<1> SUFFICES ASSUME IInv, [Next]_vars
             PROVE  DispatcherTypeOK'
  OBVIOUS
<1> TypeOK
  BY DEF IInv
<1>1. activeTasksCount' \in Nat
  BY CountStep
<1> USE DispatcherAssumption DEF TypeOK, DispatcherTypeOK
<1>2. CASE UNCHANGED <<task, attempt, waiter, waited>>
  BY <1>1, <1>2
<1>3. ASSUME NEW c \in Calls, SendAction(c)
      PROVE  DispatcherTypeOK'
  <2>1. waiter' = waiter /\ waited' = waited
    BY <1>3 DEF SendAction, CreateLink, CreateLinkFails, SendMail, TaskStep, Dispatch,
       HandlerSucceeds, OnFailureSettles, Settle, RunHandler, HandlerFails, dispatcherVars
  <2>2. task' \in [Calls -> Unfinished \cup {"none", "sent", "failed"}]
    BY <1>3 DEF SendAction, CreateLink, CreateLinkFails, SendMail, TaskStep, Dispatch,
       HandlerSucceeds, OnFailureSettles, Settle, RunHandler, HandlerFails, dispatcherVars,
       Unfinished
  <2>3. attempt' \in [Calls -> 0..MaxRetries]
    <3>1. CASE HandlerFails(c) /\ attempt[c] < MaxRetries
      BY <3>1 DEF HandlerFails
    <3>2. CASE Settle(c, "sent") \/ Settle(c, "failed")
      BY <3>2 DEF Settle
    <3>3. CASE attempt' = attempt
      BY <3>3
    <3>4. QED
      BY <1>3, <3>1, <3>2, <3>3
      DEF SendAction, CreateLink, CreateLinkFails, SendMail, TaskStep, Dispatch,
          HandlerSucceeds, OnFailureSettles, RunHandler, HandlerFails, dispatcherVars
  <2>4. QED
    BY <1>1, <2>1, <2>2, <2>3
<1>4. CASE Crash
  BY <1>1, <1>4 DEF Crash, DispatcherCrash, Unfinished
<1>5. CASE Wait
  <2>1. task' = task /\ attempt' = attempt
    BY <1>5 DEF Wait, Waiting, StartWaiting, Poll, StopWaiting
  <2>2. waiter' \in {"idle", "asleep", "true", "false"}
    BY <1>5 DEF Wait, Waiting, StartWaiting, Poll, StopWaiting
  <2>3. waited' \in 0..WaitLimit
    <3>1. CASE StartWaiting \/ StopWaiting
      BY <3>1 DEF StartWaiting, StopWaiting
    <3>2. CASE Poll
      BY <3>2 DEF Poll
    <3>3. QED
      BY <1>5, <3>1, <3>2 DEF Wait, Waiting
  <2>4. QED
    BY <1>1, <2>1, <2>2, <2>3
<1>6. ASSUME NEW c \in Calls, CallAction(c)
      PROVE  UNCHANGED <<task, attempt, waiter, waited>>
  BY <1>6 DEF CallAction, CallStep, RejectInput, Start, FindUser, DummyHash, HashPassword,
              CreateUser, StoreUser, CreateUserThrows, Commit, CommitFails, Fail, dispatcherVars
<1>7. CASE VisitAction \/ PurgeAction \/ Tick \/ UNCHANGED vars
  BY <1>2, <1>7 DEF VisitAction, Present, ConsumeLink, FindVisitor, MarkUserVerified,
     VisitFails, Leave, PurgeAction, StartPurge, Purge, PurgeFails, Tick, vars, dispatcherVars
<1>8. QED
  BY <1>2, <1>3, <1>4, <1>5, <1>6, <1>7, StepCases

\* What a transaction's answer is kept in, and where a call goes.
LEMMA ReturnFits ==
  ASSUME TypeOK, NEW c \in Calls, NEW status \in Answered, Return(c, status)
  PROVE  /\ pc' \in [Calls -> Working \cup Answered \cup {"idle", "crashed"}]
         /\ answer' \in [Calls -> Answered \cup {None}]
         /\ \A d \in Calls \ {c} : pc'[d] = pc[d] /\ answer'[d] = answer[d]
         /\ "transactional" \in engine => pc'[c] = "commit" /\ answer'[c] = status
         /\ "transactional" \notin engine => pc'[c] = status /\ answer'[c] = answer[c]
  BY DEF TypeOK, Return, Goto, Working

LEMMA SuccessIsAnswered == SuccessStatus \in Success /\ Success \subseteq Answered
  BY DEF SuccessStatus, Success, Answered

\* The steps of a call keep its types.
LEMMA CallTypes ==
  ASSUME IInv, NEW c \in Calls, CallAction(c)
  PROVE  /\ users' \in SUBSET Calls /\ staged' \in SUBSET Calls
         /\ verified' \in SUBSET (users' \cup staged')
         /\ createdAt' \in [Calls -> 0..MaxTime]
         /\ pc' \in [Calls -> Working \cup Answered \cup {"idle", "crashed"}]
         /\ email' \in [Calls -> Emails \cup {None}]
         /\ answer' \in [Calls -> Answered \cup {None}]
         /\ send' \in [Calls -> {"none", "create", "over"}]
         /\ faulted' \in SUBSET Calls
         /\ UNCHANGED <<slot, visitVars, envVars, dispatcherVars>>
<1> TypeOK /\ CallsFit
  BY DEF IInv
<1> USE DEF TypeOK
<1>1. CASE RejectInput(c)
  BY <1>1 DEF RejectInput, Goto, storeVars, Answered
<1>2. CASE \E e \in Emails : Start(c, e)
  BY <1>2 DEF Start, Goto, storeVars, Working
<1>3. CASE FindUser(c)
  <2>1. pc' \in [Calls -> Working \cup Answered \cup {"idle", "crashed"}]
        /\ answer' \in [Calls -> Answered \cup {None}]
    <3>1. CASE Goto(c, "hash") /\ UNCHANGED answer
      BY <3>1 DEF Goto, Working
    <3>2. CASE Goto(c, "dummy") /\ UNCHANGED answer
      BY <3>2 DEF Goto, Working
    <3>3. CASE Return(c, "email-already-exists")
      BY <3>3, ReturnFits DEF Answered
    <3>4. QED
      BY <1>3, <3>1, <3>2, <3>3 DEF FindUser
  <2>2. QED
    BY <1>3, <2>1 DEF FindUser, storeVars
<1>4. CASE DummyHash(c)
  BY <1>4, ReturnFits, SuccessIsAnswered DEF DummyHash, storeVars
<1>5. CASE HashPassword(c)
  BY <1>5 DEF HashPassword, Goto, storeVars, Working
<1>6. CASE CreateUser(c)
  <2>1. /\ pc' \in [Calls -> Working \cup Answered \cup {"idle", "crashed"}]
        /\ answer' \in [Calls -> Answered \cup {None}]
    BY <1>6, ReturnFits, SuccessIsAnswered DEF CreateUser, StoreUser
  <2>2. /\ users' \in SUBSET Calls /\ staged' \in SUBSET Calls
        /\ verified' \in SUBSET (users' \cup staged')
    BY <1>6 DEF CreateUser, StoreUser
  <2>3. QED
    BY <1>6, <2>1, <2>2 DEF CreateUser, StoreUser
<1>7. CASE CreateUserThrows(c)
  BY <1>7 DEF CreateUserThrows, Goto, storeVars, Answered
<1>8. CASE Commit(c)
  <2>1. answer[c] \in Answered
    BY <1>8, SuccessIsAnswered DEF Commit, CallsFit, Answered
  <2>2. QED
    BY <1>8, <2>1 DEF Commit, Goto
<1>9. CASE CommitFails(c)
  <2>1. verified' \in SUBSET (users' \cup staged')
    BY <1>9 DEF CommitFails
  <2>2. QED
    BY <1>9, <2>1 DEF CommitFails, Goto, Answered
<1>10. CASE Fail(c)
  BY <1>10 DEF Fail, Goto, Answered
<1>11. QED
  BY <1>1, <1>2, <1>3, <1>4, <1>5, <1>6, <1>7, <1>8, <1>9, <1>10 DEF CallAction, CallStep

LEMMA TypeStep == IInv /\ [Next]_vars => TypeOK'
<1> SUFFICES ASSUME IInv, [Next]_vars
             PROVE  TypeOK'
  OBVIOUS
<1> TypeOK
  BY DEF IInv
<1>0. DispatcherTypeOK'
  BY DispatcherTypeStep
<1> USE RegistrationAssumption DEF TypeOK
<1>1. ASSUME NEW c \in Calls, CallAction(c)
      PROVE  TypeOK'
  BY <1>0, <1>1, CallTypes DEF visitVars, envVars
<1>2. ASSUME NEW c \in Calls, SendAction(c)
      PROVE  TypeOK'
  <2>1. CASE CreateLink(c) \/ CreateLinkFails(c)
    BY <1>0, <2>1 DEF CreateLink, CreateLinkFails, visitVars, envVars
  <2>2. CASE SendMail(c) \/ TaskStep(c)
    BY <1>0, <2>2 DEF SendMail, TaskStep, storeVars, callVars, visitVars, envVars
  <2>3. QED
    BY <1>2, <2>1, <2>2 DEF SendAction
<1>3. CASE VisitAction
  <2>1. CASE \E c \in Calls : Present(c)
    BY <1>0, <2>1 DEF Present, VisitGoto, storeVars, callVars, envVars
  <2>2. CASE ConsumeLink
    BY <1>0, <2>2 DEF ConsumeLink, VisitGoto, callVars, envVars
  <2>3. CASE FindVisitor
    BY <1>0, <2>3 DEF FindVisitor, VisitGoto, storeVars, callVars, envVars, Holder
  <2>4. CASE MarkUserVerified
    BY <1>0, <2>4 DEF MarkUserVerified, VisitGoto, callVars, envVars
  <2>5. CASE VisitFails \/ Leave
    BY <1>0, <2>5 DEF VisitFails, Leave, VisitGoto, storeVars, callVars, envVars
  <2>6. QED
    BY <1>3, <2>1, <2>2, <2>3, <2>4, <2>5 DEF VisitAction
<1>4. CASE StartPurge
  <2>1. cutoff' \in NoPurge..MaxTime
    BY <1>4 DEF StartPurge, NoPurge
  <2>2. QED
    BY <1>0, <1>4, <2>1 DEF StartPurge, storeVars, callVars, visitVars
<1>5. CASE Purge \/ PurgeFails
  <2>1. NoPurge \in NoPurge..MaxTime
    BY DEF NoPurge
  <2>2. CASE Purge
    BY <1>0, <2>1, <2>2 DEF Purge, Expired, callVars, visitVars
  <2>3. CASE PurgeFails
    BY <1>0, <2>1, <2>3 DEF PurgeFails, storeVars, callVars, visitVars
  <2>4. QED
    BY <1>5, <2>2, <2>3
<1>6. CASE Wait
  BY <1>0, <1>6 DEF Wait, storeVars, callVars, visitVars, envVars
<1>7. CASE Crash
  <2>1. NoPurge \in NoPurge..MaxTime
    BY DEF NoPurge
  <2>2. pc' \in [Calls -> Working \cup Answered \cup {"idle", "crashed"}]
    BY <1>7 DEF Crash
  <2>3. send' \in [Calls -> {"none", "create", "over"}]
    BY <1>7 DEF Crash
  <2>4. QED
    BY <1>0, <1>7, <2>1, <2>2, <2>3 DEF Crash
<1>8. CASE Tick
  BY <1>0, <1>8 DEF Tick, storeVars, callVars, visitVars
<1>9. CASE UNCHANGED vars
  BY <1>0, <1>9 DEF vars, storeVars, callVars, visitVars, envVars
<1>10. QED
  BY <1>1, <1>2, <1>3, <1>4, <1>5, <1>6, <1>7, <1>8, <1>9, StepCases DEF PurgeAction

-----------------------------------------------------------------------------
(* The invariant is kept.                                                  *)

\* Steps that are not of a call do not touch what the engine does, except by
\* a purge or a crash.
LEMMA Quiet ==
  ASSUME \/ \E c \in Calls : SendAction(c)
         \/ VisitAction \/ StartPurge \/ PurgeFails \/ Wait \/ Tick \/ UNCHANGED vars
  PROVE  UNCHANGED <<engine, users, staged, pc, email, answer, purged>>
<1> USE DEF storeVars, callVars, visitVars, envVars
<1>1. ASSUME NEW c \in Calls, SendAction(c)
      PROVE  UNCHANGED <<engine, users, staged, pc, email, answer, purged>>
  BY <1>1 DEF SendAction, CreateLink, CreateLinkFails, SendMail, TaskStep
<1>2. CASE VisitAction
  BY <1>2 DEF VisitAction, Present, ConsumeLink, FindVisitor, MarkUserVerified, VisitFails, Leave
<1>3. CASE StartPurge \/ PurgeFails \/ Wait \/ Tick \/ UNCHANGED vars
  BY <1>3 DEF StartPurge, PurgeFails, Wait, Tick, vars
<1>4. QED
  BY <1>1, <1>2, <1>3

\* What a call does is done for itself: another is where it was.
LEMMA OtherCalls ==
  ASSUME TypeOK, NEW c \in Calls, NEW d \in Calls, d # c, CallAction(c)
  PROVE  /\ pc'[d] = pc[d] /\ email'[d] = email[d] /\ answer'[d] = answer[d]
         /\ send'[d] = send[d]
         /\ d \in users' <=> d \in users
         /\ d \in staged' <=> d \in staged
         /\ d \in faulted' <=> d \in faulted
         /\ d \in verified' <=> d \in verified
<1> USE DEF TypeOK, Goto, Return, storeVars
<1>1. CASE RejectInput(c) \/ \E e \in Emails : Start(c, e)
  BY <1>1 DEF RejectInput, Start
<1>2. CASE FindUser(c) \/ DummyHash(c) \/ HashPassword(c) \/ CreateUserThrows(c)
  BY <1>2 DEF FindUser, DummyHash, HashPassword, CreateUserThrows
<1>3. CASE CreateUser(c)
  BY <1>3 DEF CreateUser, StoreUser
<1>4. CASE Commit(c) \/ CommitFails(c)
  BY <1>4 DEF Commit, CommitFails
<1>5. CASE Fail(c)
  BY <1>5 DEF Fail
<1>6. QED
  BY <1>1, <1>2, <1>3, <1>4, <1>5 DEF CallAction, CallStep

\* What never goes back.
LEMMA Progress ==
  ASSUME IInv, [Next]_vars
  PROVE  /\ engine' = engine
         /\ users \cup purged \subseteq users' \cup purged'
         /\ purged \subseteq purged'
         /\ faulted \subseteq faulted'
         /\ \A c \in Calls : pc[c] # "idle" => pc'[c] # "idle" /\ email'[c] = email[c]
<1> TypeOK
  BY DEF IInv
<1> USE DEF TypeOK, storeVars, callVars, visitVars, envVars
<1>1. ASSUME NEW c \in Calls, CallAction(c)
      PROVE  /\ engine' = engine /\ users \subseteq users' /\ purged' = purged
             /\ faulted \subseteq faulted'
             /\ pc[c] # "idle" => pc'[c] # "idle" /\ email'[c] = email[c]
  <2> USE DEF Goto, Return
  <2>1. CASE RejectInput(c) \/ \E e \in Emails : Start(c, e)
    BY <2>1 DEF RejectInput, Start
  <2>2. CASE FindUser(c) \/ HashPassword(c) \/ CreateUserThrows(c)
    BY <2>2 DEF FindUser, HashPassword, CreateUserThrows
  <2>3. CASE DummyHash(c) \/ CreateUser(c)
    BY <2>3, SuccessIsAnswered DEF DummyHash, CreateUser, StoreUser, Success
  <2>4. CASE Commit(c)
    <3>1. answer[c] \in Answered
      BY <2>4, SuccessIsAnswered DEF Commit, IInv, CallsFit, Answered
    <3>2. QED
      BY <2>4, <3>1 DEF Commit, Answered, Success
  <2>5. CASE CommitFails(c) \/ Fail(c)
    BY <2>5 DEF CommitFails, Fail
  <2>6. QED
    BY <1>1, <2>1, <2>2, <2>3, <2>4, <2>5 DEF CallAction, CallStep
<1>2. ASSUME NEW c \in Calls, SendAction(c)
      PROVE  faulted \subseteq faulted'
  BY <1>2 DEF SendAction, CreateLink, CreateLinkFails, SendMail, TaskStep
<1>3. CASE VisitAction \/ StartPurge \/ PurgeFails \/ Wait \/ Tick \/ UNCHANGED vars
  BY <1>3 DEF VisitAction, Present, ConsumeLink, FindVisitor, MarkUserVerified, VisitFails,
     Leave, StartPurge, PurgeFails, Wait, Tick, vars
<1>4. CASE Purge
  BY <1>4 DEF Purge
<1>5. CASE Crash
  BY <1>5 DEF Crash, Working
<1>6. CASE \E c \in Calls : CallAction(c)
  BY <1>1, <1>6, OtherCalls
<1>7. QED
  BY <1>2, <1>3, <1>4, <1>5, <1>6, Quiet, StepCases DEF PurgeAction

\* An address that has an account keeps it.
LEMMA AccountStays ==
  ASSUME IInv, [Next]_vars, NEW c \in Calls, pc[c] # "idle", HasAccount(c)
  PROVE  HasAccount(c)'
<1>1. PICK d \in users \cup purged : email[d] = email[c]
  BY DEF HasAccount
<1>2. d \in Calls /\ pc[d] # "idle"
  BY DEF IInv, TypeOK, CallsFit
<1>3. d \in users' \cup purged' /\ email'[d] = email'[c]
  BY <1>1, <1>2, Progress
<1>4. QED
  BY <1>3 DEF HasAccount

LEMMA CallsStep == IInv /\ [Next]_vars => CallsFit'
<1> SUFFICES ASSUME IInv, [Next]_vars, NEW d \in Calls
             PROVE  CallsFit!(d)'
  BY DEF CallsFit
<1> TypeOK /\ CallsFit
  BY DEF IInv
<1> USE DEF TypeOK, CallsFit
<1>1. ASSUME NEW c \in Calls, d # c, CallAction(c)
      PROVE  CallsFit!(d)'
  <2>1. UNCHANGED <<engine, purged, mailed, task>>
    BY <1>1, CallTypes DEF envVars, dispatcherVars
  <2>2. QED
    BY <1>1, <2>1, OtherCalls
<1>2. ASSUME CallAction(d)
      PROVE  CallsFit!(d)'
  <2>1. UNCHANGED <<engine, purged, mailed, task>>
    BY <1>2, CallTypes DEF envVars, dispatcherVars
  <2> USE DEF storeVars, Goto
  <2>2. CASE RejectInput(d) \/ \E e \in Emails : Start(d, e)
    BY <2>1, <2>2 DEF RejectInput, Start
  <2>3. CASE FindUser(d) \/ HashPassword(d) \/ CreateUserThrows(d)
    BY <2>1, <2>3 DEF FindUser, HashPassword, CreateUserThrows, Return, Answered
  <2>4. CASE DummyHash(d)
    <3>1. \/ pc'[d] = "commit" /\ answer'[d] = SuccessStatus /\ "transactional" \in engine
          \/ pc'[d] = SuccessStatus
      BY <2>4 DEF DummyHash, Return
    <3>2. UNCHANGED <<users, staged, send>> /\ pc[d] = "dummy"
      BY <2>4 DEF DummyHash
    <3>3. QED
      BY <2>1, <3>1, <3>2, SuccessIsAnswered DEF Success
  <2>5. CASE CreateUser(d)
    <3>1. CASE "transactional" \in engine
      <4>1. pc'[d] = "commit" /\ answer'[d] = SuccessStatus /\ users' = users /\ pc[d] = "create"
        BY <2>5, <3>1 DEF CreateUser, StoreUser, Return
      <4>2. QED
        BY <2>1, <3>1, <4>1, SuccessIsAnswered
    <3>2. CASE "transactional" \notin engine
      <4>1. pc'[d] = SuccessStatus /\ staged' = staged /\ pc[d] = "create"
        BY <2>5, <3>2 DEF CreateUser, StoreUser, Return
      <4>2. QED
        BY <2>1, <4>1, SuccessIsAnswered DEF Success
    <3>3. QED
      BY <3>1, <3>2
  <2>6. CASE Commit(d)
    <3>1. pc'[d] \in Success \cup {"email-already-exists"}
      BY <2>6 DEF Commit
    <3>2. d \notin staged' /\ send' = send
      BY <2>6 DEF Commit
    <3>3. QED
      BY <2>1, <3>1, <3>2 DEF Success
  <2>7. CASE CommitFails(d)
    BY <2>1, <2>7 DEF CommitFails
  <2>8. CASE Fail(d)
    BY <2>1, <2>8 DEF Fail, Working
  <2>9. QED
    BY <1>2, <2>2, <2>3, <2>4, <2>5, <2>6, <2>7, <2>8 DEF CallAction, CallStep
<1>3. ASSUME NEW c \in Calls, SendAction(c)
      PROVE  CallsFit!(d)'
  <2>1. UNCHANGED <<engine, users, staged, pc, answer, purged>>
    BY <1>3, Quiet
  <2>2. CASE CreateLink(c) \/ CreateLinkFails(c)
    BY <2>1, <2>2 DEF CreateLink, CreateLinkFails, Dispatch, envVars, dispatcherVars,
                      DispatcherTypeOK
  <2>3. CASE SendMail(c)
    BY <2>1, <2>3 DEF SendMail, HandlerSucceeds, Settle, callVars, DispatcherTypeOK
  <2>4. CASE TaskStep(c)
    BY <2>1, <2>4 DEF TaskStep, RunHandler, HandlerFails, OnFailureSettles, Settle, callVars,
                      envVars, DispatcherTypeOK
  <2>5. QED
    BY <1>3, <2>2, <2>3, <2>4 DEF SendAction
<1>4. CASE VisitAction \/ StartPurge \/ PurgeFails \/ Wait \/ Tick \/ UNCHANGED vars
  <2>1. UNCHANGED <<engine, users, staged, pc, answer, purged>>
    BY <1>4, Quiet
  <2>2. UNCHANGED <<task, send, mailed>>
    BY <1>4 DEF VisitAction, Present, ConsumeLink, FindVisitor, MarkUserVerified, VisitFails,
       Leave, StartPurge, PurgeFails, Wait, Waiting, StartWaiting, Poll, StopWaiting, Tick,
       vars, callVars, envVars, dispatcherVars
  <2>3. QED
    BY <2>1, <2>2
<1>5. CASE Purge
  BY <1>5 DEF Purge, Expired, callVars, dispatcherVars
<1>6. CASE Crash
  BY <1>6 DEF Crash, DispatcherCrash, Working, Unfinished
<1>7. QED
  BY <1>1, <1>2, <1>3, <1>4, <1>5, <1>6, StepCases DEF PurgeAction

\* A call that creates a user does so for an address nobody has.
LEMMA OnlyOne == IInv /\ [Next]_vars => OneUserPerAddress'
<1> SUFFICES ASSUME IInv, [Next]_vars
             PROVE  OneUserPerAddress'
  OBVIOUS
<1> TypeOK /\ CallsFit /\ OneUserPerAddress
  BY DEF IInv
<1>1. ASSUME users' \cup staged' \subseteq users \cup staged
      PROVE  OneUserPerAddress'
  <2>1. \A d \in users \cup staged : email'[d] = email[d]
    <3>1. \A d \in users \cup staged : d \in Calls /\ pc[d] # "idle"
      BY DEF TypeOK, CallsFit
    <3>2. QED
      BY <3>1, Progress
  <2>2. QED
    BY <1>1, <2>1 DEF OneUserPerAddress
<1>2. ASSUME NEW c \in Calls, email' = email, users' \cup staged' \subseteq users \cup staged \cup {c},
             \A d \in users \cup staged : email[d] # email[c]
      PROVE  OneUserPerAddress'
  BY <1>2 DEF OneUserPerAddress
<1>3. ASSUME NEW c \in Calls, CallAction(c)
      PROVE  OneUserPerAddress'
  <2>1. CASE CreateUser(c)
    BY <1>2, <2>1 DEF CreateUser, StoreUser, Holder
  <2>2. CASE Fail(c)
    <3>1. PICK created \in SUBSET {c} :
            /\ users' = users \cup created
            /\ created # {} => "transactional" \notin engine /\ Holder(email[c], users) = {}
      BY <2>2 DEF Fail
    <3>2. staged' = staged /\ email' = email
      BY <2>2 DEF Fail
    <3>3. CASE created = {}
      BY <1>1, <3>1, <3>2, <3>3
    <3>4. CASE created # {}
      <4>1. staged = {}
        BY <3>1, <3>4 DEF CallsFit, TypeOK
      <4>2. \A d \in users \cup staged : email[d] # email[c]
        BY <3>1, <3>4, <4>1 DEF Holder
      <4>3. QED
        BY <1>2, <3>1, <3>2, <4>2
    <3>5. QED
      BY <3>3, <3>4
  <2>3. CASE Commit(c) \/ CommitFails(c)
    BY <1>1, <2>3 DEF Commit, CommitFails
  <2>4. CASE RejectInput(c) \/ \E e \in Emails : Start(c, e)
    BY <1>1, <2>4 DEF RejectInput, Start, storeVars
  <2>5. CASE FindUser(c) \/ DummyHash(c) \/ HashPassword(c) \/ CreateUserThrows(c)
    BY <1>1, <2>5 DEF FindUser, DummyHash, HashPassword, CreateUserThrows, storeVars
  <2>6. QED
    BY <1>3, <2>1, <2>2, <2>3, <2>4, <2>5 DEF CallAction, CallStep
<1>4. CASE Purge \/ Crash
  BY <1>1, <1>4 DEF Purge, Crash
<1>5. QED
  BY <1>1, <1>3, <1>4, Quiet, StepCases DEF PurgeAction

LEMMA SendsStep == IInv /\ [Next]_vars => SendsFit'
<1> SUFFICES ASSUME IInv, [Next]_vars, NEW d \in Calls
             PROVE  SendsFit!(d)'
  BY DEF SendsFit
<1> TypeOK /\ CallsFit /\ SendsFit
  BY DEF IInv
<1> USE DEF TypeOK, DispatcherTypeOK, SendsFit
<1>1. ASSUME NEW c \in Calls, d # c, CallAction(c)
      PROVE  SendsFit!(d)'
  <2>1. UNCHANGED <<purged, mailed, task>>
    BY <1>1, CallTypes DEF envVars, dispatcherVars
  <2>2. QED
    BY <1>1, <2>1, OtherCalls
<1>2. ASSUME CallAction(d)
      PROVE  SendsFit!(d)'
  <2>1. UNCHANGED <<purged, mailed, task>>
    BY <1>2, CallTypes DEF envVars, dispatcherVars
  <2> USE DEF storeVars
  <2>2. CASE RejectInput(d) \/ \E e \in Emails : Start(d, e)
    BY <2>1, <2>2 DEF RejectInput, Start
  <2>3. CASE FindUser(d) \/ HashPassword(d) \/ CreateUserThrows(d) \/ DummyHash(d)
    BY <2>1, <2>3 DEF FindUser, HashPassword, CreateUserThrows, DummyHash
  <2>4. CASE CreateUser(d)
    <3>1. send[d] = "none" /\ task[d] = "none"
      BY <2>4 DEF CreateUser, CallsFit
    <3>2. d \in users' \cup staged'
      BY <2>4 DEF CreateUser, StoreUser
    <3>3. /\ "verification" \in engine => send'[d] = "create"
          /\ "verification" \notin engine => send'[d] = "none" /\ d \in verified'
      BY <2>4, <3>1 DEF CreateUser, StoreUser
    <3>4. QED
      BY <2>1, <3>1, <3>2, <3>3
  <2>5. CASE Commit(d)
    BY <2>1, <2>5 DEF Commit
  <2>6. CASE CommitFails(d)
    BY <2>1, <2>6 DEF CommitFails
  <2>7. CASE Fail(d)
    BY <2>1, <2>7 DEF Fail
  <2>8. QED
    BY <1>2, <2>2, <2>3, <2>4, <2>5, <2>6, <2>7 DEF CallAction, CallStep
<1>3. ASSUME NEW c \in Calls, SendAction(c)
      PROVE  SendsFit!(d)'
  <2>1. UNCHANGED <<users, staged, purged>>
    BY <1>3, Quiet
  <2>2. CASE CreateLink(c)
    BY <2>1, <2>2 DEF CreateLink, Dispatch, envVars
  <2>3. CASE CreateLinkFails(c)
    BY <2>1, <2>3 DEF CreateLinkFails, envVars, dispatcherVars
  <2>4. CASE SendMail(c)
    BY <2>1, <2>4 DEF SendMail, HandlerSucceeds, Settle, callVars, storeVars
  <2>5. CASE TaskStep(c)
    BY <2>1, <2>5 DEF TaskStep, RunHandler, HandlerFails, OnFailureSettles, Settle, callVars,
                      envVars, storeVars
  <2>6. QED
    BY <1>3, <2>2, <2>3, <2>4, <2>5 DEF SendAction
<1>4. CASE VisitAction \/ StartPurge \/ PurgeFails \/ Wait \/ Tick \/ UNCHANGED vars
  <2>1. UNCHANGED <<users, staged, purged>>
    BY <1>4, Quiet
  <2>2. UNCHANGED <<task, send, mailed, faulted>> /\ verified \subseteq verified'
    BY <1>4 DEF VisitAction, Present, ConsumeLink, FindVisitor, MarkUserVerified, VisitFails,
       Leave, StartPurge, PurgeFails, Wait, Waiting, StartWaiting, Poll, StopWaiting, Tick,
       vars, storeVars, callVars, envVars, dispatcherVars
  <2>3. QED
    BY <2>1, <2>2
<1>5. CASE Purge
  BY <1>5 DEF Purge, Expired, callVars, dispatcherVars
<1>6. CASE Crash
  <2>1. d \in staged => d \in faulted'
    BY <1>6 DEF Crash, CallsFit, Working
  <2>2. UNCHANGED <<users, purged, mailed>> /\ staged' = {} /\ verified' = verified \cap users
    BY <1>6 DEF Crash
  <2>3. faulted \subseteq faulted' /\ (send'[d] = "none" <=> send[d] = "none")
    BY <1>6 DEF Crash
  <2>4. send[d] = "create" => d \in faulted'
    BY <1>6 DEF Crash
  <2>5. (task'[d] = "none" <=> task[d] = "none") /\ (task'[d] = "sent" => task[d] = "sent")
    BY <1>6 DEF Crash, DispatcherCrash, Unfinished
  <2>6. QED
    BY <2>1, <2>2, <2>3, <2>4, <2>5
<1>7. QED
  BY <1>1, <1>2, <1>3, <1>4, <1>5, <1>6, StepCases DEF PurgeAction

LEMMA AccountsStep == IInv /\ [Next]_vars => AccountsFit'
<1> SUFFICES ASSUME IInv, [Next]_vars, NEW d \in Calls
             PROVE  AccountsFit!(d)'
  BY DEF AccountsFit
<1> TypeOK /\ CallsFit /\ AccountsFit
  BY DEF IInv
<1> USE DEF TypeOK
<1>1. HasAccount(d) /\ pc[d] # "idle" => HasAccount(d)'
  BY AccountStays
<1>2. ASSUME pc'[d] = pc[d], answer'[d] = answer[d], d \in staged => d \in staged'
      PROVE  AccountsFit!(d)'
  <2>1. pc[d] \in Success \cup {"dummy", "commit"} => pc[d] # "idle"
    BY DEF Success
  <2>2. QED
    BY <1>1, <1>2, <2>1 DEF AccountsFit
<1>3. ASSUME NEW c \in Calls, d # c, CallAction(c)
      PROVE  AccountsFit!(d)'
  BY <1>2, <1>3, OtherCalls
<1>4. ASSUME CallAction(d)
      PROVE  AccountsFit!(d)'
  <2> USE DEF Goto, storeVars
  <2>1. CASE RejectInput(d) \/ \E e \in Emails : Start(d, e)
    BY <2>1 DEF RejectInput, Start, Success
  <2>2. CASE FindUser(d)
    <3>1. CASE Holder(email[d], users) = {}
      BY <2>2, <3>1 DEF FindUser, Success
    <3>2. CASE Holder(email[d], users) # {}
      <4>1. HasAccount(d)
        BY <3>2 DEF Holder, HasAccount
      <4>2. HasAccount(d)'
        BY <1>1, <2>2, <4>1 DEF FindUser
      <4>3. QED
        BY <4>2
    <3>3. QED
      BY <3>1, <3>2
  <2>3. CASE DummyHash(d)
    <3>1. HasAccount(d)'
      BY <1>1, <2>3 DEF DummyHash, AccountsFit
    <3>2. QED
      BY <3>1
  <2>4. CASE HashPassword(d) \/ CreateUserThrows(d) \/ CommitFails(d) \/ Fail(d)
    BY <2>4 DEF HashPassword, CreateUserThrows, CommitFails, Fail, Success
  <2>5. CASE CreateUser(d)
    <3>1. CASE "transactional" \in engine
      <4>1. pc'[d] = "commit" /\ d \in staged'
        BY <2>5, <3>1 DEF CreateUser, StoreUser, Return
      <4>2. QED
        BY <4>1 DEF Success
    <3>2. CASE "transactional" \notin engine
      <4>1. d \in users'
        BY <2>5, <3>2 DEF CreateUser, StoreUser
      <4>2. HasAccount(d)'
        BY <4>1 DEF HasAccount
      <4>3. QED
        BY <4>2
    <3>3. QED
      BY <3>1, <3>2
  <2>6. CASE Commit(d)
    <3>1. pc'[d] = answer[d] /\ pc[d] = "commit"
      BY <2>6 DEF Commit
    <3>2. CASE answer[d] \in Success
      <4>1. d \in staged \/ HasAccount(d)
        BY <3>1, <3>2 DEF AccountsFit
      <4>2. d \in staged => d \in users'
        BY <2>6 DEF Commit
      <4>3. d \in users' => HasAccount(d)'
        BY DEF HasAccount
      <4>4. HasAccount(d)'
        BY <1>1, <3>1, <4>1, <4>2, <4>3
      <4>5. QED
        BY <4>4
    <3>3. CASE answer[d] \notin Success
      <4>1. pc'[d] = "email-already-exists"
        BY <3>1, <3>3 DEF CallsFit
      <4>2. QED
        BY <4>1 DEF Success
    <3>4. QED
      BY <3>2, <3>3
  <2>7. QED
    BY <1>4, <2>1, <2>2, <2>3, <2>4, <2>5, <2>6 DEF CallAction, CallStep
<1>5. CASE Purge
  BY <1>2, <1>5 DEF Purge, callVars
<1>6. CASE Crash
  <2>1. pc'[d] = "crashed" \/ (pc'[d] = pc[d] /\ pc[d] \notin Working)
    BY <1>6 DEF Crash
  <2>2. pc[d] \in Success => HasAccount(d)'
    BY <1>1 DEF AccountsFit, Success
  <2>3. QED
    BY <2>1, <2>2 DEF Working, Success
<1>7. QED
  BY <1>2, <1>3, <1>4, <1>5, <1>6, Quiet, StepCases DEF PurgeAction

LEMMA VerifiedStep == IInv /\ [Next]_vars => verified \cap users \subseteq verified' \cap users'
<1> SUFFICES ASSUME IInv, [Next]_vars, NEW d \in verified \cap users
             PROVE  d \in verified' \cap users'
  OBVIOUS
<1> TypeOK /\ CallsFit /\ d \in Calls
  BY DEF IInv, TypeOK
<1>1. ASSUME NEW c \in Calls, CallAction(c)
      PROVE  d \in verified' \cap users'
  <2>1. CASE d # c
    BY <1>1, <2>1, OtherCalls
  <2>2. CASE d = c
    <3> USE DEF storeVars
    <3>1. pc[d] # "commit" /\ pc[d] # "create"
      BY DEF CallsFit
    <3>2. ~CreateUser(d) /\ ~Commit(d) /\ ~CommitFails(d)
      BY <3>1 DEF CreateUser, Commit, CommitFails
    <3>3. CASE RejectInput(d) \/ \E e \in Emails : Start(d, e)
      BY <3>3 DEF RejectInput, Start
    <3>4. CASE FindUser(d) \/ HashPassword(d) \/ CreateUserThrows(d) \/ DummyHash(d)
      BY <3>4 DEF FindUser, HashPassword, CreateUserThrows, DummyHash
    <3>5. CASE Fail(d)
      BY <3>5 DEF Fail
    <3>6. QED
      BY <1>1, <2>2, <3>2, <3>3, <3>4, <3>5 DEF CallAction, CallStep
  <2>3. QED
    BY <2>1, <2>2
<1>2. CASE Purge
  BY <1>2 DEF Purge, Expired
<1>3. CASE Crash
  BY <1>3 DEF Crash
<1>4. CASE VisitAction \/ StartPurge \/ PurgeFails \/ Wait \/ Tick \/ UNCHANGED vars
  <2>1. verified \subseteq verified'
    BY <1>4 DEF VisitAction, Present, ConsumeLink, FindVisitor, MarkUserVerified, VisitFails,
       Leave, StartPurge, PurgeFails, Wait, Tick, vars, storeVars
  <2>2. QED
    BY <1>4, <2>1, Quiet
<1>5. ASSUME NEW c \in Calls, SendAction(c)
      PROVE  d \in verified' \cap users'
  BY <1>5 DEF SendAction, CreateLink, CreateLinkFails, SendMail, TaskStep, storeVars
<1>6. QED
  BY <1>1, <1>2, <1>3, <1>4, <1>5, StepCases DEF PurgeAction

LEMMA VisitStep == IInv /\ [Next]_vars => VisitFits'
<1> SUFFICES ASSUME IInv, [Next]_vars
             PROVE  VisitFits'
  OBVIOUS
<1> TypeOK /\ VisitFits
  BY DEF IInv
<1> USE DEF VisitFits, VerifyAnswerHolds
<1>1. ASSUME visit' = visit, found' = found
      PROVE  VisitFits'
  BY <1>1, Progress, VerifiedStep
<1>2. CASE \E c \in Calls : Present(c)
  BY <1>2 DEF Present, VisitGoto
<1>3. CASE ConsumeLink
  BY <1>3 DEF ConsumeLink, VisitGoto
<1>4. CASE FindVisitor
  <2>1. visit' = "invalid-token" \/ (visit' = "mark" /\ found' \in Holder(email[visited], users))
    BY <1>4 DEF FindVisitor, VisitGoto
  <2>2. Holder(email[visited], users) \subseteq users' \cup purged'
    BY Progress DEF Holder
  <2>3. QED
    BY <2>1, <2>2
<1>5. CASE MarkUserVerified
  <2>1. found \in users \cup purged /\ found' = found
    BY <1>5 DEF MarkUserVerified
  <2>2. users' = users /\ purged' = purged /\ verified' = verified \cup ({found} \cap users)
    BY <1>5 DEF MarkUserVerified, envVars
  <2>3. QED
    BY <2>1, <2>2
<1>6. CASE VisitFails \/ Leave
  BY <1>6 DEF VisitFails, Leave, VisitGoto
<1>7. CASE Crash
  BY <1>7 DEF Crash
<1>8. ASSUME NEW c \in Calls, CallAction(c) \/ SendAction(c)
      PROVE  VisitFits'
  <2>1. CASE CallAction(c)
    BY <1>1, <2>1, CallTypes DEF visitVars
  <2>2. CASE SendAction(c)
    BY <1>1, <2>2 DEF SendAction, CreateLink, CreateLinkFails, SendMail, TaskStep, visitVars
  <2>3. QED
    BY <1>8, <2>1, <2>2
<1>9. CASE PurgeAction \/ Wait \/ Tick \/ UNCHANGED vars
  BY <1>1, <1>9 DEF PurgeAction, StartPurge, Purge, PurgeFails, Wait, Tick, vars, visitVars
<1>10. QED
  BY <1>2, <1>3, <1>4, <1>5, <1>6, <1>7, <1>8, <1>9, StepCases DEF VisitAction

\* Only an answer of waitForActiveTasks says "true", and then none is active.
LEMMA IdleStep ==
  ASSUME IInv, [Next]_vars, waiter # "true", waiter' = "true", NEW c \in Calls
  PROVE  task'[c] \notin Unfinished
<1> TypeOK /\ CountIsExact
  BY DEF IInv
<1>1. Wait
  <2>1. ASSUME NEW d \in Calls, CallAction(d)
        PROVE  waiter' = waiter
    BY <2>1, CallTypes DEF dispatcherVars
  <2>2. ASSUME NEW d \in Calls, SendAction(d)
        PROVE  waiter' = waiter
    BY <2>2 DEF SendAction, CreateLink, CreateLinkFails, SendMail, TaskStep, Dispatch,
       HandlerSucceeds, OnFailureSettles, Settle, RunHandler, HandlerFails, dispatcherVars
  <2>3. CASE VisitAction \/ PurgeAction \/ Tick \/ UNCHANGED vars
    BY <2>3 DEF VisitAction, Present, ConsumeLink, FindVisitor, MarkUserVerified,
       VisitFails, Leave, PurgeAction, StartPurge, Purge, PurgeFails, Tick, vars, dispatcherVars
  <2>4. CASE Crash
    BY <2>4 DEF Crash, DispatcherCrash
  <2>5. QED
    BY <2>1, <2>2, <2>3, <2>4, StepCases
<1>2. activeTasksCount = 0 /\ task' = task
  <2>1. activeTasksCount \in Nat
    BY DEF TypeOK, DispatcherTypeOK
  <2>2. QED
    BY <1>1, <2>1 DEF Wait, Waiting, StartWaiting, Poll, StopWaiting
<1>3. Active = {}
  BY <1>2, ActiveIsFinite, FS_EmptySet DEF CountIsExact, Active
<1>4. QED
  BY <1>2, <1>3 DEF Active

-----------------------------------------------------------------------------
(* The theorems.                                                           *)

\* The inductive invariant holds throughout.
THEOREM Invariance == Spec => []IInv
<1>1. IInv /\ [Next]_vars => IInv'
  BY TypeStep, CountStep, CallsStep, OnlyOne, SendsStep, AccountsStep, VisitStep DEF IInv
<1>2. QED
  BY InitIInv, <1>1, PTL DEF Spec

\* Every variable keeps its type: no task is tried more often than its retries
\* allow, and the counter of active tasks never falls below zero.
THEOREM TypeCorrect == Spec => []TypeOK
<1>1. IInv => TypeOK
  BY DEF IInv
<1>2. QED
  BY <1>1, Invariance, PTL

\* The counter is the number of tasks under way (in-memory-dispatcher.ts:45-51).
THEOREM Counting == Spec => []CountIsExact
<1>1. IInv => CountIsExact
  BY DEF IInv
<1>2. QED
  BY <1>1, Invariance, PTL

\* However many registrations of an address overlap, one creates the user
\* (register.ts:140, 153).
THEOREM OneUser == Spec => []OneUserPerAddress
<1>1. IInv => OneUserPerAddress
  BY DEF IInv
<1>2. QED
  BY <1>1, Invariance, PTL

\* "success" is answered to an address that has an account (register.ts:92).
THEOREM Accounts == Spec => []SuccessMeansAccount
<1>1. IInv => SuccessMeansAccount
  BY DEF IInv, AccountsFit, HasAccount, SuccessMeansAccount
<1>2. QED
  BY <1>1, Invariance, PTL

\* A mail tells of a user, unless something outside the engine failed after
\* the send was begun (register.ts:168).
THEOREM Ghosts == Spec => []GhostMailHasCause
<1>1. IInv => GhostMailHasCause
  BY DEF IInv, TypeOK, CallsFit, SendsFit, GhostMailHasCause
<1>2. QED
  BY <1>1, Invariance, PTL

\* A pending user nobody is sending mail to was sent a link, unless something
\* failed for it.
THEOREM Stranded == Spec => []StrandedHasCause
<1>1. IInv => StrandedHasCause
  BY DEF IInv, TypeOK, DispatcherTypeOK, SendsFit, StrandedHasCause
<1>2. QED
  BY <1>1, Invariance, PTL

\* verifyEmail answers "success" for a user that is verified or was purged
\* (verification.ts:170, 175).
THEOREM VerifyAnswers == Spec => []VerifyAnswerHolds
<1>1. IInv => VerifyAnswerHolds
  BY DEF IInv, VisitFits
<1>2. QED
  BY <1>1, Invariance, PTL

\* A verified user stays, and stays verified, whatever is purged, crashes or
\* rolls back.
THEOREM Verified == Spec => VerifiedStays
<1>1. IInv /\ [Next]_vars => [verified \cap users \subseteq verified' \cap users']_vars
  BY VerifiedStep
<1>2. QED
  BY <1>1, Invariance, PTL DEF Spec, VerifiedStays

\* A shutdown that is told "true" kills no task (in-memory-dispatcher.ts:104).
THEOREM TrueIsIdle == Spec => TrueMeansIdle
<1>1. IInv /\ [Next]_vars
        => [waiter # "true" /\ waiter' = "true"
              => \A c \in Calls : task'[c] \notin Unfinished]_dispatcherVars
  BY IdleStep
<1>2. QED
  BY <1>1, Invariance, PTL DEF Spec, TrueMeansIdle

=============================================================================
