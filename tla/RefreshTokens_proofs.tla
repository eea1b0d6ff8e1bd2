------------------------ MODULE RefreshTokens_proofs ------------------------
(***************************************************************************)
(* What RefreshTokens guarantees for any number of calls, users, tokens,   *)
(* any timeout and both kinds of adapter.                                  *)
(***************************************************************************)
EXTENDS RefreshTokens, TLAPS

\* Numbers are given out in order: a token that was not generated has no
\* record, no family and no parent, and nobody holds it.
Numbering ==
  /\ \A t \in Token : t > minted =>
        status[t] = "absent" /\ family[t] = None /\ parent[t] = None
  /\ \A t \in Token : t <= minted => family[t] \in 1..minted
  /\ \A t \in Token : parent[t] <= minted
  /\ \A t \in handed : t <= minted

\* What a call that is at one of its adapter operations works with.
CallsReady ==
  \A c \in Calls :
    /\ presented[c] # None => presented[c] \in handed
    /\ pc[c] \in {"find", "expiry", "mark", "revoke"} => presented[c] # None
    /\ pc[c] \in {"mint", "user", "orphan"} => fresh[c] # None
    /\ fresh[c] <= minted

\* A token that a call is about to store has no record yet and nobody else is
\* about to store it.
PendingIsNew ==
  /\ \A c \in Calls : Minting(c) => status[fresh[c]] = "absent"
  /\ \A c, d \in Calls : Minting(c) /\ Minting(d) /\ fresh[c] = fresh[d] => c = d

\* A token with a successor is neither spendable nor about to become so.
ParentIsSpent ==
  \A s \in Token : parent[s] # None =>
    /\ status[parent[s]] # "active"
    /\ \A c \in Calls : Minting(c) => fresh[c] # parent[s]

IInv ==
  /\ TypeOK
  /\ Numbering
  /\ CallsReady
  /\ PendingIsNew
  /\ OneHolderPerFamily
  /\ ParentIsSpent
  /\ OneChildPerToken

-----------------------------------------------------------------------------
(* Type correctness.                                                       *)

\* Deleting records, for whatever reason, keeps the types and makes no record
\* active, used or present.
LEMMA DeleteFacts ==
  ASSUME NEW T, TypeOK, Delete(T)
  PROVE  /\ status' \in [Token -> Status]
         /\ \A t \in Token : status'[t] = status[t] \/ status'[t] = "absent"
  BY DEF TypeOK, Delete, Status

\* The empty store satisfies the invariant.
LEMMA InitIInv == Init => IInv
<1> SUFFICES ASSUME Init
             PROVE  IInv
  OBVIOUS
<1> USE ConstantsAssumption DEF Init, Token, None
<1>1. TypeOK
  BY DEF TypeOK, Status
<1>2. Numbering /\ CallsReady /\ PendingIsNew /\ ParentIsSpent /\ OneChildPerToken
  BY DEF Numbering, CallsReady, PendingIsNew, ParentIsSpent, OneChildPerToken, Minting
<1>3. OneHolderPerFamily
  BY DEF OneHolderPerFamily, Active, InFamily, Stored, Minters, Minting
<1>4. QED
  BY <1>1, <1>2, <1>3 DEF IInv

\* What IInv says of one call and of one token, in the form the steps use.
LEMMA CallFacts ==
  ASSUME IInv, NEW c \in Calls
  PROVE  /\ presented[c] # None => presented[c] \in handed
         /\ pc[c] \in {"find", "expiry", "mark", "revoke"} => presented[c] \in handed
         /\ pc[c] \in {"mint", "user", "orphan"} => fresh[c] \in Token /\ fresh[c] <= minted
  BY DEF IInv, TypeOK, CallsReady

\* What is known of a token that was generated, and of one that was not.
LEMMA TokenFacts ==
  ASSUME IInv, NEW t \in Token, Stored(t) \/ t \in handed
  PROVE  t <= minted /\ family[t] \in 1..minted /\ family[t] \in Token
  BY ConstantsAssumption DEF IInv, TypeOK, Numbering, Stored, Token

\* Typing is preserved by every action; the numbering keeps `fresh` in range.
LEMMA TypeStep == IInv /\ [Next]_vars => TypeOK'
<1> SUFFICES ASSUME IInv, [Next]_vars
             PROVE  TypeOK'
  OBVIOUS
<1> TypeOK
  BY DEF IInv
<1> USE ConstantsAssumption DEF TypeOK, Status, Waiting, Outcome,
        storeVars, callVars, history, Goto, Answer
<1>1. ASSUME NEW c \in Calls, NEW f \in Token \cup {None}, NEW u \in Users \cup {None},
             NEW from \in Token \cup {None}, Generate(c, u, f, from)
      PROVE  /\ fresh' \in [Calls -> Token \cup {None}]
             /\ minted' \in 0..MaxTokens
             /\ owner' \in [Token -> Users \cup {None}]
             /\ family' \in [Token -> Token \cup {None}]
             /\ parent' \in [Token -> Token \cup {None}]
             /\ expires' \in [Token -> Nat]
  BY <1>1 DEF Generate, Token
<1>2. ASSUME NEW c \in Calls, NEW u \in Users, StartIssue(c, u)
      PROVE  TypeOK'
  <2>1. minted + 1 \in Token
    BY <1>2 DEF StartIssue, Generate, Token
  <2>2. QED
    BY <1>1, <1>2, <2>1 DEF StartIssue
<1>3. ASSUME NEW c \in Calls, NEW t \in Token, StartRotate(c, t)
      PROVE  TypeOK'
  BY <1>3, TokenFacts DEF StartRotate
<1>4. ASSUME NEW c \in Calls, CreateRefreshToken(c)
      PROVE  TypeOK'
  BY <1>4, CallFacts DEF CreateRefreshToken
<1>5. ASSUME NEW c \in Calls, FindRefreshToken(c) \/ CheckExpiry(c)
      PROVE  TypeOK'
  BY <1>5 DEF FindRefreshToken, CheckExpiry
<1>6. ASSUME NEW c \in Calls, MarkWon(c)
      PROVE  TypeOK'
  <2>1. presented[c] \in Token
    BY <1>6, CallFacts DEF MarkWon
  <2>2. /\ owner[presented[c]] \in Users \cup {None}
        /\ family[presented[c]] \in Token \cup {None}
    BY <2>1
  <2>3. QED
    BY <1>1, <1>6, <2>1, <2>2 DEF MarkWon
<1>7. ASSUME NEW c \in Calls, MarkLost(c)
      PROVE  TypeOK'
  BY <1>7 DEF MarkLost
<1>8. ASSUME NEW c \in Calls, RevokeReused(c) \/ RevokeOrphan(c)
      PROVE  TypeOK'
  BY <1>8, DeleteFacts DEF RevokeReused, RevokeOrphan
<1>9. ASSUME NEW c \in Calls, FindUser(c)
      PROVE  TypeOK'
  BY <1>9, CallFacts DEF FindUser
<1>10. ASSUME NEW c \in Calls, Fail(c) \/ Return(c)
      PROVE  TypeOK'
  BY <1>10 DEF Fail, Return
<1>11. ASSUME NEW T \in SUBSET Token, Sweep(T), \A t \in T : Stored(t)
       PROVE  status' \in [Token -> Status] /\ disturbed' \in SUBSET Token
  <2>1. \A t \in T : family[t] \in Token
    BY <1>11, TokenFacts
  <2>2. QED
    BY <1>11, <2>1, DeleteFacts DEF Sweep
<1>12. ASSUME NEW f \in Token, Logout(f)
       PROVE  TypeOK'
  BY <1>12, <1>11 DEF Logout, InFamily
<1>13. ASSUME NEW u \in Users, RevokeAllForUser(u) \/ DeleteUser(u)
       PROVE  TypeOK'
  BY <1>13, <1>11 DEF RevokeAllForUser, DeleteUser, OwnedBy
<1>14. ASSUME PurgeExpired
       PROVE  TypeOK'
  BY <1>14, DeleteFacts DEF PurgeExpired
<1>15. ASSUME Tick
       PROVE  TypeOK'
  BY <1>15 DEF Tick
<1>16. CASE UNCHANGED vars
  BY <1>16 DEF vars
<1>17. QED
  BY <1>2, <1>3, <1>4, <1>5, <1>6, <1>7, <1>8, <1>9, <1>10, <1>12, <1>13, <1>14,
     <1>15, <1>16 DEF Next, Step

-----------------------------------------------------------------------------
(* The other conjuncts of IInv.  Next has three kinds of steps: those that  *)
(* generate a token, those that move one call or one record, and those that *)
(* only delete records or let time pass.                                    *)

\* The steps that change no call and at most delete records.
Housekeeping ==
  /\ \A t \in Token : status'[t] = status[t] \/ status'[t] = "absent"
  /\ UNCHANGED <<family, minted, handed, callVars, parent>>

\* Next, action by action: what each later proof splits a step into.
LEMMA NextCases ==
  ASSUME IInv, [Next]_vars
  PROVE  \/ \E c \in Calls, u \in Users : StartIssue(c, u)
         \/ \E c \in Calls, t \in Token : StartRotate(c, t)
         \/ \E c \in Calls : Step(c) \/ Fail(c) \/ Return(c)
         \/ Housekeeping
<1> TypeOK
  BY DEF IInv
<1>1. ASSUME NEW f \in Token, Logout(f)
      PROVE  Housekeeping
  BY <1>1, DeleteFacts DEF Logout, Sweep, Housekeeping, callVars
<1>2. ASSUME NEW u \in Users, RevokeAllForUser(u) \/ DeleteUser(u)
      PROVE  Housekeeping
  BY <1>2, DeleteFacts DEF RevokeAllForUser, DeleteUser, Sweep, Housekeeping, callVars
<1>3. PurgeExpired => Housekeeping
  BY DeleteFacts DEF PurgeExpired, Housekeeping, callVars, history
<1>4. Tick \/ UNCHANGED vars => Housekeeping
  BY DEF Tick, vars, Housekeeping, storeVars, callVars, history
<1>5. QED
  BY <1>1, <1>2, <1>3, <1>4 DEF Next

\* The steps that generate no token, make no record and hand out only tokens
\* that were generated keep the numbering.
LEMMA NumberingKept ==
  ASSUME IInv,
         \A t \in Token : status'[t] = status[t] \/ status'[t] = "absent" \/ t <= minted,
         UNCHANGED <<family, minted, parent>>,
         \A t \in handed' : t <= minted
  PROVE  Numbering'
BY ConstantsAssumption DEF IInv, Numbering, TypeOK, Token

\* Tokens are numbered in the order of generation, and this stays so.
LEMMA NumberingStep == IInv /\ [Next]_vars => Numbering'
<1> SUFFICES ASSUME IInv, [Next]_vars
             PROVE  Numbering'
  OBVIOUS
<1> TypeOK /\ Numbering
  BY DEF IInv
<1>0. \A t \in handed : t <= minted
  BY DEF Numbering
<1>1. ASSUME NEW c \in Calls, NEW u, NEW f, NEW from, Generate(c, u, f, from),
             UNCHANGED handed,
             f \in 1..minted' , from = None \/ from \in 1..minted,
             \A t \in Token : status'[t] = status[t] \/ t <= minted
      PROVE  Numbering'
  <2>1. minted' = minted + 1 /\ minted \in Nat /\ minted' \in Token
    BY <1>1, ConstantsAssumption DEF Generate, TypeOK, Token
  <2>2. \A t \in Token : t > minted' =>
            status'[t] = "absent" /\ family'[t] = None /\ parent'[t] = None
    BY <1>1, <2>1 DEF Generate, Numbering, TypeOK, Token
  <2>3. \A t \in Token : t <= minted' => family'[t] \in 1..minted'
    BY <1>1, <2>1 DEF Generate, Numbering, TypeOK, Token
  <2>4. \A t \in Token : parent'[t] <= minted'
    BY <1>1, <2>1 DEF Generate, Numbering, TypeOK, Token, None
  <2>5. \A t \in handed' : t <= minted'
    BY <1>1, <2>1 DEF Numbering, TypeOK, Token
  <2>6. QED
    BY <2>2, <2>3, <2>4, <2>5 DEF Numbering
<1>2. ASSUME NEW c \in Calls, NEW u \in Users, StartIssue(c, u)
      PROVE  Numbering'
  <2>1. minted + 1 \in 1..minted'
    BY <1>2, ConstantsAssumption DEF StartIssue, Generate, TypeOK
  <2>2. QED
    BY <1>1, <1>2, <2>1 DEF StartIssue
<1>3. ASSUME NEW c \in Calls, MarkWon(c)
      PROVE  Numbering'
  <2>0. presented[c] \in handed /\ handed \subseteq Token
    BY <1>3, CallFacts DEF MarkWon, TypeOK
  <2>1. /\ presented[c] \in Token
        /\ presented[c] \in 1..minted
        /\ family[presented[c]] \in 1..minted
    <3>1. presented[c] <= minted /\ family[presented[c]] \in 1..minted
      BY <2>0, TokenFacts
    <3>2. presented[c] \in Token /\ minted \in Nat
      BY <2>0, ConstantsAssumption DEF TypeOK
    <3>3. presented[c] \in 1..minted
      BY <3>1, <3>2 DEF Token
    <3>4. QED
      BY <3>1, <3>2, <3>3
  <2>2. family[presented[c]] \in 1..minted'
    BY <1>3, <2>1, ConstantsAssumption DEF MarkWon, Generate, TypeOK
  <2>3. \A t \in Token : status'[t] = status[t] \/ t <= minted
    BY <1>3, <2>1 DEF MarkWon, TypeOK
  <2>4. QED
    BY <1>1, <1>3, <2>1, <2>2, <2>3 DEF MarkWon
<1>4. ASSUME NEW c \in Calls, NEW t \in Token, StartRotate(c, t)
      PROVE  Numbering'
  BY <1>0, <1>4, NumberingKept DEF StartRotate, storeVars
<1>5. ASSUME NEW c \in Calls, CreateRefreshToken(c)
      PROVE  Numbering'
  <2>1. fresh[c] \in Token /\ fresh[c] <= minted
    BY <1>5, CallFacts DEF CreateRefreshToken
  <2>2. \A t \in Token : status'[t] = status[t] \/ t <= minted
    BY <1>5, <2>1 DEF CreateRefreshToken, TypeOK
  <2>3. \A t \in handed' : t <= minted
    BY <1>0, <1>5, <2>1 DEF CreateRefreshToken
  <2>4. QED
    BY <1>5, <2>2, <2>3, NumberingKept DEF CreateRefreshToken, history
<1>6. ASSUME NEW c \in Calls, FindRefreshToken(c) \/ CheckExpiry(c) \/ Fail(c) \/ Return(c)
      PROVE  Numbering'
  BY <1>0, <1>6, NumberingKept
     DEF FindRefreshToken, CheckExpiry, Fail, Return, storeVars, history
<1>7. ASSUME NEW c \in Calls, MarkLost(c)
      PROVE  Numbering'
  <2>1. presented[c] \in Token /\ presented[c] <= minted
    BY <1>7, CallFacts, TokenFacts DEF MarkLost, TypeOK
  <2>2. \A t \in Token : status'[t] = status[t] \/ t <= minted
    BY <1>7, <2>1 DEF MarkLost, TypeOK
  <2>3. QED
    BY <1>0, <1>7, <2>2, NumberingKept DEF MarkLost, history
<1>8. ASSUME NEW c \in Calls, RevokeReused(c) \/ RevokeOrphan(c)
      PROVE  Numbering'
  BY <1>0, <1>8, DeleteFacts, NumberingKept DEF RevokeReused, RevokeOrphan, history
<1>9. ASSUME NEW c \in Calls, FindUser(c)
      PROVE  Numbering'
  <2>1. fresh[c] \in Token /\ fresh[c] <= minted
    BY <1>9, CallFacts DEF FindUser
  <2>2. \A t \in handed' : t <= minted
    BY <1>0, <1>9, <2>1 DEF FindUser
  <2>3. QED
    BY <1>9, <2>2, NumberingKept DEF FindUser, storeVars, history
<1>10. Housekeeping => Numbering'
  BY <1>0, NumberingKept DEF Housekeeping
<1>11. QED
  BY <1>2, <1>3, <1>4, <1>5, <1>6, <1>7, <1>8, <1>9, <1>10, NextCases DEF Step

\* A call that is past a read holds what that step needs, after every action.
LEMMA CallsReadyStep == IInv /\ [Next]_vars => CallsReady'
<1> SUFFICES ASSUME IInv, [Next]_vars
             PROVE  CallsReady'
  OBVIOUS
<1> TypeOK /\ CallsReady
  BY DEF IInv
<1> USE ConstantsAssumption DEF TypeOK, Token, None, CallsReady, Goto, Answer
<1>1. ASSUME NEW c \in Calls, NEW u \in Users, StartIssue(c, u)
      PROVE  CallsReady'
  BY <1>1 DEF StartIssue, Generate
<1>2. ASSUME NEW c \in Calls, NEW t \in Token, StartRotate(c, t)
      PROVE  CallsReady'
  BY <1>2 DEF StartRotate
<1>3. ASSUME NEW c \in Calls, CreateRefreshToken(c) \/ FindUser(c)
      PROVE  CallsReady'
  BY <1>3, SMTT(30) DEF CreateRefreshToken, FindUser
<1>4. ASSUME NEW c \in Calls, FindRefreshToken(c) \/ CheckExpiry(c)
      PROVE  CallsReady'
  <2>1. CASE FindRefreshToken(c)
    BY <2>1 DEF FindRefreshToken
  <2>2. CASE CheckExpiry(c) /\ now >= expires[presented[c]]
    BY <2>2 DEF CheckExpiry
  <2>3. CASE CheckExpiry(c) /\ ~(now >= expires[presented[c]])
    BY <2>3 DEF CheckExpiry
  <2>4. QED
    BY <1>4, <2>1, <2>2, <2>3
<1>5. ASSUME NEW c \in Calls, MarkWon(c)
      PROVE  CallsReady'
  BY <1>5 DEF MarkWon, Generate
<1>6. ASSUME NEW c \in Calls, MarkLost(c)
      PROVE  CallsReady'
  BY <1>6 DEF MarkLost
<1>7. ASSUME NEW c \in Calls, RevokeReused(c) \/ RevokeOrphan(c)
      PROVE  CallsReady'
  BY <1>7, SMTT(30) DEF RevokeReused, RevokeOrphan
<1>8. ASSUME NEW c \in Calls, Fail(c) \/ Return(c)
      PROVE  CallsReady'
  BY <1>8 DEF Fail, Return, Outcome, Waiting
<1>9. Housekeeping => CallsReady'
  BY DEF Housekeeping, callVars
<1>10. QED
  BY <1>1, <1>2, <1>3, <1>4, <1>5, <1>6, <1>7, <1>8, <1>9, NextCases DEF Step

-----------------------------------------------------------------------------
(* The invariants about who may store and spend a token.                   *)

\* The part of the state these invariants read.  A step that at most takes
\* records away and starts no mint keeps all of them.
Shrinking ==
  /\ \A t \in Token : status'[t] = status[t] \/ status'[t] # "active"
  /\ \A t \in Token : status[t] = "absent" => status'[t] = "absent"
  /\ \A c \in Calls : Minting(c)' => Minting(c) /\ fresh'[c] = fresh[c]
  /\ UNCHANGED <<family, parent>>

\* A step that only takes records or mints away keeps the safety parts.
LEMMA ShrinkingKeeps ==
  ASSUME IInv, Shrinking
  PROVE  PendingIsNew' /\ OneHolderPerFamily' /\ ParentIsSpent' /\ OneChildPerToken'
<1> TypeOK /\ PendingIsNew /\ OneHolderPerFamily /\ ParentIsSpent /\ OneChildPerToken
  BY DEF IInv
<1>1. \A c \in Calls : fresh[c] \in Token \cup {None}
  BY DEF TypeOK
<1>2. PendingIsNew'
  <2>1. \A c \in Calls : Minting(c) => fresh[c] \in Token
    BY CallFacts DEF Minting
  <2>2. QED
    BY <2>1 DEF Shrinking, PendingIsNew
<1>3. OneHolderPerFamily'
  <2> SUFFICES ASSUME NEW f \in Token
               PROVE  /\ \A s, t \in Active(f)' : s = t
                      /\ \A c, d \in Minters(f)' : c = d
                      /\ Active(f)' = {} \/ Minters(f)' = {}
    BY DEF OneHolderPerFamily
  <2>1. Active(f)' \subseteq Active(f)
    BY DEF Shrinking, Active, InFamily, Stored
  <2>2. Minters(f)' \subseteq Minters(f)
    BY DEF Shrinking, Minters
  <2>3. QED
    BY <2>1, <2>2 DEF OneHolderPerFamily
<1>4. ParentIsSpent'
  <2>1. \A t \in Token : parent[t] # None => parent[t] \in Token
    BY DEF TypeOK
  <2>2. QED
    BY <2>1 DEF Shrinking, ParentIsSpent
<1>5. OneChildPerToken'
  BY DEF Shrinking, OneChildPerToken
<1>6. QED
  BY <1>2, <1>3, <1>4, <1>5

\* Every step but three takes nothing but records away.
LEMMA ShrinkingCases ==
  ASSUME IInv, [Next]_vars
  PROVE  \/ \E c \in Calls, u \in Users : StartIssue(c, u)
         \/ \E c \in Calls : CreateRefreshToken(c) \/ MarkWon(c)
         \/ Shrinking
<1> TypeOK
  BY DEF IInv
<1> USE DEF Shrinking, Minting, storeVars, callVars, history, Goto, Answer
<1>1. ASSUME NEW c \in Calls, NEW t \in Token, StartRotate(c, t)
      PROVE  Shrinking
  BY <1>1 DEF StartRotate, TypeOK
<1>2. ASSUME NEW c \in Calls, FindRefreshToken(c)
      PROVE  Shrinking
  BY <1>2 DEF FindRefreshToken, TypeOK
<1>3. ASSUME NEW c \in Calls, CheckExpiry(c)
      PROVE  Shrinking
  <2>1. CASE now >= expires[presented[c]]
    BY <1>3, <2>1 DEF CheckExpiry, TypeOK
  <2>2. CASE ~(now >= expires[presented[c]])
    BY <1>3, <2>2 DEF CheckExpiry, TypeOK
  <2>3. QED
    BY <2>1, <2>2
<1>4. ASSUME NEW c \in Calls, MarkLost(c)
      PROVE  Shrinking
  BY <1>4 DEF MarkLost, TypeOK
<1>5. ASSUME NEW c \in Calls, RevokeReused(c) \/ RevokeOrphan(c)
      PROVE  Shrinking
  BY <1>5, DeleteFacts DEF RevokeReused, RevokeOrphan, TypeOK
<1>6. ASSUME NEW c \in Calls, FindUser(c)
      PROVE  Shrinking
  BY <1>6 DEF FindUser, TypeOK
<1>7. ASSUME NEW c \in Calls, Fail(c) \/ Return(c)
      PROVE  Shrinking
  BY <1>7 DEF Fail, Return, TypeOK, Outcome, Waiting
<1>8. Housekeeping => Shrinking
  BY DEF Housekeeping
<1>9. QED
  BY <1>1, <1>2, <1>3, <1>4, <1>5, <1>6, <1>7, <1>8, NextCases DEF Step

\* Generating a token touches no record.  What it needs to know of the token
\* is that nothing was ever said of it.
LEMMA NewToken ==
  ASSUME IInv, NEW c \in Calls, NEW u, NEW f, NEW from, Generate(c, u, f, from)
  PROVE  /\ fresh'[c] \in Token /\ fresh'[c] = minted + 1 /\ fresh'[c] # None
         /\ status[fresh'[c]] = "absent"
         /\ \A s \in Token : parent[s] # fresh'[c]
         /\ \A d \in Calls : d # c => fresh'[d] = fresh[d]
         /\ \A d \in Calls : fresh[d] # fresh'[c]
         /\ \A t \in Token : t # fresh'[c] =>
                 family'[t] = family[t] /\ parent'[t] = parent[t]
         /\ family'[fresh'[c]] = f
         /\ parent'[fresh'[c]] = from
<1> TypeOK /\ Numbering /\ CallsReady
  BY DEF IInv
<1>1. minted \in Nat /\ minted + 1 \in Token
  BY ConstantsAssumption DEF Generate, TypeOK, Token
<1>2. fresh'[c] = minted + 1 /\ \A d \in Calls : d # c => fresh'[d] = fresh[d]
  BY DEF Generate, TypeOK
<1>3. status[minted + 1] = "absent"
  BY <1>1 DEF Numbering
<1>4. \A s \in Token : parent[s] # minted + 1
  BY <1>1 DEF Numbering, TypeOK, Token, None
<1>5. \A d \in Calls : fresh[d] # minted + 1
  BY <1>1 DEF CallsReady, TypeOK, Token, None
<1>6. /\ \A t \in Token : t # minted + 1 =>
                family'[t] = family[t] /\ parent'[t] = parent[t]
      /\ family'[minted + 1] = f
      /\ parent'[minted + 1] = from
  BY <1>1 DEF Generate, TypeOK
<1>7. minted + 1 # None
  BY <1>1 DEF None
<1>8. QED
  BY <1>1, <1>2, <1>3, <1>4, <1>5, <1>6, <1>7

\* A new login has a family of its own, so it cannot be a second holder.
LEMMA StartIssueKeeps ==
  ASSUME IInv, NEW c \in Calls, NEW u \in Users, StartIssue(c, u)
  PROVE  PendingIsNew' /\ OneHolderPerFamily' /\ ParentIsSpent' /\ OneChildPerToken'
<1> TypeOK /\ PendingIsNew /\ OneHolderPerFamily /\ ParentIsSpent /\ OneChildPerToken
  BY DEF IInv
<1> DEFINE new == fresh'[c]
<1>1. /\ new \in Token /\ new # None /\ status[new] = "absent"
      /\ \A s \in Token : parent[s] # new
      /\ \A d \in Calls : d # c => fresh'[d] = fresh[d] /\ fresh[d] # new
      /\ \A t \in Token : t # new => family'[t] = family[t] /\ parent'[t] = parent[t]
      /\ family'[new] = new /\ parent'[new] = None
  BY NewToken DEF StartIssue
<1>2. /\ status' = status
      /\ Minting(c)'
      /\ \A d \in Calls : d # c => Minting(d)' = Minting(d)
  BY DEF StartIssue, Goto, Minting, TypeOK
<1>3. \A t \in Token : family[t] # new
  <2>1. minted \in Nat /\ new = minted + 1
    BY NewToken, ConstantsAssumption DEF StartIssue, TypeOK
  <2>2. \A t \in Token : family[t] <= minted
    BY <2>1, ConstantsAssumption DEF IInv, Numbering, TypeOK, Token, None
  <2>3. QED
    BY <2>1, <2>2, ConstantsAssumption DEF TypeOK, Token, None
<1>4. \A d \in Calls : d # c /\ Minting(d) => fresh[d] \in Token
  BY CallFacts DEF Minting
<1>5. PendingIsNew'
  BY <1>1, <1>2, <1>4 DEF PendingIsNew
<1>6. OneHolderPerFamily'
  <2> SUFFICES ASSUME NEW f \in Token
               PROVE  /\ \A s, t \in Active(f)' : s = t
                      /\ \A d, e \in Minters(f)' : d = e
                      /\ Active(f)' = {} \/ Minters(f)' = {}
    BY DEF OneHolderPerFamily
  <2>1. CASE f = new
    <3>1. Active(f)' = {}
      BY <1>1, <1>2, <1>3, <2>1 DEF Active, InFamily, Stored
    <3>2. Minters(f)' \subseteq {c}
      BY <1>1, <1>2, <1>3, <1>4, <2>1 DEF Minters
    <3>3. QED
      BY <3>1, <3>2
  <2>2. CASE f # new
    <3>1. Active(f)' \subseteq Active(f)
      BY <1>1, <1>2, <2>2 DEF Active, InFamily, Stored
    <3>2. Minters(f)' \subseteq Minters(f)
      BY <1>1, <1>2, <1>4, <2>2 DEF Minters
    <3>3. QED
      BY <3>1, <3>2 DEF OneHolderPerFamily
  <2>3. QED
    BY <2>1, <2>2
<1>7. ParentIsSpent'
  BY <1>1, <1>2 DEF ParentIsSpent
<1>8. OneChildPerToken'
  BY <1>1 DEF OneChildPerToken
<1>9. QED
  BY <1>5, <1>6, <1>7, <1>8

\* The winner takes the place of the active record it marked used.
LEMMA MarkWonKeeps ==
  ASSUME IInv, NEW c \in Calls, MarkWon(c)
  PROVE  PendingIsNew' /\ OneHolderPerFamily' /\ ParentIsSpent' /\ OneChildPerToken'
<1> TypeOK /\ PendingIsNew /\ OneHolderPerFamily /\ ParentIsSpent /\ OneChildPerToken
  BY DEF IInv
<1> DEFINE new == fresh'[c]
           old == presented[c]
<1>1. /\ new \in Token /\ new # None /\ status[new] = "absent"
      /\ \A s \in Token : parent[s] # new
      /\ \A d \in Calls : d # c => fresh'[d] = fresh[d] /\ fresh[d] # new
      /\ \A t \in Token : t # new => family'[t] = family[t] /\ parent'[t] = parent[t]
      /\ family'[new] = family[old] /\ parent'[new] = old
  BY NewToken DEF MarkWon
<1>2. old \in Token /\ old # None /\ family[old] \in Token
  BY CallFacts, TokenFacts DEF MarkWon, TypeOK, Token, None
<1>3. /\ status[old] = "active" /\ status'[old] = "used"
      /\ \A t \in Token : t # old => status'[t] = status[t]
      /\ old # new
      /\ ~Minting(c) /\ Minting(c)'
      /\ \A d \in Calls : d # c => Minting(d)' = Minting(d)
  BY <1>1, <1>2 DEF MarkWon, Goto, Minting, TypeOK
<1>4. \A d \in Calls : Minting(d) => fresh[d] \in Token /\ fresh[d] # old
  BY <1>3, CallFacts DEF Minting, PendingIsNew
<1>5. PendingIsNew'
  BY <1>1, <1>3, <1>4 DEF PendingIsNew
<1>6. OneHolderPerFamily'
  <2> SUFFICES ASSUME NEW f \in Token
               PROVE  /\ \A s, t \in Active(f)' : s = t
                      /\ \A d, e \in Minters(f)' : d = e
                      /\ Active(f)' = {} \/ Minters(f)' = {}
    BY DEF OneHolderPerFamily
  <2>1. CASE f = family[old]
    <3>1. old \in Active(f)
      BY <1>2, <1>3, <2>1 DEF Active, InFamily, Stored
    <3>2. Minters(f) = {} /\ \A t \in Active(f) : t = old
      BY <3>1 DEF OneHolderPerFamily
    <3>3. Active(f)' = {}
      BY <1>1, <1>3, <3>2 DEF Active, InFamily, Stored
    <3>4. Minters(f)' \subseteq {c}
      BY <1>1, <1>3, <1>4, <3>2 DEF Minters
    <3>5. QED
      BY <3>3, <3>4
  <2>2. CASE f # family[old]
    <3>1. Active(f)' \subseteq Active(f)
      BY <1>1, <1>3, <2>2 DEF Active, InFamily, Stored
    <3>2. Minters(f)' \subseteq Minters(f)
      BY <1>1, <1>3, <1>4, <2>2 DEF Minters
    <3>3. QED
      BY <3>1, <3>2 DEF OneHolderPerFamily
  <2>3. QED
    BY <2>1, <2>2
<1>7. ParentIsSpent'
  <2> SUFFICES ASSUME NEW s \in Token, parent'[s] # None
               PROVE  /\ status'[parent'[s]] # "active"
                      /\ \A d \in Calls : Minting(d)' => fresh'[d] # parent'[s]
    BY DEF ParentIsSpent
  <2>1. CASE s = new
    BY <1>1, <1>3, <1>4, <2>1
  <2>2. CASE s # new
    <3>1. parent'[s] = parent[s] /\ parent[s] \in Token /\ parent[s] # new
      BY <1>1, <2>2 DEF TypeOK
    <3>2. /\ status[parent[s]] # "active"
          /\ \A d \in Calls : Minting(d) => fresh[d] # parent[s]
      BY <3>1 DEF ParentIsSpent
    <3>3. QED
      BY <1>1, <1>3, <3>1, <3>2
  <2>3. QED
    BY <2>1, <2>2
<1>8. \A s \in Token : parent[s] # old
  BY <1>2, <1>3 DEF ParentIsSpent
<1>9. OneChildPerToken'
  BY <1>1, <1>8 DEF OneChildPerToken
<1>10. QED
  BY <1>5, <1>6, <1>7, <1>9

\* The minter is replaced by the record it stores.
LEMMA CreateKeeps ==
  ASSUME IInv, NEW c \in Calls, CreateRefreshToken(c)
  PROVE  PendingIsNew' /\ OneHolderPerFamily' /\ ParentIsSpent' /\ OneChildPerToken'
<1> TypeOK /\ PendingIsNew /\ OneHolderPerFamily /\ ParentIsSpent /\ OneChildPerToken
  BY DEF IInv
<1> DEFINE new == fresh[c]
<1>1. Minting(c) /\ new \in Token
  BY CallFacts DEF CreateRefreshToken, Minting
<1>2. /\ status'[new] = "active"
      /\ \A t \in Token : t # new => status'[t] = status[t]
      /\ family' = family /\ parent' = parent
      /\ ~Minting(c)'
      /\ \A d \in Calls : d # c => Minting(d)' = Minting(d) /\ fresh'[d] = fresh[d]
  BY <1>1 DEF CreateRefreshToken, Goto, Answer, Minting, TypeOK, history
<1>3. \A d \in Calls : d # c /\ Minting(d) => fresh[d] \in Token /\ fresh[d] # new
  BY <1>1, CallFacts DEF Minting, PendingIsNew
<1>4. PendingIsNew'
  BY <1>2, <1>3 DEF PendingIsNew
<1>5. OneHolderPerFamily'
  <2> SUFFICES ASSUME NEW f \in Token
               PROVE  /\ \A s, t \in Active(f)' : s = t
                      /\ \A d, e \in Minters(f)' : d = e
                      /\ Active(f)' = {} \/ Minters(f)' = {}
    BY DEF OneHolderPerFamily
  <2>1. Minters(f)' \subseteq Minters(f) \ {c}
    BY <1>2 DEF Minters
  <2>2. CASE f = family[new]
    <3>1. c \in Minters(f)
      BY <1>1, <2>2 DEF Minters
    <3>2. Active(f) = {} /\ Minters(f)' = {}
      BY <2>1, <3>1 DEF OneHolderPerFamily
    <3>3. Active(f)' \subseteq {new}
      BY <1>2, <3>2 DEF Active, InFamily, Stored
    <3>4. QED
      BY <3>2, <3>3
  <2>3. CASE f # family[new]
    <3>1. Active(f)' \subseteq Active(f)
      BY <1>2, <2>3 DEF Active, InFamily, Stored
    <3>2. QED
      BY <2>1, <3>1 DEF OneHolderPerFamily
  <2>4. QED
    BY <2>2, <2>3
<1>6. ParentIsSpent'
  <2>1. \A s \in Token : parent[s] # None => parent[s] # new
    BY <1>1 DEF ParentIsSpent
  <2>2. \A s \in Token : parent[s] # None => parent[s] \in Token
    BY DEF TypeOK
  <2>3. QED
    BY <1>2, <2>1, <2>2 DEF ParentIsSpent
<1>7. OneChildPerToken'
  BY <1>2 DEF OneChildPerToken
<1>8. QED
  BY <1>4, <1>5, <1>6, <1>7

-----------------------------------------------------------------------------
(* Safety.                                                                 *)

\* IInv holds in every reachable state.
THEOREM Invariance == Spec => []IInv
<1>1. IInv /\ [Next]_vars => IInv'
  <2> SUFFICES ASSUME IInv, [Next]_vars
               PROVE  IInv'
    OBVIOUS
  <2>1. TypeOK' /\ Numbering' /\ CallsReady'
    BY TypeStep, NumberingStep, CallsReadyStep
  <2>2. PendingIsNew' /\ OneHolderPerFamily' /\ ParentIsSpent' /\ OneChildPerToken'
    BY ShrinkingCases, ShrinkingKeeps, StartIssueKeeps, MarkWonKeeps, CreateKeeps
  <2>3. QED
    BY <2>1, <2>2 DEF IInv
<1>2. QED
  BY InitIInv, <1>1, PTL DEF Spec

\* Every variable keeps its type, for any number of calls, users and tokens.
THEOREM TypeCorrect == Spec => []TypeOK
<1>1. IInv => TypeOK
  BY DEF IInv
<1>2. QED
  BY Invariance, <1>1, PTL

\* rotate (refresh-token.ts:76-149) gives the right to continue a family to one
\* holder at a time, with any number of concurrent calls and any failures.
THEOREM OneHolder == Spec => []OneHolderPerFamily
<1>1. IInv => OneHolderPerFamily
  BY DEF IInv
<1>2. QED
  BY Invariance, <1>1, PTL

\* No token is ever exchanged twice (markRefreshTokenUsed, refresh-token.ts:107).
THEOREM OneChild == Spec => []OneChildPerToken
<1>1. IInv => OneChildPerToken
  BY DEF IInv
<1>2. QED
  BY Invariance, <1>1, PTL

-----------------------------------------------------------------------------
(* Refinement of RotationChain.                                            *)

\* The phase of a family and its head, read off the state one family at a time.
LEMMA ChainState ==
  ASSUME NEW f \in Token
  PROVE  /\ chainPhase[f] = IF ~Opened(f) THEN "unopened"
                            ELSE IF Minters(f) # {} THEN "minting"
                            ELSE IF Active(f) # {} THEN "live" ELSE "dead"
         /\ chainHead[f] = IF Active(f) = {} THEN None ELSE CHOOSE t \in Active(f) : TRUE
BY DEF chainPhase, chainHead, Head

\* The empty store is a store of unopened chains.
LEMMA ChainInitial == Init => Chain!ChainInit
<1> SUFFICES ASSUME Init
             PROVE  Chain!ChainInit
  OBVIOUS
<1>1. \A f \in Token : ~Opened(f) /\ Active(f) = {}
  BY DEF Init, Opened, Active, InFamily, Stored, Token, None
<1>2. chainPhase = [f \in Token |-> "unopened"] /\ chainHead = [f \in Token |-> None]
  BY <1>1 DEF chainPhase, chainHead, Head
<1>3. chainSpent = {}
  BY DEF Init, chainSpent, Token, None
<1>4. QED
  BY <1>2, <1>3 DEF Chain!ChainInit

\* Taking records away and giving up mints closes families, or does nothing.
LEMMA ShrinkingCloses ==
  ASSUME IInv, Shrinking
  PROVE  \E F \in SUBSET Token : Chain!Close(F)
<1> TypeOK /\ OneHolderPerFamily
  BY DEF IInv
<1> DEFINE F == {f \in Token : chainPhase[f] \in {"live", "minting"}
                                  /\ chainPhase'[f] = "dead"}
<1>1. \A f \in Token : /\ Opened(f)' = Opened(f)
                       /\ Active(f)' \subseteq Active(f)
                       /\ Minters(f)' \subseteq Minters(f)
                       /\ Active(f) # {} => \E t \in Token : Active(f) = {t}
                       /\ Active(f) = {} \/ Minters(f) = {}
                       /\ ~Opened(f) => Active(f) = {} /\ Minters(f) = {}
  <2> SUFFICES ASSUME NEW f \in Token
               PROVE  /\ Opened(f)' = Opened(f)
                      /\ Active(f)' \subseteq Active(f)
                      /\ Minters(f)' \subseteq Minters(f)
                      /\ Active(f) # {} => \E t \in Token : Active(f) = {t}
                      /\ Active(f) = {} \/ Minters(f) = {}
                      /\ ~Opened(f) => Active(f) = {} /\ Minters(f) = {}
    OBVIOUS
  <2>1. Opened(f)' = Opened(f)
    BY DEF Shrinking, Opened
  <2>2. Active(f)' \subseteq Active(f) /\ Minters(f)' \subseteq Minters(f)
    BY DEF Shrinking, Active, InFamily, Stored, Minters
  <2>3. Active(f) # {} => \E t \in Token : Active(f) = {t}
    BY DEF OneHolderPerFamily, Active, InFamily
  <2>4. Active(f) = {} \/ Minters(f) = {}
    BY DEF OneHolderPerFamily
  <2>5. ~Opened(f) => Active(f) = {} /\ Minters(f) = {}
    BY CallFacts DEF Opened, Active, InFamily, Minters, Minting
  <2>6. QED
    BY <2>1, <2>2, <2>3, <2>4, <2>5
<1>2. ASSUME NEW f \in Token
      PROVE  /\ chainPhase'[f] = IF f \in F THEN "dead" ELSE chainPhase[f]
             /\ chainHead'[f] = IF f \in F THEN None ELSE chainHead[f]
  <2>1. /\ chainPhase'[f] = IF ~Opened(f)' THEN "unopened"
                            ELSE IF Minters(f)' # {} THEN "minting"
                            ELSE IF Active(f)' # {} THEN "live" ELSE "dead"
        /\ chainHead'[f] = IF Active(f)' = {} THEN None ELSE CHOOSE t \in Active(f)' : TRUE
    BY DEF chainPhase, chainHead, Head
  <2>2. Active(f)' = Active(f) \/ Active(f)' = {}
    BY <1>1
  <2>3. QED
    BY <1>1, <2>1, <2>2, ChainState
<1>3. /\ chainPhase' = [f \in Token |-> IF f \in F THEN "dead" ELSE chainPhase[f]]
      /\ chainHead' = [f \in Token |-> IF f \in F THEN None ELSE chainHead[f]]
  BY <1>2 DEF chainPhase, chainHead
<1>4. chainSpent' = chainSpent
  BY DEF Shrinking, chainSpent
<1>5. Chain!Close(F)
  BY <1>3, <1>4 DEF Chain!Close
<1>6. QED
  BY <1>5

\* A login opens the chain of its family and touches no other.
LEMMA StartIssueOpens ==
  ASSUME IInv, NEW c \in Calls, NEW u \in Users, StartIssue(c, u)
  PROVE  \E f \in Token : Chain!Open(f)
<1> TypeOK /\ Numbering
  BY DEF IInv
<1>1. PICK new \in Token :
      /\ new = fresh'[c] /\ new # None /\ status[new] = "absent"
      /\ \A s \in Token : parent[s] # new
      /\ \A d \in Calls : d # c => fresh'[d] = fresh[d] /\ fresh[d] # new
      /\ \A t \in Token : t # new => family'[t] = family[t] /\ parent'[t] = parent[t]
      /\ family'[new] = new /\ parent'[new] = None
  BY NewToken DEF StartIssue
<1>2. /\ status' = status
      /\ Minting(c)' /\ ~Minting(c)
      /\ \A d \in Calls : d # c => Minting(d)' = Minting(d)
  BY DEF StartIssue, Goto, Minting, TypeOK
<1>3. new = minted + 1 /\ minted \in Nat
  BY <1>1, NewToken, ConstantsAssumption DEF StartIssue, TypeOK
<1>4. (\A t \in Token : family[t] # new) /\ family[new] = None /\ parent[new] = None
  <2>1. \A t \in Token : family[t] <= minted
    BY <1>3, ConstantsAssumption DEF Numbering, TypeOK, Token, None
  <2>2. QED
    BY <1>1, <1>3, <2>1, ConstantsAssumption DEF Numbering, TypeOK, Token, None
<1>5. \A d \in Calls : Minting(d) => d # c /\ fresh[d] \in Token
  BY <1>2, CallFacts DEF Minting
<1>6. ASSUME NEW f \in Token, f # new
      PROVE  Opened(f)' = Opened(f) /\ Active(f)' = Active(f) /\ Minters(f)' = Minters(f)
  <2>1. Opened(f)' = Opened(f)
    BY <1>1, <1>4, <1>6 DEF Opened, Token, None
  <2>2. Active(f)' = Active(f)
    BY <1>1, <1>2, <1>6 DEF Active, InFamily, Stored
  <2>3. Minters(f)' = Minters(f)
    BY <1>1, <1>2, <1>5, <1>6 DEF Minters
  <2>4. QED
    BY <2>1, <2>2, <2>3
<1>7. /\ ~Opened(new) /\ Opened(new)'
      /\ c \in Minters(new)'
      /\ Active(new) = {} /\ Active(new)' = {}
  BY <1>1, <1>2, <1>4 DEF Opened, Minters, Active, InFamily, Stored
<1>8. chainPhase[new] = "unopened"
  BY <1>1, <1>7, ChainState
<1>9. chainPhase' = [chainPhase EXCEPT ![new] = "minting"]
  BY <1>1, <1>6, <1>7, ZenonT(30) DEF chainPhase
<1>10. chainHead' = chainHead
  <2>1. ASSUME NEW f \in Token
        PROVE  Head(f)' = Head(f)
    <3>1. Active(f)' = Active(f)
      BY <1>6, <1>7
    <3>2. QED
      BY <3>1 DEF Head
  <2>2. QED
    BY <2>1 DEF chainHead
<1>11. chainSpent' = chainSpent
  BY <1>1, <1>4 DEF chainSpent, Token, None
<1>12. Chain!Open(new)
  BY <1>8, <1>9, <1>10, <1>11 DEF Chain!Open
<1>13. QED
  BY <1>1, <1>12

\* Winning the update spends the head of the family.
LEMMA MarkWonSpends ==
  ASSUME IInv, NEW c \in Calls, MarkWon(c)
  PROVE  \E f \in Token : Chain!Spend(f)
<1> TypeOK /\ Numbering /\ PendingIsNew /\ OneHolderPerFamily
  BY DEF IInv
<1>1. PICK old \in Token, fam \in Token :
         old = presented[c] /\ fam = family[old] /\ old # None
  BY CallFacts, TokenFacts DEF MarkWon, TypeOK, Token, None
<1>2. PICK new \in Token :
      /\ new = fresh'[c] /\ new # None /\ status[new] = "absent"
      /\ \A s \in Token : parent[s] # new
      /\ \A d \in Calls : d # c => fresh'[d] = fresh[d] /\ fresh[d] # new
      /\ \A t \in Token : t # new => family'[t] = family[t] /\ parent'[t] = parent[t]
      /\ family'[new] = fam /\ parent'[new] = old
  BY <1>1, NewToken DEF MarkWon
<1>3. /\ status[old] = "active" /\ status'[old] = "used"
      /\ \A t \in Token : t # old => status'[t] = status[t]
      /\ old # new
      /\ ~Minting(c) /\ Minting(c)'
      /\ \A d \in Calls : d # c => Minting(d)' = Minting(d)
  BY <1>1, <1>2 DEF MarkWon, Goto, Minting, TypeOK
<1>4. \A d \in Calls : Minting(d) => d # c /\ fresh[d] \in Token
  BY <1>3, CallFacts DEF Minting
<1>5. family[new] = None /\ parent[new] = None
  <2>1. new = minted + 1 /\ minted \in Nat
    BY <1>2, NewToken, ConstantsAssumption DEF MarkWon, TypeOK
  <2>2. QED
    BY <1>2, <2>1 DEF Numbering, TypeOK, Token
<1>6. Active(fam) = {old} /\ Minters(fam) = {}
  BY <1>1, <1>2, <1>3 DEF OneHolderPerFamily, Active, InFamily, Stored
<1>7. ASSUME NEW f \in Token, f # fam
      PROVE  Opened(f)' = Opened(f) /\ Active(f)' = Active(f) /\ Minters(f)' = Minters(f)
  <2>1. Opened(f)' = Opened(f)
    BY <1>1, <1>2, <1>5, <1>7 DEF Opened, Token, None
  <2>2. Active(f)' = Active(f)
    BY <1>1, <1>2, <1>3, <1>7 DEF Active, InFamily, Stored
  <2>3. Minters(f)' = Minters(f)
    BY <1>1, <1>2, <1>3, <1>4, <1>7 DEF Minters
  <2>4. QED
    BY <2>1, <2>2, <2>3
<1>8. Opened(fam) /\ Opened(fam)' /\ c \in Minters(fam)' /\ Active(fam)' = {}
  <2>1. Opened(fam) /\ Opened(fam)' /\ c \in Minters(fam)'
    BY <1>1, <1>2, <1>3 DEF Opened, Minters
  <2>2. Active(fam)' = {}
    BY <1>1, <1>2, <1>3, <1>6 DEF Active, InFamily, Stored
  <2>3. QED
    BY <2>1, <2>2
<1>9. chainPhase[fam] = "live" /\ chainHead[fam] = old
  BY <1>1, <1>2, <1>6, <1>8, ChainState
<1>10. chainPhase' = [chainPhase EXCEPT ![fam] = "minting"]
  BY <1>1, <1>2, <1>7, <1>8, ZenonT(30) DEF chainPhase
<1>11. chainHead' = [chainHead EXCEPT ![fam] = None]
  <2>1. ASSUME NEW f \in Token, f # fam
        PROVE  Head(f)' = Head(f)
    <3>1. Active(f)' = Active(f)
      BY <1>7, <2>1
    <3>2. QED
      BY <3>1 DEF Head
  <2>2. Head(fam)' = None
    BY <1>8 DEF Head
  <2>3. QED
    BY <2>1, <2>2 DEF chainHead
<1>12. chainSpent' = chainSpent \cup {old}
  BY <1>1, <1>2, <1>5 DEF chainSpent, Token, None
<1>13. Chain!Spend(fam)
  BY <1>9, <1>10, <1>11, <1>12 DEF Chain!Spend
<1>14. QED
  BY <1>1, <1>2, <1>13

\* Storing the successor extends the chain of its family.
LEMMA CreateExtends ==
  ASSUME IInv, NEW c \in Calls, CreateRefreshToken(c)
  PROVE  \E f \in Token, t \in Token : Chain!Extend(f, t)
<1> TypeOK /\ Numbering /\ PendingIsNew /\ OneHolderPerFamily /\ ParentIsSpent
  BY DEF IInv
<1>1. PICK new \in Token :
         new = fresh[c] /\ Minting(c) /\ new <= minted /\ status[new] = "absent"
  BY CallFacts DEF CreateRefreshToken, Minting, PendingIsNew
<1>2. PICK fam \in Token : fam = family[new] /\ new # None
  BY <1>1, ConstantsAssumption DEF Numbering, TypeOK, Token, None
<1>3. /\ status'[new] = "active"
      /\ \A t \in Token : t # new => status'[t] = status[t]
      /\ family' = family /\ parent' = parent
      /\ ~Minting(c)'
      /\ \A d \in Calls : d # c => Minting(d)' = Minting(d) /\ fresh'[d] = fresh[d]
  BY <1>1 DEF CreateRefreshToken, Goto, Answer, Minting, TypeOK, history
<1>4. Active(fam) = {} /\ Minters(fam) = {c}
  BY <1>1, <1>2 DEF OneHolderPerFamily, Minters
<1>5. ASSUME NEW f \in Token, f # fam
      PROVE  Active(f)' = Active(f) /\ Minters(f)' = Minters(f)
  BY <1>1, <1>2, <1>3, <1>5 DEF Active, InFamily, Stored, Minters
<1>6. Active(fam)' = {new} /\ Minters(fam)' = {}
  BY <1>1, <1>2, <1>3, <1>4 DEF Active, InFamily, Stored, Minters
<1>7. \A f \in Token : Opened(f)' = Opened(f)
  BY <1>3 DEF Opened
<1>8. Opened(fam)
  BY <1>1, <1>2 DEF Opened
<1>9. chainPhase[fam] = "minting"
  BY <1>2, <1>4, <1>8, ChainState
<1>10. chainPhase' = [chainPhase EXCEPT ![fam] = "live"]
  BY <1>2, <1>5, <1>6, <1>7, <1>8 DEF chainPhase
<1>11. chainHead' = [chainHead EXCEPT ![fam] = new]
  <2>1. ASSUME NEW f \in Token, f # fam
        PROVE  Head(f)' = Head(f)
    <3>1. Active(f)' = Active(f)
      BY <1>5, <2>1
    <3>2. QED
      BY <3>1 DEF Head
  <2>2. Head(fam)' = new
    BY <1>6 DEF Head
  <2>3. QED
    BY <2>1, <2>2 DEF chainHead
<1>12. chainSpent' = chainSpent
  BY <1>3 DEF chainSpent
<1>13. new \notin chainSpent
  BY <1>1, <1>2 DEF chainSpent, ParentIsSpent
<1>14. \A g \in Token : chainHead[g] # new
  <2>1. \A g \in Token : Active(g) # {} => (CHOOSE t \in Active(g) : TRUE) \in Active(g)
    OBVIOUS
  <2>2. \A g \in Token : new \notin Active(g)
    BY <1>1 DEF Active, InFamily, Stored
  <2>3. QED
    BY <1>2, <2>1, <2>2, ChainState
<1>15. Chain!Extend(fam, new)
  BY <1>9, <1>10, <1>11, <1>12, <1>13, <1>14 DEF Chain!Extend
<1>16. QED
  BY <1>1, <1>2, <1>15

\* The engine implements the rotation chain: every step of every call is one
\* step of the chain of its family, or closes families, or changes no chain.
THEOREM ChainImplemented == Spec => RefinesChain
<1>1. IInv /\ [Next]_vars => [Chain!ChainNext]_(Chain!chainVars)
  <2> SUFFICES ASSUME IInv, [Next]_vars
               PROVE  Chain!ChainNext
    BY DEF Chain!chainVars
  <2>1. QED
    BY ShrinkingCases, ShrinkingCloses, StartIssueOpens, MarkWonSpends, CreateExtends
       DEF Chain!ChainNext
<1>2. QED
  BY Invariance, ChainInitial, <1>1, PTL DEF Spec, RefinesChain, Chain!ChainSpec

-----------------------------------------------------------------------------
(***************************************************************************)
(* Who is accused, who is cut off and what is forgotten: the properties    *)
(* that speak of causes.  They need more than the invariant above: the     *)
(* tokens of a family form a line, and what a client presents first is its *)
(* end.                                                                    *)
(***************************************************************************)

Asking  == {"find", "expiry", "mark"}
Keeping == {"mint", "user", "orphan"}

HasChild(t) == \E s \in Token : parent[s] = t

\* A family is a line: one token at most has no successor yet.
OneTip ==
  \A s, t \in 1..minted :
    family[s] = family[t] /\ ~HasChild(s) /\ ~HasChild(t) => s = t

\* A family belongs to one user.
OneOwner ==
  \A s, t \in 1..minted : family[s] = family[t] => owner[s] = owner[t]

\* A token is shown before it is exchanged, and handed out before it is shown.
ShownFits ==
  /\ shown \subseteq handed
  /\ \A c \in Calls : presented[c] # None \/ pc[c] = "refresh-token-reused"
                        => presented[c] \in shown
  /\ \A s \in Token : parent[s] # None => parent[s] \in shown

\* Two calls with one token have disturbed its family.
OnePresents ==
  \A c, d \in Calls :
    presented[c] # None /\ presented[c] = presented[d] =>
      c = d \/ family[presented[c]] \in disturbed

\* A call keeps the successor to itself until it hands it out.
FreshIsKept ==
  /\ \A c \in Calls : pc[c] \in Keeping => fresh[c] \notin handed
  /\ \A c, d \in Calls :
       pc[c] \in Keeping /\ pc[d] \in Keeping /\ fresh[c] = fresh[d] => c = d

\* A call asks, and a call accuses, with the end of the line of its family,
\* unless that family is disturbed.
PresentedIsTip ==
  \A c \in Calls :
    pc[c] \in Asking \cup {"revoke"} /\ HasChild(presented[c])
      => family[presented[c]] \in disturbed

\* A token that works, or that has a reason not to.
Good(t) == status[t] = "active" \/ now >= expires[t] \/ family[t] \in disturbed

\* What a client or a call has not spent yet can still be spent.
TokensGood ==
  /\ \A t \in handed \ shown : Good(t)
  /\ \A c \in Calls : pc[c] \in Asking => Good(presented[c])
  /\ \A c \in Calls : pc[c] \in {"user", "orphan"} => Good(fresh[c])

\* Only a store that reports the transition keeps alarms from going off.
AlarmFits == ConditionalMark => AlarmHasCause

\* All of it holds together with IInv.
Causes ==
  /\ OneTip
  /\ OneOwner
  /\ ShownFits
  /\ OnePresents
  /\ FreshIsKept
  /\ PresentedIsTip
  /\ TokensGood
  /\ AlarmFits

-----------------------------------------------------------------------------
LEMMA InitCauses == Init => Causes
<1> SUFFICES ASSUME Init
             PROVE  Causes
  OBVIOUS
<1> USE ConstantsAssumption DEF Init, Token, None
<1>1. OneTip /\ OneOwner
  BY DEF OneTip, OneOwner
<1>2. ShownFits /\ OnePresents /\ FreshIsKept
  BY DEF ShownFits, OnePresents, FreshIsKept, Keeping
<1>3. PresentedIsTip /\ TokensGood
  BY DEF PresentedIsTip, TokensGood, Asking
<1>4. AlarmFits
  BY DEF AlarmFits, AlarmHasCause
<1>5. QED
  BY <1>1, <1>2, <1>3, <1>4 DEF Causes

-----------------------------------------------------------------------------
(* What the steps do.                                                      *)

CallAction(c) ==
  \/ \E u \in Users : StartIssue(c, u)
  \/ \E t \in Token : StartRotate(c, t)
  \/ Step(c)
  \/ Fail(c)
  \/ Return(c)

\* Nothing happens to a call.
WorldAction ==
  \/ \E f \in Token : Logout(f)
  \/ \E u \in Users : RevokeAllForUser(u) \/ DeleteUser(u)
  \/ PurgeExpired
  \/ Tick
  \/ UNCHANGED vars

LEMMA StepCases ==
  [Next]_vars => WorldAction \/ \E c \in Calls : CallAction(c)
  BY DEF Next, WorldAction, CallAction

\* A record that is deleted here has expired, or its family is disturbed.
LEMMA WorldFits ==
  ASSUME TypeOK, WorldAction
  PROVE  /\ UNCHANGED <<owner, family, expires, minted, handed, callVars, parent, shown>>
         /\ now <= now' /\ disturbed \subseteq disturbed'
         /\ \A t \in Token : \/ status'[t] = status[t]
                             \/ expires[t] < now
                             \/ family[t] \in disturbed'
<1> USE DEF TypeOK, Sweep, Delete
<1>1. CASE \/ \E f \in Token : Logout(f)
           \/ \E u \in Users : RevokeAllForUser(u) \/ DeleteUser(u)
  BY <1>1 DEF Logout, RevokeAllForUser, DeleteUser
<1>2. CASE PurgeExpired
  BY <1>2 DEF PurgeExpired, Purgeable, history
<1>3. CASE Tick \/ UNCHANGED vars
  BY <1>3 DEF Tick, vars, storeVars, history, callVars
<1>4. QED
  BY <1>1, <1>2, <1>3 DEF WorldAction

\* What happens to one call leaves the others where they are.
LEMMA OtherCalls ==
  ASSUME TypeOK, NEW c \in Calls, NEW d \in Calls, d # c, CallAction(c)
  PROVE  pc'[d] = pc[d] /\ presented'[d] = presented[d] /\ fresh'[d] = fresh[d]
<1> USE DEF TypeOK, Goto, Answer
<1>1. CASE \/ \E u \in Users : StartIssue(c, u)
           \/ \E t \in Token : StartRotate(c, t)
  BY <1>1 DEF StartIssue, StartRotate, Generate
<1>2. CASE Step(c)
  BY <1>2 DEF Step, CreateRefreshToken, FindRefreshToken, CheckExpiry, MarkWon, MarkLost,
              RevokeReused, FindUser, RevokeOrphan, Generate
<1>3. CASE Fail(c) \/ Return(c)
  BY <1>3 DEF Fail, Return
<1>4. QED
  BY <1>1, <1>2, <1>3 DEF CallAction

\* What is generated is the token after the last one.
LEMMA GenerateFits ==
  ASSUME TypeOK, NEW c \in Calls, NEW u, NEW f, NEW from, Generate(c, u, f, from)
  PROVE  /\ minted' = minted + 1 /\ minted + 1 \in Token /\ minted \in Nat
         /\ fresh'[c] = minted + 1
         /\ owner'[minted + 1] = u /\ family'[minted + 1] = f /\ parent'[minted + 1] = from
         /\ \A t \in Token \ {minted + 1} :
              /\ owner'[t] = owner[t] /\ family'[t] = family[t]
              /\ parent'[t] = parent[t] /\ expires'[t] = expires[t]
<1>1. minted' = minted + 1 /\ minted + 1 \in Token /\ minted \in Nat
  BY ConstantsAssumption DEF TypeOK, Generate, Token
<1>2. QED
  BY <1>1 DEF TypeOK, Generate

\* What a call does that generates nothing.
LEMMA OtherSteps ==
  ASSUME TypeOK, NEW c \in Calls, CallAction(c), ~MarkWon(c),
         ~(\E u \in Users : StartIssue(c, u))
  PROVE  UNCHANGED <<owner, family, expires, minted, parent, now>>
<1>1. CASE \E t \in Token : StartRotate(c, t)
  BY <1>1 DEF StartRotate, storeVars
<1>2. CASE Step(c)
  BY <1>2 DEF Step, CreateRefreshToken, FindRefreshToken, CheckExpiry, MarkLost, RevokeReused,
              FindUser, RevokeOrphan, storeVars, history
<1>3. CASE Fail(c) \/ Return(c)
  BY <1>3 DEF Fail, Return, storeVars, history
<1>4. QED
  BY <1>1, <1>2, <1>3 DEF CallAction

\* What never goes back; what is known of a token when it is generated stays.
LEMMA Progress ==
  ASSUME IInv, [Next]_vars
  PROVE  /\ minted \in Nat /\ minted' \in Nat /\ minted <= minted' /\ now <= now'
         /\ disturbed \subseteq disturbed' /\ handed \subseteq handed' /\ shown \subseteq shown'
         /\ \A t \in 1..minted : /\ t \in Token /\ family'[t] = family[t]
                                /\ owner'[t] = owner[t] /\ parent'[t] = parent[t]
                                /\ expires'[t] = expires[t]
<1> TypeOK
  BY DEF IInv
<1>1. minted \in Nat /\ now \in Nat /\ \A t \in 1..minted : t \in Token /\ t # minted + 1
  BY ConstantsAssumption DEF TypeOK, Token
<1>2. ASSUME NEW c \in Calls, NEW u \in Users, StartIssue(c, u)
      PROVE  /\ minted' = minted + 1 /\ UNCHANGED <<now, disturbed, handed, shown>>
             /\ \A t \in 1..minted : /\ family'[t] = family[t] /\ owner'[t] = owner[t]
                                    /\ parent'[t] = parent[t] /\ expires'[t] = expires[t]
  BY <1>1, <1>2, GenerateFits DEF StartIssue
<1>3. ASSUME NEW c \in Calls, MarkWon(c)
      PROVE  /\ minted' = minted + 1 /\ UNCHANGED <<now, disturbed, handed, shown>>
             /\ \A t \in 1..minted : /\ family'[t] = family[t] /\ owner'[t] = owner[t]
                                    /\ parent'[t] = parent[t] /\ expires'[t] = expires[t]
  BY <1>1, <1>3, GenerateFits DEF MarkWon
<1>4. ASSUME NEW c \in Calls, CallAction(c), ~MarkWon(c), ~(\E u \in Users : StartIssue(c, u))
      PROVE  disturbed \subseteq disturbed' /\ handed \subseteq handed' /\ shown \subseteq shown'
  <2>1. CASE \E t \in Token : StartRotate(c, t)
    BY <2>1 DEF StartRotate
  <2>2. CASE Step(c)
    BY <1>4, <2>2 DEF Step, CreateRefreshToken, FindRefreshToken, CheckExpiry, MarkLost,
                      RevokeReused, FindUser, RevokeOrphan, history
  <2>3. CASE Fail(c) \/ Return(c)
    BY <2>3 DEF Fail, Return, history
  <2>4. QED
    BY <1>4, <2>1, <2>2, <2>3 DEF CallAction
<1>5. QED
  BY <1>1, <1>2, <1>3, <1>4, OtherSteps, WorldFits, StepCases

-----------------------------------------------------------------------------
(* Where a call comes from.                                                *)

Starts(c) == MarkWon(c) \/ \E u \in Users : StartIssue(c, u)

\* One call, one step of its own.
LEMMA OwnStep ==
  ASSUME TypeOK, NEW c \in Calls, CallAction(c)
  PROVE  /\ presented'[c] \in {presented[c], None} \/ StartRotate(c, presented'[c])
         /\ pc'[c] \in Asking =>
              StartRotate(c, presented'[c]) \/ (pc[c] \in Asking /\ presented'[c] = presented[c])
         /\ pc'[c] = "revoke" =>
              /\ presented'[c] = presented[c]
              /\ (FindRefreshToken(c) /\ status[presented[c]] = "used") \/ MarkLost(c)
         /\ pc'[c] = "refresh-token-reused" => presented'[c] = presented[c] /\ pc[c] = "revoke"
         /\ pc'[c] \in Keeping => \/ pc[c] \in Keeping /\ fresh'[c] = fresh[c]
                                  \/ Starts(c) /\ fresh'[c] = minted + 1
         /\ pc'[c] \in {"user", "orphan"} =>
              /\ fresh'[c] = fresh[c] /\ pc[c] \in Keeping
              /\ pc[c] = "user" \/ (pc[c] = "mint" /\ CreateRefreshToken(c))
<1> USE DEF TypeOK, Goto, Answer, Asking, Keeping, Starts, None
<1>1. CASE \E u \in Users : StartIssue(c, u)
  BY <1>1, GenerateFits DEF StartIssue
<1>2. CASE \E t \in Token : StartRotate(c, t)
  <2> PICK t \in Token : StartRotate(c, t)
    BY <1>2
  <2>1. pc'[c] = "find" /\ presented'[c] = t
    BY DEF StartRotate
  <2>2. QED
    BY <2>1
<1>3. CASE CreateRefreshToken(c)
  BY <1>3 DEF CreateRefreshToken
<1>4. CASE FindRefreshToken(c)
  BY <1>4 DEF FindRefreshToken
<1>5. CASE CheckExpiry(c)
  BY <1>5 DEF CheckExpiry
<1>6. CASE MarkWon(c)
  BY <1>6, GenerateFits DEF MarkWon
<1>7. CASE MarkLost(c)
  BY <1>7 DEF MarkLost
<1>8. CASE RevokeReused(c)
  BY <1>8 DEF RevokeReused
<1>9. CASE FindUser(c)
  BY <1>9 DEF FindUser
<1>10. CASE RevokeOrphan(c)
  BY <1>10 DEF RevokeOrphan
<1>11. CASE Fail(c)
  BY <1>11 DEF Fail, Waiting
<1>12. CASE Return(c)
  BY <1>12 DEF Return
<1>13. QED
  BY <1>1, <1>2, <1>3, <1>4, <1>5, <1>6, <1>7, <1>8, <1>9, <1>10, <1>11, <1>12
     DEF CallAction, Step

\* The same of a call in any step.
LEMMA CallOrigin ==
  ASSUME TypeOK, [Next]_vars, NEW c \in Calls
  PROVE  \/ pc'[c] = pc[c] /\ presented'[c] = presented[c] /\ fresh'[c] = fresh[c]
         \/ CallAction(c)
<1>1. CASE WorldAction
  BY <1>1, WorldFits DEF callVars
<1>2. CASE \E d \in Calls : CallAction(d)
  BY <1>2, OtherCalls
<1>3. QED
  BY <1>1, <1>2, StepCases

\* What becomes known of a token.
LEMMA HandedOrigin ==
  ASSUME TypeOK, [Next]_vars, NEW t, t \in handed' \ handed
  PROVE  \E c \in Calls :
            /\ CallAction(c) /\ t = fresh[c] /\ pc'[c] = "success-jwt"
            /\ UNCHANGED <<shown, disturbed, family, expires, now, minted>>
            /\ \/ CreateRefreshToken(c) /\ pc[c] = "mint"
               \/ pc[c] = "user" /\ UNCHANGED status
<1>1. ~WorldAction
  BY WorldFits
<1>2. PICK c \in Calls : CallAction(c)
  BY <1>1, StepCases
<1>3. CASE CreateRefreshToken(c)
  BY <1>2, <1>3 DEF CreateRefreshToken, Answer, Goto, history, TypeOK
<1>4. CASE FindUser(c)
  BY <1>2, <1>4 DEF FindUser, Answer, Goto, history, storeVars, TypeOK
<1>5. CASE ~CreateRefreshToken(c) /\ ~FindUser(c)
  BY <1>2, <1>5 DEF CallAction, StartIssue, StartRotate, Step, FindRefreshToken, CheckExpiry,
                    MarkWon, MarkLost, RevokeReused, RevokeOrphan, Fail, Return
<1>6. QED
  BY <1>3, <1>4, <1>5

\* A successor is generated by a rotation that won, and by nothing else.
LEMMA ChildOrigin ==
  ASSUME IInv, [Next]_vars, NEW t \in Token
  PROVE  /\ HasChild(t) => HasChild(t)'
         /\ HasChild(t)' => HasChild(t) \/ \E c \in Calls : MarkWon(c) /\ presented[c] = t
<1> TypeOK
  BY DEF IInv
<1>1. ASSUME NEW s \in Token, parent[s] # None
      PROVE  s \in 1..minted /\ parent'[s] = parent[s]
  <2>1. ~(s > minted)
    BY <1>1 DEF IInv, Numbering
  <2>2. s \in 1..minted
    BY <2>1, ConstantsAssumption DEF Token, TypeOK
  <2>3. QED
    BY <2>2, Progress
<1>2. ASSUME NEW s \in Token, parent'[s] # parent[s], parent'[s] # None
      PROVE  \E c \in Calls : MarkWon(c) /\ presented[c] = parent'[s]
  <2>1. ~WorldAction
    BY <1>2, WorldFits
  <2>2. PICK c \in Calls : CallAction(c)
    BY <2>1, StepCases
  <2>3. CASE MarkWon(c)
    <3>1. parent'[minted + 1] = presented[c]
          /\ \A r \in Token \ {minted + 1} : parent'[r] = parent[r]
      BY <2>3, GenerateFits DEF MarkWon
    <3>2. QED
      BY <1>2, <2>3, <3>1
  <2>4. ASSUME NEW u \in Users, StartIssue(c, u)
        PROVE  FALSE
    <3>1. parent'[minted + 1] = None
          /\ \A r \in Token \ {minted + 1} : parent'[r] = parent[r]
      BY <2>4, GenerateFits DEF StartIssue
    <3>2. QED
      BY <1>2, <3>1
  <2>5. QED
    BY <1>2, <2>2, <2>3, <2>4, OtherSteps
<1>3. t # None
  BY DEF Token, None
<1>4. QED
  BY <1>1, <1>2, <1>3 DEF HasChild
-----------------------------------------------------------------------------
(* The line of a family.                                                   *)

\* What the invariant says of the tokens that calls and clients hold.
LEMMA HeldFacts ==
  ASSUME IInv, Causes, NEW t
  PROVE  /\ t \in shown => t \in handed
         /\ t \in handed => t \in Token /\ t \in 1..minted
         /\ t \in Token /\ HasChild(t) => t \in shown
         /\ \A c \in Calls : presented[c] = t /\ t # None => t \in shown
         /\ \A c \in Calls : pc[c] \in Asking \cup {"revoke", "refresh-token-reused"}
                               => presented[c] # None /\ presented[c] \in shown
         /\ \A c \in Calls : pc[c] \in Keeping
                               => fresh[c] \in 1..minted /\ fresh[c] \in Token /\ fresh[c] \notin shown
         /\ \A c \in Calls : fresh[c] <= minted /\ fresh[c] # minted + 1
<1> TypeOK
  BY DEF IInv
<1>1. t \in shown => t \in handed
  BY DEF Causes, ShownFits
<1>2. t \in handed => t \in Token /\ t \in 1..minted
  <2>1. t \in handed => t \in Token /\ t <= minted
    BY DEF IInv, Numbering, TypeOK
  <2>2. QED
    BY <2>1, ConstantsAssumption DEF Token, TypeOK
<1>3. t \in Token /\ HasChild(t) => t \in shown
  BY DEF Causes, ShownFits, HasChild, Token, None
<1>4. \A c \in Calls : presented[c] = t /\ t # None => t \in shown
  BY DEF Causes, ShownFits
<1>5. \A c \in Calls : pc[c] \in Asking \cup {"revoke", "refresh-token-reused"}
                         => presented[c] # None /\ presented[c] \in shown
  BY DEF Causes, ShownFits, IInv, CallsReady, Asking, TypeOK, Token, None
<1>6. \A c \in Calls : fresh[c] <= minted /\ fresh[c] # minted + 1
  <2>1. \A c \in Calls : fresh[c] <= minted
    BY DEF IInv, CallsReady
  <2>2. SUFFICES ASSUME NEW c \in Calls
                 PROVE  fresh[c] <= minted /\ fresh[c] # minted + 1
    OBVIOUS
  <2>3. fresh[c] \in Int /\ minted \in Int /\ fresh[c] <= minted
    BY <2>1, ConstantsAssumption DEF TypeOK, Token, None
  <2>4. QED
    BY <2>3
<1>7. ASSUME NEW c \in Calls, pc[c] \in Keeping
      PROVE  fresh[c] \in 1..minted /\ fresh[c] \in Token /\ fresh[c] \notin shown
  <2>1. fresh[c] # None
    BY <1>7 DEF IInv, CallsReady, Keeping
  <2>2. fresh[c] \in 1..minted /\ fresh[c] \in Token
    BY <1>6, <2>1, ConstantsAssumption DEF TypeOK, Token, None
  <2>3. QED
    BY <1>7, <2>2 DEF Causes, ShownFits, FreshIsKept
<1>8. QED
  BY <1>1, <1>2, <1>3, <1>4, <1>5, <1>6, <1>7

\* The families and owners of a generated token, when one more is generated.
LEMMA MintCases ==
  ASSUME IInv, [Next]_vars, minted' # minted
  PROVE  \E c \in Calls :
            /\ minted' = minted + 1 /\ minted + 1 \in Token
            /\ fresh'[c] = minted + 1
            /\ \/ /\ MarkWon(c)
                  /\ family'[minted + 1] = family[presented[c]]
                  /\ owner'[minted + 1] = owner[presented[c]]
                  /\ parent'[minted + 1] = presented[c]
                  /\ status[presented[c]] = "active"
                  /\ presented[c] \in Token /\ presented[c] \in 1..minted
               \/ family'[minted + 1] = minted + 1
<1> TypeOK
  BY DEF IInv
<1>1. ~WorldAction
  BY WorldFits
<1>2. PICK c \in Calls : CallAction(c)
  BY <1>1, StepCases
<1>3. CASE MarkWon(c)
  <2>1. presented[c] \in Token /\ presented[c] <= minted
    BY <1>3, CallFacts DEF MarkWon, IInv, Numbering, TypeOK
  <2>2. presented[c] \in 1..minted
    BY <2>1, ConstantsAssumption DEF Token, TypeOK
  <2>3. Generate(c, owner[presented[c]], family[presented[c]], presented[c])
        /\ status[presented[c]] = "active"
    BY <1>3 DEF MarkWon
  <2>4. /\ minted' = minted + 1 /\ minted + 1 \in Token /\ fresh'[c] = minted + 1
        /\ family'[minted + 1] = family[presented[c]]
        /\ owner'[minted + 1] = owner[presented[c]]
        /\ parent'[minted + 1] = presented[c]
    BY <2>3, GenerateFits
  <2>5. QED
    BY <1>3, <2>1, <2>2, <2>3, <2>4
<1>4. ASSUME NEW u \in Users, StartIssue(c, u)
      PROVE  /\ minted' = minted + 1 /\ minted + 1 \in Token /\ fresh'[c] = minted + 1
             /\ family'[minted + 1] = minted + 1
  BY <1>4, GenerateFits DEF StartIssue
<1>5. QED
  BY <1>2, <1>3, <1>4, OtherSteps

\* What is generated is at the end of the line of its family.
LEMMA OneTipStep == IInv /\ Causes /\ [Next]_vars => OneTip' /\ OneOwner'
<1> SUFFICES ASSUME IInv, Causes, [Next]_vars
             PROVE  OneTip' /\ OneOwner'
  OBVIOUS
<1> TypeOK
  BY DEF IInv
<1>1. minted \in Nat /\ \A t \in 1..minted : t \in Token /\ t # minted + 1 /\ family[t] \in 1..minted
  BY ConstantsAssumption DEF IInv, TypeOK, Token, Numbering
<1>2. \A t \in 1..minted : /\ family'[t] = family[t] /\ owner'[t] = owner[t]
                           /\ ~HasChild(t)' => ~HasChild(t)
  BY <1>1, Progress, ChildOrigin
<1>3. CASE minted' = minted
  BY <1>2, <1>3 DEF Causes, OneTip, OneOwner
<1>4. CASE minted' # minted
  <2> DEFINE n == minted + 1
  <2>1. minted' = n /\ n \in Token /\ \A t \in 1..n : t = n \/ t \in 1..minted
    BY <1>1, <1>4, MintCases
  <2>2. ASSUME NEW t \in 1..minted, family'[t] = family'[n]
        PROVE  HasChild(t)' /\ owner'[t] = owner'[n]
    <3>1. family'[n] # n
      BY <1>1, <1>2, <2>2
    <3>2. PICK p \in 1..minted : /\ family'[n] = family[p]
                                 /\ owner'[n] = owner[p]
                                 /\ parent'[n] = p
                                 /\ status[p] = "active"
      BY <1>4, <3>1, MintCases
    <3>3. ~HasChild(p)
      BY <1>1, <3>2 DEF HasChild, IInv, ParentIsSpent, Token, None
    <3>4. family[t] = family[p]
      BY <1>2, <2>2, <3>2
    <3>5. HasChild(t)'
      <4>1. HasChild(p)'
        BY <2>1, <3>2 DEF HasChild
      <4>2. CASE t # p
        BY <1>1, <3>3, <3>4, <4>2, ChildOrigin DEF Causes, OneTip
      <4>3. QED
        BY <4>1, <4>2
    <3>6. owner'[t] = owner'[n]
      BY <1>2, <3>2, <3>4 DEF Causes, OneOwner
    <3>7. QED
      BY <3>5, <3>6
  <2>3. OneTip'
    <3> SUFFICES ASSUME NEW s \in 1..n, NEW t \in 1..n, family'[s] = family'[t],
                        ~HasChild(s)', ~HasChild(t)'
                 PROVE  s = t
      BY <2>1 DEF OneTip
    <3>1. CASE s = n \/ t = n
      BY <2>1, <2>2, <3>1
    <3>2. CASE s # n /\ t # n
      BY <1>2, <2>1, <3>2 DEF Causes, OneTip
    <3>3. QED
      BY <3>1, <3>2
  <2>4. OneOwner'
    <3> SUFFICES ASSUME NEW s \in 1..n, NEW t \in 1..n, family'[s] = family'[t]
                 PROVE  owner'[s] = owner'[t]
      BY <2>1 DEF OneOwner
    <3>1. CASE s = n \/ t = n
      BY <2>1, <2>2, <3>1
    <3>2. CASE s # n /\ t # n
      BY <1>2, <2>1, <3>2 DEF Causes, OneOwner
    <3>3. QED
      BY <3>1, <3>2
  <2>5. QED
    BY <2>3, <2>4
<1>5. QED
  BY <1>3, <1>4
-----------------------------------------------------------------------------
(* Who holds what.                                                         *)

LEMMA ShownFitsStep == IInv /\ Causes /\ [Next]_vars => ShownFits'
<1> SUFFICES ASSUME IInv, Causes, [Next]_vars
             PROVE  ShownFits'
  OBVIOUS
<1> TypeOK
  BY DEF IInv
<1>1. shown' \subseteq handed'
  <2>1. shown' \subseteq shown \/ \E t \in handed : shown' = shown \cup {t}
    <3>1. ASSUME NEW c \in Calls, CallAction(c)
          PROVE  shown' = shown \/ \E t \in Token : StartRotate(c, t)
      BY <3>1 DEF CallAction, StartIssue, Step, CreateRefreshToken, FindRefreshToken, CheckExpiry,
                  MarkWon, MarkLost, RevokeReused, FindUser, RevokeOrphan, Fail, Return, history
    <3>2. QED
      BY <3>1, WorldFits, StepCases DEF StartRotate
  <2>2. QED
    BY <2>1, Progress DEF Causes, ShownFits
<1>2. ASSUME NEW c \in Calls, presented'[c] # None \/ pc'[c] = "refresh-token-reused"
      PROVE  presented'[c] \in shown'
  <2>1. CASE StartRotate(c, presented'[c])
    BY <2>1 DEF StartRotate
  <2>2. CASE ~StartRotate(c, presented'[c])
    <3>1. \/ presented'[c] = presented[c] /\ presented[c] # None
          \/ presented'[c] = presented[c] /\ pc[c] \in {"revoke", "refresh-token-reused"}
      BY <1>2, <2>2, CallOrigin, OwnStep DEF None
    <3>2. QED
      BY <3>1, HeldFacts, Progress
  <2>3. QED
    BY <2>1, <2>2
<1>3. ASSUME NEW s \in Token, parent'[s] # None
      PROVE  parent'[s] \in shown'
  <2>1. parent'[s] \in Token
    <3>1. TypeOK'
      BY TypeStep
    <3>2. QED
      BY <1>3, <3>1 DEF TypeOK, None
  <2>2. PICK t \in Token : t = parent'[s]
    BY <2>1
  <2>3. HasChild(t)'
    BY <2>2 DEF HasChild
  <2>4. HasChild(t) \/ \E c \in Calls : MarkWon(c) /\ presented[c] = t
    BY <2>3, ChildOrigin
  <2>5. t \in shown
    BY <2>4, HeldFacts DEF None, Token
  <2>6. QED
    BY <2>2, <2>5, Progress
<1>4. QED
  BY <1>1, <1>2, <1>3 DEF ShownFits

\* A token that is presented again disturbs its family.
LEMMA RotateDisturbs ==
  ASSUME IInv, Causes, NEW c \in Calls, NEW t, StartRotate(c, t)
  PROVE  /\ t \in Token /\ t \in 1..minted /\ t \in handed /\ family'[t] = family[t]
         /\ presented'[c] = t /\ pc'[c] = "find"
         /\ t \in shown => family[t] \in disturbed'
         /\ UNCHANGED <<status, now, expires, handed>>
<1>1. t \in handed
  BY DEF StartRotate
<1>2. QED
  BY <1>1, HeldFacts DEF StartRotate, Goto, IInv, TypeOK, storeVars

LEMMA OnePresentsStep == IInv /\ Causes /\ [Next]_vars => OnePresents'
<1> SUFFICES ASSUME IInv, Causes, [Next]_vars, NEW c \in Calls, NEW d \in Calls,
                    presented'[c] # None, presented'[c] = presented'[d], c # d
             PROVE  family'[presented'[c]] \in disturbed'
  BY DEF OnePresents
<1> TypeOK
  BY DEF IInv
<1> DEFINE t == presented'[c]
<1>1. ASSUME NEW a \in Calls, NEW b \in Calls, a # b, presented'[a] = t, presented'[b] = t,
             StartRotate(a, t)
      PROVE  family'[t] \in disturbed'
  <2>1. presented'[b] = presented[b]
    BY <1>1, OtherCalls, RotateDisturbs DEF CallAction
  <2>2. t \in shown
    BY <1>1, <2>1, HeldFacts
  <2>3. QED
    BY <1>1, <2>2, RotateDisturbs
<1>2. CASE StartRotate(c, t) \/ StartRotate(d, t)
  BY <1>1, <1>2
<1>3. CASE ~StartRotate(c, t) /\ ~StartRotate(d, t)
  <2>1. presented[c] = t /\ presented[d] = t
    BY <1>3, CallOrigin, OwnStep DEF None
  <2>2. family[t] \in disturbed /\ t \in 1..minted
    BY <2>1, HeldFacts DEF Causes, OnePresents
  <2>3. QED
    BY <2>2, Progress
<1>4. QED
  BY <1>2, <1>3

LEMMA FreshIsKeptStep == IInv /\ Causes /\ [Next]_vars => FreshIsKept'
<1> SUFFICES ASSUME IInv, Causes, [Next]_vars
             PROVE  FreshIsKept'
  OBVIOUS
<1> TypeOK
  BY DEF IInv
<1>1. ASSUME NEW c \in Calls, pc'[c] \in Keeping
      PROVE  \/ pc[c] \in Keeping /\ fresh'[c] = fresh[c]
             \/ Starts(c) /\ fresh'[c] = minted + 1
  BY <1>1, CallOrigin, OwnStep
<1>2. ASSUME NEW c \in Calls, Starts(c)
      PROVE  CallAction(c) /\ handed' = handed
  BY <1>2 DEF Starts, CallAction, Step, StartIssue, MarkWon
<1>3. ASSUME NEW c \in Calls, pc'[c] \in Keeping
      PROVE  fresh'[c] \notin handed'
  <2>1. CASE Starts(c) /\ fresh'[c] = minted + 1
    <3>1. minted + 1 \notin 1..minted
      BY ConstantsAssumption DEF TypeOK
    <3>2. minted + 1 \notin handed
      BY <3>1, HeldFacts
    <3>3. QED
      BY <1>2, <2>1, <3>2
  <2>2. CASE pc[c] \in Keeping /\ fresh'[c] = fresh[c]
    <3>1. fresh[c] \notin handed
      BY <2>2 DEF Causes, FreshIsKept
    <3>2. ASSUME fresh[c] \in handed'
          PROVE  FALSE
      <4>1. PICK d \in Calls : CallAction(d) /\ fresh[c] = fresh[d] /\ pc'[d] = "success-jwt"
                               /\ pc[d] \in {"mint", "user"}
        BY <3>1, <3>2, HandedOrigin
      <4>2. c = d
        BY <2>2, <4>1 DEF Causes, FreshIsKept, Keeping
      <4>3. QED
        BY <1>3, <4>1, <4>2 DEF Keeping
    <3>3. QED
      BY <2>2, <3>2
  <2>3. QED
    BY <1>1, <1>3, <2>1, <2>2
<1>4. ASSUME NEW c \in Calls, NEW d \in Calls, pc'[c] \in Keeping, pc'[d] \in Keeping,
             fresh'[c] = fresh'[d], c # d
      PROVE  FALSE
  <2>1. ASSUME NEW a \in Calls, NEW b \in Calls, a # b, Starts(a), fresh'[a] = minted + 1,
               fresh'[b] = minted + 1
        PROVE  FALSE
    BY <1>2, <2>1, OtherCalls, HeldFacts
  <2>2. /\ pc[c] \in Keeping /\ fresh'[c] = fresh[c]
        /\ pc[d] \in Keeping /\ fresh'[d] = fresh[d]
    BY <1>1, <1>4, <2>1
  <2>3. QED
    BY <1>1, <1>4, <2>2 DEF Causes, FreshIsKept
<1>5. QED
  BY <1>3, <1>4 DEF FreshIsKept
-----------------------------------------------------------------------------
(* What is good stays good.                                                *)

LEMMA PresentedIsTipStep == IInv /\ Causes /\ [Next]_vars => PresentedIsTip'
<1> SUFFICES ASSUME IInv, Causes, [Next]_vars, NEW c \in Calls, NEW t,
                    pc'[c] \in Asking \cup {"revoke"}, t = presented'[c], HasChild(t)'
             PROVE  family'[t] \in disturbed'
  BY DEF PresentedIsTip, HasChild
<1> TypeOK
  BY DEF IInv
<1>1. CASE StartRotate(c, t)
  <2>1. HasChild(t)
    <3>1. t \in Token
      BY <1>1, RotateDisturbs
    <3>2. HasChild(t) \/ \E d \in Calls : MarkWon(d)
      BY <3>1, ChildOrigin
    <3>3. parent' = parent
      BY <1>1 DEF StartRotate
    <3>4. QED
      BY <3>3 DEF HasChild
  <2>2. QED
    BY <1>1, <2>1, RotateDisturbs, HeldFacts
<1>2. CASE ~StartRotate(c, t)
  <2>1. /\ presented[c] = t
        /\ \/ pc[c] \in Asking \cup {"revoke"}
           \/ FindRefreshToken(c) \/ MarkLost(c)
    BY <1>2, CallOrigin, OwnStep
  <2>2. pc[c] \in Asking \cup {"revoke"}
    BY <2>1 DEF FindRefreshToken, MarkLost, Asking
  <2>3. t \in Token /\ t \in 1..minted /\ t # None
    BY <2>1, <2>2, HeldFacts
  <2>4. CASE HasChild(t)
    BY <2>1, <2>2, <2>3, <2>4, Progress DEF Causes, PresentedIsTip
  <2>5. ASSUME NEW d \in Calls, MarkWon(d), presented[d] = t
        PROVE  family'[t] \in disturbed'
    <3>1. c # d
      BY <2>5 DEF MarkWon, Goto, Asking, TypeOK
    <3>2. family[t] \in disturbed
      BY <2>1, <2>3, <2>5, <3>1 DEF Causes, OnePresents
    <3>3. QED
      BY <2>3, <3>2, Progress
  <2>6. QED
    BY <2>3, <2>4, <2>5, ChildOrigin
<1>3. QED
  BY <1>1, <1>2

\* How a token stops being active.
LEMMA StatusSteps ==
  ASSUME IInv, [Next]_vars, NEW t \in Token, status[t] = "active", status'[t] # "active"
  PROVE  \/ expires[t] < now
         \/ family[t] \in disturbed'
         \/ \E c \in Calls : pc[c] = "mark" /\ pc'[c] \notin Asking /\ presented[c] = t
         \/ \E c \in Calls : pc[c] = "revoke" /\ pc'[c] \notin Asking
                             /\ family[presented[c]] = family[t]
         \/ \E c \in Calls : pc[c] = "orphan" /\ pc'[c] \notin Keeping
                             /\ family[fresh[c]] = family[t]
<1> TypeOK
  BY DEF IInv
<1> USE DEF Goto, Answer, Delete, InFamily, Asking, Keeping, TypeOK
<1>1. CASE WorldAction
  BY <1>1, WorldFits
<1>2. ASSUME NEW c \in Calls, CallAction(c)
      PROVE  \/ pc[c] = "mark" /\ pc'[c] \notin Asking /\ presented[c] = t
             \/ pc[c] = "revoke" /\ pc'[c] \notin Asking /\ family[presented[c]] = family[t]
             \/ pc[c] = "orphan" /\ pc'[c] \notin Keeping /\ family[fresh[c]] = family[t]
  <2>1. CASE \/ \E u \in Users : StartIssue(c, u)
             \/ \E s \in Token : StartRotate(c, s)
    BY <2>1 DEF StartIssue, StartRotate, storeVars
  <2>2. CASE CreateRefreshToken(c)
    BY <2>2 DEF CreateRefreshToken
  <2>3. CASE FindRefreshToken(c) \/ CheckExpiry(c) \/ FindUser(c)
    BY <2>3 DEF FindRefreshToken, CheckExpiry, FindUser, storeVars
  <2>4. CASE MarkWon(c)
    BY <2>4 DEF MarkWon
  <2>5. CASE MarkLost(c)
    BY <2>5 DEF MarkLost
  <2>6. CASE RevokeReused(c)
    BY <2>6 DEF RevokeReused
  <2>7. CASE RevokeOrphan(c)
    BY <2>7 DEF RevokeOrphan
  <2>8. CASE Fail(c) \/ Return(c)
    BY <2>8 DEF Fail, Return, storeVars
  <2>9. QED
    BY <1>2, <2>1, <2>2, <2>3, <2>4, <2>5, <2>6, <2>7, <2>8 DEF CallAction, Step
<1>3. QED
  BY <1>1, <1>2, StepCases

\* The end of a line stays good unless its own call spends it or gives it up.
LEMMA GoodStays ==
  ASSUME IInv, Causes, [Next]_vars, NEW t \in Token, t \in 1..minted, Good(t),
         HasChild(t) => family[t] \in disturbed
  PROVE  \/ Good(t)'
         \/ \E c \in Calls : pc[c] \in Asking \cup {"revoke"} /\ pc'[c] \notin Asking
                             /\ presented[c] = t
         \/ \E c \in Calls : pc[c] \in Keeping /\ pc'[c] \notin Keeping /\ fresh[c] = t
<1> TypeOK
  BY DEF IInv
<1>1. /\ family'[t] = family[t] /\ expires'[t] = expires[t] /\ disturbed \subseteq disturbed'
      /\ now <= now' /\ now \in Int /\ now' \in Int /\ expires[t] \in Int
  <2>1. TypeOK'
    BY TypeStep
  <2>2. QED
    BY <2>1, Progress DEF TypeOK
<1>2. CASE now >= expires[t]
  <2>1. now' >= expires'[t]
    BY <1>1, <1>2
  <2>2. QED
    BY <2>1 DEF Good
<1>3. CASE family[t] \in disturbed
  BY <1>1, <1>3 DEF Good
<1>4. CASE status'[t] = "active"
  BY <1>4 DEF Good
<1>5. CASE status[t] = "active" /\ status'[t] # "active" /\ family[t] \notin disturbed
  <2>1. CASE expires[t] < now
    <3>1. now >= expires[t]
      BY <1>1, <2>1
    <3>2. QED
      BY <1>2, <3>1
  <2>2. CASE family[t] \in disturbed'
    BY <1>1, <2>2 DEF Good
  <2>3. CASE \E c \in Calls : pc[c] = "mark" /\ pc'[c] \notin Asking /\ presented[c] = t
    BY <2>3 DEF Asking
  <2>4. ASSUME NEW c \in Calls, pc[c] = "revoke", pc'[c] \notin Asking,
               family[presented[c]] = family[t]
        PROVE  presented[c] = t
    <3>1. presented[c] \in Token /\ presented[c] \in 1..minted
      BY <2>4, HeldFacts
    <3>2. ~HasChild(presented[c])
      BY <1>5, <2>4 DEF Causes, PresentedIsTip
    <3>3. QED
      BY <1>5, <2>4, <3>1, <3>2 DEF Causes, OneTip
  <2>5. ASSUME NEW c \in Calls, pc[c] = "orphan", pc'[c] \notin Keeping,
               family[fresh[c]] = family[t]
        PROVE  fresh[c] = t
    <3>1. fresh[c] \in Token /\ fresh[c] \in 1..minted /\ fresh[c] \notin shown
      BY <2>5, HeldFacts DEF Keeping
    <3>2. ~HasChild(fresh[c])
      BY <3>1, HeldFacts
    <3>3. QED
      BY <1>5, <2>5, <3>1, <3>2 DEF Causes, OneTip
  <2>6. QED
    BY <1>5, <2>1, <2>2, <2>3, <2>4, <2>5, StatusSteps DEF Keeping
<1>6. QED
  BY <1>2, <1>3, <1>4, <1>5 DEF Good
LEMMA TokensGoodStep == IInv /\ Causes /\ [Next]_vars => TokensGood'
<1> SUFFICES ASSUME IInv, Causes, [Next]_vars
             PROVE  TokensGood'
  OBVIOUS
<1> TypeOK
  BY DEF IInv
<1>1. ASSUME NEW t \in handed' \ shown'
      PROVE  Good(t)'
  <2>1. CASE t \in handed
    <3>1. t \in handed \ shown /\ t \in Token /\ t \in 1..minted
      BY <1>1, <2>1, Progress, HeldFacts
    <3>2. Good(t) /\ ~HasChild(t)
      BY <3>1, HeldFacts DEF Causes, TokensGood
    <3>3. ASSUME NEW c \in Calls, pc[c] \in Asking \cup {"revoke"}
          PROVE  presented[c] # t
      BY <3>1, <3>3, HeldFacts
    <3>4. ASSUME NEW c \in Calls, pc[c] \in Keeping
          PROVE  fresh[c] # t
      BY <3>1, <3>4 DEF Causes, FreshIsKept
    <3>5. QED
      BY <3>1, <3>2, <3>3, <3>4, GoodStays
  <2>2. CASE t \notin handed
    <3>1. PICK c \in Calls :
            /\ t = fresh[c] /\ UNCHANGED <<disturbed, family, expires, now>>
            /\ \/ CreateRefreshToken(c) /\ pc[c] = "mint"
               \/ pc[c] = "user" /\ UNCHANGED status
      BY <1>1, <2>2, HandedOrigin
    <3>2. t \in Token
      BY <3>1, HeldFacts DEF Keeping
    <3>3. CASE CreateRefreshToken(c)
      <4>1. status'[t] = "active"
        BY <3>1, <3>2, <3>3 DEF CreateRefreshToken, TypeOK
      <4>2. QED
        BY <4>1 DEF Good
    <3>4. CASE pc[c] = "user" /\ UNCHANGED status
      <4>1. Good(t)
        BY <3>1, <3>4 DEF Causes, TokensGood
      <4>2. QED
        BY <3>1, <3>4, <4>1 DEF Good
    <3>5. QED
      BY <3>1, <3>3, <3>4
  <2>3. QED
    BY <2>1, <2>2
<1>2. ASSUME NEW c \in Calls, NEW t, pc'[c] \in Asking, t = presented'[c]
      PROVE  Good(t)'
  <2>1. CASE StartRotate(c, t)
    <3>1. CASE t \in shown
      BY <2>1, <3>1, RotateDisturbs DEF Good
    <3>2. CASE t \notin shown
      <4>1. Good(t)
        BY <2>1, <3>2, RotateDisturbs DEF Causes, TokensGood
      <4>2. disturbed \subseteq disturbed'
        BY Progress
      <4>3. QED
        BY <2>1, <4>1, <4>2, RotateDisturbs DEF Good
    <3>3. QED
      BY <3>1, <3>2
  <2>2. CASE ~StartRotate(c, t)
    <3>1. pc[c] \in Asking /\ presented[c] = t
      BY <1>2, <2>2, CallOrigin, OwnStep
    <3>2. t \in Token /\ t \in 1..minted /\ t \in handed /\ t # None
      BY <3>1, HeldFacts
    <3>3. Good(t) /\ (HasChild(t) => family[t] \in disturbed)
      BY <3>1 DEF Causes, TokensGood, PresentedIsTip
    <3>4. ASSUME NEW d \in Calls, pc[d] \in Asking \cup {"revoke"}, pc'[d] \notin Asking,
                 presented[d] = t
          PROVE  Good(t)'
      <4>1. family[t] \in disturbed
        BY <1>2, <3>1, <3>2, <3>4 DEF Causes, OnePresents
      <4>2. QED
        BY <3>2, <4>1, Progress DEF Good
    <3>5. ASSUME NEW d \in Calls, pc[d] \in Keeping
          PROVE  fresh[d] # t
      BY <3>2, <3>5 DEF Causes, FreshIsKept
    <3>6. QED
      BY <3>2, <3>3, <3>4, <3>5, GoodStays
  <2>3. QED
    BY <2>1, <2>2
<1>3. ASSUME NEW c \in Calls, NEW t, pc'[c] \in {"user", "orphan"}, t = fresh'[c]
      PROVE  Good(t)'
  <2>1. /\ pc[c] \in Keeping /\ fresh[c] = t
        /\ pc[c] \in {"user", "orphan"} \/ CreateRefreshToken(c)
    BY <1>3, CallOrigin, OwnStep DEF Keeping
  <2>2. t \in Token /\ t \in 1..minted /\ t \notin handed /\ t \notin shown
    BY <2>1, HeldFacts DEF Causes, FreshIsKept
  <2>3. CASE CreateRefreshToken(c)
    <3>1. status'[t] = "active"
      BY <2>1, <2>2, <2>3 DEF CreateRefreshToken, TypeOK
    <3>2. QED
      BY <3>1 DEF Good
  <2>4. CASE pc[c] \in {"user", "orphan"}
    <3>1. Good(t) /\ ~HasChild(t)
      BY <2>1, <2>2, <2>4, HeldFacts DEF Causes, TokensGood
    <3>2. ASSUME NEW d \in Calls, pc[d] \in Asking \cup {"revoke"}
          PROVE  presented[d] # t
      BY <2>2, <3>2, HeldFacts
    <3>3. ASSUME NEW d \in Calls, pc[d] \in Keeping, pc'[d] \notin Keeping
          PROVE  fresh[d] # t
      <4>1. pc'[c] \in Keeping
        BY <1>3 DEF Keeping
      <4>2. QED
        BY <2>1, <3>3, <4>1 DEF Causes, FreshIsKept
    <3>4. QED
      BY <2>2, <3>1, <3>2, <3>3, GoodStays
  <2>5. QED
    BY <2>1, <2>3, <2>4
<1>4. QED
  BY <1>1, <1>2, <1>3 DEF TokensGood

\* A call that turns to revocation went by a token that was not good.
LEMMA AlarmFitsStep == IInv /\ Causes /\ [Next]_vars => AlarmFits'
<1> SUFFICES ASSUME IInv, Causes, [Next]_vars, ConditionalMark, NEW c \in Calls, NEW t,
                    pc'[c] \in {"revoke", "refresh-token-reused"}, t = presented'[c]
             PROVE  family'[t] \in disturbed' \/ now' >= expires'[t]
  BY DEF AlarmFits, AlarmHasCause
<1> TypeOK
  BY DEF IInv
<1>1. /\ presented[c] = t
      /\ \/ pc[c] \in {"revoke", "refresh-token-reused"}
         \/ FindRefreshToken(c) /\ status[t] = "used"
         \/ MarkLost(c)
  BY CallOrigin, OwnStep
<1>2. pc[c] \in Asking \cup {"revoke", "refresh-token-reused"}
  BY <1>1 DEF FindRefreshToken, MarkLost, Asking
<1>3. t \in Token /\ t \in 1..minted
  BY <1>1, <1>2, HeldFacts
<1>4. family[t] \in disturbed \/ now >= expires[t]
  <2>1. CASE pc[c] \in {"revoke", "refresh-token-reused"}
    BY <1>1, <2>1 DEF Causes, AlarmFits, AlarmHasCause
  <2>2. CASE (FindRefreshToken(c) /\ status[t] = "used") \/ MarkLost(c)
    <3>1. status[t] # "active"
      BY <1>1, <2>2 DEF MarkLost
    <3>2. Good(t)
      BY <1>1, <2>2 DEF FindRefreshToken, MarkLost, Asking, Causes, TokensGood
    <3>3. QED
      BY <3>1, <3>2 DEF Good
  <2>3. QED
    BY <1>1, <2>1, <2>2
<1>5. /\ family'[t] = family[t] /\ expires'[t] = expires[t] /\ disturbed \subseteq disturbed'
      /\ now <= now' /\ now \in Int /\ now' \in Int /\ expires[t] \in Int
  <2>1. TypeOK'
    BY TypeStep
  <2>2. QED
    BY <1>3, <2>1, Progress DEF TypeOK
<1>6. QED
  BY <1>4, <1>5

LEMMA CausesStep == IInv /\ Causes /\ [Next]_vars => Causes'
  BY OneTipStep, ShownFitsStep, OnePresentsStep, FreshIsKeptStep, PresentedIsTipStep,
     TokensGoodStep, AlarmFitsStep DEF Causes

\* Records go with their family, with their user, or when they have expired.
LEMMA EvidenceStep ==
  ASSUME IInv, Causes, [Next]_vars, NEW t \in Token,
         status[t] = "used", status'[t] = "absent"
  PROVE  expires[t] < now \/ InFamily(family[t])' = {}
<1> TypeOK
  BY DEF IInv
<1>1. t \in 1..minted /\ t \in 1..minted'
  <2>1. t <= minted
    BY TokenFacts DEF Stored
  <2>2. t \in 1..minted
    BY <2>1, ConstantsAssumption DEF TypeOK, Token
  <2>3. QED
    BY <2>2, Progress
<1>2. ASSUME NEW T, Delete(T), UNCHANGED <<family, owner>>,
             \/ T = InFamily(family[t])
             \/ \E u : T = OwnedBy(u) /\ owner[t] = u
      PROVE  InFamily(family[t])' = {}
  <2>1. ASSUME NEW s \in Token, Stored(s), family[s] = family[t]
        PROVE  s \in T
    <3>1. s \in 1..minted
      BY <2>1, TokenFacts, ConstantsAssumption DEF TypeOK, Token
    <3>2. owner[s] = owner[t]
      BY <1>1, <2>1, <3>1 DEF Causes, OneOwner
    <3>3. QED
      BY <1>2, <2>1, <3>2 DEF InFamily, OwnedBy
  <2>2. \A s \in Token : status'[s] = IF s \in T THEN "absent" ELSE status[s]
    BY <1>2 DEF Delete, TypeOK
  <2>3. QED
    BY <1>2, <2>1, <2>2 DEF InFamily, Stored
<1>3. ASSUME NEW T, Delete(T)
      PROVE  t \in T
  BY <1>3 DEF Delete, TypeOK
<1>4. ASSUME NEW c \in Calls, CallAction(c)
      PROVE  InFamily(family[t])' = {}
  <2>1. CASE RevokeReused(c)
    BY <1>2, <1>3, <2>1 DEF RevokeReused, InFamily
  <2>2. CASE RevokeOrphan(c)
    BY <1>2, <1>3, <2>2 DEF RevokeOrphan, InFamily
  <2>3. CASE CreateRefreshToken(c)
    BY <2>3 DEF CreateRefreshToken, TypeOK
  <2>4. CASE MarkWon(c) \/ MarkLost(c)
    BY <2>4 DEF MarkWon, MarkLost, TypeOK
  <2>5. CASE status' = status
    BY <2>5
  <2>6. QED
    BY <1>4, <2>1, <2>2, <2>3, <2>4, <2>5
       DEF CallAction, Step, StartIssue, StartRotate, FindRefreshToken, CheckExpiry, FindUser,
           Fail, Return, storeVars
<1>5. CASE WorldAction
  <2>1. ASSUME NEW f \in Token, Logout(f)
        PROVE  InFamily(family[t])' = {}
    BY <1>2, <1>3, <2>1 DEF Logout, Sweep, InFamily
  <2>2. ASSUME NEW u \in Users, RevokeAllForUser(u) \/ DeleteUser(u)
        PROVE  InFamily(family[t])' = {}
    BY <1>2, <1>3, <2>2 DEF RevokeAllForUser, DeleteUser, Sweep, OwnedBy
  <2>3. CASE PurgeExpired
    BY <1>3, <2>3 DEF PurgeExpired, Purgeable
  <2>4. CASE Tick \/ UNCHANGED vars
    BY <2>4 DEF Tick, vars, storeVars
  <2>5. QED
    BY <1>5, <2>1, <2>2, <2>3, <2>4 DEF WorldAction
<1>6. QED
  BY <1>4, <1>5, StepCases

-----------------------------------------------------------------------------
(* The theorems.                                                           *)

\* The causes are kept apart in every reachable state.
THEOREM CausesHold == Spec => []Causes
<1>1. Init => Causes
  BY InitCauses
<1>2. IInv /\ Causes /\ [Next]_vars => Causes'
  BY CausesStep
<1>3. Spec => []IInv
  BY Invariance
<1>4. QED
  BY <1>1, <1>2, <1>3, PTL DEF Spec

\* A token that a client holds and never presented works for its whole
\* lifetime unless its family was disturbed, with either kind of store: no
\* interleaving of other rotations takes it away (refresh-token.ts:79-145).
THEOREM HonestToken == Spec => []HonestTokenStaysGood
<1>1. IInv /\ Causes => HonestTokenStaysGood
  <2> SUFFICES ASSUME IInv, Causes, NEW t \in handed \ shown,
                      now < expires[t], status[t] # "active"
               PROVE  family[t] \in disturbed
    BY DEF HonestTokenStaysGood
  <2>1. now \in Int /\ expires[t] \in Int
    BY HeldFacts DEF IInv, TypeOK
  <2>2. QED
    BY <2>1 DEF Causes, TokensGood, Good
<1>2. QED
  BY <1>1, Invariance, CausesHold, PTL

\* With a store that says who won, a rotation turns to revocation only when a
\* token of the family was presented twice, its records were revoked, or the
\* token expired meanwhile (refresh-token.ts:89-124).
THEOREM AlarmCause == ConditionalMark => (Spec => []AlarmHasCause)
<1> SUFFICES ASSUME ConditionalMark
             PROVE  Spec => []AlarmHasCause
  OBVIOUS
<1>1. Causes => AlarmHasCause
  BY DEF Causes, AlarmFits
<1>2. QED
  BY <1>1, CausesHold, PTL

\* A used record is deleted only after its expiry or with all of its family.
THEOREM Evidence == Spec => EvidenceKept
<1>1. IInv /\ Causes /\ [Next]_vars =>
        [\A t \in Token :
           status[t] = "used" /\ status'[t] = "absent" =>
              expires[t] < now \/ InFamily(family[t])' = {}]_vars
  BY EvidenceStep
<1>2. QED
  BY <1>1, Invariance, CausesHold, PTL DEF Spec, EvidenceKept
=============================================================================
