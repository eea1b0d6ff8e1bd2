---------------------------- MODULE OAuth_proofs ----------------------------
(***************************************************************************)
(* What OAuth guarantees for any number of browsers, flows and redirects,  *)
(* whatever the provider and the network do.                               *)
(***************************************************************************)
EXTENDS OAuth, TLAPS

\* What the application keeps for a browser is a flow of that browser.
PendingIsOwn ==
  \A b \in Browsers :
    pending[b] # None => pending[b] \in 1..minted /\ owner[pending[b]] = b

\* Where a call is, and what there can be at the provider or in the response.
WireFits ==
  \A c \in Calls :
    /\ pc[c] = "idle" => wire[c] = "none"
    /\ pc[c] \in Reading => wire[c] \in {"ok", "refused"}
    /\ pc[c] = "exchange" => wire[c] \in {"exchange", "ok", "refused"}
    /\ pc[c] = "profile" => wire[c] \in {"profile", "ok", "refused"}
    /\ pc[c] = "error" /\ wire[c] = "exchange" => c \in faulted
    /\ pc[c] = "signed-in" => wire[c] = "ok"
    /\ wire[c] # "none" => code[c] \in issued

\* Who had its code accepted, and how far it can be with that.
SpenderFits ==
  \A c \in Calls :
    /\ \A f \in Flow : spender[f] = c =>
         /\ code[c] = f
         /\ wire[c] \in {"ok", "profile"} \/ (wire[c] = "refused" /\ c \in faulted)
    /\ pc[c] \in {"exchange", "exchange-body"} /\ wire[c] = "ok" => spender[code[c]] = c
    /\ pc[c] \in {"profile", "profile-body"} => spender[code[c]] = c

IInv ==
  /\ TypeOK
  /\ PendingIsOwn
  /\ WireFits
  /\ OwnCodeOnly
  /\ SpenderFits
  /\ GoodCodeSignsIn

-----------------------------------------------------------------------------
LEMMA InitIInv == Init => IInv
  BY OAuthAssumption
  DEF Init, IInv, TypeOK, PendingIsOwn, WireFits, OwnCodeOnly, SpenderFits,
      GoodCodeSignsIn, Flow, None, Fetching, Reading

\* The types, and the numbering that goes with them.
LEMMA TypeStep == IInv /\ [Next]_vars => TypeOK'
<1> SUFFICES ASSUME IInv, [Next]_vars
             PROVE  TypeOK'
  OBVIOUS
<1> TypeOK
  BY DEF IInv
<1> USE OAuthAssumption DEF TypeOK, Flow, None, Fetching, Reading, flowVars, callVars
<1>1. ASSUME NEW b \in Browsers, Begin(b)
      PROVE  TypeOK'
  <2>1. minted + 1 \in 1..MaxFlows /\ minted' = minted + 1
    BY <1>1 DEF Begin
  <2>2. issued' \in SUBSET (1..minted')
    BY <1>1, <2>1 DEF Begin
  <2>3. owner' \in [Flow -> Browsers \cup {NoOne}] /\ pending' \in [Browsers -> Flow \cup {None}]
    BY <1>1, <2>1 DEF Begin
  <2>4. QED
    BY <1>1, <2>1, <2>2, <2>3 DEF Begin
<1>2. ASSUME NEW f \in Flow, IssueCode(f)
      PROVE  TypeOK'
  BY <1>2 DEF IssueCode
<1>3. ASSUME NEW c \in Calls, NEW b \in Browsers, NEW f \in issued, Callback(c, b, f)
      PROVE  TypeOK'
  BY <1>3, SMTT(30) DEF Callback, StateMatches, Fetch, End
<1>4. ASSUME NEW c \in Calls, ProviderExchanges(c)
      PROVE  TypeOK'
  BY <1>4, SMTT(30) DEF ProviderExchanges
<1>5. ASSUME NEW c \in Calls, ProviderProfiles(c)
      PROVE  TypeOK'
  BY <1>5 DEF ProviderProfiles
<1>6. ASSUME NEW c \in Calls, HeadersArrive(c) \/ TimeOut(c) \/ NetworkFails(c)
      PROVE  TypeOK'
  BY <1>6, ZenonT(30) DEF HeadersArrive, TimeOut, NetworkFails, End
<1>7. ASSUME NEW c \in Calls, ReadBody(c)
      PROVE  TypeOK'
  <2>1. CASE wire[c] # "refused" /\ pc[c] = "exchange-body"
    BY <1>7, <2>1 DEF ReadBody, Fetch
  <2>2. CASE ~(wire[c] # "refused" /\ pc[c] = "exchange-body")
    BY <1>7, <2>2, SMTT(30) DEF ReadBody, End
  <2>3. QED
    BY <2>1, <2>2
<1>8. ASSUME NEW c \in Calls, BodyUnusable(c)
      PROVE  TypeOK'
  BY <1>8 DEF BodyUnusable, End
<1>9. CASE UNCHANGED vars
  BY <1>9 DEF vars
<1>10. QED
  BY <1>1, <1>2, <1>3, <1>4, <1>5, <1>6, <1>7, <1>8, <1>9 DEF Next

\* A flow that was begun keeps its number and its browser.
LEMMA PendingStep == IInv /\ [Next]_vars => PendingIsOwn'
<1> SUFFICES ASSUME IInv, [Next]_vars
             PROVE  PendingIsOwn'
  OBVIOUS
<1> USE OAuthAssumption DEF IInv, TypeOK, PendingIsOwn, None, Flow
<1>1. ASSUME NEW b \in Browsers, Begin(b)
      PROVE  PendingIsOwn'
  <2>1. minted + 1 \in Flow /\ minted' = minted + 1
    BY <1>1 DEF Begin
  <2>2. SUFFICES ASSUME NEW d \in Browsers, pending'[d] # None
                 PROVE  pending'[d] \in 1..minted' /\ owner'[pending'[d]] = d
    OBVIOUS
  <2>3. CASE d = b
    BY <1>1, <2>1, <2>3 DEF Begin
  <2>4. CASE d # b
    <3>1. pending'[d] = pending[d] /\ pending[d] \in 1..minted
      BY <1>1, <2>2, <2>4 DEF Begin
    <3>2. QED
      BY <1>1, <2>1, <3>1 DEF Begin
  <2>5. QED
    BY <2>3, <2>4
<1>2. CASE UNCHANGED <<minted, owner, pending>>
  BY <1>2
<1>3. QED
  BY <1>1, <1>2
  DEF Next, vars, flowVars, IssueCode, Callback, ProviderExchanges, ProviderProfiles,
      HeadersArrive, TimeOut, NetworkFails, ReadBody, BodyUnusable

-----------------------------------------------------------------------------
(* The steps of one call.                                                  *)

CallAction(c) ==
  \/ \E b \in Browsers, f \in issued : Callback(c, b, f)
  \/ ProviderExchanges(c)
  \/ ProviderProfiles(c)
  \/ HeadersArrive(c)
  \/ TimeOut(c)
  \/ NetworkFails(c)
  \/ ReadBody(c)
  \/ BodyUnusable(c)

\* A flow is begun or a code handed out, or nothing happens: no call notices.
FlowAction ==
  /\ UNCHANGED <<spender, pc, code, verifier, browser, wire, faulted>>
  /\ issued \subseteq issued'
  /\ \A f \in 1..minted : owner'[f] = owner[f]

LEMMA StepCases ==
  ASSUME TypeOK, [Next]_vars
  PROVE  \/ FlowAction
         \/ UNCHANGED flowVars /\ \E c \in Calls : CallAction(c)
<1> USE OAuthAssumption DEF FlowAction, TypeOK, flowVars, callVars, vars
<1>1. ASSUME NEW b \in Browsers, Begin(b)
      PROVE  FlowAction
  BY <1>1 DEF Begin, Flow
<1>2. ASSUME NEW f \in Flow, IssueCode(f)
      PROVE  FlowAction
  BY <1>2 DEF IssueCode
<1>3. ASSUME NEW c \in Calls, CallAction(c)
      PROVE  UNCHANGED flowVars
  BY <1>3
  DEF CallAction, Callback, ProviderExchanges, ProviderProfiles, HeadersArrive, TimeOut,
      NetworkFails, ReadBody, BodyUnusable
<1>4. CASE UNCHANGED vars
  BY <1>4
<1>5. QED
  BY <1>1, <1>2, <1>3, <1>4 DEF Next, CallAction

\* What happens to one call leaves the others where they are.
LEMMA OtherCalls ==
  ASSUME TypeOK, NEW c \in Calls, NEW d \in Calls, d # c, CallAction(c)
  PROVE  /\ pc'[d] = pc[d] /\ wire'[d] = wire[d]
         /\ code'[d] = code[d] /\ browser'[d] = browser[d] /\ verifier'[d] = verifier[d]
         /\ d \in faulted' <=> d \in faulted
         /\ \A f \in Flow : spender'[f] = d <=> spender[f] = d
  BY OAuthAssumption
  DEF TypeOK, CallAction, Callback, ProviderExchanges, ProviderProfiles, HeadersArrive,
      TimeOut, NetworkFails, ReadBody, BodyUnusable, Fetch, End, callVars

\* A call that sent its code has one that was handed out.
LEMMA CodeIsFlow ==
  ASSUME TypeOK, WireFits, NEW d \in Calls, wire[d] # "none"
  PROVE  code[d] \in Flow
<1>1. code[d] \in issued /\ issued \subseteq 1..minted /\ minted \in 0..MaxFlows
  BY DEF TypeOK, WireFits
<1>2. code[d] \in 1..minted
  BY <1>1
<1>3. QED
  BY <1>1, <1>2, OAuthAssumption DEF Flow

-----------------------------------------------------------------------------
(* The invariant is kept.                                                  *)

LEMMA WireStep == IInv /\ [Next]_vars => WireFits'
<1> SUFFICES ASSUME IInv, [Next]_vars, NEW d \in Calls
             PROVE  /\ pc'[d] = "idle" => wire'[d] = "none"
                    /\ pc'[d] \in Reading => wire'[d] \in {"ok", "refused"}
                    /\ pc'[d] = "exchange" => wire'[d] \in {"exchange", "ok", "refused"}
                    /\ pc'[d] = "profile" => wire'[d] \in {"profile", "ok", "refused"}
                    /\ pc'[d] = "error" /\ wire'[d] = "exchange" => d \in faulted'
                    /\ pc'[d] = "signed-in" => wire'[d] = "ok"
                    /\ wire'[d] # "none" => code'[d] \in issued'
  BY DEF WireFits
<1> TypeOK /\ WireFits
  BY DEF IInv
<1> USE OAuthAssumption DEF TypeOK, WireFits, Fetching, Reading
<1>1. CASE FlowAction
  BY <1>1 DEF FlowAction
<1>2. ASSUME NEW c \in Calls, d # c, CallAction(c), UNCHANGED flowVars
      PROVE  WireFits!(d)'
  BY <1>2, OtherCalls DEF flowVars
<1>3. ASSUME CallAction(d), UNCHANGED flowVars
      PROVE  WireFits!(d)'
  <2> USE DEF flowVars, callVars
  <2>1. ASSUME NEW b \in Browsers, NEW f \in issued, Callback(d, b, f)
        PROVE  WireFits!(d)'
    BY <1>3, <2>1 DEF Callback, StateMatches, Fetch, End, Flow
  <2>2. CASE ProviderExchanges(d) \/ ProviderProfiles(d)
    BY <1>3, <2>2 DEF ProviderExchanges, ProviderProfiles
  <2>3. CASE HeadersArrive(d) \/ TimeOut(d) \/ NetworkFails(d)
    BY <1>3, <2>3 DEF HeadersArrive, TimeOut, NetworkFails, End
  <2>4. CASE ReadBody(d) \/ BodyUnusable(d)
    BY <1>3, <2>4 DEF ReadBody, BodyUnusable, Fetch, End
  <2>5. QED
    BY <1>3, <2>1, <2>2, <2>3, <2>4 DEF CallAction
<1>4. QED
  BY <1>1, <1>2, <1>3, StepCases

\* Only Callback chooses a code and a verifier, and only the ones it may.
LEMMA OwnCodeStep == IInv /\ [Next]_vars => OwnCodeOnly'
<1> SUFFICES ASSUME IInv, [Next]_vars, NEW d \in Calls, wire'[d] # "none"
             PROVE  owner'[code'[d]] = browser'[d] /\ verifier'[d] = code'[d]
  BY DEF OwnCodeOnly
<1> TypeOK /\ WireFits /\ OwnCodeOnly /\ PendingIsOwn
  BY DEF IInv
<1> USE OAuthAssumption DEF TypeOK, WireFits, OwnCodeOnly, Fetching, Reading
<1>1. CASE FlowAction
  BY <1>1 DEF FlowAction
<1>2. ASSUME NEW c \in Calls, d # c, CallAction(c), UNCHANGED flowVars
      PROVE  owner'[code'[d]] = browser'[d] /\ verifier'[d] = code'[d]
  BY <1>2, OtherCalls DEF flowVars
<1>3. ASSUME CallAction(d), UNCHANGED flowVars
      PROVE  owner'[code'[d]] = browser'[d] /\ verifier'[d] = code'[d]
  <2>1. ASSUME NEW b \in Browsers, NEW f \in issued, Callback(d, b, f)
        PROVE  owner'[code'[d]] = browser'[d] /\ verifier'[d] = code'[d]
    BY <1>3, <2>1 DEF Callback, StateMatches, Fetch, End, PendingIsOwn, flowVars, callVars
  <2>2. CASE ~(\E b \in Browsers, f \in issued : Callback(d, b, f))
    BY <1>3, <2>2
    DEF CallAction, ProviderExchanges, ProviderProfiles, HeadersArrive, TimeOut,
        NetworkFails, ReadBody, BodyUnusable, Fetch, End, flowVars, callVars
  <2>3. QED
    BY <2>1, <2>2
<1>4. QED
  BY <1>1, <1>2, <1>3, StepCases

\* A code is accepted once, from the call that holds it.
LEMMA SpenderStep == IInv /\ [Next]_vars => SpenderFits'
<1> SUFFICES ASSUME IInv, [Next]_vars, NEW d \in Calls
             PROVE  SpenderFits!(d)'
  BY DEF SpenderFits
<1> TypeOK /\ WireFits /\ SpenderFits
  BY DEF IInv
<1> USE OAuthAssumption DEF TypeOK, WireFits, SpenderFits, Fetching, Reading
<1>1. CASE FlowAction
  BY <1>1 DEF FlowAction
<1>2. ASSUME NEW c \in Calls, d # c, CallAction(c), UNCHANGED flowVars
      PROVE  SpenderFits!(d)'
  <2>1. /\ pc'[d] = pc[d] /\ wire'[d] = wire[d] /\ code'[d] = code[d]
        /\ d \in faulted' <=> d \in faulted
        /\ \A f \in Flow : spender'[f] = d <=> spender[f] = d
    BY <1>2, OtherCalls
  <2>2. pc[d] \in Fetching \cup Reading => code[d] \in Flow
    BY CodeIsFlow
  <2> HIDE DEF TypeOK, WireFits
  <2>3. \A f \in Flow : spender'[f] = d =>
          /\ code'[d] = f
          /\ wire'[d] \in {"ok", "profile"} \/ (wire'[d] = "refused" /\ d \in faulted')
    BY <2>1
  <2>4. /\ pc'[d] \in {"exchange", "exchange-body"} /\ wire'[d] = "ok" => spender'[code'[d]] = d
        /\ pc'[d] \in {"profile", "profile-body"} => spender'[code'[d]] = d
    BY <2>1, <2>2
  <2>5. QED
    BY <2>3, <2>4
<1>3. ASSUME CallAction(d), UNCHANGED flowVars
      PROVE  SpenderFits!(d)'
  <2> USE DEF flowVars, callVars
  <2>1. ASSUME NEW b \in Browsers, NEW f \in issued, Callback(d, b, f)
        PROVE  SpenderFits!(d)'
    BY <1>3, <2>1, SMTT(30) DEF Callback, StateMatches, Fetch, End, Flow
  <2>2. CASE ProviderExchanges(d)
    <3>1. code[d] \in Flow /\ wire[d] = "exchange"
      BY <2>2, CodeIsFlow DEF ProviderExchanges
    <3>2. ASSUME NEW f \in Flow, spender[f] = d
          PROVE  FALSE
      <4> HIDE DEF TypeOK, WireFits
      <4>1. wire[d] \in {"ok", "profile", "refused"}
        BY <3>2
      <4>2. QED
        BY <3>1, <4>1
    <3>3. pc'[d] \notin {"profile", "profile-body"}
      BY <2>2, <3>1 DEF ProviderExchanges
    <3>4. CASE wire'[d] = "ok" /\ spender' = [spender EXCEPT ![code[d]] = d]
      BY <2>2, <3>1, <3>2, <3>3, <3>4 DEF ProviderExchanges
    <3>5. CASE wire'[d] = "refused" /\ spender' = spender
      BY <2>2, <3>1, <3>2, <3>3, <3>5 DEF ProviderExchanges
    <3>6. QED
      BY <2>2, <3>4, <3>5 DEF ProviderExchanges
  <2>6. CASE ProviderProfiles(d)
    BY <1>3, <2>6 DEF ProviderProfiles
  <2>3. CASE HeadersArrive(d) \/ TimeOut(d) \/ NetworkFails(d)
    BY <1>3, <2>3 DEF HeadersArrive, TimeOut, NetworkFails, End
  <2>4. CASE ReadBody(d) \/ BodyUnusable(d)
    BY <1>3, <2>4 DEF ReadBody, BodyUnusable, Fetch, End
  <2>5. QED
    BY <1>3, <2>1, <2>2, <2>3, <2>4, <2>6 DEF CallAction
<1>4. QED
  BY <1>1, <1>2, <1>3, StepCases

\* A call that ends in an error after its code was accepted was let down.
LEMMA GoodCodeStep == IInv /\ [Next]_vars => GoodCodeSignsIn'
<1> SUFFICES ASSUME IInv, [Next]_vars, NEW f \in Flow,
                    spender'[f] # NoOne, pc'[spender'[f]] = "error"
             PROVE  spender'[f] \in faulted'
  BY DEF GoodCodeSignsIn
<1> TypeOK /\ WireFits /\ SpenderFits /\ GoodCodeSignsIn
  BY DEF IInv
<1> USE OAuthAssumption DEF TypeOK, WireFits, SpenderFits, GoodCodeSignsIn, Fetching, Reading
<1>1. CASE FlowAction
  BY <1>1 DEF FlowAction
<1>2. ASSUME NEW c \in Calls, CallAction(c), UNCHANGED flowVars
      PROVE  spender'[f] \in faulted'
  <2>1. spender'[f] \in Calls
    BY <1>2
    DEF CallAction, Callback, ProviderExchanges, ProviderProfiles, HeadersArrive, TimeOut,
        NetworkFails, ReadBody, BodyUnusable
  <2>2. CASE spender'[f] # c
    BY <1>2, <2>1, <2>2, OtherCalls
  <2>3. CASE spender'[f] = c
    <3>1. CASE TimeOut(c) \/ NetworkFails(c) \/ BodyUnusable(c)
      BY <2>3, <3>1 DEF TimeOut, NetworkFails, BodyUnusable
    <3>2. CASE ProviderExchanges(c) \/ ProviderProfiles(c)
      BY <2>3, <3>2 DEF ProviderExchanges, ProviderProfiles
    <3>3. CASE HeadersArrive(c) \/ ReadBody(c)
      BY <2>3, <3>3 DEF HeadersArrive, ReadBody, End, Fetch
    <3>4. CASE \E b \in Browsers, g \in issued : Callback(c, b, g)
      BY <2>3, <3>4 DEF Callback
    <3>5. QED
      BY <1>2, <3>1, <3>2, <3>3, <3>4 DEF CallAction
  <2>4. QED
    BY <2>2, <2>3
<1>3. QED
  BY <1>1, <1>2, StepCases DEF IInv

-----------------------------------------------------------------------------
\* The inductive invariant holds throughout.
THEOREM Invariance == Spec => []IInv
<1>1. IInv /\ [Next]_vars => IInv'
  BY TypeStep, PendingStep, WireStep, OwnCodeStep, SpenderStep, GoodCodeStep DEF IInv
<1>2. QED
  BY InitIInv, <1>1, PTL DEF Spec

\* Every variable keeps its type, and a timer is set only during a fetch.
THEOREM TypeCorrect == Spec => []TypeOK
<1>1. IInv => TypeOK
  BY DEF IInv
<1>2. QED
  BY Invariance, <1>1, PTL

\* A code goes to the provider only from the browser that began its flow.
THEOREM CodeStaysHome == Spec => []OwnCodeOnly
<1>1. IInv => OwnCodeOnly
  BY DEF IInv
<1>2. QED
  BY Invariance, <1>1, PTL

\* A code that was accepted signs in, or something outside the engine failed.
THEOREM GoodCode == Spec => []GoodCodeSignsIn
<1>1. IInv => GoodCodeSignsIn
  BY DEF IInv
<1>2. QED
  BY Invariance, <1>1, PTL

\* Nobody is signed in but by an accepted code and an answered profile.
THEOREM SignIn == Spec => SignedInTwice
<1>1. IInv /\ [Next]_vars =>
        [\A c \in Calls : pc'[c] = "signed-in" /\ pc[c] # "signed-in"
           => spender[code[c]] = c /\ pc[c] = "profile-body"]_vars
  <2> SUFFICES ASSUME IInv, [Next]_vars, NEW d \in Calls,
                      pc'[d] = "signed-in", pc[d] # "signed-in"
               PROVE  spender[code[d]] = d /\ pc[d] = "profile-body"
    OBVIOUS
  <2> TypeOK /\ SpenderFits
    BY DEF IInv
  <2>1. PICK c \in Calls : CallAction(c)
    BY StepCases DEF FlowAction
  <2>2. d = c
    BY <2>1, OtherCalls
  <2>3. pc[d] = "profile-body"
    BY <2>1, <2>2
    DEF TypeOK, CallAction, Callback, ProviderExchanges, ProviderProfiles, HeadersArrive,
        TimeOut, NetworkFails, ReadBody, BodyUnusable, Fetch, End, Reading
  <2>4. QED
    BY <2>3 DEF SpenderFits
<1>2. QED
  BY Invariance, <1>1, PTL DEF Spec, SignedInTwice

=============================================================================
