------------------------------- MODULE OAuth -------------------------------
(***************************************************************************)
(* OAuthEngine (oauth/oauth.ts): sign-in by way of another provider.       *)
(* generateAuthorizationUri begins a flow; the provider sends the browser  *)
(* back with a code; validateAuthorizationCode exchanges the code and      *)
(* fetchProfile asks who it is, each by a fetch with a timeout.            *)
(*                                                                         *)
(* The application keeps the state and the verifier of the last flow of a  *)
(* browser, and calls fetchProfile as soon as it has a token.  A flow, its *)
(* state, its verifier and its code bear the same number.  The provider    *)
(* and the network may be slow, refuse, garble, or never answer.           *)
(***************************************************************************)
EXTENDS Integers

CONSTANTS Calls,   \* the callbacks: each handles one redirect
          Browsers,
          MaxFlows \* bound: how many flows are ever begun

Flow == 1..MaxFlows
None == 0
NoOne == "nobody"

ASSUME OAuthAssumption ==
  /\ MaxFlows \in Nat
  /\ NoOne \notin Calls

VARIABLES
  \* the application and the provider
  minted,   \* how many flows were begun
  owner,    \* owner[f]: the browser that began flow f
  pending,  \* pending[b]: the flow whose state and verifier are kept for b
  issued,   \* the flows whose code was handed out
  spender,  \* spender[f]: the call whose exchange of the code was accepted
  \* the calls
  pc,       \* what the call waits for, or how it ended
  browser,  \* the browser the redirect came from
  code,     \* the code in the redirect
  verifier, \* the verifier that goes with it
  timer,    \* the calls whose timer of fetchWithTimeout is set
  wire,     \* the request at the provider, or its response
  faulted   \* history: the calls for which the provider or the network failed

flowVars == <<minted, owner, pending, issued>>
callVars == <<browser, code, verifier>>
vars == <<flowVars, spender, pc, callVars, timer, wire, faulted>>

Fetching == {"exchange", "profile"}
Reading  == {"exchange-body", "profile-body"}

\* A type: what every variable holds.
TypeOK ==
  /\ minted \in 0..MaxFlows
  /\ owner \in [Flow -> Browsers \cup {NoOne}]
  /\ pending \in [Browsers -> Flow \cup {None}]
  /\ issued \in SUBSET (1..minted)
  /\ spender \in [Flow -> Calls \cup {NoOne}]
  /\ pc \in [Calls -> {"idle", "signed-in", "error"} \cup Fetching \cup Reading]
  /\ browser \in [Calls -> Browsers \cup {NoOne}]
  /\ code \in [Calls -> Flow \cup {None}]
  /\ verifier \in [Calls -> Flow \cup {None}]
  /\ timer \in SUBSET {c \in Calls : pc[c] \in Fetching}
  /\ wire \in [Calls -> {"none", "ok", "refused"} \cup Fetching]
  /\ faulted \in SUBSET Calls

Init ==
  /\ minted = 0
  /\ owner = [f \in Flow |-> NoOne]
  /\ pending = [b \in Browsers |-> None]
  /\ issued = {}
  /\ spender = [f \in Flow |-> NoOne]
  /\ pc = [c \in Calls |-> "idle"]
  /\ browser = [c \in Calls |-> NoOne]
  /\ code = [c \in Calls |-> None]
  /\ verifier = [c \in Calls |-> None]
  /\ timer = {}
  /\ wire = [c \in Calls |-> "none"]
  /\ faulted = {}

-----------------------------------------------------------------------------
(* Flows.                                                                  *)

\* generateAuthorizationUri; a second tab replaces what is kept of the first.
Begin(b) ==
  /\ minted < MaxFlows
  /\ minted' = minted + 1
  /\ owner' = [owner EXCEPT ![minted + 1] = b]
  /\ pending' = [pending EXCEPT ![b] = minted + 1]
  /\ UNCHANGED <<issued, spender, pc, callVars, timer, wire, faulted>>

\* The provider sends whoever opened the URI back, with a code and the state.
IssueCode(f) ==
  /\ f \in (1..minted) \ issued
  /\ issued' = issued \cup {f}
  /\ UNCHANGED <<minted, owner, pending, spender, pc, callVars, timer, wire, faulted>>

-----------------------------------------------------------------------------
(* fetchWithTimeout: the timer is set for the fetch, which ends with the   *)
(* headers of the response, and cleared whatever becomes of it.            *)

Fetch(c, what) ==
  /\ pc' = [pc EXCEPT ![c] = what]
  /\ wire' = [wire EXCEPT ![c] = what]
  /\ timer' = timer \cup {c}

End(c, outcome) ==
  /\ pc' = [pc EXCEPT ![c] = outcome]
  /\ timer' = timer \ {c}

\* Mutant: the fetch is not given the signal.
TimeOutUnheard(c) ==
  /\ c \in timer
  /\ timer' = timer \ {c}
  /\ faulted' = faulted \cup {c}
  /\ UNCHANGED <<flowVars, spender, pc, callVars, wire>>

\* The fetch is aborted; the request may have been carried out, or will be.
TimeOut(c) ==
  /\ c \in timer
  /\ End(c, "error")
  /\ faulted' = IF pc[c] \in Fetching THEN faulted \cup {c} ELSE faulted
  /\ UNCHANGED <<flowVars, spender, callVars, wire>>

\* Mutant: the timer is left running while the body is read.
HeadersArriveTimed(c) ==
  /\ pc[c] \in Fetching
  /\ wire[c] \in {"ok", "refused"}
  /\ pc' = [pc EXCEPT ![c] = IF @ = "exchange" THEN "exchange-body" ELSE "profile-body"]
  /\ UNCHANGED <<flowVars, spender, callVars, timer, wire, faulted>>

\* From here on nothing limits the time that reading the body takes.
HeadersArrive(c) ==
  /\ pc[c] \in Fetching
  /\ wire[c] \in {"ok", "refused"}
  /\ End(c, IF pc[c] = "exchange" THEN "exchange-body" ELSE "profile-body")
  /\ UNCHANGED <<flowVars, spender, callVars, wire, faulted>>

NetworkFails(c) ==
  /\ pc[c] \in Fetching \cup Reading
  /\ End(c, "error")
  /\ faulted' = faulted \cup {c}
  /\ UNCHANGED <<flowVars, spender, callVars, wire>>

-----------------------------------------------------------------------------
(* validateAuthorizationCode and fetchProfile.                             *)

\* Mutant: any state will do as long as there is one.
StateIsPresent(b, state) == state # None /\ pending[b] # None

\* Both states are there, and they are the same.
StateMatches(b, state) == state # None /\ pending[b] # None /\ state = pending[b]

\* A redirect arrives, in whatever browser and however often.
Callback(c, b, f) ==
  /\ pc[c] = "idle"
  /\ f \in issued
  /\ browser' = [browser EXCEPT ![c] = b]
  /\ code' = [code EXCEPT ![c] = f]
  /\ verifier' = [verifier EXCEPT ![c] = pending[b]]
  /\ IF StateMatches(b, f)
     THEN Fetch(c, "exchange")
     ELSE End(c, "error") /\ UNCHANGED wire
  /\ UNCHANGED <<flowVars, spender, faulted>>

\* The provider takes a code once, with its own verifier; it may refuse it.
\* It does so although the caller has given up.
ProviderExchanges(c) ==
  /\ wire[c] = "exchange"
  /\ \/ /\ spender[code[c]] = NoOne
        /\ verifier[c] = code[c]
        /\ spender' = [spender EXCEPT ![code[c]] = c]
        /\ wire' = [wire EXCEPT ![c] = "ok"]
     \/ wire' = [wire EXCEPT ![c] = "refused"] /\ UNCHANGED spender
  /\ UNCHANGED <<flowVars, pc, callVars, timer, faulted>>

ProviderProfiles(c) ==
  /\ wire[c] = "profile"
  /\ \E answer \in {"ok", "refused"} :
       /\ wire' = [wire EXCEPT ![c] = answer]
       /\ faulted' = IF answer = "refused" THEN faulted \cup {c} ELSE faulted
  /\ UNCHANGED <<flowVars, spender, pc, callVars, timer>>

\* The body is there: a token, then a profile; or why it was refused.
ReadBody(c) ==
  /\ pc[c] \in Reading
  /\ IF wire[c] = "refused" THEN End(c, "error") /\ UNCHANGED wire
     ELSE IF pc[c] = "exchange-body" THEN Fetch(c, "profile")
     ELSE End(c, "signed-in") /\ UNCHANGED wire
  /\ UNCHANGED <<flowVars, spender, callVars, faulted>>

\* Not JSON, no access_token or token_type; or the mapper throws or finds
\* neither a providerId nor an email.
BodyUnusable(c) ==
  /\ pc[c] \in Reading
  /\ wire[c] = "ok"
  /\ End(c, "error")
  /\ faulted' = faulted \cup {c}
  /\ UNCHANGED <<flowVars, spender, callVars, wire>>

Next ==
  \/ \E b \in Browsers : Begin(b)
  \/ \E f \in Flow : IssueCode(f)
  \/ \E c \in Calls :
        \/ \E b \in Browsers, f \in issued : Callback(c, b, f)
        \/ ProviderExchanges(c)
        \/ ProviderProfiles(c)
        \/ HeadersArrive(c)
        \/ TimeOut(c)
        \/ NetworkFails(c)
        \/ ReadBody(c)
        \/ BodyUnusable(c)

\* Timers fire.  Nothing is asked of the provider and the network.
Spec == Init /\ [][Next]_vars /\ \A c \in Calls : WF_vars(TimeOut(c))

-----------------------------------------------------------------------------
(* Properties.                                                             *)

\* A code goes to the provider only from the browser that began its flow:
\* a redirect that strayed is turned away before anything is sent, so that it
\* neither signs anybody in nor uses up the code (oauth.ts:107).
OwnCodeOnly ==
  \A c \in Calls :
    wire[c] # "none" => owner[code[c]] = browser[c] /\ verifier[c] = code[c]

\* A code that the provider accepted signs its browser in, or something failed
\* outside the engine: no timer of a finished fetch undoes it (oauth.ts:271).
GoodCodeSignsIn ==
  \A f \in Flow :
    spender[f] # NoOne /\ pc[spender[f]] = "error" => spender[f] \in faulted

\* Signed in is who passed both fetches: the provider took the code and, after
\* that, answered the profile.
SignedInTwice ==
  [][\A c \in Calls :
       pc'[c] = "signed-in" /\ pc[c] # "signed-in"
         => spender[code[c]] = c /\ pc[c] = "profile-body"]_vars

\* A call ends if the provider completes the bodies that it began to send.  The
\* timer is off once the headers are here, so that a provider that stops inside
\* a body holds the caller up for good, which oauth.ts:16 means to prevent.
EndsWithTheBodies ==
  (\A c \in Calls : WF_vars(ReadBody(c)))
    => \A c \in Calls : pc[c] \in Fetching \cup Reading
                          ~> pc[c] \in {"signed-in", "error"}

=============================================================================
