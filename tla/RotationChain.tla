---------------------------- MODULE RotationChain ----------------------------
(***************************************************************************)
(* What refresh-token rotation promises, without records, clocks or calls. *)
(*                                                                         *)
(* A family is a chain of tokens that starts at one login.  At any moment  *)
(* it has at most one spendable token, its head.  Spending the head leaves *)
(* the family "minting" until the successor becomes the new head; a family *)
(* that is "dead" never has a head again; a spent token is never a head    *)
(* again.  A family that is being revoked while it is minting stays        *)
(* minting: the chain does not promise that the successor is cancelled.    *)
(***************************************************************************)

CONSTANTS Token,     \* names of refresh tokens
          Family,    \* names of families
          None       \* not a token: the head of a family without a spendable one

VARIABLES phase,     \* phase[f]: where family f is in its life
          head,      \* head[f]: the spendable token of f, or None
          spent      \* the tokens that have been spent

chainVars == <<phase, head, spent>>

Phase == {"unopened", "minting", "live", "dead"}

ChainTypeOK ==
  /\ phase \in [Family -> Phase]
  /\ head \in [Family -> Token \cup {None}]
  /\ spent \in SUBSET Token

ChainInit ==
  /\ phase = [f \in Family |-> "unopened"]
  /\ head = [f \in Family |-> None]
  /\ spent = {}

\* A login starts the family; its first token is on the way.
Open(f) ==
  /\ phase[f] = "unopened"
  /\ phase' = [phase EXCEPT ![f] = "minting"]
  /\ UNCHANGED <<head, spent>>

\* The token on the way becomes the head.
Extend(f, t) ==
  /\ phase[f] = "minting"
  /\ t \notin spent
  /\ \A g \in Family : head[g] # t
  /\ phase' = [phase EXCEPT ![f] = "live"]
  /\ head' = [head EXCEPT ![f] = t]
  /\ UNCHANGED spent

\* The head is exchanged: nobody can spend it a second time.
Spend(f) ==
  /\ phase[f] = "live"
  /\ phase' = [phase EXCEPT ![f] = "minting"]
  /\ spent' = spent \cup {head[f]}
  /\ head' = [head EXCEPT ![f] = None]

\* Logout, recovery, reuse detection, expiry or a failed mint end families.
Close(F) ==
  /\ \A f \in F : phase[f] \in {"live", "minting"}
  /\ phase' = [f \in Family |-> IF f \in F THEN "dead" ELSE phase[f]]
  /\ head' = [f \in Family |-> IF f \in F THEN None ELSE head[f]]
  /\ UNCHANGED spent

ChainNext ==
  \/ \E f \in Family : Open(f) \/ Spend(f) \/ \E t \in Token : Extend(f, t)
  \/ \E F \in SUBSET Family : Close(F)

ChainSpec == ChainInit /\ [][ChainNext]_chainVars

=============================================================================
