----------------------------- MODULE Normalizer -----------------------------
(***************************************************************************)
(* normalizePayload (internal/normalize-payload/): a walk over an input of *)
(* any shape, with a stack of its own, that leaves a tree fit for JSON or  *)
(* throws when the input is too deep or has too many values.               *)
(*                                                                         *)
(* An input is a graph of containers, objects and arrays, whose slots hold *)
(* other containers, possibly themselves, or values, of which there is one *)
(* for every way the registry and the loop treat a value:                  *)
(*   plain, infinite (also NaN), date (any type with a strategy),          *)
(*   unsupported (a Map, a function, a Date whose strategy throws, ...),   *)
(*   throws (a getter that does), opaque (an object whose keys do).        *)
(* Of a key it matters whether it is one of the prototype's, or reserved   *)
(* in an access token.  Each step is one round of the loop.                *)
(***************************************************************************)
EXTENDS Integers, Sequences, FiniteSets

CONSTANTS Container, \* the objects and arrays of an input
          Root,      \* the one that is passed in
          Inputs,    \* the inputs considered
          MaxDepth,
          MaxNodes

Value == {"plain", "infinite", "date", "unsupported", "throws", "opaque"}
Slot == [key : {"plain", "prototype", "reserved"}, value : Container \cup Value]
Null == "null"

ASSUME NormalizerAssumption ==
  /\ IsFiniteSet(Container)
  /\ Root \in Container
  /\ Container \cap (Value \cup {Null, "text"}) = {}
  /\ \A in \in Inputs : /\ in.isArray \in [Container -> BOOLEAN]
                        /\ ~in.isArray[Root]
                        /\ in.slots \in [Container -> Seq(Slot)]
  /\ MaxDepth \in Nat
  /\ MaxNodes \in Nat

VARIABLES
  input,   \* the payload
  jwt,     \* whether the policy is PayloadPolicy.Jwt
  stack,   \* the frames: a container, its next slot and its depth
  visited,
  count,   \* totalNodesProcessed
  target,  \* target[o]: what was placed in the copy of container o so far
  status   \* running, done, or the code of the error thrown

walkVars == <<input, jwt, stack, visited, count, target, status>>

Frame == [source : Container, index : Nat \ {0}, depth : 0..MaxDepth + 1]
Placed == [at : Nat, value : Container \cup {Null, "plain", "text"}]

\* A type: what every variable holds.
WalkTypeOK ==
  /\ input \in Inputs
  /\ jwt \in BOOLEAN
  /\ stack \in Seq(Frame)
  /\ visited \in SUBSET Container
  /\ count \in 0..(IF status = "NODE_EXCEEDED" THEN MaxNodes + 1 ELSE MaxNodes)
  /\ target \in [Container -> Seq(Placed)]
  /\ status \in {"running", "done", "DEPTH_EXCEEDED", "NODE_EXCEEDED"}
  /\ status = "running" <=> stack # <<>>

NewFrame(o, depth) == [source |-> o, index |-> 1, depth |-> depth]

WalkInit ==
  /\ input \in Inputs
  /\ jwt \in BOOLEAN
  /\ stack = <<NewFrame(Root, 0)>>
  /\ visited = {Root}
  /\ count = 0
  /\ target = [o \in Container |-> <<>>]
  /\ status = "running"

-----------------------------------------------------------------------------
(* Helpers.                                                                *)

Current == stack[Len(stack)]
Slots(o) == input.slots[o]
Here == Slots(Current.source)[Current.index]

\* PROTOTYPE_POLLUTION_KEYS, and JWT_RESERVED_KEYS if the policy is Jwt; an
\* array has no keys.
Dropped(o, slot) ==
  ~input.isArray[o] /\ (slot.key = "prototype" \/ (jwt /\ slot.key = "reserved"))

Advance == [stack EXCEPT ![Len(stack)].index = @ + 1]

Put(v) ==
  target' = [target EXCEPT ![Current.source] = Append(@, [at |-> Current.index, value |-> v])]

Refuse(code) == status' = code /\ stack' = <<>>

-----------------------------------------------------------------------------
(* The loop.                                                               *)

AtSlot ==
  /\ status = "running"
  /\ Current.depth <= MaxDepth
  /\ Current.index <= Len(Slots(Current.source))

TooDeep ==
  /\ status = "running"
  /\ Current.depth > MaxDepth
  /\ Refuse("DEPTH_EXCEEDED")
  /\ UNCHANGED <<input, jwt, visited, count, target>>

\* The last slot of a container was the one before.
PopFrame ==
  /\ status = "running"
  /\ Current.depth <= MaxDepth
  /\ Current.index > Len(Slots(Current.source))
  /\ stack' = SubSeq(stack, 1, Len(stack) - 1)
  /\ status' = IF Len(stack) = 1 THEN "done" ELSE "running"
  /\ UNCHANGED <<input, jwt, visited, count, target>>

\* Mutant: the key is looked at again and again.
SkipNothing ==
  /\ AtSlot
  /\ Dropped(Current.source, Here)
  /\ UNCHANGED walkVars

\* A key that is dropped is not even read.
SkipKey ==
  /\ AtSlot
  /\ Dropped(Current.source, Here)
  /\ stack' = Advance
  /\ UNCHANGED <<input, jwt, visited, count, target, status>>

\* A getter that throws leaves null, and is not counted.
ReadThrows ==
  /\ AtSlot
  /\ ~Dropped(Current.source, Here)
  /\ Here.value = "throws"
  /\ Put(Null)
  /\ stack' = Advance
  /\ UNCHANGED <<input, jwt, visited, count, status>>

\* Mutant: the last node that is allowed is refused.
OverBudgetEarly(n) == n >= MaxNodes

\* Mutant: nothing is refused.
OverBudgetNever(n) == FALSE

OverBudget(n) == n > MaxNodes

Countable ==
  /\ AtSlot
  /\ ~Dropped(Current.source, Here)
  /\ Here.value # "throws"

\* incrementAndCheckNodes throws.
TooMany ==
  /\ Countable
  /\ count' = count + 1
  /\ OverBudget(count')
  /\ Refuse("NODE_EXCEEDED")
  /\ UNCHANGED <<input, jwt, visited, target>>

\* Mutant: what is not supported is left out of arrays too.
PlaceValueOrNothing ==
  CASE Here.value = "unsupported" -> UNCHANGED target
    [] Here.value = "date"        -> Put("text")
    [] Here.value = "plain"       -> Put("plain")
    [] OTHER                      -> Put(Null)

\* What the registry says of a value, and the loop does with it: an object
\* skips what is not supported, an array keeps its length.
PlaceValue ==
  CASE Here.value = "unsupported" -> IF input.isArray[Current.source]
                                     THEN Put(Null) ELSE UNCHANGED target
    [] Here.value = "date"        -> Put("text")
    [] Here.value = "plain"       -> Put("plain")
    [] OTHER                      -> Put(Null)

TakeValue ==
  /\ Countable
  /\ Here.value \in Value
  /\ ~OverBudget(count + 1)
  /\ count' = count + 1
  /\ PlaceValue
  /\ stack' = Advance
  /\ UNCHANGED <<input, jwt, visited, status>>

\* Mutant: only what is being walked counts as visited.
SeenOnStack(o) == \E n \in 1..Len(stack) : stack[n].source = o

Seen(o) == o \in visited

\* A container: its copy is placed and walked at once, or null if it was seen.
TakeContainer ==
  /\ Countable
  /\ Here.value \in Container
  /\ ~OverBudget(count + 1)
  /\ count' = count + 1
  /\ IF Seen(Here.value)
     THEN Put(Null) /\ stack' = Advance /\ UNCHANGED visited
     ELSE /\ Put(Here.value)
          /\ stack' = Append(Advance, NewFrame(Here.value, Current.depth + 1))
          /\ visited' = visited \cup {Here.value}
  /\ UNCHANGED <<input, jwt, status>>

WalkNext ==
  \/ TooDeep
  \/ PopFrame
  \/ SkipKey
  \/ ReadThrows
  \/ TooMany
  \/ TakeValue
  \/ TakeContainer

\* The loop is synchronous: it runs until it is over.
WalkSpec == WalkInit /\ [][WalkNext]_walkVars /\ WF_walkVars(WalkNext)

-----------------------------------------------------------------------------
(* Properties.                                                             *)

\* What is left of a container: the slots that survive, whoever reads them.
Survives(o, i) ==
  /\ ~Dropped(o, Slots(o)[i])
  /\ input.isArray[o] \/ Slots(o)[i].value # "unsupported"

Surviving(o) == {i \in 1..Len(Slots(o)) : Survives(o, i)}

\* The containers that follow from Root by next, in any number of steps: those
\* in each set that has Root and, with a container, what follows from it.
Closed(S, next) == Root \in S /\ \A o \in S : next[o] \subseteq S
Reach(next) == {o \in Container : \A S \in SUBSET Container : Closed(S, next) => o \in S}

Children == [o \in Container |-> {Slots(o)[i].value : i \in Surviving(o)} \cap Container]
Copies == [o \in Container |-> {target[o][n].value : n \in 1..Len(target[o])} \cap Container]
Reachable == Reach(Children)

Placements(o) ==
  UNION {{p} \X {n \in 1..Len(target[p]) : target[p][n].value = o} : p \in Container}

\* The result is a tree at all times, whatever cycles and shared objects the
\* input has: JSON.stringify ends on it.
ResultIsTree ==
  /\ Reach(Copies) = visited
  /\ Placements(Root) = {}
  /\ \A o \in visited \ {Root} : Cardinality(Placements(o)) = 1

\* What the copy of a value is; a container is itself or, elsewhere, null.
IsCopy(v, w) ==
  CASE v = "plain"        -> w = "plain"
    [] v = "date"         -> w = "text"
    [] v \in Container    -> w \in {v, Null}
    [] OTHER              -> w = Null

\* When it is done, everything that can be kept is there and in order: each
\* container that can be reached, with all of its slots that survive, at every
\* depth, and nothing that a policy drops.
NothingLost ==
  status = "done" =>
    /\ visited = Reachable
    /\ \A o \in visited :
         /\ {target[o][n].at : n \in 1..Len(target[o])} = Surviving(o)
         /\ \A m, n \in 1..Len(target[o]) : m < n => target[o][m].at < target[o][n].at
         /\ \A n \in 1..Len(target[o]) :
              IsCopy(Slots(o)[target[o][n].at].value, target[o][n].value)

\* The slots that count, of the containers in S.
Counts(o, i) == ~Dropped(o, Slots(o)[i]) /\ Slots(o)[i].value # "throws"
Counted(S) == UNION {{o} \X {i \in 1..Len(Slots(o)) : Counts(o, i)} : o \in S}

\* How many others the copy of each container lies below: in a tree there is
\* one answer.
Depths ==
  {d \in [visited -> 0..MaxDepth + 1] :
     d[Root] = 0 /\ \A p \in visited : \A o \in Copies[p] : d[o] = d[p] + 1}

\* An input is refused for its size or its depth exactly when it has more
\* values than MaxNodes, or a container below more than MaxDepth others on
\* the way it was reached.
RefusedForCause ==
  /\ status = "done" =>
       /\ Cardinality(Counted(Reachable)) <= MaxNodes
       /\ \E d \in Depths : \A o \in visited : d[o] <= MaxDepth
  /\ status = "NODE_EXCEEDED" => Cardinality(Counted(Reachable)) > MaxNodes
  /\ status = "DEPTH_EXCEEDED" => \E d \in Depths : \E o \in visited : d[o] > MaxDepth

\* The walk ends on every input.
Terminates == <>(status # "running")

=============================================================================
