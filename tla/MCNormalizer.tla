---------------------------- MODULE MCNormalizer ----------------------------
EXTENDS Normalizer

CONSTANTS Other,    \* the container that a reserved key may hold
          MaxSlots  \* bound: how many slots an input has altogether

\* Every container may refer to every other and to itself; what a reserved key
\* holds may be reached in another way too, or not.
MCSlot == [key : {"plain"}, value : Container \cup {"plain", "unsupported", "throws"}]
            \cup [key : {"reserved"}, value : {Other}]

\* The rest of what a slot may be, on its own.
MCRareSlot == [key : {"plain"}, value : {"infinite", "date", "opaque"}]
                \cup [key : {"prototype"}, value : {Other}]

MCSlots == {<<>>} \cup {<<s>> : s \in MCSlot \cup MCRareSlot} \cup (MCSlot \X MCSlot)

RECURSIVE Total(_, _)
Total(slots, S) ==
  IF S = {} THEN 0
  ELSE LET o == CHOOSE x \in S : TRUE IN Len(slots[o]) + Total(slots, S \ {o})

MCInputs ==
  [isArray : {a \in [Container -> BOOLEAN] : ~a[Root]},
   slots : {s \in [Container -> MCSlots] : Total(s, Container) <= MaxSlots}]
=============================================================================
