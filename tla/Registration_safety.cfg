\* Two registrations of one address, whoever follows their links, a purge and
\* a shutdown; each mail has one retry.  Grace = 0: a user who has not verified
\* within the tick of its creation may be purged.
CONSTANTS
  Engines <- MCEngines
  Calls = {c1, c2}
  Emails = {e1}
  MaxRetries = 1
  WaitLimit = 1
  MaxTime = 1
  Grace = 0
SPECIFICATION Spec
INVARIANTS OneUserPerAddress SuccessMeansAccount GhostMailHasCause StrandedHasCause
PROPERTIES TrueMeansIdle VerifiedStays WaitEnds
