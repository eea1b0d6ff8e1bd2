# A specification of beaver-auth

TLA+ modules, TLC configurations and TLAPS proofs for `@beaver-auth/core`
(`src/packages/core`). The library is a set of engines that run inside one
Node.js process and keep their state in a store behind an adapter. JavaScript
runs one piece of code at a time, so the unit of interleaving is the code
between two `await`s: an engine call is a chain of such pieces, each around one
adapter operation, and other calls run between them. That is the step size of
every module here. A rejected adapter call, a deleted user and, where it
matters, the death of the process can come between any two steps.

## The system

| Component | State | Operations | Module |
|---|---|---|---|
| RefreshTokenEngine (`internal/refresh-token.ts`) | refresh-token records: status, family, owner, expiry | issue, rotate, revokeFamily, revokeAllForUser, purge | RefreshTokens |
| LoginEngine (`login/login.ts`) | none of its own; drives all the others | password stage, MFA stage, refreshAccessToken, logout, resendVerification | RefreshTokens, MfaLogin, Sessions, OneTimeLinks |
| SessionManager (`session/session.ts`) | sessions with expiry; MFA challenges | create, validate (extends or purges), invalidate; challenge create, verify, revoke, purge | Sessions, MfaLogin |
| MfaEngine, CryptoEngine (`mfa/mfa.ts`, `internal/crypto.ts`) | none | TOTP match within a window, password hash and check | MfaLogin (the window) |
| TokenEngine (`internal/token.ts`) | one link per purpose and address | create, consume; JWT create and verify | OneTimeLinks (links) |
| VerificationEngine, PasswordResetEngine (`verification/`, `account-recovery/`) | none; background sends in flight | request, send with retries, accept | OneTimeLinks |
| completeAccountRecovery (`internal/complete-account-recovery.ts`) | none | new password, delete sessions, revoke refresh tokens | Sessions |
| RateLimiterEngine, MemoryStore (`rate-limit/`) | a bounded Map of entries, a lock per key, a timer | acquire, cleanup, destroy | RateLimit |
| retryWithBackoff (`internal/retry.ts`) | attempts | retry, give up | inside OneTimeLinks and Dispatcher |
| Memory adapter (`testing/memory-adapter.ts`) | the store | the adapter operations | the store of every module that has one |
| LocalTaskDispatcher (`register/in-memory-dispatcher.ts`) | tasks in flight, their count | dispatch, retry, onFailure, waitForActiveTasks | Dispatcher |
| RegistrationEngine (`register/register.ts`) | users, pending or verified | execute, purgeExpiredRegistrations | Registration |
| AuthMiddlewareEngine (`middleware/middleware.ts`), JWT part of TokenEngine | revoked token ids; the cookie of a browser | handleRequest, handleJwtRequest, revokeJwt | Middleware |
| OAuthEngine (`oauth/oauth.ts`) | timers of fetches | generateAuthorizationUri, validateAuthorizationCode, fetchProfile | OAuth |
| normalizePayload (`internal/normalize-payload/`) | the stack of one walk | one walk | Normalizer |
| Field validation, utilities, createAuth | none that changes | | not modelled |

How they interact: the engines call each other directly and share the store.
LoginEngine ends both of its stages in SessionManager.create or
RefreshTokenEngine.issue; PasswordResetEngine ends in completeAccountRecovery,
which deletes what SessionManager and RefreshTokenEngine created. RegistrationEngine,
resendVerification and requestReset start a send in the background that nobody
awaits; RegistrationEngine's ends in a task of LocalTaskDispatcher, whose retries and
whose shutdown are its own. AuthMiddlewareEngine reads, extends and purges what the
login stored, and answers a browser that has other requests under way. The rate
limiter and OAuth stand apart: the application calls them.

What makes each correct, and what is hard about it:

- **Refresh tokens.** A family is one right to continue a login, in one hand. A
  replay must be noticed and must end that family only; an honest client must not
  be accused. Hard: two rotations of one token, a revocation between marking and
  storing, purges that remove the evidence, a failure halfway.
- **Links.** Accepted for what and for whom they were made, and once, unless two
  calls read one before either deletes it; dead links stay dead; the user's mailbox
  holds a link that works. Hard: read and delete are two calls, the delete takes
  whatever is stored by then, sends race, a rejected write may have happened.
- **Second factor.** A challenge allows one guess, unless two calls race to revoke
  it; a code allows one login, unless two calls overlap. Hard: a challenge is
  verified and revoked, and the last used step read, compared and written, in
  separate steps.
- **Sessions.** What is deleted stays deleted; nobody is signed out without a
  cause; a reset signs out whoever signed in with the old password, unless it broke
  off or the login ended after it. Hard: extensions and purges in flight, logins in
  flight, half a revocation, a password that changed although the store said no.
- **Rate limiter.** The limit holds in every window; the store is bounded; no
  call waits for ever. Hard: the clock is read before queueing, refusals write
  state, eviction and destroy happen around waiting calls.
- **Registration.** One user per address; success means an account; whoever is
  pending has a mail, or something outside failed; a verified user stays. Hard: the
  lookup and the insert are two calls, the mail starts inside a transaction that may
  roll back, the process may die in between, the purge uses an old cutoff.
- **Dispatcher.** A shutdown that is told "true" cuts nothing off, and it ends. Hard:
  tasks that wait for a retry, or report their last failure, count too.
- **Middleware.** The browser's cookie and the session agree; a token is good for its
  time and a dead one is refused. Hard: overlapping responses, rounding to seconds,
  two checks that follow each other.
- **OAuth.** A code is exchanged only by the browser that began the flow; a good code
  signs in. Hard: stray redirects, the timer against the answer.
- **Normaliser.** The copy is a tree, complete, and the walk ends. Hard: cyclic and
  shared containers, the two bounds at their edges.

`PROJECT.json` lists the hazards line by line.

## The modules

Common conventions: calls run in slots (`Calls`); `pc[c]` is the adapter call
that slot waits for, or the status it answered with; where slots are used again,
`Return` or the like frees one. Tokens, links, challenges, grants, flows and items
are numbers in the order they are generated, because the code makes them
unguessable and unique: `generateSecureToken` never repeats. What a record will say
(owner, expiry) is fixed when it is generated, and separate variables say whether it
is stored. The clock is a number. History variables are declared under `history`,
and no guard reads them. A definition whose comment starts with "Mutant:" is a
wrong variant of the definition that follows it: the runs are known to reject it.

**RefreshTokens.** `StartIssue`, `CreateRefreshToken`: `issue`.
`StartRotate`, `FindRefreshToken`, `CheckExpiry`, `MarkWon` or `MarkLost`,
`CreateRefreshToken` or `RevokeReused`: `rotate`, one action per await;
`FindUser` and `RevokeOrphan` are the rest of `refreshAccessToken`. The constant
`ConditionalMark` says whether the store keeps the contract of
`markRefreshTokenUsed` (types.ts:163-174) or, as the memory adapter does, marks
the record and returns nothing.

**RotationChain** is what rotation promises: a family is a chain with at most
one spendable head; spending leaves it "minting"; a dead family stays dead. It
knows neither records nor calls. `RefreshTokens` implements it under the mapping
`Chain`, in which a family is minting while some call holds its next token.
A family that is revoked during that time stays minting: this is the promise the
code keeps, and it is weaker than the one the tests state (see below).

**OneTimeLinks.** A slot is a purpose and a user. `RequestLink` starts a
background send: `GenerateLink`, then `StoreLink` or `StoreFails` (which retries
and may have stored the link all the same), then `SendMail` or `HookFails`.
`Present`, `GetRecord`, `DeleteRecord`, `CheckRecord`, `FindUser` and
`MarkUserVerified` or `UpdateUser` are `verifyEmail` and `completeReset`.
`Crash` drops everything in flight. The history variable `undone` has the slots whose
link was deleted by a presentation, or whose send was given up or died, since a link
was last stored well.

**MfaLogin.** `StartPasswordStage` and `CreateMfaChallengeToken` hand out a
challenge; `StartMfaStage` to `Grant` are `executeMfaStage`, in which
`VerifyTemporaryMfaToken` and `RevokeTemporaryMfaToken` are two awaits. History
variables: `tried` has the challenges that a code was checked on, `raced` the calls
that had found their challenge, as another one had, when it was deleted. A code is
named by the step it is generated for; two steps that happen to share six digits are
left out.

**Sessions.** A grant is what a login leaves behind: a session, a refresh family
or a challenge. It remembers the password (by its version) that was checked.
`StartValidate`, `FindSession`, `Decide`, `PurgeSession` or `ExtendSession`:
`validate`. `StartRecovery`, `UpdateUser`, `DeleteUserSessions`,
`RevokeAllRefreshTokens`, `RevocationFails`: a reset after its link was accepted.
In `UpdateUserInDoubt` the store changes the password and rejects all the same, and
nothing is revoked. `spared` and `late` are history: the grants that were there when a
reset broke off, and those checked before a reset and stored after it, each for as
long as it is stored.
`AcceptChallenge` stands for the MFA stage up to the last used step, which is
MfaLogin's subject.

**RateLimit.** `Acquire` is everything up to `await previous`, the rest of a call
is one step (`UpdateBucket`, `UpdateWindow`) because nothing in it awaits.
`previous[c]` is the call whose promise `c` waits for. `algorithm` is chosen at
the start and never changes, so one run covers both strategies. Tokens are
counted in what one tick generates, so that a fraction of a token is a whole
number. Results other than `success` are left out. The Map is the set of its keys
with the relation `before`, their order of insertion; the log of a window is a set
of times, equal ones told apart by a number, because only how many there are and how
old they are matters. `granted` is the history of the successes of a key in order:
that no window has one too many is then said of a success and the one maxRequests
after it, and the pace of a bucket of every pair of successes.

**Dispatcher** has the steps of LocalTaskDispatcher and none of what its handlers
do: `Dispatch`, `RunHandler`, `HandlerSucceeds`, `HandlerFails`,
`OnFailureSettles`, and `StartWaiting`, `Poll`, `StopWaiting` for
`waitForActiveTasks`. It has no specification of its own.

**Registration** composes it with RegistrationEngine: `Start`, `FindUser`,
`DummyHash`, `HashPassword`, `CreateUser`, `Commit` are `execute`; `CreateLink` is
the send that nobody awaits and ends in `Dispatch`; `SendMail` is the task;
`Present` to `MarkUserVerified` are one visitor's `verifyEmail`; `StartPurge` and
`Purge` are `purgeExpiredRegistrations`. `engine` is the set of features configured
(a transaction, protection against enumeration, a verification), chosen at the
start. Each engine call can fail with or without effect, and `Crash` takes the
process with its tasks. The inside of a link is OneTimeLinks' subject: storing and
consuming one are single steps here.

**Middleware.** `config` chooses the transport and the two optional checks. With
cookies: `StartRequest`, `FindSession`, `Decide`, `PurgeSession` or
`ExtendSession`, and `Deliver` or `LoseResponse` between the server and the jar
of one browser, which keeps a cookie for its Max-Age. With tokens: `IssueToken`,
`StartJwtRequest`, `CheckRevocation`, `FetchUser`, `Answer`, `RevokeJwt`. The clock
counts ticks and exp counts seconds of `PerSecond` ticks, so that rounding shows.

**OAuth.** `Begin` is `generateAuthorizationUri`; `Callback`, `HeadersArrive`,
`ReadBody`, `BodyUnusable`, `TimeOut` are the two fetches; `ProviderExchanges`,
`ProviderProfiles`, `NetworkFails` and the redirects are external and may do as they
like, except that a provider takes a code once, with the verifier of its flow.

**Normalizer.** One action per round of the loop, by what the round meets: a frame
too deep, at its end, a key that is dropped, a getter that throws, one value too
many, a value, a container. Inputs are graphs of containers; a value is one of
six, one for each way the code treats a value. A copied container bears the name
of its original. What can be reached is the least set closed under what follows, so
that no property needs recursion. The names that every module has begin with `Walk`
here (`WalkInit`, `WalkNext`, `WalkSpec`, `WalkTypeOK`), so that a module can extend
this one beside Middleware, whose tokens bear its payload.

## The runs

| Run | Shows | Bounds |
|---|---|---|
| refresh_safety | OneHolderPerFamily, AlarmHasCause, HonestTokenStaysGood, EvidenceKept | 2 calls, 3 tokens, clock 0..2, lifetime 1 |
| refresh_chain | RefinesChain, ReuseKillsFamily | 2 calls, 2 tokens; fair |
| links_safety | TrustedByOwnLink, MailboxHasTheLink, DeadLinksStayDead | 2 calls, 2 links, 1 retry, 2 purposes, clock 0..1, lifetime 0 (a link lasts to the end of its tick) |
| mfa_safety | SecondGuessNeedsRace, ReplayNeedsOverlap | 2 calls, 2 challenges, steps 0..2, window 1 |
| sessions_safety | SurvivorsHaveCause, LostSessionHasCause, DeletedStaysDeleted, ExtensionNeverShortens | 2 calls, 2 grants, 2 resets, clock 0..3, lifetime 3 |
| ratelimit_safety | StoreIsConsistent, NoCallOvertakes, WindowNeverExceeded, PaceBreaksOnlyAfterDenial, EveryCallIsServed | 2 calls, 2 keys, room for 1, 3 tokens, window 2, clock 0..3; fair |
| registration_safety | OneUserPerAddress, SuccessMeansAccount, GhostMailHasCause, StrandedHasCause, TrueMeansIdle, VerifiedStays, WaitEnds | 2 calls, 1 address, 1 retry, 1 poll, clock 0..1, no grace, 6 of the 8 configurations; fair |
| middleware_safety | BlankMeansGone, LoginStaysInJar, CookieOutlivesSession, DeadIsRefused, TokenGoodForItsTime | 2 calls, 2 items, clock 0..6, 2 ticks a second, sessions of 3 ticks, tokens of 2 seconds |
| oauth_safety | OwnCodeOnly, GoodCodeSignsIn, EndsWithTheBodies | 2 calls, 2 browsers, 3 flows; fair |
| normalizer_safety | WalkTypeOK, ResultIsTree, NothingLost, RefusedForCause, Terminates | every input of 3 containers with up to 2 slots each and 4 together, depth 1, 3 values; fair |
| ratelimit_refill | violates RefillIsGradual | 1 call, 1 key |
| middleware_lifetime | violates TokenDiesOnTime | 1 call, 1 token |

Why the bounds are enough: the interesting interleavings are between two calls on
one object, and three tokens make a chain with a first, a middle and a last token
while two calls race on it. The clock is long enough for an object to be created, to
expire and to be purged while a call is in flight; a lifetime of 3 in Sessions tells
a fresh session, one in its last half and an expired one apart, and its second reset
meets what the first one left; room for one key of
two makes every new key evict, and a clock of 0..3 lets a bucket of three tokens
expire full. There every tick makes a whole token; fractions of one are in
ratelimit_refill. Which of several keys makes room takes three keys for two places
and is left to the proof (`OldestFirst`). In refresh_chain two tokens suffice for
one rotation, its race and its replay. Registration needs two calls on one address,
and a third party who follows the mails; with a verification, enumeration is always
protected against, which changes only the answer for a taken address. Middleware
needs two requests of one browser, two logins one after the other and a second of
two ticks, so that Max-Age and exp are rounded. Three containers make every shape of
sharing: a cycle, a diamond, a container that can only be reached through a dropped
slot; an input with more than three values is over MaxNodes, and one nested twice is
over MaxDepth. Two users cannot disturb each other except by name: no operation of
these engines reads another user's records. Calls are interchangeable and the
symmetry over them is used in the runs without liveness.

The type invariants are theorems (`TypeCorrect`, `WalkTypeCorrect`) and take up no
run, but for two that say more: RateLimit's is a part of StoreIsConsistent, and
Normalizer's bounds the count of values.

`CHECK_DEADLOCK FALSE` is set where the system really stops: Sessions, Middleware
(every user deleted, every item generated, the clock at its bound), OAuth (every
redirect handled and no flow left to begin) and Normalizer (the walk is over). In
the other modules something is always possible (a purge, a presentation, a logout).

**Fairness.** Each is what the runtime gives and no more.

- RefreshTokens, `FairSpec`: a call that has started is driven to its answer,
  because the adapter settles its promises and the event loop resumes whoever
  awaits them; nothing is assumed of clients, the purge or the clock. It gives
  ReuseKillsFamily.
- RateLimit, `FairSpec`: a call that is free to run does, because microtasks do. It
  gives EveryCallIsServed.
- Registration: the timer of `waitForActiveTasks` fires, no more: handlers may hang,
  the store may be silent, tasks may be dispatched without end. It gives WaitEnds.
- OAuth: timers fire. EndsWithTheBodies assumes in its own statement, and only
  there, that a response body that has begun is read to its end.
- Normalizer: the loop is synchronous and goes on until it is over.

### Where the repository says more than the code does

Two runs end in a counterexample on purpose; `PROJECT.json` has the quotes.

- **ratelimit_refill**: a refusal stores the refilled level with the old
  `lastRefilled`, so the same time refills the bucket again.
- **middleware_lifetime**: `DEFAULT_TOKEN_TIMEOUT_MS` is passed as
  `expiresInSeconds`: an access token of "15 minutes" lasts a thousand times as long.

Other places where a reader may expect more than the code gives. The passing
properties are worded around each, and say what does hold:

- A successor can be stored after its family was revoked (`refresh-token.ts:135`):
  the winner of a race stores it after the loser's alarm, and it works. The test
  that wants the family dead (`refresh-token.test.ts:223-225`) sees the other order.
  ReuseKillsFamily promises a moment without records, RefinesChain one successor.
- Over the memory adapter, whose `markRefreshTokenUsed` returns nothing, every first
  rotation raises the alarm. With `ConditionalMark = FALSE` the proofs still give
  OneHolderPerFamily and HonestTokenStaysGood; AlarmHasCause needs the contract.
- A link is accepted twice when two calls read it before either deletes it
  (`token.ts:187-193`). The comment at `token.ts:190-192`, `cryptography.md:50` and
  `core-concepts.md:990` take that to be impossible. DeadLinksStayDead says that it
  takes this race; TrustedByOwnLink holds all the same.
- A presentation that read an older link deletes the newer one that was stored since,
  because the delete is by identifier (`token.ts:193`); so does one whose link is
  wrong. MailboxHasTheLink counts such a slot as undone until the next good send.
- A challenge allows two guesses when two calls find it before either deletes it: the
  second revoke does not say that there was nothing left (`login.ts:248-255`,
  `session.ts:123-126`), and both calls check a code. `how-it-works.md:520` says that
  the challenge "is revoked before the authentication continues".
  SecondGuessNeedsRace says that it takes this race, and that no call that comes after
  a guess finds the challenge.
- One TOTP code signs in twice when two challenges are answered at the same time
  (`login.ts:257-294`): ReplayNeedsOverlap says that it takes the overlap.
- A challenge issued before a password reset can be completed after it
  (`complete-account-recovery.ts:27`), a rejected revocation skips the rest, and an
  `updateUser` that rejects although it took effect (`complete-account-recovery.ts:25`)
  skips both revocations. `complete-account-recovery.ts:10-12` names no exception.
  SurvivorsHaveCause asks for one of these causes for each sign-in that is left.
- A provider that stops inside a response body holds `fetchWithTimeout` up for good
  (`oauth.ts:272`): the timer is off by then. EndsWithTheBodies has the condition.
- `waitForActiveTasks` knows of dispatched tasks, not of sends whose link is still
  being stored: TrueMeansIdle is about tasks.
- A verification link followed before its transaction commits is consumed and
  answers invalid-token; the user stays pending. The same goes for a link that expires,
  or that the presentation of an older one deletes. StrandedHasCause is about being
  sent a mail and counts all of these users as sent one.
- `purgeExpiredRegistrations` goes by the time of registration: a link sent again
  does not postpone it.
- `normalizePayload` also drops a key that every object inherits, such as
  `toString`: NothingLost counts it as dropped by the policy.

## The proofs

Eight modules hold theorems. Every safety invariant and every action property that
the passing runs check is a theorem in one of them, and so is the refinement of
RotationChain: for every set of calls, users, browsers, identifiers, addresses, inputs
and configurations, every number of tokens, retries and items, every lifetime and
every bound. The assumptions are the named ones on the
constants (`ConstantsAssumption` and so on), weak typing facts that the runs
evaluate. In every module the argument is the same: an invariant `IInv` that holds
initially and is kept by each action, with the properties as parts of it or
consequences; an action property follows from it one step at a time.

`RefreshTokens_proofs`: `TypeCorrect`, `OneHolder`, `OneChild` and
`ChainImplemented` (`Spec => RefinesChain`), for both kinds of store.
OneHolderPerFamily is not inductive: nothing in it says that the token a call is
about to store is not stored yet, or that an active token has no successor. `IInv`
adds four facts. `Numbering`: a token that was not generated yet occurs nowhere, so
a generated one is new everywhere. `CallsReady`: a call holds what its place in the
code needs. `PendingIsNew`: the token a call is about to store has no record, and no
other call is about to store it. `ParentIsSpent`: a token with a successor is neither
active nor about to be. Most actions only delete records or move a call along:
`ShrinkingKeeps` and `ShrinkingCases` deal with all of them at once, and what is left
is one lemma for each of the three actions that give or take the right to continue
(`StartIssueKeeps`, `MarkWonKeeps`, `CreateKeeps`). The refinement uses the same
invariant: shrinking steps close families or stutter (`ShrinkingCloses`), a login
opens one (`StartIssueOpens`), a won mark spends the head (`MarkWonSpends`), storing
a successor extends the chain (`CreateExtends`).

The second half of that module builds on it: `HonestToken`, `AlarmCause` (for a store
that reports who won) and `Evidence`. Its invariant `Causes` says that the tokens of a
family form a line with one end (`OneTip`) and one owner (`OneOwner`); that what a
call asks with is this end, or the family is disturbed (`PresentedIsTip`); that a
successor stays with its call until it is handed out (`FreshIsKept`); and that
whatever is held and not spent is good (`TokensGood`): active, expired or of a
disturbed family. `GoodStays` is the heart of it. An alarm could only take away the
end of its own line, which is the token it presented.

`OneTimeLinks_proofs`: `TypeCorrect`, `OwnLink`, `Mailbox`, `DeadLinks`. `CallsFit`
and `LinksFit`: what a call, a slot or a mailbox holds was made for what it is
about. `MailFits`: the stored link of a slot that is not undone was mailed, or a send
that will mail it, or replace it, is at work. `UndoneStep`: only a link that is stored
well makes up for what was lost.

`MfaLogin_proofs`: `TypeCorrect`, `SecondGuess`, `ReplayCause`. `ChallengesFit`,
`OneCreates`: a challenge is with one call until it is handed out. `SpentIsGone`: one
that a code was checked on is not stored. `AloneUnlessRaced`: a call that did not race
for its challenge is alone with it, and no code was checked on it before.
`OneDecides`: for a user whose calls never overlapped, one call decides, it has read
what is stored, and that is the newest accepted step.

`Sessions_proofs`: `TypeCorrect`, `LostHasCause`, `Survivors`, `Deleted`,
`NeverShorter`. `SeenFits`: a call that crossed no other goes by the expiry that is
stored. `ResetLeaves`: which grants of an older password are left at each stage of a
reset that is not broken off, each with its own cause. `OneGrants`: a grant is with
one login until it is handed out.

`Registration_proofs`: `TypeCorrect`, `Counting` (the counter of the dispatcher is the
number of its unfinished tasks), `OneUser`, `Accounts`, `Ghosts`, `Stranded`,
`VerifyAnswers`, `Verified`, `TrueIsIdle`. `SendsFit` follows a user to its send, the
send to its task and the task to its mail; `AccountsFit` says which answers a
transaction may still give.

`Middleware_proofs`: `TypeCorrect`, `BlankIsRight`, `Refused`, `GoodForItsTime`.
`ExpiriesFit`: what is stored never outlives a lifetime, and exp is what the token was
generated with; `DeadFits`: a request with a dead token still has the check before it
that will refuse it. The lemmas on whole seconds (`WholeSeconds` and after) are what
rounding amounts to for any length of a second.

The cookie of the browser has an invariant of its own, `JarInv`, with `LoginStays` and
`CookieLastsAsLong`. LoginStaysInJar speaks of the jar alone, and a response on its way
can undo it. `RepliesMatch`: a response sets the cookie of the session its request came
with, or blanks it. `ItemFits`, for a stored session whose requests never overlapped and
lost no response: it has at most one request under way (`IsAlone`); the cookie of a
response on its way lasts to the second as long as what is stored (`ReplyLasts`), and
without one so does the cookie in the jar (`JarLasts`). Of the last login it says that
every request under way is its own, and that without one its cookie is in the jar, or
less than a second of the session is left (`LoginKept`).

The same module proves what Normalizer guarantees, since the payload of those tokens is
its result (`token.ts:87`): `WalkTypeCorrect`, `WalkIsTree`, `WalkLosesNothing`,
`WalkRefusesForCause`, for every finite graph of containers, and both bounds.
ResultIsTree is about the whole copy and a step changes one place of it, so the
invariant `WalkInv` follows the stack. `FramesFit`: a frame stands for a container that
was visited, and no two for the same. `CopiesFit`: only visited containers have copies
with anything in them, and each but the root is in one copy, once. `ReachedFits`: every
set closed under the copies, or under the surviving slots, has all that was visited.
`KeptFits`: a copy has exactly the surviving slots that were passed (`Passed`: all of
them once the frame is gone), in order, and the containers in them were visited; so an
empty stack leaves nothing out. `CountFits`: `count` is the number of slots that count
among those that were passed. `DepthFits`: the depth of a frame is how far its container
lies below the root in the copy, and only the last frame may be too deep. Reachability
is the least closed set, which makes both inclusions a matter of one closed set instead
of an induction over paths.

`RateLimit_proofs`: `Consistent`, `Ordered`, `WindowHolds`, `PaceHolds`, `OldestFirst`.
`Queued`: the calls of a key can be numbered so that each waits for the one before it
and the lock is the last, except the ones that destroy took the lock from, which came
earlier than all others; from this `InOrder`, no call that waits finds an entry from
after the time it read. `MapFits`: `before` orders the keys like a list, so that there
is an oldest one (`SomeIsOldest`). `Windows`: the log has every success that is still
inside a window, and the entry outlives them. `Buckets`: the tokens that are there and
those taken since any success are together at most a full bucket and what was generated
since; an entry that is gone left time enough to fill the bucket. Both hold for any
number of tokens and any rate: the products are split by hand (`OneTokenMore`), as the
solver does not distribute them. `OldestFirst` states OldestGoesFirst, which no run
checks: an entry that still counts makes room only after all that are older.

`OAuth_proofs`: `TypeCorrect`, `CodeStaysHome`, `GoodCode`, `SignIn`. `PendingIsOwn`,
`WireFits` and `SpenderFits` say what can be at the provider, or in a response, for
each place a call can be.

Only model-checked:

- Liveness (ReuseKillsFamily, EveryCallIsServed, WaitEnds, EndsWithTheBodies,
  Terminates): the prover has no rules for ENABLED and fairness.
- That the inputs of normalizer_safety are all the graphs of their size: a theorem
  speaks of any set of them.

## What is not modelled, and why

- Hashing, HMAC, scrypt, base32 and randomness are assumed to do what they are for:
  a hash matches one token only, and two tokens never collide.
- Response floors (`hold-to-floor.ts`) and timing are about durations, not states.
- The rules for single fields (`validation.ts`) are tests of one string: a rejected
  input changes nothing and is one step in Registration.
- Parsing of headers and cookies: a request brings an item, something that the server
  never signed, or nothing.
- `createAuth` (`index.ts`) wires the engines together once, at start.
- `resetAt` and `retryAfter` of the rate limiter are numbers for the caller.
- The test application, its mock adapter, the examples, the build script and the docs
  are read as statements of what the library should do.

What could come next: an abstract "sign-in right" that RefreshTokens and Sessions both
implement, if the two can share a mapping without a contrived one; and what the
middleware promises as a specification of its own, a session that the browser and the
store both know or both have lost.
