------------------------------ MODULE RateLimit ------------------------------
(***************************************************************************)
(* The rate limiter.  TokenBucketStrategy and SlidingWindowStrategy        *)
(* (rate-limit/rate-limit.strategies.ts) over the in-process MemoryStore   *)
(* (rate-limit/rate-limit.store.ts): a Map of entries in insertion order,  *)
(* a chain of promises per key as its lock, and an interval that removes   *)
(* expired entries while there are any.                                    *)
(*                                                                         *)
(* consume reads the clock and queues for the key in one step (Acquire);   *)
(* once the call before it in the queue is done, the code between the      *)
(* await and the return of update runs without a pause (UpdateBucket,      *)
(* UpdateWindow).  The chain runs in microtasks, so the interval does not  *)
(* fire while a call waits, but the clock goes on.                         *)
(*                                                                         *)
(* Tokens are counted in the units a tick of the clock generates.          *)
(***************************************************************************)
EXTENDS Integers, Sequences, FiniteSets

CONSTANTS Calls,          \* slots for concurrent calls of acquire
          Keys,           \* the identifiers
          MaxEntries,     \* maxEntries of the store
          MaxTokens,      \* maxTokens of the bucket
          TicksPerToken,  \* refillRateMs / refillAmount, in ticks
          MaxRequests,    \* maxRequests of the window
          WindowSize,     \* windowMs, in ticks
          MaxTime         \* bound: the last tick of the clock

None == 0                 \* no call, no key
Time == 0..MaxTime
Full == MaxTokens * TicksPerToken

\* validateConfig refuses what is not positive; maxEntries it does not see.
ASSUME RateLimitAssumption ==
  /\ {MaxTokens, TicksPerToken, MaxRequests, WindowSize} \subseteq Nat \ {0}
  /\ {MaxEntries, MaxTime} \subseteq Nat
  /\ None \notin Calls \cup Keys

VARIABLES
  algorithm,  \* which strategy the engine was constructed with
  \* the store
  cached,     \* the keys of the Map
  before,     \* its insertion order: <<j, k>> when j was inserted before k
  expires,    \* expires[k]: the expiresAt of the entry
  tokens,     \* tokens[k]: the tokens in its value, for a bucket
  refilled,   \* refilled[k]: the lastRefilled in its value, for a bucket
  log,        \* log[k]: its value, for a window; equal times are numbered
  locks,      \* locks[k]: the call whose promise is in locks
  timer,      \* the interval: "off" or "running"
  \* the environment
  now,        \* Date.now()
  \* the calls
  pc,         \* "idle", or "wait" for the lock
  key,        \* the key of the call
  at,         \* its now: the time it read before it queued
  previous,   \* the call it waits for
  \* history, read by the properties only
  torn,       \* the calls that were waiting when the store was destroyed
  granted,    \* granted[k]: the times of the successes since the entry of k was last
              \* evicted, or the clock ran ahead of a call of k
  denied,     \* the keys with a refusal since the entry was last evicted
  lagged      \* the keys with a call that the clock ran ahead of, since then

entryVars == <<cached, before, expires, tokens, refilled, log>>
callVars  == <<pc, key, at, previous>>
history   == <<torn, granted, denied, lagged>>
vars == <<algorithm, entryVars, locks, timer, now, callVars, history>>

\* A type.  A bucket below zero is what update makes of a time before
\* lastRefilled, and the updater takes it for a corrupt one.
TypeOK ==
  /\ algorithm \in {"token-bucket", "sliding-window"}
  /\ cached \in SUBSET Keys
  /\ before \in SUBSET (cached \X cached)
  /\ expires \in [Keys -> Nat]
  /\ tokens \in [Keys -> -MaxTime..(Full - 1)]
  /\ refilled \in [Keys -> Time]
  /\ log \in [Keys -> SUBSET (Time \X (1..MaxRequests))]
  /\ \A k \in Keys : Cardinality(log[k]) <= MaxRequests
  /\ locks \in [Keys -> Calls \cup {None}]
  /\ timer \in {"off", "running"}
  /\ now \in Time
  /\ pc \in [Calls -> {"idle", "wait"}]
  /\ key \in [Calls -> Keys \cup {None}]
  /\ at \in [Calls -> Time]
  /\ previous \in [Calls -> Calls \cup {None}]
  /\ torn \in SUBSET Calls
  /\ granted \in [Keys -> Seq(Time)]
  /\ denied \in SUBSET Keys
  /\ lagged \in SUBSET Keys

Init ==
  /\ algorithm \in {"token-bucket", "sliding-window"}
  /\ cached = {}
  /\ before = {}
  /\ expires = [k \in Keys |-> 0]
  /\ tokens = [k \in Keys |-> 0]
  /\ refilled = [k \in Keys |-> 0]
  /\ log = [k \in Keys |-> {}]
  /\ locks = [k \in Keys |-> None]
  /\ timer = "off"
  /\ now = 0
  /\ pc = [c \in Calls |-> "idle"]
  /\ key = [c \in Calls |-> None]
  /\ at = [c \in Calls |-> 0]
  /\ previous = [c \in Calls |-> None]
  /\ torn = {}
  /\ granted = [k \in Keys |-> <<>>]
  /\ denied = {}
  /\ lagged = {}

-----------------------------------------------------------------------------
(* The Map.                                                                *)

\* The entry update finds: one that has expired is deleted instead.
Live(k) == k \in cached /\ expires[k] > now

\* f without the values of the keys that left the Map.
Dropped(f, gone, nothing) == [k \in Keys |-> IF k \in gone THEN nothing ELSE f[k]]

\* The first of these keys by insertion: {} when there is none.
Oldest(S) == {k \in S : \A j \in S : <<j, k>> \notin before}

\* Mutant: the bound is looked at after the key is in.
EvictAboveMax(S) == IF Cardinality(S) > MaxEntries THEN S \ Oldest(S) ELSE S

\* The oldest entry makes room for one more key.
EnforceMaxEntries(S) == IF Cardinality(S) >= MaxEntries THEN S \ Oldest(S) ELSE S

\* What stays in the Map beside k when k is written.
Kept(k) == IF Live(k) THEN cached \ {k} ELSE EnforceMaxEntries(cached \ {k})

\* The entry that made room for k.
Evicted(k) == (cached \ {k}) \ Kept(k)

\* k goes into the Map: at the end, unless its entry is only written again.
Place(k) ==
  /\ cached' = Kept(k) \cup {k}
  /\ before' = IF Live(k) THEN before
               ELSE (before \cap (Kept(k) \X Kept(k))) \cup (Kept(k) \X {k})

\* Mutant: a fixed time to live, however many tokens there are to refill.
FixedTtl == IF algorithm = "token-bucket" THEN TicksPerToken ELSE WindowSize

\* Mutant: a window is kept for as long as its last tick is inside.
TtlOneShort == IF algorithm = "token-bucket" THEN Full ELSE WindowSize - 1

\* The time to live the strategies ask for: from empty to full, or a window.
Ttl == IF algorithm = "token-bucket" THEN Full ELSE WindowSize

-----------------------------------------------------------------------------
(* One call.                                                               *)

\* Everything consume and update do up to `await previous`.
Acquire(c, k) ==
  /\ pc[c] = "idle"
  /\ pc' = [pc EXCEPT ![c] = "wait"]
  /\ key' = [key EXCEPT ![c] = k]
  /\ at' = [at EXCEPT ![c] = now]
  /\ previous' = [previous EXCEPT ![c] = locks[k]]
  /\ locks' = [locks EXCEPT ![k] = c]
  /\ UNCHANGED <<algorithm, entryVars, timer, now, history>>

CanRun(c) == pc[c] = "wait" /\ previous[c] = None

\* Mutant: the lock is deleted although another call has queued behind.
ReleaseForAll(c) ==
  /\ pc' = [pc EXCEPT ![c] = "idle"]
  /\ key' = [key EXCEPT ![c] = None]
  /\ at' = [at EXCEPT ![c] = 0]
  /\ previous' = [d \in Calls |-> IF previous[d] = c THEN None ELSE previous[d]]
  /\ locks' = [locks EXCEPT ![key[c]] = None]

\* Mutant: the lock is left to the next call of the key to replace.
ReleaseKeepingLock(c) ==
  /\ pc' = [pc EXCEPT ![c] = "idle"]
  /\ key' = [key EXCEPT ![c] = None]
  /\ at' = [at EXCEPT ![c] = 0]
  /\ previous' = [d \in Calls |-> IF previous[d] = c THEN None ELSE previous[d]]
  /\ UNCHANGED locks

\* Mutant: release is not called when another call waits.
ReleaseOnlyOwn(c) ==
  /\ pc' = [pc EXCEPT ![c] = "idle"]
  /\ key' = [key EXCEPT ![c] = None]
  /\ at' = [at EXCEPT ![c] = 0]
  /\ UNCHANGED previous
  /\ locks' = [locks EXCEPT ![key[c]] = IF @ = c THEN None ELSE @]

\* The finally block: the next call may run, and the last one leaves no lock.
Release(c) ==
  /\ pc' = [pc EXCEPT ![c] = "idle"]
  /\ key' = [key EXCEPT ![c] = None]
  /\ at' = [at EXCEPT ![c] = 0]
  /\ previous' = [d \in Calls |-> IF previous[d] = c THEN None ELSE previous[d]]
  /\ locks' = [locks EXCEPT ![key[c]] = IF @ = c THEN None ELSE @]

\* History: what the call was told, and the keys that start again.
Record(c, success) ==
  LET k == key[c] IN
  /\ torn' = torn \ {c}
  /\ granted' = [Dropped(granted, Evicted(k), <<>>) EXCEPT
                   ![k] = IF at[c] < now THEN <<>>
                          ELSE IF success THEN Append(@, now) ELSE @]
  /\ denied' = (denied \ Evicted(k)) \cup {j \in {k} : ~success}
  /\ lagged' = (lagged \ Evicted(k)) \cup {j \in {k} : at[c] < now}

\* What update does around the updater.
Update(c, success) ==
  /\ Release(c)
  /\ Place(key[c])
  /\ expires' = [Dropped(expires, Evicted(key[c]), 0) EXCEPT ![key[c]] = now + Ttl]
  /\ timer' = "running"
  /\ Record(c, success)
  /\ UNCHANGED <<algorithm, now>>

\* The tokens of the call: what there was and what has been generated since
\* lastRefilled; all of them without an entry, or with a corrupt one.
Level(c) ==
  LET k == key[c]
      filled == tokens[k] + (at[c] - refilled[k])
  IN  IF Live(k) /\ tokens[k] >= 0
      THEN IF filled < Full THEN filled ELSE Full
      ELSE Full

\* A refusal saves the level it found, but not the time it found it at.
UpdateBucket(c) ==
  LET k == key[c]
      success == Level(c) >= TicksPerToken
      known == Live(k) /\ tokens[k] >= 0
  IN
  /\ algorithm = "token-bucket"
  /\ CanRun(c)
  /\ Update(c, success)
  /\ tokens' = [Dropped(tokens, Evicted(k), 0) EXCEPT
                  ![k] = IF success THEN Level(c) - TicksPerToken ELSE Level(c)]
  /\ refilled' = [Dropped(refilled, Evicted(k), 0) EXCEPT
                    ![k] = IF success \/ ~known THEN at[c] ELSE @]
  /\ UNCHANGED log

\* The times of the window that ends at the call.
Valid(c) ==
  IF Live(key[c]) THEN {e \in log[key[c]] : e[1] > at[c] - WindowSize} ELSE {}

\* A time as an element of the log, told apart from the equal ones in it.
Numbered(t, times) ==
  <<t, CHOOSE n \in 1..MaxRequests : <<t, n>> \notin times>>

\* The call adds its own time when it fits.
UpdateWindow(c) ==
  LET k == key[c]
      success == Cardinality(Valid(c)) < MaxRequests
  IN
  /\ algorithm = "sliding-window"
  /\ CanRun(c)
  /\ Update(c, success)
  /\ log' = [Dropped(log, Evicted(k), {}) EXCEPT
               ![k] = IF success THEN Valid(c) \cup {Numbered(at[c], Valid(c))}
                                 ELSE Valid(c)]
  /\ UNCHANGED <<tokens, refilled>>

-----------------------------------------------------------------------------
(* The store on its own.                                                   *)

Drop(gone) ==
  /\ cached' = cached \ gone
  /\ before' = before \cap ((cached \ gone) \X (cached \ gone))
  /\ expires' = Dropped(expires, gone, 0)
  /\ tokens' = Dropped(tokens, gone, 0)
  /\ refilled' = Dropped(refilled, gone, 0)
  /\ log' = Dropped(log, gone, {})

Expired == {k \in cached : expires[k] <= now}

\* Mutant: the interval is left running over an empty Map.
CleanupKeepingTimer ==
  /\ timer = "running"
  /\ \A c \in Calls : pc[c] = "idle"
  /\ Drop(Expired)
  /\ UNCHANGED <<algorithm, locks, timer, now, callVars, history>>

\* The interval fires: never between the steps of a call (see the header).
CleanupExpired ==
  /\ timer = "running"
  /\ \A c \in Calls : pc[c] = "idle"
  /\ Drop(Expired)
  /\ timer' = IF cached = Expired THEN "off" ELSE "running"
  /\ UNCHANGED <<algorithm, locks, now, callVars, history>>

\* The calls that wait for a lock go on without it.
Destroy ==
  /\ timer' = "off"
  /\ Drop(Keys)
  /\ locks' = [k \in Keys |-> None]
  /\ torn' = {c \in Calls : pc[c] = "wait"}
  /\ granted' = [k \in Keys |-> <<>>]
  /\ denied' = {}
  /\ lagged' = {}
  /\ UNCHANGED <<algorithm, now, callVars>>

Tick ==
  /\ now < MaxTime
  /\ now' = now + 1
  /\ UNCHANGED <<algorithm, entryVars, locks, timer, callVars, history>>

Next ==
  \/ \E c \in Calls :
        \/ \E k \in Keys : Acquire(c, k)
        \/ UpdateBucket(c)
        \/ UpdateWindow(c)
  \/ CleanupExpired
  \/ Destroy
  \/ Tick

Spec == Init /\ [][Next]_vars

\* A promise that is settled runs what waits for it.
FairSpec == Spec /\ \A c \in Calls : WF_vars(UpdateBucket(c) \/ UpdateWindow(c))

-----------------------------------------------------------------------------
(* Properties.                                                             *)

\* The Map has at most maxEntries entries, one of them the oldest, whatever expires,
\* is deleted and comes back (rate-limit.store.ts:111-118); a bound of zero still
\* holds one.
CacheBounded ==
  /\ Cardinality(cached) <= MaxEntries \/ Cardinality(cached) <= 1
  /\ \A j, k \in cached : j # k => (<<j, k>> \in before <=> <<k, j>> \notin before)

\* An entry that still counts leaves the Map only after those that were inserted
\* before it, whichever of them expire or are written again in the meantime
\* (rate-limit.store.ts:105-118).
OldestGoesFirst ==
  [][\A j, k \in cached :
       <<j, k>> \in before /\ Live(k) /\ k \notin cached' => j \notin cached']_vars

\* The interval runs exactly while there is something to remove: the store
\* neither keeps entries nobody will remove nor a timer nobody needs
\* (rate-limit.store.ts:84-86, 146-148, 151-155).
TimerMatchesCache == timer = "running" <=> cached # {}

\* A lock in the Map belongs to a call that is waiting on that key: locks of
\* keys that are not in use are not kept (rate-limit.store.ts:96-101).
NoLockLeaks ==
  \A k \in Keys : locks[k] # None => pc[locks[k]] = "wait" /\ key[locks[k]] = k

\* However calls, evictions, the interval and destroy interleave, the store is
\* left neither with more than it may hold nor with a lock or a timer that
\* nobody will remove.
StoreIsConsistent == TypeOK /\ CacheBounded /\ TimerMatchesCache /\ NoLockLeaks

\* The calls of a key run in the order they read the clock: none finds an entry
\* from a time after its own, except the ones a destroy took the lock from
\* (rate-limit.store.ts:50-59).
NoCallOvertakes ==
  \A c \in Calls \ torn :
    pc[c] = "wait" /\ Live(key[c]) =>
      /\ algorithm = "token-bucket" => refilled[key[c]] <= at[c]
      /\ \A e \in log[key[c]] : e[1] <= at[c]

\* No window of windowMs has more than maxRequests successes of a key, wherever
\* it begins: a success and the one maxRequests after it are a window apart, while
\* the clock does not run on under a waiting call and the entry is not evicted
\* (rate-limit.strategies.ts:96-142, rate-limit.store.ts:68-71).
WindowNeverExceeded ==
  algorithm = "sliding-window" =>
    \A k \in Keys \ lagged : \A i, j \in DOMAIN granted[k] :
      j - i >= MaxRequests => granted[k][j] - granted[k][i] >= WindowSize

\* The successes of a key from one to another are at most a full bucket and what
\* is generated between the two.
Paced(k) ==
  \A i, j \in DOMAIN granted[k] :
    i <= j => (j - i + 1 - MaxTokens) * TicksPerToken <= granted[k][j] - granted[k][i]

\* As long as no call of a key is refused, the bucket keeps its pace, across
\* the expiry of the entry too: a success that is one too many needs a refusal,
\* an eviction or a call the clock ran ahead of (rate-limit.strategies.ts:45-72).
PaceBreaksOnlyAfterDenial ==
  algorithm = "token-bucket" => \A k \in Keys \ (denied \cup lagged) : Paced(k)

\* Every call that queued for a key gets its turn, whoever else queues and even
\* when the store is destroyed (rate-limit.store.ts:50-59, 96-101).
EveryCallIsServed == \A c \in Calls : pc[c] = "wait" ~> pc[c] = "idle"

-----------------------------------------------------------------------------
(* What the repository says and the code does not do.                      *)

\* rate-limit.test.ts:44: "refills gradually over elapsed time, not instantly to
\* full", :51: "1 token per second".
RefillIsGradual == algorithm = "token-bucket" => \A k \in Keys \ lagged : Paced(k)

=============================================================================
