-------------------------- MODULE RateLimit_proofs --------------------------
(***************************************************************************)
(* What RateLimit guarantees for any number of calls and identifiers, any  *)
(* bound of the store and any configuration of both strategies.            *)
(***************************************************************************)
EXTENDS RateLimit, FiniteSetTheorems, WellFoundedInduction, TLAPS

\* The calls that queue for k, without those that destroy took the lock from.
Waiters(k) == {c \in Calls \ torn : pc[c] = "wait" /\ key[c] = k}

\* What a waiting call works with; whoever destroy cut off came first.
CallsFit ==
  /\ \A c \in Calls : pc[c] = "wait" => key[c] \in Keys /\ at[c] <= now
  /\ \A c \in Calls : previous[c] # None => pc[c] = "wait"
  /\ \A c \in torn : pc[c] = "wait"
  /\ \A c \in torn, d \in Calls \ torn : pc[d] = "wait" => at[c] <= at[d]

\* q numbers the calls of each key in the order in which they queued: previous
\* is the number before, and the lock the last one.
QueuedBy(q) ==
  \A k \in Keys :
    /\ \A c, d \in Waiters(k) :
         (q[c] = q[d] => c = d) /\ (q[c] <= q[d] => at[c] <= at[d])
    /\ \A d \in Waiters(k) :
         previous[d] = None => \A e \in Waiters(k) : q[d] <= q[e]
    /\ \A d \in Waiters(k) :
         previous[d] # None =>
           /\ previous[d] \in Waiters(k)
           /\ q[previous[d]] < q[d]
           /\ \A e \in Waiters(k) : q[e] < q[d] => q[e] <= q[previous[d]]
    /\ locks[k] = None => Waiters(k) = {}
    /\ locks[k] # None =>
         /\ locks[k] \in Waiters(k)
         /\ \A e \in Waiters(k) : q[e] <= q[locks[k]]

\* The calls of each key stand in one line.
Queued == \E q \in [Calls -> Nat] : QueuedBy(q)

\* before is the order of a list.
MapFits ==
  /\ IsFiniteSet(cached)
  /\ \A k \in cached : <<k, k>> \notin before
  /\ \A i, j, k \in cached :
       <<i, j>> \in before /\ <<j, k>> \in before => <<i, k>> \in before

\* Nothing in the entry of k is from after t.
UpTo(k, t) ==
  /\ algorithm = "token-bucket" => refilled[k] <= t /\ log[k] = {}
  /\ \A e \in log[k] : e[1] <= t

\* No call that waits finds an entry from after the time it read.
InOrder == \A k \in cached : \A d \in Waiters(k) : UpTo(k, at[d])

\* Nothing in an entry, and no success, is from the future.
Past ==
  \A k \in Keys : UpTo(k, now) /\ \A i \in DOMAIN granted[k] : granted[k][i] <= now

\* How many successes of k there are from the i-th on.
Since(k, i) == Len(granted[k]) - i + 1

\* The tokens and what was taken since a success are together at most a full
\* bucket and what was generated since; without an entry there was time enough
\* to generate what was taken.
BucketFits(k) ==
  /\ k \in cached =>
       /\ tokens[k] >= 0
       /\ expires[k] = refilled[k] + Full
       /\ \A i \in DOMAIN granted[k] :
            /\ granted[k][i] <= refilled[k]
            /\ Since(k, i) * TicksPerToken + tokens[k]
                 <= Full + (refilled[k] - granted[k][i])
  /\ k \notin cached =>
       \A i \in DOMAIN granted[k] :
         Since(k, i) * TicksPerToken <= now - granted[k][i]
  /\ Paced(k)

\* The log holds the successes of the last window; without an entry there are
\* none.
WindowFits(k) ==
  /\ k \in cached =>
       \A i \in DOMAIN granted[k] :
         /\ granted[k][i] + WindowSize <= expires[k]
         /\ granted[k][i] + WindowSize > now =>
              Since(k, i) <= Cardinality({e \in log[k] : e[1] >= granted[k][i]})
  /\ k \notin cached =>
       \A i \in DOMAIN granted[k] : granted[k][i] + WindowSize <= now
  /\ \A i, j \in DOMAIN granted[k] :
       j - i >= MaxRequests => granted[k][j] - granted[k][i] >= WindowSize

\* What the entries owe, for as long as the property speaks of them.
Buckets ==
  algorithm = "token-bucket" => \A k \in Keys \ (denied \cup lagged) : BucketFits(k)

Windows == algorithm = "sliding-window" => \A k \in Keys \ lagged : WindowFits(k)

\* What the store is, whatever the strategy.
StoreInv ==
  /\ TypeOK
  /\ CallsFit
  /\ Queued
  /\ MapFits
  /\ CacheBounded
  /\ TimerMatchesCache
  /\ Past

\* The inductive invariant: the store and its queues, and what the entries are worth.
IInv == StoreInv /\ InOrder /\ Buckets /\ Windows

-----------------------------------------------------------------------------
(* Numbers.                                                                *)

\* The assumptions, in the form in which arithmetic uses them.
LEMMA Constants ==
  /\ MaxTokens \in Nat /\ MaxTokens >= 1
  /\ TicksPerToken \in Nat /\ TicksPerToken >= 1
  /\ MaxRequests \in Nat /\ MaxRequests >= 1
  /\ WindowSize \in Nat /\ WindowSize >= 1
  /\ MaxEntries \in Nat
  /\ MaxTime \in Nat
  /\ 0 \notin Calls
  /\ 0 \notin Keys
BY RateLimitAssumption DEF None

\* A product with one factor more, and with maxTokens factors fewer.
LEMMA OneTokenMore ==
  ASSUME NEW a \in Int
  PROVE  /\ a * TicksPerToken \in Int
         /\ (a + 1) * TicksPerToken = a * TicksPerToken + TicksPerToken
         /\ (a - MaxTokens) * TicksPerToken = a * TicksPerToken - Full
<1>1. ASSUME NEW x \in Int, NEW y \in Int, NEW z \in Int
      PROVE  (x - y) * z = x * z - y * z
  OBVIOUS
<1>2. ASSUME NEW x \in Int, NEW z \in Int
      PROVE  (x + 1) * z = x * z + z
  OBVIOUS
<1>3. QED
  BY <1>1, <1>2, Constants DEF Full

\* A full bucket has at least one token.
LEMMA FullBucket == Full \in Nat /\ Full >= TicksPerToken
<1>1. ASSUME NEW x \in Nat, NEW y \in Nat, x >= 1
      PROVE  x * y \in Nat /\ x * y >= y
  <2>1. (x - 1) * y >= 0
    BY <1>1
  <2>2. (x - 1) * y = x * y - y
    OBVIOUS
  <2>3. x * y \in Nat
    OBVIOUS
  <2>4. QED
    BY <2>1, <2>2, <2>3
<1>2. QED
  BY <1>1, Constants DEF Full

-----------------------------------------------------------------------------
(* The log of a window.                                                    *)

\* A log is a finite set.
LEMMA LogIsFinite ==
  ASSUME NEW S, S \subseteq Time \X (1..MaxRequests)
  PROVE  IsFiniteSet(S)
<1>1. IsFiniteSet(Time) /\ IsFiniteSet(1..MaxRequests)
  BY Constants, FS_Interval DEF Time
<1>2. IsFiniteSet(Time \X (1..MaxRequests))
  BY <1>1, FS_Product
<1>3. QED
  BY <1>2, FS_Subset

\* There is a number left for a time that fits.
LEMMA NumberedIsNew ==
  ASSUME NEW S, S \subseteq Time \X (1..MaxRequests),
         Cardinality(S) < MaxRequests, NEW t \in Time
  PROVE  /\ Numbered(t, S) \in (Time \X (1..MaxRequests)) \ S
         /\ Numbered(t, S)[1] = t
<1> DEFINE Same == {t} \X (1..MaxRequests)
<1>1. \E n \in 1..MaxRequests : <<t, n>> \notin S
  <2>1. SUFFICES ASSUME \A n \in 1..MaxRequests : <<t, n>> \in S
                 PROVE  FALSE
    OBVIOUS
  <2>2. Same \subseteq S
    BY <2>1
  <2>3. IsFiniteSet(S)
    BY LogIsFinite
  <2>4. Cardinality(Same) <= Cardinality(S)
    BY <2>2, <2>3, FS_Subset
  <2>5. IsFiniteSet({t}) /\ Cardinality({t}) = 1
    BY FS_Singleton
  <2>6. IsFiniteSet(1..MaxRequests) /\ Cardinality(1..MaxRequests) = MaxRequests
    BY Constants, FS_Interval
  <2>7. Cardinality(Same) = Cardinality({t}) * Cardinality(1..MaxRequests)
    BY <2>5, <2>6, FS_Product
  <2>8. Cardinality(Same) = MaxRequests
    BY <2>5, <2>6, <2>7, Constants
  <2>9. Cardinality(S) \in Nat
    BY <2>3, FS_CardinalityType
  <2>10. QED
    BY <2>4, <2>8, <2>9, Constants
<1>2. PICK n \in 1..MaxRequests :
        n = (CHOOSE m \in 1..MaxRequests : <<t, m>> \notin S) /\ <<t, n>> \notin S
  BY <1>1, Zenon
<1>3. Numbered(t, S) = <<t, n>>
  BY <1>2, Zenon DEF Numbered
<1>4. <<t, n>> \notin S
  BY <1>2, Zenon
<1>5. <<t, n>> \in (Time \X (1..MaxRequests)) \ S /\ <<t, n>>[1] = t
  BY <1>4
<1>6. QED
  BY <1>3, <1>5, Zenon

\* What the call leaves in the log of its key.
LEMMA ValidFits ==
  ASSUME TypeOK, NEW c \in Calls, key[c] \in Keys
  PROVE  /\ Valid(c) \subseteq log[key[c]]
         /\ Valid(c) \subseteq Time \X (1..MaxRequests)
         /\ IsFiniteSet(Valid(c))
         /\ Cardinality(Valid(c)) \in Nat
         /\ Cardinality(Valid(c)) <= MaxRequests
<1>1. log[key[c]] \subseteq Time \X (1..MaxRequests) /\ Cardinality(log[key[c]]) <= MaxRequests
  BY DEF TypeOK
<1>2. Valid(c) \subseteq log[key[c]]
  BY DEF Valid
<1>3. IsFiniteSet(log[key[c]])
  BY <1>1, LogIsFinite
<1>4. IsFiniteSet(Valid(c)) /\ Cardinality(Valid(c)) <= Cardinality(log[key[c]])
  BY <1>2, <1>3, FS_Subset
<1>5. Cardinality(Valid(c)) \in Nat /\ Cardinality(log[key[c]]) \in Nat
  BY <1>3, <1>4, FS_CardinalityType
<1>6. QED
  BY <1>1, <1>2, <1>4, <1>5, Constants

-----------------------------------------------------------------------------
(* The list.                                                               *)

\* There is an oldest key in every part of the Map that is not empty.
LEMMA SomeIsOldest ==
  ASSUME MapFits, NEW S, S \subseteq cached, S # {}
  PROVE  Oldest(S) # {}
<1> DEFINE Earlier(k) == {j \in cached : <<j, k>> \in before}
           Found == {Earlier(k) : k \in S}
           R == StrictSubsetOrdering(cached)
           F == FiniteSubsetsOf(cached)
<1>1. ASSUME NEW k \in S
      PROVE  Earlier(k) \in F
  <2>1. Earlier(k) \in SUBSET cached
    OBVIOUS
  <2>2. IsFiniteSet(Earlier(k))
    BY <2>1, FS_Subset DEF MapFits
  <2>3. QED
    BY <2>1, <2>2 DEF FiniteSubsetsOf
<1>2. Found \subseteq F /\ Found # {}
  BY <1>1
<1>3. IsWellFoundedOn(R, F)
  BY FS_StrictSubsetOrderingWellFounded
<1> HIDE DEF R, F
<1>4. PICK P \in Found : \A Q \in Found : <<Q, P>> \notin R
  BY <1>2, <1>3, WFMin
<1>5. PICK k \in S : P = Earlier(k)
  BY <1>4
<1>6. ASSUME NEW j \in S, <<j, k>> \in before
      PROVE  FALSE
  <2>1. Earlier(j) \subseteq Earlier(k)
    BY <1>6, k \in cached, j \in cached DEF MapFits
  <2>2. j \in Earlier(k) /\ j \notin Earlier(j)
    BY <1>6 DEF MapFits
  <2>3. Earlier(j) \in F /\ Earlier(k) \in F
    BY <1>1
  <2>4. Earlier(j) \in SUBSET cached /\ Earlier(k) \in SUBSET cached
    OBVIOUS
  <2>5. <<Earlier(j), Earlier(k)>> \in R
    BY <2>1, <2>2, <2>4 DEF R, StrictSubsetOrdering
  <2>6. QED
    BY <2>5, <1>4, <1>5
<1>7. k \in Oldest(S)
  BY <1>6 DEF Oldest
<1>8. QED
  BY <1>7

-----------------------------------------------------------------------------
(* What an update does to the keys.                                        *)

\* The key that makes room is another one, and an entry that is only written
\* again asks for no room.
LEMMA EvictedFits ==
  ASSUME NEW k \in Keys
  PROVE  /\ Evicted(k) \subseteq cached \ {k}
         /\ Kept(k) = (cached \ {k}) \ Evicted(k)
         /\ Live(k) => Evicted(k) = {}
<1>1. Kept(k) \subseteq cached \ {k}
  BY DEF Kept, EnforceMaxEntries
<1>2. Live(k) => Kept(k) = cached \ {k}
  BY DEF Kept
<1>3. QED
  BY <1>1, <1>2 DEF Evicted

\* The key of the call.
LEMMA UpdateOwn ==
  ASSUME TypeOK, NEW c \in Calls, key[c] \in Keys,
         NEW success \in BOOLEAN, Update(c, success)
  PROVE  /\ key[c] \in cached'
         /\ expires'[key[c]] = now + Ttl
         /\ granted'[key[c]] = IF at[c] < now THEN <<>>
                               ELSE IF success THEN Append(granted[key[c]], now)
                               ELSE granted[key[c]]
         /\ key[c] \in denied' <=> (key[c] \in denied \/ ~success)
         /\ key[c] \in lagged' <=> (key[c] \in lagged \/ at[c] < now)
         /\ algorithm' = algorithm /\ now' = now
<1>1. key[c] \notin Evicted(key[c])
  BY EvictedFits
<1>2. key[c] \in cached' /\ algorithm' = algorithm /\ now' = now
  BY DEF Update, Place
<1>3. expires'[key[c]] = now + Ttl
  BY DEF Update, Dropped, TypeOK
<1>4. granted'[key[c]] = IF at[c] < now THEN <<>>
                         ELSE IF success THEN Append(granted[key[c]], now)
                         ELSE granted[key[c]]
  BY <1>1 DEF Update, Record, Dropped, TypeOK
<1>5. key[c] \in denied' <=> (key[c] \in denied \/ ~success)
  BY <1>1 DEF Update, Record
<1>6. key[c] \in lagged' <=> (key[c] \in lagged \/ at[c] < now)
  BY <1>1 DEF Update, Record
<1>7. QED
  BY <1>2, <1>3, <1>4, <1>5, <1>6

\* A key that makes room starts again.
LEMMA UpdateEvicted ==
  ASSUME TypeOK, NEW c \in Calls, key[c] \in Keys,
         NEW success \in BOOLEAN, Update(c, success),
         NEW j \in Evicted(key[c])
  PROVE  /\ j \in Keys /\ j \in cached /\ j # key[c]
         /\ j \notin cached'
         /\ granted'[j] = <<>>
         /\ j \notin denied' /\ j \notin lagged'
<1>1. j \in Keys /\ j \in cached /\ j # key[c]
  BY EvictedFits DEF TypeOK
<1>2. j \notin cached'
  BY <1>1, EvictedFits DEF Update, Place
<1>3. granted'[j] = <<>>
  BY <1>1 DEF Update, Record, Dropped, TypeOK
<1>4. j \notin denied' /\ j \notin lagged'
  BY <1>1 DEF Update, Record
<1>5. QED
  BY <1>1, <1>2, <1>3, <1>4

\* The other keys stay what they are.
LEMMA UpdateOther ==
  ASSUME TypeOK, NEW c \in Calls, key[c] \in Keys,
         NEW success \in BOOLEAN, Update(c, success),
         NEW j \in Keys, j # key[c], j \notin Evicted(key[c])
  PROVE  /\ j \in cached' <=> j \in cached
         /\ expires'[j] = expires[j]
         /\ granted'[j] = granted[j]
         /\ j \in denied' <=> j \in denied
         /\ j \in lagged' <=> j \in lagged
<1>1. j \in cached' <=> j \in cached
  BY EvictedFits DEF Update, Place
<1>2. expires'[j] = expires[j]
  BY DEF Update, Dropped, TypeOK
<1>3. granted'[j] = granted[j]
  BY DEF Update, Record, Dropped, TypeOK
<1>4. (j \in denied' <=> j \in denied) /\ (j \in lagged' <=> j \in lagged)
  BY DEF Update, Record
<1>5. QED
  BY <1>1, <1>2, <1>3, <1>4

\* The values of a bucket.
LEMMA BucketValues ==
  ASSUME TypeOK, NEW c \in Calls, key[c] \in Keys, UpdateBucket(c)
  PROVE  /\ \E success \in BOOLEAN :
              /\ success <=> Level(c) >= TicksPerToken
              /\ Update(c, success)
         /\ tokens'[key[c]] = IF Level(c) >= TicksPerToken
                              THEN Level(c) - TicksPerToken ELSE Level(c)
         /\ refilled'[key[c]] = IF Level(c) >= TicksPerToken
                                     \/ ~(Live(key[c]) /\ tokens[key[c]] >= 0)
                                THEN at[c] ELSE refilled[key[c]]
         /\ \A j \in Keys \ Evicted(key[c]) :
              j # key[c] => tokens'[j] = tokens[j] /\ refilled'[j] = refilled[j]
         /\ \A j \in Evicted(key[c]) : tokens'[j] = 0 /\ refilled'[j] = 0
         /\ log' = log /\ algorithm = "token-bucket" /\ algorithm' = algorithm
<1> DEFINE k == key[c]
<1>1. key[c] \notin Evicted(key[c]) /\ Evicted(key[c]) \subseteq Keys
  BY EvictedFits DEF TypeOK
<1>2. /\ Update(c, Level(c) >= TicksPerToken)
      /\ tokens' = [Dropped(tokens, Evicted(k), 0) EXCEPT
                  ![k] = IF Level(c) >= TicksPerToken THEN Level(c) - TicksPerToken ELSE Level(c)]
      /\ refilled' = [Dropped(refilled, Evicted(k), 0) EXCEPT
                    ![k] = IF Level(c) >= TicksPerToken \/ ~(Live(k) /\ tokens[k] >= 0) THEN at[c] ELSE @]
      /\ log' = log /\ algorithm = "token-bucket" /\ algorithm' = algorithm
  BY DEF UpdateBucket, Update
<1>3. (Level(c) >= TicksPerToken) \in BOOLEAN
  OBVIOUS
<1>4. \E success \in BOOLEAN :
         (success <=> Level(c) >= TicksPerToken) /\ Update(c, success)
  BY <1>2, <1>3
<1> HIDE DEF k
<1>5. k \in Keys
  BY DEF k
<1>6. tokens'[k] = IF Level(c) >= TicksPerToken
                              THEN Level(c) - TicksPerToken ELSE Level(c)
  BY <1>2, <1>5 DEF Dropped
<1>7. refilled'[k] = IF Level(c) >= TicksPerToken \/ ~(Live(k) /\ tokens[k] >= 0)
                                THEN at[c] ELSE refilled[k]
  BY <1>1, <1>2, <1>5 DEF Dropped, k
<1>8. \A j \in Keys \ Evicted(k) :
         j # k => tokens'[j] = tokens[j] /\ refilled'[j] = refilled[j]
  BY <1>2 DEF Dropped
<1>9. \A j \in Evicted(k) : tokens'[j] = 0 /\ refilled'[j] = 0
  BY <1>1, <1>2 DEF Dropped, k
<1>10. QED
  BY <1>2, <1>4, <1>6, <1>7, <1>8, <1>9 DEF k

\* The values of a window.
LEMMA WindowValues ==
  ASSUME TypeOK, NEW c \in Calls, key[c] \in Keys, UpdateWindow(c)
  PROVE  /\ \E success \in BOOLEAN :
              /\ success <=> Cardinality(Valid(c)) < MaxRequests
              /\ Update(c, success)
         /\ log'[key[c]] = IF Cardinality(Valid(c)) < MaxRequests
                           THEN Valid(c) \cup {Numbered(at[c], Valid(c))}
                           ELSE Valid(c)
         /\ \A j \in Keys \ Evicted(key[c]) : j # key[c] => log'[j] = log[j]
         /\ \A j \in Evicted(key[c]) : log'[j] = {}
         /\ tokens' = tokens /\ refilled' = refilled
         /\ algorithm = "sliding-window" /\ algorithm' = algorithm
<1> DEFINE k == key[c]
           written == IF Cardinality(Valid(c)) < MaxRequests
                      THEN Valid(c) \cup {Numbered(at[c], Valid(c))} ELSE Valid(c)
<1>1. key[c] \notin Evicted(key[c]) /\ Evicted(key[c]) \subseteq Keys
  BY EvictedFits DEF TypeOK
<1>2. /\ Update(c, Cardinality(Valid(c)) < MaxRequests)
      /\ log' = [Dropped(log, Evicted(k), {}) EXCEPT ![k] = written]
      /\ tokens' = tokens /\ refilled' = refilled
      /\ algorithm = "sliding-window" /\ algorithm' = algorithm
  BY DEF UpdateWindow, Update
<1>3. (Cardinality(Valid(c)) < MaxRequests) \in BOOLEAN
  OBVIOUS
<1>4. \E success \in BOOLEAN :
         (success <=> Cardinality(Valid(c)) < MaxRequests) /\ Update(c, success)
  BY <1>2, <1>3
<1> HIDE DEF k, written
<1>5. k \in Keys
  BY DEF k
<1>6. log'[k] = written
  BY <1>2, <1>5 DEF Dropped
<1>7. \A j \in Keys \ Evicted(k) : j # k => log'[j] = log[j]
  BY <1>2 DEF Dropped
<1>8. \A j \in Evicted(k) : log'[j] = {}
  BY <1>1, <1>2 DEF Dropped, k
<1>9. QED
  BY <1>2, <1>4, <1>6, <1>7, <1>8 DEF k, written

-----------------------------------------------------------------------------
(* Types.                                                                  *)

\* A bucket is never over its brim.
LEMMA LevelType ==
  ASSUME TypeOK, NEW c \in Calls, key[c] \in Keys
  PROVE  Level(c) \in Int /\ -MaxTime <= Level(c) /\ Level(c) <= Full
<1>1. tokens[key[c]] \in Int /\ at[c] \in 0..MaxTime /\ refilled[key[c]] \in 0..MaxTime
  BY FullBucket, Constants DEF TypeOK, Time
<1>2. Full \in Nat /\ MaxTime \in Nat
  BY FullBucket, Constants
<1>3. QED
  BY <1>1, <1>2 DEF Level

\* What is common to both kinds of update.
LEMMA UpdateType ==
  ASSUME TypeOK, NEW c \in Calls, key[c] \in Keys,
         NEW success \in BOOLEAN, Update(c, success)
  PROVE  /\ algorithm' \in {"token-bucket", "sliding-window"}
         /\ cached' \in SUBSET Keys
         /\ before' \in SUBSET (cached' \X cached')
         /\ expires' \in [Keys -> Nat]
         /\ locks' \in [Keys -> Calls \cup {None}]
         /\ timer' \in {"off", "running"}
         /\ now' \in Time
         /\ pc' \in [Calls -> {"idle", "wait"}]
         /\ key' \in [Calls -> Keys \cup {None}]
         /\ at' \in [Calls -> Time]
         /\ previous' \in [Calls -> Calls \cup {None}]
         /\ torn' \in SUBSET Calls
         /\ granted' \in [Keys -> Seq(Time)]
         /\ denied' \in SUBSET Keys
         /\ lagged' \in SUBSET Keys
<1> DEFINE k == key[c]
<1>a. /\ cached' = Kept(k) \cup {k}
      /\ before' = IF Live(k) THEN before
                   ELSE (before \cap (Kept(k) \X Kept(k))) \cup (Kept(k) \X {k})
  BY DEF Update, Place
<1>b. Kept(k) \subseteq cached /\ (Live(k) => Kept(k) = cached \ {k} /\ k \in cached)
  BY EvictedFits DEF Kept, Live
<1>1. cached' \in SUBSET Keys /\ before' \in SUBSET (cached' \X cached')
  <2>1. cached' \in SUBSET Keys
    BY <1>a, <1>b DEF TypeOK
  <2>2. CASE Live(k)
    <3>1. before' = before /\ cached' = cached
      BY <2>2, <1>a, <1>b
    <3>2. QED
      BY <2>1, <3>1 DEF TypeOK
  <2>3. CASE ~Live(k)
    <3>1. before' \subseteq cached' \X cached'
      BY <2>3, <1>a
    <3>2. QED
      BY <2>1, <3>1
  <2>4. QED
    BY <2>2, <2>3
<1>2. Ttl \in Nat /\ now \in Nat
  BY FullBucket, Constants DEF Ttl, TypeOK, Time
<1>3. expires' \in [Keys -> Nat]
  <2>1. Dropped(expires, Evicted(key[c]), 0) \in [Keys -> Nat]
    BY DEF Dropped, TypeOK
  <2>2. now + Ttl \in Nat
    BY <1>2
  <2>3. QED
    BY <2>1, <2>2 DEF Update
<1>4. 0 \in Time
  BY Constants DEF Time
<1>5. /\ pc' \in [Calls -> {"idle", "wait"}]
      /\ key' \in [Calls -> Keys \cup {None}]
      /\ at' \in [Calls -> Time]
      /\ previous' \in [Calls -> Calls \cup {None}]
      /\ locks' \in [Keys -> Calls \cup {None}]
  BY <1>4 DEF Update, Release, TypeOK
<1>6. granted' \in [Keys -> Seq(Time)]
  <2>1. Dropped(granted, Evicted(key[c]), <<>>) \in [Keys -> Seq(Time)]
    BY DEF Dropped, TypeOK
  <2>2. now \in Time
    BY DEF TypeOK
  <2>3. ASSUME NEW g \in Seq(Time) PROVE Append(g, now) \in Seq(Time)
    BY <2>2
  <2>4. QED
    BY <2>1, <2>3 DEF Update, Record
<1>7. torn' \in SUBSET Calls /\ denied' \in SUBSET Keys /\ lagged' \in SUBSET Keys
  BY DEF Update, Record, TypeOK
<1>8. /\ algorithm' \in {"token-bucket", "sliding-window"}
      /\ timer' \in {"off", "running"} /\ now' \in Time
  BY DEF Update, TypeOK
<1>9. QED
  BY <1>1, <1>3, <1>5, <1>6, <1>7, <1>8

\* What leaves the Map has no value.
LEMMA DropType ==
  ASSUME TypeOK, NEW gone, Drop(gone)
  PROVE  /\ cached' \in SUBSET Keys
         /\ before' \in SUBSET (cached' \X cached')
         /\ expires' \in [Keys -> Nat]
         /\ tokens' \in [Keys -> -MaxTime..(Full - 1)]
         /\ refilled' \in [Keys -> Time]
         /\ log' \in [Keys -> SUBSET (Time \X (1..MaxRequests))]
         /\ \A k \in Keys : Cardinality(log'[k]) <= MaxRequests
<1>1. cached' \in SUBSET Keys /\ before' \in SUBSET (cached' \X cached')
  BY DEF Drop, TypeOK
<1>2. 0 \in Time /\ 0 \in -MaxTime..(Full - 1) /\ 0 \in Nat
  BY FullBucket, Constants DEF Time
<1>3. /\ expires' \in [Keys -> Nat]
      /\ tokens' \in [Keys -> -MaxTime..(Full - 1)]
      /\ refilled' \in [Keys -> Time]
  BY <1>2 DEF Drop, Dropped, TypeOK
<1>4. log' \in [Keys -> SUBSET (Time \X (1..MaxRequests))]
  BY DEF Drop, Dropped, TypeOK
<1>5. ASSUME NEW k \in Keys
      PROVE  Cardinality(log'[k]) <= MaxRequests
  <2>1. log'[k] = {} \/ log'[k] = log[k]
    BY DEF Drop, Dropped
  <2>2. Cardinality({}) <= MaxRequests
    BY FS_EmptySet, Constants
  <2>3. Cardinality(log[k]) <= MaxRequests
    BY DEF TypeOK
  <2>4. QED
    BY <2>1, <2>2, <2>3
<1>6. QED
  BY <1>1, <1>3, <1>4, <1>5

LEMMA TypeInitial == Init => TypeOK
<1> SUFFICES ASSUME Init PROVE TypeOK
  OBVIOUS
<1>1. 0 \in Time /\ 0 \in -MaxTime..(Full - 1) /\ 0 \in Nat
  BY FullBucket, Constants DEF Time
<1>2. \A k \in Keys : Cardinality(log[k]) <= MaxRequests
  BY FS_EmptySet, Constants DEF Init
<1>3. log \in [Keys -> SUBSET (Time \X (1..MaxRequests))]
  BY DEF Init
<1>4. granted \in [Keys -> Seq(Time)]
  BY DEF Init
<1>5. QED
  BY <1>1, <1>2, <1>3, <1>4 DEF Init, TypeOK

\* Every step keeps the types.
LEMMA TypeNext ==
  ASSUME TypeOK, CallsFit, Next
  PROVE  TypeOK'
<1>1. ASSUME NEW c \in Calls, NEW k \in Keys, Acquire(c, k)
      PROVE  TypeOK'
  BY <1>1 DEF Acquire, TypeOK, entryVars, history
<1>2. ASSUME NEW c \in Calls, UpdateBucket(c)
      PROVE  TypeOK'
  <2>1. key[c] \in Keys
    BY <1>2 DEF UpdateBucket, CanRun, CallsFit
  <2>2. PICK success \in BOOLEAN : Update(c, success)
    BY <1>2, <2>1, BucketValues
  <2>3. Level(c) \in Int /\ -MaxTime <= Level(c) /\ Level(c) <= Full
    BY <2>1, LevelType
  <2>4. /\ 0 \in Time /\ 0 \in -MaxTime..(Full - 1)
        /\ (IF Level(c) >= TicksPerToken THEN Level(c) - TicksPerToken ELSE Level(c))
             \in -MaxTime..(Full - 1)
    BY <2>3, FullBucket, Constants DEF Time
  <2>5. tokens' \in [Keys -> -MaxTime..(Full - 1)]
    BY <1>2, <2>4 DEF UpdateBucket, Dropped, TypeOK
  <2>6. refilled' \in [Keys -> Time]
    BY <1>2, <2>4, ZenonT(30) DEF UpdateBucket, Dropped, TypeOK
  <2>7. log' = log
    BY <1>2, <2>1, BucketValues
  <2>8. QED
    BY <2>1, <2>2, <2>5, <2>6, <2>7, UpdateType, ZenonT(30) DEF TypeOK
<1>3. ASSUME NEW c \in Calls, UpdateWindow(c)
      PROVE  TypeOK'
  <2>1. key[c] \in Keys
    BY <1>3 DEF UpdateWindow, CanRun, CallsFit
  <2>2. PICK success \in BOOLEAN : Update(c, success)
    BY <1>3, <2>1, WindowValues
  <2>3. /\ tokens' = tokens /\ refilled' = refilled
        /\ log'[key[c]] = IF Cardinality(Valid(c)) < MaxRequests
                           THEN Valid(c) \cup {Numbered(at[c], Valid(c))}
                           ELSE Valid(c)
        /\ \A j \in Keys \ Evicted(key[c]) : j # key[c] => log'[j] = log[j]
        /\ \A j \in Evicted(key[c]) : log'[j] = {}
    BY <1>3, <2>1, WindowValues
  <2>4. at[c] \in Time
    BY DEF TypeOK
  <2>5. /\ log'[key[c]] \subseteq Time \X (1..MaxRequests)
        /\ Cardinality(log'[key[c]]) <= MaxRequests
    <3>1. CASE Cardinality(Valid(c)) < MaxRequests
      <4>1. Numbered(at[c], Valid(c)) \in (Time \X (1..MaxRequests)) \ Valid(c)
        BY <3>1, <2>1, <2>4, ValidFits, NumberedIsNew
      <4>2. Cardinality(Valid(c) \cup {Numbered(at[c], Valid(c))}) = Cardinality(Valid(c)) + 1
        BY <4>1, <2>1, ValidFits, FS_AddElement
      <4>3. QED
        BY <3>1, <4>1, <4>2, <2>1, <2>3, ValidFits, Constants
    <3>2. CASE ~(Cardinality(Valid(c)) < MaxRequests)
      BY <3>2, <2>1, <2>3, ValidFits
    <3>3. QED
      BY <3>1, <3>2
  <2>6. ASSUME NEW j \in Keys
        PROVE  /\ log'[j] \in SUBSET (Time \X (1..MaxRequests))
               /\ Cardinality(log'[j]) <= MaxRequests
    <3>1. CASE j = key[c]
      BY <3>1, <2>5
    <3>2. CASE j \in Evicted(key[c])
      BY <3>2, <2>3, FS_EmptySet, Constants, SMTT(30)
    <3>3. CASE j # key[c] /\ j \notin Evicted(key[c])
      BY <3>3, <2>3 DEF TypeOK
    <3>4. QED
      BY <3>1, <3>2, <3>3
  <2>7. log' \in [Keys -> SUBSET (Time \X (1..MaxRequests))]
    <3>1. DOMAIN log' = Keys /\ log' = [j \in Keys |-> log'[j]]
      BY <1>3 DEF UpdateWindow, Dropped
    <3>2. QED
      BY <3>1, <2>6
  <2>8. QED
    BY <2>1, <2>2, <2>3, <2>6, <2>7, UpdateType, ZenonT(30) DEF TypeOK
<1>4. ASSUME CleanupExpired
      PROVE  TypeOK'
  <2>1. Drop(Expired)
    BY <1>4 DEF CleanupExpired
  <2>2. QED
    BY <1>4, <2>1, DropType DEF CleanupExpired, TypeOK, callVars, history
<1>5. ASSUME Destroy
      PROVE  TypeOK'
  <2>1. Drop(Keys)
    BY <1>5 DEF Destroy
  <2>2. granted' \in [Keys -> Seq(Time)]
    BY <1>5 DEF Destroy
  <2>3. QED
    BY <1>5, <2>1, <2>2, DropType DEF Destroy, TypeOK, callVars
<1>6. ASSUME Tick
      PROVE  TypeOK'
  <2>1. now' \in Time
    BY <1>6, Constants DEF Tick, TypeOK, Time
  <2>2. QED
    BY <1>6, <2>1 DEF Tick, TypeOK, entryVars, callVars, history
<1>7. QED
  BY <1>1, <1>2, <1>3, <1>4, <1>5, <1>6 DEF Next

-----------------------------------------------------------------------------
(* The calls and their queues.                                             *)

\* A call that runs was the first of its line, and came before now.
LEMMA UpdateRuns ==
  ASSUME TypeOK, CallsFit, NEW c \in Calls, UpdateBucket(c) \/ UpdateWindow(c)
  PROVE  /\ pc[c] = "wait" /\ previous[c] = None
         /\ key[c] \in Keys /\ at[c] \in Time /\ at[c] <= now
         /\ \E success \in BOOLEAN : Update(c, success)
<1>1. CanRun(c)
  BY DEF UpdateBucket, UpdateWindow
<1>2. key[c] \in Keys /\ at[c] \in Time /\ at[c] <= now
  BY <1>1 DEF CanRun, CallsFit, TypeOK
<1>3. \E success \in BOOLEAN : Update(c, success)
  BY <1>2, BucketValues, WindowValues
<1>4. QED
  BY <1>1, <1>2, <1>3 DEF CanRun

\* A call that is done is nowhere any more, and the others wait as before.
LEMMA UpdateCalls ==
  ASSUME TypeOK, NEW c \in Calls, key[c] \in Keys,
         NEW success \in BOOLEAN, Update(c, success)
  PROVE  /\ pc'[c] = "idle" /\ torn' = torn \ {c}
         /\ \A d \in Calls \ {c} : pc'[d] = pc[d] /\ key'[d] = key[d] /\ at'[d] = at[d]
         /\ \A d \in Calls :
              previous'[d] = IF previous[d] = c THEN None ELSE previous[d]
         /\ \A j \in Keys :
              locks'[j] = IF j = key[c] /\ locks[j] = c THEN None ELSE locks[j]
         /\ now' = now
<1>1. pc'[c] = "idle" /\ torn' = torn \ {c} /\ now' = now
  BY DEF Update, Release, Record, TypeOK
<1>2. \A d \in Calls \ {c} : pc'[d] = pc[d] /\ key'[d] = key[d] /\ at'[d] = at[d]
  BY DEF Update, Release, TypeOK
<1>3. \A d \in Calls :
              previous'[d] = IF previous[d] = c THEN None ELSE previous[d]
  BY DEF Update, Release
<1>4. \A j \in Keys :
              locks'[j] = IF j = key[c] /\ locks[j] = c THEN None ELSE locks[j]
  BY DEF Update, Release, TypeOK
<1>5. QED
  BY <1>1, <1>2, <1>3, <1>4

\* Every step keeps what a waiting call works with.
LEMMA CallsNext ==
  ASSUME TypeOK, CallsFit, Next
  PROVE  CallsFit'
<1> now \in Int /\ \A c \in Calls : at[c] \in Int /\ at[c] <= MaxTime
  BY Constants DEF TypeOK, Time
<1>1. ASSUME NEW c \in Calls, NEW k \in Keys, Acquire(c, k)
      PROVE  CallsFit'
  <2>1. /\ pc[c] = "idle" /\ c \notin torn /\ torn' = torn /\ now' = now
        /\ pc' = [pc EXCEPT ![c] = "wait"] /\ key' = [key EXCEPT ![c] = k]
        /\ at' = [at EXCEPT ![c] = now] /\ previous' = [previous EXCEPT ![c] = locks[k]]
    BY <1>1 DEF Acquire, CallsFit, history
  <2>2. \A d \in Calls : pc'[d] = "wait" => key'[d] \in Keys /\ at'[d] <= now'
    BY <2>1 DEF CallsFit, TypeOK
  <2>3. \A d \in Calls : previous'[d] # None => pc'[d] = "wait"
    BY <2>1 DEF CallsFit, TypeOK
  <2>4. \A d \in torn' : pc'[d] = "wait"
    BY <2>1 DEF CallsFit, TypeOK
  <2>5. ASSUME NEW d \in torn', NEW e \in Calls \ torn', pc'[e] = "wait"
        PROVE  at'[d] <= at'[e]
    <3>1. d \in Calls /\ d # c /\ pc[d] = "wait" /\ at'[d] = at[d] /\ at[d] <= now
      BY <2>1 DEF CallsFit, TypeOK
    <3>2. CASE e = c
      BY <3>1, <3>2, <2>1 DEF TypeOK
    <3>3. CASE e # c
      BY <3>1, <3>3, <2>1, <2>5 DEF CallsFit, TypeOK
    <3>4. QED
      BY <3>2, <3>3
  <2>6. QED
    BY <2>2, <2>3, <2>4, <2>5 DEF CallsFit
<1>2. ASSUME NEW c \in Calls, UpdateBucket(c) \/ UpdateWindow(c)
      PROVE  CallsFit'
  <2>1. /\ pc'[c] = "idle" /\ torn' = torn \ {c} /\ now' = now
        /\ \A d \in Calls \ {c} : pc'[d] = pc[d] /\ key'[d] = key[d] /\ at'[d] = at[d]
        /\ \A d \in Calls :
             previous'[d] = IF previous[d] = c THEN None ELSE previous[d]
    BY <1>2, UpdateRuns, UpdateCalls
  <2>2. previous[c] = None
    BY <1>2, UpdateRuns
  <2>3. torn \subseteq Calls
    BY DEF TypeOK
  <2>4. QED
    BY <2>1, <2>2, <2>3 DEF CallsFit
<1>3. ASSUME CleanupExpired
      PROVE  CallsFit'
  BY <1>3 DEF CleanupExpired, CallsFit, callVars, history
<1>4. ASSUME Destroy
      PROVE  CallsFit'
  BY <1>4 DEF Destroy, CallsFit, callVars, TypeOK
<1>5. ASSUME Tick
      PROVE  CallsFit'
  BY <1>5 DEF Tick, CallsFit, callVars, history, TypeOK
<1>6. QED
  BY <1>1, <1>2, <1>3, <1>4, <1>5 DEF Next

\* The call that runs was the first to queue for its key, or cut off.
LEMMA FirstInQueue ==
  ASSUME TypeOK, CallsFit, Queued, NEW c \in Calls,
         UpdateBucket(c) \/ UpdateWindow(c),
         NEW d \in Calls \ torn, pc[d] = "wait", key[d] = key[c]
  PROVE  at[c] <= at[d]
<1>1. pc[c] = "wait" /\ previous[c] = None /\ key[c] \in Keys
  BY UpdateRuns
<1>2. CASE c \in torn
  BY <1>2 DEF CallsFit
<1>3. CASE c \notin torn
  <2>1. c \in Waiters(key[c]) /\ d \in Waiters(key[c])
    BY <1>1, <1>3 DEF Waiters
  <2>2. QED
    BY <1>1, <2>1 DEF Queued, QueuedBy
<1>4. QED
  BY <1>2, <1>3

\* A step that moves no call leaves the line as it is.
LEMMA QueueFrame ==
  ASSUME Queued, UNCHANGED <<pc, key, at, previous, locks, torn>>
  PROVE  Queued'
BY DEF Queued, QueuedBy, Waiters

\* A new call joins the end of the line of its key.
LEMMA QueueAcquire ==
  ASSUME TypeOK, CallsFit, Queued,
         NEW c \in Calls, NEW k \in Keys, Acquire(c, k)
  PROVE  Queued'
<1>1. PICK q \in [Calls -> Nat] : QueuedBy(q)
  BY DEF Queued
<1>a. PICK last \in Nat : last = IF locks[k] = None THEN 0 ELSE q[locks[k]] + 1
  BY DEF TypeOK
<1>b. PICK r \in [Calls -> Nat] : r = [q EXCEPT ![c] = last]
  OBVIOUS
<1>2. /\ pc[c] = "idle" /\ torn' = torn
      /\ pc' = [pc EXCEPT ![c] = "wait"] /\ key' = [key EXCEPT ![c] = k]
      /\ at' = [at EXCEPT ![c] = now] /\ previous' = [previous EXCEPT ![c] = locks[k]]
      /\ locks' = [locks EXCEPT ![k] = c]
  BY DEF Acquire, history
<1>3. last \in Nat /\ r \in [Calls -> Nat]
  OBVIOUS
<1>4. c \notin torn /\ \A j \in Keys : c \notin Waiters(j)
  BY <1>2 DEF Waiters, CallsFit
<1>5. \A j \in Keys : Waiters(j)' = IF j = k THEN Waiters(j) \cup {c} ELSE Waiters(j)
  BY <1>2, <1>4 DEF Waiters, TypeOK
<1>6. \A j \in Keys : \A d \in Waiters(j) :
        d \in Calls /\ d # c /\ r[d] = q[d] /\ at'[d] = at[d] /\ previous'[d] = previous[d]
        /\ at[d] <= now /\ q[d] \in Nat /\ at[d] \in Int /\ now \in Int
  BY <1>b, <1>2, <1>4, Constants DEF Waiters, TypeOK, CallsFit, Time
<1>7. r[c] = last /\ at'[c] = now /\ previous'[c] = locks[k] /\ c # None
  BY <1>b, <1>2, Constants DEF TypeOK, None
<1>8. \A d \in Waiters(k) : q[d] < last
  <2>1. TAKE d \in Waiters(k)
  <2>2. locks[k] # None
    BY <1>1, <2>1 DEF QueuedBy
  <2>3. locks[k] \in Waiters(k) /\ q[d] <= q[locks[k]]
    BY <1>1, <2>1, <2>2 DEF QueuedBy
  <2>4. QED
    BY <2>2, <2>3, <1>a, <1>6
<1>9. ASSUME NEW j \in Keys
      PROVE  /\ \A d, e \in Waiters(j)' :
                  (r[d] = r[e] => d = e) /\ (r[d] <= r[e] => at'[d] <= at'[e])
             /\ \A d \in Waiters(j)' :
                  previous'[d] = None => \A e \in Waiters(j)' : r[d] <= r[e]
             /\ \A d \in Waiters(j)' :
                  previous'[d] # None =>
                    /\ previous'[d] \in Waiters(j)'
                    /\ r[previous'[d]] < r[d]
                    /\ \A e \in Waiters(j)' : r[e] < r[d] => r[e] <= r[previous'[d]]
             /\ locks'[j] = None => Waiters(j)' = {}
             /\ locks'[j] # None =>
                  /\ locks'[j] \in Waiters(j)'
                  /\ \A e \in Waiters(j)' : r[e] <= r[locks'[j]]
  <2>1. CASE j # k
    <3>1. Waiters(j)' = Waiters(j) /\ locks'[j] = locks[j]
      BY <2>1, <1>2, <1>5 DEF TypeOK
    <3>2. QED
      BY <3>1, <1>1, <1>6 DEF QueuedBy
  <2>2. CASE j = k
    <3>1. Waiters(k)' = Waiters(k) \cup {c} /\ locks'[k] = c
      BY <2>2, <1>2, <1>5 DEF TypeOK
    <3>2. ASSUME NEW d \in Waiters(k)', NEW e \in Waiters(k)'
          PROVE  (r[d] = r[e] => d = e) /\ (r[d] <= r[e] => at'[d] <= at'[e])
      <4>1. CASE d = c /\ e = c
        BY <4>1, <1>7, <1>6 DEF TypeOK, Time
      <4>2. CASE d = c /\ e # c
        BY <4>2, <3>1, <1>3, <1>6, <1>7, <1>8
      <4>3. CASE d # c /\ e = c
        BY <4>3, <3>1, <1>3, <1>6, <1>7, <1>8
      <4>4. CASE d # c /\ e # c
        <5>1. d \in Waiters(k) /\ e \in Waiters(k)
          BY <3>1, <4>4
        <5>2. QED
          BY <5>1, <1>1, <1>6 DEF QueuedBy
      <4>5. QED
        BY <4>1, <4>2, <4>3, <4>4
    <3>3. ASSUME NEW d \in Waiters(k)', previous'[d] = None, NEW e \in Waiters(k)'
          PROVE  r[d] <= r[e]
      <4>1. CASE d = c
        <5>1. Waiters(k) = {}
          BY <4>1, <3>3, <1>7, <1>1 DEF QueuedBy
        <5>2. QED
          BY <5>1, <3>1, <4>1, <1>3, <1>7
      <4>2. CASE d # c /\ e = c
        BY <4>2, <3>1, <1>3, <1>6, <1>7, <1>8
      <4>3. CASE d # c /\ e # c
        BY <4>3, <3>1, <3>3, <1>1, <1>6 DEF QueuedBy
      <4>4. QED
        BY <4>1, <4>2, <4>3
    <3>4. ASSUME NEW d \in Waiters(k)', previous'[d] # None
          PROVE  /\ previous'[d] \in Waiters(k)'
                 /\ r[previous'[d]] < r[d]
                 /\ \A e \in Waiters(k)' : r[e] < r[d] => r[e] <= r[previous'[d]]
      <4>1. CASE d = c
        <5>1. locks[k] # None /\ previous'[d] = locks[k]
          BY <4>1, <3>4, <1>7
        <5>2. locks[k] \in Waiters(k) /\ \A e \in Waiters(k) : q[e] <= q[locks[k]]
          BY <5>1, <1>1 DEF QueuedBy
        <5>3. last = q[locks[k]] + 1
          BY <5>1, <1>a
        <5>4. QED
          BY <4>1, <5>1, <5>2, <5>3, <3>1, <1>6, <1>7
      <4>2. CASE d # c
        <5>1. d \in Waiters(k) /\ previous'[d] = previous[d]
          BY <4>2, <3>1, <1>6
        <5>2. /\ previous[d] \in Waiters(k) /\ q[previous[d]] < q[d]
              /\ \A e \in Waiters(k) : q[e] < q[d] => q[e] <= q[previous[d]]
          BY <5>1, <3>4, <1>1 DEF QueuedBy
        <5>3. ~(r[c] < r[d])
          BY <5>1, <1>3, <1>6, <1>7, <1>8
        <5>4. QED
          BY <5>1, <5>2, <5>3, <3>1, <1>6
      <4>3. QED
        BY <4>1, <4>2
    <3>5. \A e \in Waiters(k)' : r[e] <= r[c]
      BY <3>1, <1>3, <1>6, <1>7, <1>8
    <3>6. QED
      BY <2>2, <3>1, <3>2, <3>3, <3>4, <3>5, <1>7
  <2>3. QED
    BY <2>1, <2>2
<1>10. QueuedBy(r)'
  BY <1>9 DEF QueuedBy
<1>11. QED
  BY <1>3, <1>10 DEF Queued

\* The first of a line leaves it, and the second is first.
LEMMA QueueUpdate ==
  ASSUME TypeOK, CallsFit, Queued,
         NEW c \in Calls, UpdateBucket(c) \/ UpdateWindow(c)
  PROVE  Queued'
<1>1. PICK q \in [Calls -> Nat] : QueuedBy(q)
  BY DEF Queued
<1>2. pc[c] = "wait" /\ previous[c] = None /\ key[c] \in Keys
  BY UpdateRuns
<1>3. /\ pc'[c] = "idle" /\ torn' = torn \ {c}
      /\ \A d \in Calls \ {c} : pc'[d] = pc[d] /\ key'[d] = key[d] /\ at'[d] = at[d]
      /\ \A d \in Calls :
           previous'[d] = IF previous[d] = c THEN None ELSE previous[d]
      /\ \A j \in Keys :
           locks'[j] = IF j = key[c] /\ locks[j] = c THEN None ELSE locks[j]
  BY UpdateRuns, UpdateCalls
<1>4. \A j \in Keys : Waiters(j)' = Waiters(j) \ {c}
  BY <1>3 DEF Waiters
<1>5. \A j \in Keys : \A d \in Waiters(j) : d \in Calls /\ key[d] = j /\ q[d] \in Nat /\ d \notin torn
  BY DEF Waiters
<1>6. c # None
  BY Constants DEF None
<1>7. ASSUME NEW j \in Keys
      PROVE  /\ \A d, e \in Waiters(j)' :
                  (q[d] = q[e] => d = e) /\ (q[d] <= q[e] => at'[d] <= at'[e])
             /\ \A d \in Waiters(j)' :
                  previous'[d] = None => \A e \in Waiters(j)' : q[d] <= q[e]
             /\ \A d \in Waiters(j)' :
                  previous'[d] # None =>
                    /\ previous'[d] \in Waiters(j)'
                    /\ q[previous'[d]] < q[d]
                    /\ \A e \in Waiters(j)' : q[e] < q[d] => q[e] <= q[previous'[d]]
             /\ locks'[j] = None => Waiters(j)' = {}
             /\ locks'[j] # None =>
                  /\ locks'[j] \in Waiters(j)'
                  /\ \A e \in Waiters(j)' : q[e] <= q[locks'[j]]
  <2>1. \A d \in Waiters(j)' : d \in Waiters(j) /\ d # c /\ at'[d] = at[d]
    BY <1>3, <1>4, <1>5
  <2>2. ASSUME NEW d \in Waiters(j)', NEW e \in Waiters(j)'
        PROVE  (q[d] = q[e] => d = e) /\ (q[d] <= q[e] => at'[d] <= at'[e])
    BY <2>1, <1>1 DEF QueuedBy
  <2>3. ASSUME c \in Waiters(j)
        PROVE  \A e \in Waiters(j) : q[c] <= q[e]
    BY <2>3, <1>1, <1>2 DEF QueuedBy
  <2>4. ASSUME NEW d \in Waiters(j)', previous'[d] = None, NEW e \in Waiters(j)'
        PROVE  q[d] <= q[e]
    <3>1. CASE previous[d] = None
      BY <3>1, <2>1, <1>1 DEF QueuedBy
    <3>2. CASE previous[d] = c
      <4>1. /\ c \in Waiters(j) /\ q[c] < q[d]
            /\ q[e] < q[d] => q[e] <= q[c]
        BY <3>2, <2>1, <1>1, <1>6 DEF QueuedBy
      <4>2. q[c] <= q[e] /\ e # c
        BY <4>1, <2>1, <2>3
      <4>3. q[e] # q[c]
        BY <4>1, <4>2, <2>1, <1>1 DEF QueuedBy
      <4>4. QED
        BY <4>1, <4>2, <4>3, <2>1, <1>5
    <3>3. QED
      BY <3>1, <3>2, <2>1, <2>4, <1>3, <1>5
  <2>5. ASSUME NEW d \in Waiters(j)', previous'[d] # None
        PROVE  /\ previous'[d] \in Waiters(j)'
               /\ q[previous'[d]] < q[d]
               /\ \A e \in Waiters(j)' : q[e] < q[d] => q[e] <= q[previous'[d]]
    <3>1. previous'[d] = previous[d] /\ previous[d] # c /\ previous[d] # None
      BY <2>1, <2>5, <1>3, <1>5
    <3>2. QED
      BY <3>1, <2>1, <1>1, <1>4 DEF QueuedBy
  <2>6. CASE j = key[c] /\ locks[j] = c
    <3>1. locks'[j] = None
      BY <2>6, <1>3
    <3>2. c \in Waiters(j) /\ \A e \in Waiters(j) : q[e] <= q[c]
      BY <2>6, <1>1, <1>6 DEF QueuedBy
    <3>3. ASSUME NEW e \in Waiters(j) PROVE e = c
      <4>1. q[c] <= q[e] /\ q[e] <= q[c]
        BY <3>2, <2>3
      <4>2. q[c] = q[e]
        BY <4>1, <3>2, <1>5
      <4>3. QED
        BY <4>2, <3>2, <1>1 DEF QueuedBy
    <3>4. Waiters(j)' = {}
      BY <3>3, <1>4
    <3>5. QED
      BY <3>1, <3>4, <2>2, <2>4, <2>5
  <2>7. CASE ~(j = key[c] /\ locks[j] = c)
    <3>1. locks'[j] = locks[j]
      BY <2>7, <1>3
    <3>2. locks[j] = None => Waiters(j)' = {}
      BY <1>1, <1>4 DEF QueuedBy
    <3>3. locks[j] # None => locks[j] \in Waiters(j)' /\ \A e \in Waiters(j)' : q[e] <= q[locks[j]]
      <4>1. SUFFICES ASSUME locks[j] # None
                     PROVE  locks[j] \in Waiters(j)' /\ \A e \in Waiters(j)' : q[e] <= q[locks[j]]
        OBVIOUS
      <4>2. locks[j] \in Waiters(j) /\ \A e \in Waiters(j) : q[e] <= q[locks[j]]
        BY <4>1, <1>1 DEF QueuedBy
      <4>3. locks[j] # c
        BY <4>2, <2>7, <1>5
      <4>4. QED
        BY <4>2, <4>3, <1>4
    <3>4. QED
      BY <3>1, <3>2, <3>3, <2>2, <2>4, <2>5
  <2>8. QED
    BY <2>6, <2>7
<1>8. QueuedBy(q)'
  BY <1>7 DEF QueuedBy
<1>9. QED
  BY <1>8 DEF Queued

\* Every step keeps the lines.
LEMMA QueueNext ==
  ASSUME TypeOK, CallsFit, Queued, Next
  PROVE  Queued'
<1>1. ASSUME NEW c \in Calls, NEW k \in Keys, Acquire(c, k)
      PROVE  Queued'
  BY <1>1, QueueAcquire
<1>2. ASSUME NEW c \in Calls, UpdateBucket(c) \/ UpdateWindow(c)
      PROVE  Queued'
  BY <1>2, QueueUpdate
<1>3. ASSUME CleanupExpired
      PROVE  Queued'
  BY <1>3, QueueFrame DEF CleanupExpired, callVars, history
<1>4. ASSUME Destroy
      PROVE  Queued'
  <2>1. \A k \in Keys : Waiters(k)' = {} /\ locks'[k] = None
    BY <1>4 DEF Destroy, Waiters, callVars
  <2>2. QueuedBy([c \in Calls |-> 0])'
    BY <2>1 DEF QueuedBy
  <2>3. [c \in Calls |-> 0] \in [Calls -> Nat]
    OBVIOUS
  <2>4. QED
    BY <2>2, <2>3 DEF Queued
<1>5. ASSUME Tick
      PROVE  Queued'
  BY <1>5, QueueFrame DEF Tick, callVars, history
<1>6. QED
  BY <1>1, <1>2, <1>3, <1>4, <1>5 DEF Next

-----------------------------------------------------------------------------
(* The Map.                                                                *)

\* One key more is no more than the Map may hold.
LEMMA PlaceFits ==
  ASSUME TypeOK, MapFits, CacheBounded, NEW k \in Keys, Place(k)
  PROVE  MapFits' /\ CacheBounded'
<1>1. Kept(k) \subseteq cached \ {k} /\ cached' = Kept(k) \cup {k}
  BY EvictedFits DEF Place
<1>2. IsFiniteSet(cached) /\ IsFiniteSet(cached \ {k}) /\ IsFiniteSet(Kept(k))
  BY <1>1, FS_Subset DEF MapFits
<1>3. IsFiniteSet(cached') /\ Cardinality(cached') = Cardinality(Kept(k)) + 1
  BY <1>1, <1>2, FS_AddElement
<1>4. /\ Cardinality(cached) \in Nat /\ Cardinality(cached \ {k}) \in Nat
      /\ Cardinality(Kept(k)) \in Nat /\ MaxEntries \in Nat
  BY <1>2, FS_CardinalityType, Constants
<1>5. CASE Live(k)
  <2>1. cached' = cached /\ before' = before
    BY <1>5 DEF Place, Kept, Live
  <2>2. QED
    BY <2>1 DEF MapFits, CacheBounded
<1>6. CASE ~Live(k)
  <2>1. before' = (before \cap (Kept(k) \X Kept(k))) \cup (Kept(k) \X {k})
    BY <1>6 DEF Place
  <2>2. \A i, j \in Kept(k) : <<i, j>> \in before' <=> <<i, j>> \in before
    BY <1>1, <2>1
  <2>3. \A i \in Kept(k) : <<i, k>> \in before' /\ <<k, i>> \notin before'
    BY <1>1, <2>1
  <2>4. <<k, k>> \notin before'
    BY <1>1, <2>1
  <2>5. MapFits'
    <3>1. \A i \in cached' : <<i, i>> \notin before'
      BY <1>1, <2>2, <2>4 DEF MapFits
    <3>2. ASSUME NEW h \in cached', NEW i \in cached', NEW j \in cached',
                 <<h, i>> \in before', <<i, j>> \in before'
          PROVE  <<h, j>> \in before'
      <4>1. h \in Kept(k) /\ i \in Kept(k)
        BY <3>2, <1>1, <2>3, <2>4
      <4>2. CASE j = k
        BY <4>1, <4>2, <2>3
      <4>3. CASE j # k
        <5>1. j \in Kept(k)
          BY <4>3, <1>1
        <5>2. QED
          BY <4>1, <5>1, <3>2, <2>2, <1>1 DEF MapFits
      <4>4. QED
        BY <4>2, <4>3
    <3>3. QED
      BY <3>1, <3>2, <1>3 DEF MapFits
  <2>6. \A i, j \in cached' : i # j => (<<i, j>> \in before' <=> <<j, i>> \notin before')
    <3>1. TAKE i, j \in cached'
    <3>2. CASE i # k /\ j # k
      <4>1. i \in Kept(k) /\ j \in Kept(k)
        BY <3>2, <1>1
      <4>2. QED
        BY <4>1, <2>2, <1>1 DEF CacheBounded
    <3>3. CASE i = k \/ j = k
      BY <3>3, <1>1, <2>3
    <3>4. QED
      BY <3>2, <3>3
  <2>7. Cardinality(cached \ {k}) <= Cardinality(cached)
    BY <1>2, FS_Subset
  <2>8. CASE Cardinality(cached \ {k}) >= MaxEntries
    <3>1. Kept(k) = (cached \ {k}) \ Oldest(cached \ {k})
      BY <1>6, <2>8 DEF Kept, EnforceMaxEntries
    <3>2. CASE cached \ {k} = {}
      <4>1. Kept(k) = {}
        BY <3>1, <3>2
      <4>2. Cardinality(cached') <= 1
        BY <4>1, <1>3, FS_EmptySet
      <4>3. QED
        BY <4>2, <2>5, <2>6 DEF CacheBounded
    <3>3. CASE cached \ {k} # {}
      <4>1. PICK j : j \in Oldest(cached \ {k})
        BY <3>3, SomeIsOldest
      <4>2. j \in cached \ {k} /\ j \notin Kept(k)
        BY <4>1, <3>1 DEF Oldest
      <4>3. Kept(k) \subseteq cached \ {k} /\ Kept(k) # cached \ {k}
        BY <4>2, <1>1
      <4>4. Cardinality(Kept(k)) < Cardinality(cached \ {k})
        BY <4>3, <1>2, <1>4, FS_Subset
      <4>5. Cardinality(cached') <= Cardinality(cached)
        BY <4>4, <2>7, <1>3, <1>4
      <4>6. QED
        BY <4>5, <2>5, <2>6, <1>3, <1>4 DEF CacheBounded
    <3>4. QED
      BY <3>2, <3>3
  <2>9. CASE Cardinality(cached \ {k}) < MaxEntries
    <3>1. Kept(k) = cached \ {k}
      BY <1>6, <2>9, <1>4 DEF Kept, EnforceMaxEntries
    <3>2. Cardinality(cached') <= MaxEntries
      BY <3>1, <2>9, <1>3, <1>4
    <3>3. QED
      BY <3>2, <2>5, <2>6 DEF CacheBounded
  <2>10. QED
    BY <2>8, <2>9, <1>4
<1>7. QED
  BY <1>5, <1>6

\* Keys that are dropped leave a list in the same order.
LEMMA DropFits ==
  ASSUME TypeOK, MapFits, CacheBounded, NEW gone, Drop(gone)
  PROVE  MapFits' /\ CacheBounded'
<1>1. /\ cached' = cached \ gone
      /\ before' = before \cap (cached' \X cached')
  BY DEF Drop
<1>2. IsFiniteSet(cached') /\ Cardinality(cached') <= Cardinality(cached)
  BY <1>1, FS_Subset DEF MapFits
<1>3. Cardinality(cached') \in Nat /\ Cardinality(cached) \in Nat /\ MaxEntries \in Nat
  BY <1>2, FS_CardinalityType, Constants DEF MapFits
<1>4. \A i, j \in cached' : i \in cached /\ j \in cached
                            /\ (<<i, j>> \in before' <=> <<i, j>> \in before)
  BY <1>1
<1>5. MapFits'
  BY <1>2, <1>4 DEF MapFits
<1>6. CacheBounded'
  BY <1>2, <1>3, <1>4 DEF CacheBounded
<1>7. QED
  BY <1>5, <1>6

\* Every step keeps the Map a list within its bound.
LEMMA MapNext ==
  ASSUME TypeOK, CallsFit, MapFits, CacheBounded, TimerMatchesCache, Next
  PROVE  MapFits' /\ CacheBounded' /\ TimerMatchesCache'
<1>1. ASSUME UNCHANGED <<cached, before, timer>>
      PROVE  MapFits' /\ CacheBounded' /\ TimerMatchesCache'
  BY <1>1 DEF MapFits, CacheBounded, TimerMatchesCache
<1>2. ASSUME NEW c \in Calls, NEW k \in Keys, Acquire(c, k)
      PROVE  UNCHANGED <<cached, before, timer>>
  BY <1>2 DEF Acquire, entryVars
<1>3. ASSUME NEW c \in Calls, UpdateBucket(c) \/ UpdateWindow(c)
      PROVE  MapFits' /\ CacheBounded' /\ TimerMatchesCache'
  <2>1. Place(key[c]) /\ timer' = "running" /\ key[c] \in Keys
    BY <1>3, UpdateRuns DEF Update
  <2>2. key[c] \in cached'
    BY <2>1 DEF Place
  <2>3. QED
    BY <2>1, <2>2, PlaceFits DEF TimerMatchesCache
<1>4. ASSUME CleanupExpired
      PROVE  MapFits' /\ CacheBounded' /\ TimerMatchesCache'
  <2>1. Drop(Expired) /\ timer' = IF cached = Expired THEN "off" ELSE "running"
    BY <1>4 DEF CleanupExpired
  <2>2. Expired \subseteq cached /\ cached' = cached \ Expired
    BY <2>1 DEF Drop, Expired
  <2>3. TimerMatchesCache'
    BY <2>1, <2>2 DEF TimerMatchesCache
  <2>4. QED
    BY <2>1, <2>3, DropFits
<1>5. ASSUME Destroy
      PROVE  MapFits' /\ CacheBounded' /\ TimerMatchesCache'
  <2>1. Drop(Keys) /\ timer' = "off"
    BY <1>5 DEF Destroy
  <2>2. cached' = {}
    BY <2>1 DEF Drop, TypeOK
  <2>3. QED
    BY <2>1, <2>2, DropFits DEF TimerMatchesCache
<1>6. ASSUME Tick
      PROVE  UNCHANGED <<cached, before, timer>>
  BY <1>6 DEF Tick, entryVars
<1>7. QED
  BY <1>1, <1>2, <1>3, <1>4, <1>5, <1>6 DEF Next

-----------------------------------------------------------------------------
(* The times in the entries.                                               *)

\* The entry of the call's key is from the time of the call, or what it was.
LEMMA UpdateEntry ==
  ASSUME TypeOK, CallsFit, Past, NEW c \in Calls, UpdateBucket(c) \/ UpdateWindow(c),
         NEW k \in Keys, k = key[c], NEW t \in Int, at[c] <= t,
         k \in cached => UpTo(k, t)
  PROVE  UpTo(k, t)'
<1>1. CASE UpdateBucket(c)
  <2>1. /\ refilled'[k] = at[c] \/ (Live(k) /\ refilled'[k] = refilled[k])
        /\ log' = log /\ algorithm = "token-bucket" /\ algorithm' = algorithm
    BY <1>1, BucketValues
  <2>2. refilled'[k] <= t
    BY <2>1 DEF Live, UpTo
  <2>3. log[k] = {}
    BY <2>1 DEF Past, UpTo
  <2>4. QED
    BY <2>1, <2>2, <2>3 DEF UpTo
<1>2. CASE UpdateWindow(c)
  <2>1. /\ log'[k] = IF Cardinality(Valid(c)) < MaxRequests
                     THEN Valid(c) \cup {Numbered(at[c], Valid(c))} ELSE Valid(c)
        /\ algorithm = "sliding-window" /\ algorithm' = algorithm
    BY <1>2, WindowValues
  <2>2. at[c] \in Time
    BY DEF TypeOK
  <2>3. ASSUME NEW e \in Valid(c) PROVE e[1] <= t
    BY <2>3 DEF Valid, Live, UpTo
  <2>4. ASSUME Cardinality(Valid(c)) < MaxRequests
        PROVE  Numbered(at[c], Valid(c))[1] = at[c]
    BY <2>4, <2>2, ValidFits, NumberedIsNew
  <2>5. \A e \in log'[k] : e[1] <= t
    BY <2>1, <2>3, <2>4
  <2>6. QED
    BY <2>1, <2>5 DEF UpTo
<1>3. QED
  BY <1>1, <1>2

\* The other entries are what they were, or empty.
LEMMA UpdateOtherEntry ==
  ASSUME TypeOK, CallsFit, NEW c \in Calls, UpdateBucket(c) \/ UpdateWindow(c),
         NEW j \in Keys, j # key[c], NEW t \in Nat, UpTo(j, t)
  PROVE  UpTo(j, t)'
<1>1. key[c] \in Keys
  BY UpdateRuns
<1>2. CASE UpdateBucket(c)
  <2>1. /\ refilled'[j] = refilled[j] \/ refilled'[j] = 0
        /\ log' = log /\ algorithm' = algorithm
    BY <1>1, <1>2, BucketValues
  <2>2. QED
    BY <2>1 DEF UpTo
<1>3. CASE UpdateWindow(c)
  <2>1. /\ log'[j] = log[j] \/ log'[j] = {}
        /\ refilled' = refilled /\ algorithm' = algorithm
    BY <1>1, <1>3, WindowValues
  <2>2. QED
    BY <2>1 DEF UpTo
<1>4. QED
  BY <1>2, <1>3

\* What is left after entries were removed.
LEMMA DropEntry ==
  ASSUME NEW gone, Drop(gone), algorithm' = algorithm,
         NEW j \in Keys, NEW t \in Nat, UpTo(j, t)
  PROVE  UpTo(j, t)'
<1>1. /\ refilled'[j] = refilled[j] \/ refilled'[j] = 0
      /\ log'[j] = log[j] \/ log'[j] = {}
  BY DEF Drop, Dropped
<1>2. QED
  BY <1>1 DEF UpTo

\* No step writes a time that is yet to come.
LEMMA PastNext ==
  ASSUME TypeOK, CallsFit, Past, Next
  PROVE  Past'
<1>n. now \in Nat
  BY Constants DEF TypeOK, Time
<1>1. ASSUME NEW c \in Calls, NEW k \in Keys, Acquire(c, k)
      PROVE  Past'
  BY <1>1 DEF Acquire, Past, UpTo, entryVars, history
<1>2. ASSUME NEW c \in Calls, UpdateBucket(c) \/ UpdateWindow(c)
      PROVE  Past'
  <2>1. key[c] \in Keys /\ at[c] <= now
    BY <1>2, UpdateRuns
  <2>2. PICK success \in BOOLEAN : Update(c, success)
    BY <1>2, UpdateRuns
  <2>3. now' = now
    BY <2>2 DEF Update
  <2>4. ASSUME NEW j \in Keys
        PROVE  UpTo(j, now)' /\ \A i \in DOMAIN granted'[j] : granted'[j][i] <= now
    <3>1. UpTo(j, now) /\ \A i \in DOMAIN granted[j] : granted[j][i] <= now
      BY DEF Past
    <3>2. PICK t \in Nat : t = now
      BY <1>n
    <3>3. UpTo(j, t)'
      <4>1. CASE j = key[c]
        BY <4>1, <3>1, <3>2, <1>2, <2>1, UpdateEntry
      <4>2. CASE j # key[c]
        BY <4>2, <3>1, <3>2, <1>2, UpdateOtherEntry
      <4>3. QED
        BY <4>1, <4>2
    <3>4. granted'[j] \in {granted[j], <<>>, Append(granted[j], now)}
      <4>1. CASE j = key[c]
        BY <4>1, <2>1, <2>2, UpdateOwn
      <4>2. CASE j \in Evicted(key[c])
        BY <4>2, <2>1, <2>2, UpdateEvicted
      <4>3. CASE j # key[c] /\ j \notin Evicted(key[c])
        BY <4>3, <2>1, <2>2, UpdateOther
      <4>4. QED
        BY <4>1, <4>2, <4>3
    <3>5. granted[j] \in Seq(Time) /\ now \in Time
      BY DEF TypeOK
    <3>6. \A i \in DOMAIN Append(granted[j], now) : Append(granted[j], now)[i] <= now
      BY <3>1, <3>5, <1>n
    <3>7. \A i \in DOMAIN granted'[j] : granted'[j][i] <= now
      BY <3>1, <3>4, <3>6
    <3>8. UpTo(j, now)'
      BY <3>2, <3>3, <2>3 DEF UpTo
    <3>9. QED
      BY <3>7, <3>8
  <2>5. QED
    BY <2>3, <2>4 DEF Past
<1>3. ASSUME CleanupExpired \/ Destroy
      PROVE  Past'
  <2>1. PICK gone : Drop(gone)
    BY <1>3 DEF CleanupExpired, Destroy
  <2>2. now' = now /\ algorithm' = algorithm
    BY <1>3 DEF CleanupExpired, Destroy
  <2>3. PICK t \in Nat : t = now
    BY <1>n
  <2>4. \A j \in Keys : granted'[j] = granted[j] \/ granted'[j] = <<>>
    BY <1>3 DEF CleanupExpired, Destroy, history
  <2>5. ASSUME NEW j \in Keys PROVE UpTo(j, t)'
    BY <2>1, <2>2, <2>3, DropEntry DEF Past
  <2>6. ASSUME NEW j \in Keys PROVE UpTo(j, now)'
    BY <2>5, <2>2, <2>3 DEF UpTo
  <2>7. QED
    BY <2>2, <2>4, <2>6 DEF Past
<1>4. ASSUME Tick
      PROVE  Past'
  <2>1. now' = now + 1 /\ algorithm' = algorithm /\ refilled' = refilled /\ log' = log
        /\ granted' = granted
    BY <1>4 DEF Tick, entryVars, history
  <2>2. ASSUME NEW j \in Keys PROVE UpTo(j, now)'
    <3>1. UpTo(j, now) /\ refilled[j] \in Int /\ log[j] \subseteq Time \X (1..MaxRequests)
      BY Constants DEF Past, TypeOK, Time
    <3>2. \A e \in log[j] : e[1] \in Int
      BY <3>1, Constants DEF Time
    <3>3. QED
      BY <3>1, <3>2, <2>1, <1>n DEF UpTo
  <2>3. ASSUME NEW j \in Keys, NEW i \in DOMAIN granted[j]
        PROVE  granted[j][i] <= now + 1
    <3>1. granted[j] \in Seq(Time) /\ granted[j][i] <= now
      BY DEF TypeOK, Past
    <3>2. granted[j][i] \in Int
      BY <3>1, Constants DEF Time
    <3>3. QED
      BY <3>1, <3>2, <1>n
  <2>4. QED
    BY <2>1, <2>2, <2>3 DEF Past
<1>5. QED
  BY <1>1, <1>2, <1>3, <1>4 DEF Next

\* No step writes an entry from after the time that a waiting call has read.
LEMMA InOrderNext ==
  ASSUME TypeOK, CallsFit, Queued, Past, InOrder, Next
  PROVE  InOrder'
<1>n. now \in Nat /\ \A c \in Calls : at[c] \in Nat
  BY Constants DEF TypeOK, Time
<1>1. ASSUME NEW c \in Calls, NEW k \in Keys, Acquire(c, k)
      PROVE  InOrder'
  <2>1. /\ torn' = torn /\ cached' = cached /\ algorithm' = algorithm
        /\ refilled' = refilled /\ log' = log
        /\ pc' = [pc EXCEPT ![c] = "wait"] /\ key' = [key EXCEPT ![c] = k]
        /\ at' = [at EXCEPT ![c] = now]
    BY <1>1 DEF Acquire, history, entryVars
  <2>2. ASSUME NEW j \in cached', NEW d \in Waiters(j)'
        PROVE  UpTo(j, at[d])'
    <3>1. j \in cached /\ j \in Keys
      BY <2>1 DEF TypeOK
    <3>2. CASE d = c
      <4>1. UpTo(j, now) /\ at'[d] = now
        BY <3>1, <3>2, <2>1 DEF Past, TypeOK
      <4>2. QED
        BY <4>1, <2>1 DEF UpTo
    <3>3. CASE d # c
      <4>1. d \in Waiters(j) /\ at'[d] = at[d]
        BY <3>3, <2>1 DEF Waiters, TypeOK
      <4>2. UpTo(j, at[d])
        BY <4>1, <3>1 DEF InOrder
      <4>3. QED
        BY <4>1, <4>2, <2>1 DEF UpTo
    <3>4. QED
      BY <3>2, <3>3
  <2>3. QED
    BY <2>2 DEF InOrder
<1>2. ASSUME NEW c \in Calls, UpdateBucket(c) \/ UpdateWindow(c)
      PROVE  InOrder'
  <2>1. key[c] \in Keys /\ at[c] <= now
    BY <1>2, UpdateRuns
  <2>2. PICK success \in BOOLEAN : Update(c, success)
    BY <1>2, UpdateRuns
  <2>3. /\ pc'[c] = "idle" /\ torn' = torn \ {c}
        /\ \A d \in Calls \ {c} : pc'[d] = pc[d] /\ key'[d] = key[d] /\ at'[d] = at[d]
    BY <2>1, <2>2, UpdateCalls
  <2>4. ASSUME NEW j \in cached', NEW d \in Waiters(j)'
        PROVE  UpTo(j, at[d])'
    <3>1. d \in Waiters(j) /\ d # c /\ at'[d] = at[d] /\ d \in Calls \ torn
          /\ pc[d] = "wait" /\ key[d] = j
      BY <2>3 DEF Waiters
    <3>2. j \in Keys
      BY <3>1 DEF CallsFit
    <3>3. PICK t \in Nat : t = at[d]
      BY <1>n, <3>1
    <3>4. j \in cached => UpTo(j, t)
      BY <3>1, <3>3 DEF InOrder
    <3>5. UpTo(j, t)'
      <4>1. CASE j = key[c]
        <5>1. at[c] <= t
          BY <4>1, <3>1, <3>3, <1>2, FirstInQueue DEF StoreInv
        <5>2. QED
          BY <4>1, <5>1, <3>2, <3>4, <1>2, UpdateEntry
      <4>2. CASE j # key[c]
        <5>1. j \in cached
          BY <4>2, <2>2, EvictedFits, <2>1 DEF Update, Place
        <5>2. QED
          BY <4>2, <5>1, <3>2, <3>4, <1>2, UpdateOtherEntry
      <4>3. QED
        BY <4>1, <4>2
    <3>6. QED
      BY <3>1, <3>3, <3>5 DEF UpTo
  <2>5. QED
    BY <2>4 DEF InOrder
<1>3. ASSUME CleanupExpired \/ Destroy
      PROVE  InOrder'
  <2>1. PICK gone : Drop(gone)
    BY <1>3 DEF CleanupExpired, Destroy
  <2>2. algorithm' = algorithm /\ at' = at /\ pc' = pc /\ key' = key
    BY <1>3 DEF CleanupExpired, Destroy, callVars
  <2>3. \A j \in Keys : Waiters(j)' \subseteq Waiters(j)
    <3>1. CASE CleanupExpired
      BY <3>1 DEF CleanupExpired, Waiters, callVars, history
    <3>2. CASE Destroy
      BY <3>2 DEF Destroy, Waiters, callVars
    <3>3. QED
      BY <1>3, <3>1, <3>2
  <2>4. ASSUME NEW j \in cached', NEW d \in Waiters(j)'
        PROVE  UpTo(j, at[d])'
    <3>1. j \in cached /\ j \in Keys
      BY <2>1 DEF Drop, TypeOK
    <3>2. d \in Waiters(j) /\ d \in Calls
      BY <3>1, <2>3 DEF Waiters
    <3>3. PICK t \in Nat : t = at[d]
      BY <1>n, <3>2
    <3>4. UpTo(j, t)'
      BY <3>1, <3>2, <3>3, <2>1, <2>2, DropEntry DEF InOrder
    <3>5. QED
      BY <3>3, <3>4, <2>2 DEF UpTo
  <2>5. QED
    BY <2>4 DEF InOrder
<1>4. ASSUME Tick
      PROVE  InOrder'
  BY <1>4 DEF Tick, InOrder, UpTo, Waiters, entryVars, callVars, history
<1>5. QED
  BY <1>1, <1>2, <1>3, <1>4 DEF Next

-----------------------------------------------------------------------------
(* The bucket.                                                             *)

\* The numbers of a key.
LEMMA KeyNumbers ==
  ASSUME TypeOK, NEW k \in Keys
  PROVE  /\ granted[k] \in Seq(Time) /\ Len(granted[k]) \in Nat
         /\ DOMAIN granted[k] = 1..Len(granted[k])
         /\ \A i \in 1..Len(granted[k]) : granted[k][i] \in Nat
         /\ tokens[k] \in Int /\ refilled[k] \in Nat /\ expires[k] \in Nat /\ now \in Nat
         /\ \A i \in 1..Len(granted[k]) : Since(k, i) \in Int
<1>1. granted[k] \in Seq(Time)
  BY DEF TypeOK
<1>2. Len(granted[k]) \in Nat /\ DOMAIN granted[k] = 1..Len(granted[k])
  BY <1>1
<1>3. \A i \in 1..Len(granted[k]) : granted[k][i] \in Nat
  BY <1>1, <1>2, Constants DEF Time
<1>4. tokens[k] \in Int /\ refilled[k] \in Nat /\ expires[k] \in Nat /\ now \in Nat
  BY Constants, FullBucket DEF TypeOK, Time
<1>5. \A i \in 1..Len(granted[k]) : Since(k, i) \in Int
  BY <1>2 DEF Since
<1>6. QED
  BY <1>1, <1>2, <1>3, <1>4, <1>5

\* One success more.
LEMMA GrantedAppend ==
  ASSUME TypeOK, NEW k \in Keys, granted'[k] = Append(granted[k], now)
  PROVE  /\ DOMAIN granted'[k] = 1..(Len(granted[k]) + 1)
         /\ Len(granted'[k]) = Len(granted[k]) + 1
         /\ \A i \in 1..Len(granted[k]) : granted'[k][i] = granted[k][i]
         /\ granted'[k][Len(granted[k]) + 1] = now
<1>1. granted[k] \in Seq(Time) /\ now \in Time
  BY DEF TypeOK
<1>2. QED
  BY <1>1

\* What was taken since a success, with what there is now, is at most a full
\* bucket and what was generated since, with an entry and without.
LEMMA LevelFits ==
  ASSUME StoreInv, NEW c \in Calls, NEW k \in Keys, k = key[c], at[c] = now,
         BucketFits(k), NEW i \in 1..Len(granted[k])
  PROVE  Since(k, i) * TicksPerToken + Level(c) <= Full + (now - granted[k][i])
<1>1. PICK p \in Int, x \in Int, m \in Int, t \in Int, r \in Int, f \in Int, l \in Int :
        /\ p = Since(k, i) * TicksPerToken /\ x = granted[k][i] /\ m = now
        /\ t = tokens[k] /\ r = refilled[k] /\ f = Full /\ l = Level(c)
  <2>1. Since(k, i) * TicksPerToken \in Int
    BY KeyNumbers, OneTokenMore DEF StoreInv
  <2>2. granted[k][i] \in Int /\ now \in Int /\ tokens[k] \in Int /\ refilled[k] \in Int
    BY KeyNumbers DEF StoreInv
  <2>3. Full \in Int /\ Level(c) \in Int
    BY FullBucket, LevelType DEF StoreInv
  <2>4. QED
    BY <2>1, <2>2, <2>3, Zenon
<1>2. l <= f /\ i \in DOMAIN granted[k] /\ expires[k] \in Int
  BY <1>1, KeyNumbers, LevelType DEF StoreInv
<1>3. p + l <= f + (m - x)
  <2>1. CASE k \in cached
    <3>1. t >= 0 /\ expires[k] = r + f /\ p + t <= f + (r - x)
      BY <1>1, <1>2, <2>1 DEF BucketFits
    <3>2. CASE Live(k)
      <4>1. l <= t + (m - r)
        BY <1>1, <3>1, <3>2, SMTT(30) DEF Level
      <4>2. QED
        BY <3>1, <4>1
    <3>3. CASE ~Live(k)
      <4>1. r + f <= m
        BY <1>1, <3>1, <3>3, <2>1 DEF Live
      <4>2. QED
        BY <1>2, <3>1, <4>1
    <3>4. QED
      BY <3>2, <3>3
  <2>2. CASE k \notin cached
    <3>1. p <= m - x
      BY <1>1, <1>2, <2>2 DEF BucketFits
    <3>2. QED
      BY <1>2, <3>1
  <2>3. QED
    BY <2>1, <2>2
<1>4. QED
  BY <1>1, <1>3

\* A success keeps the pace of its key.
LEMMA SuccessFits ==
  ASSUME StoreInv, NEW c \in Calls, NEW k \in Keys, k = key[c], at[c] = now,
         BucketFits(k), Level(c) >= TicksPerToken,
         k \in cached', expires'[k] = now + Full,
         tokens'[k] = Level(c) - TicksPerToken, refilled'[k] = now,
         granted'[k] = Append(granted[k], now), now' = now
  PROVE  BucketFits(k)'
<1> DEFINE n == Len(granted[k])
<1>1. /\ DOMAIN granted[k] = 1..n /\ n \in Nat
      /\ DOMAIN granted'[k] = 1..(n + 1) /\ Len(granted'[k]) = n + 1
      /\ \A i \in 1..n : granted'[k][i] = granted[k][i] /\ granted[k][i] \in Nat
      /\ granted'[k][n + 1] = now /\ now \in Nat
  BY KeyNumbers, GrantedAppend, SMTT(30) DEF StoreInv
<1>2. /\ Full \in Nat /\ TicksPerToken \in Nat /\ Full >= TicksPerToken /\ Level(c) \in Int
  BY FullBucket, Constants, LevelType DEF StoreInv
<1>3. \A i \in 1..n : granted[k][i] <= now
  BY <1>1 DEF StoreInv, Past
<1> HIDE DEF n
<1>4. ASSUME NEW i \in 1..n
      PROVE  /\ ((n + 1) - i + 1) * TicksPerToken \in Int
             /\ ((n + 1) - i + 1) * TicksPerToken + (Level(c) - TicksPerToken)
                  <= Full + (now - granted[k][i])
  <2>1. Since(k, i) = n - i + 1 /\ Since(k, i) \in Int
    BY <1>1 DEF Since, n
  <2>2. (n + 1) - i + 1 = Since(k, i) + 1
    BY <2>1, <1>1
  <2>3. /\ Since(k, i) * TicksPerToken \in Int
        /\ (Since(k, i) + 1) * TicksPerToken = Since(k, i) * TicksPerToken + TicksPerToken
    BY <2>1, OneTokenMore
  <2>4. Since(k, i) * TicksPerToken + Level(c) <= Full + (now - granted[k][i])
    BY <1>1, LevelFits DEF n
  <2>5. PICK P \in Int : P = Since(k, i) * TicksPerToken
    BY <2>3
  <2>6. ((n + 1) - i + 1) * TicksPerToken = P + TicksPerToken
    BY <2>2, <2>3, <2>5
  <2>7. granted[k][i] \in Nat
    BY <1>1
  <2>8. P + Level(c) <= Full + (now - granted[k][i])
    BY <2>4, <2>5
  <2>9. P + TicksPerToken + (Level(c) - TicksPerToken) <= Full + (now - granted[k][i])
    BY <2>7, <2>8, <1>1, <1>2
  <2>10. P + TicksPerToken \in Int
    BY <1>2
  <2>11. QED
    BY <2>6, <2>9, <2>10
<1>5. 1 * TicksPerToken = TicksPerToken
  BY <1>2
<1>6. ASSUME NEW i \in 1..(n + 1)
      PROVE  /\ granted'[k][i] <= refilled'[k]
             /\ (Len(granted'[k]) - i + 1) * TicksPerToken + tokens'[k]
                  <= Full + (refilled'[k] - granted'[k][i])
  <2>1. CASE i \in 1..n
    BY <2>1, <1>1, <1>3, <1>4
  <2>2. CASE i = n + 1
    <3>1. Len(granted'[k]) - i + 1 = 1
      BY <2>2, <1>1
    <3>2. granted'[k][i] = now
      BY <2>2, <1>1
    <3>3. TicksPerToken + (Level(c) - TicksPerToken) <= Full + (now - now)
      BY <1>1, <1>2, LevelType DEF StoreInv
    <3>4. QED
      BY <3>1, <3>2, <3>3, <1>1, <1>5
  <2>3. QED
    BY <2>1, <2>2, <1>1
<1>7. ASSUME NEW i \in 1..(n + 1), NEW j \in 1..(n + 1), i <= j
      PROVE  (j - i + 1 - MaxTokens) * TicksPerToken <= granted'[k][j] - granted'[k][i]
  <2>1. CASE j \in 1..n
    <3>1. i \in 1..n
      BY <2>1, <1>7, <1>1
    <3>2. (j - i + 1 - MaxTokens) * TicksPerToken <= granted[k][j] - granted[k][i]
      BY <2>1, <3>1, <1>7, <1>1 DEF BucketFits, Paced
    <3>3. QED
      BY <2>1, <3>1, <3>2, <1>1
  <2>2. CASE j = n + 1 /\ i \in 1..n
    <3>1. j - i + 1 \in Int /\ j - i + 1 = (n + 1) - i + 1
      BY <2>2, <1>1
    <3>2. PICK a \in Int : a = j - i + 1 /\ a = (n + 1) - i + 1
      BY <3>1
    <3>3. PICK P \in Int : P = ((n + 1) - i + 1) * TicksPerToken
      BY <2>2, <1>4
    <3>8. (a - MaxTokens) * TicksPerToken = a * TicksPerToken - Full
      BY OneTokenMore
    <3>9. P = a * TicksPerToken
      BY <3>2, <3>3, Zenon
    <3>10. (j - i + 1 - MaxTokens) * TicksPerToken = (a - MaxTokens) * TicksPerToken
      <4>1. j - i + 1 - MaxTokens = a - MaxTokens
        BY <3>2, Constants, <1>1
      <4>2. QED
        BY <4>1, Zenon
    <3>4. P + (Level(c) - TicksPerToken) <= Full + (now - granted[k][i])
      BY <2>2, <3>3, <1>4
    <3>5. granted[k][i] \in Nat
      BY <2>2, <1>1
    <3>6. PICK l \in Int, y \in Int, t \in Int, f \in Int, m \in Int :
            l = Level(c) /\ y = granted[k][i] /\ t = TicksPerToken /\ f = Full /\ m = now
      <4>1. Level(c) \in Int /\ granted[k][i] \in Int /\ TicksPerToken \in Int
            /\ Full \in Int /\ now \in Int
        BY <3>5, <1>1, <1>2
      <4>2. QED
        BY <4>1, Zenon
    <3>11. P + (l - t) <= f + (m - y) /\ l >= t
      BY <3>4, <3>6
    <3>12. P - f <= m - y
      BY <3>11
    <3>7. granted'[k][j] = now /\ granted'[k][i] = granted[k][i]
      BY <2>2, <1>1
    <3>13. (j - i + 1 - MaxTokens) * TicksPerToken = P - f
      BY <3>6, <3>8, <3>9, <3>10, Zenon
    <3>14. granted'[k][j] - granted'[k][i] = m - y
      BY <3>6, <3>7, Zenon
    <3>15. QED
      BY <3>12, <3>13, <3>14, Zenon
  <2>3. CASE j = n + 1 /\ i = n + 1
    <3>1. j - i + 1 - MaxTokens = 1 - MaxTokens
      BY <2>3, <1>1, Constants
    <3>2. (1 - MaxTokens) * TicksPerToken = TicksPerToken - Full
      BY <1>5, OneTokenMore
    <3>3. granted'[k][j] = now /\ granted'[k][i] = now
      BY <2>3, <1>1
    <3>4. TicksPerToken - Full <= now - now
      BY <1>1, <1>2
    <3>5. QED
      BY <3>1, <3>2, <3>3, <3>4, Zenon
  <2>4. QED
    BY <2>1, <2>2, <2>3, <1>1
<1>8. tokens'[k] >= 0 /\ expires'[k] = refilled'[k] + Full
  BY <1>2
<1>9. QED
  BY <1>1, <1>6, <1>7, <1>8 DEF BucketFits, Since, Paced

\* A call leaves every bucket with what it owes.
LEMMA BucketsUpdate ==
  ASSUME StoreInv, Buckets, NEW c \in Calls, UpdateBucket(c)
  PROVE  Buckets'
<1>1. /\ key[c] \in Keys /\ at[c] \in Time /\ at[c] <= now
  BY UpdateRuns DEF StoreInv
<1>2. /\ tokens'[key[c]] = IF Level(c) >= TicksPerToken
                           THEN Level(c) - TicksPerToken ELSE Level(c)
      /\ refilled'[key[c]] = IF Level(c) >= TicksPerToken
                                  \/ ~(Live(key[c]) /\ tokens[key[c]] >= 0)
                             THEN at[c] ELSE refilled[key[c]]
      /\ \A j \in Keys \ Evicted(key[c]) :
           j # key[c] => tokens'[j] = tokens[j] /\ refilled'[j] = refilled[j]
      /\ algorithm = "token-bucket"
  BY <1>1, BucketValues DEF StoreInv
<1>3. PICK success \in BOOLEAN :
        (success <=> Level(c) >= TicksPerToken) /\ Update(c, success)
  BY <1>1, BucketValues DEF StoreInv
<1>4. now' = now
  BY <1>3 DEF Update
<1>5. Ttl = Full
  BY <1>2 DEF Ttl
<1>6. ASSUME NEW j \in Keys \ (denied' \cup lagged')
      PROVE  BucketFits(j)'
  <2>1. CASE j = key[c]
    <3>1. /\ j \in cached' /\ expires'[j] = now + Full
          /\ granted'[j] = IF at[c] < now THEN <<>>
                           ELSE IF success THEN Append(granted[j], now) ELSE granted[j]
          /\ j \in denied' <=> (j \in denied \/ ~success)
          /\ j \in lagged' <=> (j \in lagged \/ at[c] < now)
      BY <2>1, <1>1, <1>3, <1>5, UpdateOwn DEF StoreInv
    <3>2. success /\ ~(at[c] < now) /\ j \notin denied /\ j \notin lagged
      BY <3>1
    <3>3. at[c] = now
      BY <3>2, <1>1, Constants DEF StoreInv, TypeOK, Time
    <3>4. BucketFits(j)
      BY <3>2, <1>2 DEF Buckets
    <3>5. Level(c) >= TicksPerToken /\ granted'[j] = Append(granted[j], now)
      BY <3>1, <3>2, <1>3
    <3>6. tokens'[j] = Level(c) - TicksPerToken /\ refilled'[j] = now
      BY <2>1, <3>3, <3>5, <1>2
    <3>7. QED
      BY <2>1, <3>1, <3>3, <3>4, <3>5, <3>6, <1>4, SuccessFits
  <2>2. CASE j \in Evicted(key[c])
    <3>1. j \notin cached' /\ granted'[j] = <<>>
      BY <2>2, <1>1, <1>3, UpdateEvicted DEF StoreInv
    <3>2. QED
      BY <3>1 DEF BucketFits, Paced
  <2>3. CASE j # key[c] /\ j \notin Evicted(key[c])
    <3>1. /\ j \in cached' <=> j \in cached
          /\ expires'[j] = expires[j] /\ granted'[j] = granted[j]
          /\ j \notin denied /\ j \notin lagged
      BY <2>3, <1>1, <1>3, UpdateOther DEF StoreInv
    <3>2. tokens'[j] = tokens[j] /\ refilled'[j] = refilled[j]
      BY <2>3, <1>2
    <3>3. BucketFits(j)
      BY <3>1, <1>2 DEF Buckets
    <3>4. QED
      BY <3>1, <3>2, <3>3, <1>4 DEF BucketFits, Paced, Since
  <2>4. QED
    BY <2>1, <2>2, <2>3
<1>7. QED
  BY <1>6 DEF Buckets

\* An entry that has expired leaves a full bucket.
LEMMA ExpiredBucketFits ==
  ASSUME TypeOK, NEW k \in Keys, k \in cached, BucketFits(k), expires[k] <= now,
         NEW i \in DOMAIN granted[k]
  PROVE  Since(k, i) * TicksPerToken <= now - granted[k][i]
<1>1. PICK P \in Int : P = Since(k, i) * TicksPerToken
  BY KeyNumbers, OneTokenMore
<1>2. /\ tokens[k] >= 0 /\ expires[k] = refilled[k] + Full
      /\ P + tokens[k] <= Full + (refilled[k] - granted[k][i])
  BY <1>1 DEF BucketFits
<1>3. /\ tokens[k] \in Int /\ refilled[k] \in Nat /\ granted[k][i] \in Nat /\ Full \in Nat
      /\ now \in Nat
  BY KeyNumbers, FullBucket
<1>4. P <= now - granted[k][i]
  BY <1>2, <1>3
<1>5. QED
  BY <1>1, <1>4

\* So does every step.
LEMMA BucketsNext ==
  ASSUME StoreInv, Buckets, Next
  PROVE  Buckets'
<1>1. ASSUME NEW c \in Calls, NEW k \in Keys, Acquire(c, k)
      PROVE  Buckets'
  BY <1>1 DEF Acquire, Buckets, BucketFits, Paced, Since, entryVars, history
<1>2. ASSUME NEW c \in Calls, UpdateBucket(c)
      PROVE  Buckets'
  BY <1>2, BucketsUpdate
<1>3. ASSUME NEW c \in Calls, UpdateWindow(c)
      PROVE  Buckets'
  BY <1>3 DEF UpdateWindow, Update, Buckets
<1>4. ASSUME CleanupExpired
      PROVE  Buckets'
  <2>1. SUFFICES ASSUME algorithm' = "token-bucket",
                        NEW k \in Keys, k \notin denied', k \notin lagged'
                 PROVE  BucketFits(k)'
    BY DEF Buckets
  <2>2. /\ Drop(Expired) /\ algorithm' = algorithm /\ now' = now /\ granted' = granted
        /\ denied' = denied /\ lagged' = lagged
    BY <1>4 DEF CleanupExpired, history
  <2>3. BucketFits(k)
    BY <2>1, <2>2 DEF Buckets
  <2>4. CASE k \in Expired
    <3>1. k \notin cached' /\ k \in cached /\ expires[k] <= now
      BY <2>2, <2>4 DEF Drop, Expired
    <3>2. \A i \in DOMAIN granted[k] : Since(k, i) * TicksPerToken <= now - granted[k][i]
      BY <3>1, <2>3, ExpiredBucketFits DEF StoreInv
    <3>3. QED
      BY <3>1, <3>2, <2>2, <2>3 DEF BucketFits, Paced, Since
  <2>5. CASE k \notin Expired
    <3>1. /\ k \in cached' <=> k \in cached
          /\ expires'[k] = expires[k] /\ tokens'[k] = tokens[k] /\ refilled'[k] = refilled[k]
      BY <2>2, <2>5 DEF Drop, Dropped
    <3>2. QED
      BY <3>1, <2>2, <2>3 DEF BucketFits, Paced, Since
  <2>6. QED
    BY <2>4, <2>5
<1>5. ASSUME Destroy
      PROVE  Buckets'
  <2>1. cached' = {} /\ \A k \in Keys : granted'[k] = <<>>
    BY <1>5 DEF Destroy, Drop, StoreInv, TypeOK
  <2>2. QED
    BY <2>1 DEF Buckets, BucketFits, Paced
<1>6. ASSUME Tick
      PROVE  Buckets'
  <2>1. SUFFICES ASSUME algorithm' = "token-bucket",
                        NEW k \in Keys, k \notin denied', k \notin lagged'
                 PROVE  BucketFits(k)'
    BY DEF Buckets
  <2>2. /\ UNCHANGED <<algorithm, entryVars, granted, denied, lagged>> /\ now' = now + 1
    BY <1>6 DEF Tick, history
  <2>3. BucketFits(k)
    BY <2>1, <2>2 DEF Buckets
  <2>4. ASSUME NEW i \in DOMAIN granted[k], k \notin cached
        PROVE  Since(k, i) * TicksPerToken <= (now + 1) - granted[k][i]
    <3>1. PICK P \in Int : P = Since(k, i) * TicksPerToken
      BY KeyNumbers, OneTokenMore DEF StoreInv
    <3>2. P <= now - granted[k][i]
      BY <2>3, <2>4, <3>1 DEF BucketFits
    <3>3. now \in Nat /\ granted[k][i] \in Nat
      BY KeyNumbers DEF StoreInv
    <3>4. P <= (now + 1) - granted[k][i]
      BY <3>2, <3>3
    <3>5. QED
      BY <3>1, <3>4
  <2>5. QED
    BY <2>2, <2>3, <2>4 DEF BucketFits, Paced, Since, entryVars
<1>7. QED
  BY <1>1, <1>2, <1>3, <1>4, <1>5, <1>6 DEF Next

-----------------------------------------------------------------------------
(* The window.                                                             *)

\* What the entry of k has from the i-th success on.
Noted(k, i) == {e \in log[k] : e[1] >= granted[k][i]}

\* A success of the last window is still in the log, and the call counts it.
LEMMA RecentIsValid ==
  ASSUME StoreInv, NEW c \in Calls, NEW k \in Keys, k = key[c], at[c] = now,
         WindowFits(k), NEW i \in 1..Len(granted[k]), granted[k][i] + WindowSize > now
  PROVE  /\ Noted(k, i) \subseteq Valid(c)
         /\ Since(k, i) <= Cardinality(Noted(k, i))
         /\ Noted(k, i) = {e \in Valid(c) : e[1] >= granted[k][i]}
<1>1. /\ i \in DOMAIN granted[k] /\ granted[k][i] \in Nat /\ expires[k] \in Nat /\ now \in Nat
      /\ WindowSize \in Nat
  BY KeyNumbers, Constants DEF StoreInv
<1>2. Live(k)
  <2>1. k \in cached
    BY <1>1 DEF WindowFits
  <2>2. granted[k][i] + WindowSize <= expires[k]
    BY <1>1, <2>1 DEF WindowFits
  <2>3. QED
    BY <1>1, <2>1, <2>2 DEF Live
<1>3. Valid(c) = {e \in log[k] : e[1] > now - WindowSize}
  BY <1>2 DEF Valid
<1>4. \A e \in log[k] : e[1] \in Int
  BY Constants DEF StoreInv, TypeOK, Time
<1>5. \A e \in log[k] : e[1] >= granted[k][i] => e[1] > now - WindowSize
  BY <1>1, <1>4
<1>6. Noted(k, i) \subseteq Valid(c) /\ Noted(k, i) = {e \in Valid(c) : e[1] >= granted[k][i]}
  BY <1>3, <1>5 DEF Noted
<1>7. Since(k, i) <= Cardinality(Noted(k, i))
  BY <1>1, <1>2, SMTT(30) DEF WindowFits, Live, Noted
<1>8. QED
  BY <1>6, <1>7

\* A call that fits is a window away from the call maxRequests before it.
LEMMA RequestFits ==
  ASSUME StoreInv, NEW c \in Calls, NEW k \in Keys, k = key[c], at[c] = now,
         WindowFits(k), Cardinality(Valid(c)) < MaxRequests,
         k \in cached', expires'[k] = now + WindowSize,
         log'[k] = Valid(c) \cup {Numbered(at[c], Valid(c))},
         granted'[k] = Append(granted[k], now), now' = now
  PROVE  WindowFits(k)'
<1> DEFINE n == Len(granted[k])
           new == Numbered(at[c], Valid(c))
<1>1. /\ DOMAIN granted[k] = 1..n /\ n \in Nat
      /\ DOMAIN granted'[k] = 1..(n + 1) /\ Len(granted'[k]) = n + 1
      /\ \A i \in 1..n : granted'[k][i] = granted[k][i] /\ granted[k][i] \in Nat
      /\ granted'[k][n + 1] = now /\ now \in Nat
      /\ WindowSize \in Nat /\ MaxRequests \in Nat /\ WindowSize >= 1 /\ MaxRequests >= 1
  BY KeyNumbers, GrantedAppend, Constants, ZenonT(30) DEF StoreInv
<1>2. \A i \in 1..n : granted[k][i] <= now
  BY <1>1 DEF StoreInv, Past
<1>3. /\ Valid(c) \subseteq Time \X (1..MaxRequests) /\ IsFiniteSet(Valid(c))
      /\ Cardinality(Valid(c)) \in Nat
  BY ValidFits DEF StoreInv
<1>4. new \notin Valid(c) /\ new[1] = now
  <2>1. at[c] \in Time
    BY DEF StoreInv, TypeOK
  <2>2. QED
    BY <1>3, <2>1, NumberedIsNew
<1> HIDE DEF n, new
<1>5. IsFiniteSet(log'[k]) /\ log'[k] = Valid(c) \cup {new}
  BY <1>3, FS_AddElement, SMTT(30) DEF new
<1>6. ASSUME NEW i \in 1..n, granted[k][i] + WindowSize > now
      PROVE  /\ Since(k, i) = n - i + 1
             /\ Since(k, i) <= Cardinality(Valid(c))
             /\ Since(k, i) + 1 <= Cardinality({e \in log'[k] : e[1] >= granted[k][i]})
  <2>1. /\ Noted(k, i) \subseteq Valid(c)
        /\ Since(k, i) <= Cardinality(Noted(k, i))
    BY <1>6, RecentIsValid DEF n
  <2>2. /\ IsFiniteSet(Noted(k, i)) /\ Cardinality(Noted(k, i)) <= Cardinality(Valid(c))
        /\ Cardinality(Noted(k, i)) \in Nat
    BY <2>1, <1>3, FS_Subset, FS_CardinalityType
  <2>3. Since(k, i) = n - i + 1 /\ Since(k, i) \in Int
    BY <1>1, SMTT(30) DEF Since, n
  <2>4. new \notin Noted(k, i)
    BY <1>4, <2>1
  <2>5. Cardinality(Noted(k, i) \cup {new}) = Cardinality(Noted(k, i)) + 1
    BY <2>2, <2>4, FS_AddElement
  <2> DEFINE later == {e \in log'[k] : e[1] >= granted[k][i]}
  <2>6. new[1] >= granted[k][i]
    BY <1>1, <1>2, <1>4
  <2>7. Noted(k, i) \cup {new} \subseteq later
    BY <2>1, <2>6, <1>5 DEF Noted
  <2>8. IsFiniteSet(later)
    <3>1. later \in SUBSET log'[k]
      OBVIOUS
    <3>2. QED
      BY <3>1, <1>5, FS_Subset
  <2> HIDE DEF later
  <2>9. Cardinality(Noted(k, i) \cup {new}) <= Cardinality(later) /\ Cardinality(later) \in Nat
    BY <2>7, <2>8, FS_Subset, FS_CardinalityType
  <2>10. Since(k, i) + 1 <= Cardinality(later)
    BY <2>1, <2>2, <2>3, <2>5, <2>9
  <2>11. Since(k, i) <= Cardinality(Valid(c))
    BY <2>1, <2>2, <2>3, <1>3
  <2>12. QED
    BY <2>3, <2>10, <2>11 DEF later
<1>7. ASSUME NEW i \in 1..(n + 1)
      PROVE  /\ granted'[k][i] + WindowSize <= expires'[k]
             /\ granted'[k][i] + WindowSize > now =>
                  Len(granted'[k]) - i + 1 <= Cardinality({e \in log'[k] : e[1] >= granted'[k][i]})
  <2>1. CASE i \in 1..n
    <3>1. granted'[k][i] = granted[k][i] /\ granted[k][i] <= now /\ granted[k][i] \in Nat
      BY <2>1, <1>1, <1>2
    <3>2. ASSUME granted[k][i] + WindowSize > now
          PROVE  Len(granted'[k]) - i + 1 <= Cardinality({e \in log'[k] : e[1] >= granted[k][i]})
      <4>1. Since(k, i) = n - i + 1 /\ Len(granted'[k]) = n + 1
        BY <1>1 DEF Since, n
      <4>2. Len(granted'[k]) - i + 1 = Since(k, i) + 1
        BY <4>1, <2>1, <1>1
      <4>3. QED
        BY <4>2, <2>1, <3>2, <1>6, Zenon
    <3>3. granted[k][i] + WindowSize <= now + WindowSize
      BY <3>1, <1>1, SMTT(30)
    <3>4. {e \in log'[k] : e[1] >= granted'[k][i]} = {e \in log'[k] : e[1] >= granted[k][i]}
      BY <3>1
    <3>5. granted'[k][i] + WindowSize <= expires'[k]
      BY <3>1, <3>3, <1>1
    <3>6. granted'[k][i] + WindowSize > now => granted[k][i] + WindowSize > now
      BY <3>1
    <3>7. QED
      BY <3>2, <3>4, <3>5, <3>6, Zenon
  <2>2. CASE i = n + 1
    <3> DEFINE later == {e \in log'[k] : e[1] >= granted'[k][i]}
    <3>1. granted'[k][i] = now /\ Len(granted'[k]) - i + 1 = 1
      BY <2>2, <1>1
    <3>2. {new} \subseteq later
      <4>1. new \in log'[k] /\ new[1] = now
        BY <1>4, <1>5
      <4>2. now >= now
        BY <1>1
      <4>3. QED
        BY <3>1, <4>1, <4>2, Zenon
    <3>3. later \in SUBSET log'[k]
      OBVIOUS
    <3> HIDE DEF later
    <3>4. IsFiniteSet(later)
      BY <3>3, <1>5, FS_Subset
    <3>5. Cardinality({new}) = 1
      BY FS_Singleton
    <3>6. 1 <= Cardinality(later)
      BY <3>2, <3>4, <3>5, FS_Subset
    <3>7. granted'[k][i] + WindowSize <= expires'[k]
      BY <3>1, <1>1
    <3>8. Len(granted'[k]) - i + 1 <= Cardinality(later)
      BY <3>1, <3>6, Zenon
    <3>9. QED
      BY <3>7, <3>8, ZenonT(30) DEF later
  <2>3. i \in 1..n \/ i = n + 1
    BY <1>1
  <2>4. QED
    BY <2>1, <2>2, <2>3, Zenon
<1>8. ASSUME NEW i \in 1..(n + 1), NEW j \in 1..(n + 1), j - i >= MaxRequests
      PROVE  granted'[k][j] - granted'[k][i] >= WindowSize
  <2>1. CASE j \in 1..n
    <3>1. i \in 1..n
      BY <2>1, <1>8, <1>1
    <3>2. QED
      BY <2>1, <3>1, <1>1, <1>8 DEF WindowFits
  <2>2. CASE j = n + 1
    <3>1. i \in 1..n
      BY <2>2, <1>8, <1>1
    <3>2. ~(granted[k][i] + WindowSize > now)
      <4>1. SUFFICES ASSUME granted[k][i] + WindowSize > now PROVE FALSE
        OBVIOUS
      <4>2. n - i + 1 <= Cardinality(Valid(c))
        BY <3>1, <4>1, <1>6
      <4>3. n - i + 1 >= MaxRequests
        BY <2>2, <1>8, <1>1
      <4>4. QED
        BY <4>2, <4>3, <3>1, <1>1, <1>3
    <3>3. granted[k][i] \in Nat /\ granted'[k][j] = now /\ granted'[k][i] = granted[k][i]
      BY <2>2, <3>1, <1>1
    <3>4. now - granted[k][i] >= WindowSize
      BY <3>2, <3>3, <1>1, SMTT(30)
    <3>5. QED
      BY <3>3, <3>4
  <2>3. QED
    BY <2>1, <2>2, <1>1
<1>9. QED
  BY <1>1, <1>7, <1>8 DEF WindowFits, Since

\* A refusal only forgets what is older than a window.
LEMMA RefusalFits ==
  ASSUME StoreInv, NEW c \in Calls, NEW k \in Keys, k = key[c], at[c] = now,
         WindowFits(k), ~(Cardinality(Valid(c)) < MaxRequests),
         k \in cached', expires'[k] = now + WindowSize,
         log'[k] = Valid(c), granted'[k] = granted[k], now' = now
  PROVE  WindowFits(k)'
<1>1. DOMAIN granted[k] = 1..Len(granted[k])
  BY KeyNumbers DEF StoreInv
<1>2. ASSUME NEW i \in DOMAIN granted[k]
      PROVE  granted[k][i] + WindowSize <= now + WindowSize
  <2>1. granted[k][i] <= now
    BY DEF StoreInv, Past
  <2>2. granted[k][i] \in Nat /\ now \in Nat /\ WindowSize \in Nat
    BY <1>1, KeyNumbers, Constants DEF StoreInv
  <2>3. QED
    BY <2>1, <2>2
<1>3. ASSUME NEW i \in DOMAIN granted[k], granted[k][i] + WindowSize > now
      PROVE  Since(k, i) <= Cardinality({e \in Valid(c) : e[1] >= granted[k][i]})
  BY <1>1, <1>3, RecentIsValid
<1>4. \A i, j \in DOMAIN granted'[k] :
       j - i >= MaxRequests => granted'[k][j] - granted'[k][i] >= WindowSize
  BY DEF WindowFits
<1>5. ASSUME NEW i \in DOMAIN granted'[k]
      PROVE  /\ granted'[k][i] + WindowSize <= expires'[k]
             /\ granted'[k][i] + WindowSize > now' =>
                  Len(granted'[k]) - i + 1
                    <= Cardinality({e \in log'[k] : e[1] >= granted'[k][i]})
  <2>1. {e \in log'[k] : e[1] >= granted'[k][i]} = {e \in Valid(c) : e[1] >= granted[k][i]}
    OBVIOUS
  <2>2. Len(granted'[k]) - i + 1 = Since(k, i)
    BY DEF Since
  <2>3. granted'[k][i] + WindowSize > now' =>
          Since(k, i) <= Cardinality({e \in Valid(c) : e[1] >= granted[k][i]})
    BY <1>3
  <2>4. granted'[k][i] + WindowSize > now' =>
                  Len(granted'[k]) - i + 1
                    <= Cardinality({e \in log'[k] : e[1] >= granted'[k][i]})
    BY <2>1, <2>2, <2>3, Zenon
  <2>5. QED
    BY <2>4, <1>2
<1>6. QED
  BY <1>4, <1>5 DEF WindowFits, Since

\* A call leaves every window with the successes it has to count.
LEMMA WindowsUpdate ==
  ASSUME StoreInv, Windows, NEW c \in Calls, UpdateWindow(c)
  PROVE  Windows'
<1>1. /\ key[c] \in Keys /\ at[c] \in Time /\ at[c] <= now
  BY UpdateRuns DEF StoreInv
<1>2. /\ log'[key[c]] = IF Cardinality(Valid(c)) < MaxRequests
                        THEN Valid(c) \cup {Numbered(at[c], Valid(c))} ELSE Valid(c)
      /\ \A j \in Keys \ Evicted(key[c]) : j # key[c] => log'[j] = log[j]
      /\ algorithm = "sliding-window"
  BY <1>1, WindowValues DEF StoreInv
<1>3. PICK success \in BOOLEAN :
        (success <=> Cardinality(Valid(c)) < MaxRequests) /\ Update(c, success)
  BY <1>1, WindowValues DEF StoreInv
<1>4. now' = now
  BY <1>3 DEF Update
<1>5. Ttl = WindowSize
  BY <1>2 DEF Ttl
<1>6. ASSUME NEW j \in Keys \ lagged'
      PROVE  WindowFits(j)'
  <2>1. CASE j = key[c]
    <3>1. /\ j \in cached' /\ expires'[j] = now + WindowSize
          /\ granted'[j] = IF at[c] < now THEN <<>>
                           ELSE IF success THEN Append(granted[j], now) ELSE granted[j]
          /\ j \in lagged' <=> (j \in lagged \/ at[c] < now)
      BY <2>1, <1>1, <1>3, <1>5, UpdateOwn DEF StoreInv
    <3>2. ~(at[c] < now) /\ j \notin lagged
      BY <3>1
    <3>3. at[c] = now
      BY <3>2, <1>1, Constants DEF StoreInv, TypeOK, Time
    <3>4. WindowFits(j)
      BY <3>2, <1>2 DEF Windows
    <3>5. CASE Cardinality(Valid(c)) < MaxRequests
      <4>1. granted'[j] = Append(granted[j], now)
        BY <3>1, <3>2, <3>5, <1>3
      <4>2. log'[j] = Valid(c) \cup {Numbered(at[c], Valid(c))}
        BY <2>1, <3>5, <1>2
      <4>3. QED
        BY <2>1, <3>1, <3>3, <3>4, <3>5, <4>1, <4>2, <1>4, RequestFits
    <3>6. CASE ~(Cardinality(Valid(c)) < MaxRequests)
      <4>1. granted'[j] = granted[j]
        BY <3>1, <3>2, <3>6, <1>3
      <4>2. log'[j] = Valid(c)
        BY <2>1, <3>6, <1>2
      <4>3. QED
        BY <2>1, <3>1, <3>3, <3>4, <3>6, <4>1, <4>2, <1>4, RefusalFits
    <3>7. QED
      BY <3>5, <3>6
  <2>2. CASE j \in Evicted(key[c])
    <3>1. j \notin cached' /\ granted'[j] = <<>>
      BY <2>2, <1>1, <1>3, UpdateEvicted DEF StoreInv
    <3>2. QED
      BY <3>1 DEF WindowFits
  <2>3. CASE j # key[c] /\ j \notin Evicted(key[c])
    <3>1. /\ j \in cached' <=> j \in cached
          /\ expires'[j] = expires[j] /\ granted'[j] = granted[j] /\ j \notin lagged
      BY <2>3, <1>1, <1>3, UpdateOther DEF StoreInv
    <3>2. log'[j] = log[j]
      BY <2>3, <1>2
    <3>3. WindowFits(j)
      BY <3>1, <1>2 DEF Windows
    <3>4. QED
      BY <3>1, <3>2, <3>3, <1>4 DEF WindowFits, Since
  <2>4. QED
    BY <2>1, <2>2, <2>3
<1>7. QED
  BY <1>6 DEF Windows

\* So does every step.
LEMMA WindowsNext ==
  ASSUME StoreInv, Windows, Next
  PROVE  Windows'
<1>1. ASSUME NEW c \in Calls, NEW k \in Keys, Acquire(c, k)
      PROVE  Windows'
  BY <1>1 DEF Acquire, Windows, WindowFits, Since, entryVars, history
<1>2. ASSUME NEW c \in Calls, UpdateBucket(c)
      PROVE  Windows'
  BY <1>2 DEF UpdateBucket, Update, Windows
<1>3. ASSUME NEW c \in Calls, UpdateWindow(c)
      PROVE  Windows'
  BY <1>3, WindowsUpdate
<1>4. ASSUME CleanupExpired
      PROVE  Windows'
  <2>1. SUFFICES ASSUME algorithm' = "sliding-window", NEW k \in Keys, k \notin lagged'
                 PROVE  WindowFits(k)'
    BY DEF Windows
  <2>2. /\ Drop(Expired) /\ algorithm' = algorithm /\ now' = now /\ granted' = granted
        /\ lagged' = lagged
    BY <1>4 DEF CleanupExpired, history
  <2>3. WindowFits(k)
    BY <2>1, <2>2 DEF Windows
  <2>4. CASE k \in Expired
    <3>1. k \notin cached' /\ k \in cached /\ expires[k] <= now
      BY <2>2, <2>4 DEF Drop, Expired
    <3>2. ASSUME NEW i \in DOMAIN granted[k]
          PROVE  granted[k][i] + WindowSize <= now
      <4>1. granted[k][i] + WindowSize <= expires[k]
        BY <3>1, <2>3 DEF WindowFits
      <4>2. granted[k][i] \in Nat /\ expires[k] \in Nat /\ now \in Nat /\ WindowSize \in Nat
        BY KeyNumbers, Constants DEF StoreInv
      <4>3. QED
        BY <3>1, <4>1, <4>2
    <3>3. QED
      BY <3>1, <3>2, <2>2, <2>3 DEF WindowFits
  <2>5. CASE k \notin Expired
    <3>1. /\ k \in cached' <=> k \in cached
          /\ expires'[k] = expires[k] /\ log'[k] = log[k]
      BY <2>2, <2>5 DEF Drop, Dropped
    <3>2. QED
      BY <3>1, <2>2, <2>3 DEF WindowFits, Since
  <2>6. QED
    BY <2>4, <2>5
<1>5. ASSUME Destroy
      PROVE  Windows'
  <2>1. cached' = {} /\ \A k \in Keys : granted'[k] = <<>>
    BY <1>5 DEF Destroy, Drop, StoreInv, TypeOK
  <2>2. QED
    BY <2>1 DEF Windows, WindowFits
<1>6. ASSUME Tick
      PROVE  Windows'
  <2>1. SUFFICES ASSUME algorithm' = "sliding-window", NEW k \in Keys, k \notin lagged'
                 PROVE  WindowFits(k)'
    BY DEF Windows
  <2>2. UNCHANGED <<algorithm, entryVars, granted, denied, lagged>> /\ now' = now + 1
    BY <1>6 DEF Tick, history
  <2>3. WindowFits(k)
    BY <2>1, <2>2 DEF Windows
  <2>4. ASSUME NEW i \in DOMAIN granted[k]
        PROVE  /\ granted[k][i] + WindowSize > now + 1 => granted[k][i] + WindowSize > now
               /\ granted[k][i] + WindowSize <= now => granted[k][i] + WindowSize <= now + 1
    <3>1. granted[k][i] \in Nat /\ now \in Nat /\ WindowSize \in Nat
      BY KeyNumbers, Constants DEF StoreInv
    <3>2. QED
      BY <3>1
  <2>5. QED
    BY <2>2, <2>3, <2>4 DEF WindowFits, Since, entryVars
<1>7. QED
  BY <1>1, <1>2, <1>3, <1>4, <1>5, <1>6 DEF Next

-----------------------------------------------------------------------------
(* Every behaviour.                                                        *)

LEMMA Initial == Init => IInv
<1> SUFFICES ASSUME Init PROVE IInv
  OBVIOUS
<1>1. TypeOK
  BY TypeInitial
<1>2. /\ cached = {} /\ before = {} /\ torn = {} /\ timer = "off" /\ now = 0
      /\ log = [k \in Keys |-> {}] /\ granted = [k \in Keys |-> <<>>]
      /\ refilled = [k \in Keys |-> 0] /\ locks = [k \in Keys |-> None]
      /\ pc = [c \in Calls |-> "idle"] /\ previous = [c \in Calls |-> None]
  BY DEF Init
<1>3. CallsFit
  BY <1>2 DEF CallsFit
<1>4. Queued
  <2>1. \A k \in Keys : Waiters(k) = {} /\ locks[k] = None
    BY <1>2 DEF Waiters
  <2>2. QueuedBy([c \in Calls |-> 0])
    BY <2>1 DEF QueuedBy
  <2>3. [c \in Calls |-> 0] \in [Calls -> Nat]
    OBVIOUS
  <2>4. QED
    BY <2>2, <2>3 DEF Queued
<1>5. MapFits /\ CacheBounded /\ TimerMatchesCache
  BY <1>2, FS_EmptySet DEF MapFits, CacheBounded, TimerMatchesCache
<1>6. Past
  BY <1>2 DEF Past, UpTo
<1>7. InOrder
  BY <1>2 DEF InOrder
<1>8. Buckets
  BY <1>2 DEF Buckets, BucketFits, Paced
<1>9. Windows
  BY <1>2 DEF Windows, WindowFits
<1>10. QED
  BY <1>1, <1>3, <1>4, <1>5, <1>6, <1>7, <1>8, <1>9 DEF IInv, StoreInv

\* Every step keeps the invariant.
LEMMA Inductive == IInv /\ [Next]_vars => IInv'
<1> SUFFICES ASSUME IInv, [Next]_vars PROVE IInv'
  OBVIOUS
<1>1. CASE Next
  BY <1>1, TypeNext, CallsNext, QueueNext, MapNext, PastNext, InOrderNext, BucketsNext,
     WindowsNext DEF IInv, StoreInv
<1>2. CASE UNCHANGED vars
  <2>1. TypeOK' /\ CallsFit' /\ MapFits' /\ CacheBounded' /\ TimerMatchesCache' /\ Past'
    BY <1>2, ZenonT(30)
    DEF IInv, StoreInv, TypeOK, CallsFit, MapFits, CacheBounded, TimerMatchesCache, Past,
        UpTo, vars, entryVars, callVars, history
  <2>2. Queued'
    BY <1>2, QueueFrame DEF IInv, StoreInv, vars, callVars, history
  <2>3. InOrder'
    BY <1>2 DEF IInv, InOrder, Waiters, UpTo, vars, entryVars, callVars, history
  <2>4. Buckets' /\ Windows'
    BY <1>2 DEF IInv, Buckets, BucketFits, Paced, Windows, WindowFits, Since, vars,
                entryVars, callVars, history
  <2>5. QED
    BY <2>1, <2>2, <2>3, <2>4 DEF IInv, StoreInv
<1>3. QED
  BY <1>1, <1>2

\* The invariant holds at all times.
THEOREM Invariance == Spec => []IInv
BY Initial, Inductive, PTL DEF Spec

LEMMA LocksBelong == IInv => NoLockLeaks
<1> SUFFICES ASSUME IInv, NEW k \in Keys, locks[k] # None
             PROVE  pc[locks[k]] = "wait" /\ key[locks[k]] = k
  BY DEF NoLockLeaks
<1>1. locks[k] \in Waiters(k)
  BY DEF IInv, StoreInv, Queued, QueuedBy
<1>2. QED
  BY <1>1 DEF Waiters

\* Whatever calls, evictions, the interval and destroy do in whatever order, for
\* any number of identifiers and any bound: the Map stays within its bound, the
\* interval runs exactly while there are entries, and every lock belongs to a call
\* that waits (rate-limit.store.ts:82-118, 137-155).
THEOREM Consistent == Spec => []StoreIsConsistent
<1>1. IInv => StoreIsConsistent
  BY LocksBelong DEF IInv, StoreInv, StoreIsConsistent
<1>2. QED
  BY <1>1, Invariance, PTL

\* However many calls queue for a key, none finds what a later one wrote: the
\* chain of promises is one line for each key, in the order of the clock
\* (rate-limit.store.ts:50-59, 96-101).
THEOREM Ordered == Spec => []NoCallOvertakes
<1>1. IInv => NoCallOvertakes
  <2> SUFFICES ASSUME IInv, NEW c \in Calls \ torn, pc[c] = "wait", Live(key[c])
               PROVE  /\ algorithm = "token-bucket" => refilled[key[c]] <= at[c]
                      /\ \A e \in log[key[c]] : e[1] <= at[c]
    BY DEF NoCallOvertakes
  <2>1. key[c] \in Keys /\ key[c] \in cached
    BY DEF IInv, StoreInv, CallsFit, Live
  <2>2. c \in Waiters(key[c])
    BY DEF Waiters
  <2>3. UpTo(key[c], at[c])
    BY <2>1, <2>2 DEF IInv, InOrder
  <2>4. QED
    BY <2>3 DEF UpTo
<1>2. QED
  BY <1>1, Invariance, PTL

\* The sliding window never lets one request too many through, for any window and
\* any number of requests, while the clock does not run on under a waiting call
\* and the entry is not evicted (rate-limit.strategies.ts:96-142).
THEOREM WindowHolds == Spec => []WindowNeverExceeded
<1>1. IInv => WindowNeverExceeded
  BY DEF IInv, Windows, WindowFits, WindowNeverExceeded
<1>2. QED
  BY <1>1, Invariance, PTL

\* The token bucket keeps its pace until it refuses a call: for any bucket and any
\* refill rate, the time to live is long enough that an entry that expires leaves
\* a full bucket (rate-limit.strategies.ts:45-72).
THEOREM PaceHolds == Spec => []PaceBreaksOnlyAfterDenial
<1>1. IInv => PaceBreaksOnlyAfterDenial
  BY DEF IInv, Buckets, BucketFits, PaceBreaksOnlyAfterDenial
<1>2. QED
  BY <1>1, Invariance, PTL

\* What makes room was inserted first.
LEMMA EvictionStep ==
  ASSUME IInv, Next, NEW j \in cached, NEW k \in cached,
         <<j, k>> \in before, Live(k), k \notin cached'
  PROVE  j \notin cached'
<1>1. ASSUME NEW c \in Calls, NEW i \in Keys, Acquire(c, i)
      PROVE  FALSE
  BY <1>1 DEF Acquire, entryVars
<1>2. ASSUME NEW c \in Calls, UpdateBucket(c) \/ UpdateWindow(c)
      PROVE  j \notin cached'
  <2>1. PICK i \in Keys : Place(i)
    BY <1>2, UpdateRuns DEF IInv, StoreInv, Update
  <2>2. k # i /\ k \notin Kept(i) /\ ~Live(i)
    BY <2>1, EvictedFits DEF Place, Kept
  <2>3. /\ Cardinality(cached \ {i}) >= MaxEntries
        /\ k \in Oldest(cached \ {i})
    BY <2>2 DEF Kept, EnforceMaxEntries
  <2>4. j = i
    BY <2>3 DEF Oldest
  <2>5. /\ IsFiniteSet(cached) /\ IsFiniteSet(cached \ {i})
        /\ Cardinality(cached \ {i}) = Cardinality(cached) - 1
    BY <2>4, FS_RemoveElement DEF IInv, StoreInv, MapFits
  <2>6. Cardinality(cached) \in Nat /\ Cardinality(cached \ {i}) \in Nat
    BY <2>5, FS_CardinalityType
  <2>7. Cardinality(cached) <= MaxEntries \/ Cardinality(cached) <= 1
    BY DEF IInv, StoreInv, CacheBounded
  <2>8. Cardinality(cached \ {i}) = 0
    BY <2>3, <2>5, <2>6, <2>7, Constants
  <2>9. cached \ {i} = {}
    BY <2>5, <2>8, FS_EmptySet
  <2>10. QED
    BY <2>2, <2>9
<1>3. ASSUME CleanupExpired
      PROVE  FALSE
  <2>1. k \in Keys /\ expires[k] \in Nat /\ now \in Nat
    BY KeyNumbers DEF IInv, StoreInv, TypeOK
  <2>2. k \in cached' <=> k \notin Expired
    BY <1>3 DEF CleanupExpired, Drop
  <2>3. QED
    BY <2>1, <2>2 DEF Expired, Live
<1>4. ASSUME Destroy
      PROVE  j \notin cached'
  BY <1>4 DEF Destroy, Drop, IInv, StoreInv, TypeOK
<1>5. ASSUME Tick
      PROVE  FALSE
  BY <1>5 DEF Tick, entryVars
<1>6. QED
  BY <1>1, <1>2, <1>3, <1>4, <1>5 DEF Next

\* An entry that still counts leaves the Map only after all that were inserted
\* before it, for any bound: a key that is written again never pushes out a
\* younger one (rate-limit.store.ts:105-118).
THEOREM OldestFirst == Spec => OldestGoesFirst
<1>1. IInv /\ [Next]_vars =>
        [\A j, k \in cached :
           <<j, k>> \in before /\ Live(k) /\ k \notin cached' => j \notin cached']_vars
  BY EvictionStep
<1>2. QED
  BY <1>1, Invariance, PTL DEF Spec, OldestGoesFirst

=============================================================================
