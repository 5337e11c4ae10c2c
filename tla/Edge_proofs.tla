----------------------------- MODULE Edge_proofs -----------------------------
(***************************************************************************)
(* What the edge keeps to, for any tenants, requests, deliveries, limits,  *)
(* windows, skew and lookup times: how much passes a limiter, which moves  *)
(* between tenants are reported, and which webhooks are accepted twice.    *)
(* The parts share nothing but the clock, so each has an invariant of its  *)
(* own; the type invariant follows from all of them.                       *)
(***************************************************************************)
EXTENDS Edge, FiniteSetTheorems, TLAPS

(* One counter and the marks of the requests it has let through.           *)

Bucket == [count : Nat, resetAt : Nat]
Marked == [ends : Nat, nth : Nat, at : Nat]

\* A counter ends within its window, and what runs has counted.
Counts(b, window, t) ==
  b \in Bucket /\ b.resetAt <= t + window /\ (b.resetAt > t => b.count >= 1)

\* A mark is of the last window, and among the first max of its counter.
Timely(m, max, window, t) ==
  /\ m \in Marked
  /\ m.at <= t /\ t - m.at < window
  /\ m.at < m.ends /\ m.ends <= m.at + window
  /\ 1 <= m.nth /\ m.nth <= max
  /\ m.nth = 1 => m.ends = m.at + window

\* Two marks are of one counter, or of counters a window apart.
Apart(m, n, window) ==
  /\ m.ends < n.ends => m.ends + window <= n.ends
  /\ m.ends = n.ends /\ m.nth = n.nth => m = n

\* Only the running counter's marks end in the future.
Behind(m, b, window, t) ==
  /\ m.ends > t => m.ends = b.resetAt /\ m.nth <= b.count
  /\ b.resetAt > t /\ m.ends # b.resetAt => m.ends + window <= b.resetAt

Kept(b, marks, max, window, t) ==
  /\ Counts(b, window, t)
  /\ \A m \in marks : Timely(m, max, window, t) /\ Behind(m, b, window, t)
  /\ \A m, n \in marks : Apart(m, n, window)
-----------------------------------------------------------------------------
LEMMA TwoCounters ==
  ASSUME NEW t \in Nat, NEW max \in Nat, NEW window \in Nat, NEW m, NEW n, NEW o,
         Timely(m, max, window, t), Timely(n, max, window, t), Timely(o, max, window, t),
         Apart(m, n, window), Apart(n, o, window), m.ends < n.ends, n.ends < o.ends
  PROVE  FALSE
<1>1. m \in Marked /\ n \in Marked /\ o \in Marked
  BY DEF Timely
<1>2. m.ends \in Nat /\ n.ends \in Nat /\ o.ends \in Nat /\ m.at \in Nat /\ o.at \in Nat
  BY <1>1 DEF Marked
<1>3. m.ends + window <= n.ends /\ n.ends + window <= o.ends
  BY DEF Apart
<1>4. o.ends <= o.at + window /\ o.at <= t /\ m.at < m.ends /\ t - m.at < window
  BY DEF Timely
<1> QED  BY <1>2, <1>3, <1>4

\* Of an earlier counter the first one is too old.
LEMMA FirstIsOld ==
  ASSUME NEW t \in Nat, NEW max \in Nat, NEW window \in Nat, NEW m, NEW n,
         Timely(m, max, window, t), Timely(n, max, window, t), Apart(m, n, window), m.ends < n.ends
  PROVE  m.nth >= 2
<1>1. m \in Marked /\ n \in Marked
  BY DEF Timely
<1>2. m.ends \in Nat /\ n.ends \in Nat /\ m.nth \in Nat /\ m.at \in Nat /\ n.at \in Nat
  BY <1>1 DEF Marked
<1>3. m.ends + window <= n.ends
  BY DEF Apart
<1>4. n.ends <= n.at + window /\ n.at <= t /\ t - m.at < window
      /\ 1 <= m.nth /\ (m.nth = 1 => m.ends = m.at + window)
  BY DEF Timely
<1> QED  BY <1>2, <1>3, <1>4

LEMMA MarksAreFew ==
  ASSUME NEW t \in Nat, NEW max \in Nat \ {0}, NEW window \in Nat, NEW marks,
         \A m \in marks : Timely(m, max, window, t),
         \A m, n \in marks : Apart(m, n, window)
  PROVE  Cardinality(marks) <= 2 * max - 1
<1>1. \A m \in marks : m.ends \in Nat /\ m.nth \in 1..max
  <2> SUFFICES ASSUME NEW m \in marks PROVE m.ends \in Nat /\ m.nth \in 1..max
    OBVIOUS
  <2>1. m \in Marked /\ 1 <= m.nth /\ m.nth <= max
    BY DEF Timely
  <2> QED  BY <2>1 DEF Marked
<1> DEFINE T == 1..(2 * max - 1)
<1>2. IsFiniteSet(T) /\ Cardinality(T) = 2 * max - 1
  <2>1. 2 * max - 1 \in Int /\ 2 * max - 1 >= 1
    OBVIOUS
  <2>2. IsFiniteSet(1..(2 * max - 1)) /\ Cardinality(1..(2 * max - 1)) = IF 1 > 2 * max - 1 THEN 0 ELSE (2 * max - 1) - 1 + 1
    BY <2>1, FS_Interval
  <2> QED  BY <2>1, <2>2
<1>3. ASSUME NEW f \in [marks -> T], \A m, n \in marks : f[m] = f[n] => m = n
      PROVE  Cardinality(marks) <= 2 * max - 1
  <2>1. f \in Injection(marks, T)
    BY <1>3 DEF Injection, IsInjective
  <2> HIDE DEF T
  <2> QED  BY <1>2, <2>1, FS_Injection
<1>4. CASE \A m, n \in marks : m.ends = n.ends
  <2> DEFINE f == [m \in marks |-> m.nth]
  <2>1. f \in [marks -> T]
    BY <1>1
  <2>2. \A m, n \in marks : f[m] = f[n] => m = n
    BY <1>4 DEF Apart
  <2> HIDE DEF f
  <2> QED  BY <1>2, <1>3, <2>1, <2>2
<1>5. ASSUME NEW p \in marks, NEW q \in marks, p.ends < q.ends
      PROVE  Cardinality(marks) <= 2 * max - 1
  <2> DEFINE f == [m \in marks |-> IF m.ends = q.ends THEN m.nth ELSE max + m.nth - 1]
  <2>1. \A m \in marks : m.ends = p.ends \/ m.ends = q.ends
    <3> SUFFICES ASSUME NEW m \in marks, m.ends # p.ends, m.ends # q.ends PROVE FALSE
      OBVIOUS
    <3>1. m.ends \in Nat /\ p.ends \in Nat /\ q.ends \in Nat
      BY <1>1
    <3>2. CASE m.ends < p.ends
      BY <1>5, <3>2, TwoCounters
    <3>3. CASE p.ends < m.ends /\ m.ends < q.ends
      BY <3>3, TwoCounters
    <3>4. CASE q.ends < m.ends
      BY <1>5, <3>4, TwoCounters
    <3> QED  BY <3>1, <3>2, <3>3, <3>4
  <2>2. \A m \in marks : m.ends # q.ends => m.nth >= 2
    <3> SUFFICES ASSUME NEW m \in marks, m.ends # q.ends PROVE m.nth >= 2
      OBVIOUS
    <3>1. m.ends < q.ends
      BY <1>5, <2>1
    <3> QED  BY <3>1, FirstIsOld
  <2>3. \A m \in marks : f[m] \in T
    BY <1>1, <2>2
  <2>4. ASSUME NEW m \in marks, NEW n \in marks, f[m] = f[n] PROVE m = n
    <3>1. m.nth \in 1..max /\ n.nth \in 1..max
      BY <1>1
    <3>2. m.ends = n.ends /\ m.nth = n.nth
      <4>1. CASE m.ends = q.ends /\ n.ends = q.ends
        BY <2>4, <4>1
      <4>2. CASE m.ends = q.ends /\ n.ends # q.ends
        <5>1. m.nth = max + n.nth - 1 /\ n.nth >= 2
          BY <2>2, <2>4, <4>2
        <5> QED  BY <3>1, <5>1
      <4>3. CASE m.ends # q.ends /\ n.ends = q.ends
        <5>1. n.nth = max + m.nth - 1 /\ m.nth >= 2
          BY <2>2, <2>4, <4>3
        <5> QED  BY <3>1, <5>1
      <4>4. CASE m.ends # q.ends /\ n.ends # q.ends
        <5>1. max + m.nth - 1 = max + n.nth - 1 /\ m.ends = n.ends
          BY <2>1, <2>4, <4>4
        <5>2. m.nth \in Int /\ n.nth \in Int
          BY <3>1
        <5> QED  BY <5>1, <5>2
      <4> QED  BY <4>1, <4>2, <4>3, <4>4
    <3> QED  BY <3>2 DEF Apart
  <2>5. f \in [marks -> T]
    BY <2>3
  <2> HIDE DEF f
  <2> QED  BY <1>2, <1>3, <2>4, <2>5
<1>6. ASSUME NEW p \in marks, NEW q \in marks, p.ends # q.ends
      PROVE  Cardinality(marks) <= 2 * max - 1
  <2>1. p.ends < q.ends \/ q.ends < p.ends
    BY <1>1, <1>6
  <2> QED  BY <1>5, <2>1
<1> QED  BY <1>4, <1>6
-----------------------------------------------------------------------------
LEMMA HitCounts ==
  ASSUME now \in Nat, NEW window \in Nat \ {0}, NEW b, Counts(b, window, now)
  PROVE  /\ Counts(Hit(b, window), window, now)
         /\ Hit(b, window).resetAt > now
         /\ Running(b) => Hit(b, window).resetAt = b.resetAt /\ Hit(b, window).count = b.count + 1
         /\ ~Running(b) => Hit(b, window).resetAt = now + window /\ Hit(b, window).count = 1
<1>1. b \in Bucket /\ b.count \in Nat /\ b.resetAt \in Nat
  BY DEF Counts, Bucket
<1>2. CASE Running(b)
  <2>1. Hit(b, window) = [b EXCEPT !.count = @ + 1]
    BY <1>2 DEF Hit
  <2>2. Hit(b, window) \in Bucket /\ Hit(b, window).count = b.count + 1 /\ Hit(b, window).resetAt = b.resetAt
    BY <1>1, <2>1 DEF Bucket
  <2> QED  BY <1>1, <1>2, <2>2 DEF Counts, Running
<1>3. CASE ~Running(b)
  <2>1. Hit(b, window) = [count |-> 1, resetAt |-> now + window]
    BY <1>3 DEF Hit
  <2> QED  BY <1>3, <2>1 DEF Counts, Bucket
<1> QED  BY <1>2, <1>3

\* The marks of a counter that has run out end in the past.
LEMMA OldMarks ==
  ASSUME now \in Nat, NEW max, NEW window \in Nat \ {0}, NEW b, NEW marks,
         Kept(b, marks, max, window, now), ~Running(b), NEW m \in marks
  PROVE  m.ends \in Nat /\ m.ends <= now
<1>1. b.resetAt \in Nat /\ ~(b.resetAt > now)
  BY DEF Kept, Counts, Bucket, Running
<1>2. m.ends \in Nat
  BY DEF Kept, Timely, Marked
<1> QED  BY <1>1, <1>2 DEF Kept, Behind

\* The counter goes on without a mark, or is deleted when it has run out.
LEMMA KeptHit ==
  ASSUME now \in Nat, NEW max, NEW window \in Nat \ {0}, NEW b, NEW marks,
         Kept(b, marks, max, window, now)
  PROVE  Kept(Hit(b, window), marks, max, window, now)
<1> DEFINE c == Hit(b, window)
<1>1. Counts(b, window, now) /\ b.count \in Nat /\ b.resetAt \in Nat
  BY DEF Kept, Counts, Bucket
<1>2. /\ Counts(c, window, now) /\ c.resetAt > now
      /\ Running(b) => c.resetAt = b.resetAt /\ c.count = b.count + 1
      /\ ~Running(b) => c.resetAt = now + window /\ c.count = 1
  BY <1>1, HitCounts
<1> HIDE DEF c
<1>3. ASSUME NEW m \in marks PROVE Behind(m, c, window, now)
  <2>1. m.ends \in Nat /\ m.nth \in Nat
    BY DEF Kept, Timely, Marked
  <2>2. CASE Running(b)
    BY <1>1, <1>2, <2>1, <2>2 DEF Kept, Behind, Running
  <2>3. CASE ~Running(b)
    <3>1. m.ends <= now
      BY <2>3, OldMarks
    <3> QED  BY <1>2, <2>1, <2>3, <3>1 DEF Behind
  <2> QED  BY <2>2, <2>3
<1>4. Kept(c, marks, max, window, now)
  BY <1>2, <1>3 DEF Kept
<1> QED  BY <1>4 DEF c

LEMMA KeptOut ==
  ASSUME now \in Nat, NEW max, NEW window \in Nat \ {0}, NEW b, NEW marks,
         Kept(b, marks, max, window, now), ~Running(b)
  PROVE  Kept(NoBucket, marks, max, window, now)
<1>1. NoBucket \in Bucket /\ NoBucket.resetAt = 0
  BY DEF NoBucket, Bucket
<1> HIDE DEF NoBucket
<1>2. Counts(NoBucket, window, now)
  BY <1>1 DEF Counts
<1>3. ASSUME NEW m \in marks PROVE Behind(m, NoBucket, window, now)
  <2>1. m.ends \in Nat /\ m.ends <= now
    BY OldMarks
  <2> QED  BY <1>1, <2>1 DEF Behind
<1> QED  BY <1>2, <1>3 DEF Kept

\* A request is counted and marked.
LEMMA KeptMark ==
  ASSUME now \in Nat, NEW max \in Nat, NEW window \in Nat \ {0}, NEW b, NEW marks,
         Kept(b, marks, max, window, now), Hit(b, window).count <= max
  PROVE  Kept(Hit(b, window), marks \cup {Mark(Hit(b, window))}, max, window, now)
<1> DEFINE c == Hit(b, window)
           n == Mark(c)
<1>1. Counts(b, window, now) /\ b.count \in Nat /\ b.resetAt \in Nat
      /\ (Running(b) => b.count >= 1)
  BY DEF Kept, Counts, Bucket, Running
<1>2. /\ Counts(c, window, now) /\ c.resetAt > now /\ c.count <= max
      /\ Running(b) => c.resetAt = b.resetAt /\ c.count = b.count + 1
      /\ ~Running(b) => c.resetAt = now + window /\ c.count = 1
  BY <1>1, HitCounts
<1>3. Kept(c, marks, max, window, now)
  BY KeptHit
<1>4. c.resetAt \in Nat /\ c.count \in Nat /\ c.resetAt <= now + window
  BY <1>2 DEF Counts, Bucket
<1> HIDE DEF c
<1>5. n.ends = c.resetAt /\ n.nth = c.count /\ n.at = now /\ n \in Marked
  BY <1>4 DEF Mark, Marked
<1> HIDE DEF n
<1>6. Timely(n, max, window, now)
  <2>1. 1 <= n.nth /\ (n.nth = 1 => n.ends = n.at + window)
    <3>1. CASE Running(b)
      BY <1>1, <1>2, <1>5, <3>1
    <3>2. CASE ~Running(b)
      BY <1>2, <1>5, <3>2
    <3> QED  BY <3>1, <3>2
  <2> QED  BY <1>2, <1>4, <1>5, <2>1 DEF Timely
<1>7. Behind(n, c, window, now)
  BY <1>4, <1>5 DEF Behind
<1>8. ASSUME NEW m \in marks PROVE Apart(m, n, window) /\ Apart(n, m, window)
  <2>1. m.ends \in Nat /\ m.nth \in Nat
    BY DEF Kept, Timely, Marked
  <2>2. Behind(m, c, window, now) /\ Behind(m, b, window, now)
    BY <1>3 DEF Kept
  <2>3. ~(m.ends = n.ends /\ m.nth = n.nth)
    <3>1. CASE Running(b)
      BY <1>1, <1>2, <1>5, <2>1, <2>2, <3>1 DEF Behind
    <3>2. CASE ~Running(b)
      <4>1. m.ends <= now
        BY <3>2, OldMarks
      <4> QED  BY <1>2, <1>4, <1>5, <2>1, <4>1
    <3> QED  BY <3>1, <3>2
  <2>4. m.ends < n.ends => m.ends + window <= n.ends
    BY <1>2, <1>4, <1>5, <2>1, <2>2 DEF Behind
  <2>5. ~(n.ends < m.ends)
    BY <1>2, <1>4, <1>5, <2>1, <2>2 DEF Behind
  <2> QED  BY <2>3, <2>4, <2>5 DEF Apart
<1>9. Apart(n, n, window)
  BY <1>4, <1>5 DEF Apart
<1>10. Kept(c, marks \cup {n}, max, window, now)
  <2>1. \A m \in marks \cup {n} : Timely(m, max, window, now) /\ Behind(m, c, window, now)
    BY <1>3, <1>6, <1>7 DEF Kept
  <2>2. \A m, o \in marks \cup {n} : Apart(m, o, window)
    BY <1>3, <1>8, <1>9 DEF Kept
  <2> QED  BY <1>2, <2>1, <2>2 DEF Kept
<1> QED  BY <1>10 DEF c, n

\* The clock goes on, and the oldest marks go.
LEMMA KeptTick ==
  ASSUME now \in Nat, NEW max, NEW window \in Nat \ {0}, NEW b, NEW marks,
         Kept(b, marks, max, window, now), now' = now + 1
  PROVE  Kept(b, Within(marks, window), max, window, now')
<1>1. Counts(b, window, now')
  BY DEF Kept, Counts, Bucket
<1>2. ASSUME NEW m \in Within(marks, window)
      PROVE  Timely(m, max, window, now') /\ Behind(m, b, window, now')
  <2>1. m \in marks /\ now' - m.at < window
    BY DEF Within
  <2>2. Timely(m, max, window, now) /\ Behind(m, b, window, now) /\ m \in Marked /\ b \in Bucket
    BY <2>1 DEF Kept, Timely, Counts
  <2>3. m.ends \in Nat /\ m.at \in Nat /\ b.resetAt \in Nat
    BY <2>2 DEF Marked, Bucket
  <2>4. Timely(m, max, window, now')
    BY <2>1, <2>2, <2>3 DEF Timely
  <2>5. Behind(m, b, window, now')
    BY <2>2, <2>3 DEF Behind
  <2> QED  BY <2>4, <2>5
<1>3. \A m, n \in Within(marks, window) : Apart(m, n, window)
  BY DEF Within, Kept
<1> QED  BY <1>1, <1>2, <1>3 DEF Kept

LEMMA KeptNone ==
  ASSUME NEW t \in Nat, NEW max, NEW window \in Nat
  PROVE  Kept(NoBucket, {}, max, window, t)
BY DEF Kept, Counts, Bucket, NoBucket
-----------------------------------------------------------------------------
Runs(map, keys, window, t) == map \in [keys -> Bucket] /\ \A k \in keys : Counts(map[k], window, t)

Fits(map, passed, keys, max, window, t) ==
  /\ map \in [keys -> Bucket] /\ passed \in [keys -> SUBSET Marked]
  /\ \A k \in keys : Kept(map[k], passed[k], max, window, t)

LEMMA RunsOut == ASSUME now \in Nat PROVE ~Running(NoBucket) /\ NoBucket \in Bucket
BY DEF Running, NoBucket, Bucket

LEMMA CountMap ==
  ASSUME now \in Nat, NEW keys, NEW window \in Nat \ {0}, NEW map \in [keys -> Bucket], NEW key \in keys,
         NEW counted \in BOOLEAN, \A k \in keys : Counts(map[k], window, now)
  PROVE  /\ Count(map, key, window, counted) \in [keys -> Bucket]
         /\ counted => Count(map, key, window, counted)[key] = Hit(map[key], window)
         /\ \A k \in keys : ~(counted /\ k = key) =>
              Count(map, key, window, counted)[k] = IF Running(map[k]) THEN map[k] ELSE NoBucket
<1> DEFINE clean == [k \in keys |-> IF Running(map[k]) THEN map[k] ELSE NoBucket]
<1>1. Cleaned(map) = clean
  BY DEF Cleaned
<1>2. clean \in [keys -> Bucket]
  BY RunsOut
<1>3. Hit(clean[key], window) = Hit(map[key], window)
  <2>1. CASE Running(map[key])
    BY <2>1
  <2>2. CASE ~Running(map[key])
    BY <2>2, RunsOut DEF Hit
  <2> QED  BY <2>1, <2>2
<1>4. Hit(map[key], window) \in Bucket
  BY HitCounts DEF Counts
<1>5. CASE counted
  <2>1. Count(map, key, window, counted) = [clean EXCEPT ![key] = Hit(map[key], window)]
    BY <1>1, <1>2, <1>3, <1>5 DEF Count
  <2>2. \A k \in keys : clean[k] = IF Running(map[k]) THEN map[k] ELSE NoBucket
    OBVIOUS
  <2> HIDE DEF clean
  <2> QED  BY <1>2, <1>4, <1>5, <2>1, <2>2
<1>6. CASE ~counted
  <2>1. Count(map, key, window, counted) = clean
    BY <1>1, <1>6 DEF Count
  <2> QED  BY <1>2, <1>6, <2>1
<1> QED  BY <1>5, <1>6

LEMMA RunsCount ==
  ASSUME now \in Nat, NEW keys, NEW window \in Nat \ {0}, NEW map, NEW key \in keys,
         NEW counted \in BOOLEAN, Runs(map, keys, window, now)
  PROVE  Runs(Count(map, key, window, counted), keys, window, now)
<1> DEFINE c == Count(map, key, window, counted)
<1>1. map \in [keys -> Bucket] /\ \A k \in keys : Counts(map[k], window, now)
  BY DEF Runs
<1>2. /\ c \in [keys -> Bucket]
      /\ counted => c[key] = Hit(map[key], window)
      /\ \A k \in keys : ~(counted /\ k = key) => c[k] = IF Running(map[k]) THEN map[k] ELSE NoBucket
  BY <1>1, CountMap
<1> HIDE DEF c
<1>3. Counts(Hit(map[key], window), window, now)
  BY <1>1, HitCounts
<1>4. Counts(NoBucket, window, now)
  BY DEF Counts, NoBucket, Bucket
<1>5. \A k \in keys : Counts(c[k], window, now)
  BY <1>1, <1>2, <1>3, <1>4
<1>6. Runs(c, keys, window, now)
  BY <1>2, <1>5 DEF Runs
<1> QED  BY <1>6 DEF c

LEMMA FitsCount ==
  ASSUME now \in Nat, NEW keys, NEW max \in Nat, NEW window \in Nat \ {0}, NEW map, NEW passed, NEW key \in keys,
         NEW counted \in BOOLEAN, NEW marked \in BOOLEAN, marked => counted,
         Fits(map, passed, keys, max, window, now),
         marked => Hit(map[key], window).count <= max
  PROVE  Fits(Count(map, key, window, counted), Remember(passed, key, Hit(map[key], window), marked),
              keys, max, window, now)
<1> DEFINE c == Count(map, key, window, counted)
           h == Hit(map[key], window)
           p == Remember(passed, key, h, marked)
<1>1. /\ map \in [keys -> Bucket] /\ passed \in [keys -> SUBSET Marked]
      /\ \A k \in keys : Kept(map[k], passed[k], max, window, now)
      /\ \A k \in keys : Counts(map[k], window, now)
  BY DEF Fits, Kept
<1>2. /\ c \in [keys -> Bucket]
      /\ counted => c[key] = h
      /\ \A k \in keys : ~(counted /\ k = key) => c[k] = IF Running(map[k]) THEN map[k] ELSE NoBucket
  BY <1>1, CountMap
<1>3. h \in Bucket
  BY <1>1, HitCounts DEF Counts
<1>4. Kept(h, passed[key], max, window, now)
  BY <1>1, KeptHit
<1>5. marked => Kept(h, passed[key] \cup {Mark(h)}, max, window, now)
  BY <1>1, KeptMark
<1> HIDE DEF c, h
<1>6. Mark(h) \in Marked
  BY <1>3 DEF Mark, Bucket, Marked
<1>7. /\ p \in [keys -> SUBSET Marked]
      /\ marked => p[key] = passed[key] \cup {Mark(h)}
      /\ \A k \in keys : ~(marked /\ k = key) => p[k] = passed[k]
  BY <1>1, <1>6 DEF Remember
<1> HIDE DEF p
<1>8. ASSUME NEW k \in keys PROVE Kept(c[k], p[k], max, window, now)
  <2>1. CASE k = key /\ marked
    BY <1>2, <1>5, <1>7, <2>1
  <2>2. CASE k = key /\ counted /\ ~marked
    BY <1>2, <1>4, <1>7, <2>2
  <2>3. CASE ~(counted /\ k = key)
    <3>1. p[k] = passed[k] /\ Kept(map[k], passed[k], max, window, now)
      BY <1>1, <1>7, <2>3
    <3>2. ~Running(map[k]) => Kept(NoBucket, passed[k], max, window, now)
      BY <3>1, KeptOut
    <3> QED  BY <1>2, <2>3, <3>1, <3>2
  <2> QED  BY <2>1, <2>2, <2>3
<1>9. Fits(c, p, keys, max, window, now)
  BY <1>2, <1>7, <1>8 DEF Fits
<1> QED  BY <1>9 DEF c, h, p

LEMMA FitsTick ==
  ASSUME now \in Nat, NEW keys, NEW max, NEW window \in Nat \ {0}, NEW map, NEW passed,
         Fits(map, passed, keys, max, window, now), now' = now + 1
  PROVE  Fits(map, [k \in keys |-> Within(passed[k], window)], keys, max, window, now')
<1>1. \A k \in keys : Within(passed[k], window) \in SUBSET Marked
  BY DEF Within, Fits
<1>2. \A k \in keys : Kept(map[k], Within(passed[k], window), max, window, now')
  BY KeptTick DEF Fits
<1> QED  BY <1>1, <1>2 DEF Fits

LEMMA FitsPurge ==
  ASSUME now \in Nat, NEW keys, NEW max, NEW window \in Nat \ {0}, NEW map, NEW passed, NEW u,
         Fits(map, passed, keys, max, window, now)
  PROVE  Fits(Purged(map, u, NoBucket), Purged(passed, u, {}), keys, max, window, now)
<1> DEFINE b == Purged(map, u, NoBucket)
           p == Purged(passed, u, {})
<1>1. b = [k \in keys |-> IF IsTenantScoped(k, u) THEN NoBucket ELSE map[k]]
      /\ p = [k \in keys |-> IF IsTenantScoped(k, u) THEN {} ELSE passed[k]]
  BY DEF Purged, Fits
<1>2. b \in [keys -> Bucket] /\ p \in [keys -> SUBSET Marked]
  BY <1>1, RunsOut DEF Fits
<1>3. Kept(NoBucket, {}, max, window, now)
  BY KeptNone
<1>4. \A k \in keys : Kept(b[k], p[k], max, window, now)
  BY <1>1, <1>3 DEF Fits
<1> QED  BY <1>2, <1>4 DEF Fits

LEMMA RunsPurge ==
  ASSUME now \in Nat, NEW keys, NEW window \in Nat \ {0}, NEW map, NEW u, Runs(map, keys, window, now)
  PROVE  Runs(Purged(map, u, NoBucket), keys, window, now)
<1> DEFINE b == Purged(map, u, NoBucket)
<1>1. b = [k \in keys |-> IF IsTenantScoped(k, u) THEN NoBucket ELSE map[k]]
  BY DEF Purged, Runs
<1>2. Counts(NoBucket, window, now) /\ NoBucket \in Bucket
  BY DEF Counts, NoBucket, Bucket
<1> HIDE DEF NoBucket
<1>3. \A k \in keys : Counts(b[k], window, now)
  BY <1>1, <1>2 DEF Runs
<1>4. b \in [keys -> Bucket]
  BY <1>1, <1>2 DEF Runs
<1> QED  BY <1>3, <1>4 DEF Runs

LEMMA RunsTick ==
  ASSUME now \in Nat, NEW keys, NEW window \in Nat, NEW map, Runs(map, keys, window, now), now' = now + 1
  PROVE  Runs(map, keys, window, now')
BY DEF Runs, Counts, Bucket

LEMMA FitsFew ==
  ASSUME now \in Nat, NEW keys, NEW max \in Nat \ {0}, NEW window \in Nat, NEW map, NEW passed,
         Fits(map, passed, keys, max, window, now), NEW k \in keys
  PROVE  Cardinality(passed[k]) <= 2 * max - 1
<1>1. Kept(map[k], passed[k], max, window, now)
  BY DEF Fits
<1>2. /\ \A m \in passed[k] : Timely(m, max, window, now)
      /\ \A m, n \in passed[k] : Apart(m, n, window)
  BY <1>1 DEF Kept
<1> QED  BY <1>2, MarksAreFew
-----------------------------------------------------------------------------
(* The limiters. *)

Limits ==
  /\ Fits(ipBuckets, passedIp, IpKeys, MaxIp, RateWindow, now)
  /\ Fits(quotas, passedQuota, ClassKeys, Hard + Grace, QuotaWindow, now)
  /\ Runs(mutationBuckets, MutationKeys, RateWindow, now)
  /\ Runs(throttles, ClassKeys, RateWindow, now)
  /\ Runs(abuses, ClassKeys, RateWindow, now)
  /\ quotaAlerts \subseteq ClassKeys /\ abuseAlerts \subseteq ClassKeys

Asked == now \in Times /\ request \in [Requests -> Request]

LEMMA Bounds ==
  /\ MaxIp \in Nat \ {0} /\ Hard + Grace \in Nat \ {0}
  /\ RateWindow \in Nat \ {0} /\ QuotaWindow \in Nat \ {0} /\ MaxTime \in Nat
<1>1. {MaxIp, MaxMutation, Throttle, Hard, RateWindow, QuotaWindow} \subseteq Nat \ {0}
      /\ {Grace, AlertAt, SpikeAt} \subseteq Nat
  BY LimitAssumption
<1>2. MaxIp \in Nat \ {0} /\ Hard \in Nat \ {0} /\ Grace \in Nat
      /\ RateWindow \in Nat \ {0} /\ QuotaWindow \in Nat \ {0}
  BY <1>1
<1> QED  BY <1>2, RuntimeAssumption

LEMMA RequestFields ==
  ASSUME NEW q \in Request, q.pc # "idle"
  PROVE  q.shape \in Shapes /\ q.passes \in 1..2 /\ q.pc \in {"second", "handler"}
BY DEF Request, Idle

LEMMA NoOneIdle == \A q \in Request : q.pc = "idle" <=> q = Idle
BY DEF Request, Idle

LEMMA KeysOf ==
  ASSUME NEW s \in Shapes
  PROVE  IpKey(s) \in IpKeys /\ MutationKey(s) \in MutationKeys /\ ClassKey(s) \in ClassKeys
BY DEF IpKeys, MutationKeys, ClassKeys
-----------------------------------------------------------------------------
LEMMA InitLimits == Init => Limits /\ Asked
<1> SUFFICES ASSUME Init PROVE Limits /\ Asked
  OBVIOUS
<1>1. now = 0 /\ LimitsInit
  BY DEF Init
<1>2. Kept(NoBucket, {}, MaxIp, RateWindow, now) /\ Kept(NoBucket, {}, Hard + Grace, QuotaWindow, now)
  BY <1>1, Bounds, KeptNone
<1>3. NoBucket \in Bucket /\ Counts(NoBucket, RateWindow, now)
  BY <1>1, Bounds DEF NoBucket, Bucket, Counts
<1> HIDE DEF NoBucket
<1>4. Fits(ipBuckets, passedIp, IpKeys, MaxIp, RateWindow, now)
  BY <1>1, <1>2, <1>3 DEF LimitsInit, Fits
<1>5. Fits(quotas, passedQuota, ClassKeys, Hard + Grace, QuotaWindow, now)
  BY <1>1, <1>2, <1>3 DEF LimitsInit, Fits
<1>6. /\ Runs(mutationBuckets, MutationKeys, RateWindow, now)
      /\ Runs(throttles, ClassKeys, RateWindow, now)
      /\ Runs(abuses, ClassKeys, RateWindow, now)
  BY <1>1, <1>3 DEF LimitsInit, Runs
<1>7. Asked
  BY <1>1, Bounds DEF LimitsInit, Asked, Times, Request
<1> QED  BY <1>1, <1>4, <1>5, <1>6, <1>7 DEF Limits, LimitsInit

\* A pass of the chain: each counter counts at most once, and what passes
\* was within the limit.
LEMMA ChainLimits ==
  ASSUME Limits, Asked, NEW s \in Shapes, Chain(s), now' = now
  PROVE  Limits'
<1>1. now \in Nat
  BY DEF Asked, Times
<1>2. IpKey(s) \in IpKeys /\ MutationKey(s) \in MutationKeys /\ ClassKey(s) \in ClassKeys
  BY KeysOf
<1>3. /\ MaxIp \in Nat \ {0} /\ Hard + Grace \in Nat \ {0}
      /\ RateWindow \in Nat \ {0} /\ QuotaWindow \in Nat \ {0}
  BY Bounds
<1>4. Fits(ipBuckets', passedIp', IpKeys, MaxIp, RateWindow, now)
  <2>1. Fits(ipBuckets, passedIp, IpKeys, MaxIp, RateWindow, now)
    BY DEF Limits
  <2>2. IpPasses(s) \in BOOLEAN
    BY DEF IpPasses
  <2>3. IpPasses(s) => Hit(ipBuckets[IpKey(s)], RateWindow).count <= MaxIp
    <3>1. Counts(ipBuckets[IpKey(s)], RateWindow, now)
      BY <1>2, <2>1 DEF Fits, Kept
    <3>2. ipBuckets[IpKey(s)].count \in Nat
      BY <3>1 DEF Counts, Bucket
    <3> DEFINE b == ipBuckets[IpKey(s)]
    <3>3. /\ Running(b) => Hit(b, RateWindow).count = b.count + 1
          /\ ~Running(b) => Hit(b, RateWindow).count = 1
      BY <1>1, <1>3, <3>1, HitCounts
    <3> HIDE DEF b
    <3>4. IpPasses(s) => ~Running(b) \/ ~(b.count >= MaxIp)
      BY DEF IpPasses, Full, b
    <3>5. b.count \in Nat
      BY <3>2 DEF b
    <3>6. IpPasses(s) => Hit(b, RateWindow).count <= MaxIp
      BY <1>3, <3>3, <3>4, <3>5
    <3> QED  BY <3>6 DEF b
  <2>4. /\ ipBuckets' = Count(ipBuckets, IpKey(s), RateWindow, IpPasses(s))
        /\ passedIp' = Remember(passedIp, IpKey(s), Hit(ipBuckets[IpKey(s)], RateWindow), IpPasses(s))
    BY DEF Chain
  <2> HIDE DEF IpPasses
  <2> QED  BY <1>1, <1>2, <1>3, <2>1, <2>2, <2>3, <2>4, FitsCount
<1>5. Fits(quotas', passedQuota', ClassKeys, Hard + Grace, QuotaWindow, now)
  <2>1. Fits(quotas, passedQuota, ClassKeys, Hard + Grace, QuotaWindow, now)
    BY DEF Limits
  <2>2. ReachesQuota(s) \in BOOLEAN /\ Passes(s) \in BOOLEAN /\ (Passes(s) => ReachesQuota(s))
    BY DEF ReachesQuota, Passes, ReachesThrottle, ThrottlePasses, ReachesMutation, IpPasses
  <2>3. Passes(s) => Hit(quotas[ClassKey(s)], QuotaWindow).count <= Hard + Grace
    BY DEF Passes, QuotaPasses, UsageCount
  <2>4. /\ quotas' = Count(quotas, ClassKey(s), QuotaWindow, ReachesQuota(s))
        /\ passedQuota' = Remember(passedQuota, ClassKey(s), Hit(quotas[ClassKey(s)], QuotaWindow), Passes(s))
    BY DEF Chain
  <2> HIDE DEF ReachesQuota, Passes
  <2> QED  BY <1>1, <1>2, <1>3, <2>1, <2>2, <2>3, <2>4, FitsCount
<1>6. Runs(mutationBuckets', MutationKeys, RateWindow, now)
  <2>1. mutationBuckets' = Count(mutationBuckets, MutationKey(s), RateWindow, Limited(s) /\ ReachesThrottle(s))
    BY DEF Chain
  <2>2. (Limited(s) /\ ReachesThrottle(s)) \in BOOLEAN
    OBVIOUS
  <2> QED  BY <1>1, <1>2, <1>3, <2>1, <2>2, RunsCount DEF Limits
<1>7. Runs(throttles', ClassKeys, RateWindow, now)
  <2>1. throttles' = Count(throttles, ClassKey(s), RateWindow, ReachesQuota(s))
    BY DEF Chain
  <2>2. ReachesQuota(s) \in BOOLEAN
    BY DEF ReachesQuota
  <2> QED  BY <1>1, <1>2, <1>3, <2>1, <2>2, RunsCount DEF Limits
<1>8. Runs(abuses', ClassKeys, RateWindow, now)
  <2>1. abuses' = Count(abuses, ClassKey(s), RateWindow, Passes(s))
    BY DEF Chain
  <2>2. Passes(s) \in BOOLEAN
    BY DEF Passes
  <2> QED  BY <1>1, <1>2, <1>3, <2>1, <2>2, RunsCount DEF Limits
<1>9. quotaAlerts' \subseteq ClassKeys /\ abuseAlerts' \subseteq ClassKeys
  BY <1>2 DEF Limits, Chain, RaiseQuotaAlert, SpikeAlerts
<1> QED  BY <1>4, <1>5, <1>6, <1>7, <1>8, <1>9 DEF Limits

LEMMA PurgeLimitsKept ==
  ASSUME Limits, Asked, NEW t, PurgeLimits(t), now' = now PROVE Limits'
<1>1. now \in Nat
  BY DEF Asked, Times
<1>2. Fits(ipBuckets', passedIp', IpKeys, MaxIp, RateWindow, now)
  BY <1>1, Bounds, FitsPurge DEF Limits, PurgeLimits
<1>3. Fits(quotas', passedQuota', ClassKeys, Hard + Grace, QuotaWindow, now)
  BY <1>1, Bounds, FitsPurge DEF Limits, PurgeLimits
<1>4. /\ Runs(mutationBuckets', MutationKeys, RateWindow, now)
      /\ Runs(throttles', ClassKeys, RateWindow, now)
      /\ Runs(abuses', ClassKeys, RateWindow, now)
  BY <1>1, Bounds, RunsPurge DEF Limits, PurgeLimits
<1>5. quotaAlerts' \subseteq ClassKeys /\ abuseAlerts' \subseteq ClassKeys
  BY DEF Limits, PurgeLimits, PurgedSet
<1> QED  BY <1>2, <1>3, <1>4, <1>5 DEF Limits

LEMMA TickLimits == ASSUME Limits, Asked, Tick PROVE Limits'
<1>1. now \in Nat /\ now' = now + 1
  BY DEF Asked, Times, Tick
<1>2. Fits(ipBuckets', passedIp', IpKeys, MaxIp, RateWindow, now')
  BY <1>1, Bounds, FitsTick DEF Limits, Tick, AgeLimits
<1>3. Fits(quotas', passedQuota', ClassKeys, Hard + Grace, QuotaWindow, now')
  BY <1>1, Bounds, FitsTick DEF Limits, Tick, AgeLimits
<1>4. /\ Runs(mutationBuckets', MutationKeys, RateWindow, now')
      /\ Runs(throttles', ClassKeys, RateWindow, now')
      /\ Runs(abuses', ClassKeys, RateWindow, now')
  BY <1>1, Bounds, RunsTick DEF Limits, Tick, AgeLimits
<1> QED  BY <1>2, <1>3, <1>4 DEF Limits, Tick, AgeLimits

LEMMA NextLimits == ASSUME Limits, Asked, [Next]_vars PROVE Limits'
<1>1. CASE Tick
  BY <1>1, TickLimits
<1>2. ASSUME NEW r \in Requests, Limit(r) PROVE Limits'
  <2>1. now' = now
    BY <1>2 DEF Limit
  <2>2. ASSUME NEW s \in Arriving, FirstPass(r, s) PROVE Limits'
    BY <2>1, <2>2, ChainLimits DEF FirstPass, Arriving
  <2>3. CASE SecondPass(r)
    <3>1. request[r].pc = "second" /\ Chain(request[r].shape)
      BY <2>3 DEF SecondPass
    <3>2. request[r].shape \in Shapes
      BY <3>1, RequestFields DEF Asked
    <3> QED  BY <2>1, <3>1, <3>2, ChainLimits
  <2> QED  BY <1>2, <2>2, <2>3 DEF Limit
<1>3. ASSUME NEW t \in Tenants, InvalidateTenantRuntimeState(t) PROVE Limits'
  BY <1>3, PurgeLimitsKept DEF InvalidateTenantRuntimeState
<1>4. CASE (\E r \in Requests : LetThrough(r) \/ Respond(r)) \/ (\E d \in Deliveries : Webhook(d))
           \/ Quiet \/ UNCHANGED vars
  <2>1. now' = now /\ UNCHANGED limitVars
    BY <1>4 DEF LetThrough, Respond, Webhook, Quiet, vars
  <2> QED  BY <2>1 DEF limitVars, Limits
<1> QED  BY <1>1, <1>2, <1>3, <1>4 DEF Next
-----------------------------------------------------------------------------
LEMMA PutAsked ==
  ASSUME Asked, NEW r \in Requests, NEW q \in Request, PutRequest(r, q), now' = now
  PROVE  /\ Asked' /\ request'[r] = q
         /\ \A x \in Requests \ {r} : request'[x] = request[x]
<1>1. request' = [request EXCEPT ![r] = q]
  BY DEF PutRequest
<1> QED  BY <1>1 DEF Asked

LEMMA ArriveAsked ==
  ASSUME Asked, NEW r \in Requests, NEW s \in Shapes, NEW pc \in {"second", "handler"}, NEW n \in 1..2,
         Arrive(r, s, pc, n), now' = now
  PROVE  Asked' /\ \A x \in Requests \ {r} : request'[x] = request[x]
<1> DEFINE q == [pc |-> pc, shape |-> s, passes |-> n]
<1>1. q \in Request
  BY DEF Request
<1>2. PutRequest(r, q)
  BY DEF Arrive
<1> HIDE DEF q
<1> QED  BY <1>1, <1>2, PutAsked

\* Another request stays as it is; one that has passed stays until its end.
LEMMA LimitAsked ==
  ASSUME Asked, NEW r \in Requests, Limit(r)
  PROVE  Asked' /\ request[r].pc # "handler" /\ \A x \in Requests \ {r} : request'[x] = request[x]
<1>1. now' = now
  BY DEF Limit
<1>2. ASSUME NEW s \in Arriving, FirstPass(r, s)
      PROVE  Asked' /\ request[r].pc # "handler" /\ \A x \in Requests \ {r} : request'[x] = request[x]
  <2>1. s \in Shapes /\ request[r].pc = "idle"
    BY <1>2 DEF Arriving, FirstPass
  <2>2. CASE Passes(s)
    <3>1. Arrive(r, s, IF s.webhook THEN "second" ELSE "handler", 1)
      BY <1>2, <2>2 DEF FirstPass
    <3>2. (IF s.webhook THEN "second" ELSE "handler") \in {"second", "handler"} /\ 1 \in 1..2
      OBVIOUS
    <3> QED  BY <1>1, <2>1, <3>1, <3>2, ArriveAsked
  <2>3. CASE ~Passes(s)
    <3>1. request' = request
      BY <1>2, <2>3 DEF FirstPass
    <3> QED  BY <1>1, <2>1, <3>1 DEF Asked
  <2> QED  BY <2>2, <2>3
<1>3. CASE SecondPass(r)
  <2> DEFINE old == request[r]
             n == IF Passes(old.shape) THEN 2 ELSE 1
             q == [old EXCEPT !.pc = "handler", !.passes = n]
  <2>1. old.pc = "second" /\ PutRequest(r, q)
    BY <1>3 DEF SecondPass
  <2>2. old \in Request /\ old # Idle
    BY <2>1 DEF Asked, Idle
  <2>3. n \in 1..2
    OBVIOUS
  <2> HIDE DEF n, old
  <2>4. q \in Request
    BY <2>2, <2>3 DEF Request
  <2> HIDE DEF q
  <2> QED  BY <1>1, <2>1, <2>4, PutAsked DEF old
<1> QED  BY <1>2, <1>3 DEF Limit

LEMMA LetThroughAsked ==
  ASSUME Asked, NEW r \in Requests, LetThrough(r)
  PROVE  Asked' /\ request[r].pc # "handler" /\ \A x \in Requests \ {r} : request'[x] = request[x]
<1>1. PICK s \in Arriving : Arrive(r, s, "handler", IF s.webhook THEN 2 ELSE 1)
  BY DEF LetThrough
<1>2. s \in Shapes /\ (IF s.webhook THEN 2 ELSE 1) \in 1..2 /\ now' = now /\ request[r].pc = "idle"
  BY DEF Arriving, LetThrough
<1> QED  BY <1>1, <1>2, ArriveAsked

LEMMA RespondAsked ==
  ASSUME Asked, NEW r \in Requests, Respond(r)
  PROVE  Asked' /\ \A x \in Requests \ {r} : request'[x] = request[x]
<1>1. Idle \in Request /\ PutRequest(r, Idle) /\ now' = now
  BY DEF Request, Respond, Finish
<1> QED  BY <1>1, PutAsked

LEMMA NextAsked == ASSUME Asked, [Next]_vars PROVE Asked'
<1>1. CASE Tick
  <2>1. now' = now + 1 /\ now < MaxTime /\ request' = request
    BY <1>1 DEF Tick
  <2> QED  BY <2>1, RuntimeAssumption DEF Asked, Times
<1>2. ASSUME NEW r \in Requests, Limit(r) \/ LetThrough(r) \/ Respond(r) PROVE Asked'
  BY <1>2, LimitAsked, LetThroughAsked, RespondAsked
<1>3. CASE (\E d \in Deliveries : Webhook(d)) \/ (\E t \in Tenants : InvalidateTenantRuntimeState(t))
           \/ Quiet \/ UNCHANGED vars
  BY <1>3 DEF Webhook, InvalidateTenantRuntimeState, Quiet, vars, Asked
<1> QED  BY <1>1, <1>2, <1>3 DEF Next

\* In any stretch as long as the window, fewer than twice the limit pass,
\* for an address and, with the grace, for a tenant's class - whatever the
\* limits and the windows, and with any number of requests between their
\* two passes.
THEOREM RatesStayBounded == Spec => []RatesBounded
<1>1. Init => Limits /\ Asked
  BY InitLimits
<1>2. Limits /\ Asked /\ [Next]_vars => Limits' /\ Asked'
  BY NextLimits, NextAsked
<1>3. Limits /\ Asked => RatesBounded
  <2> SUFFICES ASSUME Limits, Asked PROVE RatesBounded
    OBVIOUS
  <2>1. now \in Nat
    BY DEF Asked, Times
  <2>2. \A k \in IpKeys : Cardinality(passedIp[k]) <= 2 * MaxIp - 1
    BY <2>1, Bounds, FitsFew DEF Limits
  <2>3. \A k \in ClassKeys : Cardinality(passedQuota[k]) <= 2 * (Hard + Grace) - 1
    BY <2>1, Bounds, FitsFew DEF Limits
  <2> QED  BY <2>2, <2>3 DEF RatesBounded
<1> QED  BY <1>1, <1>2, <1>3, PTL DEF Spec
-----------------------------------------------------------------------------
(* The webhooks. *)

Types == /\ now \in Times
         /\ seen \in [NonceKeys -> Nat]
         /\ taken \in [NonceKeys -> [stamp : Nat, at : Nat, known : BOOLEAN]]
         /\ delivery \in [Deliveries -> Delivery]

\* A delivery in progress came at most a lookup ago.
Waited == \A d \in Deliveries :
  delivery[d].pc = "verify" => delivery[d].at <= now /\ now - delivery[d].at <= MaxQuery

\* The process remembers what it has taken until the entry's time has come.
Remembers == \A k \in NonceKeys : taken[k].known =>
  \/ seen[k] = taken[k].at + Ttl
  \/ seen[k] = 0 /\ taken[k].at + Ttl <= now

IInv == Types /\ Waited /\ Remembers
-----------------------------------------------------------------------------
LEMMA DeliveryFields ==
  ASSUME NEW q \in Delivery
  PROVE  q.at \in Times /\ (q.pc = "verify" => q.key \in NonceKeys /\ q.stamp \in Times)
<1>1. CASE q = Waiting
  BY <1>1, RuntimeAssumption DEF Waiting, Times
<1>2. CASE q # Waiting
  BY <1>2 DEF Delivery
<1> QED  BY <1>1, <1>2

\* Everything a stamp or an age is reckoned from is a number.
LEMMA Numbers ==
  ASSUME IInv
  PROVE  /\ now \in Nat /\ MaxTime \in Nat /\ now <= MaxTime
         /\ MaxSkew \in Nat /\ Ttl \in Nat /\ MaxQuery \in Nat
         /\ \A d \in Deliveries : delivery[d].at \in Nat
         /\ \A k \in NonceKeys : taken[k].at \in Nat
<1>1. MaxTime \in Nat
  BY RuntimeAssumption
<1>2. now \in Nat /\ now <= MaxTime
  BY <1>1 DEF IInv, Types, Times
<1>3. MaxSkew \in Nat /\ Ttl \in Nat /\ MaxQuery \in Nat
  BY WebhookAssumption
<1>4. ASSUME NEW d \in Deliveries PROVE delivery[d].at \in Nat
  <2>1. delivery[d] \in Delivery
    BY DEF IInv, Types
  <2> QED  BY <1>1, <2>1, DeliveryFields DEF Times
<1>5. ASSUME NEW k \in NonceKeys PROVE taken[k].at \in Nat
  BY DEF IInv, Types
<1> QED  BY <1>1, <1>2, <1>3, <1>4, <1>5

LEMMA InitInv == Init => IInv
<1> SUFFICES ASSUME Init PROVE IInv
  OBVIOUS
<1>1. /\ now = 0 /\ seen = [k \in NonceKeys |-> 0]
      /\ delivery = [d \in Deliveries |-> Waiting]
      /\ taken = [k \in NonceKeys |-> NoneTaken]
  BY DEF Init, WebhooksInit
<1>2. NoneTaken \in [stamp : Nat, at : Nat, known : BOOLEAN] /\ ~NoneTaken.known
  BY DEF NoneTaken
<1>3. Waiting \in Delivery /\ Waiting.pc # "verify"
  BY DEF Waiting, Delivery
<1>4. now \in Times
  BY <1>1, RuntimeAssumption DEF Times
<1> HIDE DEF NoneTaken, Waiting
<1>5. Types
  BY <1>1, <1>2, <1>3, <1>4 DEF Types
<1>6. Waited /\ Remembers
  BY <1>1, <1>2, <1>3 DEF Waited, Remembers
<1> QED  BY <1>5, <1>6 DEF IInv

\* Neither the clock nor the webhooks move.
LEMMA Elsewhere == ASSUME IInv, now' = now, UNCHANGED webhookVars PROVE IInv'
BY DEF IInv, Types, Waited, Remembers, webhookVars

LEMMA TickInv == ASSUME IInv, Tick PROVE IInv'
<1>1. now' = now + 1 /\ now < MaxTime /\ seen' = seen /\ taken' = taken /\ delivery' = delivery
  BY DEF Tick, webhookVars
<1>2. \A d \in Deliveries : delivery[d].pc = "verify" => now - delivery[d].at < MaxQuery
  BY DEF Tick
<1>3. Types'
  BY <1>1, RuntimeAssumption DEF IInv, Types, Times
<1>4. Waited'
  <2> SUFFICES ASSUME NEW d \in Deliveries, delivery[d].pc = "verify"
               PROVE  delivery[d].at <= now + 1 /\ (now + 1) - delivery[d].at <= MaxQuery
    BY <1>1 DEF Waited
  <2>1. delivery[d].at \in Nat /\ now \in Nat /\ MaxQuery \in Nat
    BY Numbers
  <2>2. now - delivery[d].at < MaxQuery /\ delivery[d].at <= now
    BY <1>2 DEF IInv, Waited
  <2> QED  BY <2>1, <2>2
<1>5. Remembers'
  <2> SUFFICES ASSUME NEW k \in NonceKeys, taken[k].known
               PROVE  seen[k] = taken[k].at + Ttl \/ (seen[k] = 0 /\ taken[k].at + Ttl <= now + 1)
    BY <1>1 DEF Remembers
  <2>1. taken[k].at \in Nat /\ now \in Nat /\ Ttl \in Nat
    BY Numbers
  <2>2. seen[k] = taken[k].at + Ttl \/ (seen[k] = 0 /\ taken[k].at + Ttl <= now)
    BY DEF IInv, Remembers
  <2> QED  BY <2>1, <2>2
<1> QED  BY <1>3, <1>4, <1>5 DEF IInv

LEMMA ReceiveInv == ASSUME IInv, NEW d \in Deliveries, ReceiveWebhook(d), now' = now PROVE IInv'
<1>1. PICK key \in NonceKeys, stamp \in Times :
        PutDelivery(d, [pc |-> "verify", key |-> key, stamp |-> stamp, at |-> now])
  BY DEF ReceiveWebhook
<1> DEFINE q == [pc |-> "verify", key |-> key, stamp |-> stamp, at |-> now]
<1>2. seen' = [k \in NonceKeys |-> IF seen[k] <= now THEN 0 ELSE seen[k]] /\ taken' = taken
  BY DEF ReceiveWebhook, CleanupExpiredNonces
<1>3. delivery' = [delivery EXCEPT ![d] = q]
  BY <1>1 DEF PutDelivery
<1>4. q \in Delivery /\ q.at = now
  BY DEF Delivery, IInv, Types
<1> HIDE DEF q
<1>5. delivery' \in [Deliveries -> Delivery] /\ delivery'[d] = q
      /\ \A x \in Deliveries \ {d} : delivery'[x] = delivery[x]
  BY <1>3, <1>4 DEF IInv, Types
<1>6. Types'
  BY <1>2, <1>5 DEF IInv, Types
<1>7. Waited'
  <2>1. now - now <= MaxQuery
    BY Numbers
  <2>2. now <= now
    BY Numbers
  <2> QED  BY <1>4, <1>5, <2>1, <2>2 DEF IInv, Waited
<1>8. Remembers'
  <2> SUFFICES ASSUME NEW k \in NonceKeys, taken[k].known
               PROVE  \/ seen'[k] = taken[k].at + Ttl
                      \/ seen'[k] = 0 /\ taken[k].at + Ttl <= now
    BY <1>2 DEF Remembers
  <2>1. seen[k] = taken[k].at + Ttl \/ (seen[k] = 0 /\ taken[k].at + Ttl <= now)
    BY DEF IInv, Remembers
  <2> QED  BY <1>2, <2>1
<1> QED  BY <1>6, <1>7, <1>8 DEF IInv

LEMMA PutWaiting ==
  ASSUME IInv, NEW d \in Deliveries, PutDelivery(d, Waiting), now' = now
  PROVE  delivery' \in [Deliveries -> Delivery] /\ Waited'
<1>1. Waiting \in Delivery /\ Waiting.pc # "verify"
  BY DEF Waiting, Delivery
<1> HIDE DEF Waiting
<1>2. delivery' \in [Deliveries -> Delivery] /\ delivery'[d] = Waiting
      /\ \A x \in Deliveries \ {d} : delivery'[x] = delivery[x]
  BY <1>1 DEF PutDelivery, IInv, Types
<1> QED  BY <1>1, <1>2 DEF IInv, Waited

LEMMA RefuseInv == ASSUME IInv, NEW d \in Deliveries, RefuseSignature(d), now' = now PROVE IInv'
<1>1. seen' = seen /\ taken' = taken /\ PutDelivery(d, Waiting)
  BY DEF RefuseSignature
<1> QED  BY <1>1, PutWaiting DEF IInv, Types, Remembers

LEMMA AcceptInv == ASSUME IInv, NEW d \in Deliveries, AcceptNonce(d), now' = now PROVE IInv'
<1> DEFINE q == delivery[d]
           entry == [stamp |-> q.stamp, at |-> q.at, known |-> TRUE]
<1>1. q.pc = "verify" /\ PutDelivery(d, Waiting)
  BY DEF AcceptNonce
<1>2. q.key \in NonceKeys /\ q.stamp \in Nat /\ q.at \in Nat
  BY <1>1, DeliveryFields DEF IInv, Types, Times
<1>3. CASE seen[q.key] # 0
  <2>1. seen' = seen /\ taken' = taken
    BY <1>3 DEF AcceptNonce
  <2> QED  BY <1>1, <2>1, PutWaiting DEF IInv, Types, Remembers
<1>4. CASE seen[q.key] = 0
  <2>1. seen' = [seen EXCEPT ![q.key] = q.at + Ttl] /\ taken' = [taken EXCEPT ![q.key] = entry]
    BY <1>4 DEF AcceptNonce, Remembered
  <2>2. entry \in [stamp : Nat, at : Nat, known : BOOLEAN] /\ entry.at = q.at
    BY <1>2
  <2>3. q.at + Ttl \in Nat
    BY <1>2, WebhookAssumption
  <2> HIDE DEF entry, q
  <2>4. /\ seen' \in [NonceKeys -> Nat]
        /\ taken' \in [NonceKeys -> [stamp : Nat, at : Nat, known : BOOLEAN]]
        /\ seen'[q.key] = q.at + Ttl /\ taken'[q.key] = entry
        /\ \A k \in NonceKeys \ {q.key} : seen'[k] = seen[k] /\ taken'[k] = taken[k]
    BY <1>2, <2>1, <2>2, <2>3 DEF IInv, Types
  <2>5. Remembers'
    BY <2>2, <2>4 DEF IInv, Remembers
  <2> QED  BY <1>1, <2>4, <2>5, PutWaiting DEF IInv, Types
<1> QED  BY <1>3, <1>4

LEMMA PurgeInv == ASSUME IInv, NEW t, PurgeWebhooks(t), now' = now PROVE IInv'
<1>1. /\ seen' = [k \in NonceKeys |-> IF IsTenantScoped(k, t) THEN 0 ELSE seen[k]]
      /\ taken' = [k \in NonceKeys |-> IF IsTenantScoped(k, t) THEN NoneTaken ELSE taken[k]]
      /\ delivery' = delivery
  BY DEF PurgeWebhooks, Purged, IInv, Types
<1>2. NoneTaken \in [stamp : Nat, at : Nat, known : BOOLEAN] /\ ~NoneTaken.known
  BY DEF NoneTaken
<1> HIDE DEF NoneTaken
<1> QED  BY <1>1, <1>2 DEF IInv, Types, Waited, Remembers

LEMMA NextInv == ASSUME IInv, [Next]_vars PROVE IInv'
<1>1. CASE Tick
  BY <1>1, TickInv
<1>2. ASSUME NEW d \in Deliveries, Webhook(d) PROVE IInv'
  <2>1. now' = now
    BY <1>2 DEF Webhook
  <2> QED  BY <1>2, <2>1, ReceiveInv, RefuseInv, AcceptInv DEF Webhook
<1>3. ASSUME NEW t \in Tenants, InvalidateTenantRuntimeState(t) PROVE IInv'
  BY <1>3, PurgeInv DEF InvalidateTenantRuntimeState
<1>4. CASE (\E r \in Requests : Limit(r) \/ LetThrough(r) \/ Respond(r)) \/ Quiet \/ UNCHANGED vars
  <2>1. now' = now /\ UNCHANGED webhookVars
    BY <1>4 DEF Limit, LetThrough, Respond, Quiet, vars
  <2> QED  BY <2>1, Elsewhere
<1> QED  BY <1>1, <1>2, <1>3, <1>4 DEF Next
-----------------------------------------------------------------------------
\* A nonce is taken again only when its entry's time has come, and by a
\* delivery that arrived less than a lookup before that.
LEMMA TakenAgain ==
  ASSUME IInv, NEW d \in Deliveries, AcceptNonce(d), NEW k \in NonceKeys, Again(k)
  PROVE  Distance(taken'[k].at, taken[k].at) >= 2 * MaxSkew - MaxQuery
<1> DEFINE q == delivery[d]
<1>1. q.pc = "verify" /\ seen[q.key] = 0 /\ k = q.key
      /\ taken' = [taken EXCEPT ![q.key] = [stamp |-> q.stamp, at |-> q.at, known |-> TRUE]]
  BY DEF AcceptNonce, Again, IInv, Types
<1>2. taken'[k].at = q.at
  BY <1>1 DEF IInv, Types
<1>3. q.at \in Nat /\ taken[k].at \in Nat /\ now \in Nat
      /\ MaxSkew \in Nat /\ MaxQuery \in Nat /\ Ttl \in Nat /\ 2 * MaxSkew <= Ttl
  BY DeliveryFields, WebhookAssumption DEF IInv, Types, Times
<1>4. now - q.at <= MaxQuery
  BY <1>1 DEF IInv, Waited
<1>5. taken[k].at + Ttl <= now
  <2>1. \/ seen[k] = taken[k].at + Ttl
        \/ seen[k] = 0 /\ taken[k].at + Ttl <= now
    BY DEF IInv, Remembers, Again
  <2> QED  BY <1>1, <1>3, <2>1
<1> QED  BY <1>2, <1>3, <1>4, <1>5 DEF Distance

\* The process accepts one delivery twice only if it comes as early and then
\* as late as its stamp allows, up to a lookup - with any number of
\* deliveries under way, and whatever else the process does.
THEOREM ReplaysBounded == Spec => ReplayOnlyAtBoundary
<1> DEFINE A == \A k \in NonceKeys : Again(k) /\ taken'[k].stamp = taken[k].stamp
                  => Distance(taken'[k].at, taken[k].at) >= 2 * MaxSkew - MaxQuery
<1>1. IInv /\ [Next]_vars => [A]_vars
  <2> SUFFICES ASSUME IInv, Next, NEW k \in NonceKeys, Again(k)
               PROVE  Distance(taken'[k].at, taken[k].at) >= 2 * MaxSkew - MaxQuery
    BY DEF Again
  <2>1. taken'[k] # taken[k] /\ taken[k].known /\ taken'[k].known
    BY DEF Again
  <2>2. ASSUME NEW d \in Deliveries, Webhook(d)
        PROVE  Distance(taken'[k].at, taken[k].at) >= 2 * MaxSkew - MaxQuery
    BY <2>1, <2>2, TakenAgain DEF Webhook, ReceiveWebhook, RefuseSignature
  <2>3. ASSUME NEW t \in Tenants, InvalidateTenantRuntimeState(t) PROVE FALSE
    <3>1. taken' = [x \in NonceKeys |-> IF IsTenantScoped(x, t) THEN NoneTaken ELSE taken[x]]
      BY <2>3 DEF InvalidateTenantRuntimeState, PurgeWebhooks, Purged, IInv, Types
    <3>2. ~NoneTaken.known
      BY DEF NoneTaken
    <3> QED  BY <2>1, <3>1, <3>2
  <2>4. CASE Tick \/ Quiet \/ \E r \in Requests : Limit(r) \/ LetThrough(r) \/ Respond(r)
    BY <2>1, <2>4 DEF Tick, Quiet, Limit, LetThrough, Respond, webhookVars, vars
  <2> QED  BY <2>2, <2>3, <2>4 DEF Next
<1>2. Init => IInv
  BY InitInv
<1>3. IInv /\ [Next]_vars => IInv'
  BY NextInv
<1> QED  BY <1>1, <1>2, <1>3, PTL DEF Spec, ReplayOnlyAtBoundary
-----------------------------------------------------------------------------
(* The leakage watch. *)

Sighting == [tenant : Owners, at : Times, known : BOOLEAN]

\* An actor's last response is the one the pattern shows, for as long as
\* it counts.
Shown(a) == lastSeen[a].known /\ now - lastSeen[a].at < PatternWindow => patterns[a] = lastSeen[a]

Watch ==
  /\ patterns \in [Actors -> Sighting] /\ lastSeen \in [Actors -> Sighting]
  /\ \A a \in Actors : lastSeen[a].at <= now
  /\ \A a \in Actors : Shown(a)
  /\ "leakage" \notin workload => \A a \in Actors : ~lastSeen[a].known
  /\ \A k \in leaks : k[1] \in Owners /\ k[3] \in Actors \cup {NoActor} /\ k[4] \in Owners

LEMMA ShapeFields ==
  ASSUME NEW s \in Shapes
  PROVE  Identity(s) \in Owners /\ s.session \in Owners /\ s.actor \in Actors \cup {NoActor}
<1>1. IsShape(s) /\ s.actor \in Actors \cup {NoActor} /\ s.session \in Owners
  BY ShapeAssumption, LeakageAssumption
<1> QED  BY <1>1 DEF IsShape, Identity

LEMMA UnseenSighting == NotSeen \in Sighting /\ ~NotSeen.known /\ NotSeen.at = 0
BY RuntimeAssumption DEF NotSeen, Sighting, Owners, Times

LEMMA InitWatch == Init => Watch
<1> SUFFICES ASSUME Init PROVE Watch
  OBVIOUS
<1>1. now = 0 /\ LeakageInit
  BY DEF Init
<1> QED  BY <1>1, UnseenSighting DEF LeakageInit, Watch, Shown

LEMMA CleanWatch == ASSUME Watch, Asked, CleanLeakage, now' = now, workload' = workload PROVE Watch'
<1>1. /\ patterns' = [a \in Actors |-> IF patterns[a].at + PatternWindow <= now THEN NotSeen ELSE patterns[a]]
      /\ leaks' = leaks /\ lastSeen' = lastSeen
  BY DEF CleanLeakage
<1>2. patterns' \in [Actors -> Sighting]
  BY <1>1, UnseenSighting DEF Watch
<1>3. ASSUME NEW a \in Actors, lastSeen[a].known, now - lastSeen[a].at < PatternWindow
      PROVE  patterns'[a] = lastSeen[a]
  <2>1. patterns[a] = lastSeen[a]
    BY <1>3 DEF Watch, Shown
  <2>2. lastSeen[a].at \in Nat /\ now \in Nat /\ PatternWindow \in Nat
    <3>1. lastSeen[a] \in Sighting
      BY DEF Watch
    <3>2. Times \subseteq Nat
      BY RuntimeAssumption DEF Times
    <3> QED  BY <3>1, <3>2, LeakageAssumption DEF Sighting, Asked
  <2>3. ~(lastSeen[a].at + PatternWindow <= now)
    BY <1>3, <2>2
  <2> QED  BY <1>1, <2>1, <2>3
<1>4. \A a \in Actors : Shown(a)'
  BY <1>1, <1>3 DEF Shown
<1> QED  BY <1>1, <1>2, <1>4 DEF Watch

LEMMA FinishWatch ==
  ASSUME Watch, Asked, NEW r \in Requests, Finish(r), now' = now, workload' = workload, "leakage" \in workload
  PROVE  Watch'
<1> DEFINE s == request[r].shape
           q == [tenant |-> Identity(s), at |-> now, known |-> TRUE]
<1>1. /\ request[r].pc = "handler"
      /\ leaks' = leaks \cup AuthMismatch(s) \cup CrossTenant(s)
      /\ patterns' = See(patterns, s) /\ lastSeen' = See(lastSeen, s)
  BY DEF Finish
<1>2. s \in Shapes
  BY <1>1, RequestFields DEF Asked
<1>3. Identity(s) \in Owners /\ s.session \in Owners /\ s.actor \in Actors \cup {NoActor}
  BY <1>2, ShapeFields
<1> HIDE DEF s
<1>4. q \in Sighting /\ q.at = now
  BY <1>3 DEF Sighting, Asked
<1>5. (s.actor \in Actors => patterns' = [patterns EXCEPT ![s.actor] = q] /\ lastSeen' = [lastSeen EXCEPT ![s.actor] = q])
      /\ (s.actor \notin Actors => patterns' = patterns /\ lastSeen' = lastSeen)
  BY <1>1 DEF See
<1> HIDE DEF q
<1>6. patterns' \in [Actors -> Sighting] /\ lastSeen' \in [Actors -> Sighting]
  BY <1>4, <1>5 DEF Watch
<1>7. \A a \in Actors : Shown(a)' /\ lastSeen'[a].at <= now
  <2>1. now <= now
    BY RuntimeAssumption DEF Asked, Times
  <2>2. CASE s.actor \in Actors
    <3>1. patterns'[s.actor] = q /\ lastSeen'[s.actor] = q
          /\ \A a \in Actors \ {s.actor} : patterns'[a] = patterns[a] /\ lastSeen'[a] = lastSeen[a]
      BY <1>5, <2>2 DEF Watch
    <3> QED  BY <1>4, <2>1, <2>2, <3>1 DEF Watch, Shown
  <2>3. CASE s.actor \notin Actors
    BY <1>5, <2>3 DEF Watch, Shown
  <2> QED  BY <2>2, <2>3
<1>8. \A k \in AuthMismatch(s) : k[1] \in Owners /\ k[3] \in Actors \cup {NoActor} /\ k[4] \in Owners
  BY <1>3 DEF AuthMismatch
<1>9. \A k \in CrossTenant(s) : k[1] \in Owners /\ k[3] \in Actors \cup {NoActor} /\ k[4] \in Owners
  <2>1. CASE s.actor \in Actors
    <3>1. patterns[s.actor].tenant \in Owners
      BY <2>1 DEF Watch, Sighting
    <3> QED  BY <1>3, <3>1 DEF CrossTenant, CrossTenantKey
  <2>2. CASE s.actor \notin Actors
    BY <2>2 DEF CrossTenant
  <2> QED  BY <2>1, <2>2
<1>10. \A k \in leaks' : k[1] \in Owners /\ k[3] \in Actors \cup {NoActor} /\ k[4] \in Owners
  BY <1>1, <1>8, <1>9 DEF Watch
<1> QED  BY <1>6, <1>7, <1>10 DEF Watch

LEMMA TickWatch == ASSUME Watch, Asked, Tick PROVE Watch'
<1>1. now' = now + 1 /\ UNCHANGED <<leaks, patterns, lastSeen, workload>>
  BY DEF Tick, leakVars
<1>2. \A a \in Actors : lastSeen[a].at \in Nat /\ now \in Nat /\ PatternWindow \in Nat
  <2>1. Times \subseteq Nat /\ PatternWindow \in Nat
    BY RuntimeAssumption, LeakageAssumption DEF Times
  <2> QED  BY <2>1 DEF Watch, Sighting, Asked
<1>3. ASSUME NEW a \in Actors PROVE Shown(a)' /\ lastSeen'[a].at <= now'
  <2>1. Shown(a) /\ lastSeen[a].at <= now
    BY DEF Watch
  <2> QED  BY <1>1, <1>2, <2>1 DEF Shown
<1> QED  BY <1>1, <1>3 DEF Watch

LEMMA NextWatch == ASSUME Watch, Asked, [Next]_vars PROVE Watch'
<1>1. CASE Tick
  BY <1>1, TickWatch
<1>2. ASSUME NEW r \in Requests, Limit(r) \/ LetThrough(r) PROVE Watch'
  BY <1>2, CleanWatch DEF Limit, LetThrough
<1>3. ASSUME NEW r \in Requests, Respond(r) PROVE Watch'
  <2>1. now' = now /\ workload' = workload
    BY <1>3 DEF Respond
  <2>2. CASE "leakage" \in workload
    BY <1>3, <2>1, <2>2, FinishWatch DEF Respond
  <2>3. CASE "leakage" \notin workload
    BY <1>3, <2>1, <2>3 DEF Respond, leakVars, Watch, Shown
  <2> QED  BY <2>2, <2>3
<1>4. ASSUME NEW t \in Tenants, InvalidateTenantRuntimeState(t) PROVE Watch'
  BY <1>4 DEF InvalidateTenantRuntimeState, PurgeLeakage, PurgedSet, Watch, Shown
<1>5. CASE (\E d \in Deliveries : Webhook(d)) \/ Quiet \/ UNCHANGED vars
  BY <1>5 DEF Webhook, Quiet, vars, leakVars, Watch, Shown
<1> QED  BY <1>1, <1>2, <1>3, <1>4, <1>5 DEF Next

\* A response for another tenant than the actor's last one, within the
\* window, is reported: in whatever order the responses finish, whatever
\* the clean-up deletes and whichever tenants are invalidated in between.
THEOREM MovesAreReported == Spec => CrossTenantReported
<1> DEFINE A == \A r \in Requests :
       request[r].pc = "handler" /\ request'[r] = Idle =>
         LET s == request[r].shape IN
         s.actor \in Actors /\ lastSeen[s.actor].known /\ now - lastSeen[s.actor].at < PatternWindow
           /\ lastSeen[s.actor].tenant # Identity(s)
           => CrossTenantKey(s, lastSeen[s.actor].tenant) \in leaks'
<1>1. Watch /\ Asked /\ [Next]_vars => [A]_vars
  <2> SUFFICES ASSUME Watch, Asked, Next, NEW r \in Requests, request[r].pc = "handler", request'[r] = Idle,
                      request[r].shape.actor \in Actors,
                      lastSeen[request[r].shape.actor].known,
                      now - lastSeen[request[r].shape.actor].at < PatternWindow,
                      lastSeen[request[r].shape.actor].tenant # Identity(request[r].shape)
               PROVE  CrossTenantKey(request[r].shape, lastSeen[request[r].shape.actor].tenant) \in leaks'
    OBVIOUS
  <2>1. request'[r] # request[r]
    BY DEF Idle
  <2>2. Respond(r)
    <3>1. ASSUME NEW x \in Requests, Limit(x) \/ LetThrough(x) \/ Respond(x) PROVE x = r /\ Respond(r)
      BY <2>1, <3>1, LimitAsked, LetThroughAsked, RespondAsked
    <3>2. CASE Tick \/ Quiet \/ (\E d \in Deliveries : Webhook(d)) \/ \E t \in Tenants : InvalidateTenantRuntimeState(t)
      BY <2>1, <3>2 DEF Tick, Quiet, Webhook, InvalidateTenantRuntimeState, vars
    <3> QED  BY <3>1, <3>2 DEF Next
  <2>3. "leakage" \in workload
    BY DEF Watch
  <2> DEFINE s == request[r].shape
             a == s.actor
  <2>4. leaks' = leaks \cup AuthMismatch(s) \cup CrossTenant(s)
    BY <2>2, <2>3 DEF Respond, Finish
  <2>5. patterns[a] = lastSeen[a]
    BY DEF Watch, Shown
  <2>6. Recent(patterns[a])
    <3>1. lastSeen[a].at \in Nat /\ now \in Nat /\ PatternWindow \in Nat
      <4>1. Times \subseteq Nat /\ PatternWindow \in Nat
        BY RuntimeAssumption, LeakageAssumption DEF Times
      <4> QED  BY <4>1 DEF Watch, Sighting, Asked
    <3> QED  BY <2>5, <3>1 DEF Recent
  <2>7. CrossTenant(s) = {CrossTenantKey(s, lastSeen[a].tenant)}
    BY <2>5, <2>6 DEF CrossTenant
  <2> QED  BY <2>4, <2>7
<1>2. Init => Watch /\ Asked
  BY InitWatch, InitLimits
<1>3. Watch /\ Asked /\ [Next]_vars => Watch' /\ Asked'
  BY NextWatch, NextAsked
<1> QED  BY <1>1, <1>2, <1>3, PTL DEF Spec, CrossTenantReported
-----------------------------------------------------------------------------
Indexed == accepted \in [Tenants -> SUBSET NonceKeys]

LEMMA NextIndexed == ASSUME Indexed, IInv, [Next]_vars PROVE Indexed'
<1>1. ASSUME NEW d \in Deliveries, Webhook(d) PROVE Indexed'
  <2>1. CASE ReceiveWebhook(d) \/ RefuseSignature(d)
    BY <2>1 DEF ReceiveWebhook, RefuseSignature, Indexed
  <2>2. CASE AcceptNonce(d)
    <3> DEFINE q == delivery[d]
    <3>1. q.pc = "verify" /\ q \in Delivery
      BY <2>2 DEF AcceptNonce, IInv, Types
    <3>2. q.key \in NonceKeys
      BY <3>1, DeliveryFields
    <3>3. accepted' = accepted \/ accepted' = [accepted EXCEPT ![q.key[1]] = @ \cup {q.key}]
      BY <2>2 DEF AcceptNonce, Upsert
    <3> QED  BY <3>2, <3>3 DEF Indexed, NonceKeys
  <2> QED  BY <1>1, <2>1, <2>2 DEF Webhook
<1>2. ASSUME NEW t \in Tenants, InvalidateTenantRuntimeState(t) PROVE Indexed'
  BY <1>2 DEF InvalidateTenantRuntimeState, PurgeWebhooks, Indexed
<1>3. CASE Tick \/ (\E r \in Requests : Limit(r) \/ LetThrough(r) \/ Respond(r)) \/ Quiet \/ UNCHANGED vars
  BY <1>3 DEF Tick, Limit, LetThrough, Respond, Quiet, vars, webhookVars, Indexed
<1> QED  BY <1>1, <1>2, <1>3 DEF Next

LEMMA BucketRange ==
  ASSUME now \in Times, NEW b, NEW window \in {RateWindow, QuotaWindow}, Counts(b, window, now)
  PROVE  b.count \in Nat /\ b.resetAt \in 0..(MaxTime + RateWindow + QuotaWindow)
<1>1. MaxTime \in Nat /\ RateWindow \in Nat /\ QuotaWindow \in Nat
  BY Bounds
<1>2. now \in Nat /\ now <= MaxTime
  BY <1>1 DEF Times
<1>3. b.count \in Nat /\ b.resetAt \in Nat /\ b.resetAt <= now + window
  BY DEF Counts, Bucket
<1> QED  BY <1>1, <1>2, <1>3

\* Type correctness: counters end within a window, keys are those of the
\* requests, and what is reported or remembered names tenants and actors.
THEOREM TypeCorrect == Spec => []TypeOK
<1>1. Init => IInv /\ Limits /\ Asked /\ Watch /\ Indexed
  <2>1. Init => Indexed
    BY DEF Init, WebhooksInit, Indexed
  <2> QED  BY <2>1, InitInv, InitLimits, InitWatch
<1>2. IInv /\ Limits /\ Asked /\ Watch /\ Indexed /\ [Next]_vars => (IInv /\ Limits /\ Asked /\ Watch /\ Indexed)'
  BY NextInv, NextLimits, NextAsked, NextWatch, NextIndexed
<1>3. IInv /\ Limits /\ Asked /\ Watch /\ Indexed => TypeOK
  <2> SUFFICES ASSUME IInv, Limits, Asked, Watch, Indexed PROVE TypeOK
    OBVIOUS
  <2> DEFINE Fine(b) == b.count \in Nat /\ b.resetAt \in 0..(MaxTime + RateWindow + QuotaWindow)
  <2>1. now \in Times
    BY DEF Asked
  <2>2. /\ \A k \in IpKeys : Counts(ipBuckets[k], RateWindow, now)
        /\ \A k \in MutationKeys : Counts(mutationBuckets[k], RateWindow, now)
        /\ \A k \in ClassKeys : Counts(throttles[k], RateWindow, now) /\ Counts(abuses[k], RateWindow, now)
                                /\ Counts(quotas[k], QuotaWindow, now)
    BY DEF Limits, Fits, Runs, Kept
  <2>3. /\ \A k \in IpKeys : Fine(ipBuckets[k])
        /\ \A k \in MutationKeys : Fine(mutationBuckets[k])
        /\ \A k \in ClassKeys : Fine(throttles[k]) /\ Fine(abuses[k]) /\ Fine(quotas[k])
    BY <2>1, <2>2, BucketRange
  <2> HIDE DEF Fine
  <2>4. \A b \in Counters : Fine(b)
    BY <2>3 DEF Counters
  <2>5. \A b \in Counters : b.count \in Nat /\ b.resetAt \in 0..(MaxTime + RateWindow + QuotaWindow)
    BY <2>4 DEF Fine
  <2>6. patterns \in [Actors -> [tenant : Owners, at : 0..MaxTime, known : BOOLEAN]]
    BY DEF Watch, Sighting, Times
  <2>7. now \in 0..MaxTime /\ request \in [Requests -> Request]
    BY DEF Asked, Times
  <2>8. seen \in [NonceKeys -> Nat] /\ delivery \in [Deliveries -> Delivery] /\ accepted \in [Tenants -> SUBSET NonceKeys]
    BY DEF IInv, Types, Indexed
  <2>9. quotaAlerts \subseteq ClassKeys /\ abuseAlerts \subseteq ClassKeys
    BY DEF Limits
  <2>10. \A k \in leaks : k[1] \in Owners /\ k[3] \in Actors \cup {NoActor} /\ k[4] \in Owners
    BY DEF Watch
  <2> QED  BY <2>5, <2>6, <2>7, <2>8, <2>9, <2>10 DEF TypeOK
<1> QED  BY <1>1, <1>2, <1>3, PTL DEF Spec
=============================================================================
