--------------------------- MODULE FrontDoorProofs ---------------------------
(***************************************************************************)
(* Proofs about FrontDoor, for any number of instances, any file and any   *)
(* environment, any limit and window.                                      *)
(*                                                                         *)
(* The inductive invariant describes the last window of every counter: it  *)
(* was opened by a hit within the limit, it holds as many such hits as the *)
(* counter says, up to the limit, and the stretch of a window's length     *)
(* before it misses at least one: the hit that opened the window before.   *)
(***************************************************************************)
EXTENDS FrontDoor, FiniteSetTheorems, WellFoundedInduction, TLAPS

-----------------------------------------------------------------------------
(* The invariant.                                                          *)

Shape ==
  /\ file \in Files /\ env \in Envs /\ clock \in Nat
  /\ conf \in [Pods -> {Off, Settings}]
  /\ \A p \in Pods : conf[p] # Off => Validate(Settings)
  /\ store \in [Pods -> Stores]
  /\ \A p \in Pods : store[p] \in {p, "redis"}
  /\ counts \in [Stores -> [n : Nat, until : Int]]
  /\ counted \in [Stores -> Seq(Nat)]
  /\ refused \in [by : Stores \cup {"none"}, at : Nat]

Limiting == Validate(Settings) /\ Settings.limit

\* How many times of a log lie in a stretch of time.
Number(log, from, to) == Cardinality(Within(log, from, to))

\* A counter c with a window of length w, and in log the hits until now that were
\* within the limit.  The window was opened by one of them, and all of them came
\* before its end.
Window(log, c, w, now, redis) ==
  /\ c.n >= 1 /\ 0 <= c.until - w /\ c.until - w <= now
  /\ \E k \in DOMAIN log : log[k] = c.until - w
  /\ \A k \in DOMAIN log : log[k] <= now /\ log[k] <= c.until
  /\ redis => \A k \in DOMAIN log : log[k] < c.until

\* The counter tells how many hits of its window are in log, up to the limit m,
\* and in the stretch before it there were less than m.
Filled(log, c, w, m, now) ==
  /\ c.n <= m => Number(log, c.until - w, now) = c.n
  /\ c.n > m => Number(log, c.until - w, now) = m
  /\ Number(log, c.until - w - w + 1, c.until - w - 1) < m

Burst(log, w, m) == \A t \in 0 .. MaxClock : Number(log, t, t + w - 1) < 2 * m

Counter(log, c, w, m, now, redis) ==
  /\ w \in Int /\ w > 0 /\ m \in Int /\ m >= 1
  /\ Window(log, c, w, now, redis) /\ Filled(log, c, w, m, now) /\ Burst(log, w, m)

Unused(s) == counts[s] = None /\ counted[s] = << >>

Windows ==
  \A s \in Stores :
    \/ Unused(s)
    \/ Limiting /\ Counter(counted[s], counts[s], Settings.window, Settings.max, clock, s = "redis")

Refusals ==
  refused.by # "none" =>
    Limiting /\ Number(counted[refused.by], refused.at - Settings.window, refused.at) >= Settings.max

\* A request that is to be sent again is one of an instance that runs and limits.
Held == [pod : Pods, key : Keys, left : Nat]

Waits ==
  /\ waiting \in [Handlers -> {Off} \cup Held]
  /\ \A h \in Handlers : waiting[h] # Off => conf[waiting[h].pod] # Off /\ Settings.limit

Counters == Shape /\ Windows /\ Refusals

Inv == Counters /\ Waits

-----------------------------------------------------------------------------
(* Counting in a log of times.                                             *)

LEMMA NumberIs ==
  ASSUME NEW log \in Seq(Nat), NEW a \in Int, NEW b \in Int
  PROVE  IsFiniteSet(Within(log, a, b)) /\ Number(log, a, b) \in Nat
<1>1. IsFiniteSet(1 .. Len(log))
  BY FS_Interval
<1>2. Within(log, a, b) \subseteq 1 .. Len(log)
  BY DEF Within
<1> QED BY <1>1, <1>2, FS_Subset, FS_CardinalityType DEF Number

\* What lies in one stretch and all in another.
LEMMA NumberGrows ==
  ASSUME NEW log \in Seq(Nat), NEW a \in Int, NEW b \in Int, NEW c \in Int, NEW d \in Int,
         \A k \in DOMAIN log : a <= log[k] /\ log[k] <= b => c <= log[k] /\ log[k] <= d
  PROVE  Number(log, a, b) <= Number(log, c, d)
<1>1. Within(log, a, b) \subseteq Within(log, c, d)
  BY DEF Within
<1>2. IsFiniteSet(Within(log, c, d))
  BY NumberIs
<1> QED BY <1>1, <1>2, FS_Subset DEF Number

\* ... and one of the other lies outside.
LEMMA NumberGrowsBy ==
  ASSUME NEW log \in Seq(Nat), NEW a \in Int, NEW b \in Int, NEW c \in Int, NEW d \in Int,
         \A k \in DOMAIN log : a <= log[k] /\ log[k] <= b => c <= log[k] /\ log[k] <= d,
         NEW j \in DOMAIN log, c <= log[j], log[j] <= d, ~(a <= log[j] /\ log[j] <= b)
  PROVE  Number(log, a, b) < Number(log, c, d)
<1> DEFINE S == Within(log, a, b)
           T == Within(log, c, d)
<1>1. S \subseteq T \ {j} /\ j \in T
  BY DEF Within
<1>2. IsFiniteSet(T) /\ Number(log, c, d) \in Nat
  BY NumberIs
<1>3. Number(log, a, b) = Cardinality(S) /\ Number(log, c, d) = Cardinality(T)
  BY DEF Number
<1> HIDE DEF S, T
<1>4. Cardinality(T \ {j}) = Cardinality(T) - 1 /\ IsFiniteSet(T \ {j})
  BY <1>1, <1>2, FS_RemoveElement
<1>5. Cardinality(S) <= Cardinality(T \ {j}) /\ Cardinality(S) \in Nat
  BY <1>1, <1>4, FS_Subset, FS_CardinalityType
<1> QED BY <1>2, <1>3, <1>4, <1>5

LEMMA NumberSplits ==
  ASSUME NEW log \in Seq(Nat), NEW a \in Int, NEW m \in Int, NEW b \in Int
  PROVE  Number(log, a, b) <= Number(log, a, m - 1) + Number(log, m, b)
<1> DEFINE S == Within(log, a, m - 1)
           T == Within(log, m, b)
<1>1. Within(log, a, b) \subseteq S \cup T
  BY DEF Within
<1>2. m - 1 \in Int /\ IsFiniteSet(S) /\ IsFiniteSet(T)
  BY NumberIs
<1>3. Number(log, a, m - 1) = Cardinality(S) /\ Number(log, m, b) = Cardinality(T)
  BY DEF Number
<1> HIDE DEF S, T
<1>4. IsFiniteSet(S \cup T) /\ Cardinality(S \cup T) = Cardinality(S) + Cardinality(T) - Cardinality(S \cap T)
  BY <1>2, FS_Union
<1>5. Cardinality(S \cap T) \in Nat /\ Cardinality(S) \in Nat /\ Cardinality(T) \in Nat
  BY <1>2, FS_Intersection, FS_CardinalityType
<1>6. Number(log, a, b) <= Cardinality(S \cup T) /\ Number(log, a, b) \in Nat
  BY <1>1, <1>4, NumberIs, FS_Subset DEF Number
<1> QED BY <1>3, <1>4, <1>5, <1>6

LEMMA NumberOfAppend ==
  ASSUME NEW log \in Seq(Nat), NEW t \in Nat, NEW a \in Int, NEW b \in Int
  PROVE  /\ a <= t /\ t <= b => Number(Append(log, t), a, b) = Number(log, a, b) + 1
         /\ ~(a <= t /\ t <= b) => Number(Append(log, t), a, b) = Number(log, a, b)
<1> DEFINE S == Within(log, a, b)
           j == Len(log) + 1
<1>1. IsFiniteSet(S) /\ Number(log, a, b) = Cardinality(S)
  BY NumberIs DEF Number
<1>2. j \notin S
  BY DEF Within
<1>3. CASE a <= t /\ t <= b
  <2>1. Within(Append(log, t), a, b) = S \cup {j}
    BY <1>3 DEF Within
  <2> HIDE DEF S, j
  <2>2. Cardinality(S \cup {j}) = Cardinality(S) + 1
    BY <1>1, <1>2, FS_AddElement
  <2> QED BY <1>1, <1>3, <2>1, <2>2 DEF Number
<1>4. CASE ~(a <= t /\ t <= b)
  <2>1. Within(Append(log, t), a, b) = S
    BY <1>4 DEF Within
  <2> QED BY <1>1, <1>4, <2>1 DEF Number
<1> QED BY <1>3, <1>4

-----------------------------------------------------------------------------
(* What the steps do to a counter.                                         *)

\* A request that finds no window, or one that is over, opens the next.
LEMMA CounterOpens ==
  ASSUME NEW log \in Seq(Nat), NEW c \in [n : Nat, until : Int], NEW w \in Int, w > 0, NEW m \in Int, m >= 1,
         NEW now \in Nat, NEW redis \in BOOLEAN,
         \/ log = << >>
         \/ Counter(log, c, w, m, now, redis) /\ (IF redis THEN now >= c.until ELSE now > c.until)
  PROVE  Counter(Append(log, now), [n |-> 1, until |-> now + w], w, m, now, redis)
<1> DEFINE new == Append(log, now)
           d   == [n |-> 1, until |-> now + w]
           lo  == now - w + 1
           hi  == now - 1
<1>0. lo \in Int /\ hi \in Int /\ lo = now - w + 1 /\ hi = now - 1 /\ now \in Int
  OBVIOUS
<1> HIDE DEF lo, hi
<1>1. /\ new \in Seq(Nat) /\ new[Len(log) + 1] = now /\ Len(log) + 1 \in DOMAIN new
      /\ \A k \in DOMAIN log : k \in DOMAIN new /\ new[k] = log[k]
      /\ \A k \in DOMAIN new : k \in DOMAIN log \/ new[k] = now
  OBVIOUS
<1>2. d.n = 1 /\ d.until = now + w /\ d.until - w = now
  OBVIOUS
<1>3. \A k \in DOMAIN log : log[k] <= now /\ log[k] \in Nat
  BY DEF Counter, Window
<1>4. \A a \in Int, b \in Int : Number(log, a, b) \in Nat
  BY NumberIs
<1>5. Window(new, d, w, now, redis)
  <2>1. \A k \in DOMAIN new : new[k] <= now /\ new[k] \in Nat
    BY <1>1, <1>3
  <2> HIDE DEF new, d
  <2> QED BY <1>1, <1>2, <2>1 DEF Window
\* Nothing was let through in this moment before.
<1>6. Number(log, now, now) = 0
  <2>1. ASSUME NEW k \in DOMAIN log PROVE log[k] < now
    BY <1>3, <2>1 DEF Counter, Window
  <2>2. Within(log, now, now) = {}
    BY <1>3, <2>1 DEF Within
  <2> QED BY <2>2, FS_EmptySet DEF Number
\* The stretch before misses the request that opened the window before.
<1>7. Number(log, lo, now) < m
  <2>1. CASE log = << >>
    <3>1. Within(log, lo, now) = {}
      BY <2>1 DEF Within
    <3>2. Number(log, lo, now) = 0
      BY <3>1, FS_EmptySet DEF Number
    <3> QED BY <3>2
  <2>2. CASE log # << >>
    <3> DEFINE a == c.until - w
    <3>1. a \in Int /\ a <= now /\ now >= a + w
      BY <2>2 DEF Counter, Window
    <3>5. Number(log, a, now) <= m
      <4>1. Filled(log, c, w, m, now) /\ c.n \in Nat
        BY <2>2 DEF Counter
      <4>2. c.n <= m => Number(log, a, now) = c.n
        BY <4>1 DEF Filled
      <4>3. c.n > m => Number(log, a, now) = m
        BY <4>1 DEF Filled
      <4> QED BY <4>1, <4>2, <4>3
    <3>2. PICK j \in DOMAIN log : log[j] = a
      BY <2>2 DEF Counter, Window
    <3> HIDE DEF a
    <3>3. Number(log, lo, now) < Number(log, a, now)
      <4>1. a < lo /\ \A k \in DOMAIN log : lo <= log[k] /\ log[k] <= now => a <= log[k] /\ log[k] <= now
        BY <1>0, <1>3, <3>1
      <4>2. ~(lo <= log[j] /\ log[j] <= now) /\ a <= log[j] /\ log[j] <= now
        BY <1>0, <3>1, <3>2, <4>1
      <4> QED BY <1>0, <3>1, <3>2, <4>1, <4>2, NumberGrowsBy
    <3>4. Number(log, lo, now) \in Nat /\ Number(log, a, now) \in Nat
      BY <1>0, <1>4, <3>1
    <3> QED BY <3>5, <3>3, <3>4
  <2> QED BY <2>1, <2>2
<1>8. Number(new, now, now) = 1
  BY <1>6, NumberOfAppend
<1>9. Number(new, lo, hi) < m
  <2>2. Number(new, lo, hi) = Number(log, lo, hi)
    BY <1>0, NumberOfAppend
  <2>3. Number(log, lo, hi) <= Number(log, lo, now)
    BY <1>0, <1>3, NumberGrows
  <2>4. Number(log, lo, hi) \in Nat /\ Number(log, lo, now) \in Nat
    BY <1>0, <1>4
  <2> QED BY <1>7, <2>2, <2>3, <2>4
<1>10. Filled(new, d, w, m, now)
  <2> HIDE DEF new, d
  <2>1. d.until - w - w + 1 = lo /\ d.until - w - 1 = hi
    BY <1>0, <1>2
  <2> QED BY <1>2, <1>8, <1>9, <2>1 DEF Filled
<1>11. Burst(new, w, m)
  <2> SUFFICES ASSUME NEW t \in 0 .. MaxClock PROVE Number(new, t, t + w - 1) < 2 * m
    BY DEF Burst
  <2> DEFINE end == t + w - 1
  <2>1. t \in Int /\ end \in Int /\ end = t + w - 1
    OBVIOUS
  <2> HIDE DEF end
  <2> SUFFICES Number(new, t, end) < 2 * m
    BY <2>1
  <2>2. Number(log, t, end) \in Nat
    BY <1>4, <2>1
  <2>3. CASE t <= now /\ now <= end
    <3>1. Number(new, t, end) = Number(log, t, end) + 1
      BY <2>1, <2>3, NumberOfAppend
    <3>2. Number(log, t, end) <= Number(log, lo, now)
      <4>1. lo <= t
        BY <1>0, <2>1, <2>3
      <4>2. \A k \in DOMAIN log : t <= log[k] /\ log[k] <= end => lo <= log[k] /\ log[k] <= now
        BY <1>0, <1>3, <2>1, <4>1
      <4> QED BY <1>0, <2>1, <4>2, NumberGrows
    <3>3. Number(log, lo, now) \in Nat
      BY <1>0, <1>4
    <3> QED BY <1>7, <2>2, <3>1, <3>2, <3>3
  <2>4. CASE ~(t <= now /\ now <= end)
    <3>1. Number(new, t, end) = Number(log, t, end)
      BY <2>1, <2>4, NumberOfAppend
    <3>2. Number(log, t, end) < 2 * m
      <4>1. CASE log = << >>
        <5>1. Within(log, t, end) = {}
          BY <4>1 DEF Within
        <5>2. Number(log, t, end) = 0
          BY <5>1, FS_EmptySet DEF Number
        <5> QED BY <5>2
      <4>2. CASE log # << >>
        BY <2>1, <4>2 DEF Counter, Burst
      <4> QED BY <4>1, <4>2
    <3> QED BY <3>1, <3>2
  <2> QED BY <2>1, <2>3, <2>4
<1> QED BY <1>5, <1>10, <1>11 DEF Counter

\* A request that is counted in an open window is let through ...
LEMMA CounterCounts ==
  ASSUME NEW log \in Seq(Nat), NEW c \in [n : Nat, until : Int], NEW w, NEW m, NEW now \in Nat, NEW redis \in BOOLEAN,
         Counter(log, c, w, m, now, redis), IF redis THEN now < c.until ELSE now <= c.until,
         NEW d \in [n : Nat, until : Int], d.n = c.n + 1, d.until = c.until, d.n <= m
  PROVE  Counter(Append(log, now), d, w, m, now, redis)
<1> DEFINE new == Append(log, now)
           a   == c.until - w
<1>1. w \in Int /\ w > 0 /\ m \in Int /\ m >= 1 /\ a \in Int /\ 0 <= a /\ a <= now /\ d.until - w = a /\ now <= a + w
      /\ c.n >= 1 /\ c.n \in Nat /\ c.n < m
  BY DEF Counter, Window
<1>2. /\ new \in Seq(Nat)
      /\ \A k \in DOMAIN log : k \in DOMAIN new /\ new[k] = log[k]
      /\ \A k \in DOMAIN new : (k \in DOMAIN log /\ new[k] = log[k]) \/ new[k] = now
  OBVIOUS
<1>3. \A k \in DOMAIN log : log[k] <= now /\ log[k] \in Nat
  BY DEF Counter, Window
<1>4. \A x \in Int, y \in Int : Number(log, x, y) \in Nat /\ Number(new, x, y) \in Nat
  BY <1>2, NumberIs
<1>5. Window(new, d, w, now, redis)
  <2>1. \E k \in DOMAIN new : new[k] = a
    BY <1>2 DEF Counter, Window
  <2>2. \A k \in DOMAIN new : new[k] <= now /\ new[k] <= c.until /\ (redis => new[k] < c.until)
    BY <1>2 DEF Counter, Window
  <2> HIDE DEF new
  <2> QED BY <1>1, <2>1, <2>2 DEF Window
<1>6. Number(new, a, now) = d.n
  <2>1. Number(log, a, now) = c.n
    BY <1>1 DEF Counter, Filled
  <2> HIDE DEF a
  <2> QED BY <1>1, <2>1, NumberOfAppend
<1>7. Number(new, a - w + 1, a - 1) < m
  <2>1. Number(log, a - w + 1, a - 1) < m
    BY DEF Counter, Filled
  <2> HIDE DEF a
  <2>2. a - w + 1 \in Int /\ a - 1 \in Int /\ ~(now <= a - 1)
    BY <1>1
  <2> QED BY <2>1, <2>2, NumberOfAppend
<1>8. Filled(new, d, w, m, now)
  <2> HIDE DEF new
  <2>1. d.until - w - w + 1 = a - w + 1 /\ d.until - w - 1 = a - 1
    BY <1>1
  <2> QED BY <1>1, <1>6, <1>7, <2>1 DEF Filled
<1>9. Burst(new, w, m)
  <2> SUFFICES ASSUME NEW t \in 0 .. MaxClock PROVE Number(new, t, t + w - 1) < 2 * m
    BY DEF Burst
  <2> HIDE DEF a
  <2> DEFINE end == t + w - 1
             lo  == a - w + 1
             hi  == a - 1
  <2>1. /\ t \in Int /\ end \in Int /\ end = t + w - 1
        /\ lo \in Int /\ lo = a - w + 1 /\ hi \in Int /\ hi = a - 1 /\ now \in Int
    BY <1>1
  <2>4. Number(new, lo, hi) < m
    BY <1>7
  <2> HIDE DEF end, lo, hi
  <2> SUFFICES Number(new, t, end) < 2 * m
    BY <2>1
  <2>2. CASE t <= now /\ now <= end
    <3>1. Number(new, t, end) <= Number(new, lo, now)
      <4>1. lo <= t
        BY <1>1, <2>1, <2>2
      <4>2. \A k \in DOMAIN new : new[k] <= now /\ new[k] \in Nat
        BY <1>2, <1>3
      <4> HIDE DEF new
      <4>3. \A k \in DOMAIN new : t <= new[k] /\ new[k] <= end => lo <= new[k] /\ new[k] <= now
        BY <2>1, <4>1, <4>2
      <4> QED BY <1>2, <2>1, <4>3, NumberGrows
    <3>2. Number(new, lo, now) <= Number(new, lo, hi) + Number(new, a, now)
      <4> HIDE DEF new
      <4>1. Number(new, lo, now) <= Number(new, lo, a - 1) + Number(new, a, now)
        BY <1>1, <1>2, <2>1, NumberSplits
      <4> QED BY <2>1, <4>1
    <3> HIDE DEF new
    <3>3. /\ Number(new, t, end) \in Nat /\ Number(new, lo, now) \in Nat
          /\ Number(new, lo, hi) \in Nat
      BY <1>1, <1>4, <2>1
    <3>4. Number(new, a, now) <= m /\ Number(new, a, now) \in Nat /\ m \in Int
      BY <1>1, <1>6
    <3>5. Number(new, lo, now) < m + m
      BY <2>4, <3>2, <3>3, <3>4
    <3> QED BY <3>1, <3>3, <3>4, <3>5
  <2>3. CASE ~(t <= now /\ now <= end)
    <3>1. Number(new, t, end) = Number(log, t, end)
      BY <2>1, <2>3, NumberOfAppend
    <3> QED BY <2>1, <3>1 DEF Counter, Burst
  <2> QED BY <2>1, <2>2, <2>3
<1> QED BY <1>1, <1>5, <1>8, <1>9 DEF Counter

\* ... or is refused, for as many as the limit within the last window.
LEMMA CounterRefuses ==
  ASSUME NEW log \in Seq(Nat), NEW c \in [n : Nat, until : Int], NEW w, NEW m, NEW now \in Nat, NEW redis \in BOOLEAN,
         Counter(log, c, w, m, now, redis), IF redis THEN now < c.until ELSE now <= c.until,
         NEW d \in [n : Nat, until : Int], d.n = c.n + 1, d.until = c.until, d.n > m
  PROVE  Counter(log, d, w, m, now, redis) /\ Number(log, now - w, now) >= m
<1> DEFINE a == c.until - w
<1>1. w \in Int /\ w > 0 /\ m \in Int /\ a \in Int /\ a <= now /\ d.until - w = a /\ now <= a + w /\ c.n >= m
      /\ c.n \in Nat /\ d.n >= 1
  BY DEF Counter, Window
<1>2. Number(log, a, now) = m
  BY <1>1 DEF Counter, Filled
<1>3. Counter(log, d, w, m, now, redis)
  <2>1. Window(log, d, w, now, redis)
    BY <1>1 DEF Counter, Window
  <2>2. Filled(log, d, w, m, now)
    BY <1>1, <1>2 DEF Counter, Filled
  <2> QED BY <2>1, <2>2 DEF Counter
<1>4. Number(log, now - w, now) >= m
  <2> HIDE DEF a
  <2>1. now - w \in Int /\ now - w <= a
    BY <1>1
  <2>2. Number(log, a, now) <= Number(log, now - w, now)
    BY <1>1, <2>1, NumberGrows
  <2>3. Number(log, now - w, now) \in Nat
    BY <2>1, NumberIs
  <2> QED BY <1>1, <1>2, <2>2, <2>3
<1> QED BY <1>3, <1>4

LEMMA CounterAges ==
  ASSUME NEW log \in Seq(Nat), NEW c \in [n : Nat, until : Int], NEW w, NEW m, NEW now \in Nat, NEW redis \in BOOLEAN,
         Counter(log, c, w, m, now, redis)
  PROVE  Counter(log, c, w, m, now + 1, redis)
<1> DEFINE a == c.until - w
<1>1. a \in Int /\ \A k \in DOMAIN log : log[k] <= now /\ log[k] \in Nat
  BY DEF Counter, Window
<1>2. Within(log, a, now + 1) = Within(log, a, now)
  BY <1>1 DEF Within
<1>3. Number(log, a, now + 1) = Number(log, a, now)
  BY <1>2 DEF Number
<1>4. Window(log, c, w, now + 1, redis)
  BY <1>1 DEF Counter, Window
<1>5. Filled(log, c, w, m, now + 1)
  BY <1>3 DEF Counter, Filled
<1> QED BY <1>4, <1>5 DEF Counter

-----------------------------------------------------------------------------
(* The settings.                                                           *)

AllSettings == Flags \cup Numbers \cup Lists \cup Texts

LEMMA SettingsAre ==
  ASSUME file \in Files, env \in Envs, NEW s \in AllSettings
  PROVE  /\ s \in DOMAIN env => Settings[s] = Override(s, file[s], env[s])
         /\ s \notin DOMAIN env => Settings[s] = file[s]
BY FrontDoorAssumption DEF FrontDoorAssumption, AllSettings, Settings, overrideFromEnv

LEMMA OverrideNumber ==
  ASSUME NEW s \in {"max", "window"}, NEW old \in Int, NEW val \in SUBSET Int
  PROVE  Override(s, old, val) \in Int
<1>1. s \notin Flags /\ s \notin Texts /\ s \in Numbers /\ s \notin Lists
  BY DEF Flags, Texts, Required, Credential, Numbers, Lists
<1>2. Override(s, old, val) = IF val = {} THEN old ELSE CHOOSE n \in val : TRUE
  BY <1>1 DEF Override
<1>3. val # {} => (CHOOSE n \in val : TRUE) \in val
  OBVIOUS
<1> QED BY <1>2, <1>3

LEMMA SettingsTyped ==
  ASSUME file \in Files, env \in Envs
  PROVE  Settings.max \in Int /\ Settings.window \in Int
<1>1. "max" \in AllSettings /\ "window" \in AllSettings
  BY DEF AllSettings, Numbers
<1>2. /\ file.max \in Int /\ file.window \in Int
      /\ "max" \in DOMAIN env => env.max \in SUBSET Int
      /\ "window" \in DOMAIN env => env.window \in SUBSET Int
  BY FrontDoorAssumption DEF FrontDoorAssumption
<1>3. Settings["max"] \in Int
  BY <1>1, <1>2, SettingsAre, OverrideNumber
<1>4. Settings["window"] \in Int
  BY <1>1, <1>2, SettingsAre, OverrideNumber
<1> QED BY <1>3, <1>4

LEMMA LimitIsPositive ==
  ASSUME file \in Files, env \in Envs, Limiting
  PROVE  /\ Settings.max \in Int /\ Settings.max >= 1
         /\ Settings.window \in Int /\ Settings.window > 0
<1>1. Settings.max >= 1 /\ Settings.window > 0
  BY DEF Limiting, Validate
<1> QED BY <1>1, SettingsTyped

LEMMA SettingsStay ==
  ASSUME UNCHANGED inputs
  PROVE  file' = file /\ env' = env /\ Settings' = Settings /\ Limiting' = Limiting
<1>1. file' = file /\ env' = env
  BY DEF inputs
<1>2. Settings' = Settings
  BY <1>1 DEF Settings, overrideFromEnv
<1>3. Limiting' = Limiting
  BY <1>2 DEF Limiting
<1> QED BY <1>1, <1>2, <1>3

-----------------------------------------------------------------------------
(* The invariant is inductive.                                             *)

LEMMA InvInit == Init => Inv
<1> SUFFICES ASSUME Init PROVE Inv
  OBVIOUS
<1>1. None \in [n : Nat, until : Int] /\ << >> \in Seq(Nat)
  BY DEF None
<1>2. Shape
  BY <1>1 DEF Shape, Init, Stores
<1>3. Windows
  BY DEF Windows, Unused, Init
<1>4. Refusals
  BY DEF Refusals, Init
<1>5. Waits
  BY DEF Waits, Init
<1> QED BY <1>2, <1>3, <1>4, <1>5 DEF Inv, Counters

\* Whatever leaves the counters and the time alone.
LEMMA CountersStay ==
  ASSUME Counters, UNCHANGED <<inputs, counts, clock, counted, refused>>
  PROVE  Windows' /\ Refusals'
<1>1. /\ Settings' = Settings /\ Limiting' = Limiting /\ counts' = counts /\ clock' = clock
      /\ counted' = counted /\ refused' = refused
  BY SettingsStay
<1>2. Windows'
  BY <1>1 DEF Counters, Windows, Unused
<1>3. Refusals'
  BY <1>1 DEF Counters, Refusals
<1> QED BY <1>2, <1>3

\* ... and the instances.
LEMMA AllStay ==
  ASSUME Counters, UNCHANGED <<inputs, conf, store, counts, clock, counted, refused>>
  PROVE  Counters'
<1>1. file' = file /\ env' = env /\ Settings' = Settings
  BY SettingsStay
<1>2. Shape'
  BY <1>1 DEF Counters, Shape
<1> QED BY <1>2, CountersStay DEF Counters

LEMMA WaitsStay ==
  ASSUME Waits, UNCHANGED <<inputs, conf, waiting>>
  PROVE  Waits'
BY SettingsStay DEF Waits

LEMMA StepTick ==
  ASSUME Inv, Tick PROVE Inv'
<1>1. /\ clock' = clock + 1 /\ conf' = conf /\ store' = store /\ counts' = counts /\ counted' = counted
      /\ refused' = refused /\ UNCHANGED inputs /\ waiting' = waiting
  BY DEF Tick, logs
<1>2. file' = file /\ env' = env /\ Settings' = Settings /\ Limiting' = Limiting
  BY <1>1, SettingsStay
<1>3. Shape'
  BY <1>1, <1>2 DEF Inv, Counters, Shape
<1>4. Windows'
  <2> SUFFICES ASSUME NEW s \in Stores, ~Unused(s)
               PROVE  Limiting /\ Counter(counted[s], counts[s], Settings.window, Settings.max, clock + 1, s = "redis")
    BY <1>1, <1>2 DEF Windows, Unused
  <2>1. /\ Limiting /\ Counter(counted[s], counts[s], Settings.window, Settings.max, clock, s = "redis")
        /\ counted[s] \in Seq(Nat) /\ counts[s] \in [n : Nat, until : Int] /\ clock \in Nat
    BY DEF Inv, Counters, Windows, Shape
  <2> QED BY <2>1, CounterAges
<1>5. Refusals'
  BY <1>1, <1>2 DEF Inv, Counters, Refusals
<1>6. Waits'
  BY <1>1, WaitsStay DEF Inv
<1> QED BY <1>3, <1>4, <1>5, <1>6 DEF Inv, Counters

\* The same settings are as valid after a step.
LEMMA ValidIsStable ==
  ASSUME Settings' = Settings
  PROVE  Validate(Settings)' <=> Validate(Settings)
BY DEF Validate

LEMMA StepBoot ==
  ASSUME Inv, NEW p \in Pods, Boot(p) PROVE Inv'
<1>1. /\ Validate(Settings) /\ conf' = [conf EXCEPT ![p] = Settings] /\ conf[p] = Off
      /\ store' \in {[store EXCEPT ![p] = "redis"], [store EXCEPT ![p] = p]}
      /\ UNCHANGED <<inputs, counts, clock, counted, refused, waiting>>
  BY DEF Boot, logs
<1>2. file' = file /\ env' = env /\ Settings' = Settings
  BY <1>1, SettingsStay
<1>3. Shape'
  <2>1. conf' \in [Pods -> {Off, Settings}]
    BY <1>1 DEF Inv, Counters, Shape
  <2>2. store' \in [Pods -> Stores] /\ \A q \in Pods : store'[q] \in {q, "redis"}
    <3>1. store \in [Pods -> Stores] /\ (\A q \in Pods : store[q] \in {q, "redis"})
      BY DEF Inv, Counters, Shape
    <3>2. p \in Stores /\ "redis" \in Stores
      BY DEF Stores
    <3>3. CASE store' = [store EXCEPT ![p] = "redis"]
      BY <3>1, <3>2, <3>3
    <3>4. CASE store' = [store EXCEPT ![p] = p]
      BY <3>1, <3>2, <3>4
    <3> QED BY <1>1, <3>3, <3>4
  <2>3. \A q \in Pods : conf'[q] # Off => Validate(Settings)
    BY <1>1
  <2>4. \A q \in Pods : conf'[q] # Off => Validate(Settings)'
    BY <1>2, <2>3, ValidIsStable
  <2> QED BY <1>1, <1>2, <2>1, <2>2, <2>4 DEF Inv, Counters, Shape
<1>4. Waits'
  BY <1>1, <1>2 DEF Inv, Counters, Shape, Waits, Held
<1> QED BY <1>1, <1>3, <1>4, CountersStay DEF Inv, Counters

LEMMA StepKilled ==
  ASSUME Inv, NEW p \in Pods, Killed(p) PROVE Inv'
<1>1. /\ conf' = [conf EXCEPT ![p] = Off] /\ store' = store /\ clock' = clock
      /\ counts' = [counts EXCEPT ![p] = None] /\ counted' = [counted EXCEPT ![p] = << >>]
      /\ refused' = IF refused.by = p THEN [by |-> "none", at |-> 0] ELSE refused
      /\ waiting' = [h \in Handlers |-> IF waiting[h] # Off /\ waiting[h].pod = p THEN Off ELSE waiting[h]]
      /\ UNCHANGED inputs
  BY DEF Killed
<1>2. file' = file /\ env' = env /\ Settings' = Settings /\ Limiting' = Limiting
  BY <1>1, SettingsStay
<1>3. None \in [n : Nat, until : Int] /\ << >> \in Seq(Nat)
  BY DEF None
<1>4. Shape'
  BY <1>1, <1>2, <1>3 DEF Inv, Counters, Shape
<1>5. /\ \A s \in Stores \ {p} : counts'[s] = counts[s] /\ counted'[s] = counted[s]
      /\ counts'[p] = None /\ counted'[p] = << >>
  BY <1>1 DEF Inv, Counters, Shape, Stores
<1>6. Windows'
  <2> SUFFICES ASSUME NEW s \in Stores
               PROVE  \/ counts'[s] = None /\ counted'[s] = << >>
                      \/ Limiting /\ Counter(counted'[s], counts'[s], Settings.window, Settings.max, clock, s = "redis")
    BY <1>1, <1>2 DEF Windows, Unused
  <2> QED BY <1>5 DEF Inv, Counters, Windows, Unused
<1>7. Refusals'
  <2>1. CASE refused.by = p
    BY <1>1, <2>1 DEF Refusals
  <2>2. CASE refused.by # p
    BY <1>1, <1>2, <1>5, <2>2 DEF Inv, Counters, Refusals, Shape
  <2> QED BY <2>1, <2>2
<1>8. Waits'
  <2>1. waiting' \in [Handlers -> {Off} \cup Held]
    BY <1>1 DEF Inv, Waits
  <2>2. ASSUME NEW h \in Handlers, waiting'[h] # Off PROVE conf'[waiting'[h].pod] # Off /\ Settings.limit
    <3>1. waiting'[h] = waiting[h] /\ waiting[h] \in Held /\ waiting[h].pod # p
      BY <1>1, <2>2 DEF Inv, Waits
    <3>2. waiting[h].pod \in Pods /\ conf[waiting[h].pod] # Off /\ Settings.limit
      BY <2>2, <3>1 DEF Inv, Waits, Held
    <3> QED BY <1>1, <3>1, <3>2 DEF Inv, Counters, Shape
  <2> QED BY <1>2, <2>1, <2>2 DEF Waits
<1> QED BY <1>4, <1>6, <1>7, <1>8 DEF Inv, Counters

\* What the store answers, and what becomes of its counter.
LEMMA HitCounts ==
  ASSUME Counters, Limiting, NEW s \in Stores, NEW c, c = Incr(s, Settings.window)
  PROVE  LET w == Settings.window
             m == Settings.max
         IN  /\ c \in [n : Nat, until : Int]
             /\ c.n <= m => Counter(Append(counted[s], clock), c, w, m, clock, s = "redis")
             /\ c.n > m => /\ Counter(counted[s], c, w, m, clock, s = "redis")
                          /\ Number(counted[s], clock - w, clock) >= m
<1> DEFINE w == Settings.window
           m == Settings.max
           redis == s = "redis"
<1>1. w \in Int /\ w > 0 /\ m \in Int /\ m >= 1
  BY LimitIsPositive DEF Counters, Shape
<1>2. counted[s] \in Seq(Nat) /\ counts[s] \in [n : Nat, until : Int] /\ clock \in Nat /\ redis \in BOOLEAN
  BY DEF Counters, Shape
<1>3. Unused(s) \/ Counter(counted[s], counts[s], w, m, clock, redis)
  BY DEF Counters, Windows
<1>4. c = IF Live(s) THEN [counts[s] EXCEPT !.n = @ + 1] ELSE [n |-> 1, until |-> clock + w]
  BY DEF Incr
<1>5. CASE Live(s)
  <2>1. Counter(counted[s], counts[s], w, m, clock, redis) /\ (IF redis THEN clock < counts[s].until ELSE clock <= counts[s].until)
    BY <1>3, <1>5 DEF Live, Unused
  <2>2. c \in [n : Nat, until : Int] /\ c.n = counts[s].n + 1 /\ c.until = counts[s].until
    BY <1>2, <1>4, <1>5
  <2> HIDE DEF w, m, redis
  <2>3. c.n <= m => Counter(Append(counted[s], clock), c, w, m, clock, redis)
    BY <1>2, <2>1, <2>2, CounterCounts
  <2>4. c.n > m => Counter(counted[s], c, w, m, clock, redis) /\ Number(counted[s], clock - w, clock) >= m
    BY <1>2, <2>1, <2>2, CounterRefuses
  <2> QED BY <2>2, <2>3, <2>4 DEF w, m, redis
<1>6. CASE ~Live(s)
  <2>1. \/ counted[s] = << >>
        \/ /\ Counter(counted[s], counts[s], w, m, clock, redis)
           /\ IF redis THEN clock >= counts[s].until ELSE clock > counts[s].until
    <3>1. CASE Unused(s)
      BY <3>1 DEF Unused
    <3>2. CASE ~Unused(s)
      <4>1. Counter(counted[s], counts[s], w, m, clock, redis) /\ counts[s].n >= 1
        BY <1>3, <3>2 DEF Counter, Window
      <4>2. counts[s] # None
        BY <4>1 DEF None
      <4>3. ~(IF redis THEN clock < counts[s].until ELSE clock <= counts[s].until)
        BY <1>6, <4>2 DEF Live
      <4> QED BY <1>2, <4>1, <4>3
    <3> QED BY <3>1, <3>2
  <2>2. c = [n |-> 1, until |-> clock + w]
    BY <1>4, <1>6
  <2>3. c \in [n : Nat, until : Int] /\ c.n = 1
    BY <1>1, <1>2, <2>2
  <2> HIDE DEF w, m, redis
  <2>4. Counter(Append(counted[s], clock), c, w, m, clock, redis)
    BY <1>1, <1>2, <2>1, <2>2, CounterOpens
  <2>5. ~(c.n > m)
    BY <1>1, <2>3
  <2> QED BY <2>3, <2>4, <2>5 DEF w, m, redis
<1> QED BY <1>5, <1>6

LEMMA HitKeeps ==
  ASSUME Counters, Limiting, NEW p \in Pods, conf[p] = Settings, NEW s \in Stores, NEW heard \in BOOLEAN,
         NEW c, c = Incr(s, Settings.window), Hit(p, s, c, heard),
         UNCHANGED <<inputs, conf, store, clock>>,
         refused' = refused \/ (~Passes(conf[p], c.n) /\ refused' = [by |-> s, at |-> clock])
  PROVE  Counters'
<1> DEFINE w == Settings.window
           m == Settings.max
<1>1. conf' = conf /\ store' = store /\ clock' = clock
  OBVIOUS
<1>2. file' = file /\ env' = env /\ Settings' = Settings /\ Limiting' = Limiting
  BY SettingsStay
<1>3. /\ counts' = [counts EXCEPT ![s] = c]
      /\ c.n <= m => counted' = [counted EXCEPT ![s] = Append(@, clock)]
      /\ ~(c.n <= m) => counted' = counted
      /\ refused' = refused \/ (~(c.n <= m) /\ refused' = [by |-> s, at |-> clock])
  BY DEF Hit, Passes
<1>4. /\ c \in [n : Nat, until : Int]
      /\ c.n <= m => Counter(Append(counted[s], clock), c, w, m, clock, s = "redis")
      /\ c.n > m => /\ Counter(counted[s], c, w, m, clock, s = "redis")
                   /\ Number(counted[s], clock - w, clock) >= m
  BY HitCounts
<1>5. w \in Int /\ m \in Int /\ clock \in Nat /\ counted \in [Stores -> Seq(Nat)]
      /\ counts \in [Stores -> [n : Nat, until : Int]]
  BY LimitIsPositive DEF Counters, Shape
<1>6. /\ \A r \in Stores \ {s} : counted'[r] = counted[r]
      /\ Counter(counted'[s], c, w, m, clock, s = "redis")
      /\ \A r \in Stores : counted'[r] = counted[r] \/ counted'[r] = Append(counted[r], clock)
      /\ counted' \in [Stores -> Seq(Nat)]
  <2> HIDE DEF w, m
  <2>1. CASE c.n <= m
    <3>1. Append(counted[s], clock) \in Seq(Nat)
      BY <1>5
    <3>2. counted' = [counted EXCEPT ![s] = Append(counted[s], clock)]
      BY <1>3, <2>1
    <3>3. counted'[s] = Append(counted[s], clock) /\ \A r \in Stores \ {s} : counted'[r] = counted[r]
      BY <1>5, <3>2
    <3>4. counted' \in [Stores -> Seq(Nat)]
      BY <1>5, <3>1, <3>2
    <3> QED BY <1>4, <2>1, <3>3, <3>4
  <2>2. CASE ~(c.n <= m)
    <3>1. c.n > m /\ counted' = counted
      BY <1>3, <1>4, <1>5, <2>2
    <3> QED BY <1>4, <1>5, <3>1
  <2> QED BY <2>1, <2>2
<1>7. counts'[s] = c /\ \A r \in Stores \ {s} : counts'[r] = counts[r]
  BY <1>3, <1>5
<1>8. Shape'
  <2>1. counts' \in [Stores -> [n : Nat, until : Int]]
    BY <1>3, <1>4, <1>5
  <2>2. refused' \in [by : Stores \cup {"none"}, at : Nat]
    BY <1>3, <1>5 DEF Counters, Shape
  <2> QED BY <1>1, <1>2, <1>6, <2>1, <2>2 DEF Counters, Shape
<1>9. Windows'
  <2> SUFFICES ASSUME NEW r \in Stores
               PROVE  \/ counts'[r] = None /\ counted'[r] = << >>
                      \/ Limiting /\ Counter(counted'[r], counts'[r], w, m, clock, r = "redis")
    BY <1>1, <1>2 DEF Windows, Unused
  <2>1. CASE r = s
    BY <1>6, <1>7, <2>1
  <2>2. CASE r # s
    BY <1>6, <1>7, <2>2 DEF Counters, Windows, Unused
  <2> QED BY <2>1, <2>2
<1>10. Refusals'
  <2> SUFFICES Number(counted'[refused'.by], refused'.at - w, refused'.at) >= m \/ refused'.by = "none"
    BY <1>2 DEF Refusals
  <2>1. CASE ~(c.n <= m) /\ refused' = [by |-> s, at |-> clock]
    BY <1>3, <1>4, <1>5, <2>1
  <2>2. CASE refused' = refused /\ refused.by # "none"
    <3> DEFINE r  == refused.by
               at == refused.at
               lo == at - w
    <3>1. refused' = refused /\ r \in Stores /\ at \in Int /\ lo \in Int /\ Number(counted[r], lo, at) >= m
      BY <1>5, <2>2 DEF Counters, Shape, Refusals
    <3>2. counted[r] \in Seq(Nat)
      BY <1>5, <3>1
    <3>3. counted'[r] = counted[r] \/ counted'[r] = Append(counted[r], clock)
      BY <1>6, <3>1
    <3> HIDE DEF r, at, lo
    <3>4. Number(counted[r], lo, at) \in Nat
      BY <3>1, <3>2, NumberIs
    <3>5. Number(Append(counted[r], clock), lo, at) >= Number(counted[r], lo, at)
      <4>1. clock \in Nat
        BY <1>5
      <4> QED BY <3>1, <3>2, <3>4, <4>1, NumberOfAppend
    <3>6. Number(counted'[r], lo, at) >= m
      <4>1. CASE counted'[r] = counted[r]
        BY <3>1, <4>1
      <4>2. CASE counted'[r] = Append(counted[r], clock)
        <5>1. Append(counted[r], clock) \in Seq(Nat)
          BY <1>5, <3>2
        <5>2. Number(Append(counted[r], clock), lo, at) \in Nat
          BY <3>1, <5>1, NumberIs
        <5>3. Number(Append(counted[r], clock), lo, at) >= m
          BY <1>5, <3>1, <3>4, <3>5, <5>2
        <5> QED BY <4>2, <5>3
      <4> QED BY <3>3, <4>1, <4>2
    <3> QED BY <3>1, <3>6 DEF r, at, lo
  <2>3. CASE refused' = refused /\ refused.by = "none"
    BY <2>3
  <2> QED BY <1>3, <2>1, <2>2, <2>3
<1> QED BY <1>8, <1>9, <1>10 DEF Counters

\* The settings of an instance that runs are those that every one runs with.
LEMMA RunsWithSettings ==
  ASSUME Counters, NEW p \in Pods, conf[p] # Off
  PROVE  conf[p] = Settings /\ Validate(Settings) /\ store[p] \in Stores
BY DEF Counters, Shape

LEMMA StepAnswered ==
  ASSUME Counters, NEW p \in Pods, NEW presented, conf[p] # Off, Settings.limit,
         Answered(p, presented), UNCHANGED <<inputs, conf, store, clock>>
  PROVE  Counters'
<1>1. conf[p] = Settings /\ Limiting /\ store[p] \in Stores
  BY RunsWithSettings DEF Limiting
<1> DEFINE s == store[p]
           c == Incr(s, Settings.window)
<1>2. Hit(p, s, c, TRUE) /\ (refused' = refused \/ (~Passes(conf[p], c.n) /\ refused' = [by |-> s, at |-> clock]))
  BY <1>1 DEF Answered
<1> HIDE DEF s, c
<1> QED BY <1>1, <1>2, HitKeeps DEF s, c

LEMMA StepUnanswered ==
  ASSUME Counters, NEW p \in Pods, conf[p] # Off, Settings.limit,
         Unanswered(p), UNCHANGED <<inputs, conf, store, clock>>
  PROVE  Counters'
<1>1. conf[p] = Settings /\ Limiting /\ "redis" \in Stores
  BY RunsWithSettings DEF Limiting, Stores
<1> DEFINE c == Incr("redis", Settings.window)
<1>2. refused' = refused /\ (Hit(p, "redis", c, FALSE) \/ UNCHANGED <<counts, counted>>)
  BY <1>1 DEF Unanswered
<1>3. CASE Hit(p, "redis", c, FALSE)
  <2> HIDE DEF c
  <2> QED BY <1>1, <1>2, <1>3, HitKeeps DEF c
<1>4. CASE UNCHANGED <<counts, counted>>
  BY <1>2, <1>4, AllStay
<1> QED BY <1>2, <1>3, <1>4

LEMMA StepRequest ==
  ASSUME Inv, NEW p \in Pods, NEW presented \in Keys, Request(p, presented) PROVE Inv'
<1>1. conf[p] # Off /\ UNCHANGED <<inputs, conf, store, clock, waiting>>
  BY DEF Request
<1>2. conf[p] = Settings
  BY <1>1, RunsWithSettings DEF Inv
<1>3. IF conf[p].limit THEN Answered(p, presented) ELSE Handle(p, presented) /\ UNCHANGED <<counts, logs>>
  BY Zenon DEF Request
<1>4. ASSUME Settings.limit PROVE Counters'
  <2>1. Answered(p, presented)
    BY <1>2, <1>3, <1>4, Zenon
  <2>2. UNCHANGED <<inputs, conf, store, clock>> /\ Counters
    BY <1>1 DEF Inv
  <2> QED BY <1>1, <1>4, <2>1, <2>2, StepAnswered, Zenon
<1>5. ASSUME ~Settings.limit PROVE Counters'
  <2>1. UNCHANGED <<counts, logs>>
    BY <1>2, <1>3, <1>5, Zenon
  <2>2. UNCHANGED <<inputs, conf, store, counts, clock, counted, refused>>
    BY <1>1, <2>1 DEF logs
  <2> QED BY <2>2, AllStay DEF Inv
<1> QED BY <1>1, <1>4, <1>5, WaitsStay DEF Inv

LEMMA StepRequestFails ==
  ASSUME Inv, NEW h \in Handlers, NEW p \in Pods, NEW presented \in Keys, RequestFails(h, p, presented) PROVE Inv'
<1>1. /\ conf[p] # Off /\ conf[p].limit /\ Unanswered(p) /\ UNCHANGED <<inputs, conf, store, clock>>
      /\ waiting' = [waiting EXCEPT ![h] = [pod |-> p, key |-> presented, left |-> MaxRetries]]
  BY DEF RequestFails
<1>2. conf[p] = Settings
  BY <1>1, RunsWithSettings DEF Inv
<1>3. Counters'
  BY <1>1, <1>2, StepUnanswered DEF Inv
<1>4. Waits'
  <2>1. [pod |-> p, key |-> presented, left |-> MaxRetries] \in Held
    BY FrontDoorAssumption DEF FrontDoorAssumption, Held
  <2>2. Settings' = Settings
    BY <1>1, SettingsStay
  <2>3. waiting' \in [Handlers -> {Off} \cup Held]
    BY <1>1, <2>1 DEF Inv, Waits
  <2>4. ASSUME NEW g \in Handlers, waiting'[g] # Off PROVE conf[waiting'[g].pod] # Off /\ Settings.limit
    BY <1>1, <1>2, <2>4 DEF Inv, Waits
  <2> QED BY <1>1, <2>2, <2>3, <2>4 DEF Waits
<1> QED BY <1>3, <1>4 DEF Inv

\* A request that is held belongs to an instance that runs and limits.
LEMMA HeldRuns ==
  ASSUME Inv, NEW h \in Handlers, waiting[h] # Off
  PROVE  waiting[h] \in Held /\ waiting[h].pod \in Pods /\ conf[waiting[h].pod] # Off /\ Settings.limit
BY DEF Inv, Waits, Held

LEMMA HandlerDone ==
  ASSUME Waits, NEW h \in Handlers, waiting' = [waiting EXCEPT ![h] = Off], UNCHANGED <<inputs, conf>>
  PROVE  Waits'
<1>1. Settings' = Settings /\ conf' = conf
  BY SettingsStay
<1>2. waiting' \in [Handlers -> {Off} \cup Held]
  BY DEF Waits
<1>3. \A g \in Handlers : waiting'[g] # Off => waiting'[g] = waiting[g] /\ waiting[g] # Off
  BY DEF Waits
<1> QED BY <1>1, <1>2, <1>3 DEF Waits

LEMMA StepRetry ==
  ASSUME Inv, NEW h \in Handlers, Retry(h) PROVE Inv'
<1>1. /\ waiting[h] # Off /\ Answered(waiting[h].pod, waiting[h].key)
      /\ waiting' = [waiting EXCEPT ![h] = Off] /\ UNCHANGED <<inputs, conf, store, clock>>
  BY DEF Retry
<1>2. Counters'
  BY <1>1, HeldRuns, StepAnswered DEF Inv
<1> QED BY <1>1, <1>2, HandlerDone DEF Inv

LEMMA StepRetryFails ==
  ASSUME Inv, NEW h \in Handlers, RetryFails(h) PROVE Inv'
<1>1. /\ waiting[h] # Off /\ waiting[h].left > 0 /\ Unanswered(waiting[h].pod)
      /\ waiting' = [waiting EXCEPT ![h].left = @ - 1] /\ UNCHANGED <<inputs, conf, store, clock>>
  BY DEF RetryFails
<1>2. Counters'
  BY <1>1, HeldRuns, StepUnanswered DEF Inv
<1>3. Waits'
  <2>1. waiting[h] \in Held /\ conf[waiting[h].pod] # Off /\ Settings.limit
    BY <1>1, HeldRuns
  <2>2. [waiting[h] EXCEPT !.left = @ - 1] \in Held /\ [waiting[h] EXCEPT !.left = @ - 1].pod = waiting[h].pod
    BY <1>1, <2>1 DEF Held
  <2>3. waiting' \in [Handlers -> {Off} \cup Held]
    BY <1>1, <2>2 DEF Inv, Waits
  <2>4. ASSUME NEW g \in Handlers, waiting'[g] # Off PROVE conf[waiting'[g].pod] # Off /\ Settings.limit
    <3>1. CASE g = h
      BY <1>1, <2>1, <2>2, <3>1 DEF Inv, Waits
    <3>2. CASE g # h
      BY <1>1, <2>4, <3>2 DEF Inv, Waits
    <3> QED BY <3>1, <3>2
  <2>5. Settings' = Settings
    BY <1>1, SettingsStay
  <2> QED BY <1>1, <2>3, <2>4, <2>5 DEF Waits
<1> QED BY <1>2, <1>3 DEF Inv

LEMMA StepFailOpen ==
  ASSUME Inv, NEW h \in Handlers, FailOpen(h) PROVE Inv'
<1>1. waiting' = [waiting EXCEPT ![h] = Off] /\ UNCHANGED <<inputs, conf, store, counts, clock, counted, refused>>
  BY DEF FailOpen, logs
<1> QED BY <1>1, AllStay, HandlerDone DEF Inv

\* A step of the system, or of its environment.
LEMMA InvNext == Inv /\ [Next]_vars => Inv'
<1> SUFFICES ASSUME Inv, [Next]_vars PROVE Inv'
  OBVIOUS
<1>1. ASSUME Redis \/ UNCHANGED vars PROVE Inv'
  <2>1. UNCHANGED <<inputs, conf, store, counts, clock, counted, refused, waiting>>
    BY <1>1 DEF Redis, vars, logs
  <2> QED BY <2>1, AllStay, WaitsStay DEF Inv
<1> QED BY <1>1, StepBoot, StepKilled, StepRequest, StepRequestFails, StepRetry, StepRetryFails, StepFailOpen,
           StepTick DEF Next

\* The counters are what the invariant says.
THEOREM AlwaysInv == Spec => []Inv
<1> QED BY InvInit, InvNext, PTL DEF Spec

-----------------------------------------------------------------------------
(* The limiter.                                                            *)

\* The hits of a stretch are those that were answered and those that were not.
LEMMA HitsAre ==
  ASSUME Inv, NEW s \in Stores, NEW a \in Int, NEW b \in Int
  PROVE  HitsIn(s, a, b) = Number(counted[s], a, b)
<1> DEFINE W == Within(counted[s], a, b)
           U == Unheard(s)
<1>1. IsFiniteSet(W)
  BY NumberIs DEF Inv, Counters, Shape
<1>2. HitsIn(s, a, b) = Cardinality(W \ U) + Cardinality(W \cap U) /\ Number(counted[s], a, b) = Cardinality(W)
  BY DEF HitsIn, AdmittedIn, LostIn, Number
<1> HIDE DEF W, U
<1>3. IsFiniteSet(W \ U) /\ IsFiniteSet(W \cap U) /\ (W \ U) \cup (W \cap U) = W /\ (W \ U) \cap (W \cap U) = {}
  BY <1>1, FS_Subset
<1>4. Cardinality(W) = Cardinality(W \ U) + Cardinality(W \cap U) - Cardinality((W \ U) \cap (W \cap U))
  BY <1>3, FS_Union
<1>5. Cardinality((W \ U) \cap (W \cap U)) = 0
  BY <1>3, FS_EmptySet
<1>6. Cardinality(W \ U) \in Nat /\ Cardinality(W \cap U) \in Nat
  BY <1>3, FS_CardinalityType
<1> QED BY <1>2, <1>4, <1>5, <1>6

\* BurstBound: in any stretch as long as the window a store finds less than twice
\* the limit within it (memRateStore.Incr, rateLimitScript), for any number of
\* instances that count in it, any limit and any window.
THEOREM BurstsAreBounded == Spec => []BurstBound
<1>1. Inv => BurstBound
  <2> SUFFICES ASSUME Inv, Limiting, NEW s \in Stores, NEW t \in 0 .. MaxClock
               PROVE  HitsIn(s, t, t + Settings.window - 1) < 2 * Settings.max
    BY DEF BurstBound, Limiting
  <2> DEFINE end == t + Settings.window - 1
  <2>2. Settings.max \in Int /\ Settings.max >= 1 /\ Settings.window \in Int
    BY LimitIsPositive DEF Inv, Counters, Shape
  <2>3. Number(counted[s], t, end) < 2 * Settings.max
    <3>1. CASE Unused(s)
      <4>1. Within(counted[s], t, end) = {}
        BY <3>1 DEF Unused, Within
      <4>2. Number(counted[s], t, end) = 0
        BY <4>1, FS_EmptySet DEF Number
      <4> QED BY <2>2, <4>2
    <3>2. CASE ~Unused(s)
      BY <3>2 DEF Inv, Counters, Windows, Counter, Burst
    <3> QED BY <3>1, <3>2
  <2>4. end \in Int /\ t \in Int
    BY <2>2
  <2> HIDE DEF end
  <2>5. HitsIn(s, t, end) = Number(counted[s], t, end)
    BY <2>4, HitsAre
  <2> QED BY <2>3, <2>5 DEF end
<1> QED BY <1>1, AlwaysInv, PTL

\* RefusedForCause: behind a refusal are as many hits as the limit allows, within
\* the last window, each of which let a request through or got no answer in time
\* (RateLimiter; PEXPIRE on the first hit only; attempts that are sent again).
THEOREM RefusalsHaveCause == Spec => []RefusedForCause
<1>1. Inv => RefusedForCause
  <2> SUFFICES ASSUME Inv, refused.by # "none"
               PROVE  LET from == refused.at - Settings.window
                      IN  HitsIn(refused.by, from, refused.at) >= Settings.max
    BY DEF RefusedForCause
  <2> DEFINE from == refused.at - Settings.window
  <2>1. Limiting /\ Number(counted[refused.by], from, refused.at) >= Settings.max
    BY DEF Inv, Counters, Refusals
  <2>2. refused.by \in Stores /\ refused.at \in Int /\ from \in Int
    BY <2>1, LimitIsPositive DEF Inv, Counters, Shape
  <2> HIDE DEF from
  <2>3. HitsIn(refused.by, from, refused.at) = Number(counted[refused.by], from, refused.at)
    BY <2>2, HitsAre
  <2> QED BY <2>1, <2>3 DEF from
<1> QED BY <1>1, AlwaysInv, PTL

-----------------------------------------------------------------------------
(* The keys.                                                               *)

\* Positions have a last one.
LEMMA MaxIsElement ==
  ASSUME NEW n \in Nat, NEW S \in SUBSET (1 .. n), S # {}
  PROVE  Max(S) \in S
<1> DEFINE Lower == {p \in Nat \X Nat : p[1] < p[2]}
           T     == {n - k : k \in S}
<1>1. IsWellFoundedOn(Lower, Nat)
  <2>1. OpToRel(<, Nat) = Lower
    BY DEF OpToRel
  <2> QED BY <2>1, NatLessThanWellFounded
<1>2. T \subseteq Nat /\ T # {}
  OBVIOUS
<1> HIDE DEF T
<1>3. PICK x \in T : \A y \in T : <<y, x>> \notin Lower
  BY <1>1, <1>2, WFMin
<1>4. ASSUME NEW y \in T PROVE x <= y
  <2>1. <<y, x>> \in Nat \X Nat /\ <<y, x>>[1] = y /\ <<y, x>>[2] = x
    BY <1>2
  <2>2. ~(y < x)
    BY <1>3, <2>1
  <2> QED BY <1>2, <2>2
<1>5. PICK k \in S : x = n - k
  BY <1>3 DEF T
<1>6. \A j \in S : k >= j
  <2> SUFFICES ASSUME NEW j \in S PROVE k >= j
    OBVIOUS
  <2>1. n - j \in T
    BY DEF T
  <2>2. n - k <= n - j
    BY <1>4, <1>5, <2>1
  <2> QED BY <2>2
<1> QED BY <1>6 DEF Max

RawTenants == IF "tenants" \in DOMAIN env THEN env.tenants ELSE file.tenants

\* What is in force of the keys and groups that are written.
LEMMA KeysInForce ==
  ASSUME file \in Files, env \in Envs, Validate(Settings), Settings.auth
  PROVE  LET c == Settings
         IN  /\ RawTenants \in Seq([id : STRING, keys : SUBSET Keys])
             /\ c.apiKeys \subseteq FlatKeys /\ c.apiKeys \subseteq Keys
             /\ DOMAIN c.tenants \subseteq 1 .. Len(RawTenants)
             /\ \A k \in DOMAIN c.tenants :
                  c.tenants[k].id = RawTenants[k].id /\ c.tenants[k].keys \subseteq RawTenants[k].keys
             /\ \A k \in DOMAIN RawTenants : \A key \in RawTenants[k].keys \ {<<>>} :
                  RawTenants[k].id # "" => k \in DOMAIN c.tenants /\ key \in c.tenants[k].keys
<1> DEFINE raw == RawTenants
<1>1. "apiKeys" \in AllSettings /\ "tenants" \in AllSettings
  BY DEF AllSettings, Lists
<1>2. \A s \in {"apiKeys", "tenants"} : s \notin Flags /\ s \notin Texts /\ s \notin Numbers /\ s \in Lists
  BY DEF Flags, Texts, Required, Credential, Numbers, Lists
<1>3. \A s \in {"apiKeys", "tenants"} : \A old, val : Override(s, old, val) = Parsed(s, val)
  <2> SUFFICES ASSUME NEW s \in {"apiKeys", "tenants"}, NEW old, NEW val
               PROVE  Override(s, old, val) = Parsed(s, val)
    OBVIOUS
  <2>1. ~Ignored(s, val)
    BY DEF Ignored
  <2> QED BY <1>2, <2>1 DEF Override
<1>4. raw \in Seq([id : STRING, keys : SUBSET Keys])
  BY FrontDoorAssumption, <1>1 DEF FrontDoorAssumption, AllSettings, RawTenants
<1>5. FlatKeys \subseteq Keys
  BY FrontDoorAssumption, <1>1 DEF FrontDoorAssumption, AllSettings, FlatKeys
<1>6. Settings["apiKeys"] \subseteq FlatKeys
  <2>1. CASE "apiKeys" \in DOMAIN env
    <3>1. Settings["apiKeys"] = Parsed("apiKeys", env["apiKeys"]) /\ FlatKeys = env["apiKeys"]
      BY <1>1, <1>3, <2>1, SettingsAre DEF FlatKeys
    <3> QED BY <3>1 DEF Parsed, splitAndTrim
  <2>2. CASE "apiKeys" \notin DOMAIN env
    BY <1>1, <2>2, SettingsAre DEF FlatKeys
  <2> QED BY <2>1, <2>2
<1> DEFINE ts == Settings["tenants"]
<1>7. /\ DOMAIN ts \subseteq 1 .. Len(raw)
      /\ \A k \in DOMAIN ts : ts[k].id = raw[k].id /\ ts[k].keys \subseteq raw[k].keys
      /\ \A k \in DOMAIN raw : \A key \in raw[k].keys \ {<<>>} :
           raw[k].id # "" => k \in DOMAIN ts /\ key \in ts[k].keys
  <2>1. DOMAIN raw = 1 .. Len(raw)
    BY <1>4
  <2>2. CASE "tenants" \in DOMAIN env
    <3>1. ts = parseTenants(raw)
      BY <1>1, <1>3, <2>2, SettingsAre DEF RawTenants, Parsed
    <3> HIDE DEF ts, raw
    <3> QED BY <2>1, <3>1 DEF parseTenants, splitAndTrim
  <2>3. CASE "tenants" \notin DOMAIN env
    <3>1. ts = raw
      BY <1>1, <2>3, SettingsAre DEF RawTenants
    <3> HIDE DEF ts, raw
    <3> QED BY <2>1, <3>1
  <2> QED BY <2>2, <2>3
<1> QED BY <1>4, <1>5, <1>6, <1>7

LEMMA GroupsAre ==
  ASSUME NEW q \in Seq([id : STRING, keys : SUBSET Keys])
  PROVE  Len(q) \in Nat /\ DOMAIN q = 1 .. Len(q) /\ \A k \in 1 .. Len(q) : q[k].keys \subseteq Keys
<1> DEFINE R == [id : STRING, keys : SUBSET Keys]
<1>1. q \in Seq(R) /\ \A group \in R : group.keys \subseteq Keys
  OBVIOUS
<1> HIDE DEF R
<1>2. Len(q) \in Nat /\ DOMAIN q = 1 .. Len(q) /\ \A k \in 1 .. Len(q) : q[k] \in R
  BY <1>1
<1> QED BY <1>1, <1>2

\* A tenant that is found for a presented key has that key written for it.
LEMMA TenantIsWritten ==
  ASSUME file \in Files, env \in Envs, Validate(Settings), Settings.auth,
         NEW presented, NEW tenant \in APIKeyAuth(Settings, presented)
  PROVE  \E k \in Secrets : presented = <<k>> /\ {<<k>>, <<"sha256", k>>} \cap WrittenFor(tenant) # {}
<1> DEFINE c   == Settings
           raw == RawTenants
<1>1. /\ raw \in Seq([id : STRING, keys : SUBSET Keys])
      /\ c.apiKeys \subseteq FlatKeys /\ c.apiKeys \subseteq Keys
      /\ DOMAIN c.tenants \subseteq 1 .. Len(raw)
      /\ \A k \in DOMAIN c.tenants : c.tenants[k].id = raw[k].id /\ c.tenants[k].keys \subseteq raw[k].keys
      /\ \A k \in DOMAIN raw : \A key \in raw[k].keys \ {<<>>} :
           raw[k].id # "" => k \in DOMAIN c.tenants /\ key \in c.tenants[k].keys
  BY KeysInForce
<1>2. presented # <<>> /\ tenant \in matchAPIKey(presented, KeyToTenant(c))
  BY DEF APIKeyAuth
<1>3. PICK key \in AllKeys(c) : tenant = KeyToTenant(c)[key] /\ Equal(presented, key)
  BY <1>2 DEF matchAPIKey, KeyToTenant
<1>4. tenant = IF Writers(c, key) = {} THEN "default" ELSE c.tenants[Max(Writers(c, key))].id
  BY <1>3 DEF KeyToTenant
<1> HIDE DEF c, raw
<1>8. Len(raw) \in Nat /\ DOMAIN raw = 1 .. Len(raw) /\ \A k \in 1 .. Len(raw) : raw[k].keys \subseteq Keys
  <2>1. raw \in Seq([id : STRING, keys : SUBSET Keys])
    BY <1>1
  <2> QED BY <2>1, GroupsAre
<1>5. key \in Keys
  <2>1. key \in c.apiKeys \/ \E k \in DOMAIN c.tenants : key \in c.tenants[k].keys
    BY <1>3 DEF AllKeys
  <2>2. ASSUME NEW k \in DOMAIN c.tenants PROVE c.tenants[k].keys \subseteq Keys
    <3>1. k \in 1 .. Len(raw)
      BY <1>1
    <3>2. raw[k].keys \subseteq Keys
      BY <1>8, <3>1
    <3> QED BY <1>1, <3>2
  <2> QED BY <1>1, <2>1, <2>2
\* A blank key would be matched by nothing only; a hash matches its preimage.
<1>6. key # <<>> /\ \E k \in Secrets : presented = <<k>> /\ key \in {<<k>>, <<"sha256", k>>}
  <2>1. CASE key = <<>>
    <3>1. Len(key) # 2
      BY <2>1
    <3> QED BY <1>2, <1>3, <2>1, <3>1 DEF Equal
  <2>2. ASSUME NEW k \in Secrets, key = <<k>> PROVE presented = <<k>> /\ key # <<>>
    <3>1. Len(key) # 2 /\ key # <<>>
      BY <2>2
    <3> QED BY <1>3, <2>2, <3>1 DEF Equal
  <2>3. ASSUME NEW k \in Secrets, key = <<"sha256", k>> PROVE presented = <<k>> /\ key # <<>>
    <3>1. Len(key) = 2 /\ key[2] = k /\ key # <<>>
      BY <2>3
    <3> QED BY <1>3, <3>1 DEF Equal
  <2> QED BY <1>5, <2>1, <2>2, <2>3 DEF Keys
\* The last group that has the key, or the flat list if none has.
<1>7. key \in WrittenFor(tenant)
  <2>1. DOMAIN raw = 1 .. Len(raw) /\ \A k \in DOMAIN raw : raw[k] \in TenantGroups
    BY <1>8 DEF TenantGroups, RawTenants, raw, Range
  <2>2. \A g \in TenantGroups : \E k \in DOMAIN raw : g = raw[k]
    BY DEF TenantGroups, RawTenants, raw, Range
  <2>3. CASE Writers(c, key) # {}
    <3>1. Writers(c, key) \subseteq 1 .. Len(raw) /\ Len(raw) \in Nat
      <4>1. DOMAIN c.tenants \subseteq 1 .. Len(raw)
        BY <1>1
      <4> QED BY <1>8, <4>1 DEF Writers
    <3> DEFINE k == Max(Writers(c, key))
    <3>2. k \in Writers(c, key)
      BY <2>3, <3>1, MaxIsElement
    <3>3. tenant = c.tenants[k].id
      BY <1>4, <2>3
    <3> HIDE DEF k
    <3>4. k \in DOMAIN c.tenants /\ key \in c.tenants[k].keys
      BY <3>2 DEF Writers
    <3>5. k \in DOMAIN raw /\ key \in raw[k].keys /\ raw[k].id = tenant
      BY <1>1, <2>1, <3>3, <3>4
    <3>6. raw[k] \in {g \in TenantGroups : g.id = tenant}
      BY <2>1, <3>5
    <3>7. key \in GroupKeys({g \in TenantGroups : g.id = tenant})
      BY <3>5, <3>6 DEF GroupKeys
    <3> QED BY <3>7 DEF WrittenFor
  <2>4. CASE Writers(c, key) = {}
    <3>1. tenant = "default" /\ key \in FlatKeys
      BY <1>1, <1>3, <1>4, <2>4 DEF AllKeys, Writers
    <3>2. key \notin GroupKeys({g \in TenantGroups : g.id # ""})
      <4> SUFFICES ASSUME NEW g \in TenantGroups, g.id # "", key \in g.keys PROVE FALSE
        BY DEF GroupKeys
      <4>1. PICK k \in DOMAIN raw : g = raw[k]
        BY <2>2
      <4>2. key \in raw[k].keys \ {<<>>}
        BY <1>6, <4>1
      <4>3. k \in DOMAIN c.tenants /\ key \in c.tenants[k].keys
        BY <1>1, <4>1, <4>2
      <4> QED BY <2>4, <4>3 DEF Writers
    <3> QED BY <3>1, <3>2 DEF WrittenFor
  <2> QED BY <2>3, <2>4
<1> QED BY <1>6, <1>7

\* ServedIsEntitled: a request that is served while authentication is on carried
\* a key that the sources in force write for the tenant it is served as
\* (overrideFromEnv, parseTenants, KeyToTenant, matchAPIKey), for any file, any
\* environment and any number of keys and groups.
THEOREM ServedAreEntitled == Spec => []ServedIsEntitled
<1>1. Init => ServedIsEntitled
  BY DEF Init, ServedIsEntitled
<1>2. Inv /\ ServedIsEntitled /\ [Next]_vars => ServedIsEntitled'
  <2> SUFFICES ASSUME Inv, ServedIsEntitled, [Next]_vars PROVE ServedIsEntitled'
    OBVIOUS
  <2>1. file' = file /\ env' = env
    BY DEF Next, vars, inputs, Boot, Killed, Request, RequestFails, Retry, RetryFails, FailOpen, Redis, Tick
  <2>2. \A tenant : WrittenFor(tenant)' = WrittenFor(tenant)
    BY <2>1 DEF WrittenFor, FlatKeys, TenantGroups
  <2>3. CASE served' = served
    BY <2>2, <2>3 DEF ServedIsEntitled
  <2>4. ASSUME NEW p \in Pods, NEW presented \in Keys, conf[p] # Off, Handle(p, presented) PROVE ServedIsEntitled'
    <3>1. /\ conf[p] = Settings /\ Validate(Settings) /\ file \in Files /\ env \in Envs
      BY <2>4 DEF Inv, Counters, Shape
    <3>2. CASE served' = served
      BY <2>2, <3>2 DEF ServedIsEntitled
    <3>3. CASE served' # served
      <4>1. PICK tenant \in APIKeyAuth(Settings, presented) :
              served' = IF Settings.auth THEN {<<presented, tenant>>} ELSE {}
        BY <2>4, <3>1, <3>3 DEF Handle
      <4>2. CASE Settings.auth
        <5>1. PICK k \in Secrets : presented = <<k>> /\ {<<k>>, <<"sha256", k>>} \cap WrittenFor(tenant) # {}
          BY <3>1, <4>2, TenantIsWritten
        <5>2. served' = {<<presented, tenant>>}
          BY <4>1, <4>2
        <5> QED BY <2>2, <5>1, <5>2 DEF ServedIsEntitled
      <4>3. CASE ~Settings.auth
        BY <4>1, <4>3 DEF ServedIsEntitled
      <4> QED BY <4>2, <4>3
    <3> QED BY <3>2, <3>3
  <2>5. ASSUME NEW p \in Pods, NEW presented \in Keys, Request(p, presented) PROVE ServedIsEntitled'
    <3>1. conf[p] # Off /\ (served' = served \/ Handle(p, presented))
      BY <2>5 DEF Request, Answered
    <3> QED BY <2>3, <2>4, <3>1
  <2>6. ASSUME NEW h \in Handlers, Retry(h) \/ FailOpen(h) PROVE ServedIsEntitled'
    <3>1. waiting[h] # Off /\ (served' = served \/ Handle(waiting[h].pod, waiting[h].key))
      BY <2>6 DEF Retry, FailOpen, Answered
    <3>2. waiting[h].pod \in Pods /\ waiting[h].key \in Keys /\ conf[waiting[h].pod] # Off
      BY <3>1, HeldRuns DEF Held
    <3> QED BY <2>3, <2>4, <3>1, <3>2
  <2>7. ASSUME \/ UNCHANGED vars \/ Redis \/ Tick
               \/ \E p \in Pods : Boot(p) \/ Killed(p)
               \/ \E h \in Handlers : RetryFails(h) \/ \E p \in Pods, presented \in Keys : RequestFails(h, p, presented)
        PROVE  served' = served
    BY <2>7 DEF vars, Redis, Tick, Boot, Killed, RetryFails, RequestFails, Unanswered
  <2> QED BY <2>3, <2>5, <2>6, <2>7 DEF Next
<1> QED BY <1>1, <1>2, AlwaysInv, PTL DEF Spec

=============================================================================
