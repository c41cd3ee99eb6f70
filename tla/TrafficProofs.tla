---------------------------- MODULE TrafficProofs ---------------------------
(***************************************************************************)
(* Proofs about Traffic, for every retention, chunk size, channel capacity *)
(* and batch size, and for any number of decisions, errors and stops.      *)
(***************************************************************************)
EXTENDS Traffic, FiniteSetTheorems, SequenceTheorems, TLAPS

Rolling == {"earliest", "traffic", "attribution"}
Pruning == {"retention", "events", "aggregates", "attributions"}
InChunk == {"traffic", "attribution"}

Tick == [at : {"idle", "rollup"} \cup Rolling \cup Pruning, since : Int,
         hour : Int, from : Int, to : Int, kinds : SUBSET Kind]

Types ==
    /\ now \in Slot
    /\ decided \in Seq([at : Slot, by : Source]) /\ DOMAIN decided \subseteq Event
    /\ queue \in Seq(Nat) /\ Queued \cup buffer \subseteq DOMAIN decided
    /\ raw \subseteq stored /\ stored \subseteq DOMAIN decided
    /\ lastRollupAt \in Int /\ lastRollupAt >= Zero /\ initialized \in BOOLEAN
    /\ tick \in Tick

(* The slot is long: an event on its way to the table and a tick are at    *)
(* most a slot old.                                                        *)
Timing ==
    /\ \A e \in DOMAIN decided : decided[e].at <= now
    /\ \A e \in Queued \cup buffer : decided[e].at >= now - 1
    /\ tick.at # "idle" => tick.since <= now /\ tick.since >= now - 1

(* Where a tick is, and where the cursor is then.  No row behind the       *)
(* cursor is before the range that is rolled up.                           *)
Phase ==
    /\ tick.at \in Rolling \cup Pruning => initialized
    /\ tick.at \in Rolling =>
         /\ lastRollupAt < tick.hour /\ HourOf(tick.since) <= tick.hour
         /\ tick.hour * SlotsPerHour <= now
    /\ tick.at \in InChunk =>
         /\ lastRollupAt <= tick.from /\ tick.from < tick.hour
         /\ \A e \in raw : EventHour(e) < tick.from => EventHour(e) < lastRollupAt
    /\ tick.at = "attribution" => tick.from < tick.to /\ tick.to <= tick.hour
    /\ tick.at \in Pruning => HourOf(tick.since) <= lastRollupAt
    /\ tick.at \in {"aggregates", "attributions"} => AggregateRetentionDays > 0
    /\ tick.at = "attributions" => tick.to <= now

(* A row that is gone was counted, behind the cursor.                      *)
GoneIsCounted ==
    \A e \in stored \ late :
        LET h == EventHour(e)
        IN  e \notin raw /\ ~Expired(h) =>
              /\ e \in traffic[h][decided[e].by]
              /\ initialized => h < lastRollupAt

(* The hours whose attributions are complete: behind the cursor, behind    *)
(* the cursor a restart will take, and in the chunk under way.             *)
Covers(h, k) ==
    \/ h < lastRollupAt /\ h \notin owed
    \/ ~initialized /\ h < AfterLastBucket /\ h \notin owed
    \/ /\ tick.at = "attribution" /\ k \notin tick.kinds
       /\ tick.from <= h /\ h < tick.to

AttributionOK ==
    \A e \in stored \ late, k \in Kind :
        LET h == EventHour(e)
        IN  Covers(h, k) /\ ~Expired(h) /\ Attributes(k, e) =>
              e \in attribution[h][k]

(* A bucket counts rows of its hour and its group only.                    *)
TrafficSound ==
    /\ traffic \in [Hour -> [Source -> SUBSET stored]]
    /\ \A h \in Hour, s \in Source : \A e \in traffic[h][s] :
         EventHour(e) = h /\ decided[e].by = s

AttributionSound ==
    /\ attribution \in [Hour -> [Kind -> SUBSET stored]]
    /\ \A h \in Hour, k \in Kind : \A e \in attribution[h][k] :
         EventHour(e) = h /\ Attributes(k, e)

IInv == /\ Types /\ Timing /\ Phase
        /\ GoneIsCounted /\ CoveredHoursAreCounted
        /\ AttributionOK /\ TrafficSound /\ AttributionSound
-----------------------------------------------------------------------------
(* Hours and slots.                                                        *)
LEMMA HourBounds ==
    ASSUME NEW t \in Int
    PROVE  /\ HourOf(t) \in Int
           /\ HourOf(t) * SlotsPerHour <= t
           /\ t < HourOf(t) * SlotsPerHour + SlotsPerHour
  <1>1. SlotsPerHour \in Nat \ {0}
    BY AccessLogAssumption
  <1> QED
    BY <1>1 DEF HourOf

LEMMA Multiples ==
    ASSUME NEW a \in Int, NEW b \in Int, NEW n \in Nat \ {0}, a < b
    PROVE  a * n + n <= b * n
  OBVIOUS

(* An hour is at most the hour of a slot exactly when it starts by then.   *)
LEMMA HourAtMost ==
    ASSUME NEW t \in Int, NEW h \in Int
    PROVE  /\ h <= HourOf(t) <=> h * SlotsPerHour <= t
           /\ HourOf(t) < h <=> t < h * SlotsPerHour
  <1> DEFINE g == HourOf(t)
             n == SlotsPerHour
  <1>1. n \in Nat \ {0}
    BY AccessLogAssumption
  <1>2. g \in Int /\ g * n <= t /\ t < g * n + n
    BY HourBounds
  <1>3. g < h => g * n + n <= h * n
    BY <1>1, <1>2, Multiples
  <1>4. h < g => h * n + n <= g * n
    BY <1>1, <1>2, Multiples
  <1> HIDE DEF g, n
  <1>5. h * n \in Int /\ g * n \in Int
    BY <1>1, <1>2
  <1>6. h = g => h * n = g * n
    OBVIOUS
  <1> QED
    BY <1>1, <1>2, <1>3, <1>4, <1>5, <1>6 DEF g, n

LEMMA HourMonotone ==
    ASSUME NEW t \in Int, NEW u \in Int, t <= u
    PROVE  HourOf(t) <= HourOf(u)
  <1>1. HourOf(t) \in Int /\ HourOf(t) * SlotsPerHour <= t
    BY HourBounds
  <1>2. HourOf(t) * SlotsPerHour \in Int
    BY <1>1, AccessLogAssumption
  <1>3. HourOf(t) * SlotsPerHour <= u
    BY <1>1, <1>2
  <1> QED
    BY <1>1, <1>3, HourAtMost

LEMMA EventHours ==
    ASSUME Types, NEW e \in DOMAIN decided
    PROVE  /\ EventHour(e) \in Hour /\ EventHour(e) \in Nat
           /\ decided[e].at \in Nat /\ decided[e].by \in Source
           /\ Hour \subseteq Nat
  <1>1. MaxTime \in Nat /\ SlotsPerHour \in Nat \ {0}
    BY AccessLogAssumption
  <1>2. decided[e] \in [at : Slot, by : Source]
    <2>1. decided \in Seq([at : Slot, by : Source])
      BY DEF Types
    <2> QED
      BY <2>1, LenProperties, ElementOfSeq
  <1>3. decided[e].at \in 0 .. MaxTime /\ decided[e].by \in Source
    BY <1>2 DEF Slot
  <1>4. HourOf(0) = 0
    BY <1>1 DEF HourOf
  <1> DEFINE t == decided[e].at
  <1>a. t \in Int /\ 0 \in Int /\ MaxTime \in Int /\ 0 <= t /\ t <= MaxTime
    BY <1>1, <1>3
  <1> HIDE DEF t
  <1>b. HourOf(t) \in Int /\ HourOf(MaxTime) \in Int
    BY <1>a, HourBounds
  <1>5. HourOf(0) <= HourOf(t) /\ HourOf(t) <= HourOf(MaxTime)
    BY <1>a, HourMonotone
  <1>6. Hour = 0 .. HourOf(MaxTime)
    BY DEF Hour, HourOf
  <1> QED
    BY <1>3, <1>4, <1>5, <1>6, <1>b DEF EventHour, t

HaveHours == \A e \in DOMAIN decided : EventHour(e) \in Nat

LEMMA HoursOfEvents == Types => HaveHours
  BY EventHours DEF HaveHours

(* What is past the retention stays so.                                    *)
LEMMA ExpiredStays ==
    ASSUME now \in Int, now' \in Int, now <= now', NEW h \in Int, Expired(h)
    PROVE  Expired(h)'
  <1> DEFINE d == AggregateRetentionDays * SlotsPerDay
  <1>1. d \in Int /\ h * SlotsPerHour \in Int
    BY AccessLogAssumption, TrafficAssumption DEF SlotsPerDay
  <1>2. h * SlotsPerHour < now - d /\ AggregateRetentionDays > 0
    BY DEF Expired
  <1> HIDE DEF d
  <1>3. h * SlotsPerHour < now' - d
    BY <1>1, <1>2
  <1> QED
    BY <1>2, <1>3 DEF Expired, d

(* Rows are kept for an hour at least, so what is pruned is before the     *)
(* hour in which the tick began.                                           *)
LEMMA PrunedIsPast ==
    ASSUME RetentionDays # 0, NEW t \in Int, NEW at \in Int, NEW since \in Int,
           at < t - RetentionDays * SlotsPerDay, since >= t - 1
    PROVE  HourOf(at) < HourOf(since)
  <1> DEFINE n == SlotsPerHour
             d == RetentionDays * SlotsPerDay
             h == HourOf(at)
  <1>1. n \in Nat \ {0} /\ HoursPerDay \in Nat \ {0} /\ RetentionDays \in Nat \ {0}
    BY AccessLogAssumption, TrafficAssumption
  <1>2. SlotsPerDay \in Int /\ SlotsPerDay >= n
    BY <1>1 DEF SlotsPerDay
  <1>3. d \in Int /\ d >= n
    BY <1>1, <1>2
  <1>4. h \in Int /\ h * n <= at
    BY HourBounds
  <1>5. (h + 1) * n = h * n + n /\ h * n \in Int
    BY <1>1, <1>4
  <1> HIDE DEF d, n
  <1>6. (h + 1) * n <= since
    BY <1>1, <1>3, <1>4, <1>5 DEF d
  <1>7. h + 1 <= HourOf(since)
    BY <1>4, <1>6, HourAtMost DEF n
  <1> QED
    BY <1>4, <1>7, HourBounds
-----------------------------------------------------------------------------
(* The last bucket.                                                        *)
LEMMA GreatestExists ==
    ASSUME NEW S, IsFiniteSet(S), S # {}, S \subseteq Int
    PROVE  \E x \in S : \A y \in S : y <= x
  <1> DEFINE Has(T) == \E x \in T : \A y \in T : y <= x
             F == {T \in SUBSET S : T # {} /\ ~Has(T)}
             O == StrictSubsetOrdering(S)
  <1> SUFFICES ASSUME ~Has(S) PROVE FALSE
    OBVIOUS
  <1>1. F \subseteq FiniteSubsetsOf(S) /\ F # {}
    BY FS_Subset DEF FiniteSubsetsOf
  <1>2. PICK X \in F : \A Y \in F : <<Y, X>> \notin O
    <2> HIDE DEF F
    <2> QED
      BY <1>1, FS_StrictSubsetOrderingWellFounded, WFMin
  <1>3. X \in SUBSET S /\ X # {} /\ ~Has(X)
    OBVIOUS
  <1>4. PICK x \in X : TRUE
    BY <1>3
  <1> DEFINE Y == X \ {x}
  <1>5. Y \in SUBSET S /\ <<Y, X>> \in O
    BY <1>3, <1>4 DEF StrictSubsetOrdering
  <1>6. Y # {}
    <2>1. x \in Int
      BY <1>3, <1>4
    <2> SUFFICES ASSUME Y = {} PROVE FALSE
      OBVIOUS
    <2>2. \A y \in X : y = x
      OBVIOUS
    <2> QED
      BY <1>3, <1>4, <2>1, <2>2
  <1>7. Has(Y)
    BY <1>2, <1>5, <1>6
  <1>8. PICK y \in Y : \A z \in Y : z <= y
    BY <1>7
  <1>9. x \in Int /\ y \in Int /\ y \in X /\ \A z \in X : z \in Int
    BY <1>3, <1>4, <1>8
  <1>10. CASE x <= y
    <2>1. \A z \in X : z <= y
      BY <1>8, <1>10
    <2> QED
      BY <1>3, <1>9, <2>1
  <1>11. CASE y <= x
    <2>1. \A z \in X : z <= x
      BY <1>8, <1>9, <1>11
    <2> QED
      BY <1>3, <1>4, <2>1
  <1> QED
    BY <1>9, <1>10, <1>11

BucketsEnd ==
    /\ AfterLastBucket \in Int /\ AfterLastBucket >= Zero
    /\ \A h \in Buckets : h < AfterLastBucket
    /\ AfterLastBucket # Zero => AfterLastBucket - 1 \in Buckets

LEMMA LastBucket == BucketsEnd
  <1>1. IsFiniteSet(Hour) /\ Hour \subseteq Nat
    <2>1. HourOf(MaxTime) \in Int /\ Hour = 0 .. HourOf(MaxTime)
      BY AccessLogAssumption, HourBounds DEF Hour, HourOf
    <2>2. IsFiniteSet(0 .. HourOf(MaxTime))
      BY <2>1, FS_Interval
    <2> QED
      BY <2>1, <2>2
  <1>2. IsFiniteSet(Buckets) /\ Buckets \subseteq Nat
    <2>1. Buckets \subseteq Hour
      BY DEF Buckets
    <2> QED
      BY <1>1, <2>1, FS_Subset
  <1>3. CASE Buckets = {}
    BY <1>3 DEF BucketsEnd, AfterLastBucket, Zero
  <1>4. CASE Buckets # {}
    <2> DEFINE m == CHOOSE h \in Buckets : \A g \in Buckets : g <= h
    <2>1. \E h \in Buckets : \A g \in Buckets : g <= h
      <3>1. Buckets \subseteq Int
        BY <1>2
      <3> HIDE DEF Buckets
      <3> QED
        BY <1>2, <1>4, <3>1, GreatestExists
    <2>2. m \in Buckets /\ \A g \in Buckets : g <= m
      BY <2>1
    <2>3. AfterLastBucket = m + 1
      BY <1>4 DEF AfterLastBucket
    <2> HIDE DEF m
    <2> QED
      BY <1>2, <2>2, <2>3 DEF BucketsEnd, Zero
  <1> QED
    BY <1>3, <1>4

(* An hour is rolled up when the cursor, the chunk under way or a later    *)
(* bucket says so.                                                         *)
Rolled(h) ==
    \/ h < lastRollupAt \/ h < AfterLastBucket
    \/ tick.at = "attribution" /\ h < tick.to

RolledAre == \A h \in Nat : h < RolledUpTo <=> Rolled(h)

LEMMA RolledUp == Types => RolledAre
  <1> SUFFICES ASSUME Types PROVE RolledAre
    OBVIOUS
  <1>1. lastRollupAt \in Int /\ tick.to \in Int
    BY DEF Types, Tick
  <1>2. AfterLastBucket \in Int
    BY LastBucket DEF BucketsEnd
  <1> QED
    BY <1>1, <1>2 DEF RolledAre, Rolled, RolledUpTo, Max2, Zero
-----------------------------------------------------------------------------
(* A decision that was made is not changed by a later one.                 *)
Steady ==
    /\ \A e \in DOMAIN decided : e \in DOMAIN decided' /\ decided'[e] = decided[e]
    /\ now <= now'

LEMMA EventsKept ==
    ASSUME Types, Types', Steady
    PROVE  /\ \A e \in DOMAIN decided :
                /\ e \in DOMAIN decided'
                /\ EventHour(e)' = EventHour(e) /\ decided'[e].by = decided[e].by
                /\ EventHour(e) \in Hour /\ EventHour(e) \in Nat
                /\ decided[e].by \in Source
                /\ \A k : Attributes(k, e)' <=> Attributes(k, e)
           /\ \A h \in Nat : Expired(h) => Expired(h)'
  <1>1. ASSUME NEW e \in DOMAIN decided
        PROVE  /\ e \in DOMAIN decided'
               /\ EventHour(e)' = EventHour(e) /\ decided'[e].by = decided[e].by
               /\ \A k : Attributes(k, e)' <=> Attributes(k, e)
    BY <1>1 DEF Steady, EventHour, HourOf, Attributes
  <1>2. \A h \in Nat : Expired(h) => Expired(h)'
    <2>1. now \in Int /\ now' \in Int
      BY DEF Types, Slot
    <2> QED
      BY <2>1, ExpiredStays DEF Steady
  <1>3. \A e \in DOMAIN decided : /\ EventHour(e) \in Hour /\ EventHour(e) \in Nat
                                  /\ decided[e].by \in Source
    BY EventHours
  <1> QED
    BY <1>1, <1>2, <1>3

(* What is counted stays counted when no bucket that is still kept loses a *)
(* row, and no more hours are said to be rolled up.                        *)
LEMMA CoveredKept ==
    ASSUME IInv, Types', Steady, late \subseteq late',
           \A e \in stored' \ late' : e \in stored \/ ~(EventHour(e)' < RolledUpTo'),
           \A e \in stored \ late, h \in Nat :
             h = EventHour(e) /\ ~Expired(h) /\ h < RolledUpTo' => h < RolledUpTo,
           \A h \in Hour, s \in Source :
             ~Expired(h)' => traffic[h][s] \subseteq traffic'[h][s]
    PROVE  CoveredHoursAreCounted'
  <1> SUFFICES ASSUME NEW e \in stored' \ late', NEW h, h = EventHour(e)',
                      h < RolledUpTo', ~Expired(h)'
               PROVE  e \in traffic'[h][decided'[e].by]
    BY DEF CoveredHoursAreCounted, Expired
  <1>1. e \in stored \ late /\ Types
    BY DEF IInv
  <1>2. /\ h = EventHour(e) /\ decided'[e].by = decided[e].by /\ h \in Nat
        /\ h \in Hour /\ decided[e].by \in Source /\ ~Expired(h)
    BY <1>1, EventsKept DEF Types
  <1>3. e \in traffic[h][decided[e].by]
    BY <1>1, <1>2 DEF IInv, CoveredHoursAreCounted
  <1> QED
    BY <1>2, <1>3

LEMMA GoneKept ==
    ASSUME IInv, Types', Steady, late \subseteq late', raw \subseteq raw',
           \A e \in stored' : e \in stored \/ e \in raw',
           \A h \in Buckets : initialized' /\ (initialized => h < lastRollupAt)
                               => h < lastRollupAt',
           \A h \in Hour, s \in Source :
             ~Expired(h)' => traffic[h][s] \subseteq traffic'[h][s]
    PROVE  GoneIsCounted'
  <1> SUFFICES ASSUME NEW e \in stored' \ late', NEW h, h = EventHour(e)',
                      e \notin raw', ~Expired(h)'
               PROVE  /\ e \in traffic'[h][decided'[e].by]
                      /\ initialized' => h < lastRollupAt'
    BY DEF GoneIsCounted, Expired
  <1>1. e \in stored \ late /\ e \notin raw /\ Types
    BY DEF IInv
  <1>2. /\ h = EventHour(e) /\ decided'[e].by = decided[e].by /\ h \in Nat
        /\ h \in Hour /\ decided[e].by \in Source /\ ~Expired(h)
    BY <1>1, EventsKept DEF Types
  <1>3. e \in traffic[h][decided[e].by] /\ (initialized => h < lastRollupAt)
    BY <1>1, <1>2 DEF IInv, GoneIsCounted
  <1>4. h \in Buckets
    BY <1>2, <1>3 DEF Buckets
  <1> QED
    BY <1>2, <1>3, <1>4

LEMMA AttributionKept ==
    ASSUME IInv, Types', Steady, late \subseteq late',
           \A e \in stored' \ late', k \in Kind, h \in Nat :
             h = EventHour(e)' /\ ~Expired(h)' /\ Covers(h, k)'
               => e \in stored /\ Covers(h, k),
           \A h \in Hour, k \in Kind :
             ~Expired(h)' => attribution[h][k] \subseteq attribution'[h][k]
    PROVE  AttributionOK'
  <1> SUFFICES ASSUME NEW e \in stored' \ late', NEW k \in Kind, NEW h,
                      h = EventHour(e)', Covers(h, k)', ~Expired(h)',
                      Attributes(k, e)'
               PROVE  e \in attribution'[h][k]
    BY DEF AttributionOK, Expired, Covers
  <1>0. h \in Nat
    <2>1. e \in DOMAIN decided'
      BY DEF Types
    <2>2. HaveHours'
      BY HoursOfEvents, PTL
    <2> QED
      BY <2>1, <2>2 DEF HaveHours
  <1>1. e \in stored \ late /\ Covers(h, k) /\ Types
    BY <1>0 DEF IInv
  <1>2. /\ h = EventHour(e) /\ h \in Hour /\ ~Expired(h) /\ Attributes(k, e)
    BY <1>1, EventsKept DEF Types
  <1>3. e \in attribution[h][k]
    BY <1>1, <1>2 DEF IInv, AttributionOK
  <1> QED
    BY <1>2, <1>3

LEMMA TrafficSoundKept ==
    ASSUME IInv, Types', Steady, stored \subseteq stored',
           traffic' \in [Hour -> [Source -> SUBSET stored]],
           \A h \in Hour, s \in Source : traffic'[h][s] \subseteq traffic[h][s]
    PROVE  TrafficSound'
  <1>1. traffic' \in [Hour -> [Source -> SUBSET stored']]
    OBVIOUS
  <1>2. ASSUME NEW h \in Hour, NEW s \in Source, NEW e \in traffic'[h][s]
        PROVE  EventHour(e)' = h /\ decided'[e].by = s
    <2>1. e \in traffic[h][s] /\ e \in stored
      OBVIOUS
    <2>2. EventHour(e) = h /\ decided[e].by = s /\ e \in DOMAIN decided /\ Types
      BY <2>1 DEF IInv, TrafficSound, Types
    <2> QED
      BY <2>2, EventsKept
  <1> QED
    BY <1>1, <1>2 DEF TrafficSound, Hour

LEMMA AttributionSoundKept ==
    ASSUME IInv, Types', Steady, stored \subseteq stored',
           attribution' \in [Hour -> [Kind -> SUBSET stored]],
           \A h \in Hour, k \in Kind : attribution'[h][k] \subseteq attribution[h][k]
    PROVE  AttributionSound'
  <1>1. attribution' \in [Hour -> [Kind -> SUBSET stored']]
    OBVIOUS
  <1>2. ASSUME NEW h \in Hour, NEW k \in Kind, NEW e \in attribution'[h][k]
        PROVE  EventHour(e)' = h /\ Attributes(k, e)'
    <2>1. e \in attribution[h][k] /\ e \in stored
      OBVIOUS
    <2>2. EventHour(e) = h /\ Attributes(k, e) /\ e \in DOMAIN decided /\ Types
      BY <2>1 DEF IInv, AttributionSound, Types
    <2> QED
      BY <2>2, EventsKept
  <1> QED
    BY <1>1, <1>2 DEF AttributionSound, Hour
-----------------------------------------------------------------------------
(* The counts: all of the invariant but the types and where the tick is.   *)
Counts == /\ GoneIsCounted /\ CoveredHoursAreCounted
          /\ AttributionOK /\ TrafficSound /\ AttributionSound

(* A step that leaves the tables and the cursor alone.                     *)
LEMMA QuietKeeps ==
    ASSUME IInv, Types', Steady,
           UNCHANGED <<stored, late, raw, traffic, attribution, owed>>,
           lastRollupAt' = lastRollupAt, initialized' = initialized,
           tick'.at = "attribution" => tick' = tick
    PROVE  Counts'
  <1>1. Types /\ RolledAre /\ RolledAre'
    <2>1. Types
      BY DEF IInv
    <2>2. RolledAre'
      BY RolledUp, PTL
    <2> QED
      BY <2>1, <2>2, RolledUp
  <1>2. AfterLastBucket' = AfterLastBucket
    BY DEF AfterLastBucket, Buckets
  <1>3. \A h \in Nat : h < RolledUpTo' => h < RolledUpTo
    BY <1>1, <1>2 DEF RolledAre, Rolled
  <1>4. \A h, k : Covers(h, k)' => Covers(h, k)
    BY <1>2 DEF Covers
  <1>5. CoveredHoursAreCounted'
    BY <1>3, CoveredKept
  <1>6. GoneIsCounted'
    BY GoneKept
  <1>7. AttributionOK'
    BY <1>4, AttributionKept
  <1>8. TrafficSound' /\ AttributionSound'
    <2>1. traffic' \in [Hour -> [Source -> SUBSET stored]]
            /\ attribution' \in [Hour -> [Kind -> SUBSET stored]]
      BY DEF IInv, TrafficSound, AttributionSound
    <2> QED
      BY <2>1, TrafficSoundKept, AttributionSoundKept
  <1> QED
    BY <1>5, <1>6, <1>7, <1>8 DEF Counts

LEMMA AdvanceKeeps ==
    ASSUME IInv, Advance PROVE IInv'
  <1>1. /\ now' = now + 1 /\ now \in Nat /\ now' \in Slot
        /\ UNCHANGED <<app, decided, raw, faults, sinkVars, jobVars, late>>
    BY AccessLogAssumption DEF Advance, IInv, Types, Slot
  <1>2. Steady
    BY <1>1 DEF Steady
  <1>3. Types'
    BY <1>1 DEF IInv, Types, sinkVars, jobVars, Queued
  <1>4. Timing'
    <2>1. Queued' = Queued
      BY <1>1 DEF Queued, sinkVars
    <2>2. \A e \in DOMAIN decided : decided[e].at \in Nat
      BY EventHours DEF IInv
    <2>3. \A e \in Queued \cup buffer : decided[e].at >= now
      BY DEF Advance
    <2>4. tick.at # "idle" => tick.since = now
      BY DEF Advance
    <2> QED
      BY <1>1, <2>1, <2>2, <2>3, <2>4 DEF Timing, IInv, sinkVars, jobVars
  <1>5. Phase'
    <2>1. tick' = tick /\ lastRollupAt' = lastRollupAt /\ initialized' = initialized
            /\ raw' = raw /\ \A e : EventHour(e)' = EventHour(e)
      BY <1>1 DEF jobVars, EventHour
    <2>2. tick.to \in Int /\ tick.hour * SlotsPerHour \in Int
      BY AccessLogAssumption DEF IInv, Types, Tick
    <2>3. \A x \in Int : x <= now => x <= now'
      BY <1>1
    <2> QED
      BY <2>1, <2>2, <2>3 DEF IInv, Phase, HourOf
  <1>6. Counts'
    BY <1>1, <1>2, <1>3, QuietKeeps DEF sinkVars, jobVars
  <1> QED
    BY <1>3, <1>4, <1>5, <1>6 DEF IInv, Counts

LEMMA DecideKeeps ==
    ASSUME IInv, NEW s \in Source, Decide(s) PROVE IInv'
  <1> DEFINE e == Len(decided) + 1
             r == [at |-> now, by |-> s]
  <1>1. /\ decided' = Append(decided, r) /\ e \in Event
        /\ queue' = queue \/ queue' = Append(queue, e)
        /\ UNCHANGED <<now, buffer, raw, stored, jobVars, late>>
    BY DEF Decide, OnDecision
  <1>2. /\ Types /\ now \in Slot /\ queue \in Seq(Nat) /\ now \in Int
        /\ decided \in Seq([at : Slot, by : Source])
    BY DEF IInv, Types, Slot
  <1>3. /\ decided' \in Seq([at : Slot, by : Source]) /\ e \in Nat
        /\ DOMAIN decided' = DOMAIN decided \cup {e} /\ e \notin DOMAIN decided
        /\ decided'[e] = r /\ \A x \in DOMAIN decided : decided'[x] = decided[x]
    <2>1. r \in [at : Slot, by : Source]
      BY <1>2
    <2>2. Len(decided) \in Nat /\ DOMAIN decided = 1 .. Len(decided)
      BY <1>2, LenProperties
    <2> HIDE DEF r
    <2>3. /\ decided' \in Seq([at : Slot, by : Source]) /\ Len(decided') = e
          /\ \A i \in 1 .. Len(decided) : decided'[i] = decided[i]
          /\ decided'[Len(decided) + 1] = r
      BY <1>1, <1>2, <2>1, AppendProperties
    <2>4. DOMAIN decided' = 1 .. e
      BY <2>3, LenProperties
    <2> QED
      BY <2>2, <2>3, <2>4
  <1> HIDE DEF e
  <1>4. queue' \in Seq(Nat) /\ Queued' \subseteq Queued \cup {e}
    <2>1. CASE queue' = queue
      BY <1>2, <2>1 DEF Queued
    <2>2. CASE queue' = Append(queue, e)
      <3>1. Len(queue) \in Nat /\ DOMAIN queue = 1 .. Len(queue)
        BY <1>2, LenProperties
      <3>2. /\ queue' \in Seq(Nat) /\ Len(queue') = Len(queue) + 1
            /\ \A i \in 1 .. Len(queue) : queue'[i] = queue[i]
            /\ queue'[Len(queue) + 1] = e
        BY <1>2, <1>3, <2>2, AppendProperties
      <3>3. DOMAIN queue' = 1 .. Len(queue) + 1
        BY <3>2, LenProperties
      <3> QED
        BY <3>1, <3>2, <3>3 DEF Queued
    <2> QED
      BY <1>1, <2>1, <2>2
  <1>5. Types'
    <2>1. Queued' \cup buffer' \subseteq DOMAIN decided'
            /\ stored' \subseteq DOMAIN decided' /\ DOMAIN decided' \subseteq Event
      BY <1>1, <1>2, <1>3, <1>4 DEF Types
    <2> QED
      BY <1>1, <1>2, <1>3, <1>4, <2>1 DEF Types, jobVars
  <1>6. Steady
    BY <1>1, <1>2, <1>3 DEF Steady
  <1>7. Timing'
    <2>1. \A x \in DOMAIN decided' : decided'[x].at <= now'
      BY <1>1, <1>2, <1>3 DEF IInv, Timing
    <2>2. \A x \in Queued' \cup buffer' : decided'[x].at >= now' - 1
      BY <1>1, <1>2, <1>3, <1>4 DEF IInv, Timing, Types
    <2> QED
      BY <1>1, <2>1, <2>2 DEF IInv, Timing, jobVars
  <1>8. Phase'
    <2>1. tick' = tick /\ lastRollupAt' = lastRollupAt /\ initialized' = initialized
            /\ raw' = raw /\ now' = now
      BY <1>1 DEF jobVars
    <2>2. \A x \in raw : EventHour(x)' = EventHour(x)
      BY <1>2, <1>5, <1>6, EventsKept DEF Types
    <2> QED
      BY <2>1, <2>2 DEF IInv, Phase, HourOf
  <1>9. Counts'
    BY <1>1, <1>5, <1>6, QuietKeeps DEF jobVars
  <1> QED
    BY <1>5, <1>7, <1>8, <1>9 DEF IInv, Counts
-----------------------------------------------------------------------------
(* The sink: a flush inserts its batch or loses it.                        *)
LEMMA FlushFacts ==
    ASSUME NEW batch, NEW cancelled, flush(batch, cancelled)
    PROVE  /\ buffer' = {}
           /\ \/ raw' = raw /\ stored' = stored
              \/ raw' = raw \cup batch /\ stored' = stored \cup batch
  BY DEF flush, BatchInsert, BatchInsertFails

Moved ==
    /\ now' = now /\ decided' = decided /\ queue' \in Seq(Nat)
    /\ Queued' \cup buffer' \subseteq Queued \cup buffer
    /\ raw \subseteq raw' /\ raw' \subseteq stored' /\ stored \subseteq stored'
    /\ stored' \ stored \subseteq raw'
    /\ raw' \ raw \subseteq Queued \cup buffer
    /\ stored' \ stored \subseteq Queued \cup buffer

LEMMA ReceiveMoves ==
    ASSUME Types, NEW cancelled, ReceiveInto(cancelled) PROVE Moved
  <1> DEFINE batch == buffer \cup {Head(queue)}
  <1>1. queue \in Seq(Nat) /\ queue # <<>> /\ queue' = Tail(queue)
    BY DEF Types, ReceiveInto
  <1>2. /\ queue' \in Seq(Nat) /\ Len(queue') = Len(queue) - 1
        /\ \A i \in 1 .. Len(queue') : queue'[i] = queue[i + 1]
    BY <1>1, HeadTailProperties
  <1>3. /\ DOMAIN queue = 1 .. Len(queue) /\ DOMAIN queue' = 1 .. Len(queue')
        /\ Len(queue) \in Nat /\ Len(queue') \in Nat
    BY <1>1, <1>2, LenProperties
  <1>4. Queued' \subseteq Queued
    BY <1>2, <1>3 DEF Queued
  <1>5. Head(queue) \in Queued
    <2>1. 1 \in DOMAIN queue /\ Head(queue) = queue[1]
      BY <1>1, <1>2, <1>3
    <2> QED
      BY <2>1 DEF Queued
  <1>6. batch \subseteq Queued \cup buffer
    BY <1>5
  <1> HIDE DEF batch
  <1>7. \/ buffer' = {} /\ raw' = raw /\ stored' = stored
        \/ buffer' = {} /\ raw' = raw \cup batch /\ stored' = stored \cup batch
        \/ buffer' = batch /\ raw' = raw /\ stored' = stored
    <2>1. CASE flush(batch, cancelled)
      BY <2>1, FlushFacts
    <2>2. CASE ~flush(batch, cancelled)
      BY <2>2 DEF ReceiveInto, batch
    <2> QED
      BY <2>1, <2>2
  <1>8. now' = now /\ decided' = decided /\ raw \subseteq stored
    BY DEF ReceiveInto, Types
  <1> QED
    BY <1>2, <1>4, <1>6, <1>7, <1>8 DEF Moved

LEMMA SinkMoves ==
    ASSUME Types, SinkStep PROVE Moved
  <1>0. queue \in Seq(Nat) /\ raw \subseteq stored
    BY DEF Types
  <1>1. CASE Receive
    BY <1>1, ReceiveMoves DEF Receive
  <1>2. CASE Drain
    BY <1>2, ReceiveMoves DEF Drain
  <1>3. CASE StopSink
    BY <1>0, <1>3 DEF StopSink, Moved, Queued
  <1>4. CASE FlushTick
    <2>1. PICK c : flush(buffer, c)
      BY <1>4 DEF FlushTick
    <2>2. UNCHANGED <<now, decided, queue>>
      BY <1>4 DEF FlushTick
    <2> QED
      BY <1>0, <2>1, <2>2, FlushFacts DEF Moved, Queued
  <1>5. CASE FinishDrain
    <2>1. flush(buffer, FALSE) /\ UNCHANGED <<now, decided, queue>>
      BY <1>5 DEF FinishDrain
    <2> QED
      BY <1>0, <2>1, FlushFacts DEF Moved, Queued
  <1> QED
    BY <1>1, <1>2, <1>3, <1>4, <1>5 DEF SinkStep

(* An insert during a roll-up is not before the range under way: it is a   *)
(* slot old at most, and the range ends before the current hour.           *)
LEMMA SinkKeeps ==
    ASSUME IInv, Sink PROVE IInv'
  <1>1. /\ Types /\ Moved /\ UNCHANGED jobVars
        /\ late' = late \cup {e \in raw' \ raw : EventHour(e) < RolledUpTo}
    <2>1. Types
      BY DEF IInv
    <2> QED
      BY <2>1, SinkMoves DEF Sink
  <1>2. /\ UNCHANGED <<traffic, attribution, lastRollupAt, initialized, tick, owed>>
        /\ now' = now /\ decided' = decided
    BY <1>1 DEF jobVars, Moved
  <1>3. Steady
    BY <1>1, <1>2 DEF Steady, Types, Slot
  <1>4. Types'
    <2>1. Queued' \cup buffer' \subseteq DOMAIN decided /\ stored' \subseteq DOMAIN decided
      BY <1>1 DEF Types, Moved
    <2>2. queue' \in Seq(Nat) /\ raw' \subseteq stored'
      BY <1>1 DEF Moved
    <2> QED
      BY <1>1, <1>2, <2>1, <2>2 DEF Types
  <1>5. Timing'
    BY <1>1, <1>2 DEF IInv, Timing, Moved
  <1>6. \A e : EventHour(e)' = EventHour(e)
    BY <1>2 DEF EventHour
  <1>7. RolledUpTo' = RolledUpTo /\ AfterLastBucket' = AfterLastBucket
    BY <1>2 DEF RolledUpTo, AfterLastBucket, Buckets
  <1>8. Phase'
    <2>1. ASSUME tick.at \in InChunk, NEW e \in raw', EventHour(e) < tick.from
          PROVE  EventHour(e) < lastRollupAt
      <3>1. CASE e \in raw
        BY <2>1, <3>1 DEF IInv, Phase
      <3>2. CASE e \notin raw
        <4> DEFINE t == decided[e].at
        <4>1. e \in DOMAIN decided /\ t >= now - 1
          BY <1>1, <3>2 DEF Moved, Types, IInv, Timing
        <4>2. t \in Int /\ now \in Int
          BY <1>1, <4>1, EventHours DEF Types, Slot
        <4>3. /\ tick.from < tick.hour /\ tick.hour * SlotsPerHour <= now
              /\ tick.from \in Int /\ tick.hour \in Int
          BY <2>1 DEF IInv, Phase, Types, Tick, InChunk, Rolling
        <4>4. SlotsPerHour \in Nat \ {0}
          BY AccessLogAssumption
        <4>5. tick.from * SlotsPerHour + SlotsPerHour <= tick.hour * SlotsPerHour
          BY <4>3, <4>4, Multiples
        <4> HIDE DEF t
        <4>6. tick.from * SlotsPerHour \in Int /\ tick.hour * SlotsPerHour \in Int
          BY <4>3, <4>4
        <4>7. tick.from * SlotsPerHour <= t
          BY <4>1, <4>2, <4>3, <4>4, <4>5, <4>6
        <4>8. tick.from <= HourOf(t) /\ HourOf(t) \in Int
          BY <4>2, <4>3, <4>7, HourAtMost, HourBounds
        <4> QED
          BY <2>1, <4>3, <4>8 DEF EventHour, t
      <3> QED
        BY <3>1, <3>2
    <2> QED
      BY <1>2, <1>6, <2>1 DEF IInv, Phase, HourOf
  <1>9. late \subseteq late' /\ \A e \in stored' \ late' :
          e \in stored \/ (e \in raw' /\ ~(EventHour(e) < RolledUpTo))
    BY <1>1 DEF Moved, Types
  <1>10. CoveredHoursAreCounted'
    BY <1>2, <1>3, <1>4, <1>6, <1>7, <1>9, CoveredKept
  <1>11. GoneIsCounted'
    BY <1>1, <1>2, <1>3, <1>4, <1>9, GoneKept DEF Moved
  <1>12. AttributionOK'
    <2>1. RolledAre
      BY <1>1, RolledUp
    <2>2. ASSUME NEW e \in stored' \ late', NEW k \in Kind, NEW h \in Nat,
                 h = EventHour(e)', Covers(h, k)'
          PROVE  e \in stored /\ Covers(h, k)
      <3>1. Covers(h, k)
        BY <1>2, <1>7, <2>2 DEF Covers
      <3>2. Rolled(h)
        BY <3>1 DEF Covers, Rolled
      <3>3. h < RolledUpTo
        BY <2>1, <3>2 DEF RolledAre
      <3> QED
        BY <1>6, <1>9, <2>2, <3>1, <3>3
    <2> QED
      BY <1>2, <1>3, <1>4, <1>9, <2>2, AttributionKept
  <1>13. TrafficSound' /\ AttributionSound'
    <2>1. traffic' \in [Hour -> [Source -> SUBSET stored]]
            /\ attribution' \in [Hour -> [Kind -> SUBSET stored]]
      BY <1>2 DEF IInv, TrafficSound, AttributionSound
    <2> QED
      BY <1>1, <1>2, <1>3, <1>4, <2>1, TrafficSoundKept, AttributionSoundKept DEF Moved
  <1> QED
    BY <1>4, <1>5, <1>8, <1>10, <1>11, <1>12, <1>13 DEF IInv
-----------------------------------------------------------------------------
(* The process and the ends of a tick.                                     *)
LEMMA TickRecords ==
    ASSUME Types
    PROVE  /\ Idle \in Tick /\ Idle.at = "idle"
           /\ FirstJob \in Tick /\ FirstJob.at = "rollup" /\ FirstJob.since = now
           /\ Retention \in Tick /\ Retention.at = "retention"
           /\ Retention.since = tick.since
  <1>1. now \in Int /\ tick.since \in Int
    BY DEF Types, Tick, Slot
  <1>2. Idle \in Tick /\ Idle.at = "idle"
    BY DEF Idle, Tick
  <1>3. FirstJob \in Tick /\ FirstJob.at = "rollup" /\ FirstJob.since = now
    BY <1>1, <1>2 DEF FirstJob, Tick
  <1>4. /\ Retention \in Tick /\ Retention.at = "retention"
        /\ Retention.since = tick.since
    BY <1>1, <1>2 DEF Retention, Tick, Pruning
  <1> QED
    BY <1>2, <1>3, <1>4

(* The tick is left alone, given up or begun; nothing else that the jobs   *)
(* read changes.                                                           *)
LEMMA RestKeeps ==
    ASSUME IInv,
           UNCHANGED <<now, decided, queue, buffer, raw, stored, late, traffic,
                       attribution, lastRollupAt, initialized, owed>>,
           tick' = tick \/ tick' = Idle \/ tick' = FirstJob
    PROVE  IInv'
  <1>1. Types /\ now \in Int /\ tick \in Tick
    BY DEF IInv, Types, Slot
  <1>2. Types'
    BY <1>1, TickRecords DEF Types, Queued
  <1>3. Steady
    BY <1>1 DEF Steady
  <1>4. Queued' = Queued /\ \A e : EventHour(e)' = EventHour(e)
    BY DEF Queued, EventHour
  <1>5. Timing'
    BY <1>1, <1>4, TickRecords DEF IInv, Timing
  <1>6. Phase'
    <2>1. CASE tick' = tick
      BY <1>4, <2>1 DEF IInv, Phase, HourOf
    <2>2. CASE tick'.at \in {"idle", "rollup"}
      BY <2>2 DEF Phase, Rolling, Pruning, InChunk
    <2> QED
      BY <1>1, <2>1, <2>2, TickRecords
  <1>7. tick'.at = "attribution" => tick' = tick
    BY <1>1, TickRecords
  <1>8. Counts'
    BY <1>2, <1>3, <1>7, QuietKeeps
  <1> QED
    BY <1>2, <1>5, <1>6, <1>8 DEF IInv, Counts

(* The process ends: a restart takes the cursor from the last bucket, and  *)
(* what the cursor had not passed is owed.                                 *)
LEMMA EndKeeps ==
    ASSUME IInv, EndProcess PROVE IInv'
  <1>1. /\ queue' = <<>> /\ buffer' = {} /\ tick' = Idle
        /\ lastRollupAt' = Zero /\ initialized' = FALSE
        /\ owed' = owed \cup {h \in Buckets : h >= lastRollupAt}
        /\ UNCHANGED <<now, decided, raw, stored, traffic, attribution, late>>
    BY DEF EndProcess
  <1>2. Types /\ now \in Int /\ lastRollupAt \in Int
    BY DEF IInv, Types, Slot
  <1>3. Queued' = {} /\ queue' \in Seq(Nat)
    BY <1>1 DEF Queued
  <1>4. Types'
    <2>1. tick' \in Tick
      BY <1>1, <1>2, TickRecords
    <2>2. lastRollupAt' \in Int /\ lastRollupAt' >= Zero
      BY <1>1 DEF Zero
    <2>3. initialized' \in BOOLEAN
      BY <1>1
    <2> QED
      BY <1>1, <1>2, <1>3, <2>1, <2>2, <2>3 DEF Types
  <1>5. Steady
    BY <1>1, <1>2 DEF Steady
  <1>6. Timing' /\ Phase'
    <2>1. tick'.at = "idle"
      BY <1>1, <1>2, TickRecords
    <2> QED
      BY <1>1, <1>3, <2>1 DEF IInv, Timing, Phase, Rolling, Pruning, InChunk
  <1>7. AfterLastBucket' = AfterLastBucket /\ \A e : EventHour(e)' = EventHour(e)
          /\ \A h : Expired(h)' <=> Expired(h)
    BY <1>1 DEF AfterLastBucket, Buckets, EventHour, Expired
  <1>8. RolledAre /\ RolledAre'
    <2>1. RolledAre'
      BY <1>4, RolledUp, PTL
    <2> QED
      BY <1>2, <2>1, RolledUp
  <1>9. \A h \in Nat : Rolled(h)' => h < AfterLastBucket
    BY <1>1, <1>2, <1>7, TickRecords DEF Rolled, Zero
  <1>10. CoveredHoursAreCounted'
    <2>1. \A h \in Nat : h < RolledUpTo' => h < RolledUpTo
      BY <1>8, <1>9 DEF RolledAre, Rolled
    <2> QED
      BY <1>1, <1>4, <1>5, <2>1, CoveredKept
  <1>11. GoneIsCounted'
    BY <1>1, <1>4, <1>5, GoneKept
  <1>12. AttributionOK'
    <2>1. ASSUME NEW e \in stored' \ late', NEW k \in Kind, NEW h \in Nat,
                 h = EventHour(e)', ~Expired(h)', Covers(h, k)'
          PROVE  e \in stored /\ Covers(h, k)
      <3>1. e \in stored \ late /\ h = EventHour(e) /\ ~Expired(h)
        BY <1>1, <1>7, <2>1
      <3>2. h < AfterLastBucket /\ h \notin owed'
        BY <1>1, <1>2, <1>7, <2>1, TickRecords DEF Covers, Zero
      <3>3. h < RolledUpTo
        BY <1>8, <3>2 DEF RolledAre, Rolled
      <3>4. e \in traffic[h][decided[e].by]
        BY <3>1, <3>3 DEF IInv, CoveredHoursAreCounted
      <3>5. e \in DOMAIN decided
        BY <1>2, <3>1 DEF Types
      <3>6. h \in Buckets
        BY <1>2, <3>1, <3>4, <3>5, EventHours DEF Buckets
      <3>7. h < lastRollupAt /\ h \notin owed
        BY <1>1, <1>2, <3>2, <3>6
      <3> QED
        BY <3>1, <3>7 DEF Covers
    <2> QED
      BY <1>1, <1>4, <1>5, <2>1, AttributionKept
  <1>13. TrafficSound' /\ AttributionSound'
    <2>1. traffic' \in [Hour -> [Source -> SUBSET stored]]
            /\ attribution' \in [Hour -> [Kind -> SUBSET stored]]
      BY <1>1 DEF IInv, TrafficSound, AttributionSound
    <2> QED
      BY <1>1, <1>4, <1>5, <2>1, TrafficSoundKept, AttributionSoundKept
  <1> QED
    BY <1>4, <1>6, <1>10, <1>11, <1>12, <1>13 DEF IInv

LEMMA ProcessKeeps ==
    ASSUME IInv,
           \/ StartProcess \/ Shutdown \/ Exit \/ Crash \/ RunSchedule
           \/ TickFails \/ TickCancelled
    PROVE  IInv'
  <1>1. CASE EndProcess
    BY <1>1, EndKeeps
  <1>2. CASE ~EndProcess
    <2>1. /\ UNCHANGED <<now, decided, queue, buffer, raw, stored, late, traffic,
                         attribution, lastRollupAt, initialized, owed>>
          /\ tick' = tick \/ tick' = Idle \/ tick' = FirstJob
      BY <1>2 DEF StartProcess, Shutdown, Exit, Crash, RunSchedule, TickFails,
                  TickCancelled, logVars, sinkVars
    <2> QED
      BY <2>1, RestKeeps
  <1> QED
    BY <1>1, <1>2
-----------------------------------------------------------------------------
(* The roll-up.                                                            *)
LEMMA StartRollupKeeps ==
    ASSUME IInv, StartRollup PROVE IInv'
  <1>1. /\ tick.at = "rollup" /\ initialized' = TRUE
        /\ lastRollupAt' = IF initialized THEN lastRollupAt ELSE AfterLastBucket
        /\ tick' = IF lastRollupAt' >= HourOf(now)
                   THEN Retention
                   ELSE [tick EXCEPT !.at = "earliest", !.hour = HourOf(now)]
        /\ UNCHANGED <<now, decided, queue, buffer, raw, stored, late, traffic,
                       attribution, owed>>
    BY DEF StartRollup, At, SeedCursor, logVars, sinkVars
  <1>2. /\ Types /\ now \in Int /\ lastRollupAt \in Int /\ lastRollupAt >= Zero
        /\ tick \in Tick /\ tick.since \in Int /\ tick.since <= now
        /\ tick.since >= now - 1
    BY <1>1 DEF IInv, Types, Slot, Timing, Tick
  <1>3. BucketsEnd
    BY LastBucket
  <1>4. lastRollupAt' \in Int /\ lastRollupAt' >= Zero
    BY <1>1, <1>2, <1>3 DEF BucketsEnd
  <1>5. HourOf(now) \in Int /\ HourOf(now) * SlotsPerHour <= now
          /\ HourOf(tick.since) <= HourOf(now) /\ HourOf(tick.since) \in Int
    BY <1>2, HourBounds, HourMonotone
  <1>6. /\ tick' \in Tick /\ tick'.since = tick.since
        /\ \/ tick'.at = "retention" /\ lastRollupAt' >= HourOf(now)
           \/ tick'.at = "earliest" /\ lastRollupAt' < HourOf(now)
              /\ tick'.hour = HourOf(now)
    <2>1. CASE lastRollupAt' >= HourOf(now)
      BY <1>1, <1>2, <2>1, TickRecords
    <2>2. CASE ~(lastRollupAt' >= HourOf(now))
      <3>1. tick' = [tick EXCEPT !.at = "earliest", !.hour = HourOf(now)]
        BY <1>1, <2>2
      <3>2. lastRollupAt' < HourOf(now)
        BY <1>4, <1>5, <2>2
      <3> QED
        BY <1>2, <1>5, <3>1, <3>2 DEF Tick, Rolling
    <2> QED
      BY <2>1, <2>2
  <1>7. Types'
    <2>1. initialized' \in BOOLEAN
      BY <1>1
    <2> QED
      BY <1>1, <1>2, <1>4, <1>6, <2>1 DEF Types, Queued
  <1>8. Steady
    BY <1>1, <1>2 DEF Steady
  <1>9. Timing'
    BY <1>1, <1>2, <1>6 DEF IInv, Timing, Queued
  <1>10. Phase'
    <2>1. CASE tick'.at = "retention"
      <3>1. HourOf(tick'.since) <= lastRollupAt'
        BY <1>4, <1>5, <1>6, <2>1
      <3>2. HourOf(tick.since)' <= lastRollupAt'
        BY <3>1 DEF HourOf
      <3> QED
        BY <1>1, <2>1, <3>2 DEF Phase, Rolling, Pruning, InChunk
    <2>2. CASE tick'.at = "earliest"
      <3>1. /\ lastRollupAt' < tick'.hour /\ HourOf(tick'.since) <= tick'.hour
            /\ tick'.hour * SlotsPerHour <= now'
        BY <1>1, <1>5, <1>6, <2>2
      <3>2. HourOf(tick.since)' <= tick'.hour
        BY <3>1 DEF HourOf
      <3> QED
        BY <1>1, <2>2, <3>1, <3>2 DEF Phase, Rolling, Pruning, InChunk
    <2> QED
      BY <1>6, <2>1, <2>2
  <1>11. AfterLastBucket' = AfterLastBucket
    BY <1>1 DEF AfterLastBucket, Buckets
  <1>12. CoveredHoursAreCounted'
    <2>1. RolledAre'
      BY <1>7, RolledUp, PTL
    <2>2. RolledAre
      BY <1>2, RolledUp
    <2>3. \A h \in Nat : h < RolledUpTo' => h < RolledUpTo
      BY <1>1, <1>6, <1>11, <2>1, <2>2 DEF RolledAre, Rolled
    <2> QED
      BY <1>1, <1>7, <1>8, <2>3, CoveredKept
  <1>13. GoneIsCounted'
    <2>1. \A h \in Buckets : (initialized => h < lastRollupAt) => h < lastRollupAt'
      BY <1>1, <1>3 DEF BucketsEnd
    <2> QED
      BY <1>1, <1>7, <1>8, <2>1, GoneKept
  <1>14. AttributionOK'
    <2>1. \A h, k : Covers(h, k)' => Covers(h, k)
      BY <1>1, <1>6, <1>11 DEF Covers
    <2> QED
      BY <1>1, <1>7, <1>8, <2>1, AttributionKept
  <1>15. TrafficSound' /\ AttributionSound'
    <2>1. traffic' \in [Hour -> [Source -> SUBSET stored]]
            /\ attribution' \in [Hour -> [Kind -> SUBSET stored]]
      BY <1>1 DEF IInv, TrafficSound, AttributionSound
    <2> QED
      BY <1>1, <1>7, <1>8, <2>1, TrafficSoundKept, AttributionSoundKept
  <1> QED
    BY <1>7, <1>9, <1>10, <1>12, <1>13, <1>14, <1>15 DEF IInv

(* The range begins at the first row behind the cursor; without one there  *)
(* is nothing to count.                                                    *)
LEMMA FindRangeKeeps ==
    ASSUME IInv, FindRange PROVE IInv'
  <1>1. /\ tick.at = "earliest" /\ initialized' = initialized
        /\ UNCHANGED <<now, decided, queue, buffer, raw, stored, late, traffic,
                       attribution, owed>>
    BY DEF FindRange, At, logVars, sinkVars
  <1>2. /\ Types /\ now \in Int /\ lastRollupAt \in Int /\ lastRollupAt >= Zero
        /\ tick \in Tick /\ tick.hour \in Int /\ tick.since \in Int
    BY DEF IInv, Types, Slot, Tick
  <1>3. /\ initialized /\ lastRollupAt < tick.hour
        /\ HourOf(tick.since) <= tick.hour /\ tick.hour * SlotsPerHour <= now
    BY <1>1 DEF IInv, Phase, Rolling
  <1>4. Steady
    BY <1>1, <1>2 DEF Steady
  <1>5. \A e : EventHour(e)' = EventHour(e)
    BY <1>1 DEF EventHour
  <1>6. ASSUME NEW e \in raw, ~(EventHour(e) < lastRollupAt), EventHour(e) < tick.hour
        PROVE  EventHour(e) \in HoursToRoll
    <2>1. EventHour(e) \in Hour /\ EventHour(e) \in Nat
      BY <1>2, EventHours DEF Types
    <2> QED
      BY <1>2, <1>6, <2>1 DEF HoursToRoll
  <1>7. CASE HoursToRoll = {} /\ lastRollupAt' = tick.hour /\ tick' = Retention
    <2>1. Types'
      <3>1. tick' \in Tick
        BY <1>2, <1>7, TickRecords
      <3>2. lastRollupAt' \in Int /\ lastRollupAt' >= Zero
        BY <1>2, <1>3, <1>7 DEF Zero
      <3> QED
        BY <1>1, <1>2, <3>1, <3>2 DEF Types, Queued
    <2>2. Timing'
      BY <1>1, <1>2, <1>7, TickRecords DEF IInv, Timing, Queued
    <2>3. Phase'
      <3>1. tick'.at = "retention" /\ tick'.since = tick.since
        BY <1>2, <1>7, TickRecords
      <3>2. HourOf(tick.since)' <= lastRollupAt'
        BY <1>3, <1>7, <3>1 DEF HourOf
      <3> QED
        BY <1>1, <1>3, <3>1, <3>2 DEF Phase, Rolling, Pruning, InChunk
    <2>4. ASSUME NEW e \in stored \ late, NEW h \in Nat, h = EventHour(e),
                 ~Expired(h), h < tick.hour
          PROVE  h < lastRollupAt
      BY <1>3, <1>6, <1>7, <2>4 DEF IInv, GoneIsCounted
    <2>5. AfterLastBucket' = AfterLastBucket /\ \A h : Expired(h)' <=> Expired(h)
      BY <1>1 DEF AfterLastBucket, Buckets, Expired
    <2>6. tick'.at = "retention"
      BY <1>2, <1>7, TickRecords
    <2>7. CoveredHoursAreCounted'
      <3>1. RolledAre'
        BY <2>1, RolledUp, PTL
      <3>2. RolledAre
        BY <1>2, RolledUp
      <3>3. \A h \in Nat : Rolled(h)' => h < tick.hour \/ h < AfterLastBucket
        BY <1>7, <2>5, <2>6 DEF Rolled
      <3>4. \A e \in stored \ late, h \in Nat :
              h = EventHour(e) /\ ~Expired(h) /\ h < RolledUpTo' => h < RolledUpTo
        BY <2>4, <3>1, <3>2, <3>3 DEF RolledAre, Rolled
      <3> QED
        BY <1>1, <1>4, <2>1, <3>4, CoveredKept
    <2>8. GoneIsCounted'
      <3>1. \A h \in Buckets : h < lastRollupAt => h < lastRollupAt'
        <4>1. Buckets \subseteq Int
          BY AccessLogAssumption DEF Buckets, Hour
        <4> QED
          BY <1>2, <1>3, <1>7, <4>1
      <3> QED
        BY <1>1, <1>3, <1>4, <2>1, <3>1, GoneKept
    <2>9. AttributionOK'
      <3>1. ASSUME NEW e \in stored' \ late', NEW k \in Kind, NEW h \in Nat,
                   h = EventHour(e)', ~Expired(h)', Covers(h, k)'
            PROVE  e \in stored /\ Covers(h, k)
        <4>1. e \in stored \ late /\ h = EventHour(e) /\ ~Expired(h)
          BY <1>1, <1>5, <2>5, <3>1
        <4>2. h < tick.hour /\ h \notin owed
          BY <1>1, <1>3, <1>7, <2>6, <3>1 DEF Covers
        <4> QED
          BY <2>4, <4>1, <4>2 DEF Covers
      <3> QED
        BY <1>1, <1>4, <2>1, <3>1, AttributionKept
    <2>10. TrafficSound' /\ AttributionSound'
      <3>1. traffic' \in [Hour -> [Source -> SUBSET stored]]
              /\ attribution' \in [Hour -> [Kind -> SUBSET stored]]
        BY <1>1 DEF IInv, TrafficSound, AttributionSound
      <3> QED
        BY <1>1, <1>4, <2>1, <3>1, TrafficSoundKept, AttributionSoundKept
    <2> QED
      BY <2>1, <2>2, <2>3, <2>7, <2>8, <2>9, <2>10 DEF IInv
  <1>8. ASSUME NEW from \in HoursToRoll, \A h \in HoursToRoll : from <= h,
               tick' = [tick EXCEPT !.at = "traffic", !.from = from],
               lastRollupAt' = lastRollupAt
        PROVE  IInv'
    <2>1. from \in Nat /\ lastRollupAt <= from /\ from < tick.hour
      BY AccessLogAssumption DEF HoursToRoll, Hour
    <2>2. /\ tick' \in Tick /\ tick'.at = "traffic" /\ tick'.from = from
          /\ tick'.since = tick.since /\ tick'.hour = tick.hour
      <3>1. tick' = [tick EXCEPT !.at = "traffic", !.from = from]
        BY <1>8
      <3>2. from \in Int /\ tick \in Tick
        BY <1>2, <2>1
      <3> QED
        BY <3>1, <3>2 DEF Tick, Rolling
    <2>3. Types'
      BY <1>1, <1>2, <1>8, <2>2 DEF Types, Queued
    <2>4. Timing'
      BY <1>1, <2>2 DEF IInv, Timing, Queued
    <2>5. \A e \in raw : EventHour(e) < from => EventHour(e) < lastRollupAt
      <3>1. \A e \in raw : EventHour(e) \in Nat
        BY <1>2, EventHours DEF Types
      <3> QED
        BY <1>2, <1>6, <1>8, <2>1, <3>1
    <2>6. HourOf(tick.since)' = HourOf(tick.since)
      BY <2>2 DEF HourOf
    <2>7. Phase'
      <3>1. lastRollupAt' < tick'.hour /\ HourOf(tick.since)' <= tick'.hour
              /\ tick'.hour * SlotsPerHour <= now'
        BY <1>1, <1>3, <1>8, <2>2, <2>6
      <3>2. lastRollupAt' <= tick'.from /\ tick'.from < tick'.hour
        BY <1>8, <2>1, <2>2
      <3>3. \A e \in raw' : EventHour(e)' < tick'.from => EventHour(e)' < lastRollupAt'
        BY <1>1, <1>5, <1>8, <2>2, <2>5
      <3> QED
        BY <1>1, <1>3, <2>2, <3>1, <3>2, <3>3 DEF Phase, Rolling, Pruning, InChunk
    <2>8. Counts'
      BY <1>1, <1>4, <1>8, <2>2, <2>3, QuietKeeps
    <2> QED
      BY <2>3, <2>4, <2>7, <2>8 DEF IInv, Counts
  <1> QED
    BY <1>7, <1>8 DEF FindRange

(* While a range is rolled up, the rows of its hours are all there, and    *)
(* what is before it is behind the cursor.                                 *)
LEMMA RangeIsThere ==
    ASSUME IInv, tick.at \in InChunk, NEW e \in stored \ late, NEW h,
           h = EventHour(e), ~Expired(h)
    PROVE  /\ h \in Nat /\ h \in Hour /\ decided[e].by \in Source
           /\ h < tick.from => h < lastRollupAt
           /\ ~(h < tick.from) => e \in raw
           /\ e \notin raw => e \in traffic[h][decided[e].by]
  <1>1. e \in DOMAIN decided /\ Types /\ lastRollupAt \in Int /\ tick.from \in Int
    BY DEF IInv, Types, Tick
  <1>2. h \in Nat /\ h \in Hour /\ decided[e].by \in Source
    BY <1>1, EventHours
  <1>3. initialized /\ lastRollupAt <= tick.from
          /\ \A x \in raw : EventHour(x) < tick.from => EventHour(x) < lastRollupAt
    BY DEF IInv, Phase, InChunk, Rolling
  <1>4. e \notin raw => e \in traffic[h][decided[e].by] /\ h < lastRollupAt
    BY <1>3 DEF IInv, GoneIsCounted
  <1> QED
    BY <1>1, <1>2, <1>3, <1>4

(* The traffic statement of a chunk.                                       *)
LEMMA RunRollupKeeps ==
    ASSUME IInv, RunRollup PROVE IInv'
  <1> DEFINE from == tick.from
             New(h, s) == {e \in raw : /\ EventHour(e) >= from /\ EventHour(e) < ChunkEnd
                                       /\ EventHour(e) = h /\ decided[e].by = s}
  <1>1. /\ tick.at = "traffic"
        /\ traffic' = [h \in Hour |-> [s \in Source |->
                         Replaced(traffic[h][s], New(h, s))]]
        /\ tick' = [tick EXCEPT !.at = "attribution", !.to = ChunkEnd,
                                !.kinds = Kind]
    <2>1. \A h, s : New(h, s) = {e \in Rows(tick.from, ChunkEnd) :
                                  EventHour(e) = h /\ decided[e].by = s}
      BY DEF Rows
    <2> HIDE DEF New
    <2> QED
      BY <2>1 DEF RunRollup, At
  <1>2. UNCHANGED <<now, decided, queue, buffer, raw, stored, late, attribution,
                    lastRollupAt, initialized, owed>>
    BY DEF RunRollup, logVars, sinkVars
  <1>3. /\ Types /\ now \in Int /\ lastRollupAt \in Int /\ tick \in Tick
        /\ from \in Int /\ tick.hour \in Int
    BY DEF IInv, Types, Slot, Tick
  <1>4. /\ initialized /\ lastRollupAt < tick.hour /\ HourOf(tick.since) <= tick.hour
        /\ tick.hour * SlotsPerHour <= now
        /\ lastRollupAt <= from /\ from < tick.hour
        /\ \A e \in raw : EventHour(e) < from => EventHour(e) < lastRollupAt
        /\ tick.at \in InChunk
    BY <1>1 DEF IInv, Phase, Rolling, InChunk
  <1>5. ChunkEnd \in Int /\ from < ChunkEnd /\ ChunkEnd <= tick.hour
    BY <1>3, <1>4, TrafficAssumption DEF ChunkEnd, Min2
  <1>6. /\ tick' \in Tick /\ tick'.at = "attribution" /\ tick'.to = ChunkEnd
        /\ tick'.kinds = Kind /\ tick'.from = from /\ tick'.since = tick.since
        /\ tick'.hour = tick.hour
    <2>1. tick' = [tick EXCEPT !.at = "attribution", !.to = ChunkEnd, !.kinds = Kind]
      BY <1>1
    <2> QED
      BY <1>3, <1>5, <2>1 DEF Tick, Rolling
  <1>7. Types'
    BY <1>2, <1>3, <1>6 DEF Types, Queued
  <1>8. Steady
    BY <1>2, <1>3 DEF Steady
  <1>9. Timing'
    BY <1>1, <1>2, <1>6 DEF IInv, Timing, Queued
  <1>10. \A e : EventHour(e)' = EventHour(e) /\ \A h : Expired(h)' <=> Expired(h)
    BY <1>2 DEF EventHour, Expired
  <1>11. Phase'
    <2>1. HourOf(tick.since)' = HourOf(tick.since)
      BY <1>6 DEF HourOf
    <2>2. \A e \in raw' : EventHour(e)' < tick'.from => EventHour(e)' < lastRollupAt'
      BY <1>2, <1>4, <1>6, <1>10
    <2>3. /\ lastRollupAt' < tick'.hour /\ HourOf(tick.since)' <= tick'.hour
          /\ tick'.hour * SlotsPerHour <= now' /\ initialized'
          /\ lastRollupAt' <= tick'.from /\ tick'.from < tick'.hour
          /\ tick'.from < tick'.to /\ tick'.to <= tick'.hour
      BY <1>2, <1>4, <1>5, <1>6, <2>1
    <2> QED
      BY <1>6, <2>2, <2>3 DEF Phase, Rolling, Pruning, InChunk
  <1>12. \A h \in Hour, s \in Source :
           traffic'[h][s] = IF New(h, s) = {} THEN traffic[h][s] ELSE New(h, s)
    <2> HIDE DEF New
    <2> QED
      BY <1>1 DEF Replaced
  <1>13. TrafficSound'
    <2>1. traffic \in [Hour -> [Source -> SUBSET stored]]
      BY DEF IInv, TrafficSound
    <2>2. \A h, s : New(h, s) \subseteq stored
      BY <1>3 DEF Types
    <2>3. traffic' \in [Hour -> [Source -> SUBSET stored']]
      <3> HIDE DEF New
      <3>1. \A h \in Hour, s \in Source :
              Replaced(traffic[h][s], New(h, s)) \in SUBSET stored
        BY <2>1, <2>2 DEF Replaced
      <3> QED
        BY <1>1, <1>2, <3>1
    <2>4. ASSUME NEW h \in Hour, NEW s \in Source, NEW e \in traffic'[h][s]
          PROVE  EventHour(e)' = h /\ decided'[e].by = s
      <3>1. e \in traffic[h][s] \/ e \in New(h, s)
        BY <1>12
      <3> QED
        BY <1>2, <1>10, <3>1 DEF IInv, TrafficSound
    <2> HIDE DEF New
    <2> QED
      BY <2>3, <2>4 DEF TrafficSound, Hour
  <1>14. \A h \in Nat : h < AfterLastBucket' => h < AfterLastBucket \/ h < ChunkEnd
    <2>1. BucketsEnd /\ BucketsEnd'
      <3>1. BucketsEnd'
        BY LastBucket, PTL
      <3> QED
        BY <3>1, LastBucket
    <2>2. \A h \in Buckets' : h \in Buckets \/ h < ChunkEnd
      <3>1. ASSUME NEW h \in Buckets', h \notin Buckets PROVE h < ChunkEnd
        <4>1. h \in Hour /\ \E s \in Source : traffic'[h][s] # {}
          BY DEF Buckets, Hour
        <4>2. PICK s \in Source : traffic'[h][s] # {}
          BY <4>1
        <4>3. traffic[h][s] = {}
          BY <3>1, <4>1 DEF Buckets
        <4>4. New(h, s) # {}
          BY <1>12, <4>1, <4>2, <4>3
        <4> QED
          BY <4>4
      <3> QED
        BY <3>1
    <2>3. AfterLastBucket \in Int /\ AfterLastBucket' \in Int
      BY <2>1 DEF BucketsEnd
    <2>4. AfterLastBucket' # Zero =>
            AfterLastBucket' - 1 < AfterLastBucket \/ AfterLastBucket' - 1 < ChunkEnd
      BY <2>1, <2>2 DEF BucketsEnd, Zero
    <2>5. PICK a, b, c : a = AfterLastBucket' /\ b = AfterLastBucket /\ c = ChunkEnd
      OBVIOUS
    <2>6. a \in Int /\ b \in Int /\ c \in Int /\ (a # -1 => a - 1 < b \/ a - 1 < c)
      BY <1>5, <2>3, <2>4, <2>5 DEF Zero
    <2>7. \A h \in Nat : h < a => h < b \/ h < c
      BY <2>6
    <2> QED
      BY <2>5, <2>7
  <1>15. ASSUME NEW e \in stored \ late, NEW h, h = EventHour(e), ~Expired(h),
                h < from \/ ~(h < ChunkEnd) \/ e \notin raw,
                e \in traffic[h][decided[e].by]
         PROVE  e \in traffic'[h][decided[e].by]
    <2>1. /\ h \in Nat /\ h \in Hour /\ decided[e].by \in Source
          /\ e \notin raw => h < from
      BY <1>4, <1>15, RangeIsThere
    <2>2. New(h, decided[e].by) = {}
      BY <1>3, <1>5, <1>15, <2>1
    <2> QED
      BY <1>12, <1>15, <2>1, <2>2
  <1>16. ASSUME NEW e \in raw, NEW h, h = EventHour(e), ~(h < from), h < ChunkEnd
         PROVE  e \in traffic'[h][decided[e].by]
    <2>1. h \in Hour /\ h \in Nat /\ decided[e].by \in Source
      BY <1>3, <1>16, EventHours DEF Types
    <2>2. e \in New(h, decided[e].by)
      BY <1>3, <1>16, <2>1
    <2> HIDE DEF New
    <2> QED
      BY <1>12, <2>1, <2>2
  <1>17. CoveredHoursAreCounted'
    <2> SUFFICES ASSUME NEW e \in stored \ late, NEW h, h = EventHour(e),
                        h < RolledUpTo', ~Expired(h)
                 PROVE  e \in traffic'[h][decided[e].by]
      BY <1>2, <1>10 DEF CoveredHoursAreCounted, Expired
    <2>0. /\ h \in Nat
          /\ h < from => h < lastRollupAt
          /\ e \notin raw => e \in traffic[h][decided[e].by]
      BY <1>4, RangeIsThere
    <2>1. RolledAre'
      BY <1>7, RolledUp, PTL
    <2>2. RolledAre
      BY <1>3, RolledUp
    <2>3. h < lastRollupAt \/ h < AfterLastBucket \/ h < ChunkEnd
      <3>1. Rolled(h)'
        BY <2>0, <2>1 DEF RolledAre
      <3>2. h < lastRollupAt \/ h < AfterLastBucket' \/ h < ChunkEnd
        BY <1>2, <1>6, <3>1 DEF Rolled
      <3> QED
        BY <1>14, <2>0, <3>2
    <2>4. CASE e \in raw /\ ~(h < from) /\ h < ChunkEnd
      BY <1>16, <2>4
    <2>5. CASE e \notin raw
      BY <1>15, <2>0, <2>5
    <2>6. CASE e \in raw /\ (h < from \/ ~(h < ChunkEnd))
      <3>1. Rolled(h)
        BY <1>3, <1>4, <1>5, <2>0, <2>3, <2>6 DEF Rolled
      <3>2. e \in traffic[h][decided[e].by]
        <4>1. h < RolledUpTo
          BY <2>0, <2>2, <3>1 DEF RolledAre
        <4> QED
          BY <4>1 DEF IInv, CoveredHoursAreCounted
      <3> QED
        BY <1>15, <2>6, <3>2
    <2> QED
      BY <2>4, <2>5, <2>6
  <1>18. GoneIsCounted'
    <2> SUFFICES ASSUME NEW e \in stored \ late, NEW h, h = EventHour(e),
                        e \notin raw, ~Expired(h)
                 PROVE  e \in traffic'[h][decided[e].by] /\ h < lastRollupAt
      BY <1>2, <1>10 DEF GoneIsCounted, Expired
    <2>1. e \in traffic[h][decided[e].by] /\ h < lastRollupAt
      BY <1>4 DEF IInv, GoneIsCounted
    <2> QED
      BY <1>15, <2>1
  <1>19. AttributionOK'
    <2>2. ASSUME NEW h \in Nat, NEW k \in Kind, Covers(h, k)' PROVE Covers(h, k)
      BY <1>2, <1>4, <1>6, <2>2 DEF Covers
    <2> QED
      BY <1>2, <1>7, <1>8, <2>2, AttributionKept
  <1>20. AttributionSound'
    <2>1. attribution' \in [Hour -> [Kind -> SUBSET stored]]
      BY <1>2 DEF IInv, AttributionSound
    <2> QED
      BY <1>2, <1>7, <1>8, <2>1, AttributionSoundKept
  <1> QED
    BY <1>7, <1>9, <1>11, <1>13, <1>17, <1>18, <1>19, <1>20 DEF IInv

(* One attribution statement of a chunk; the last one moves the cursor.    *)
LEMMA RunAttributionKeeps ==
    ASSUME IInv, NEW k \in Kind, RunAttributionRollup(k) PROVE IInv'
  <1> DEFINE from == tick.from
             to == tick.to
             New(h) == {e \in raw : /\ EventHour(e) >= from /\ EventHour(e) < to
                                    /\ EventHour(e) = h /\ Attributes(k, e)}
  <1>1. /\ tick.at = "attribution" /\ k \in tick.kinds
        /\ attribution' = [h \in Hour |->
             [attribution[h] EXCEPT ![k] = Replaced(@, New(h))]]
        /\ \/ /\ tick.kinds # {k}
              /\ tick' = [tick EXCEPT !.kinds = @ \ {k}]
              /\ lastRollupAt' = lastRollupAt
           \/ /\ tick.kinds = {k}
              /\ lastRollupAt' = to
              /\ tick' = AfterChunk
    <2>1. \A h : New(h) = {e \in Rows(tick.from, tick.to) :
                            EventHour(e) = h /\ Attributes(k, e)}
      BY DEF Rows
    <2> HIDE DEF New
    <2> QED
      BY <2>1 DEF RunAttributionRollup, At
  <1>2. UNCHANGED <<now, decided, queue, buffer, raw, stored, late, traffic,
                    initialized, owed>>
    BY DEF RunAttributionRollup, logVars, sinkVars
  <1>3. /\ Types /\ now \in Int /\ lastRollupAt \in Int /\ tick \in Tick
        /\ from \in Int /\ to \in Int /\ tick.hour \in Int
        /\ lastRollupAt >= Zero
    BY DEF IInv, Types, Slot, Tick
  <1>4. /\ initialized /\ lastRollupAt < tick.hour /\ HourOf(tick.since) <= tick.hour
        /\ tick.hour * SlotsPerHour <= now
        /\ lastRollupAt <= from /\ from < tick.hour
        /\ \A e \in raw : EventHour(e) < from => EventHour(e) < lastRollupAt
        /\ from < to /\ to <= tick.hour
        /\ tick.at \in InChunk
    BY <1>1 DEF IInv, Phase, Rolling, InChunk
  (* More kinds to come, another chunk, or the end of the range. *)
  <1>5. \/ /\ lastRollupAt' = lastRollupAt /\ tick'.at = "attribution"
           /\ tick'.kinds = tick.kinds \ {k} /\ tick'.from = from /\ tick'.to = to
           /\ tick'.hour = tick.hour
        \/ /\ tick.kinds = {k} /\ lastRollupAt' = to /\ tick'.at = "traffic"
           /\ tick'.from = to /\ to < tick.hour /\ tick'.hour = tick.hour
        \/ /\ tick.kinds = {k} /\ lastRollupAt' = to /\ tick'.at = "retention"
           /\ to = tick.hour
    <2>1. CASE /\ tick' = [tick EXCEPT !.kinds = @ \ {k}]
               /\ lastRollupAt' = lastRollupAt
      <3>1. tick' = [tick EXCEPT !.kinds = @ \ {k}]
        BY <2>1
      <3> QED
        BY <1>1, <1>3, <2>1, <3>1 DEF Tick
    <2>2. CASE tick.kinds = {k} /\ lastRollupAt' = to /\ tick' = AfterChunk
      <3>1. CASE to < tick.hour
        <4>1. tick' = [tick EXCEPT !.at = "traffic", !.from = to, !.kinds = {}]
          BY <2>2, <3>1 DEF AfterChunk
        <4> QED
          BY <1>3, <2>2, <3>1, <4>1 DEF Tick
      <3>2. CASE ~(to < tick.hour)
        <4>1. tick' = Retention
          BY <2>2, <3>2 DEF AfterChunk
        <4> QED
          BY <1>3, <1>4, <2>2, <3>2, <4>1, TickRecords
      <3> QED
        BY <3>1, <3>2
    <2> QED
      BY <1>1, <2>1, <2>2
  <1>6. tick' \in Tick /\ tick'.since = tick.since
    <2>1. CASE tick' = [tick EXCEPT !.kinds = @ \ {k}]
      BY <1>3, <2>1 DEF Tick
    <2>2. CASE tick' = [tick EXCEPT !.at = "traffic", !.from = to, !.kinds = {}]
      BY <1>3, <2>2 DEF Tick, Rolling
    <2>3. CASE tick' = Retention
      BY <1>3, <2>3, TickRecords
    <2> QED
      BY <1>1, <2>1, <2>2, <2>3 DEF AfterChunk
  <1>7. lastRollupAt <= lastRollupAt' /\ lastRollupAt' \in Int
          /\ (lastRollupAt' = lastRollupAt \/ lastRollupAt' = to)
    BY <1>3, <1>4, <1>5
  <1>8. Types'
    BY <1>2, <1>3, <1>6, <1>7 DEF Types, Queued, Zero
  <1>9. Steady
    BY <1>2, <1>3 DEF Steady
  <1>10. Timing'
    BY <1>1, <1>2, <1>6 DEF IInv, Timing, Queued
  <1>11. \A e : /\ EventHour(e)' = EventHour(e) /\ \A h : Expired(h)' <=> Expired(h)
                /\ \A j : Attributes(j, e)' <=> Attributes(j, e)
    BY <1>2 DEF EventHour, Expired, Attributes
  <1>12. Phase'
    <2>1. HourOf(tick.since)' = HourOf(tick.since)
      BY <1>6 DEF HourOf
    <2>2. CASE tick'.at = "attribution"
      <3>1. \A e \in raw' : EventHour(e)' < tick'.from => EventHour(e)' < lastRollupAt'
        BY <1>2, <1>4, <1>5, <1>11, <2>2
      <3>2. /\ lastRollupAt' < tick'.hour /\ HourOf(tick.since)' <= tick'.hour
            /\ tick'.hour * SlotsPerHour <= now' /\ initialized'
            /\ lastRollupAt' <= tick'.from /\ tick'.from < tick'.hour
            /\ tick'.from < tick'.to /\ tick'.to <= tick'.hour
        BY <1>2, <1>4, <1>5, <2>1, <2>2
      <3> QED
        BY <2>2, <3>1, <3>2 DEF Phase, Rolling, Pruning, InChunk
    <2>3. CASE tick'.at = "traffic"
      <3>1. \A e \in raw' : EventHour(e)' < tick'.from => EventHour(e)' < lastRollupAt'
        BY <1>5, <2>3
      <3>2. /\ lastRollupAt' < tick'.hour /\ HourOf(tick.since)' <= tick'.hour
            /\ tick'.hour * SlotsPerHour <= now' /\ initialized'
            /\ lastRollupAt' <= tick'.from /\ tick'.from < tick'.hour
        BY <1>2, <1>3, <1>4, <1>5, <2>1, <2>3
      <3> QED
        BY <2>3, <3>1, <3>2 DEF Phase, Rolling, Pruning, InChunk
    <2>4. CASE tick'.at = "retention"
      <3>1. HourOf(tick.since)' <= lastRollupAt' /\ initialized'
        BY <1>2, <1>4, <1>5, <2>1, <2>4
      <3> QED
        BY <2>4, <3>1 DEF Phase, Rolling, Pruning, InChunk
    <2> QED
      BY <1>5, <2>2, <2>3, <2>4
  <1>13. \A h \in Hour, j \in Kind :
           attribution'[h][j] =
             IF j = k /\ New(h) # {} THEN New(h) ELSE attribution[h][j]
    <2>1. \A h \in Hour : DOMAIN attribution[h] = Kind
      BY DEF IInv, AttributionSound
    <2> HIDE DEF New
    <2> QED
      BY <1>1, <2>1 DEF Replaced
  <1>14. AttributionSound'
    <2>1. attribution \in [Hour -> [Kind -> SUBSET stored]]
      BY DEF IInv, AttributionSound
    <2>2. \A h : New(h) \subseteq stored
      BY <1>3 DEF Types
    <2>3. attribution' \in [Hour -> [Kind -> SUBSET stored']]
      <3> HIDE DEF New
      <3>1. \A h \in Hour :
              [attribution[h] EXCEPT ![k] = Replaced(@, New(h))] \in [Kind -> SUBSET stored]
        BY <2>1, <2>2 DEF Replaced
      <3> QED
        BY <1>1, <1>2, <3>1
    <2>4. ASSUME NEW h \in Hour, NEW j \in Kind, NEW e \in attribution'[h][j]
          PROVE  EventHour(e)' = h /\ Attributes(j, e)'
      <3>1. e \in attribution[h][j] \/ (j = k /\ e \in New(h))
        BY <1>13
      <3> QED
        BY <1>11, <3>1 DEF IInv, AttributionSound
    <2> HIDE DEF New
    <2> QED
      BY <2>3, <2>4 DEF AttributionSound, Hour
  <1>15. AfterLastBucket' = AfterLastBucket
    BY <1>2 DEF AfterLastBucket, Buckets
  <1>16. CoveredHoursAreCounted'
    <2>1. RolledAre'
      BY <1>8, RolledUp, PTL
    <2>2. RolledAre
      BY <1>3, RolledUp
    <2>3. \A h \in Nat : Rolled(h)' => Rolled(h)
      BY <1>1, <1>5, <1>15 DEF Rolled
    <2>4. \A h \in Nat : h < RolledUpTo' => h < RolledUpTo
      BY <2>1, <2>2, <2>3 DEF RolledAre
    <2> QED
      BY <1>2, <1>8, <1>9, <2>4, CoveredKept
  <1>17. GoneIsCounted'
    <2>1. \A h \in Buckets : h < lastRollupAt => h < lastRollupAt'
      <3>1. Buckets \subseteq Int
        BY AccessLogAssumption DEF Buckets, Hour
      <3> QED
        BY <1>3, <1>7, <3>1
    <2> QED
      BY <1>2, <1>4, <1>8, <1>9, <2>1, GoneKept
  <1>18. AttributionOK'
    <2> SUFFICES ASSUME NEW e \in stored \ late, NEW j \in Kind, NEW h,
                        h = EventHour(e), Covers(h, j)', ~Expired(h), Attributes(j, e)
                 PROVE  e \in attribution'[h][j]
      BY <1>2, <1>11 DEF AttributionOK, Expired, Covers
    <2>1. /\ h \in Nat /\ h \in Hour
          /\ h < from => h < lastRollupAt
          /\ ~(h < from) => e \in raw
      BY <1>4, RangeIsThere
    <2>2. \/ h < lastRollupAt' /\ h \notin owed
          \/ /\ tick'.at = "attribution" /\ j \notin tick'.kinds
             /\ tick'.from <= h /\ h < tick'.to
      BY <1>2, <1>4 DEF Covers
    <2>3. CASE j = k /\ ~(h < from) /\ h < to
      <3>1. e \in New(h)
        BY <1>3, <2>1, <2>3
      <3> HIDE DEF New
      <3> QED
        BY <1>13, <2>1, <2>3, <3>1
    <2>4. CASE j = k /\ (h < from \/ ~(h < to))
      <3>1. h < lastRollupAt /\ h \notin owed
        BY <1>3, <1>4, <1>5, <2>1, <2>2, <2>4
      <3>2. e \in attribution[h][j]
        BY <3>1 DEF IInv, AttributionOK, Covers
      <3>3. New(h) = {}
        BY <1>3, <2>1, <2>4
      <3> QED
        BY <1>13, <2>1, <3>2, <3>3
    <2>5. CASE j # k
      <3>1. Covers(h, j)
        BY <1>1, <1>3, <1>4, <1>5, <2>1, <2>2, <2>5 DEF Covers
      <3>2. e \in attribution[h][j]
        BY <3>1 DEF IInv, AttributionOK
      <3> HIDE DEF New
      <3> QED
        BY <1>13, <2>1, <2>5, <3>2
    <2> QED
      BY <2>3, <2>4, <2>5
  <1>19. TrafficSound'
    <2>1. traffic' \in [Hour -> [Source -> SUBSET stored]]
      BY <1>2 DEF IInv, TrafficSound
    <2> QED
      BY <1>2, <1>8, <1>9, <2>1, TrafficSoundKept
  <1> QED
    BY <1>8, <1>10, <1>12, <1>14, <1>16, <1>17, <1>18, <1>19 DEF IInv
-----------------------------------------------------------------------------
(* Retention.                                                              *)

(* From one statement of the retention job to the next.                    *)
LEMMA PruningPhase ==
    ASSUME IInv, Types', tick.at \in Pruning, tick'.at \in Pruning,
           tick'.since = tick.since, now' = now, decided' = decided,
           UNCHANGED <<queue, buffer, lastRollupAt, initialized>>,
           tick'.at \in {"aggregates", "attributions"} => AggregateRetentionDays > 0,
           tick'.at = "attributions" => tick'.to <= now
    PROVE  Timing' /\ Phase'
  <1>1. HourOf(tick.since)' <= lastRollupAt' /\ initialized'
    BY DEF IInv, Phase, HourOf
  <1>2. tick.at # "idle" /\ tick'.at # "idle" /\ tick'.at \notin Rolling \cup InChunk
    BY DEF Pruning, Rolling, InChunk
  <1>3. Timing'
    BY <1>2 DEF IInv, Timing, Queued
  <1>4. Phase'
    BY <1>1, <1>2 DEF Phase, Rolling, Pruning, InChunk
  <1> QED
    BY <1>3, <1>4

(* The rows that go are of hours behind the cursor, hence counted.         *)
LEMMA PruneAccessLogKeeps ==
    ASSUME IInv, PruneAccessLog PROVE IInv'
  <1> DEFINE cutoff == now - RetentionDays * SlotsPerDay
  <1>1. /\ tick.at = "retention" /\ RetentionDays # 0
        /\ raw' = {e \in raw : decided[e].at >= cutoff}
        /\ tick' = [tick EXCEPT !.at = "events", !.hour = today]
    BY TrafficAssumption DEF PruneAccessLog, At, NothingToPrune, DeleteOlderThan
  <1>2. UNCHANGED <<now, decided, queue, buffer, stored, late, traffic, attribution,
                    lastRollupAt, initialized, owed>>
    BY DEF PruneAccessLog, sinkVars
  <1>3. /\ Types /\ now \in Int /\ lastRollupAt \in Int /\ tick \in Tick
        /\ tick.since \in Int
    BY DEF IInv, Types, Slot, Tick
  <1>4. today \in Int
    <2>1. SlotsPerDay \in Nat \ {0}
      BY AccessLogAssumption, TrafficAssumption DEF SlotsPerDay
    <2> QED
      BY <1>3, <2>1 DEF today
  <1>5. tick' \in Tick /\ tick'.at = "events" /\ tick'.since = tick.since
    <2>1. tick' = [tick EXCEPT !.at = "events", !.hour = today]
      BY <1>1
    <2> QED
      BY <1>3, <1>4, <2>1 DEF Tick, Pruning
  <1>6. Types'
    <2>1. raw' \subseteq stored'
      BY <1>1, <1>2, <1>3 DEF Types
    <2> QED
      BY <1>2, <1>3, <1>5, <2>1 DEF Types, Queued
  <1>7. Timing' /\ Phase'
    BY <1>1, <1>2, <1>5, <1>6, PruningPhase DEF Pruning
  <1>8. Steady
    BY <1>2, <1>3 DEF Steady
  <1>9. AfterLastBucket' = AfterLastBucket
          /\ \A e : EventHour(e)' = EventHour(e) /\ \A h : Expired(h)' <=> Expired(h)
    BY <1>2 DEF AfterLastBucket, Buckets, EventHour, Expired
  <1>10. RolledAre /\ RolledAre'
    <2>1. RolledAre'
      BY <1>6, RolledUp, PTL
    <2> QED
      BY <1>3, <2>1, RolledUp
  <1>11. CoveredHoursAreCounted'
    <2>1. \A h \in Nat : h < RolledUpTo' => h < RolledUpTo
      BY <1>2, <1>5, <1>9, <1>10 DEF RolledAre, Rolled
    <2> QED
      BY <1>2, <1>6, <1>8, <2>1, CoveredKept
  <1>12. GoneIsCounted'
    <2> SUFFICES ASSUME NEW e \in stored \ late, NEW h, h = EventHour(e),
                        e \notin raw', ~Expired(h)
                 PROVE  /\ e \in traffic[h][decided[e].by]
                        /\ initialized => h < lastRollupAt
      BY <1>2, <1>9 DEF GoneIsCounted, Expired
    <2>1. CASE e \notin raw
      BY <2>1 DEF IInv, GoneIsCounted
    <2>2. CASE e \in raw
      <3> DEFINE t == decided[e].at
      <3>1. e \in DOMAIN decided
        BY <1>3 DEF Types
      <3>2. t \in Int /\ h \in Nat
        BY <1>3, <3>1, EventHours
      <3>3. cutoff \in Int
        BY <1>3, AccessLogAssumption, TrafficAssumption DEF SlotsPerDay
      <3>4. t < cutoff
        <4>1. ~(t >= cutoff)
          BY <1>1, <2>2
        <4> HIDE DEF t, cutoff
        <4> QED
          BY <3>2, <3>3, <4>1
      <3>5. tick.since >= now - 1 /\ HourOf(tick.since) <= lastRollupAt
        BY <1>1 DEF IInv, Timing, Phase, Pruning
      <3>6. HourOf(t) < HourOf(tick.since)
        BY <1>1, <1>3, <3>2, <3>4, <3>5, PrunedIsPast
      <3>7. h < lastRollupAt
        <4>1. HourOf(tick.since) \in Int /\ h = HourOf(t)
          BY <1>3, HourBounds DEF EventHour
        <4> QED
          BY <1>3, <3>2, <3>5, <3>6, <4>1
      <3>8. h < RolledUpTo
        BY <1>10, <3>2, <3>7 DEF RolledAre, Rolled
      <3> QED
        BY <3>7, <3>8 DEF IInv, CoveredHoursAreCounted
    <2> QED
      BY <2>1, <2>2
  <1>13. AttributionOK'
    <2>1. \A h, k : Covers(h, k)' => Covers(h, k)
      BY <1>2, <1>5, <1>9 DEF Covers
    <2> QED
      BY <1>2, <1>6, <1>8, <2>1, AttributionKept
  <1>14. TrafficSound' /\ AttributionSound'
    <2>1. traffic' \in [Hour -> [Source -> SUBSET stored]]
            /\ attribution' \in [Hour -> [Kind -> SUBSET stored]]
      BY <1>2 DEF IInv, TrafficSound, AttributionSound
    <2> QED
      BY <1>2, <1>6, <1>8, <2>1, TrafficSoundKept, AttributionSoundKept
  <1> QED
    BY <1>6, <1>7, <1>11, <1>12, <1>13, <1>14 DEF IInv

LEMMA PruneAddressEventsKeeps ==
    ASSUME IInv, PruneAddressEvents PROVE IInv'
  <1>1. UNCHANGED <<now, decided, queue, buffer, raw, stored, late, traffic,
                    attribution, lastRollupAt, initialized, owed>>
    BY DEF PruneAddressEvents, TickDone, logVars, sinkVars
  <1>2. CASE tick' = Idle
    BY <1>1, <1>2, RestKeeps
  <1>3. CASE AggregateRetentionDays > 0 /\ tick' = [tick EXCEPT !.at = "aggregates"]
    <2>1. Types /\ tick \in Tick /\ now \in Int /\ tick.at = "events"
      BY DEF IInv, Types, Slot, PruneAddressEvents, At
    <2>2. tick' \in Tick /\ tick'.at = "aggregates" /\ tick'.since = tick.since
      <3>1. tick' = [tick EXCEPT !.at = "aggregates"]
        BY <1>3
      <3> QED
        BY <2>1, <3>1 DEF Tick, Pruning
    <2>3. Types'
      BY <1>1, <2>1, <2>2 DEF Types, Queued
    <2>4. Timing' /\ Phase'
      BY <1>1, <1>3, <2>1, <2>2, <2>3, PruningPhase DEF Pruning
    <2>5. Steady
      BY <1>1, <2>1 DEF Steady
    <2>6. Counts'
      BY <1>1, <2>2, <2>3, <2>5, QuietKeeps
    <2> QED
      BY <2>3, <2>4, <2>6 DEF IInv, Counts
  <1> QED
    BY <1>2, <1>3 DEF PruneAddressEvents, TickDone

LEMMA DeleteAggregatesKeeps ==
    ASSUME IInv, DeleteAggregatesOlderThan PROVE IInv'
  <1>1. /\ tick.at = "aggregates"
        /\ traffic' = [h \in Hour |->
             IF Expired(h) THEN [s \in Source |-> {}] ELSE traffic[h]]
        /\ tick' = [tick EXCEPT !.at = "attributions", !.to = now]
    BY DEF DeleteAggregatesOlderThan, At
  <1>2. UNCHANGED <<now, decided, queue, buffer, raw, stored, late, attribution,
                    lastRollupAt, initialized, owed>>
    BY DEF DeleteAggregatesOlderThan, logVars, sinkVars
  <1>3. Types /\ tick \in Tick /\ now \in Int
    BY DEF IInv, Types, Slot
  <1>4. /\ tick' \in Tick /\ tick'.at = "attributions" /\ tick'.since = tick.since
        /\ tick'.to = now
    <2>1. tick' = [tick EXCEPT !.at = "attributions", !.to = now]
      BY <1>1
    <2> QED
      BY <1>3, <2>1 DEF Tick, Pruning
  <1>5. Types'
    BY <1>2, <1>3, <1>4 DEF Types, Queued
  <1>6. Timing' /\ Phase'
    <2>1. AggregateRetentionDays > 0 /\ now <= now
      BY <1>1, <1>3 DEF IInv, Phase
    <2> QED
      BY <1>1, <1>2, <1>4, <1>5, <2>1, PruningPhase DEF Pruning
  <1>7. Steady
    BY <1>2, <1>3 DEF Steady
  <1>8. \A h \in Hour, s \in Source :
          /\ traffic'[h][s] \subseteq traffic[h][s]
          /\ ~Expired(h) => traffic'[h][s] = traffic[h][s]
    BY <1>1
  <1>9. \A h : Expired(h)' <=> Expired(h)
    BY <1>2 DEF Expired
  <1>10. \A h \in Nat : h < AfterLastBucket' => h < AfterLastBucket
    <2>1. BucketsEnd'
      BY LastBucket, PTL
    <2>2. BucketsEnd
      BY LastBucket
    <2>3. Buckets' \subseteq Buckets
      BY <1>8 DEF Buckets, Hour
    <2>4. PICK a, b : a = AfterLastBucket' /\ b = AfterLastBucket
      OBVIOUS
    <2>5. a \in Int /\ b \in Int /\ (a # -1 => a - 1 < b)
      BY <2>1, <2>2, <2>3, <2>4 DEF BucketsEnd, Zero
    <2>6. \A h \in Nat : h < a => h < b
      BY <2>5
    <2> QED
      BY <2>4, <2>6
  <1>11. CoveredHoursAreCounted'
    <2>1. RolledAre'
      BY <1>5, RolledUp, PTL
    <2>2. RolledAre
      BY <1>3, RolledUp
    <2>3. \A h \in Nat : Rolled(h)' => Rolled(h)
      BY <1>2, <1>4, <1>10 DEF Rolled
    <2>4. \A h \in Nat : h < RolledUpTo' => h < RolledUpTo
      BY <2>1, <2>2, <2>3 DEF RolledAre
    <2> QED
      BY <1>2, <1>5, <1>7, <1>8, <1>9, <2>4, CoveredKept
  <1>12. GoneIsCounted'
    BY <1>2, <1>5, <1>7, <1>8, <1>9, GoneKept
  <1>13. AttributionOK'
    <2>1. \A h \in Nat : \A k : Covers(h, k)' => Covers(h, k)
      BY <1>2, <1>4, <1>10 DEF Covers
    <2> QED
      BY <1>2, <1>5, <1>7, <2>1, AttributionKept
  <1>14. TrafficSound'
    <2>1. traffic' \in [Hour -> [Source -> SUBSET stored]]
      BY <1>1 DEF IInv, TrafficSound
    <2> QED
      BY <1>2, <1>5, <1>7, <1>8, <2>1, TrafficSoundKept
  <1>15. AttributionSound'
    <2>1. attribution' \in [Hour -> [Kind -> SUBSET stored]]
      BY <1>2 DEF IInv, AttributionSound
    <2> QED
      BY <1>2, <1>5, <1>7, <2>1, AttributionSoundKept
  <1> QED
    BY <1>5, <1>6, <1>11, <1>12, <1>13, <1>14, <1>15 DEF IInv

LEMMA DeleteAttributionsKeeps ==
    ASSUME IInv, DeleteAttributionAggregatesOlderThan PROVE IInv'
  <1> DEFINE Old(h) ==
               h * SlotsPerHour < tick.to - AggregateRetentionDays * SlotsPerDay
  <1>1. /\ tick.at = "attributions" /\ tick' = Idle
        /\ attribution' = [h \in Hour |->
             IF Old(h) THEN [k \in Kind |-> {}] ELSE attribution[h]]
    BY DEF DeleteAttributionAggregatesOlderThan, At, TickDone
  <1>2. UNCHANGED <<now, decided, queue, buffer, raw, stored, late, traffic,
                    lastRollupAt, initialized, owed>>
    BY DEF DeleteAttributionAggregatesOlderThan, TickDone
  <1>3. Types /\ tick \in Tick /\ now \in Int /\ tick.to \in Int
    BY DEF IInv, Types, Slot, Tick
  <1>4. tick.to <= now /\ AggregateRetentionDays > 0
    BY <1>1 DEF IInv, Phase
  <1>5. tick' \in Tick /\ tick'.at = "idle"
    BY <1>1, <1>3, TickRecords
  <1>6. Types'
    BY <1>2, <1>3, <1>5 DEF Types, Queued
  <1>7. Timing' /\ Phase'
    BY <1>2, <1>5 DEF IInv, Timing, Phase, Queued, Rolling, Pruning, InChunk
  <1>8. Steady
    BY <1>2, <1>3 DEF Steady
  <1>9. \A h \in Hour : Old(h) => Expired(h)
    <2>1. Hour \subseteq Int /\ SlotsPerHour \in Int
      BY AccessLogAssumption DEF Hour
    <2>2. AggregateRetentionDays * SlotsPerDay \in Int
      BY AccessLogAssumption, TrafficAssumption DEF SlotsPerDay
    <2>3. PICK d : d = AggregateRetentionDays * SlotsPerDay
      OBVIOUS
    <2>4. ASSUME NEW h \in Hour, h * SlotsPerHour < tick.to - d
          PROVE  h * SlotsPerHour < now - d
      <3>1. h * SlotsPerHour \in Int
        BY <2>1
      <3> QED
        BY <1>3, <1>4, <2>2, <2>3, <2>4, <3>1
    <2> QED
      BY <1>4, <2>3, <2>4 DEF Expired
  <1>10. \A h \in Hour, k \in Kind :
           /\ attribution'[h][k] \subseteq attribution[h][k]
           /\ ~Expired(h) => attribution'[h][k] = attribution[h][k]
    <2> HIDE DEF Old
    <2> QED
      BY <1>1, <1>9
  <1>11. AfterLastBucket' = AfterLastBucket /\ \A h : Expired(h)' <=> Expired(h)
    BY <1>2 DEF AfterLastBucket, Buckets, Expired
  <1>12. CoveredHoursAreCounted'
    <2>1. RolledAre'
      BY <1>6, RolledUp, PTL
    <2>2. RolledAre
      BY <1>3, RolledUp
    <2>3. \A h \in Nat : h < RolledUpTo' => h < RolledUpTo
      BY <1>2, <1>5, <1>11, <2>1, <2>2 DEF RolledAre, Rolled
    <2> QED
      BY <1>2, <1>6, <1>8, <2>3, CoveredKept
  <1>13. GoneIsCounted'
    BY <1>2, <1>6, <1>8, GoneKept
  <1>14. AttributionOK'
    <2>1. \A h, k : Covers(h, k)' => Covers(h, k)
      BY <1>2, <1>5, <1>11 DEF Covers
    <2> QED
      BY <1>2, <1>6, <1>8, <1>10, <1>11, <2>1, AttributionKept
  <1>15. TrafficSound'
    <2>1. traffic' \in [Hour -> [Source -> SUBSET stored]]
      BY <1>2 DEF IInv, TrafficSound
    <2> QED
      BY <1>2, <1>6, <1>8, <2>1, TrafficSoundKept
  <1>16. AttributionSound'
    <2>1. attribution' \in [Hour -> [Kind -> SUBSET stored]]
      <3> HIDE DEF Old
      <3> QED
        BY <1>1 DEF IInv, AttributionSound
    <2> QED
      BY <1>2, <1>6, <1>8, <1>10, <2>1, AttributionSoundKept
  <1> QED
    BY <1>6, <1>7, <1>12, <1>13, <1>14, <1>15, <1>16 DEF IInv
-----------------------------------------------------------------------------
LEMMA InitIInv == Init => IInv
  <1> SUFFICES ASSUME Init PROVE IInv
    OBVIOUS
  <1>1. /\ now = 0 /\ decided = <<>> /\ queue = <<>> /\ buffer = {} /\ raw = {}
        /\ stored = {} /\ lastRollupAt = -1 /\ initialized = FALSE /\ tick = Idle
        /\ traffic = [h \in Hour |-> [s \in Source |-> {}]]
        /\ attribution = [h \in Hour |-> [k \in Kind |-> {}]]
    BY DEF Init, LogInit, Zero
  <1>2. Idle \in Tick /\ Idle.at = "idle"
    BY DEF Idle, Tick
  <1>3. Queued = {} /\ DOMAIN decided = {}
    BY <1>1 DEF Queued
  <1>4. Types
    <2>1. now \in Slot
      BY <1>1, AccessLogAssumption DEF Slot
    <2>2. decided \in Seq([at : Slot, by : Source]) /\ queue \in Seq(Nat)
      <3>1. \A S : <<>> \in Seq(S)
        BY EmptySeq
      <3> QED
        BY <1>1, <3>1
    <2>3. lastRollupAt \in Int /\ lastRollupAt >= Zero
      BY <1>1 DEF Zero
    <2>4. initialized \in BOOLEAN
      BY <1>1
    <2> QED
      BY <1>1, <1>2, <1>3, <2>1, <2>2, <2>3, <2>4 DEF Types
  <1>5. Timing /\ Phase
    BY <1>1, <1>2, <1>3 DEF Timing, Phase, Rolling, Pruning, InChunk
  <1>6. GoneIsCounted /\ CoveredHoursAreCounted /\ AttributionOK
    BY <1>1 DEF GoneIsCounted, CoveredHoursAreCounted, AttributionOK
  <1>7. TrafficSound /\ AttributionSound
    BY <1>1 DEF TrafficSound, AttributionSound
  <1> QED
    BY <1>4, <1>5, <1>6, <1>7 DEF IInv

LEMMA NextIInv == IInv /\ [Next]_vars => IInv'
  <1> SUFFICES ASSUME IInv, [Next]_vars PROVE IInv'
    OBVIOUS
  <1>1. CASE Advance
    BY <1>1, AdvanceKeeps
  <1>2. ASSUME NEW s \in Source, Decide(s) PROVE IInv'
    BY <1>2, DecideKeeps
  <1>3. CASE Sink
    BY <1>3, SinkKeeps
  <1>4. CASE \/ StartProcess \/ Shutdown \/ Exit \/ Crash \/ RunSchedule
             \/ TickFails \/ TickCancelled
    BY <1>4, ProcessKeeps
  <1>5. CASE StartRollup
    BY <1>5, StartRollupKeeps
  <1>6. CASE FindRange
    BY <1>6, FindRangeKeeps
  <1>7. CASE RunRollup
    BY <1>7, RunRollupKeeps
  <1>8. ASSUME NEW k \in Kind, RunAttributionRollup(k) PROVE IInv'
    BY <1>8, RunAttributionKeeps
  <1>9. CASE SkipRetention
    BY <1>9, RestKeeps DEF SkipRetention, TickDone
  <1>10. CASE PruneAccessLog
    BY <1>10, PruneAccessLogKeeps
  <1>11. CASE PruneAddressEvents
    BY <1>11, PruneAddressEventsKeeps
  <1>12. CASE DeleteAggregatesOlderThan
    BY <1>12, DeleteAggregatesKeeps
  <1>13. CASE DeleteAttributionAggregatesOlderThan
    BY <1>13, DeleteAttributionsKeeps
  <1>14. CASE UNCHANGED vars
    BY <1>14, RestKeeps DEF vars, logVars, sinkVars, jobVars
  <1> QED
    BY <1>1, <1>2, <1>3, <1>4, <1>5, <1>6, <1>7, <1>8, <1>9, <1>10, <1>11, <1>12,
       <1>13, <1>14 DEF Next, Job

LEMMA Invariance == Spec => []IInv
  BY InitIInv, NextIInv, PTL DEF Spec
-----------------------------------------------------------------------------
(* The dashboards.  The events of G in the hours from x to y are counted   *)
(* by the rows and by the buckets alike.                                   *)
InHours(G, x, y) == {e \in stored : x <= EventHour(e) /\ EventHour(e) < y /\ e \in G}

LEMMA FiniteEvents ==
    ASSUME Types, NEW S \in SUBSET stored
    PROVE  IsFiniteSet(S) /\ Cardinality(S) \in Nat
  <1>1. IsFiniteSet(Event)
    BY AccessLogAssumption, FS_Interval DEF Event
  <1>2. S \in SUBSET Event
    BY DEF Types
  <1> QED
    BY <1>1, <1>2, FS_Subset, FS_CardinalityType

LEMMA PathsAgree ==
    ASSUME IInv, NEW a \in Nat, NEW b \in Nat, NEW x \in a .. b, NEW y \in a .. b,
           NEW G, NEW bucket,
           \A h \in Hour : \A e \in bucket[h] :
             e \in stored /\ EventHour(e) = h /\ e \in G,
           \A e \in InHours(G, a, b) : e \in raw /\ e \in bucket[EventHour(e)]
    PROVE  /\ {e \in raw : /\ x * SlotsPerHour <= decided[e].at
                           /\ decided[e].at < y * SlotsPerHour /\ e \in G}
                = InHours(G, x, y)
           /\ Cardinality({z \in Hour \X Event :
                             /\ x * SlotsPerHour <= z[1] * SlotsPerHour
                             /\ z[1] * SlotsPerHour < y * SlotsPerHour
                             /\ z[2] \in bucket[z[1]]})
                = Cardinality(InHours(G, x, y))
  <1> DEFINE n == SlotsPerHour
             S == InHours(G, x, y)
             T == {z \in Hour \X Event : /\ x * n <= z[1] * n /\ z[1] * n < y * n
                                         /\ z[2] \in bucket[z[1]]}
  <1>1. Types /\ stored \subseteq DOMAIN decided /\ stored \subseteq Event
          /\ raw \subseteq stored /\ n \in Nat \ {0} /\ x \in Int /\ y \in Int
    BY AccessLogAssumption DEF IInv, Types
  <1>2. \A e \in stored : /\ EventHour(e) \in Hour /\ EventHour(e) \in Nat
                          /\ decided[e].at \in Int /\ Hour \subseteq Nat
    BY <1>1, EventHours
  <1>3. S \subseteq InHours(G, a, b)
    BY <1>2 DEF InHours
  <1>4. \A e \in stored : /\ x <= EventHour(e) <=> x * n <= decided[e].at
                          /\ EventHour(e) < y <=> decided[e].at < y * n
    BY <1>1, <1>2, HourAtMost DEF EventHour
  <1>5. {e \in raw : x * n <= decided[e].at /\ decided[e].at < y * n /\ e \in G} = S
    BY <1>1, <1>3, <1>4 DEF InHours
  <1>6. \A h \in Nat : /\ x * n <= h * n <=> x <= h
                       /\ h * n < y * n <=> h < y
    <2>1. \A u, v \in Int : u < v => u * n + n <= v * n
      BY <1>1, Multiples
    <2>2. \A u \in Int : u * n \in Int
      BY <1>1
    <2>3. \A u, v \in Int : u < v <=> u * n < v * n
      <3> SUFFICES ASSUME NEW u \in Int, NEW v \in Int PROVE u < v <=> u * n < v * n
        OBVIOUS
      <3>1. CASE u < v
        <4>1. u * n + n <= v * n /\ u * n \in Int /\ v * n \in Int
          BY <2>1, <2>2, <3>1
        <4> HIDE DEF n
        <4> QED
          BY <1>1, <3>1, <4>1
      <3>2. CASE v < u
        <4>1. v * n + n <= u * n /\ u * n \in Int /\ v * n \in Int
          BY <2>1, <2>2, <3>2
        <4> HIDE DEF n
        <4> QED
          BY <1>1, <3>2, <4>1
      <3>3. CASE u = v
        BY <2>2, <3>3
      <3> QED
        BY <3>1, <3>2, <3>3
    <2>4. \A u, v \in Int : u <= v <=> u * n <= v * n
      <3>1. \A u, v \in Int : u <= v <=> ~(v < u)
        OBVIOUS
      <3>2. \A u, v \in Int : u * n <= v * n <=> ~(v * n < u * n)
        <4> HIDE DEF n
        <4> QED
          BY <2>2
      <3> QED
        BY <2>3, <3>1, <3>2
    <2> QED
      BY <1>1, <2>3, <2>4
  <1>7. \A z : z \in T <=> /\ z \in Hour \X Event /\ x <= z[1] /\ z[1] < y
                          /\ z[2] \in bucket[z[1]]
    <2>1. Hour \subseteq Nat
      BY AccessLogAssumption DEF Hour
    <2> QED
      BY <1>6, <2>1
  <1> HIDE DEF T, S
  <1> DEFINE g == [e \in S |-> <<EventHour(e), e>>]
  <1>8. \A e \in S : <<EventHour(e), e>> \in T
    <2> SUFFICES ASSUME NEW e \in S PROVE <<EventHour(e), e>> \in T
      OBVIOUS
    <2>1. e \in stored /\ x <= EventHour(e) /\ EventHour(e) < y
      BY DEF S, InHours
    <2>2. e \in bucket[EventHour(e)]
      BY <1>3
    <2> QED
      BY <1>1, <1>2, <1>7, <2>1, <2>2
  <1>9. \A z \in T : z[2] \in S /\ z = <<EventHour(z[2]), z[2]>>
    <2> SUFFICES ASSUME NEW z \in T
                 PROVE  z[2] \in S /\ z = <<EventHour(z[2]), z[2]>>
      OBVIOUS
    <2>1. /\ z \in Hour \X Event /\ x <= z[1] /\ z[1] < y
          /\ z[2] \in bucket[z[1]]
      BY <1>7
    <2>2. z[2] \in stored /\ EventHour(z[2]) = z[1] /\ z[2] \in G
      BY <2>1
    <2> QED
      BY <2>1, <2>2 DEF S, InHours
  <1>10. g \in Bijection(S, T)
    <2>1. g \in [S -> T]
      BY <1>8
    <2>2. \A e, f \in S : g[e] = g[f] => e = f
      OBVIOUS
    <2>3. \A z \in T : \E e \in S : g[e] = z
      BY <1>9
    <2> HIDE DEF g
    <2> QED
      BY <2>1, <2>2, <2>3 DEF Bijection, Injection, Surjection, IsInjective
  <1>11. IsFiniteSet(S)
    <2>1. S \in SUBSET stored
      BY DEF S, InHours
    <2> QED
      BY <1>1, <2>1, FiniteEvents
  <1>12. Cardinality(T) = Cardinality(S)
    BY <1>10, <1>11, FS_Bijection DEF ExistsBijection
  <1> QED
    BY <1>5, <1>12 DEF T, S

(* Cutting a range of hours in two cuts its events in two.                 *)
LEMMA HoursAddUp ==
    ASSUME IInv, NEW a \in Nat, NEW b \in Nat, NEW c \in a .. b, NEW G
    PROVE  Cardinality(InHours(G, a, b)) =
             Cardinality(InHours(G, a, c)) + Cardinality(InHours(G, c, b))
  <1> DEFINE S == InHours(G, a, c)
             T == InHours(G, c, b)
  <1>1. Types /\ \A e \in stored : EventHour(e) \in Nat
    BY EventHours DEF IInv, Types
  <1>2. InHours(G, a, b) = S \cup T /\ S \cap T = {}
    BY <1>1 DEF InHours
  <1>3. S \in SUBSET stored /\ T \in SUBSET stored
    BY DEF InHours
  <1>4. /\ IsFiniteSet(S) /\ IsFiniteSet(T)
        /\ Cardinality(S) \in Nat /\ Cardinality(T) \in Nat
    BY <1>1, <1>3, FiniteEvents
  <1> HIDE DEF S, T
  <1>5. Cardinality(S \cup T) = Cardinality(S) + Cardinality(T) - Cardinality(S \cap T)
    BY <1>4, FS_Union
  <1>6. Cardinality(S \cap T) = 0
    BY <1>2, FS_EmptySet
  <1> QED
    BY <1>2, <1>4, <1>5, <1>6 DEF S, T

(* In a range that is intact the rows of every hour are there, came in     *)
(* time, and are not past the retention.                                   *)
LEMMA IntactHours ==
    ASSUME IInv, NEW a \in Nat, NEW b \in Nat, Intact(a, b), NEW e \in stored,
           a <= EventHour(e), EventHour(e) < b
    PROVE  /\ e \in raw /\ e \notin late /\ ~Expired(EventHour(e))
           /\ EventHour(e) \in Nat /\ EventHour(e) \in a .. b - 1
           /\ decided[e].by \in Source
  <1>1. /\ Types /\ EventHour(e) \in Nat /\ now \in Int
        /\ decided[e].by \in Source
    BY EventHours DEF IInv, Types, Slot
  <1>2. PICK h : h = EventHour(e)
    OBVIOUS
  <1>3. h \in Nat /\ a <= h /\ h < b
    BY <1>1, <1>2
  <1>4. h \in a .. b - 1
    BY <1>3
  <1>5. e \in raw \ late
    BY <1>2, <1>4 DEF Intact
  <1>6. ~Expired(h)
    <2>1. SlotsPerHour \in Nat \ {0}
            /\ AggregateRetentionDays * SlotsPerDay \in Int
      BY AccessLogAssumption, TrafficAssumption DEF SlotsPerDay
    <2>2. PICK p, q, d : /\ p = a * SlotsPerHour /\ q = h * SlotsPerHour
                         /\ d = AggregateRetentionDays * SlotsPerDay
      OBVIOUS
    <2>3. p \in Int /\ q \in Int /\ d \in Int
      BY <1>3, <2>1, <2>2
    <2>4. a < h => p + SlotsPerHour <= q
      BY <1>3, <2>1, <2>2, Multiples
    <2>5. a = h => p = q
      BY <2>2
    <2>6. p <= q
      BY <1>3, <2>1, <2>3, <2>4, <2>5
    <2>7. AggregateRetentionDays > 0 => ~(p < now - d)
      BY <2>2 DEF Intact, Expired
    <2>8. AggregateRetentionDays > 0 => ~(q < now - d)
      BY <1>1, <2>3, <2>6, <2>7
    <2> QED
      BY <2>2, <2>8 DEF Expired
  <1> QED
    BY <1>1, <1>2, <1>4, <1>5, <1>6

LEMMA SummaryIsCount ==
    ASSUME IInv, NEW a \in Nat, NEW b \in Nat, Intact(a, b), b <= RolledUpTo,
           NEW s \in Source, NEW x \in a .. b, NEW y \in a .. b,
           NEW G, G = {e \in stored : decided[e].by = s}
    PROVE  GetSummaryStats(s, x * SlotsPerHour, y * SlotsPerHour) =
             Cardinality(InHours(G, x, y))
  <1> DEFINE bucket == [h \in Hour |-> traffic[h][s]]
  <1>1. Types /\ RolledUpTo \in Int /\ raw \subseteq stored
    <2>1. Types /\ raw \subseteq stored
      BY DEF IInv, Types
    <2>2. lastRollupAt \in Int /\ tick.to \in Int
      BY <2>1 DEF Types, Tick
    <2>3. AfterLastBucket \in Int
      BY LastBucket DEF BucketsEnd
    <2>4. RolledUpTo \in Int
      BY <2>2, <2>3 DEF RolledUpTo, Max2, Zero
    <2> QED
      BY <2>1, <2>4
  <1>2. \A h \in Hour : \A e \in bucket[h] : e \in stored /\ EventHour(e) = h /\ e \in G
    <2> SUFFICES ASSUME NEW h \in Hour, NEW e \in traffic[h][s]
                 PROVE  e \in stored /\ EventHour(e) = h /\ decided[e].by = s
      OBVIOUS
    <2> QED
      BY DEF IInv, TrafficSound
  <1>3. ASSUME NEW e \in InHours(G, a, b)
        PROVE  e \in raw /\ e \in bucket[EventHour(e)]
    <2>1. e \in stored /\ a <= EventHour(e) /\ EventHour(e) < b /\ decided[e].by = s
      BY DEF InHours
    <2>2. /\ e \in raw /\ e \notin late /\ ~Expired(EventHour(e))
          /\ EventHour(e) \in Nat
      BY <2>1, IntactHours
    <2>3. EventHour(e) < RolledUpTo
      BY <1>1, <2>1, <2>2
    <2>4. e \in traffic[EventHour(e)][s]
      BY <2>1, <2>2, <2>3 DEF IInv, CoveredHoursAreCounted
    <2>5. EventHour(e) \in Hour
      BY <1>1, <2>1, EventHours DEF Types
    <2> QED
      BY <2>2, <2>4, <2>5
  <1> HIDE DEF bucket
  <1>4. /\ {e \in raw : /\ x * SlotsPerHour <= decided[e].at
                        /\ decided[e].at < y * SlotsPerHour /\ e \in G}
             = InHours(G, x, y)
        /\ Cardinality({z \in Hour \X Event :
                          /\ x * SlotsPerHour <= z[1] * SlotsPerHour
                          /\ z[1] * SlotsPerHour < y * SlotsPerHour
                          /\ z[2] \in bucket[z[1]]})
             = Cardinality(InHours(G, x, y))
    BY <1>2, <1>3, PathsAgree
  <1>5. {e \in raw : /\ x * SlotsPerHour <= decided[e].at
                     /\ decided[e].at < y * SlotsPerHour /\ decided[e].by = s}
          = InHours(G, x, y)
    BY <1>1, <1>4
  <1>6. {z \in Hour \X Event : /\ x * SlotsPerHour <= z[1] * SlotsPerHour
                               /\ z[1] * SlotsPerHour < y * SlotsPerHour
                               /\ z[2] \in traffic[z[1]][s]} =
        {z \in Hour \X Event : /\ x * SlotsPerHour <= z[1] * SlotsPerHour
                               /\ z[1] * SlotsPerHour < y * SlotsPerHour
                               /\ z[2] \in bucket[z[1]]}
    BY DEF bucket
  <1> QED
    BY <1>4, <1>5, <1>6 DEF GetSummaryStats, getRawSummaryStats,
                            getAggregateSummaryStats

LEMMA SplitIsCount ==
    ASSUME IInv, NEW a \in Nat, NEW b \in Nat, Intact(a, b), b <= lastRollupAt,
           (a .. b - 1) \cap owed = {},
           NEW k \in Kind, NEW x \in a .. b, NEW y \in a .. b,
           NEW G, G = {e \in stored : Attributes(k, e)}
    PROVE  GetAttributionSplit(k, x * SlotsPerHour, y * SlotsPerHour) =
             Cardinality(InHours(G, x, y))
  <1> DEFINE bucket == [h \in Hour |-> attribution[h][k]]
  <1>1. Types /\ lastRollupAt \in Int /\ raw \subseteq stored
    BY DEF IInv, Types
  <1>2. \A h \in Hour : \A e \in bucket[h] : e \in stored /\ EventHour(e) = h /\ e \in G
    <2> SUFFICES ASSUME NEW h \in Hour, NEW e \in attribution[h][k]
                 PROVE  e \in stored /\ EventHour(e) = h /\ Attributes(k, e)
      OBVIOUS
    <2> QED
      BY DEF IInv, AttributionSound
  <1>3. ASSUME NEW e \in InHours(G, a, b)
        PROVE  e \in raw /\ e \in bucket[EventHour(e)]
    <2>1. e \in stored /\ a <= EventHour(e) /\ EventHour(e) < b /\ Attributes(k, e)
      BY DEF InHours
    <2>2. /\ e \in raw /\ e \notin late /\ ~Expired(EventHour(e))
          /\ EventHour(e) \in Nat /\ EventHour(e) \in a .. b - 1
      BY <2>1, IntactHours
    <2>3. Covers(EventHour(e), k)
      BY <1>1, <2>1, <2>2 DEF Covers
    <2>4. e \in attribution[EventHour(e)][k]
      BY <2>1, <2>2, <2>3 DEF IInv, AttributionOK
    <2>5. EventHour(e) \in Hour
      BY <1>1, <2>1, EventHours DEF Types
    <2> QED
      BY <2>2, <2>4, <2>5
  <1> HIDE DEF bucket
  <1>4. /\ {e \in raw : /\ x * SlotsPerHour <= decided[e].at
                        /\ decided[e].at < y * SlotsPerHour /\ e \in G}
             = InHours(G, x, y)
        /\ Cardinality({z \in Hour \X Event :
                          /\ x * SlotsPerHour <= z[1] * SlotsPerHour
                          /\ z[1] * SlotsPerHour < y * SlotsPerHour
                          /\ z[2] \in bucket[z[1]]})
             = Cardinality(InHours(G, x, y))
    <2>1. \A e \in InHours(G, a, b) : e \in raw /\ e \in bucket[EventHour(e)]
      BY <1>3
    <2>2. /\ IInv /\ a \in Nat /\ b \in Nat /\ x \in a .. b /\ y \in a .. b
      OBVIOUS
    <2> QED
      BY ONLY <1>2, <2>1, <2>2, PathsAgree
  <1>5. {e \in raw : /\ x * SlotsPerHour <= decided[e].at
                     /\ decided[e].at < y * SlotsPerHour /\ Attributes(k, e)}
          = InHours(G, x, y)
    BY <1>1, <1>4
  <1>6. {z \in Hour \X Event : /\ x * SlotsPerHour <= z[1] * SlotsPerHour
                               /\ z[1] * SlotsPerHour < y * SlotsPerHour
                               /\ z[2] \in attribution[z[1]][k]} =
        {z \in Hour \X Event : /\ x * SlotsPerHour <= z[1] * SlotsPerHour
                               /\ z[1] * SlotsPerHour < y * SlotsPerHour
                               /\ z[2] \in bucket[z[1]]}
    BY DEF bucket
  <1> QED
    BY <1>4, <1>5, <1>6 DEF GetAttributionSplit, getRawAttributionSplit,
                            getAggregateAttributionSplit

LEMMA NumbersAddUp == IInv => ZoomingAgrees
  <1> SUFFICES ASSUME IInv, NEW a \in Hour, NEW b \in Hour, a < b, Intact(a, b),
                      NEW c \in a .. b
        PROVE  /\ b <= RolledUpTo => \A s \in Source :
                    GetSummaryStats(s, a * SlotsPerHour, b * SlotsPerHour) =
                      GetSummaryStats(s, a * SlotsPerHour, c * SlotsPerHour)
                        + GetSummaryStats(s, c * SlotsPerHour, b * SlotsPerHour)
               /\ b <= lastRollupAt /\ (a .. b - 1) \cap owed = {} => \A k \in Kind :
                    GetAttributionSplit(k, a * SlotsPerHour, b * SlotsPerHour) =
                      GetAttributionSplit(k, a * SlotsPerHour, c * SlotsPerHour)
                        + GetAttributionSplit(k, c * SlotsPerHour, b * SlotsPerHour)
    BY DEF ZoomingAgrees
  <1>1. a \in Nat /\ b \in Nat /\ a \in a .. b /\ b \in a .. b
    BY AccessLogAssumption DEF Hour
  <1>2. ASSUME b <= RolledUpTo, NEW s \in Source
        PROVE  GetSummaryStats(s, a * SlotsPerHour, b * SlotsPerHour) =
                 GetSummaryStats(s, a * SlotsPerHour, c * SlotsPerHour)
                   + GetSummaryStats(s, c * SlotsPerHour, b * SlotsPerHour)
    <2>1. PICK G : G = {e \in stored : decided[e].by = s}
      OBVIOUS
    <2>2. \A x, y \in a .. b :
            GetSummaryStats(s, x * SlotsPerHour, y * SlotsPerHour) =
              Cardinality(InHours(G, x, y))
      BY <1>1, <1>2, <2>1, SummaryIsCount
    <2>3. Cardinality(InHours(G, a, b)) =
            Cardinality(InHours(G, a, c)) + Cardinality(InHours(G, c, b))
      BY <1>1, HoursAddUp
    <2> QED
      BY <1>1, <2>2, <2>3
  <1>3. ASSUME b <= lastRollupAt, (a .. b - 1) \cap owed = {}, NEW k \in Kind
        PROVE  GetAttributionSplit(k, a * SlotsPerHour, b * SlotsPerHour) =
                 GetAttributionSplit(k, a * SlotsPerHour, c * SlotsPerHour)
                   + GetAttributionSplit(k, c * SlotsPerHour, b * SlotsPerHour)
    <2>1. PICK G : G = {e \in stored : Attributes(k, e)}
      OBVIOUS
    <2>2. \A x, y \in a .. b :
            GetAttributionSplit(k, x * SlotsPerHour, y * SlotsPerHour) =
              Cardinality(InHours(G, x, y))
      BY <1>1, <1>3, <2>1, SplitIsCount
    <2>3. Cardinality(InHours(G, a, b)) =
            Cardinality(InHours(G, a, c)) + Cardinality(InHours(G, c, b))
      BY <1>1, HoursAddUp
    <2> QED
      BY <1>1, <2>2, <2>3
  <1> QED
    BY <1>2, <1>3
-----------------------------------------------------------------------------
(* Whatever errors, crashes, restarts and prunings come in between, an     *)
(* hour that was rolled up and is still kept counts every row that was in  *)
(* the table then (RollupJob.Run, RetentionJob.Run).                       *)
THEOREM RolledHoursAreCounted == Spec => []CoveredHoursAreCounted
  <1>1. IInv => CoveredHoursAreCounted
    BY DEF IInv
  <1> QED
    BY <1>1, Invariance, PTL

(* A catch-up that failed half way completes the attributions of the hours *)
(* it passes when it is retried, but for those that were owed at a restart.*)
THEOREM RetriesComplete == Spec => []RetriesCompleteAttribution
  <1>1. IInv => RetriesCompleteAttribution
    BY DEF IInv, AttributionOK, Covers, RetriesCompleteAttribution
  <1> QED
    BY <1>1, Invariance, PTL

(* The dashboards' two paths agree: over hours that are rolled up and      *)
(* whose rows are all there, the answers for the parts of a window add up  *)
(* to the answer for the whole, whichever path each one takes.             *)
THEOREM ZoomingChangesNothing == Spec => []ZoomingAgrees
  BY Invariance, NumbersAddUp, PTL
=============================================================================
