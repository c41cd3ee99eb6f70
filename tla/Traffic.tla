------------------------------ MODULE Traffic -------------------------------
(***************************************************************************)
(* The traffic statistics: the access log's sink composed with the         *)
(* scheduler (internal/scheduler) and its rollup and retention jobs        *)
(* (internal/rollup).  A tick runs the jobs in order and stops at the      *)
(* first error; every database statement of a job is a step of its own,    *)
(* so a flush, an error, a shutdown or a crash may come between any two.   *)
(*                                                                         *)
(* The lease expiry job, which comes first in every tick, is modelled in   *)
(* Lease; here it is only one more way for a tick to fail.                 *)
(***************************************************************************)
EXTENDS AccessLog

CONSTANTS
    HoursPerDay,             \* 24 outside a model
    ChunkHours,              \* catchUpChunk (24 in the code)
    Kind,                    \* the attribution kinds
    RetentionDays,           \* DATA_RETENTION_DAYS, 0 is off
    AggregateRetentionDays,  \* AGGREGATE_RETENTION_DAYS, 0 is off
    MaxStops                 \* bound: crashes and shutdowns

AttributionKind == {"policy", "user", "device"}

(* config.go refuses aggregates that are kept for less time than the rows. *)
ASSUME TrafficAssumption ==
    /\ HoursPerDay \in Nat \ {0} /\ ChunkHours \in Nat \ {0}
    /\ Kind \subseteq AttributionKind /\ Kind # {}
    /\ RetentionDays \in Nat /\ AggregateRetentionDays \in Nat
    /\ MaxStops \in Nat
    /\ AggregateRetentionDays # 0 =>
         RetentionDays # 0 /\ AggregateRetentionDays >= RetentionDays

VARIABLES
    traffic,       \* hourly_traffic_aggregates: the rows counted in a bucket
    attribution,   \* hourly_attribution_aggregates, likewise
    lastRollupAt,  \* RollupJob.lastRollupAt
    initialized,   \* RollupJob.initialized
    lastRanAt,     \* RetentionJob.lastRanAt
    tick,          \* the scheduler goroutine: the statement it is at
    stops,         \* crashes and shutdowns so far
    late,          \* history: rows inserted after their hour's traffic
                   \* statement had run
    owed           \* history: hours with a traffic bucket that the cursor
                   \* had not passed when the process ended

jobVars == <<traffic, attribution, lastRollupAt, initialized, lastRanAt,
             tick, stops, owed>>
vars == <<logVars, jobVars, late>>

SlotsPerDay == SlotsPerHour * HoursPerDay
Zero == -1       \* time.Time{}, which is before every hour
Idle == [at |-> "idle", since |-> 0, hour |-> 0, from |-> 0, to |-> 0, kinds |-> {}]
FirstJob == [Idle EXCEPT !.at = "rollup", !.since = now]

(* attributionSpecs: which requests a kind counts.  Users and devices are  *)
(* joined through the contributors, policies through their own link table. *)
Attributes(kind, e) ==
    decided[e].by = (IF kind = "policy" THEN "policy" ELSE "device")

Min2(a, b) == IF a <= b THEN a ELSE b
Max2(a, b) == IF a >= b THEN a ELSE b

Rows(from, to) == {e \in raw : EventHour(e) >= from /\ EventHour(e) < to}
Buckets == {h \in Hour : \E s \in Source : traffic[h][s] # {}}

(* Buckets that start before the aggregates' cutoff.                       *)
Expired(h) ==
    /\ AggregateRetentionDays > 0
    /\ h * SlotsPerHour < now - AggregateRetentionDays * SlotsPerDay

(* The last bucket is the cursor of a process that starts.                 *)
AfterLastBucket ==
    IF Buckets = {} THEN Zero
    ELSE (CHOOSE h \in Buckets : \A g \in Buckets : g <= h) + 1

(* The end of the hours whose traffic statement has run: the statement of  *)
(* a chunk comes before the cursor passes the chunk, and it may never pass *)
(* it.                                                                     *)
RolledUpTo ==
    LET chunk == IF tick.at = "attribution" THEN tick.to ELSE Zero
    IN  Max2(Max2(lastRollupAt, chunk), AfterLastBucket)

Init ==
    /\ LogInit
    /\ traffic = [h \in Hour |-> [s \in Source |-> {}]]
    /\ attribution = [h \in Hour |-> [k \in Kind |-> {}]]
    /\ lastRollupAt = Zero
    /\ initialized = FALSE
    /\ lastRanAt = Zero
    /\ tick = Idle
    /\ stops = 0
    /\ late = {}
    /\ owed = {}

-----------------------------------------------------------------------------
(* The process.  New runs the jobs once, before the sink and the server    *)
(* start, and gives up when one fails.                                     *)
StartProcess ==
    /\ app = "down"
    /\ app' = "starting"
    /\ tick' = FirstJob
    /\ UNCHANGED <<now, decided, raw, faults, sinkVars, traffic, attribution,
                   lastRollupAt, initialized, lastRanAt, stops, late, owed>>

(* What the process kept in memory goes with it.                           *)
EndProcess ==
    /\ app' = "down"
    /\ sink' = "off"
    /\ lost' = lost \cup Queued \cup buffer
    /\ queue' = <<>>
    /\ buffer' = {}
    /\ tick' = Idle
    /\ lastRollupAt' = Zero
    /\ initialized' = FALSE
    /\ lastRanAt' = Zero
    /\ owed' = owed \cup {h \in Buckets : h >= lastRollupAt}
    /\ UNCHANGED <<now, decided, raw, stored, traffic, attribution, late>>

Crash ==
    /\ app # "down"
    /\ stops < MaxStops
    /\ stops' = stops + 1
    /\ EndProcess
    /\ UNCHANGED faults

(* The signal cancels the context that every goroutine shares.             *)
Shutdown ==
    /\ app = "running"
    /\ stops < MaxStops
    /\ stops' = stops + 1
    /\ app' = "stopping"
    /\ UNCHANGED <<now, decided, raw, faults, sinkVars, traffic, attribution,
                   lastRollupAt, initialized, lastRanAt, tick, late, owed>>

(* Run returns when the sink and the scheduler have returned and the       *)
(* requests in flight are over.                                            *)
Exit ==
    /\ app = "stopping" /\ sink = "off" /\ tick.at = "idle"
    /\ EndProcess
    /\ UNCHANGED <<stops, faults>>

(* A slot is far longer than the flush interval and than a tick: an event  *)
(* stays in the channel and the buffer, and a tick runs, for at most the   *)
(* slot that follows the one it began in.                                  *)
Advance ==
    /\ now < MaxTime
    /\ tick.at # "idle" => tick.since = now
    /\ \A e \in Queued \cup buffer : decided[e].at >= now
    /\ now' = now + 1
    /\ UNCHANGED <<app, decided, raw, faults, sinkVars, jobVars, late>>

Decide(s) == OnDecision(s) /\ UNCHANGED <<jobVars, late>>

Sink ==
    /\ SinkStep
    /\ late' = late \cup {e \in raw' \ raw : EventHour(e) < RolledUpTo}
    /\ UNCHANGED jobVars

-----------------------------------------------------------------------------
(* The scheduler.  RunSchedule ignores the error of a tick; its context is *)
(* the one the shutdown cancels, and a cancelled context fails the next    *)
(* statement.                                                              *)
RunSchedule ==
    /\ app = "running" /\ tick.at = "idle"
    /\ tick' = FirstJob
    /\ UNCHANGED <<logVars, traffic, attribution, lastRollupAt, initialized,
                   lastRanAt, stops, late, owed>>

At(statement) == tick.at = statement /\ app # "stopping"

TickFails ==
    /\ tick.at # "idle"
    /\ faults < MaxFaults
    /\ faults' = faults + 1
    /\ \/ app = "starting" /\ EndProcess
       \/ /\ app # "starting"
          /\ tick' = Idle
          /\ UNCHANGED <<now, app, decided, raw, sinkVars, traffic, attribution,
                         lastRollupAt, initialized, lastRanAt, late, owed>>
    /\ UNCHANGED stops

TickCancelled ==
    /\ app = "stopping" /\ tick.at # "idle"
    /\ tick' = Idle
    /\ UNCHANGED <<logVars, traffic, attribution, lastRollupAt, initialized,
                   lastRanAt, stops, late, owed>>

(* The last job is done: a tick is over, or the process is up.             *)
TickDone ==
    /\ tick' = Idle
    /\ app' = "running"
    /\ sink' = "running"
    /\ UNCHANGED <<now, decided, queue, buffer, stored, lost, faults>>

-----------------------------------------------------------------------------
(* RollupJob.Run.                                                          *)
Retention == [Idle EXCEPT !.at = "retention", !.since = tick.since]

(* Variant: the start of the last bucket itself, without its hour.         *)
SeedCursorRerolls == Max2(Zero, AfterLastBucket - 1)

(* LastRollupAt: the start of the last bucket, so its hour is complete.    *)
SeedCursor == AfterLastBucket

StartRollup ==
    /\ At("rollup")
    /\ lastRollupAt' = IF initialized THEN lastRollupAt ELSE SeedCursor
    /\ initialized' = TRUE
    /\ tick' = IF lastRollupAt' >= HourOf(now)
               THEN Retention
               ELSE [tick EXCEPT !.at = "earliest", !.hour = HourOf(now)]
    /\ UNCHANGED <<logVars, traffic, attribution, lastRanAt, stops, late, owed>>

(* EarliestAccessLogAt bounds the range from below.  The two early returns *)
(* that follow it mean that no hour is left to roll up.                    *)
HoursToRoll ==
    {h \in Hour : /\ lastRollupAt <= h /\ h < tick.hour
                  /\ \E e \in raw : EventHour(e) <= h}

FindRange ==
    /\ At("earliest")
    /\ \/ /\ HoursToRoll = {}
          /\ lastRollupAt' = tick.hour
          /\ tick' = Retention
       \/ \E from \in HoursToRoll :
          /\ \A h \in HoursToRoll : from <= h
          /\ tick' = [tick EXCEPT !.at = "traffic", !.from = from]
          /\ UNCHANGED lastRollupAt
    /\ UNCHANGED <<logVars, traffic, attribution, initialized, lastRanAt,
                   stops, late, owed>>

(* INSERT OR REPLACE ... SELECT ... GROUP BY: a group that the statement   *)
(* selects replaces its bucket, a group without rows leaves it alone.      *)
Replaced(old, new) == IF new = {} THEN old ELSE new

ChunkEnd == Min2(tick.from + ChunkHours, tick.hour)

(* Variant: the cursor passes the chunk before its attributions.           *)
RunRollupAdvances ==
    LET new(h, s) == {e \in Rows(tick.from, ChunkEnd) :
                        EventHour(e) = h /\ decided[e].by = s}
    IN  /\ At("traffic")
        /\ traffic' = [h \in Hour |-> [s \in Source |->
                         Replaced(traffic[h][s], new(h, s))]]
        /\ tick' = [tick EXCEPT !.at = "attribution", !.to = ChunkEnd,
                                !.kinds = Kind]
        /\ lastRollupAt' = ChunkEnd
        /\ UNCHANGED <<logVars, attribution, initialized, lastRanAt, stops,
                       late, owed>>

RunRollup ==
    LET new(h, s) == {e \in Rows(tick.from, ChunkEnd) :
                        EventHour(e) = h /\ decided[e].by = s}
    IN  /\ At("traffic")
        /\ traffic' = [h \in Hour |-> [s \in Source |->
                         Replaced(traffic[h][s], new(h, s))]]
        /\ tick' = [tick EXCEPT !.at = "attribution", !.to = ChunkEnd,
                                !.kinds = Kind]
        /\ UNCHANGED <<logVars, attribution, lastRollupAt, initialized,
                       lastRanAt, stops, late, owed>>

(* One statement per kind, in the order of a Go map.  After the last one   *)
(* the cursor passes the chunk and the loop goes on or ends.               *)
AfterChunk ==
    IF tick.to < tick.hour
    THEN [tick EXCEPT !.at = "traffic", !.from = tick.to, !.kinds = {}]
    ELSE Retention

RunAttributionRollup(k) ==
    LET new(h) == {e \in Rows(tick.from, tick.to) :
                     EventHour(e) = h /\ Attributes(k, e)}
    IN  /\ At("attribution")
        /\ k \in tick.kinds
        /\ attribution' = [h \in Hour |->
             [attribution[h] EXCEPT ![k] = Replaced(@, new(h))]]
        /\ \/ /\ tick.kinds # {k}
              /\ tick' = [tick EXCEPT !.kinds = @ \ {k}]
              /\ UNCHANGED lastRollupAt
           \/ /\ tick.kinds = {k}
              /\ lastRollupAt' = tick.to
              /\ tick' = AfterChunk
        /\ UNCHANGED <<logVars, traffic, initialized, lastRanAt, stops, late,
                       owed>>

-----------------------------------------------------------------------------
(* RetentionJob.Run, once a day.  Raw rows go by their own time, buckets   *)
(* by the hour they start at.                                              *)
today == now \div SlotsPerDay
NothingToPrune ==
    \/ RetentionDays = 0 /\ AggregateRetentionDays = 0
    \/ lastRanAt = today

SkipRetention ==
    /\ At("retention")
    /\ NothingToPrune
    /\ TickDone
    /\ UNCHANGED <<raw, traffic, attribution, lastRollupAt, initialized,
                   lastRanAt, stops, late, owed>>

(* tick.hour holds the day the job found, which it stores at the end.      *)
PruneAccessLog ==
    /\ At("retention")
    /\ ~NothingToPrune
    /\ DeleteOlderThan(now - RetentionDays * SlotsPerDay)
    /\ tick' = [tick EXCEPT !.at = "events", !.hour = today]
    /\ UNCHANGED <<now, app, decided, faults, sinkVars, traffic, attribution,
                   lastRollupAt, initialized, lastRanAt, stops, late, owed>>

(* DeleteAddressEventsOlderThan: the address history is not part of this   *)
(* module; the statement can fail like the others.                         *)
PruneAddressEvents ==
    /\ At("events")
    /\ \/ /\ AggregateRetentionDays > 0
          /\ tick' = [tick EXCEPT !.at = "aggregates"]
          /\ UNCHANGED <<logVars, lastRanAt>>
       \/ /\ AggregateRetentionDays = 0
          /\ lastRanAt' = tick.hour
          /\ TickDone
          /\ UNCHANGED raw
    /\ UNCHANGED <<traffic, attribution, lastRollupAt, initialized, stops, late,
                   owed>>

(* The cutoff is taken once, before the two statements: tick.to.           *)
DeleteAggregatesOlderThan ==
    /\ At("aggregates")
    /\ traffic' = [h \in Hour |->
         IF Expired(h) THEN [s \in Source |-> {}] ELSE traffic[h]]
    /\ tick' = [tick EXCEPT !.at = "attributions", !.to = now]
    /\ UNCHANGED <<logVars, attribution, lastRollupAt, initialized, lastRanAt,
                   stops, late, owed>>

DeleteAttributionAggregatesOlderThan ==
    /\ At("attributions")
    /\ attribution' = [h \in Hour |->
         IF h * SlotsPerHour < tick.to - AggregateRetentionDays * SlotsPerDay
         THEN [k \in Kind |-> {}] ELSE attribution[h]]
    /\ lastRanAt' = tick.hour
    /\ TickDone
    /\ UNCHANGED <<raw, traffic, lastRollupAt, initialized, stops, late, owed>>

Job ==
    \/ StartRollup \/ FindRange \/ RunRollup
    \/ \E k \in Kind : RunAttributionRollup(k)
    \/ SkipRetention \/ PruneAccessLog \/ PruneAddressEvents
    \/ DeleteAggregatesOlderThan \/ DeleteAttributionAggregatesOlderThan

Next ==
    \/ Advance
    \/ \E s \in Source : Decide(s)
    \/ Sink
    \/ StartProcess \/ Shutdown \/ Exit \/ Crash
    \/ RunSchedule \/ Job \/ TickFails \/ TickCancelled

Spec == Init /\ [][Next]_vars

(* The clock runs, the supervisor restarts the process, the scheduler's    *)
(* ticker fires and every goroutine goes on; nobody need make a request.   *)
Fairness ==
    /\ WF_vars(Advance)
    /\ WF_vars(Sink)
    /\ WF_vars(StartProcess)
    /\ WF_vars(Exit)
    /\ WF_vars(RunSchedule)
    /\ WF_vars(Job)
    /\ WF_vars(TickCancelled)

FairSpec == Spec /\ Fairness
-----------------------------------------------------------------------------
(* The dashboards.  A window of at most a day is answered from the rows, a *)
(* longer one from the buckets that start in it.  A source stands for the  *)
(* columns a widget groups by (outcome, deny reason, host, IP), a kind for *)
(* the entities of an attribution split.                                   *)
RawWindowThreshold == SlotsPerDay

getRawSummaryStats(s, from, to) ==
    Cardinality({e \in raw : /\ from <= decided[e].at /\ decided[e].at < to
                             /\ decided[e].by = s})

(* Variant: the first bucket of the window is left out.                    *)
getAggregateSummaryStatsAfter(s, from, to) ==
    Cardinality({x \in Hour \X Event : /\ from < x[1] * SlotsPerHour
                                       /\ x[1] * SlotsPerHour < to
                                       /\ x[2] \in traffic[x[1]][s]})

getAggregateSummaryStats(s, from, to) ==
    Cardinality({x \in Hour \X Event : /\ from <= x[1] * SlotsPerHour
                                       /\ x[1] * SlotsPerHour < to
                                       /\ x[2] \in traffic[x[1]][s]})

GetSummaryStats(s, from, to) ==
    IF to - from <= RawWindowThreshold THEN getRawSummaryStats(s, from, to)
                                       ELSE getAggregateSummaryStats(s, from, to)

getRawAttributionSplit(k, from, to) ==
    Cardinality({e \in raw : /\ from <= decided[e].at /\ decided[e].at < to
                             /\ Attributes(k, e)})

getAggregateAttributionSplit(k, from, to) ==
    Cardinality({x \in Hour \X Event : /\ from <= x[1] * SlotsPerHour
                                       /\ x[1] * SlotsPerHour < to
                                       /\ x[2] \in attribution[x[1]][k]})

GetAttributionSplit(k, from, to) ==
    IF to - from <= RawWindowThreshold
    THEN getRawAttributionSplit(k, from, to)
    ELSE getAggregateAttributionSplit(k, from, to)

-----------------------------------------------------------------------------
(* An hour that was rolled up counts every row that was in the table then: *)
(* no row is pruned before it is counted, and no retry, restart or partly  *)
(* pruned hour takes it out again (job.go: "catch-up never destroys        *)
(* aggregates it cannot rebuild").                                         *)
CoveredHoursAreCounted ==
    \A e \in stored \ late :
        LET h == EventHour(e)
        IN  h < RolledUpTo /\ ~Expired(h) => e \in traffic[h][decided[e].by]

(* A catch-up that failed after the traffic statement resumes where it     *)
(* stopped: the hours it passes have their attributions, except those the  *)
(* process still owed when it ended.                                       *)
RetriesCompleteAttribution ==
    \A e \in stored \ late :
        LET h == EventHour(e)
        IN  h < lastRollupAt /\ h \notin owed /\ ~Expired(h) =>
              \A k \in Kind : Attributes(k, e) => e \in attribution[h][k]

(* The hours from a to b have all their rows, none of which came late.     *)
Intact(a, b) ==
    /\ ~Expired(a)
    /\ \A e \in stored : EventHour(e) \in a .. b - 1 => e \in raw \ late

(* Zooming out changes no number (rollup/attribution_reads.go:10-11: "The  *)
(* two paths agree for the same window").  Wherever a window of whole      *)
(* hours is cut, the answers for its parts add up to the answer for the    *)
(* whole, although one may come from the rows and the other from buckets   *)
(* that an interrupted, repeated or restarted roll-up wrote, as long as    *)
(* its hours are rolled up, its rows are all there and none came late.     *)
ZoomingAgrees ==
    \A a, b \in Hour : a < b /\ Intact(a, b) =>
        \A c \in a .. b :
            LET from == a * SlotsPerHour
                cut == c * SlotsPerHour
                to == b * SlotsPerHour
            IN  /\ b <= RolledUpTo => \A s \in Source :
                     GetSummaryStats(s, from, to) =
                       GetSummaryStats(s, from, cut) + GetSummaryStats(s, cut, to)
                /\ b <= lastRollupAt /\ (a .. b - 1) \cap owed = {} => \A k \in Kind :
                     GetAttributionSplit(k, from, to) =
                       GetAttributionSplit(k, from, cut)
                         + GetAttributionSplit(k, cut, to)

Settled(e) ==
    /\ e \in DOMAIN decided
    /\ \/ e \in lost \cup late
       \/ e \in traffic[EventHour(e)][decided[e].by]
       \/ Expired(EventHour(e))
       \/ EventHour(e) = HourOf(MaxTime)   \* the clock ends before the hour

(* Every decision the sink accepted reaches the dashboards: it is counted  *)
(* in its hour, unless it was lost, came late or is past the retention.    *)
DecisionsAreCounted == \A e \in Event : (e \in Queued) ~> Settled(e)
=============================================================================
