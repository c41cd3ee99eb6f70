\* An hour of two slots, a day of one hour, rows kept for a day and buckets
\* for two; catch-up in chunks of two hours.
CONSTANTS
    MaxTime = 5
    MaxEvents = 2
    MaxFaults = 1
    MaxStops = 1
    SlotsPerHour = 2
    HoursPerDay = 1
    ChunkHours = 2
    RetentionDays = 1
    AggregateRetentionDays = 2
    Source = {"device"}
    Kind = {"user", "device"}
    ChanCap = 1
    BatchSize = 2
SPECIFICATION FairSpec
INVARIANTS CoveredHoursAreCounted RetriesCompleteAttribution ZoomingAgrees
PROPERTIES DecisionsAreCounted
