----------------------------- MODULE AccessLog ------------------------------
(***************************************************************************)
(* The access log's write path (internal/accesslog): decisions enter a     *)
(* bounded channel, the sink goroutine moves them into a buffer and        *)
(* inserts the buffer in one transaction when it is full, at every flush   *)
(* tick and once more at shutdown.                                         *)
(*                                                                         *)
(* The module has the state and the steps of the sink; Traffic composes    *)
(* them with the scheduler's jobs, which read and prune the rows.          *)
(*                                                                         *)
(* Time is counted in slots, a fixed part of an hour, so that a retention  *)
(* cutoff can fall inside an hour.  An event is identified by its place in *)
(* the history of decisions; a row of access_log is the event it stores.   *)
(***************************************************************************)
EXTENDS Integers, Sequences, FiniteSets

CONSTANTS
    MaxTime,       \* bound: the last slot of the clock
    MaxEvents,     \* bound: decisions made
    MaxFaults,     \* bound: database errors, in the sink and in the jobs
    SlotsPerHour,  \* granularity of the clock
    Source,        \* what decides: see MatchSource
    ChanCap,       \* capacity of Sink.ch (500 in the code)
    BatchSize      \* rows per flush (50 in the code)

(* MatchSource of a decision; a denied request has the zero value.         *)
MatchSource == {"device", "policy", "none"}

ASSUME AccessLogAssumption ==
    /\ MaxTime \in Nat /\ MaxEvents \in Nat /\ MaxFaults \in Nat
    /\ SlotsPerHour \in Nat \ {0}
    /\ Source \subseteq MatchSource
    /\ ChanCap \in Nat \ {0} /\ BatchSize \in Nat \ {0}

VARIABLES
    now,      \* the clock
    app,      \* the process: "down", "starting", "running" or "stopping"
    decided,  \* history: every decision, with its time and its source
    queue,    \* Sink.ch
    buffer,   \* the local buffer of Sink.Run, whose order nothing reads
    sink,     \* the goroutine of Sink.Run: "off", "running" or "draining"
    raw,      \* access_log with its child rows
    stored,   \* history: events that were ever inserted
    lost,     \* history: events that were accepted or refused and will
              \* never be inserted
    faults    \* database errors so far

sinkVars == <<queue, buffer, sink, stored, lost>>
logVars == <<now, app, decided, raw, faults, sinkVars>>

Event == 1 .. MaxEvents
Slot == 0 .. MaxTime
Hour == 0 .. (MaxTime \div SlotsPerHour)

HourOf(t) == t \div SlotsPerHour
EventHour(e) == HourOf(decided[e].at)
Queued == {queue[i] : i \in DOMAIN queue}

LogInit ==
    /\ now = 0
    /\ app = "down"
    /\ decided = <<>>
    /\ queue = <<>>
    /\ buffer = {}
    /\ sink = "off"
    /\ raw = {} /\ stored = {} /\ lost = {}
    /\ faults = 0

-----------------------------------------------------------------------------
(* OnDecision: a select with a default, so a full channel drops the event. *)
(* Requests that were in flight when the shutdown began still get here.    *)
OnDecision(s) ==
    LET e == Len(decided) + 1
    IN  /\ app \in {"running", "stopping"}
        /\ e \in Event
        /\ decided' = Append(decided, [at |-> now, by |-> s])
        /\ \/ /\ Len(queue) < ChanCap
              /\ queue' = Append(queue, e)
              /\ UNCHANGED lost
           \/ /\ Len(queue) >= ChanCap
              /\ lost' = lost \cup {e}
              /\ UNCHANGED queue
        /\ UNCHANGED <<now, app, buffer, sink, raw, stored, faults>>

(* BatchInsert is one transaction: all of the batch, or nothing of it.     *)
BatchInsert(batch) ==
    /\ raw' = raw \cup batch
    /\ stored' = stored \cup batch
    /\ UNCHANGED <<lost, faults>>

BatchInsertFails(batch) ==
    /\ lost' = lost \cup batch
    /\ UNCHANGED <<raw, stored>>

(* flush empties the buffer before it inserts the copy, and only logs an   *)
(* error.  Outside the drain it uses the context of Run, which is          *)
(* cancelled as soon as the process is stopping: BeginTx then refuses.     *)
flush(batch, cancelled) ==
    /\ buffer' = {}
    /\ \/ batch = {} /\ UNCHANGED <<raw, stored, lost, faults>>
       \/ batch # {} /\ ~cancelled /\ BatchInsert(batch)
       \/ batch # {} /\ cancelled /\ BatchInsertFails(batch) /\ UNCHANGED faults
       \/ /\ batch # {} /\ ~cancelled /\ faults < MaxFaults
          /\ BatchInsertFails(batch)
          /\ faults' = faults + 1

(* The receive of the main loop and of the drain loop: flush when full.    *)
ReceiveInto(cancelled) ==
    LET batch == buffer \cup {Head(queue)}
    IN  /\ queue # <<>>
        /\ queue' = Tail(queue)
        /\ \/ Cardinality(batch) >= BatchSize /\ flush(batch, cancelled)
           \/ /\ Cardinality(batch) < BatchSize
              /\ buffer' = batch
              /\ UNCHANGED <<raw, stored, lost, faults>>
        /\ UNCHANGED <<now, app, decided, sink>>

(* select picks among the ready cases at random, so the main loop may go   *)
(* on receiving, and flushing, after the context is cancelled.             *)
Receive == sink = "running" /\ ReceiveInto(app = "stopping")

(* Variant: only a full batch is ever flushed.                             *)
FlushTickFullOnly ==
    /\ sink = "running"
    /\ Cardinality(buffer) >= BatchSize
    /\ flush(buffer, app = "stopping")
    /\ UNCHANGED <<now, app, decided, queue, sink>>

FlushTick ==
    /\ sink = "running"
    /\ buffer # {}
    /\ flush(buffer, app = "stopping")
    /\ UNCHANGED <<now, app, decided, queue, sink>>

StopSink ==
    /\ sink = "running" /\ app = "stopping"
    /\ sink' = "draining"
    /\ UNCHANGED <<now, app, decided, queue, buffer, raw, stored, lost, faults>>

Drain == sink = "draining" /\ ReceiveInto(FALSE)

(* The channel is empty: a last flush, and Run returns.                    *)
FinishDrain ==
    /\ sink = "draining" /\ queue = <<>>
    /\ flush(buffer, FALSE)
    /\ sink' = "off"
    /\ UNCHANGED <<now, app, decided, queue>>

SinkStep == Receive \/ FlushTick \/ StopSink \/ Drain \/ FinishDrain

(* DeleteOlderThan: access_log rows created before the cutoff, with their  *)
(* child rows.                                                             *)
DeleteOlderThan(cutoff) == raw' = {e \in raw : decided[e].at >= cutoff}
=============================================================================
