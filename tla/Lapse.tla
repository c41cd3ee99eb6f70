------------------------------- MODULE Lapse --------------------------------
(***************************************************************************)
(* The address history and the lease service together.  Lease decides when *)
(* an address is disabled, from a table that follows the registry through  *)
(* queues that lose and delay events; History is what the views show of    *)
(* it.  A step that changes the registry is a step of both; the rest of    *)
(* the lease service works behind the back of the event log.               *)
(***************************************************************************)
EXTENDS History

CONSTANTS
    Handler,     \* concurrent handlers
    Scheduler,   \* the scheduler goroutine, which runs the expiry job
    EventCap,    \* capacity of Service.events
    RuleCap,     \* capacity of Service.ruleEvents
    NoLease,     \* no row in address_leases
    Never,       \* a row with expires_at NULL; also a rule that is off
    NoRule       \* no row in device_rules

ASSUME LapseAssumption ==
    /\ EventCap \in Nat \ {0} /\ RuleCap \in Nat \ {0}
    /\ Scheduler \notin Handler /\ Address \cap Device = {}
    /\ NoLease \notin Nat /\ Never \notin Nat /\ NoRule \notin Nat
    /\ NoLease # Never /\ NoRule # Never
    /\ 1 \in Step

VARIABLES
    rule,        \* the variables of Lease: rule is its ttl, in units of the
    lease,       \* clock; time left in a lease is counted in those, too
    inflight,
    events,
    ruleEvents,
    job,
    expired,
    lost,
    raced,
    moved,       \* history: devices whose rule has changed, or whose rule
                 \* event was still under way, at their last renewal or since
    early        \* history: devices with an address that, since their last
                 \* renewal, was expired out of time

Leases == INSTANCE Lease WITH
    ttl <- rule, TTL <- {t * Second : t \in TTL}, Request <- Handler

leaseTables == <<rule, lease, inflight, events, ruleEvents, job, expired, lost, raced>>
lapseVars == <<historyVars, leaseTables, moved, early>>

LapseInit ==
    /\ HistoryInit
    /\ Leases!Init
    /\ moved = {}
    /\ early = {}

-----------------------------------------------------------------------------
(* Bound: once the log is full there is nothing left to show, and every    *)
(* action waits.                                                           *)
Room == Len(log) < MaxEvents

(* Handlers, and what the limit service does.                              *)
RegisterAndRenew(h, a) ==
    /\ Room
    /\ RegisterAddressActivity(a)
    /\ Leases!RegisterAddressActivity(h, a)
    /\ moved' = IF Leases!Settled(DeviceOf[a]) THEN moved \ {DeviceOf[a]} ELSE moved
    /\ early' = early \ {DeviceOf[a]}

DisableAndClear(h) ==
    /\ Room
    /\ \/ \E a \in Address : DisableAddress(a) /\ Leases!DisableAddress(h, a)
       \/ \E d \in Device, S \in SUBSET Listable :
             EvictAddresses(d, S) /\ Leases!DisableAddresses(h, S)
       \/ \E d \in Device :
             DisableOrDeleteDevice(d) /\ Leases!DisableOrDeleteDevice(h, d)
    /\ UNCHANGED <<moved, early>>

CreateOrEnable(d) ==
    /\ Room
    /\ CreateOrEnableDevice(d)
    /\ Leases!CreateOrEnableDevice(d)
    /\ UNCHANGED <<moved, early>>

EnableLeaseRule(h, d, t) ==
    /\ Room
    /\ SetLeaseRule(d, t)
    /\ Leases!EnableDeviceAddressLeaseRule(h, d, t * Second)
    /\ moved' = moved \cup {d}
    /\ UNCHANGED early

DisableLeaseRule(h, d) ==
    /\ Room
    /\ SetLeaseRule(d, None)
    /\ Leases!DisableDeviceAddressLeaseRule(h, d)
    /\ moved' = moved \cup {d}
    /\ UNCHANGED early

(* The job expires a in time if the lease it read is still the one of the  *)
(* last renewal: no event of a got lost or was overtaken, none is under    *)
(* way, and the lease has not been extended since.                         *)
InTime(a) == Leases!Trusted(a) /\ Leases!Settled(a) /\ lease[a] = 0

ExpireListed ==
    /\ Room
    /\ ExpireAddresses(expired)
    /\ Leases!DisableExpired
    /\ early' = early \cup {DeviceOf[a] : a \in {x \in expired : ~InTime(x)}}
    /\ UNCHANGED moved

(* What the lease service does behind the registry.                        *)
BehindTheRegistry ==
    /\ Room
    /\ \/ \E p \in Leases!Process : Leases!AnnounceAny(p)
       \/ \E a \in Address : Leases!DeleteUserRolledBack(a)
       \/ Leases!Listener
       \/ Leases!ListenerFails
       \/ Leases!GetExpiredAddressIDs
       \/ Leases!Restart
    /\ UNCHANGED <<historyVars, moved, early>>

PassTime ==
    /\ Room
    /\ Tick(1)
    /\ Leases!Tick
    /\ UNCHANGED <<moved, early>>

PruneEvents ==
    /\ Room
    /\ DeleteAddressEventsOlderThan(now - Retention)
    /\ UNCHANGED <<leaseTables, moved, early>>

LapseNext ==
    \/ \E h \in Handler, a \in Address : RegisterAndRenew(h, a)
    \/ \E h \in Handler : DisableAndClear(h)
    \/ \E d \in Device : CreateOrEnable(d)
    \/ \E h \in Handler, d \in Device, t \in TTL : EnableLeaseRule(h, d, t)
    \/ \E h \in Handler, d \in Device : DisableLeaseRule(h, d)
    \/ ExpireListed \/ BehindTheRegistry \/ PassTime \/ PruneEvents

LapseSpec == LapseInit /\ [][LapseNext]_lapseVars

-----------------------------------------------------------------------------
(* A lapse shows: when every address of a device went off because its      *)
(* lease ran out, each one in time, and no user switched anything off, the *)
(* renewal that ends the lapse is "breached", as long as the rule is the   *)
(* one the leases ran under, the clock has moved on since the last of the  *)
(* expiries and retention left a renewal before it.  However the events of *)
(* the leases were delayed, no address is expired before its TTL has       *)
(* passed since the last renewal of the device, and an expiry or eviction  *)
(* is never taken for a sign of life (lease/service.go:94-137,             *)
(* expiry_job.go:34-48, renewalGapCTE in address_history_view.go:74-89).   *)
LapsesShow ==
    [][\A h \in Handler, a \in Address :
         LET d == DeviceOf[a]
             past == {j \in Row : DeviceOfEvent(j) = d}
         IN  /\ RegisterAndRenew(h, a)
             /\ EnabledAddresses(d) = {} /\ \E j \in past : log[j].on
             /\ \A j \in past : log[j].on \/ log[j].src = "expiry"
             /\ \A j \in past : log[j].at < now
             /\ ttl[d] # None /\ d \notin moved \cup early
             => \E e \in addressHistoryEnriched' :
                  e.id = Len(log') /\ e.risk = "breached"]_lapseVars
=============================================================================
