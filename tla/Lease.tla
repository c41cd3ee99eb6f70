------------------------------- MODULE Lease --------------------------------
(***************************************************************************)
(* Address leases (internal/lease, internal/rule).  A device with the      *)
(* lease rule has its addresses disabled some time after their last        *)
(* heartbeat.  The lease table is maintained behind the registry: a        *)
(* handler commits, then notifies the lease service, which queues the      *)
(* event and whose listener applies it to the table later.  A scheduled    *)
(* job reads the expired leases and then disables their addresses.         *)
(*                                                                         *)
(* Times are relative: a lease holds the time left until its expires_at,   *)
(* and Tick takes one unit from every deadline at once, so that the clock  *)
(* needs no bound.  A lease is expired when no time is left.               *)
(***************************************************************************)
EXTENDS Registry, Sequences

CONSTANTS
    Request,     \* concurrent handlers
    Scheduler,   \* the scheduler goroutine, which runs the expiry job
    TTL,         \* the TTLs an administrator may set
    EventCap,    \* capacity of Service.events (500 in the code)
    RuleCap,     \* capacity of Service.ruleEvents (500 in the code)
    NoLease,     \* no row in address_leases
    Never,       \* a row with expires_at NULL; also a rule that is off
    NoRule       \* no row in device_rules

ASSUME LeaseAssumption ==
    /\ TTL \subseteq Nat
    /\ EventCap \in Nat \ {0}
    /\ RuleCap \in Nat \ {0}
    /\ Scheduler \notin Request
    /\ Address \cap Device = {}   \* ids of different tables
    /\ NoLease \notin Nat /\ Never \notin Nat /\ NoRule \notin Nat
    /\ NoLease # Never /\ NoRule # Never

VARIABLES
    ttl,         \* ttl[d]: the lease rule of d: NoRule, Never or its TTL
    lease,       \* lease[a]: NoLease, Never or the time left
    inflight,    \* inflight[p]: events p has committed and must announce
    events,      \* Service.events
    ruleEvents,  \* Service.ruleEvents
    job,         \* the listener, inside AddAddressLease or idle
    expired,     \* the expiry job: ids read and not yet disabled
    lost,        \* history: addresses and devices whose last event did not
                 \* reach the table (dropped, failed, wiped, rolled back)
    raced        \* history: those that committed an event while an earlier
                 \* one was still to be announced

volatile == <<events, ruleEvents, job>>
vars == <<registry, ttl, lease, inflight, volatile, expired, lost, raced>>

Process == Request \cup {Scheduler}
Left == Nat \cup {Never}
NoJob == [pc |-> "idle"]

AddressEvent == [kind : {"enabled", "disabled"}, of : Address]
RuleEvent == [kind : {"rule"}, of : Device, left : Left]
Event == AddressEvent \cup RuleEvent

(* IsAddressEnabled: created, enabled and refreshed events are the same.   *)
Enabled(a) == [kind |-> "enabled", of |-> a]
Disabled(a) == [kind |-> "disabled", of |-> a]
RuleSet(d, left) == [kind |-> "rule", of |-> d, left |-> left]

TypeOK ==
    /\ RegistryTypeOK
    /\ ttl \in [Device -> Left \cup {NoRule}]
    /\ lease \in [Address -> Left \cup {NoLease}]
    /\ inflight \in [Process -> SUBSET Event]
    /\ events \in Seq(AddressEvent) /\ Len(events) <= EventCap
    /\ ruleEvents \in Seq(RuleEvent) /\ Len(ruleEvents) <= RuleCap
    /\ job \in {NoJob} \cup [pc : {"ttl"}, of : Address]
                 \cup [pc : {"upsert"}, of : Address, left : Left]
    /\ expired \subseteq Address
    /\ lost \subseteq Address \cup Device
    /\ raced \subseteq Address \cup Device

Init ==
    /\ RegistryInit
    /\ ttl = [d \in Device |-> NoRule]
    /\ lease = [a \in Address |-> NoLease]
    /\ inflight = [p \in Process |-> {}]
    /\ events = <<>>
    /\ ruleEvents = <<>>
    /\ job = NoJob
    /\ expired = {}
    /\ lost = {}
    /\ raced = {}

-----------------------------------------------------------------------------
(* The subjects (addresses and devices) of a set of events.                *)
Subjects(E) == {e.of : e \in E}
Unannounced == UNION {inflight[p] : p \in Process}

(* A commit by p that leaves the events E to announce.                     *)
Committed(p, E) ==
    LET late == Subjects(E) \cap Subjects(Unannounced) IN
    /\ inflight[p] = {}
    /\ inflight' = [inflight EXCEPT ![p] = E]
    /\ lost' = lost \ Subjects(E)
    /\ raced' = (raced \ Subjects(E)) \cup late

RegisterAddressActivity(r, a) ==
    /\ RegisterAddressTx(a)
    /\ Committed(r, {Enabled(a)})
    /\ UNCHANGED <<ttl, lease, volatile, expired>>

(* The web UI's toggle, and an eviction of the limit service.              *)
DisableAddress(r, a) ==
    /\ DisableAddressTx(a)
    /\ Committed(r, {Disabled(a)})
    /\ UNCHANGED <<ttl, lease, volatile, expired>>

DisableAddresses(r, S) ==
    /\ S \subseteq {a \in Address : addr[a] # "absent"}
    /\ DisableAddressesTx(S)
    /\ Committed(r, {Disabled(a) : a \in S})
    /\ UNCHANGED <<ttl, lease, volatile, expired>>

(* DisableDevice and DeleteDevice: one event per address.  DeleteUser      *)
(* deletes the devices of the user in the same way.                        *)
DisableOrDeleteDevice(r, d) ==
    /\ DisableDeviceTx(d) \/ DeleteDeviceTx(d)
    /\ Committed(r, {Disabled(a) : a \in EnabledAddresses(d)})
    /\ UNCHANGED <<ttl, lease, volatile, expired>>

DisableSome(r) ==
    \/ \E a \in Address : DisableAddress(r, a)
    \/ \E S \in SUBSET Address : DisableAddresses(r, S)
    \/ \E d \in Device : DisableOrDeleteDevice(r, d)

CreateOrEnableDevice(d) ==
    /\ CreateDevice(d) \/ EnableDevice(d)
    /\ UNCHANGED <<ttl, lease, inflight, volatile, expired, lost, raced>>

(* Variants: the lease service is not told of the change.                  *)
EnableDeviceAddressLeaseRuleQuiet(r, d, t) ==
    /\ device[d] # "absent"
    /\ ttl' = [ttl EXCEPT ![d] = t]
    /\ Committed(r, {})
    /\ UNCHANGED <<registry, lease, volatile, expired>>

DisableDeviceAddressLeaseRuleQuiet(r, d) ==
    /\ ttl[d] # NoRule
    /\ ttl' = [ttl EXCEPT ![d] = Never]
    /\ Committed(r, {})
    /\ UNCHANGED <<registry, lease, volatile, expired>>

(* rule.Service: the event carries the TTL of the request, not of the row. *)
EnableDeviceAddressLeaseRule(r, d, t) ==
    /\ device[d] # "absent"
    /\ ttl' = [ttl EXCEPT ![d] = t]
    /\ Committed(r, {RuleSet(d, t)})
    /\ UNCHANGED <<registry, lease, volatile, expired>>

DisableDeviceAddressLeaseRule(r, d) ==
    /\ ttl[d] # NoRule
    /\ ttl' = [ttl EXCEPT ![d] = Never]
    /\ Committed(r, {RuleSet(d, Never)})
    /\ UNCHANGED <<registry, lease, volatile, expired>>

(* Variant: the capacity is off by one.                                    *)
SendOverfull(e) ==
    \/ /\ e.kind # "rule"
       /\ Len(events) <= EventCap
       /\ events' = Append(events, e)
       /\ UNCHANGED ruleEvents
    \/ /\ e.kind = "rule"
       /\ Len(ruleEvents) <= RuleCap
       /\ ruleEvents' = Append(ruleEvents, e)
       /\ UNCHANGED events

(***************************************************************************)
(* Service.OnAddressEvent and OnRuleEvent: an event is queued, or dropped  *)
(* because the queue is full or because the request was cancelled          *)
(* (ctx.Done is as good a case of the select as the send).  OccurredAt is  *)
(* stamped here: left counts from now.                                     *)
(***************************************************************************)
Send(e) ==
    \/ /\ e.kind # "rule"
       /\ Len(events) < EventCap
       /\ events' = Append(events, e)
       /\ UNCHANGED ruleEvents
    \/ /\ e.kind = "rule"
       /\ Len(ruleEvents) < RuleCap
       /\ ruleEvents' = Append(ruleEvents, e)
       /\ UNCHANGED events

Announce(p, e) ==
    /\ e \in inflight[p]
    /\ inflight' = [inflight EXCEPT ![p] = @ \ {e}]
    /\ \/ Send(e) /\ UNCHANGED lost
       \/ lost' = lost \cup {e.of} /\ UNCHANGED <<events, ruleEvents>>
    /\ UNCHANGED <<registry, ttl, lease, job, expired, raced>>

(* DeleteUser announces from inside its transaction, which then fails.     *)
DeleteUserRolledBack(a) ==
    /\ addr[a] = "enabled"
    /\ Send(Disabled(a))
    /\ lost' = lost \cup {a}
    /\ UNCHANGED <<registry, ttl, lease, inflight, job, expired, raced>>

-----------------------------------------------------------------------------
(* The listener.  AddAddressLease reads the TTL and then writes the row.   *)
TakeEnabled ==
    /\ job = NoJob
    /\ events # <<>>
    /\ Head(events).kind = "enabled"
    /\ job' = [pc |-> "ttl", of |-> Head(events).of]
    /\ events' = Tail(events)
    /\ UNCHANGED <<registry, ttl, lease, inflight, ruleEvents, expired, lost,
                   raced>>

GetDeviceAddressLeaseTTLSeconds ==
    /\ job.pc = "ttl"
    /\ LET t == ttl[DeviceOf[job.of]] IN
       job' = [pc |-> "upsert", of |-> job.of,
               left |-> IF t = NoRule THEN Never ELSE t]
    /\ UNCHANGED <<registry, ttl, lease, inflight, events, ruleEvents, expired,
                   lost, raced>>

(* Variant: the row is written without the expiry.                         *)
UpsertAddressLeaseForEver ==
    /\ job.pc = "upsert"
    /\ lease' = [lease EXCEPT ![job.of] = Never]
    /\ job' = NoJob
    /\ UNCHANGED <<registry, ttl, inflight, events, ruleEvents, expired, lost,
                   raced>>

UpsertAddressLease ==
    /\ job.pc = "upsert"
    /\ lease' = [lease EXCEPT ![job.of] = job.left]
    /\ job' = NoJob
    /\ UNCHANGED <<registry, ttl, inflight, events, ruleEvents, expired, lost,
                   raced>>

(* Variant: disabling nulls the expiry and keeps the row.                  *)
ClearAddressLeaseKeepingRow ==
    /\ job = NoJob
    /\ events # <<>>
    /\ Head(events).kind = "disabled"
    /\ lease' = [lease EXCEPT ![Head(events).of] =
                   IF @ = NoLease THEN NoLease ELSE Never]
    /\ events' = Tail(events)
    /\ UNCHANGED <<registry, ttl, inflight, ruleEvents, job, expired, lost,
                   raced>>

ClearAddressLease ==
    /\ job = NoJob
    /\ events # <<>>
    /\ Head(events).kind = "disabled"
    /\ lease' = [lease EXCEPT ![Head(events).of] = NoLease]
    /\ events' = Tail(events)
    /\ UNCHANGED <<registry, ttl, inflight, ruleEvents, job, expired, lost,
                   raced>>

(* SetDeviceAddressLeasesExpiry updates the rows there are.                *)
SetDeviceAddressLeasesExpiry ==
    /\ job = NoJob
    /\ ruleEvents # <<>>
    /\ LET e == Head(ruleEvents) IN
       lease' = [a \in Address |->
                   IF DeviceOf[a] = e.of /\ lease[a] # NoLease
                     THEN e.left ELSE lease[a]]
    /\ ruleEvents' = Tail(ruleEvents)
    /\ UNCHANGED <<registry, ttl, inflight, events, job, expired, lost, raced>>

(* Any of these accesses may fail: the error is logged, the event is gone. *)
ListenerFails ==
    /\ \/ /\ job # NoJob
          /\ job' = NoJob
          /\ lost' = lost \cup {job.of}
          /\ UNCHANGED <<events, ruleEvents>>
       \/ /\ job = NoJob
          /\ events # <<>>
          /\ events' = Tail(events)
          /\ lost' = lost \cup {Head(events).of}
          /\ UNCHANGED <<ruleEvents, job>>
       \/ /\ job = NoJob
          /\ ruleEvents # <<>>
          /\ ruleEvents' = Tail(ruleEvents)
          /\ lost' = lost \cup {Head(ruleEvents).of}
          /\ UNCHANGED <<events, job>>
    /\ UNCHANGED <<registry, ttl, lease, inflight, expired, raced>>

-----------------------------------------------------------------------------
(* ExpiryJob.Run on the scheduler: one access reads, another disables.     *)
GetExpiredAddressIDs ==
    /\ expired = {}
    /\ inflight[Scheduler] = {}
    /\ expired' = {a \in Address : lease[a] = 0}
    /\ UNCHANGED <<registry, ttl, lease, inflight, volatile, lost, raced>>

DisableExpired ==
    /\ DisableAddressesTx(expired)
    /\ Committed(Scheduler, {Disabled(a) : a \in expired})
    /\ expired' = {}
    /\ UNCHANGED <<ttl, lease, volatile>>

(* Time passes for every deadline at once.                                 *)
Aged(left) == IF left \in Nat \ {0} THEN left - 1 ELSE left
AgedEvent(e) == IF e.kind = "rule" THEN [e EXCEPT !.left = Aged(@)] ELSE e

Tick ==
    /\ lease' = [a \in Address |-> Aged(lease[a])]
    /\ ruleEvents' = [i \in DOMAIN ruleEvents |-> AgedEvent(ruleEvents[i])]
    /\ job' = IF job.pc = "upsert" THEN [job EXCEPT !.left = Aged(@)] ELSE job
    /\ UNCHANGED <<registry, ttl, inflight, events, expired, lost, raced>>

(* The process stops and starts again: only the database survives.         *)
Restart ==
    /\ inflight' = [p \in Process |-> {}]
    /\ events' = <<>>
    /\ ruleEvents' = <<>>
    /\ job' = NoJob
    /\ expired' = {}
    /\ lost' = lost \cup Subjects(Unannounced)
                 \cup {events[i].of : i \in DOMAIN events}
                 \cup {ruleEvents[i].of : i \in DOMAIN ruleEvents}
                 \cup (IF job = NoJob THEN {} ELSE {job.of})
    /\ UNCHANGED <<registry, ttl, lease, raced>>

-----------------------------------------------------------------------------
Handlers ==
    \/ \E r \in Request, a \in Address : RegisterAddressActivity(r, a)
    \/ \E r \in Request : DisableSome(r)
    \/ \E d \in Device : CreateOrEnableDevice(d)
    \/ \E r \in Request, d \in Device, t \in TTL :
          EnableDeviceAddressLeaseRule(r, d, t)
    \/ \E r \in Request, d \in Device : DisableDeviceAddressLeaseRule(r, d)
    \/ \E a \in Address : DeleteUserRolledBack(a)

AnnounceAny(p) == \E e \in inflight[p] : Announce(p, e)

Listener ==
    \/ TakeEnabled \/ GetDeviceAddressLeaseTTLSeconds \/ UpsertAddressLease
    \/ ClearAddressLease \/ SetDeviceAddressLeasesExpiry

ExpiryJob == GetExpiredAddressIDs \/ DisableExpired

Next ==
    \/ Handlers
    \/ \E p \in Process : AnnounceAny(p)
    \/ Listener \/ ListenerFails
    \/ ExpiryJob \/ Tick \/ Restart

Spec == Init /\ [][Next]_vars

(* The two goroutines and the clock keep going, and so does every handler. *)
Fairness ==
    /\ WF_vars(Listener)
    /\ WF_vars(ExpiryJob)
    /\ WF_vars(Tick)
    /\ \A p \in Process : WF_vars(AnnounceAny(p))

FairSpec == Spec /\ Fairness

-----------------------------------------------------------------------------
(* Where events about x (an address or a device) may still be on their way. *)
Queued(queue, x) == {i \in DOMAIN queue : queue[i].of = x}
InJob(a) == job # NoJob /\ job.of = a
Settled(x) ==
    /\ x \notin Subjects(Unannounced)
    /\ Queued(events, x) = {} /\ Queued(ruleEvents, x) = {}
    /\ ~InJob(x)

Trusted(x) == x \notin lost \cup raced

(***************************************************************************)
(* What the table will say about a once the events under way are applied:  *)
(* the newest of them decides, or else the row.                            *)
(***************************************************************************)
WillHaveLease(a) ==
    IF a \in Subjects(Unannounced) THEN Enabled(a) \in Unannounced
    ELSE IF Queued(events, a) # {}
      THEN \E i \in Queued(events, a) :
             /\ \A j \in Queued(events, a) : j <= i
             /\ events[i].kind = "enabled"
    ELSE InJob(a) \/ lease[a] # NoLease

(***************************************************************************)
(* "A lease row exists only while the address is enabled"                  *)
(* (lease/repository.go:50-54), and conversely: once the events under way  *)
(* are applied, an address has a lease row exactly if it is enabled, unless *)
(* its last event was lost or overtook another one between commit and      *)
(* notification.  A later event for the address repairs both.              *)
(***************************************************************************)
LeaseFollowsAddress ==
    \A a \in Address : Trusted(a) => (WillHaveLease(a) <=> addr[a] = "enabled")

(***************************************************************************)
(* An enabled address of a device with the lease rule on cannot stay       *)
(* enabled for ever: when nothing is under way, it has a lease whose time  *)
(* left is at most the TTL of the rule as it is now, whatever the order in *)
(* which the two queues were served (lease/service.go:95-137).             *)
(***************************************************************************)
LeasesAreBounded ==
    \A a \in Address :
        LET d == DeviceOf[a] IN
        /\ addr[a] = "enabled" /\ ttl[d] \in Nat
        /\ Settled(a) /\ Settled(d) /\ Trusted(a) /\ Trusted(d)
        => lease[a] \in Nat /\ lease[a] <= ttl[d]

(* A rule that is off leaves no deadline behind, so no heartbeat is needed. *)
NoRuleNoExpiry ==
    \A a \in Address :
        LET d == DeviceOf[a] IN
        /\ ttl[d] \in {Never, NoRule} /\ Settled(a) /\ Settled(d)
        /\ Trusted(a) /\ Trusted(d)
        => lease[a] \in {NoLease, Never}

(***************************************************************************)
(* How-It-Works.md:69: the scheduler "automatically disables addresses     *)
(* whose TTL has expired".  When the handlers have gone quiet, every       *)
(* address of a device with the lease rule on ends up disabled, unless an  *)
(* event for it or for the rule went astray.                               *)
(***************************************************************************)
Settling ==
    (\E p \in Process : AnnounceAny(p)) \/ Listener \/ ExpiryJob \/ Tick

LeasesExpire ==
    <>[][Settling]_vars =>
      \A a \in Address :
        <>[](addr[a] = "enabled" /\ ttl[DeviceOf[a]] \in Nat
               => ~Trusted(a) \/ ~Trusted(DeviceOf[a]))
=============================================================================
