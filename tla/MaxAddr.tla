------------------------------ MODULE MaxAddr -------------------------------
(***************************************************************************)
(* The max-active-addresses rule (internal/rule, internal/maxaddr).  A     *)
(* request commits its transaction first and notifies the enforcement      *)
(* service afterwards; the service keeps a bounded queue per kind of       *)
(* trigger and one listener, whose enforcement pass reads the limit, reads *)
(* the enabled addresses and evicts the excess in three separate database  *)
(* accesses.  Queues live in memory: they drop what does not fit and a     *)
(* restart empties them.                                                   *)
(*                                                                         *)
(* OnAddressEvent filters on the event alone, so a request whose events it *)
(* would ignore (refreshed, disabled) is over once its transaction commits.*)
(***************************************************************************)
EXTENDS Registry, Sequences

CONSTANTS
    Request,     \* concurrent handlers between commit and notification
    Limit,       \* the limits an administrator may set (at least 1)
    EventCap,    \* capacity of Service.events (500 in the code)
    RuleCap,     \* capacity of Service.ruleEvents (100 in the code)
    NoAddress    \* AddressID 0: no address to protect

ASSUME MaxAddrAssumption ==
    /\ Limit \subseteq Nat \ {0}
    /\ EventCap \in Nat \ {0}
    /\ RuleCap \in Nat \ {0}
    /\ NoAddress \notin Address

VARIABLES
    limit,       \* limit[d]: the rule's max_addresses, or NoLimit
    inflight,    \* inflight[r]: the trigger r committed and must announce
    events,      \* Service.events
    ruleEvents,  \* Service.ruleEvents
    job,         \* the listener: its place in enforce and enforce's locals
    lost         \* history: devices whose last trigger was dropped, wiped
                 \* by a restart, or ended in a database error

vars == <<registry, limit, inflight, events, ruleEvents, job, lost>>

NoLimit == 0
Idle == [kind |-> "idle"]
AddressTrigger(a) == [kind |-> "address", dev |-> DeviceOf[a], addr |-> a]
RuleTrigger(d) == [kind |-> "rule", dev |-> d, addr |-> NoAddress]

Trigger == {AddressTrigger(a) : a \in Address}
             \cup {RuleTrigger(d) : d \in Device}

NoJob == [pc |-> "idle"]
Job == [pc : {"limit"}, dev : Device, keep : Address \cup {NoAddress}]
  \cup [pc : {"list"}, dev : Device, keep : Address \cup {NoAddress},
        max : Limit]
  \cup [pc : {"evict"}, dev : Device, keep : Address \cup {NoAddress},
        max : Limit, list : SUBSET Address, victims : SUBSET Address]

TypeOK ==
    /\ RegistryTypeOK
    /\ limit \in [Device -> Limit \cup {NoLimit}]
    /\ inflight \in [Request -> Trigger \cup {Idle}]
    /\ events \in Seq(Trigger) /\ Len(events) <= EventCap
    /\ ruleEvents \in Seq(Trigger) /\ Len(ruleEvents) <= RuleCap
    /\ job \in Job \cup {NoJob}
    /\ lost \subseteq Device

Init ==
    /\ RegistryInit
    /\ limit = [d \in Device |-> NoLimit]
    /\ inflight = [r \in Request |-> Idle]
    /\ events = <<>>
    /\ ruleEvents = <<>>
    /\ job = NoJob
    /\ lost = {}

-----------------------------------------------------------------------------
(* Where a trigger for device d may still be waiting.                      *)
InRequest(d) == \E r \in Request : inflight[r] # Idle /\ inflight[r].dev = d
Holds(queue, d) == \E i \in 1..Len(queue) : queue[i].dev = d
Waiting(d) == InRequest(d) \/ Holds(events, d) \/ Holds(ruleEvents, d)
InJob(d) == job # NoJob /\ job.dev = d

OverCap(d) ==
    limit[d] # NoLimit /\ Cardinality(EnabledAddresses(d)) > limit[d]

-----------------------------------------------------------------------------
(* Requests.  A commit that leaves a trigger to announce occupies a request *)
(* until Announce hands the trigger over.                                  *)
Committed(r, t) ==
    /\ inflight[r] = Idle
    /\ inflight' = [inflight EXCEPT ![r] = t]
    /\ lost' = lost \ {t.dev}

volatile == <<events, ruleEvents, job>>

(* Variant: an address that is enabled again triggers nothing.             *)
RegisterAddressActivityCreatedOnly(r, a) ==
    /\ RegisterAddressTx(a)
    /\ IF ActivityType(a) = "created"
         THEN Committed(r, AddressTrigger(a))
         ELSE UNCHANGED <<inflight, lost>>
    /\ UNCHANGED <<limit, volatile>>

RegisterAddressActivity(r, a) ==
    /\ RegisterAddressTx(a)
    /\ IF ActivityType(a) \in {"created", "enabled"}
         THEN Committed(r, AddressTrigger(a))
         ELSE UNCHANGED <<inflight, lost>>
    /\ UNCHANGED <<limit, volatile>>

EnableMaxActiveAddressesRule(r, d, n) ==
    /\ device[d] # "absent"
    /\ limit' = [limit EXCEPT ![d] = n]
    /\ Committed(r, RuleTrigger(d))
    /\ UNCHANGED <<registry, volatile>>

(* No rule event is sent: a rule that is off has nothing to enforce.       *)
DisableMaxActiveAddressesRule(d) ==
    /\ limit[d] # NoLimit
    /\ limit' = [limit EXCEPT ![d] = NoLimit]
    /\ UNCHANGED <<registry, inflight, volatile, lost>>

(* Everything else that changes the registry sends only events that        *)
(* OnAddressEvent ignores.  DisableAddressesTx is the lease expiry job.    *)
OtherRegistryChange ==
    /\ \/ \E d \in Device : \/ CreateDevice(d)
                            \/ EnableDevice(d)
                            \/ DisableDeviceTx(d)
                            \/ DeleteDeviceTx(d)
       \/ \E a \in Address : DisableAddressTx(a)
       \/ \E S \in SUBSET {a \in Address : addr[a] # "absent"} :
             DisableAddressesTx(S)
    /\ UNCHANGED <<limit, inflight, volatile, lost>>

(* Variant: the capacity is off by one.                                    *)
OnAddressEventOverfull(t) ==
    /\ t.kind = "address"
    /\ Len(events) <= EventCap
    /\ events' = Append(events, t)
    /\ UNCHANGED <<ruleEvents, lost>>

(***************************************************************************)
(* Service.OnAddressEvent and Service.OnRuleEvent: a non-blocking send.    *)
(***************************************************************************)
OnAddressEvent(t) ==
    /\ t.kind = "address"
    /\ UNCHANGED ruleEvents
    /\ \/ /\ Len(events) < EventCap
          /\ events' = Append(events, t)
          /\ UNCHANGED lost
       \/ /\ Len(events) = EventCap
          /\ lost' = lost \cup {t.dev}
          /\ UNCHANGED events

OnRuleEvent(t) ==
    /\ t.kind = "rule"
    /\ UNCHANGED events
    /\ \/ /\ Len(ruleEvents) < RuleCap
          /\ ruleEvents' = Append(ruleEvents, t)
          /\ UNCHANGED lost
       \/ /\ Len(ruleEvents) = RuleCap
          /\ lost' = lost \cup {t.dev}
          /\ UNCHANGED ruleEvents

Announce(r) ==
    /\ inflight[r] # Idle
    /\ inflight' = [inflight EXCEPT ![r] = Idle]
    /\ OnAddressEvent(inflight[r]) \/ OnRuleEvent(inflight[r])
    /\ UNCHANGED <<registry, limit, job>>

-----------------------------------------------------------------------------
(* The listener.  select picks either queue when both hold something.      *)
TakeAddressEvent ==
    /\ job = NoJob
    /\ events # <<>>
    /\ job' = [pc |-> "limit", dev |-> Head(events).dev,
               keep |-> Head(events).addr]
    /\ events' = Tail(events)
    /\ UNCHANGED <<registry, limit, inflight, ruleEvents, lost>>

(* Variant: the select has no case for the rule events.                    *)
TakeRuleEventNever == FALSE /\ UNCHANGED vars

TakeRuleEvent ==
    /\ job = NoJob
    /\ ruleEvents # <<>>
    /\ job' = [pc |-> "limit", dev |-> Head(ruleEvents).dev,
               keep |-> NoAddress]
    /\ ruleEvents' = Tail(ruleEvents)
    /\ UNCHANGED <<registry, limit, inflight, events, lost>>

(* rule.Service.GetMaxActiveAddresses, a read of its own.                  *)
GetMaxActiveAddresses ==
    /\ job.pc = "limit"
    /\ job' = IF limit[job.dev] = NoLimit
                THEN NoJob
                ELSE [pc |-> "list", dev |-> job.dev, keep |-> job.keep,
                      max |-> limit[job.dev]]
    /\ UNCHANGED <<registry, limit, inflight, events, ruleEvents, lost>>

(* Variant: the loop does not skip the address just registered.            *)
IsEvictionUnprotected(V, list, max, keep) ==
    /\ V \subseteq list
    /\ Cardinality(V) = Cardinality(list) - max
    /\ \A v \in V, k \in list \ V : <<v, k>> \in older

(***************************************************************************)
(* The loop of enforce: from the oldest address on, skipping the protected *)
(* one, until exactly the excess has been collected.                       *)
(***************************************************************************)
IsEviction(V, list, max, keep) ==
    /\ V \subseteq list \ {keep}
    /\ Cardinality(V) = Cardinality(list) - max
    /\ \A v \in V, k \in list \ (V \cup {keep}) : <<v, k>> \in older

GetEnabledAddresses ==
    LET list == EnabledAddresses(job.dev) IN
    /\ job.pc = "list"
    /\ \/ /\ Cardinality(list) <= job.max
          /\ job' = NoJob
       \/ /\ Cardinality(list) > job.max
          /\ \E V \in SUBSET list :
               /\ IsEviction(V, list, job.max, job.keep)
               /\ job' = [pc |-> "evict", dev |-> job.dev, keep |-> job.keep,
                          max |-> job.max, list |-> list, victims |-> V]
    /\ UNCHANGED <<registry, limit, inflight, events, ruleEvents, lost>>

EvictExcess ==
    /\ job.pc = "evict"
    /\ DisableAddressesTx(job.victims)
    /\ job' = NoJob
    /\ UNCHANGED <<limit, inflight, events, ruleEvents, lost>>

(* Any of the three accesses may fail; enforce logs and gives up.          *)
EnforceFails ==
    /\ job # NoJob
    /\ job' = NoJob
    /\ lost' = lost \cup {job.dev}
    /\ UNCHANGED <<registry, limit, inflight, events, ruleEvents>>

(* The process stops and starts again: only the database survives.         *)
Restart ==
    /\ inflight' = [r \in Request |-> Idle]
    /\ events' = <<>>
    /\ ruleEvents' = <<>>
    /\ job' = NoJob
    /\ lost' = lost \cup {d \in Device : Waiting(d) \/ InJob(d)}
    /\ UNCHANGED <<registry, limit>>

-----------------------------------------------------------------------------
Listener ==
    \/ TakeAddressEvent \/ TakeRuleEvent
    \/ GetMaxActiveAddresses \/ GetEnabledAddresses \/ EvictExcess

Environment ==
    \/ \E r \in Request, a \in Address : RegisterAddressActivity(r, a)
    \/ \E r \in Request, d \in Device, n \in Limit :
          EnableMaxActiveAddressesRule(r, d, n)
    \/ \E d \in Device : DisableMaxActiveAddressesRule(d)
    \/ OtherRegistryChange

Next ==
    \/ Environment
    \/ \E r \in Request : Announce(r)
    \/ Listener
    \/ EnforceFails
    \/ Restart

Spec == Init /\ [][Next]_vars

(* The listener goroutine and every running handler keep going.            *)
Fairness == WF_vars(Listener) /\ \A r \in Request : WF_vars(Announce(r))

FairSpec == Spec /\ Fairness

-----------------------------------------------------------------------------
(***************************************************************************)
(* A device above its limit is on its way down: a trigger for it is still  *)
(* to be announced, queued or being enforced, or its trigger was lost      *)
(* (queue full, restart, database error).  So no interleaving of requests  *)
(* with enforce's three separate accesses (maxaddr/service.go:99-147)      *)
(* leaves a device above its limit unnoticed.                              *)
(***************************************************************************)
CapEnforced ==
    \A d \in Device : OverCap(d) => d \in lost \/ Waiting(d) \/ InJob(d)

(***************************************************************************)
(* Why CapEnforced survives stale reads: once the listener holds a limit   *)
(* or a list of addresses, either they still bound what is stored, or a    *)
(* newer trigger for the same device is waiting (or was lost).             *)
(***************************************************************************)
LimitStillBounds(d) == limit[d] = NoLimit \/ job.max <= limit[d]

StaleReadsCovered ==
    \A d \in Device : InJob(d) =>
        /\ job.pc = "list" => LimitStillBounds(d) \/ Waiting(d) \/ d \in lost
        /\ job.pc = "evict" =>
             /\ job.victims \subseteq job.list \ {job.keep}
             /\ Cardinality(job.list \ job.victims) = job.max
             /\ \/ /\ LimitStillBounds(d)
                   /\ EnabledAddresses(d) \subseteq job.list
                \/ Waiting(d) \/ d \in lost

(***************************************************************************)
(* When no new trigger is being announced any more, every device ends up   *)
(* within its limit for good, unless its last trigger was lost: the        *)
(* listener (maxaddr/service.go:83-95) catches up from any backlog.        *)
(***************************************************************************)
CapEventuallyHolds ==
    \A d \in Device :
        <>[](\A r \in Request : inflight[r] = Idle)
          => <>[](OverCap(d) => d \in lost)
=============================================================================
