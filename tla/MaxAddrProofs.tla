--------------------------- MODULE MaxAddrProofs ----------------------------
(***************************************************************************)
(* Proofs about MaxAddr, for every set of devices, addresses, requests,    *)
(* limits and every queue capacity.                                        *)
(***************************************************************************)
EXTENDS MaxAddr, FiniteSetTheorems, TLAPS

(* The inductive invariant: CapEnforced alone does not survive EvictExcess, *)
(* which acts on a limit and a list read earlier; StaleReadsCovered says   *)
(* what is still known about them.                                         *)
IInv == TypeOK /\ FrozenDeviceHasNoAccess /\ CapEnforced /\ StaleReadsCovered

-----------------------------------------------------------------------------
(* What the registry's transactions do to the set of enabled addresses.    *)

(* A device has finitely many enabled addresses.                           *)
LEMMA EnabledFinite ==
    ASSUME NEW d PROVE IsFiniteSet(EnabledAddresses(d))
  BY RegistryAssumption, FS_Subset DEF EnabledAddresses, AddressesOf

(* Disabling the addresses S removes exactly S from every device's enabled *)
(* addresses.                                                              *)
LEMMA DisabledShrinks ==
    ASSUME RegistryTypeOK, NEW S \in SUBSET Address, RecordDisabled(S), NEW d
    PROVE  /\ EnabledAddresses(d)' = EnabledAddresses(d) \ S
           /\ addr' \in [Address -> {"absent", "enabled", "disabled"}]
           /\ older' \in SUBSET (Address \X Address)
  BY DEF RegistryTypeOK, RecordDisabled, EnabledAddresses, AddressesOf

(* Recording activity on an address adds it to its own device only.        *)
LEMMA EnabledGrows ==
    ASSUME RegistryTypeOK, NEW a \in Address, RecordEnabled(a), NEW d
    PROVE  /\ EnabledAddresses(d)' =
                IF DeviceOf[a] = d THEN EnabledAddresses(d) \cup {a}
                                   ELSE EnabledAddresses(d)
           /\ addr' \in [Address -> {"absent", "enabled", "disabled"}]
           /\ older' \in SUBSET (Address \X Address)
  BY DEF RegistryTypeOK, RecordEnabled, EnabledAddresses, AddressesOf

-----------------------------------------------------------------------------
(* Queues.                                                                 *)

(* A send adds one trigger and keeps the others.                           *)
LEMMA HoldsAppend ==
    ASSUME NEW q \in Seq(Trigger), NEW t \in Trigger, NEW d
    PROVE  Holds(Append(q, t), d) <=> Holds(q, d) \/ t.dev = d
  BY DEF Holds

(* A receive loses only the head.                                          *)
LEMMA HoldsTail ==
    ASSUME NEW q \in Seq(Trigger), q # <<>>, NEW d
    PROVE  Holds(q, d) <=> Head(q).dev = d \/ Holds(Tail(q), d)
  BY DEF Holds

(* A trigger names a device, and a device's address.                       *)
LEMMA TriggerFields ==
    ASSUME NEW t \in Trigger
    PROVE  /\ t.dev \in Device
           /\ t.addr \in Address \cup {NoAddress}
           /\ t # Idle
  BY RegistryAssumption DEF Trigger, AddressTrigger, RuleTrigger, Idle

-----------------------------------------------------------------------------
(* The variables stay in their types: device states, queue capacities and  *)
(* the listener's locals (device/service.go, maxaddr/service.go).          *)
LEMMA TypeStep == TypeOK /\ [Next]_vars => TypeOK'
  <1> SUFFICES ASSUME TypeOK, [Next]_vars PROVE TypeOK'
    OBVIOUS
  <1> USE RegistryAssumption, MaxAddrAssumption
  <1>r. RegistryTypeOK
    BY DEF TypeOK
  <1>1. ASSUME NEW r \in Request, NEW a \in Address,
               RegisterAddressActivity(r, a)
        PROVE TypeOK'
    <2>1. RegistryTypeOK'
      BY <1>1, <1>r, EnabledGrows
         DEF RegisterAddressActivity, RegisterAddressTx, RegistryTypeOK
    <2>2. AddressTrigger(a) \in Trigger /\ AddressTrigger(a).dev \in Device
      BY DEF Trigger, AddressTrigger
    <2> QED
      BY <1>1, <2>1, <2>2
         DEF TypeOK, RegisterAddressActivity, Committed, volatile
  <1>2. ASSUME NEW r \in Request, NEW d \in Device, NEW n \in Limit,
               EnableMaxActiveAddressesRule(r, d, n)
        PROVE TypeOK'
    <2>1. RegistryTypeOK'
      BY <1>2, <1>r DEF EnableMaxActiveAddressesRule, registry, RegistryTypeOK
    <2>2. RuleTrigger(d) \in Trigger /\ RuleTrigger(d).dev \in Device
      BY DEF Trigger, RuleTrigger
    <2> QED
      BY <1>2, <2>1, <2>2
         DEF TypeOK, EnableMaxActiveAddressesRule, Committed, volatile
  <1>3. ASSUME NEW d \in Device, DisableMaxActiveAddressesRule(d)
        PROVE TypeOK'
    BY <1>3 DEF TypeOK, DisableMaxActiveAddressesRule, registry,
                RegistryTypeOK, volatile
  <1>4. CASE OtherRegistryChange
    <2>1. RegistryTypeOK'
      <3>1. ASSUME NEW S \in SUBSET Address, RecordDisabled(S),
                   device' \in [Device -> {"absent", "active", "disabled",
                                           "deleted"}]
            PROVE RegistryTypeOK'
        BY <3>1, <1>r, DisabledShrinks DEF RegistryTypeOK
      <3>2. ASSUME NEW d \in Device, CreateDevice(d) \/ EnableDevice(d)
            PROVE RegistryTypeOK'
        BY <3>2, <1>r DEF CreateDevice, EnableDevice, RegistryTypeOK
      <3>3. ASSUME NEW d \in Device, DisableDeviceTx(d) \/ DeleteDeviceTx(d)
            PROVE RegistryTypeOK'
        <4>1. EnabledAddresses(d) \in SUBSET Address
          BY DEF EnabledAddresses, AddressesOf
        <4> QED
          BY <3>1, <3>3, <4>1, <1>r
             DEF DisableDeviceTx, DeleteDeviceTx, RegistryTypeOK
      <3>4. ASSUME NEW a \in Address, DisableAddressTx(a)
            PROVE RegistryTypeOK'
        BY <3>1, <3>4, <1>r DEF DisableAddressTx, RegistryTypeOK
      <3>5. ASSUME NEW S \in SUBSET Address, DisableAddressesTx(S)
            PROVE RegistryTypeOK'
        BY <3>1, <3>5, <1>r DEF DisableAddressesTx, RegistryTypeOK
      <3> QED
        BY <1>4, <3>2, <3>3, <3>4, <3>5 DEF OtherRegistryChange
    <2> QED
      BY <1>4, <2>1 DEF TypeOK, OtherRegistryChange, volatile
  <1>5. ASSUME NEW r \in Request, Announce(r)
        PROVE TypeOK'
    <2>1. inflight[r] \in Trigger
      BY <1>5 DEF Announce, TypeOK
    <2>2. inflight[r].dev \in Device
      BY <2>1, TriggerFields
    <2>3. RegistryTypeOK'
      BY <1>5, <1>r DEF Announce, registry, RegistryTypeOK
    <2>4. /\ events' \in Seq(Trigger) /\ Len(events') <= EventCap
          /\ ruleEvents' \in Seq(Trigger) /\ Len(ruleEvents') <= RuleCap
          /\ lost' \subseteq Device
      <3>1. ASSUME NEW q \in Seq(Trigger)
            PROVE  /\ Append(q, inflight[r]) \in Seq(Trigger)
                   /\ Len(Append(q, inflight[r])) = Len(q) + 1
                   /\ Len(q) \in Nat
        BY <2>1
      <3>t. /\ events \in Seq(Trigger) /\ Len(events) <= EventCap
            /\ ruleEvents \in Seq(Trigger) /\ Len(ruleEvents) <= RuleCap
            /\ lost \subseteq Device
        BY DEF TypeOK
      <3>2. CASE OnAddressEvent(inflight[r])
        <4>1. CASE Len(events) < EventCap /\ events' = Append(events, inflight[r])
                     /\ UNCHANGED <<ruleEvents, lost>>
          BY <3>1, <3>t, <4>1
        <4>2. CASE lost' = lost \cup {inflight[r].dev}
                     /\ UNCHANGED <<events, ruleEvents>>
          BY <3>t, <4>2, <2>2
        <4> QED
          BY <3>2, <4>1, <4>2 DEF OnAddressEvent
      <3>3. CASE OnRuleEvent(inflight[r])
        <4>1. CASE Len(ruleEvents) < RuleCap
                     /\ ruleEvents' = Append(ruleEvents, inflight[r])
                     /\ UNCHANGED <<events, lost>>
          BY <3>1, <3>t, <4>1
        <4>2. CASE lost' = lost \cup {inflight[r].dev}
                     /\ UNCHANGED <<events, ruleEvents>>
          BY <3>t, <4>2, <2>2
        <4> QED
          BY <3>3, <4>1, <4>2 DEF OnRuleEvent
      <3> QED
        BY <1>5, <3>2, <3>3 DEF Announce
    <2> QED
      BY <1>5, <2>3, <2>4 DEF Announce, TypeOK
  <1>6. CASE TakeAddressEvent
    <2>1. /\ Head(events) \in Trigger /\ Tail(events) \in Seq(Trigger)
          /\ Len(Tail(events)) <= EventCap
      BY <1>6 DEF TakeAddressEvent, TypeOK
    <2>2. job' \in Job
      BY <1>6, <2>1, TriggerFields DEF TakeAddressEvent, Job
    <2> QED
      BY <1>6, <2>1, <2>2, <1>r
         DEF TakeAddressEvent, TypeOK, registry, RegistryTypeOK
  <1>7. CASE TakeRuleEvent
    <2>1. /\ Head(ruleEvents) \in Trigger /\ Tail(ruleEvents) \in Seq(Trigger)
          /\ Len(Tail(ruleEvents)) <= RuleCap
      BY <1>7 DEF TakeRuleEvent, TypeOK
    <2>2. job' \in Job
      BY <1>7, <2>1, TriggerFields DEF TakeRuleEvent, Job
    <2> QED
      BY <1>7, <2>1, <2>2, <1>r
         DEF TakeRuleEvent, TypeOK, registry, RegistryTypeOK
  <1>8. CASE GetMaxActiveAddresses
    <2>1. job' \in Job \cup {NoJob}
      BY <1>8 DEF GetMaxActiveAddresses, TypeOK, Job, NoJob
    <2> QED
      BY <1>8, <2>1, <1>r
         DEF GetMaxActiveAddresses, TypeOK, registry, RegistryTypeOK
  <1>9. CASE GetEnabledAddresses
    <2>1. /\ job \in [pc : {"list"}, dev : Device,
                      keep : Address \cup {NoAddress}, max : Limit]
          /\ EnabledAddresses(job.dev) \subseteq Address
      BY <1>9 DEF GetEnabledAddresses, TypeOK, Job, NoJob, EnabledAddresses,
                  AddressesOf
    <2>2. job' \in Job \cup {NoJob}
      BY <1>9, <2>1 DEF GetEnabledAddresses, Job
    <2> QED
      BY <1>9, <2>2, <1>r
         DEF GetEnabledAddresses, TypeOK, registry, RegistryTypeOK
  <1>10. CASE EvictExcess
    <2>1. job.victims \in SUBSET Address
      BY <1>10 DEF EvictExcess, TypeOK, Job, NoJob
    <2>2. RegistryTypeOK'
      BY <1>10, <2>1, <1>r, DisabledShrinks
         DEF EvictExcess, DisableAddressesTx, RegistryTypeOK
    <2> QED
      BY <1>10, <2>2 DEF EvictExcess, TypeOK
  <1>11. CASE EnforceFails
    <2>1. job.dev \in Device
      BY <1>11 DEF EnforceFails, TypeOK, Job
    <2> QED
      BY <1>11, <2>1, <1>r
         DEF EnforceFails, TypeOK, registry, RegistryTypeOK
  <1>12. CASE Restart
    BY <1>12, <1>r DEF Restart, TypeOK, registry, RegistryTypeOK
  <1>13. CASE UNCHANGED vars
    BY <1>13 DEF vars, registry, TypeOK, RegistryTypeOK
  <1> QED
    BY <1>1, <1>2, <1>3, <1>4, <1>5, <1>6, <1>7, <1>8, <1>9, <1>10, <1>11,
       <1>12, <1>13 DEF Next, Environment, Listener

(* Every reachable state of the max-active-addresses service is well typed. *)
THEOREM TypeCorrect == Spec => []TypeOK
  <1>1. Init => TypeOK
    BY RegistryAssumption, MaxAddrAssumption
       DEF Init, RegistryInit, TypeOK, RegistryTypeOK
  <1> QED
    BY <1>1, TypeStep, PTL DEF Spec

-----------------------------------------------------------------------------
(* A frozen or deleted device keeps no enabled address: the device's state  *)
(* is read in the transaction that enables (device/addresses.go:36-47).    *)
LEMMA FrozenStep ==
    TypeOK /\ FrozenDeviceHasNoAccess /\ [Next]_vars => FrozenDeviceHasNoAccess'
  <1> SUFFICES ASSUME TypeOK, FrozenDeviceHasNoAccess, [Next]_vars
               PROVE  FrozenDeviceHasNoAccess'
    OBVIOUS
  <1> USE RegistryAssumption DEF FrozenDeviceHasNoAccess
  <1>r. RegistryTypeOK
    BY DEF TypeOK
  <1>1. ASSUME NEW r \in Request, NEW a \in Address,
               RegisterAddressActivity(r, a)
        PROVE FrozenDeviceHasNoAccess'
    BY <1>1, <1>r DEF RegisterAddressActivity, RegisterAddressTx,
                      RecordEnabled, RegistryTypeOK
  <1>2. ASSUME NEW S \in SUBSET Address, RecordDisabled(S), UNCHANGED device
        PROVE FrozenDeviceHasNoAccess'
    BY <1>2, <1>r DEF RecordDisabled, RegistryTypeOK
  <1>3. CASE OtherRegistryChange
    <2>1. ASSUME NEW d \in Device, CreateDevice(d) \/ EnableDevice(d)
          PROVE FrozenDeviceHasNoAccess'
      BY <2>1, <1>r DEF CreateDevice, EnableDevice, RegistryTypeOK
    <2>2. ASSUME NEW d \in Device, DisableDeviceTx(d) \/ DeleteDeviceTx(d)
          PROVE FrozenDeviceHasNoAccess'
      BY <2>2, <1>r DEF DisableDeviceTx, DeleteDeviceTx, RecordDisabled,
                        EnabledAddresses, AddressesOf, RegistryTypeOK
    <2>3. ASSUME NEW a \in Address, DisableAddressTx(a)
          PROVE FrozenDeviceHasNoAccess'
      BY <2>3, <1>2 DEF DisableAddressTx
    <2>4. ASSUME NEW S \in SUBSET Address, DisableAddressesTx(S)
          PROVE FrozenDeviceHasNoAccess'
      BY <2>4, <1>2 DEF DisableAddressesTx
    <2> QED
      BY <1>3, <2>1, <2>2, <2>3, <2>4 DEF OtherRegistryChange
  <1>4. CASE EvictExcess
    <2>1. job.victims \in SUBSET Address
      BY <1>4 DEF EvictExcess, TypeOK, Job, NoJob
    <2> QED
      BY <1>4, <2>1, <1>2 DEF EvictExcess, DisableAddressesTx
  <1>5. CASE UNCHANGED registry
    BY <1>5 DEF registry
  <1> QED
    BY <1>1, <1>3, <1>4, <1>5
       DEF Next, Environment, Listener, vars, EnableMaxActiveAddressesRule,
           DisableMaxActiveAddressesRule, Announce, TakeAddressEvent,
           TakeRuleEvent, GetMaxActiveAddresses, GetEnabledAddresses,
           EnforceFails, Restart

-----------------------------------------------------------------------------
(* With no more addresses and the same limit a device is not newly above it. *)
LEMMA StillOverCap ==
    ASSUME TypeOK, TypeOK', NEW d \in Device,
           EnabledAddresses(d)' \subseteq EnabledAddresses(d),
           limit'[d] = limit[d], OverCap(d)'
    PROVE  OverCap(d)
  <1>f. /\ IsFiniteSet(EnabledAddresses(d))
        /\ EnabledAddresses(d)' \in SUBSET EnabledAddresses(d)
    BY EnabledFinite
  <1>g. /\ Cardinality(EnabledAddresses(d)') <= Cardinality(EnabledAddresses(d))
        /\ IsFiniteSet(EnabledAddresses(d)')
    BY <1>f, FS_Subset
  <1>1. /\ Cardinality(EnabledAddresses(d)') <= Cardinality(EnabledAddresses(d))
        /\ Cardinality(EnabledAddresses(d)') \in Nat
        /\ Cardinality(EnabledAddresses(d)) \in Nat
    BY <1>f, <1>g, FS_CardinalityType
  <1>2. limit[d] \in Nat
    <2>1. limit[d] \in Limit \/ limit[d] = 0
      BY DEF TypeOK, NoLimit
    <2>2. CASE limit[d] \in Limit
      BY <2>2, MaxAddrAssumption
    <2>3. CASE limit[d] = 0
      BY <2>3
    <2> QED
      BY <2>1, <2>2, <2>3
  <1> QED
    BY <1>1, <1>2 DEF OverCap

(* A listener that stands still keeps what it knows when addresses are only *)
(* disabled, limits stay, and no waiting trigger disappears unnoticed.     *)
LEMMA StillCovered ==
    ASSUME IInv, TypeOK', UNCHANGED job,
           \A d \in Device :
             \/ Waiting(d)' \/ d \in lost'
             \/ /\ EnabledAddresses(d)' \subseteq EnabledAddresses(d)
                /\ limit'[d] = limit[d] \/ limit'[d] = NoLimit
                /\ ~Waiting(d) /\ d \notin lost
    PROVE  CapEnforced' /\ StaleReadsCovered'
  <1> DEFINE Fixed(d) == /\ EnabledAddresses(d)' \subseteq EnabledAddresses(d)
                         /\ limit'[d] = limit[d] \/ limit'[d] = NoLimit
                         /\ ~Waiting(d) /\ d \notin lost
  <1>1. CapEnforced'
    <2> SUFFICES ASSUME NEW d \in Device, OverCap(d)', Fixed(d)
                 PROVE  InJob(d)'
      BY DEF CapEnforced
    <2>1. limit'[d] = limit[d]
      BY DEF OverCap
    <2>2. OverCap(d)
      BY <2>1, StillOverCap DEF IInv
    <2> QED
      BY <2>2 DEF IInv, CapEnforced, InJob
  <1>2. StaleReadsCovered'
    <2> SUFFICES ASSUME NEW d \in Device, InJob(d)'
                 PROVE
        /\ (job.pc = "list" => LimitStillBounds(d) \/ Waiting(d) \/ d \in lost)'
        /\ (job.pc = "evict" =>
             /\ job.victims \subseteq job.list \ {job.keep}
             /\ Cardinality(job.list \ job.victims) = job.max
             /\ \/ /\ LimitStillBounds(d)
                   /\ EnabledAddresses(d) \subseteq job.list
                \/ Waiting(d) \/ d \in lost)'
      BY DEF StaleReadsCovered
    <2>1. InJob(d)
      BY DEF InJob
    <2>2. CASE Waiting(d)' \/ d \in lost'
      BY <2>1, <2>2 DEF IInv, StaleReadsCovered
    <2>3. CASE Fixed(d)
      <3>1. LimitStillBounds(d) => LimitStillBounds(d)'
        BY <2>3 DEF LimitStillBounds
      <3> QED
        BY <2>1, <2>3, <3>1 DEF IInv, StaleReadsCovered
    <2> QED
      BY <2>2, <2>3
  <1> QED
    BY <1>1, <1>2

(* One step of any actor preserves CapEnforced and StaleReadsCovered.      *)
LEMMA CapStep ==
    IInv /\ TypeOK' /\ [Next]_vars => CapEnforced' /\ StaleReadsCovered'
  <1> SUFFICES ASSUME IInv, TypeOK', [Next]_vars
               PROVE  CapEnforced' /\ StaleReadsCovered'
    OBVIOUS
  <1> USE RegistryAssumption
  <1>t. TypeOK /\ RegistryTypeOK
    BY DEF IInv, TypeOK
  \* A request that commits a trigger for D: D is waiting, others unchanged.
  <1>c. ASSUME NEW r \in Request, NEW t \in Trigger, Committed(r, t),
               UNCHANGED <<events, ruleEvents, job>>,
               \A d \in Device \ {t.dev} :
                  EnabledAddresses(d)' = EnabledAddresses(d)
                  /\ limit'[d] = limit[d]
        PROVE CapEnforced' /\ StaleReadsCovered'
    <2>1. inflight'[r] = t /\ t # Idle
      BY <1>c, <1>t, TriggerFields DEF Committed, TypeOK
    <2>2. Waiting(t.dev)'
      BY <2>1 DEF Waiting, InRequest
    <2>3. ASSUME NEW d \in Device \ {t.dev}
          PROVE  (Waiting(d)' <=> Waiting(d)) /\ (d \in lost' <=> d \in lost)
      <3>1. \A q \in Request : inflight'[q] = IF q = r THEN t ELSE inflight[q]
        BY <1>c, <1>t DEF Committed, TypeOK
      <3>2. InRequest(d)' <=> InRequest(d)
        BY <1>c, <2>1, <2>3, <3>1 DEF Committed, InRequest
      <3> QED
        BY <1>c, <3>2 DEF Committed, Waiting
    <2> QED
      BY <1>c, <2>2, <2>3, StillCovered
  \* Addresses are only disabled, and nothing else changes.
  <1>d. ASSUME \A d \in Device : EnabledAddresses(d)' \subseteq EnabledAddresses(d),
               UNCHANGED <<limit, inflight, events, ruleEvents, job, lost>>
        PROVE CapEnforced' /\ StaleReadsCovered'
    <2>1. \A d \in Device : Waiting(d)' <=> Waiting(d)
      BY <1>d DEF Waiting, InRequest
    <2> QED
      BY <1>d, <2>1, StillCovered
  <1>1. ASSUME NEW r \in Request, NEW a \in Address,
               RegisterAddressActivity(r, a)
        PROVE CapEnforced' /\ StaleReadsCovered'
    <2>1. RecordEnabled(a) /\ UNCHANGED <<limit, events, ruleEvents, job>>
      BY <1>1 DEF RegisterAddressActivity, RegisterAddressTx, volatile
    <2>2. CASE ActivityType(a) \in {"created", "enabled"}
      <3>1. /\ AddressTrigger(a) \in Trigger
            /\ AddressTrigger(a).dev = DeviceOf[a]
            /\ Committed(r, AddressTrigger(a))
        BY <1>1, <2>2 DEF RegisterAddressActivity, AddressTrigger, Trigger
      <3>2. \A d \in Device \ {DeviceOf[a]} :
               EnabledAddresses(d)' = EnabledAddresses(d)
        BY <2>1, <1>t, EnabledGrows
      <3> QED
        BY <1>c, <2>1, <3>1, <3>2
    <2>3. CASE ActivityType(a) \notin {"created", "enabled"}
      <3>1. addr[a] = "enabled"
        BY <2>3, <1>t DEF ActivityType, RegistryTypeOK
      <3>2. a \in EnabledAddresses(DeviceOf[a])
        BY <3>1 DEF EnabledAddresses, AddressesOf
      <3>3. \A d \in Device : EnabledAddresses(d)' \subseteq EnabledAddresses(d)
        BY <2>1, <3>2, <1>t, EnabledGrows
      <3>4. UNCHANGED <<inflight, lost>>
        BY <1>1, <2>3 DEF RegisterAddressActivity
      <3> QED
        BY <1>d, <2>1, <3>3, <3>4
    <2> QED
      BY <2>2, <2>3
  <1>2. ASSUME NEW r \in Request, NEW d \in Device, NEW n \in Limit,
               EnableMaxActiveAddressesRule(r, d, n)
        PROVE CapEnforced' /\ StaleReadsCovered'
    <2>1. RuleTrigger(d) \in Trigger /\ RuleTrigger(d).dev = d
      BY DEF Trigger, RuleTrigger
    <2>2. /\ Committed(r, RuleTrigger(d))
          /\ UNCHANGED <<registry, events, ruleEvents, job>>
          /\ \A e \in Device \ {d} : limit'[e] = limit[e]
      BY <1>2, <1>t DEF EnableMaxActiveAddressesRule, volatile, TypeOK
    <2>3. \A e \in Device : EnabledAddresses(e)' = EnabledAddresses(e)
      BY <2>2 DEF registry, EnabledAddresses, AddressesOf
    <2> QED
      BY <1>c, <2>1, <2>2, <2>3
  <1>3. ASSUME NEW d \in Device, DisableMaxActiveAddressesRule(d)
        PROVE CapEnforced' /\ StaleReadsCovered'
    <2>1. /\ \A e \in Device : limit'[e] = limit[e] \/ limit'[e] = NoLimit
          /\ UNCHANGED <<registry, inflight, events, ruleEvents, job, lost>>
      BY <1>3, <1>t DEF DisableMaxActiveAddressesRule, volatile, TypeOK
    <2>2. \A e \in Device : /\ EnabledAddresses(e)' = EnabledAddresses(e)
                            /\ Waiting(e)' <=> Waiting(e)
      BY <2>1 DEF registry, EnabledAddresses, AddressesOf, Waiting, InRequest
    <2> QED
      BY <2>1, <2>2, StillCovered
  <1>4. CASE OtherRegistryChange
    <2>1. UNCHANGED <<limit, inflight, events, ruleEvents, job, lost>>
      BY <1>4 DEF OtherRegistryChange, volatile
    <2>2. ASSUME NEW S \in SUBSET Address, RecordDisabled(S)
          PROVE  \A d \in Device : EnabledAddresses(d)' \subseteq EnabledAddresses(d)
      BY <2>2, <1>t, DisabledShrinks
    <2>3. ASSUME UNCHANGED addr
          PROVE  \A d \in Device : EnabledAddresses(d)' \subseteq EnabledAddresses(d)
      BY <2>3 DEF EnabledAddresses, AddressesOf
    <2>4. \A d : EnabledAddresses(d) \in SUBSET Address
      BY DEF EnabledAddresses, AddressesOf
    <2>5. \A d \in Device : EnabledAddresses(d)' \subseteq EnabledAddresses(d)
      <3>1. ASSUME NEW d \in Device, CreateDevice(d) \/ EnableDevice(d)
            PROVE UNCHANGED addr
        BY <3>1 DEF CreateDevice, EnableDevice
      <3>2. ASSUME NEW d \in Device, DisableDeviceTx(d) \/ DeleteDeviceTx(d)
            PROVE \E S \in SUBSET Address : RecordDisabled(S)
        BY <3>2, <2>4 DEF DisableDeviceTx, DeleteDeviceTx
      <3>3. ASSUME NEW a \in Address, DisableAddressTx(a)
            PROVE \E S \in SUBSET Address : RecordDisabled(S)
        BY <3>3 DEF DisableAddressTx
      <3>4. ASSUME NEW S \in SUBSET Address, DisableAddressesTx(S)
            PROVE RecordDisabled(S)
        BY <3>4 DEF DisableAddressesTx
      <3> QED
        BY <1>4, <2>2, <2>3, <3>1, <3>2, <3>3, <3>4 DEF OtherRegistryChange
    <2> QED
      BY <1>d, <2>1, <2>5
  \* Announce: the trigger moves to a queue, or its device becomes lost.
  <1>5. ASSUME NEW r \in Request, Announce(r)
        PROVE CapEnforced' /\ StaleReadsCovered'
    <2>1. inflight[r] \in Trigger /\ UNCHANGED <<registry, limit, job>>
      BY <1>5, <1>t DEF Announce, TypeOK
    <2>2. \A d \in Device : EnabledAddresses(d)' = EnabledAddresses(d)
      BY <2>1 DEF registry, EnabledAddresses, AddressesOf
    <2>3. ASSUME NEW d \in Device
          PROVE  Waiting(d) \/ d \in lost => Waiting(d)' \/ d \in lost'
      <3>1. \A q \in Request : inflight'[q] = IF q = r THEN Idle ELSE inflight[q]
        BY <1>5, <1>t DEF Announce, TypeOK
      <3>2. InRequest(d) => InRequest(d)' \/ inflight[r].dev = d
        BY <3>1 DEF InRequest
      <3>3. /\ events \in Seq(Trigger) /\ ruleEvents \in Seq(Trigger)
        BY <1>t DEF TypeOK
      <3>4. CASE OnAddressEvent(inflight[r])
        <4>1. /\ Holds(events, d) \/ inflight[r].dev = d \/ d \in lost
                   => Holds(events, d)' \/ d \in lost'
              /\ ruleEvents' = ruleEvents
          BY <2>1, <3>3, <3>4, HoldsAppend DEF OnAddressEvent
        <4> QED
          BY <3>2, <4>1 DEF Waiting
      <3>5. CASE OnRuleEvent(inflight[r])
        <4>1. /\ Holds(ruleEvents, d) \/ inflight[r].dev = d \/ d \in lost
                   => Holds(ruleEvents, d)' \/ d \in lost'
              /\ events' = events
          BY <2>1, <3>3, <3>5, HoldsAppend DEF OnRuleEvent
        <4> QED
          BY <3>2, <4>1 DEF Waiting
      <3> QED
        BY <1>5, <3>4, <3>5 DEF Announce
    <2> QED
      BY <2>1, <2>2, <2>3, StillCovered
  \* A receive moves the head of a queue into the listener.
  <1>6. ASSUME job = NoJob, job'.pc = "limit", job' # NoJob,
               UNCHANGED <<registry, limit, lost>>,
               \A d \in Device : Waiting(d) => Waiting(d)' \/ job'.dev = d
        PROVE CapEnforced' /\ StaleReadsCovered'
    <2>1. \A d \in Device : OverCap(d)' <=> OverCap(d)
      BY <1>6 DEF registry, OverCap, EnabledAddresses, AddressesOf
    <2> QED
      BY <1>6, <2>1 DEF IInv, CapEnforced, StaleReadsCovered, InJob
  <1>7. CASE TakeAddressEvent
    <2>1. events \in Seq(Trigger) /\ events # <<>>
      BY <1>7, <1>t DEF TakeAddressEvent, TypeOK
    <2>2. /\ job = NoJob /\ job'.pc = "limit" /\ job'.dev = Head(events).dev
          /\ job' # NoJob /\ events' = Tail(events)
          /\ UNCHANGED <<registry, limit, lost, inflight, ruleEvents>>
      BY <1>7 DEF TakeAddressEvent, NoJob
    <2>3. \A d \in Device : Waiting(d) => Waiting(d)' \/ job'.dev = d
      BY <2>1, <2>2, HoldsTail DEF Waiting, InRequest
    <2> QED
      BY <1>6, <2>2, <2>3
  <1>8. CASE TakeRuleEvent
    <2>1. ruleEvents \in Seq(Trigger) /\ ruleEvents # <<>>
      BY <1>8, <1>t DEF TakeRuleEvent, TypeOK
    <2>2. /\ job = NoJob /\ job'.pc = "limit" /\ job'.dev = Head(ruleEvents).dev
          /\ job' # NoJob /\ ruleEvents' = Tail(ruleEvents)
          /\ UNCHANGED <<registry, limit, lost, inflight, events>>
      BY <1>8 DEF TakeRuleEvent, NoJob
    <2>3. \A d \in Device : Waiting(d) => Waiting(d)' \/ job'.dev = d
      BY <2>1, <2>2, HoldsTail DEF Waiting, InRequest
    <2> QED
      BY <1>6, <2>2, <2>3
  \* The listener's own steps leave the waiting triggers where they are.
  <1>9. ASSUME UNCHANGED <<limit, inflight, events, ruleEvents, lost>>
        PROVE  \A d \in Device : /\ Waiting(d)' <=> Waiting(d)
                                 /\ d \in lost' <=> d \in lost
    BY <1>9 DEF Waiting, InRequest
  <1>10. CASE GetMaxActiveAddresses
    <2>1. /\ UNCHANGED <<registry, limit, inflight, events, ruleEvents, lost>>
          /\ job # NoJob /\ job.dev \in Device
      BY <1>10, <1>t DEF GetMaxActiveAddresses, TypeOK, Job, NoJob
    <2>2. \A d \in Device : OverCap(d)' <=> OverCap(d)
      BY <2>1 DEF registry, OverCap, EnabledAddresses, AddressesOf
    <2>3. CASE limit[job.dev] = NoLimit
      <3>1. job' = NoJob /\ ~OverCap(job.dev)
        BY <1>10, <2>3 DEF GetMaxActiveAddresses, OverCap
      <3> QED
        BY <2>1, <2>2, <3>1, <1>9 DEF IInv, CapEnforced, StaleReadsCovered, InJob
    <2>4. CASE limit[job.dev] # NoLimit
      <3>1. /\ job'.pc = "list" /\ job'.dev = job.dev
            /\ job'.max = limit[job.dev] /\ job' # NoJob
        BY <1>10, <2>4 DEF GetMaxActiveAddresses, NoJob
      <3>2. limit[job.dev] \in Nat
        <4>1. limit[job.dev] \in Limit
          BY <2>1, <2>4, <1>t DEF TypeOK
        <4> QED
          BY <4>1, MaxAddrAssumption
      <3>3. CapEnforced'
        BY <2>1, <2>2, <3>1, <1>9 DEF IInv, CapEnforced, InJob
      <3>4. \A d \in Device : InJob(d)' => LimitStillBounds(d)'
        BY <2>1, <3>1, <3>2 DEF InJob, LimitStillBounds
      <3>5. StaleReadsCovered'
        BY <3>1, <3>4 DEF StaleReadsCovered
      <3> QED
        BY <3>3, <3>5
    <2> QED
      BY <2>3, <2>4
  \* The list the listener reads: within the limit it read before, or not.
  <1>11. CASE GetEnabledAddresses
    <2>a. /\ UNCHANGED <<registry, limit, inflight, events, ruleEvents, lost>>
          /\ job.pc = "list"
      BY <1>11 DEF GetEnabledAddresses
    <2>b. job # NoJob /\ job.dev \in Device /\ job.max \in Limit
      BY <2>a, <1>t DEF TypeOK, Job, NoJob
    <2>c. PICK D \in Device : D = job.dev
      BY <2>b
    <2>d. PICK M \in Nat : M = job.max
      BY <2>b, MaxAddrAssumption
    <2>e. PICK list \in SUBSET Address : list = EnabledAddresses(D)
      BY DEF EnabledAddresses, AddressesOf
    <2>2. \A d \in Device : /\ OverCap(d)' <=> OverCap(d)
                            /\ EnabledAddresses(d)' = EnabledAddresses(d)
      BY <2>a DEF registry, OverCap, EnabledAddresses, AddressesOf
    <2>3. InJob(D)
      BY <2>b, <2>c DEF InJob
    <2>4. (limit[D] = NoLimit \/ M <= limit[D]) \/ Waiting(D) \/ D \in lost
      BY <2>a, <2>3, <2>d DEF IInv, StaleReadsCovered, LimitStillBounds
    <2>5. IsFiniteSet(list) /\ Cardinality(list) \in Nat
      BY <2>e, EnabledFinite, FS_CardinalityType
    <2>6. limit[D] \in Nat
      <3>1. limit[D] \in Limit \/ limit[D] = 0
        BY <1>t DEF TypeOK, NoLimit
      <3>2. CASE limit[D] \in Limit
        BY <3>2, MaxAddrAssumption
      <3> QED
        BY <3>1, <3>2
    <2>7. CASE job' = NoJob /\ Cardinality(list) <= M
      <3>1. limit[D] = NoLimit \/ M <= limit[D] => ~OverCap(D)
        BY <2>5, <2>6, <2>7, <2>e DEF OverCap
      <3>2. OverCap(D) => Waiting(D) \/ D \in lost
        BY <2>4, <3>1
      <3>3. ASSUME NEW d \in Device, OverCap(d)'
            PROVE  d \in lost' \/ Waiting(d)'
        <4>1. d \in lost \/ Waiting(d) \/ InJob(d)
          BY <3>3, <2>2 DEF IInv, CapEnforced
        <4>2. InJob(d) => d = D
          BY <2>c DEF InJob
        <4>3. d \in lost \/ Waiting(d)
          BY <4>1, <4>2, <3>2, <3>3, <2>2
        <4> QED
          BY <4>3, <2>a, <1>9
      <3> QED
        BY <2>7, <3>3 DEF CapEnforced, StaleReadsCovered, InJob
    <2>8. ASSUME NEW V \in SUBSET list,
                 IsEviction(V, list, M, job.keep),
                 job' = [pc |-> "evict", dev |-> D, keep |-> job.keep,
                         max |-> M, list |-> list, victims |-> V]
          PROVE  CapEnforced' /\ StaleReadsCovered'
      <3>1. /\ V \subseteq list \ {job.keep}
            /\ Cardinality(V) = Cardinality(list) - M
        BY <2>8 DEF IsEviction
      <3>2. Cardinality(list \ V) = M
        <4>1. list \cap V = V
          OBVIOUS
        <4>2. Cardinality(list \ V) = Cardinality(list) - Cardinality(V)
          BY <2>5, <4>1, FS_Difference
        <4> HIDE <2>8
        <4> QED
          BY <3>1, <4>2, <2>5
      <3>3. /\ job'.pc = "evict" /\ job'.dev = D /\ job' # NoJob
            /\ job'.keep = job.keep /\ job'.max = M
            /\ job'.list = list /\ job'.victims = V
        BY <2>8 DEF NoJob
      <3>4. ASSUME NEW d \in Device, OverCap(d)'
            PROVE  d \in lost' \/ Waiting(d)' \/ InJob(d)'
        <4>1. d \in lost \/ Waiting(d) \/ InJob(d)
          BY <3>4, <2>2 DEF IInv, CapEnforced
        <4>2. InJob(d) => InJob(d)'
          BY <3>3, <2>c DEF InJob
        <4> QED
          BY <4>1, <4>2, <2>a, <1>9
      <3>5. ASSUME NEW d \in Device, InJob(d)' PROVE d = D
        BY <3>3, <3>5 DEF InJob
      <3>6. limit[D] = NoLimit \/ M <= limit[D] => LimitStillBounds(D)'
        BY <2>a, <3>3 DEF LimitStillBounds
      <3>7. EnabledAddresses(D)' \subseteq list
        BY <2>2, <2>e
      <3>8. LimitStillBounds(D)' \/ Waiting(D)' \/ D \in lost'
        BY <2>4, <3>6, <2>a, <1>9
      <3>9. StaleReadsCovered'
        BY <3>1, <3>2, <3>3, <3>5, <3>7, <3>8 DEF StaleReadsCovered
      <3> QED
        BY <3>4, <3>9 DEF CapEnforced
    <2> QED
      BY <1>11, <2>7, <2>8, <2>c, <2>d, <2>e DEF GetEnabledAddresses
  \* The eviction: what is left is within the limit read, hence within the
  \* limit stored, unless a newer trigger is waiting or was lost.
  <1>12. CASE EvictExcess
    <2>1. /\ RecordDisabled(job.victims) /\ job' = NoJob /\ job.pc = "evict"
          /\ UNCHANGED <<limit, inflight, events, ruleEvents, lost>>
      BY <1>12 DEF EvictExcess, DisableAddressesTx
    <2>2. /\ job # NoJob /\ job.dev \in Device /\ job.max \in Limit
          /\ job.victims \in SUBSET Address /\ job.list \in SUBSET Address
      BY <2>1, <1>t DEF TypeOK, Job, NoJob
    <2>a. PICK D \in Device : D = job.dev
      BY <2>2
    <2>b. PICK M \in Nat : M = job.max
      BY <2>2, MaxAddrAssumption
    <2>c. PICK left \in SUBSET Address : left = job.list \ job.victims
      BY <2>2
    <2>3. InJob(D)
      BY <2>2, <2>a DEF InJob
    <2>4. \A d \in Device :
             EnabledAddresses(d)' = EnabledAddresses(d) \ job.victims
      BY <2>1, <2>2, <1>t, DisabledShrinks
    <2>5. /\ Cardinality(left) = M
          /\ \/ /\ limit[D] = NoLimit \/ M <= limit[D]
                /\ EnabledAddresses(D)' \subseteq left
             \/ Waiting(D) \/ D \in lost
      <3>1. /\ Cardinality(job.list \ job.victims) = job.max
            /\ \/ /\ LimitStillBounds(D)
                  /\ EnabledAddresses(D) \subseteq job.list
               \/ Waiting(D) \/ D \in lost
        BY <2>1, <2>3 DEF IInv, StaleReadsCovered
      <3> QED
        BY <3>1, <2>4, <2>b, <2>c DEF LimitStillBounds
    <2>6. ASSUME limit[D] = NoLimit \/ M <= limit[D],
                 EnabledAddresses(D)' \subseteq left
          PROVE  ~OverCap(D)'
      <3>1. PICK now \in SUBSET left : now = EnabledAddresses(D)'
        BY <2>6
      <3>2. IsFiniteSet(left)
        BY RegistryAssumption, FS_Subset
      <3>3. Cardinality(now) <= M /\ IsFiniteSet(now)
        BY <2>5, <3>2, FS_Subset
      <3>4. Cardinality(now) \in Nat
        BY <3>3, FS_CardinalityType
      <3>5. limit[D] \in Limit \/ limit[D] = NoLimit
        BY <1>t DEF TypeOK
      <3>6. limit[D] \in Limit => limit[D] \in Nat
        BY MaxAddrAssumption
      <3>7. ~(limit[D] # NoLimit /\ Cardinality(now) > limit[D])
        BY <2>6, <3>3, <3>4, <3>5, <3>6
      <3>8. OverCap(D)' <=> (limit[D] # NoLimit /\ Cardinality(now) > limit[D])
        BY <2>1, <3>1 DEF OverCap, NoLimit
      <3> QED
        BY <3>7, <3>8
    <2>7. ASSUME NEW d \in Device, OverCap(d)' PROVE d \in lost' \/ Waiting(d)'
      <3>1. CASE d = D
        BY <2>5, <2>6, <2>7, <3>1, <2>1, <1>9
      <3>2. CASE d # D
        <4>1. OverCap(d)
          BY <2>1, <2>4, <2>7, <1>t, StillOverCap
        <4>2. ~InJob(d)
          BY <2>a, <3>2 DEF InJob
        <4>3. d \in lost \/ Waiting(d)
          BY <4>1, <4>2 DEF IInv, CapEnforced
        <4> QED
          BY <4>3, <2>1, <1>9
      <3> QED
        BY <3>1, <3>2
    <2> QED
      BY <2>1, <2>7 DEF CapEnforced, StaleReadsCovered, InJob
  <1>13. CASE EnforceFails
    <2>1. /\ job' = NoJob /\ job # NoJob /\ lost' = lost \cup {job.dev}
          /\ UNCHANGED <<registry, limit, inflight, events, ruleEvents>>
      BY <1>13 DEF EnforceFails
    <2>2. \A d \in Device : /\ OverCap(d)' <=> OverCap(d)
                            /\ Waiting(d)' <=> Waiting(d)
      BY <2>1 DEF registry, OverCap, EnabledAddresses, AddressesOf, Waiting,
                  InRequest
    <2> QED
      BY <2>1, <2>2 DEF IInv, CapEnforced, StaleReadsCovered, InJob
  <1>14. CASE Restart
    <2>1. /\ job' = NoJob /\ UNCHANGED <<registry, limit>>
          /\ \A d \in Device : d \in lost \/ Waiting(d) \/ InJob(d) => d \in lost'
      BY <1>14 DEF Restart
    <2>2. \A d \in Device : OverCap(d)' <=> OverCap(d)
      BY <2>1 DEF registry, OverCap, EnabledAddresses, AddressesOf
    <2>3. CapEnforced'
      BY <2>1, <2>2 DEF IInv, CapEnforced
    <2> QED
      BY <2>1, <2>3 DEF StaleReadsCovered, InJob
  <1>15. CASE UNCHANGED vars
    <2>1. \A d \in Device : EnabledAddresses(d)' \subseteq EnabledAddresses(d)
      BY <1>15 DEF vars, registry, EnabledAddresses, AddressesOf
    <2> QED
      BY <1>15, <2>1, <1>d DEF vars
  <1> QED
    BY <1>1, <1>2, <1>3, <1>4, <1>5, <1>7, <1>8, <1>10, <1>11, <1>12, <1>13,
       <1>14, <1>15 DEF Next, Environment, Listener

-----------------------------------------------------------------------------
(* The inductive invariant holds in every reachable state.                 *)
LEMMA Invariance == Spec => []IInv
  <1>1. Init => IInv
    <2> SUFFICES ASSUME Init PROVE IInv
      OBVIOUS
    <2>1. TypeOK
      BY RegistryAssumption, MaxAddrAssumption
         DEF Init, RegistryInit, TypeOK, RegistryTypeOK
    <2>2. FrozenDeviceHasNoAccess
      BY DEF Init, RegistryInit, FrozenDeviceHasNoAccess
    <2>3. CapEnforced /\ StaleReadsCovered
      BY DEF Init, CapEnforced, StaleReadsCovered, OverCap, InJob
    <2> QED
      BY <2>1, <2>2, <2>3 DEF IInv
  <1>2. IInv /\ [Next]_vars => IInv'
    BY TypeStep, FrozenStep, CapStep DEF IInv
  <1> QED
    BY <1>1, <1>2, PTL DEF Spec

(* A disabled or deleted device never has an enabled address, however       *)
(* heartbeats, toggles, the expiry job and evictions interleave with the   *)
(* freeze (device/service.go:223-263, device/addresses.go:24-85).          *)
THEOREM FrozenDevice == Spec => []FrozenDeviceHasNoAccess
  <1>1. IInv => FrozenDeviceHasNoAccess
    BY DEF IInv
  <1> QED
    BY <1>1, Invariance, PTL

(* A device above its limit always has a trigger pending, in work, or       *)
(* recorded as lost: enforce (maxaddr/service.go:99-147) misses nothing,   *)
(* for any number of devices, requests, limits and queue sizes.            *)
THEOREM CapIsEnforced == Spec => []CapEnforced
  <1>1. IInv => CapEnforced
    BY DEF IInv
  <1> QED
    BY <1>1, Invariance, PTL

(* What the listener read either still bounds the stored state or a newer   *)
(* trigger for the device is pending or lost.                              *)
THEOREM StaleReadsAreCovered == Spec => []StaleReadsCovered
  <1>1. IInv => StaleReadsCovered
    BY DEF IInv
  <1> QED
    BY <1>1, Invariance, PTL
=============================================================================
