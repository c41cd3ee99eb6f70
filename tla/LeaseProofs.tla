---------------------------- MODULE LeaseProofs -----------------------------
(***************************************************************************)
(* Proofs about Lease, for every set of devices, addresses and requests,   *)
(* every set of TTLs and every queue capacity.                             *)
(***************************************************************************)
EXTENDS Lease, SequenceTheorems, TLAPS

(* Of two unannounced events about one address or device the later one has *)
(* marked it as raced.                                                     *)
OneUnannounced ==
    \A p, q \in Process : \A e \in inflight[p], f \in inflight[q] :
        e.of = f.of /\ e.of \notin raced => p = q /\ e = f

(* The deadline left agrees with the rule t.                               *)
Within(left, t) == IF t \in Nat THEN left \in Nat /\ left <= t ELSE left = Never

(* v is the newest event about x in the queue.                             *)
Newest(queue, x, v) ==
    \E i \in Queued(queue, x) :
        (\A j \in Queued(queue, x) : j <= i) /\ queue[i] = v

(* What the table will say about the deadlines of d's addresses, in the    *)
(* same way as WillHaveLease: the newest event about the rule decides, or  *)
(* else the rows themselves, and the row that is being written.            *)
RuleReaches(d) ==
    IF d \in Subjects(Unannounced)
      THEN \A e \in Unannounced : e.of = d => Within(e.left, ttl[d])
    ELSE IF Queued(ruleEvents, d) # {}
      THEN \A v \in RuleEvent : Newest(ruleEvents, d, v) => Within(v.left, ttl[d])
    ELSE /\ \A a \in Address : DeviceOf[a] = d =>
              lease[a] = NoLease \/ Within(lease[a], ttl[d])
         /\ job.pc = "upsert" /\ DeviceOf[job.of] = d => Within(job.left, ttl[d])

AddressOK(a) == Trusted(a) => (WillHaveLease(a) <=> addr[a] = "enabled")
DeviceOK(d) == Trusted(d) => RuleReaches(d)

LeaseFollowsRule == \A d \in Device : DeviceOK(d)

IInv == TypeOK /\ OneUnannounced /\ LeaseFollowsAddress /\ LeaseFollowsRule

-----------------------------------------------------------------------------
(* The registry's transactions.                                            *)
LEMMA DisableEffect ==
    ASSUME RegistryTypeOK, NEW S \in SUBSET Address, RecordDisabled(S)
    PROVE  /\ addr' \in [Address -> {"absent", "enabled", "disabled"}]
           /\ older' \in SUBSET (Address \X Address)
           /\ \A a \in Address : addr'[a] = IF a \in S THEN "disabled" ELSE addr[a]
  BY DEF RegistryTypeOK, RecordDisabled

LEMMA EnableEffect ==
    ASSUME RegistryTypeOK, NEW a \in Address, RegisterAddressTx(a)
    PROVE  /\ RegistryTypeOK'
           /\ \A b \in Address : addr'[b] = IF b = a THEN "enabled" ELSE addr[b]
  BY DEF RegistryTypeOK, RegisterAddressTx, RecordEnabled, EnabledAddresses, AddressesOf

(* Every way of disabling disables exactly the addresses it announces.     *)
LEMMA DisableSomeEffect ==
    ASSUME TypeOK, NEW r \in Request, DisableSome(r)
    PROVE  \E S \in SUBSET Address :
             /\ Committed(r, {Disabled(a) : a \in S})
             /\ RegistryTypeOK'
             /\ \A a \in Address : addr'[a] = IF a \in S THEN "disabled" ELSE addr[a]
  <1>r. RegistryTypeOK
    BY DEF TypeOK
  <1>1. ASSUME NEW a \in Address, DisableAddressTx(a), Committed(r, {Disabled(a)})
        PROVE  \E S \in SUBSET Address :
                 /\ Committed(r, {Disabled(x) : x \in S})
                 /\ RegistryTypeOK'
                 /\ \A x \in Address : addr'[x] = IF x \in S THEN "disabled" ELSE addr[x]
    <2>1. RecordDisabled({a}) /\ UNCHANGED device
      BY <1>1 DEF DisableAddressTx
    <2>2. {Disabled(x) : x \in {a}} = {Disabled(a)}
      OBVIOUS
    <2>3. Committed(r, {Disabled(x) : x \in {a}})
      BY <1>1, <2>2
    <2>4. /\ RegistryTypeOK'
          /\ \A x \in Address : addr'[x] = IF x \in {a} THEN "disabled" ELSE addr[x]
      BY <1>r, <2>1, DisableEffect DEF RegistryTypeOK
    <2> QED
      BY <2>3, <2>4
  <1>2. ASSUME NEW S \in SUBSET Address, DisableAddressesTx(S)
        PROVE  /\ RegistryTypeOK'
               /\ \A x \in Address : addr'[x] = IF x \in S THEN "disabled" ELSE addr[x]
    BY <1>r, <1>2, DisableEffect DEF RegistryTypeOK, DisableAddressesTx
  <1>3. ASSUME NEW d \in Device, DisableDeviceTx(d) \/ DeleteDeviceTx(d)
        PROVE  /\ EnabledAddresses(d) \in SUBSET Address
               /\ RegistryTypeOK'
               /\ \A x \in Address : addr'[x] = IF x \in EnabledAddresses(d)
                                                THEN "disabled" ELSE addr[x]
    <2>1. EnabledAddresses(d) \in SUBSET Address
      BY DEF EnabledAddresses, AddressesOf
    <2>2. /\ RecordDisabled(EnabledAddresses(d))
          /\ device' \in [Device -> {"absent", "active", "disabled", "deleted"}]
      BY <1>r, <1>3 DEF DisableDeviceTx, DeleteDeviceTx, RegistryTypeOK
    <2> QED
      BY <1>r, <2>1, <2>2, DisableEffect DEF RegistryTypeOK
  <1> QED
    BY <1>1, <1>2, <1>3 DEF DisableSome, DisableAddress, DisableAddresses,
                            DisableOrDeleteDevice

-----------------------------------------------------------------------------
(* Events.                                                                 *)
LEMMA EventKinds ==
    /\ \A a \in Address : /\ Enabled(a) \in AddressEvent
                          /\ Disabled(a) \in AddressEvent
                          /\ Enabled(a).of = a /\ Disabled(a).of = a
                          /\ Enabled(a) # Disabled(a)
    /\ \A e \in AddressEvent :
         /\ e.of \in Address
         /\ e = IF e.kind = "enabled" THEN Enabled(e.of) ELSE Disabled(e.of)
         /\ e.kind \in {"enabled", "disabled"}
    /\ \A d \in Device, l \in Left : /\ RuleSet(d, l) \in RuleEvent
                                     /\ RuleSet(d, l).of = d
                                     /\ RuleSet(d, l).left = l
    /\ \A e \in RuleEvent : e.of \in Device /\ e.kind = "rule" /\ e.left \in Left
    /\ \A e \in Event : /\ e.of \in Address => e \in AddressEvent
                        /\ e.of \in Device => e \in RuleEvent
                        /\ e.kind = "rule" => e \in RuleEvent
                        /\ e.kind # "rule" => e \in AddressEvent
  BY LeaseAssumption
     DEF AddressEvent, RuleEvent, Event, Enabled, Disabled, RuleSet

LEMMA DisabledEvents ==
    ASSUME NEW S \in SUBSET Address
    PROVE  LET E == {Disabled(a) : a \in S} IN
           /\ E \in SUBSET Event /\ Subjects(E) = S
           /\ \A e \in E : e.of \in S /\ e = Disabled(e.of) /\ e.kind = "disabled"
  <1> DEFINE E == {Disabled(a) : a \in S}
  <1>1. \A a \in S : /\ Disabled(a) \in Event /\ Disabled(a).of = a
                     /\ Disabled(a).kind = "disabled"
    BY EventKinds DEF Event, Disabled
  <1>2. \A e \in E : e \in Event /\ e.of \in S /\ e = Disabled(e.of)
                     /\ e.kind = "disabled"
    BY <1>1
  <1>3. Subjects(E) = S
    BY <1>1, <1>2 DEF Subjects
  <1> QED
    BY <1>2, <1>3

(* Queues.                                                                 *)
LEMMA QueuedAppend ==
    ASSUME NEW S, NEW q \in Seq(S), NEW e \in S, NEW x
    PROVE  /\ e.of = x => /\ Queued(Append(q, e), x) # {}
                          /\ \A v : Newest(Append(q, e), x, v) <=> v = e
           /\ e.of # x => /\ Queued(Append(q, e), x) = Queued(q, x)
                          /\ \A v : Newest(Append(q, e), x, v) <=> Newest(q, x, v)
  <1> DEFINE n == Len(q)
             r == Append(q, e)
  <1>1. /\ n \in Nat /\ DOMAIN q = 1 .. n /\ DOMAIN r = 1 .. n + 1
        /\ r[n + 1] = e /\ \A i \in 1 .. n : r[i] = q[i]
    OBVIOUS
  <1> HIDE DEF n, r
  <1>2. CASE e.of = x
    <2>1. n + 1 \in Queued(r, x) /\ \A j \in Queued(r, x) : j \in 1 .. n + 1
      BY <1>1, <1>2 DEF Queued
    <2>2. \A i \in Queued(r, x) : (\A j \in Queued(r, x) : j <= i) => i = n + 1
      BY <1>1, <2>1
    <2> QED
      BY <1>1, <1>2, <2>1, <2>2 DEF Newest, r
  <1>3. CASE e.of # x
    <2>1. Queued(r, x) = Queued(q, x)
      BY <1>1, <1>3 DEF Queued
    <2>2. \A i \in Queued(q, x) : r[i] = q[i]
      BY <1>1 DEF Queued
    <2> QED
      BY <1>3, <2>1, <2>2 DEF Newest, r
  <1> QED
    BY <1>2, <1>3

LEMMA QueuedLast ==
    ASSUME NEW S, NEW q \in Seq(S), NEW e \in S
    PROVE  /\ Queued(Append(q, e), e.of) # {}
           /\ \A v : Newest(Append(q, e), e.of, v) <=> v = e
  BY QueuedAppend

LEMMA QueuedOther ==
    ASSUME NEW S, NEW q \in Seq(S), NEW e \in S
    PROVE  \A x : x # e.of =>
             /\ Queued(Append(q, e), x) = Queued(q, x)
             /\ \A v : Newest(Append(q, e), x, v) <=> Newest(q, x, v)
  BY QueuedAppend

LEMMA QueuedTail ==
    ASSUME NEW S, NEW q \in Seq(S), q # <<>>, NEW x
    PROVE  /\ Queued(q, x) # {} <=> Head(q).of = x \/ Queued(Tail(q), x) # {}
           /\ Queued(Tail(q), x) # {} =>
                \A v : Newest(Tail(q), x, v) <=> Newest(q, x, v)
           /\ Queued(Tail(q), x) = {} =>
                \A v : Newest(q, x, v) <=> Head(q).of = x /\ v = Head(q)
  <1> DEFINE n == Len(q)
             r == Tail(q)
  <1>1. /\ n \in Nat \ {0} /\ DOMAIN q = 1 .. n /\ DOMAIN r = 1 .. n - 1
        /\ Head(q) = q[1] /\ \A i \in 1 .. n - 1 : r[i] = q[i + 1]
    OBVIOUS
  <1> HIDE DEF n, r
  <1>2. \A i \in Int : i \in Queued(r, x) <=> i >= 1 /\ i + 1 \in Queued(q, x)
    BY <1>1 DEF Queued
  <1>3. /\ Queued(q, x) \subseteq 1 .. n /\ Queued(r, x) \subseteq 1 .. n - 1
        /\ 1 \in Queued(q, x) <=> Head(q).of = x
    BY <1>1 DEF Queued
  <1>4. ASSUME NEW i \in Queued(q, x), i # 1
        PROVE  i - 1 \in Queued(r, x) /\ i - 1 \in Int /\ i \in Int
    BY <1>1, <1>2, <1>3, <1>4
  <1>5. Queued(q, x) # {} <=> Head(q).of = x \/ Queued(r, x) # {}
    BY <1>2, <1>3, <1>4
  <1>6. ASSUME Queued(r, x) # {}, NEW v
        PROVE  Newest(r, x, v) <=> Newest(q, x, v)
    <2>1. ASSUME Newest(r, x, v) PROVE Newest(q, x, v)
      <3>1. PICK i \in Queued(r, x) :
              (\A j \in Queued(r, x) : j <= i) /\ r[i] = v
        BY <2>1 DEF Newest
      <3>2. i \in 1 .. n - 1 /\ i + 1 \in Queued(q, x) /\ q[i + 1] = v
        BY <1>1, <1>2, <1>3, <3>1
      <3>3. ASSUME NEW j \in Queued(q, x) PROVE j <= i + 1
        <4>1. CASE j = 1
          BY <3>2, <4>1
        <4>2. CASE j # 1
          BY <4>2, <3>1, <3>2, <1>4
        <4> QED
          BY <4>1, <4>2
      <3> QED
        BY <3>2, <3>3 DEF Newest
    <2>2. ASSUME Newest(q, x, v) PROVE Newest(r, x, v)
      <3>1. PICK i \in Queued(q, x) :
              (\A j \in Queued(q, x) : j <= i) /\ q[i] = v
        BY <2>2 DEF Newest
      <3>2. PICK k \in Queued(r, x) : TRUE
        BY <1>6
      <3>3. k \in 1 .. n - 1 /\ k + 1 <= i /\ i \in 1 .. n
        BY <1>2, <1>3, <3>1, <3>2
      <3>4. i - 1 \in Queued(r, x) /\ r[i - 1] = v
        BY <1>1, <1>4, <3>1, <3>3
      <3>5. ASSUME NEW j \in Queued(r, x) PROVE j <= i - 1
        BY <1>2, <1>3, <3>1, <3>3
      <3> QED
        BY <3>4, <3>5 DEF Newest
    <2> QED
      BY <2>1, <2>2
  <1>7. ASSUME Queued(r, x) = {}, NEW v
        PROVE  Newest(q, x, v) <=> Head(q).of = x /\ v = Head(q)
    <2>1. \A i \in Queued(q, x) : i = 1
      BY <1>4, <1>7
    <2> QED
      BY <1>1, <1>3, <2>1 DEF Newest
  <1> QED
    BY <1>5, <1>6, <1>7 DEF r

-----------------------------------------------------------------------------
(* The variables stay in their types: the states of addresses and leases,  *)
(* the capacities of the two queues, the listener's locals.                *)

(* A commit keeps the types of what it writes.                             *)
LEMMA CommittedTypes ==
    ASSUME TypeOK, NEW p \in Process, NEW E \in SUBSET Event, Committed(p, E)
    PROVE  /\ inflight' \in [Process -> SUBSET Event]
           /\ lost' \subseteq Address \cup Device
           /\ raced' \subseteq Address \cup Device
           /\ Subjects(E) \subseteq Address \cup Device
  <1>1. Subjects(E) \subseteq Address \cup Device
    BY EventKinds DEF Subjects, Event
  <1> QED
    BY <1>1 DEF TypeOK, Committed

(* A send keeps the queues within their capacities.                        *)
LEMMA SendTypes ==
    ASSUME TypeOK, NEW e \in Event, Send(e)
    PROVE  /\ events' \in Seq(AddressEvent) /\ Len(events') <= EventCap
           /\ ruleEvents' \in Seq(RuleEvent) /\ Len(ruleEvents') <= RuleCap
  <1>1. e.kind # "rule" => e \in AddressEvent
    BY EventKinds
  <1>2. e.kind = "rule" => e \in RuleEvent
    BY EventKinds
  <1>3. CASE e.kind # "rule" /\ Len(events) < EventCap
               /\ events' = Append(events, e) /\ UNCHANGED ruleEvents
    <2>1. Len(events') = Len(events) + 1 /\ events' \in Seq(AddressEvent)
      BY <1>1, <1>3 DEF TypeOK
    <2>2. Len(events) \in Nat /\ EventCap \in Nat
      BY LeaseAssumption DEF TypeOK
    <2> QED
      BY <1>3, <2>1, <2>2 DEF TypeOK
  <1>4. CASE e.kind = "rule" /\ Len(ruleEvents) < RuleCap
               /\ ruleEvents' = Append(ruleEvents, e) /\ UNCHANGED events
    <2>1. Len(ruleEvents') = Len(ruleEvents) + 1 /\ ruleEvents' \in Seq(RuleEvent)
      BY <1>2, <1>4 DEF TypeOK
    <2>2. Len(ruleEvents) \in Nat /\ RuleCap \in Nat
      BY LeaseAssumption DEF TypeOK
    <2> QED
      BY <1>4, <2>1, <2>2 DEF TypeOK
  <1> QED
    BY <1>3, <1>4 DEF Send

LEMMA AgedTypes ==
    /\ \A l \in Left : Aged(l) \in Left /\ Aged(l) # NoLease /\ l # NoLease
    /\ Aged(NoLease) = NoLease
    /\ \A l \in Left : \A t : Within(l, t) => Within(Aged(l), t)
    /\ \A e \in RuleEvent : /\ AgedEvent(e) \in RuleEvent
                            /\ AgedEvent(e).of = e.of
                            /\ AgedEvent(e).left = Aged(e.left)
  <1>1. /\ \A l \in Left : Aged(l) \in Left /\ Aged(l) # NoLease /\ l # NoLease
        /\ Aged(NoLease) = NoLease
    BY LeaseAssumption DEF Aged, Left
  <1>2. \A l \in Left : \A t : Within(l, t) => Within(Aged(l), t)
    BY LeaseAssumption DEF Aged, Left, Within
  <1>3. ASSUME NEW e \in RuleEvent
        PROVE  /\ AgedEvent(e) \in RuleEvent
               /\ AgedEvent(e).of = e.of
               /\ AgedEvent(e).left = Aged(e.left)
    <2>1. e.kind = "rule" /\ e.left \in Left /\ Aged(e.left) \in Left
      BY <1>1 DEF RuleEvent
    <2>2. AgedEvent(e) = [e EXCEPT !.left = Aged(@)]
      BY <2>1 DEF AgedEvent
    <2> QED
      BY <2>1, <2>2 DEF RuleEvent
  <1> QED
    BY <1>1, <1>2, <1>3

LEMMA TypeStep == TypeOK /\ [Next]_vars => TypeOK'
  <1> SUFFICES ASSUME TypeOK, [Next]_vars PROVE TypeOK'
    OBVIOUS
  <1> USE RegistryAssumption, LeaseAssumption
  <1>r. RegistryTypeOK
    BY DEF TypeOK
  <1>1. ASSUME NEW r \in Request, NEW a \in Address, RegisterAddressActivity(r, a)
        PROVE  TypeOK'
    <2>1. RegistryTypeOK'
      BY <1>1, <1>r, EnableEffect DEF RegisterAddressActivity
    <2>2. {Enabled(a)} \in SUBSET Event /\ r \in Process
      BY EventKinds DEF Event, Process
    <2>3. /\ Committed(r, {Enabled(a)})
          /\ UNCHANGED <<ttl, lease, volatile, expired>>
      BY <1>1 DEF RegisterAddressActivity
    <2> QED
      BY <2>1, <2>2, <2>3, CommittedTypes DEF TypeOK, volatile
  <1>2. ASSUME NEW r \in Request, DisableSome(r) PROVE TypeOK'
    <2>1. PICK S \in SUBSET Address :
            Committed(r, {Disabled(a) : a \in S}) /\ RegistryTypeOK'
      BY <1>2, DisableSomeEffect
    <2>2. {Disabled(a) : a \in S} \in SUBSET Event /\ r \in Process
      BY EventKinds DEF Event, Process
    <2>3. UNCHANGED <<ttl, lease, volatile, expired>>
      BY <1>2 DEF DisableSome, DisableAddress, DisableAddresses,
                  DisableOrDeleteDevice
    <2> QED
      BY <2>1, <2>2, <2>3, CommittedTypes DEF TypeOK, volatile
  <1>3. ASSUME NEW d \in Device, CreateOrEnableDevice(d) PROVE TypeOK'
    BY <1>3 DEF CreateOrEnableDevice, CreateDevice, EnableDevice, TypeOK,
                RegistryTypeOK, volatile
  <1>4. ASSUME NEW r \in Request, NEW d \in Device, NEW t \in Left,
               Committed(r, {RuleSet(d, t)}), ttl' = [ttl EXCEPT ![d] = t],
               UNCHANGED <<registry, lease, volatile, expired>>
        PROVE  TypeOK'
    <2>1. {RuleSet(d, t)} \in SUBSET Event /\ r \in Process
      BY EventKinds DEF Event, Process
    <2> QED
      BY <1>4, <2>1, CommittedTypes
         DEF TypeOK, volatile, registry, RegistryTypeOK
  <1>5. ASSUME NEW a \in Address, DeleteUserRolledBack(a) PROVE TypeOK'
    <2>1. Disabled(a) \in Event
      BY EventKinds DEF Event
    <2>2. Send(Disabled(a))
      BY <1>5 DEF DeleteUserRolledBack
    <2>3. /\ events' \in Seq(AddressEvent) /\ Len(events') <= EventCap
          /\ ruleEvents' \in Seq(RuleEvent) /\ Len(ruleEvents') <= RuleCap
      BY <2>1, <2>2, SendTypes
    <2> QED
      BY <1>5, <2>3 DEF DeleteUserRolledBack, TypeOK, registry, RegistryTypeOK
  <1>6. ASSUME NEW p \in Process, NEW e \in inflight[p], Announce(p, e)
        PROVE  TypeOK'
    <2>1. e \in Event /\ e.of \in Address \cup Device
      BY EventKinds DEF TypeOK, Event
    <2>2. /\ events' \in Seq(AddressEvent) /\ Len(events') <= EventCap
          /\ ruleEvents' \in Seq(RuleEvent) /\ Len(ruleEvents') <= RuleCap
      BY <1>6, <2>1, SendTypes DEF Announce, TypeOK
    <2>3. /\ inflight' \in [Process -> SUBSET Event]
          /\ lost' \subseteq Address \cup Device
          /\ UNCHANGED <<registry, ttl, lease, job, expired, raced>>
      BY <1>6, <2>1 DEF Announce, TypeOK
    <2> QED
      BY <2>2, <2>3 DEF TypeOK, registry, RegistryTypeOK
  <1>7. CASE TakeEnabled
    <2>1. Head(events) \in AddressEvent /\ Tail(events) \in Seq(AddressEvent)
          /\ Len(Tail(events)) <= EventCap
      BY <1>7 DEF TakeEnabled, TypeOK
    <2>2. Head(events).of \in Address
      BY <2>1, EventKinds
    <2> QED
      BY <1>7, <2>1, <2>2 DEF TakeEnabled, TypeOK, registry, RegistryTypeOK
  <1>8. CASE GetDeviceAddressLeaseTTLSeconds
    <2>1. job \in [pc : {"ttl"}, of : Address]
      BY <1>8 DEF GetDeviceAddressLeaseTTLSeconds, TypeOK, NoJob
    <2>2. ttl[DeviceOf[job.of]] \in Left \cup {NoRule}
      BY <2>1 DEF TypeOK
    <2>3. job' \in [pc : {"upsert"}, of : Address, left : Left]
      BY <1>8, <2>1, <2>2 DEF GetDeviceAddressLeaseTTLSeconds, Left
    <2> QED
      BY <1>8, <2>3 DEF GetDeviceAddressLeaseTTLSeconds, TypeOK, registry,
                        RegistryTypeOK
  <1>9. CASE UpsertAddressLease
    <2>1. job \in [pc : {"upsert"}, of : Address, left : Left]
      BY <1>9 DEF UpsertAddressLease, TypeOK, NoJob
    <2> QED
      BY <1>9, <2>1 DEF UpsertAddressLease, TypeOK, registry, RegistryTypeOK
  <1>10. CASE ClearAddressLease
    <2>1. Head(events) \in AddressEvent /\ Tail(events) \in Seq(AddressEvent)
          /\ Len(Tail(events)) <= EventCap
      BY <1>10 DEF ClearAddressLease, TypeOK
    <2> QED
      BY <1>10, <2>1 DEF ClearAddressLease, TypeOK, registry, RegistryTypeOK
  <1>11. CASE SetDeviceAddressLeasesExpiry
    <2>1. Head(ruleEvents) \in RuleEvent /\ Tail(ruleEvents) \in Seq(RuleEvent)
          /\ Len(Tail(ruleEvents)) <= RuleCap
      BY <1>11 DEF SetDeviceAddressLeasesExpiry, TypeOK
    <2>2. Head(ruleEvents).left \in Left
      BY <2>1, EventKinds
    <2> QED
      BY <1>11, <2>1, <2>2
         DEF SetDeviceAddressLeasesExpiry, TypeOK, registry, RegistryTypeOK
  <1>12. CASE ListenerFails
    <2>1. job # NoJob => job.of \in Address
      BY DEF TypeOK
    <2>2. events # <<>> => /\ Head(events).of \in Address
                          /\ Tail(events) \in Seq(AddressEvent)
                          /\ Len(Tail(events)) <= EventCap
      BY EventKinds DEF TypeOK
    <2>3. ruleEvents # <<>> => /\ Head(ruleEvents).of \in Device
                              /\ Tail(ruleEvents) \in Seq(RuleEvent)
                              /\ Len(Tail(ruleEvents)) <= RuleCap
      BY EventKinds DEF TypeOK
    <2> QED
      BY <1>12, <2>1, <2>2, <2>3
         DEF ListenerFails, TypeOK, registry, RegistryTypeOK
  <1>13. CASE GetExpiredAddressIDs
    BY <1>13 DEF GetExpiredAddressIDs, TypeOK, registry, RegistryTypeOK, volatile
  <1>14. CASE DisableExpired
    <2>1. expired \in SUBSET Address
      BY DEF TypeOK
    <2>2. {Disabled(a) : a \in expired} \in SUBSET Event /\ Scheduler \in Process
      BY <2>1, EventKinds DEF Event, Process
    <2>3. RegistryTypeOK'
      BY <1>14, <1>r, <2>1, DisableEffect
         DEF DisableExpired, DisableAddressesTx, RegistryTypeOK
    <2>4. /\ Committed(Scheduler, {Disabled(a) : a \in expired})
          /\ expired' = {} /\ UNCHANGED <<ttl, lease, volatile>>
      BY <1>14 DEF DisableExpired
    <2> QED
      BY <2>2, <2>3, <2>4, CommittedTypes DEF TypeOK, volatile
  <1>15. CASE Tick
    <2>1. lease' \in [Address -> Left \cup {NoLease}]
      BY <1>15, AgedTypes DEF Tick, TypeOK
    <2>2. ruleEvents' \in Seq(RuleEvent) /\ Len(ruleEvents') <= RuleCap
      <3>1. /\ ruleEvents \in Seq(RuleEvent) /\ Len(ruleEvents) <= RuleCap
            /\ ruleEvents' = [i \in 1 .. Len(ruleEvents) |-> AgedEvent(ruleEvents[i])]
        BY <1>15 DEF Tick, TypeOK
      <3>2. \A i \in 1 .. Len(ruleEvents) : AgedEvent(ruleEvents[i]) \in RuleEvent
        BY <3>1, AgedTypes
      <3> QED
        BY <3>1, <3>2
    <2>3. job' \in {NoJob} \cup [pc : {"ttl"}, of : Address]
                    \cup [pc : {"upsert"}, of : Address, left : Left]
      <3>1. CASE job.pc = "upsert"
        <4>1. job \in [pc : {"upsert"}, of : Address, left : Left]
          BY <3>1 DEF TypeOK, NoJob
        <4>2. Aged(job.left) \in Left
          BY <4>1, AgedTypes
        <4> QED
          BY <1>15, <3>1, <4>1, <4>2 DEF Tick
      <3>2. CASE job.pc # "upsert"
        BY <1>15, <3>2 DEF Tick, TypeOK
      <3> QED
        BY <3>1, <3>2
    <2> QED
      BY <1>15, <2>1, <2>2, <2>3 DEF Tick, TypeOK, registry, RegistryTypeOK
  <1>16. CASE Restart
    <2>1. lost' \subseteq Address \cup Device
      <3>1. Subjects(Unannounced) \subseteq Address \cup Device
        BY EventKinds DEF Subjects, Unannounced, TypeOK, Event
      <3>2. {events[i].of : i \in DOMAIN events} \subseteq Address
        BY EventKinds DEF TypeOK
      <3>3. {ruleEvents[i].of : i \in DOMAIN ruleEvents} \subseteq Device
        BY EventKinds DEF TypeOK
      <3>4. (IF job = NoJob THEN {} ELSE {job.of}) \subseteq Address
        BY DEF TypeOK
      <3> QED
        BY <1>16, <3>1, <3>2, <3>3, <3>4 DEF Restart, TypeOK
    <2> QED
      BY <1>16, <2>1 DEF Restart, TypeOK, registry, RegistryTypeOK
  <1>17. CASE UNCHANGED vars
    BY <1>17 DEF vars, volatile, TypeOK, registry, RegistryTypeOK
  <1>18. ASSUME NEW r \in Request, NEW d \in Device,
                \/ \E t \in TTL : EnableDeviceAddressLeaseRule(r, d, t)
                \/ DisableDeviceAddressLeaseRule(r, d)
         PROVE  TypeOK'
    <2>1. ASSUME NEW t \in TTL, EnableDeviceAddressLeaseRule(r, d, t) PROVE TypeOK'
      <3>1. t \in Left
        BY DEF Left
      <3> QED
        BY <2>1, <3>1, <1>4 DEF EnableDeviceAddressLeaseRule
    <2>2. CASE DisableDeviceAddressLeaseRule(r, d)
      <3>1. Never \in Left
        BY DEF Left
      <3> QED
        BY <2>2, <3>1, <1>4 DEF DisableDeviceAddressLeaseRule
    <2> QED
      BY <1>18, <2>1, <2>2
  <1>19. ASSUME NEW p \in Process, AnnounceAny(p) PROVE TypeOK'
    BY <1>6, <1>19 DEF AnnounceAny
  <1>20. CASE Handlers
    BY <1>1, <1>2, <1>3, <1>5, <1>18, <1>20 DEF Handlers
  <1> QED
    BY <1>7, <1>8, <1>9, <1>10, <1>11, <1>12, <1>19, <1>20,
       <1>13, <1>14, <1>15, <1>16, <1>17
       DEF Next, Listener, ExpiryJob

-----------------------------------------------------------------------------
(* The two predictions, one address and one device at a time.              *)
LEMMA NewestKind ==
    ASSUME NEW q, NEW x
    PROVE  (\E i \in Queued(q, x) :
              (\A j \in Queued(q, x) : j <= i) /\ q[i].kind = "enabled")
             <=> \E v : Newest(q, x, v) /\ v.kind = "enabled"
  BY DEF Newest

(* Nothing under way about a has changed, and its row is as good as before. *)
LEMMA AddressFrame ==
    ASSUME NEW a \in Address, AddressOK(a), Trusted(a)' => Trusted(a),
           addr'[a] = "enabled" <=> addr[a] = "enabled",
           \A e : e.of = a => (e \in Unannounced' <=> e \in Unannounced),
           Queued(events', a) # {} <=> Queued(events, a) # {},
           \A v : Newest(events', a, v) <=> Newest(events, a, v),
           a \notin Subjects(Unannounced) /\ Queued(events, a) = {} =>
             (InJob(a)' \/ lease'[a] # NoLease <=> InJob(a) \/ lease[a] # NoLease)
    PROVE  AddressOK(a)'
  <1>1. Enabled(a).of = a
    BY EventKinds
  <1>2. a \in Subjects(Unannounced)' <=> a \in Subjects(Unannounced)
    BY DEF Subjects
  <1>3. Enabled(a) \in Unannounced' <=> Enabled(a) \in Unannounced
    BY <1>1
  <1>4. (\E i \in Queued(events, a) :
           (\A j \in Queued(events, a) : j <= i) /\ events[i].kind = "enabled")
        <=> \E v : Newest(events, a, v) /\ v.kind = "enabled"
    BY NewestKind
  <1>5. (\E i \in Queued(events', a) :
           (\A j \in Queued(events', a) : j <= i) /\ events'[i].kind = "enabled")
        <=> \E v : Newest(events', a, v) /\ v.kind = "enabled"
    BY NewestKind
  <1>6. WillHaveLease(a)' <=> WillHaveLease(a)
    BY <1>2, <1>3, <1>4, <1>5 DEF WillHaveLease
  <1> QED
    BY <1>6 DEF AddressOK

(* The newest event about a is the last one in the queue.                  *)
LEMMA AddressQueued ==
    ASSUME NEW a \in Address, NEW e \in AddressEvent, e.of = a,
           a \notin Subjects(Unannounced)',
           Queued(events', a) # {}, \A v : Newest(events', a, v) <=> v = e,
           e.kind = "enabled" <=> addr'[a] = "enabled"
    PROVE  AddressOK(a)'
  <1>1. (\E i \in Queued(events', a) :
           (\A j \in Queued(events', a) : j <= i) /\ events'[i].kind = "enabled")
        <=> \E v : Newest(events', a, v) /\ v.kind = "enabled"
    BY NewestKind
  <1>2. WillHaveLease(a)' <=> e.kind = "enabled"
    BY <1>1 DEF WillHaveLease
  <1> QED
    BY <1>2 DEF AddressOK

LEMMA DeviceFrame ==
    ASSUME NEW d \in Device, DeviceOK(d), Trusted(d)' => Trusted(d),
           ttl'[d] = ttl[d],
           \A e : e.of = d => (e \in Unannounced' <=> e \in Unannounced),
           Queued(ruleEvents', d) # {} <=> Queued(ruleEvents, d) # {},
           \A v : Newest(ruleEvents', d, v) <=> Newest(ruleEvents, d, v),
           \A a \in Address : DeviceOf[a] = d =>
             \/ lease'[a] \in {NoLease, lease[a]}
             \/ job.pc = "upsert" /\ job.of = a /\ lease'[a] = job.left,
           job'.pc = "upsert" /\ DeviceOf[job'.of] = d =>
             job' = job \/ Within(job'.left, ttl[d])
    PROVE  DeviceOK(d)'
  <1>1. d \in Subjects(Unannounced)' <=> d \in Subjects(Unannounced)
    BY DEF Subjects
  <1> SUFFICES ASSUME Trusted(d)', RuleReaches(d) PROVE RuleReaches(d)'
    BY DEF DeviceOK
  <1>2. CASE d \in Subjects(Unannounced)
    BY <1>1, <1>2 DEF RuleReaches
  <1>3. CASE d \notin Subjects(Unannounced) /\ Queued(ruleEvents, d) # {}
    BY <1>1, <1>3 DEF RuleReaches
  <1>4. CASE d \notin Subjects(Unannounced) /\ Queued(ruleEvents, d) = {}
    <2>1. /\ \A a \in Address : DeviceOf[a] = d =>
               lease[a] = NoLease \/ Within(lease[a], ttl[d])
          /\ job.pc = "upsert" /\ DeviceOf[job.of] = d => Within(job.left, ttl[d])
      BY <1>4 DEF RuleReaches
    <2>2. ASSUME NEW a \in Address, DeviceOf[a] = d
          PROVE  lease'[a] = NoLease \/ Within(lease'[a], ttl[d])
      BY <2>1, <2>2
    <2>3. job'.pc = "upsert" /\ DeviceOf[job'.of] = d => Within(job'.left, ttl[d])
      BY <2>1
    <2> QED
      BY <1>1, <1>4, <2>2, <2>3 DEF RuleReaches
  <1> QED
    BY <1>2, <1>3, <1>4

LEMMA RuleQueued ==
    ASSUME NEW d \in Device, d \notin Subjects(Unannounced)',
           Queued(ruleEvents', d) # {},
           \A v \in RuleEvent : Newest(ruleEvents', d, v) => Within(v.left, ttl'[d])
    PROVE  DeviceOK(d)'
  BY DEF DeviceOK, RuleReaches

(* Announcing takes events away.                                           *)
LEMMA FewerUnannounced ==
    ASSUME OneUnannounced, raced' = raced,
           \A p \in Process : inflight'[p] \subseteq inflight[p]
    PROVE  OneUnannounced'
  BY DEF OneUnannounced

(* The invariant beyond the types.                                         *)
Follows == OneUnannounced /\ LeaseFollowsAddress /\ LeaseFollowsRule

(* A commit that announces what it changed.                                *)
LEMMA CommitKeeps ==
    ASSUME IInv, NEW p \in Process, NEW E \in SUBSET Event, Committed(p, E),
           UNCHANGED <<lease, volatile>>, TypeOK',
           \A e, f \in E : e.of = f.of => e = f,
           \A a \in Address : a \notin Subjects(E) =>
             (addr'[a] = "enabled" <=> addr[a] = "enabled"),
           \A e \in E : e.of \in Address =>
             (e.kind = "enabled" <=> addr'[e.of] = "enabled"),
           \A d \in Device : d \notin Subjects(E) => ttl'[d] = ttl[d],
           \A e \in E : e.of \in Device => Within(e.left, ttl'[e.of])
    PROVE  Follows'
  <1>t. TypeOK /\ TypeOK'
    BY DEF IInv
  <1>c. /\ inflight[p] = {}
        /\ inflight' = [inflight EXCEPT ![p] = E]
        /\ lost' = lost \ Subjects(E)
        /\ raced' = (raced \ Subjects(E)) \cup (Subjects(E) \cap Subjects(Unannounced))
        /\ inflight \in [Process -> SUBSET Event]
    BY <1>t DEF Committed, TypeOK
  <1>s. \A x : x \in Subjects(E) <=> \E e \in E : e.of = x
    BY DEF Subjects
  <1>u. \A e : e \in Unannounced' <=> e \in Unannounced \/ e \in E
    BY <1>c DEF Unannounced
  <1>o. \A x : x \in Subjects(Unannounced)' <=>
                 x \in Subjects(Unannounced) \/ x \in Subjects(E)
    BY <1>u DEF Subjects
  <1>1. OneUnannounced'
    <2> SUFFICES ASSUME NEW q \in Process, NEW r \in Process,
                        NEW e \in inflight'[q], NEW f \in inflight'[r],
                        e.of = f.of, e.of \notin raced'
                 PROVE  q = r /\ e = f
      BY DEF OneUnannounced
    <2>1. ASSUME NEW k \in Process, k # p, NEW g \in inflight'[k]
          PROVE  g \in inflight[k] /\ g.of \in Subjects(Unannounced)
      <3>1. g \in inflight[k]
        BY <1>c, <2>1
      <3> QED
        BY <3>1 DEF Unannounced, Subjects
    <2>2. inflight'[p] = E
      BY <1>c
    <2>3. CASE q = p /\ r = p
      BY <2>2, <2>3
    <2>4. CASE q = p /\ r # p
      BY <1>c, <1>s, <2>1, <2>2, <2>4
    <2>5. CASE q # p /\ r = p
      BY <1>c, <1>s, <2>1, <2>2, <2>5
    <2>6. CASE q # p /\ r # p
      <3>1. e \in inflight[q] /\ f \in inflight[r] /\ e.of \in Subjects(Unannounced)
        BY <2>1, <2>6
      <3>2. e.of \notin raced
        BY <1>c, <3>1
      <3> QED
        BY <3>1, <3>2 DEF IInv, OneUnannounced
    <2> QED
      BY <2>3, <2>4, <2>5, <2>6
  <1>2. LeaseFollowsAddress'
    <2> SUFFICES ASSUME NEW a \in Address PROVE AddressOK(a)'
      BY DEF LeaseFollowsAddress, AddressOK
    <2>1. CASE a \in Subjects(E)
      <3> SUFFICES ASSUME Trusted(a)' PROVE WillHaveLease(a)' <=> addr'[a] = "enabled"
        BY DEF AddressOK
      <3>1. PICK e \in E : e.of = a
        BY <1>s, <2>1
      <3>2. a \notin Subjects(Unannounced)
        BY <1>c, <2>1 DEF Trusted
      <3>3. \A f \in Unannounced' : f.of = a => f = e
        BY <1>u, <3>1, <3>2 DEF Subjects
      <3>4. WillHaveLease(a)' <=> Enabled(a) \in Unannounced'
        BY <1>o, <2>1 DEF WillHaveLease
      <3>5. Enabled(a).of = a /\ e \in AddressEvent
              /\ (e.kind = "enabled" <=> e = Enabled(a))
        <4>1. e \in AddressEvent
          BY <3>1, EventKinds
        <4>2. Enabled(a).of = a /\ Enabled(a) # Disabled(a) /\ Enabled(a).kind = "enabled"
          BY EventKinds DEF Enabled
        <4>3. e = IF e.kind = "enabled" THEN Enabled(a) ELSE Disabled(a)
          BY <3>1, <4>1, EventKinds
        <4> QED
          BY <4>1, <4>2, <4>3
      <3>6. Enabled(a) \in Unannounced' <=> e.kind = "enabled"
        BY <1>u, <3>1, <3>3, <3>5
      <3> QED
        BY <3>1, <3>4, <3>6
    <2>2. CASE a \notin Subjects(E)
      <3>1. \A e : e.of = a => (e \in Unannounced' <=> e \in Unannounced)
        BY <1>u, <1>s, <2>2
      <3>2. Trusted(a)' => Trusted(a)
        BY <1>c, <2>2 DEF Trusted
      <3>3. AddressOK(a) /\ (addr'[a] = "enabled" <=> addr[a] = "enabled")
        BY <2>2 DEF IInv, LeaseFollowsAddress, AddressOK
      <3>4. events' = events /\ lease' = lease /\ (InJob(a)' <=> InJob(a))
        BY DEF volatile, InJob
      <3> QED
        BY <3>1, <3>2, <3>3, <3>4, AddressFrame
    <2> QED
      BY <2>1, <2>2
  <1>3. LeaseFollowsRule'
    <2> SUFFICES ASSUME NEW d \in Device PROVE DeviceOK(d)'
      BY DEF LeaseFollowsRule
    <2>1. CASE d \in Subjects(E)
      <3> SUFFICES ASSUME Trusted(d)' PROVE RuleReaches(d)'
        BY DEF DeviceOK
      <3>1. d \notin Subjects(Unannounced)
        BY <1>c, <2>1 DEF Trusted
      <3>2. \A f \in Unannounced' : f.of = d => f \in E
        BY <1>u, <3>1 DEF Subjects
      <3>3. \A f \in Unannounced' : f.of = d => Within(f.left, ttl'[d])
        BY <3>2
      <3> QED
        BY <1>o, <2>1, <3>3 DEF RuleReaches
    <2>2. CASE d \notin Subjects(E)
      <3>1. \A e : e.of = d => (e \in Unannounced' <=> e \in Unannounced)
        BY <1>u, <1>s, <2>2
      <3>2. Trusted(d)' => Trusted(d)
        BY <1>c, <2>2 DEF Trusted
      <3>3. DeviceOK(d) /\ ttl'[d] = ttl[d]
        BY <2>2 DEF IInv, LeaseFollowsRule
      <3>4. ruleEvents' = ruleEvents /\ lease' = lease /\ job' = job
        BY DEF volatile
      <3> QED
        BY <3>1, <3>2, <3>3, <3>4, DeviceFrame
    <2> QED
      BY <2>1, <2>2
  <1> QED
    BY <1>1, <1>2, <1>3 DEF Follows

(* The queues after a send.                                                *)
LEMMA SendEffect ==
    ASSUME TypeOK, NEW e \in Event, Send(e)
    PROVE  /\ e \in AddressEvent \/ e \in RuleEvent
           /\ e \in AddressEvent =>
                /\ ruleEvents' = ruleEvents
                /\ Queued(events', e.of) # {}
                /\ \A v : Newest(events', e.of, v) <=> v = e
           /\ e \in RuleEvent =>
                /\ events' = events
                /\ Queued(ruleEvents', e.of) # {}
                /\ \A v : Newest(ruleEvents', e.of, v) <=> v = e
           /\ \A x : x # e.of =>
                /\ Queued(events', x) = Queued(events, x)
                /\ \A v : Newest(events', x, v) <=> Newest(events, x, v)
                /\ Queued(ruleEvents', x) = Queued(ruleEvents, x)
                /\ \A v : Newest(ruleEvents', x, v) <=> Newest(ruleEvents, x, v)
  <1>t. events \in Seq(AddressEvent) /\ ruleEvents \in Seq(RuleEvent)
    BY DEF TypeOK
  <1>1. CASE e.kind # "rule"
    <2>1. e \in AddressEvent /\ e \notin RuleEvent
      BY <1>1, EventKinds
    <2>2. events' = Append(events, e) /\ ruleEvents' = ruleEvents
      BY <1>1 DEF Send
    <2> DEFINE r == Append(events, e)
    <2>e. events' = r
      BY <2>2
    <2>3. Queued(r, e.of) # {} /\ \A v : Newest(r, e.of, v) <=> v = e
      BY <1>t, <2>1, QueuedLast
    <2>4. ASSUME NEW x, x # e.of
          PROVE  /\ Queued(r, x) = Queued(events, x)
                 /\ \A v : Newest(r, x, v) <=> Newest(events, x, v)
      BY <1>t, <2>1, <2>4, QueuedOther
    <2> HIDE DEF r
    <2> QED
      BY <2>1, <2>2, <2>e, <2>3, <2>4
  <1>2. CASE e.kind = "rule"
    <2>1. e \in RuleEvent /\ e \notin AddressEvent
      BY <1>2, EventKinds
    <2>2. ruleEvents' = Append(ruleEvents, e) /\ events' = events
      BY <1>2 DEF Send
    <2> DEFINE r == Append(ruleEvents, e)
    <2>e. ruleEvents' = r
      BY <2>2
    <2>3. Queued(r, e.of) # {} /\ \A v : Newest(r, e.of, v) <=> v = e
      BY <1>t, <2>1, QueuedLast
    <2>4. ASSUME NEW x, x # e.of
          PROVE  /\ Queued(r, x) = Queued(ruleEvents, x)
                 /\ \A v : Newest(r, x, v) <=> Newest(ruleEvents, x, v)
      BY <1>t, <2>1, <2>4, QueuedOther
    <2> HIDE DEF r
    <2> QED
      BY <2>1, <2>2, <2>e, <2>3, <2>4
  <1> QED
    BY <1>1, <1>2

LEMMA AnnounceKeeps ==
    ASSUME IInv, NEW p \in Process, NEW e \in inflight[p], Announce(p, e)
    PROVE  Follows'
  <1>t. TypeOK /\ e \in Event /\ inflight \in [Process -> SUBSET Event]
    BY DEF IInv, TypeOK
  <1>c. /\ inflight' = [inflight EXCEPT ![p] = @ \ {e}]
        /\ UNCHANGED <<registry, ttl, lease, job, expired, raced>>
        /\ addr' = addr
    BY DEF Announce, registry
  <1>u. /\ \A f \in Unannounced' : f \in Unannounced
        /\ \A f \in Unannounced : f # e => f \in Unannounced'
        /\ e \in Unannounced
    <2>1. \A q \in Process : \A f \in inflight[q] : f # e => f \in inflight'[q]
      BY <1>t, <1>c
    <2>2. \A q \in Process : inflight'[q] \subseteq inflight[q]
      BY <1>t, <1>c
    <2> QED
      BY <2>1, <2>2 DEF Unannounced
  <1>1. OneUnannounced'
    BY <1>t, <1>c, FewerUnannounced DEF IInv
  <1>2. ASSUME NEW x, x # e.of
        PROVE  /\ Trusted(x)' => Trusted(x)
               /\ \A f : f.of = x => (f \in Unannounced' <=> f \in Unannounced)
               /\ Queued(events', x) = Queued(events, x)
               /\ \A v : Newest(events', x, v) <=> Newest(events, x, v)
               /\ Queued(ruleEvents', x) = Queued(ruleEvents, x)
               /\ \A v : Newest(ruleEvents', x, v) <=> Newest(ruleEvents, x, v)
    <2>1. \A f : f.of = x => (f \in Unannounced' <=> f \in Unannounced)
      BY <1>u, <1>2
    <2>2. CASE Send(e) /\ UNCHANGED lost
      BY <1>t, <1>c, <1>2, <2>1, <2>2, SendEffect DEF Trusted
    <2>3. CASE lost' = lost \cup {e.of} /\ UNCHANGED <<events, ruleEvents>>
      BY <1>c, <1>2, <2>1, <2>3 DEF Trusted
    <2> QED
      BY <2>2, <2>3 DEF Announce
  <1>3. ASSUME Trusted(e.of)'
        PROVE  /\ Trusted(e.of) /\ Send(e)
               /\ e.of \notin Subjects(Unannounced)'
               /\ \A f \in Unannounced : f.of = e.of => f = e
    <2>1. Trusted(e.of) /\ Send(e)
      BY <1>c, <1>3 DEF Trusted, Announce
    <2>2. ASSUME NEW q \in Process, NEW f \in inflight[q], f.of = e.of
          PROVE  q = p /\ f = e
      BY <2>1, <2>2 DEF IInv, OneUnannounced, Trusted
    <2>3. ASSUME NEW q \in Process, NEW f \in inflight'[q], f.of = e.of
          PROVE  FALSE
      <3>1. f \in inflight[q]
        BY <1>t, <1>c, <2>3
      <3>2. q = p /\ f = e
        BY <2>2, <2>3, <3>1
      <3> QED
        BY <1>t, <1>c, <2>3, <3>2
    <2> QED
      BY <2>1, <2>2, <2>3 DEF Unannounced, Subjects
  <1>4. LeaseFollowsAddress'
    <2> SUFFICES ASSUME NEW a \in Address PROVE AddressOK(a)'
      BY DEF LeaseFollowsAddress, AddressOK
    <2>1. AddressOK(a)
      BY DEF IInv, LeaseFollowsAddress, AddressOK
    <2>2. CASE a # e.of
      <3>1. InJob(a)' <=> InJob(a)
        BY <1>c DEF InJob
      <3> QED
        BY <1>c, <1>2, <2>1, <2>2, <3>1, AddressFrame
    <2>3. CASE a = e.of
      <3> SUFFICES ASSUME Trusted(a)' PROVE AddressOK(a)'
        BY DEF AddressOK
      <3>1. e \in AddressEvent
        BY <1>t, <2>3, EventKinds
      <3>2. WillHaveLease(a) <=> Enabled(a) \in Unannounced
        BY <1>u, <2>3 DEF WillHaveLease, Subjects
      <3>3. Enabled(a) \in Unannounced <=> e.kind = "enabled"
        <4>1. Enabled(a).of = a /\ Enabled(a).kind = "enabled"
          BY EventKinds DEF Enabled
        <4>2. e.kind = "enabled" => e = Enabled(a)
          BY <2>3, <3>1, EventKinds
        <4> QED
          BY <1>3, <1>u, <2>3, <4>1, <4>2
      <3>4. e.kind = "enabled" <=> addr'[a] = "enabled"
        BY <1>3, <1>c, <2>1, <2>3, <3>2, <3>3 DEF AddressOK
      <3>5. /\ Queued(events', a) # {}
            /\ \A v : Newest(events', a, v) <=> v = e
        BY <1>3, <1>t, <2>3, <3>1, SendEffect
      <3> QED
        BY <1>3, <2>3, <3>1, <3>4, <3>5, AddressQueued
    <2> QED
      BY <2>2, <2>3
  <1>5. LeaseFollowsRule'
    <2> SUFFICES ASSUME NEW d \in Device PROVE DeviceOK(d)'
      BY DEF LeaseFollowsRule
    <2>1. DeviceOK(d)
      BY DEF IInv, LeaseFollowsRule
    <2>2. CASE d # e.of
      BY <1>c, <1>2, <2>1, <2>2, DeviceFrame
    <2>3. CASE d = e.of
      <3> SUFFICES ASSUME Trusted(d)' PROVE DeviceOK(d)'
        BY DEF DeviceOK
      <3>1. e \in RuleEvent
        BY <1>t, <2>3, EventKinds
      <3>2. Within(e.left, ttl[d])
        BY <1>3, <1>u, <2>1, <2>3 DEF DeviceOK, RuleReaches, Subjects
      <3>3. /\ Queued(ruleEvents', d) # {}
            /\ \A v : Newest(ruleEvents', d, v) <=> v = e
        BY <1>3, <1>t, <2>3, <3>1, SendEffect
      <3> QED
        BY <1>3, <1>c, <2>3, <3>2, <3>3, RuleQueued
    <2> QED
      BY <2>2, <2>3
  <1> QED
    BY <1>1, <1>4, <1>5 DEF Follows

-----------------------------------------------------------------------------
(* The listener applies the newest event about a.                          *)
LEMMA AddressLanded ==
    ASSUME NEW a \in Address, AddressOK(a), Trusted(a)' => Trusted(a),
           addr' = addr, Unannounced' = Unannounced, Queued(events', a) = {},
           a \notin Subjects(Unannounced) =>
             (InJob(a)' \/ lease'[a] # NoLease <=> WillHaveLease(a))
    PROVE  AddressOK(a)'
  <1>1. CASE a \in Subjects(Unannounced)
    <2>1. WillHaveLease(a)' <=> WillHaveLease(a)
      BY <1>1 DEF WillHaveLease, Subjects
    <2> QED
      BY <2>1 DEF AddressOK
  <1>2. CASE a \notin Subjects(Unannounced)
    <2>1. WillHaveLease(a)' <=> InJob(a)' \/ lease'[a] # NoLease
      BY <1>2 DEF WillHaveLease, Subjects
    <2> QED
      BY <1>2, <2>1 DEF AddressOK
  <1> QED
    BY <1>1, <1>2

(* What the listener predicts from the head of its queue.                  *)
LEMMA HeadDecides ==
    ASSUME TypeOK, events # <<>>, NEW a \in Address, Head(events).of = a,
           Queued(Tail(events), a) = {}, a \notin Subjects(Unannounced)
    PROVE  WillHaveLease(a) <=> Head(events).kind = "enabled"
  <1>1. events \in Seq(AddressEvent)
    BY DEF TypeOK
  <1>2. /\ Queued(events, a) # {}
        /\ \A v : Newest(events, a, v) <=> v = Head(events)
    BY <1>1, QueuedTail
  <1>3. (\E i \in Queued(events, a) :
           (\A j \in Queued(events, a) : j <= i) /\ events[i].kind = "enabled")
        <=> \E v : Newest(events, a, v) /\ v.kind = "enabled"
    BY NewestKind
  <1> QED
    BY <1>2, <1>3 DEF WillHaveLease

(* A step of the listener on the head of the address queue.                *)
LEMMA HeadKeeps ==
    ASSUME IInv, events # <<>>, events' = Tail(events),
           NEW h \in Address, Head(events).of = h,
           UNCHANGED <<registry, ttl, inflight, ruleEvents, raced>>,
           lost \subseteq lost',
           \A a \in Address : a # h =>
             (InJob(a)' <=> InJob(a)) /\ lease'[a] = lease[a],
           h \in lost' \/ (InJob(h)' \/ lease'[h] # NoLease
                             <=> Head(events).kind = "enabled")
    PROVE  LeaseFollowsAddress'
  <1>t. TypeOK /\ events \in Seq(AddressEvent)
    BY DEF IInv, TypeOK
  <1>c. addr' = addr /\ Unannounced' = Unannounced
    BY DEF registry, Unannounced
  <1> SUFFICES ASSUME NEW a \in Address PROVE AddressOK(a)'
    BY DEF LeaseFollowsAddress, AddressOK
  <1>1. AddressOK(a) /\ (Trusted(a)' => Trusted(a))
    BY DEF IInv, LeaseFollowsAddress, AddressOK, Trusted
  <1>2. CASE Queued(events', a) # {}
    BY <1>t, <1>c, <1>1, <1>2, QueuedTail, AddressFrame
  <1>3. CASE Queued(events', a) = {} /\ Head(events).of # a
    <2>1. Queued(events, a) = {} /\ \A v : ~Newest(events, a, v)
      BY <1>t, <1>3, QueuedTail
    <2>2. \A v : ~Newest(events', a, v)
      BY <1>3 DEF Newest
    <2> QED
      BY <1>c, <1>1, <1>3, <2>1, <2>2, AddressFrame
  <1>4. CASE Queued(events', a) = {} /\ Head(events).of = a
    <2>1. a \notin Subjects(Unannounced) =>
            (WillHaveLease(a) <=> Head(events).kind = "enabled")
      BY <1>t, <1>4, HeadDecides
    <2>2. CASE a \in lost'
      BY <2>2 DEF AddressOK, Trusted
    <2>3. CASE InJob(a)' \/ lease'[a] # NoLease <=> Head(events).kind = "enabled"
      BY <1>c, <1>1, <1>4, <2>1, <2>3, AddressLanded
    <2> QED
      BY <1>4, <2>2, <2>3
  <1> QED
    BY <1>2, <1>3, <1>4

(* The rules when no event about them moves.                               *)
LEMMA RulesKept ==
    ASSUME IInv, UNCHANGED <<ttl, inflight, ruleEvents, raced>>, lost \subseteq lost',
           \A a \in Address :
             \/ lease'[a] \in {NoLease, lease[a]}
             \/ job.pc = "upsert" /\ job.of = a /\ lease'[a] = job.left,
           job'.pc = "upsert" =>
             job' = job \/ Within(job'.left, ttl[DeviceOf[job'.of]])
    PROVE  OneUnannounced' /\ LeaseFollowsRule'
  <1>1. OneUnannounced'
    BY DEF IInv, OneUnannounced
  <1> SUFFICES ASSUME NEW d \in Device PROVE DeviceOK(d)'
    BY <1>1 DEF LeaseFollowsRule
  <1>2. DeviceOK(d) /\ (Trusted(d)' => Trusted(d)) /\ Unannounced' = Unannounced
    BY DEF IInv, LeaseFollowsRule, Trusted, Unannounced
  <1> QED
    BY <1>2, DeviceFrame

(* The addresses when no event about them moves.                           *)
LEMMA AddressesKept ==
    ASSUME IInv, UNCHANGED <<inflight, events, raced>>, lost \subseteq lost',
           \A a \in Address : addr'[a] = "enabled" <=> addr[a] = "enabled",
           \A a \in Address :
             a \in lost' \/ (InJob(a)' \/ lease'[a] # NoLease
                               <=> InJob(a) \/ lease[a] # NoLease)
    PROVE  OneUnannounced' /\ LeaseFollowsAddress'
  <1>1. OneUnannounced'
    BY DEF IInv, OneUnannounced
  <1> SUFFICES ASSUME NEW a \in Address PROVE AddressOK(a)'
    BY <1>1 DEF LeaseFollowsAddress, AddressOK
  <1>2. AddressOK(a) /\ (Trusted(a)' => Trusted(a)) /\ Unannounced' = Unannounced
    BY DEF IInv, LeaseFollowsAddress, AddressOK, Trusted, Unannounced
  <1>3. CASE a \in lost'
    BY <1>3 DEF AddressOK, Trusted
  <1>4. CASE InJob(a)' \/ lease'[a] # NoLease <=> InJob(a) \/ lease[a] # NoLease
    BY <1>2, <1>4, AddressFrame
  <1> QED
    BY <1>3, <1>4

LEMMA ListenerKeeps ==
    ASSUME IInv, Listener
    PROVE  Follows'
  <1>t. TypeOK /\ events \in Seq(AddressEvent) /\ ruleEvents \in Seq(RuleEvent)
          /\ lease \in [Address -> Left \cup {NoLease}]
    BY DEF IInv, TypeOK
  <1>h. events # <<>> => Head(events) \in AddressEvent /\ Head(events).of \in Address
    BY <1>t, EventKinds
  <1>n. NoJob.pc = "idle"
    BY DEF NoJob
  <1>1. CASE TakeEnabled
    <2>1. /\ job = NoJob /\ events # <<>> /\ events' = Tail(events)
          /\ Head(events).kind = "enabled"
          /\ job' = [pc |-> "ttl", of |-> Head(events).of]
          /\ UNCHANGED <<registry, ttl, lease, inflight, ruleEvents, expired,
                         lost, raced>>
      BY <1>1 DEF TakeEnabled
    <2>2. job'.pc = "ttl" /\ job'.of = Head(events).of /\ job' # NoJob
      BY <1>n, <2>1
    <2>3. LeaseFollowsAddress'
      <3>1. PICK h \in Address : h = Head(events).of
        BY <1>h, <2>1
      <3>2. InJob(h)' /\ \A a \in Address : a # h => (InJob(a)' <=> InJob(a))
        BY <2>1, <2>2, <3>1 DEF InJob
      <3> QED
        BY <2>1, <3>1, <3>2, HeadKeeps
    <2>4. OneUnannounced' /\ LeaseFollowsRule'
      BY <2>1, <2>2, RulesKept
    <2> QED
      BY <2>3, <2>4 DEF Follows
  <1>2. CASE GetDeviceAddressLeaseTTLSeconds
    <2> DEFINE t == ttl[DeviceOf[job.of]]
    <2>1. /\ job.pc = "ttl"
          /\ job' = [pc |-> "upsert", of |-> job.of,
                     left |-> IF t = NoRule THEN Never ELSE t]
          /\ UNCHANGED <<registry, ttl, lease, inflight, events, ruleEvents,
                         expired, lost, raced>>
      BY <1>2 DEF GetDeviceAddressLeaseTTLSeconds
    <2>2. job \in [pc : {"ttl"}, of : Address]
      BY <1>t, <2>1 DEF TypeOK, NoJob
    <2>3. t \in Left \cup {NoRule}
      BY <1>t, <2>2, RegistryAssumption DEF TypeOK
    <2> HIDE DEF t
    <2>4. /\ job'.of = job.of /\ job # NoJob /\ job' # NoJob
          /\ Within(job'.left, t)
      <3>1. job'.of = job.of /\ job # NoJob /\ job' # NoJob
        BY <1>n, <2>1
      <3>2. job'.left = IF t = NoRule THEN Never ELSE t
        BY <2>1
      <3> QED
        BY <2>3, <3>1, <3>2, LeaseAssumption DEF Within, Left
    <2>5. OneUnannounced' /\ LeaseFollowsAddress'
      BY <2>1, <2>4, AddressesKept DEF InJob, registry
    <2>6. LeaseFollowsRule'
      BY <2>1, <2>4, RulesKept DEF t
    <2> QED
      BY <2>5, <2>6 DEF Follows
  <1>3. CASE UpsertAddressLease
    <2>1. /\ job.pc = "upsert" /\ job' = NoJob
          /\ lease' = [lease EXCEPT ![job.of] = job.left]
          /\ UNCHANGED <<registry, ttl, inflight, events, ruleEvents, expired,
                         lost, raced>>
      BY <1>3 DEF UpsertAddressLease
    <2>2. job \in [pc : {"upsert"}, of : Address, left : Left]
      BY <1>t, <2>1 DEF TypeOK, NoJob
    <2>3. job.of \in Address /\ job.left \in Left /\ job.left # NoLease /\ job # NoJob
      BY <1>n, <2>1, <2>2, AgedTypes
    <2>4. \A a \in Address : lease'[a] = IF a = job.of THEN job.left ELSE lease[a]
      BY <1>t, <2>1, <2>3
    <2>5. OneUnannounced' /\ LeaseFollowsAddress'
      BY <2>1, <2>3, <2>4, AddressesKept DEF InJob, registry
    <2>6. LeaseFollowsRule'
      BY <1>n, <2>1, <2>4, RulesKept
    <2> QED
      BY <2>5, <2>6 DEF Follows
  <1>4. CASE ClearAddressLease
    <2>1. /\ job = NoJob /\ events # <<>> /\ events' = Tail(events)
          /\ Head(events).kind = "disabled"
          /\ lease' = [lease EXCEPT ![Head(events).of] = NoLease]
          /\ UNCHANGED <<registry, ttl, inflight, ruleEvents, job, expired,
                         lost, raced>>
      BY <1>4 DEF ClearAddressLease
    <2>2. \A a \in Address :
            lease'[a] = IF a = Head(events).of THEN NoLease ELSE lease[a]
      BY <1>t, <1>h, <2>1
    <2>3. LeaseFollowsAddress'
      BY <1>h, <2>1, <2>2, HeadKeeps DEF InJob
    <2>4. OneUnannounced' /\ LeaseFollowsRule'
      BY <2>1, <2>2, RulesKept
    <2> QED
      BY <2>3, <2>4 DEF Follows
  <1>5. CASE SetDeviceAddressLeasesExpiry
    <2> DEFINE e == Head(ruleEvents)
    <2>1. /\ job = NoJob /\ ruleEvents # <<>> /\ ruleEvents' = Tail(ruleEvents)
          /\ UNCHANGED <<registry, ttl, inflight, events, job, expired, lost, raced>>
          /\ \A a \in Address :
               lease'[a] = IF DeviceOf[a] = e.of /\ lease[a] # NoLease
                             THEN e.left ELSE lease[a]
      BY <1>5 DEF SetDeviceAddressLeasesExpiry
    <2>2. e \in RuleEvent
      BY <1>t, <2>1
    <2>3. e.of \in Device /\ e.left \in Left /\ e.left # NoLease
      BY <2>2, EventKinds, AgedTypes
    <2>4. OneUnannounced' /\ LeaseFollowsAddress'
      BY <2>1, <2>3, AddressesKept DEF InJob, registry
    <2>5. ASSUME NEW d \in Device PROVE DeviceOK(d)'
      <3>1. DeviceOK(d) /\ (Trusted(d)' => Trusted(d)) /\ Unannounced' = Unannounced
        BY <2>1 DEF IInv, LeaseFollowsRule, Trusted, Unannounced
      <3>2. CASE e.of # d
        <4>1. \A v : Newest(ruleEvents', d, v) <=> Newest(ruleEvents, d, v)
          <5>1. CASE Queued(ruleEvents', d) # {}
            BY <1>t, <2>1, <5>1, QueuedTail
          <5>2. CASE Queued(ruleEvents', d) = {}
            BY <1>t, <2>1, <3>2, <5>2, QueuedTail DEF Newest
          <5> QED
            BY <5>1, <5>2
        <4>2. Queued(ruleEvents', d) # {} <=> Queued(ruleEvents, d) # {}
          BY <1>t, <2>1, <3>2, QueuedTail
        <4> QED
          BY <1>n, <2>1, <3>1, <3>2, <4>1, <4>2, DeviceFrame
      <3>3. CASE e.of = d
        <4> SUFFICES ASSUME Trusted(d)' PROVE RuleReaches(d)'
          BY DEF DeviceOK
        <4>0. RuleReaches(d) /\ (d \in Subjects(Unannounced)' <=> d \in Subjects(Unannounced))
          BY <3>1 DEF DeviceOK, Subjects
        <4>q. Queued(ruleEvents, d) # {}
          BY <1>t, <2>1, <3>3, QueuedTail
        <4>1. CASE d \in Subjects(Unannounced)
          BY <2>1, <3>1, <4>0, <4>1 DEF RuleReaches
        <4>2. CASE d \notin Subjects(Unannounced) /\ Queued(ruleEvents', d) # {}
          <5>1. \A v : Newest(ruleEvents', d, v) <=> Newest(ruleEvents, d, v)
            BY <1>t, <2>1, <4>2, QueuedTail
          <5>2. \A v \in RuleEvent : Newest(ruleEvents, d, v) => Within(v.left, ttl[d])
            BY <4>0, <4>2, <4>q DEF RuleReaches
          <5> QED
            BY <2>1, <4>0, <4>2, <5>1, <5>2 DEF RuleReaches
        <4>3. CASE d \notin Subjects(Unannounced) /\ Queued(ruleEvents', d) = {}
          <5>1. Newest(ruleEvents, d, e)
            BY <1>t, <2>1, <3>3, <4>3, QueuedTail
          <5>2. Within(e.left, ttl[d])
            BY <2>2, <4>0, <4>3, <4>q, <5>1 DEF RuleReaches
          <5>3. \A a \in Address : DeviceOf[a] = d =>
                  lease'[a] = NoLease \/ Within(lease'[a], ttl[d])
            BY <2>1, <3>3, <5>2
          <5> QED
            BY <1>n, <2>1, <4>0, <4>3, <5>3 DEF RuleReaches
        <4> QED
          BY <4>1, <4>2, <4>3
      <3> QED
        BY <3>2, <3>3
    <2> QED
      BY <2>4, <2>5 DEF Follows, LeaseFollowsRule
  <1> QED
    BY <1>1, <1>2, <1>3, <1>4, <1>5 DEF Listener

LEMMA FailureKeeps ==
    ASSUME IInv, ListenerFails
    PROVE  Follows'
  <1>t. TypeOK /\ events \in Seq(AddressEvent) /\ ruleEvents \in Seq(RuleEvent)
    BY DEF IInv, TypeOK
  <1>n. NoJob.pc = "idle"
    BY DEF NoJob
  <1>c. UNCHANGED <<registry, ttl, lease, inflight, expired, raced>> /\ addr' = addr
    BY DEF ListenerFails, registry
  <1>1. CASE job # NoJob /\ job' = NoJob /\ lost' = lost \cup {job.of}
               /\ UNCHANGED <<events, ruleEvents>>
    <2>1. OneUnannounced' /\ LeaseFollowsAddress'
      BY <1>c, <1>1, AddressesKept DEF InJob
    <2>2. LeaseFollowsRule'
      BY <1>n, <1>c, <1>1, RulesKept
    <2> QED
      BY <2>1, <2>2 DEF Follows
  <1>2. CASE job = NoJob /\ events # <<>> /\ events' = Tail(events)
               /\ lost' = lost \cup {Head(events).of} /\ UNCHANGED <<ruleEvents, job>>
    <2>1. \A a : InJob(a)' <=> InJob(a)
      BY <1>2 DEF InJob
    <2>2. LeaseFollowsAddress'
      <3>1. Head(events).of \in Address
        BY <1>t, <1>2, EventKinds
      <3> QED
        BY <1>c, <1>2, <2>1, <3>1, HeadKeeps
    <2>3. OneUnannounced' /\ LeaseFollowsRule'
      BY <1>c, <1>2, RulesKept
    <2> QED
      BY <2>2, <2>3 DEF Follows
  <1>3. CASE job = NoJob /\ ruleEvents # <<>> /\ ruleEvents' = Tail(ruleEvents)
               /\ lost' = lost \cup {Head(ruleEvents).of} /\ UNCHANGED <<events, job>>
    <2>1. OneUnannounced' /\ LeaseFollowsAddress'
      BY <1>c, <1>3, AddressesKept DEF InJob
    <2>2. ASSUME NEW d \in Device PROVE DeviceOK(d)'
      <3>1. DeviceOK(d) /\ (Trusted(d)' => Trusted(d)) /\ Unannounced' = Unannounced
        BY <1>c, <1>3 DEF IInv, LeaseFollowsRule, Trusted, Unannounced
      <3>2. CASE Head(ruleEvents).of = d
        BY <1>3, <3>2 DEF DeviceOK, Trusted
      <3>3. CASE Head(ruleEvents).of # d
        <4>1. \A v : Newest(ruleEvents', d, v) <=> Newest(ruleEvents, d, v)
          <5>1. CASE Queued(ruleEvents', d) # {}
            BY <1>t, <1>3, <5>1, QueuedTail
          <5>2. CASE Queued(ruleEvents', d) = {}
            BY <1>t, <1>3, <3>3, <5>2, QueuedTail DEF Newest
          <5> QED
            BY <5>1, <5>2
        <4>2. Queued(ruleEvents', d) # {} <=> Queued(ruleEvents, d) # {}
          BY <1>t, <1>3, <3>3, QueuedTail
        <4> QED
          BY <1>n, <1>c, <1>3, <3>1, <4>1, <4>2, DeviceFrame
      <3> QED
        BY <3>2, <3>3
    <2> QED
      BY <2>1, <2>2 DEF Follows, LeaseFollowsRule
  <1> QED
    BY <1>1, <1>2, <1>3 DEF ListenerFails

-----------------------------------------------------------------------------
(* Time takes as much from a deadline as it leaves of the rule.            *)
LEMMA TickKeeps ==
    ASSUME IInv, Tick
    PROVE  Follows'
  <1>t. /\ TypeOK /\ ruleEvents \in Seq(RuleEvent)
        /\ lease \in [Address -> Left \cup {NoLease}]
    BY DEF IInv, TypeOK
  <1>c. /\ UNCHANGED <<registry, ttl, inflight, events, expired, lost, raced>>
        /\ addr' = addr
        /\ \A a \in Address : lease'[a] = Aged(lease[a])
        /\ ruleEvents' = [i \in DOMAIN ruleEvents |-> AgedEvent(ruleEvents[i])]
        /\ job' = IF job.pc = "upsert" THEN [job EXCEPT !.left = Aged(@)] ELSE job
    BY DEF Tick, registry
  <1>1. \A a \in Address : lease'[a] # NoLease <=> lease[a] # NoLease
    BY <1>t, <1>c, AgedTypes
  <1>2. /\ job'.pc = job.pc
        /\ \A a \in Address : InJob(a)' <=> InJob(a)
        /\ job.pc = "upsert" => job'.of = job.of /\ job.left \in Left
                                /\ job'.left = Aged(job.left)
    <2>1. CASE job.pc = "upsert"
      <3>1. job \in [pc : {"upsert"}, of : Address, left : Left]
        BY <1>t, <2>1 DEF TypeOK, NoJob
      <3>2. job' = [job EXCEPT !.left = Aged(@)]
        BY <1>c, <2>1
      <3>3. /\ job'.pc = "upsert" /\ job'.of = job.of /\ job.left \in Left
            /\ job'.left = Aged(job.left)
        BY <3>1, <3>2
      <3>4. job # NoJob /\ job' # NoJob
        BY <2>1, <3>3 DEF NoJob
      <3> QED
        BY <2>1, <3>3, <3>4 DEF InJob
    <2>2. CASE job.pc # "upsert"
      BY <1>c, <2>2 DEF InJob
    <2> QED
      BY <2>1, <2>2
  <1>3. OneUnannounced' /\ LeaseFollowsAddress'
    BY <1>c, <1>1, <1>2, AddressesKept
  <1>4. ASSUME NEW d \in Device PROVE DeviceOK(d)'
    <2>1. DeviceOK(d) /\ (Trusted(d)' <=> Trusted(d)) /\ Unannounced' = Unannounced
      BY <1>c DEF IInv, LeaseFollowsRule, Trusted, Unannounced
    <2>2. d \in Subjects(Unannounced)' <=> d \in Subjects(Unannounced)
      BY <2>1 DEF Subjects
    <2> SUFFICES ASSUME RuleReaches(d) PROVE RuleReaches(d)'
      BY <2>1 DEF DeviceOK
    <2>3. ASSUME NEW i \in DOMAIN ruleEvents
          PROVE  /\ ruleEvents[i] \in RuleEvent
                 /\ ruleEvents'[i] = AgedEvent(ruleEvents[i])
                 /\ ruleEvents'[i].of = ruleEvents[i].of
                 /\ ruleEvents'[i].left = Aged(ruleEvents[i].left)
                 /\ ruleEvents[i].left \in Left
      <3>1. ruleEvents[i] \in RuleEvent
        BY <1>t
      <3> QED
        BY <1>c, <3>1, AgedTypes, EventKinds
    <2>4. Queued(ruleEvents', d) = Queued(ruleEvents, d)
      BY <1>c, <2>3 DEF Queued
    <2>5. CASE d \in Subjects(Unannounced)
      BY <1>c, <2>1, <2>2, <2>5 DEF RuleReaches
    <2>6. CASE d \notin Subjects(Unannounced) /\ Queued(ruleEvents, d) # {}
      <3>1. ASSUME NEW v \in RuleEvent, Newest(ruleEvents', d, v)
            PROVE  Within(v.left, ttl[d])
        <4>1. PICK i \in Queued(ruleEvents, d) :
                (\A j \in Queued(ruleEvents, d) : j <= i) /\ ruleEvents'[i] = v
          BY <2>4, <3>1 DEF Newest
        <4>2. i \in DOMAIN ruleEvents
          BY <4>1 DEF Queued
        <4>3. Newest(ruleEvents, d, ruleEvents[i])
          BY <4>1 DEF Newest
        <4>4. Within(ruleEvents[i].left, ttl[d])
          BY <2>3, <2>6, <4>2, <4>3 DEF RuleReaches
        <4> QED
          BY <2>3, <4>1, <4>2, <4>4, AgedTypes
      <3> QED
        BY <1>c, <2>2, <2>4, <2>6, <3>1 DEF RuleReaches
    <2>7. CASE d \notin Subjects(Unannounced) /\ Queued(ruleEvents, d) = {}
      <3>1. /\ \A a \in Address : DeviceOf[a] = d =>
                 lease[a] = NoLease \/ Within(lease[a], ttl[d])
            /\ job.pc = "upsert" /\ DeviceOf[job.of] = d => Within(job.left, ttl[d])
        BY <2>7 DEF RuleReaches
      <3>2. ASSUME NEW a \in Address, DeviceOf[a] = d
            PROVE  lease'[a] = NoLease \/ Within(lease'[a], ttl[d])
        BY <1>t, <1>c, <3>1, <3>2, AgedTypes
      <3>3. job'.pc = "upsert" /\ DeviceOf[job'.of] = d => Within(job'.left, ttl[d])
        BY <1>2, <3>1, AgedTypes
      <3> QED
        BY <1>c, <2>2, <2>4, <2>7, <3>2, <3>3 DEF RuleReaches
    <2> QED
      BY <2>5, <2>6, <2>7
  <1> QED
    BY <1>3, <1>4 DEF Follows, LeaseFollowsRule

(* A restart forgets what was under way, and that is what lost records.    *)
LEMMA RestartKeeps ==
    ASSUME IInv, Restart
    PROVE  Follows'
  <1>c. /\ inflight' = [p \in Process |-> {}]
        /\ events' = <<>> /\ ruleEvents' = <<>> /\ job' = NoJob
        /\ lost' = lost \cup Subjects(Unannounced)
                     \cup {events[i].of : i \in DOMAIN events}
                     \cup {ruleEvents[i].of : i \in DOMAIN ruleEvents}
                     \cup (IF job = NoJob THEN {} ELSE {job.of})
        /\ UNCHANGED <<registry, ttl, lease, raced>> /\ addr' = addr
    BY DEF Restart, registry
  <1>n. NoJob.pc = "idle"
    BY DEF NoJob
  <1>1. OneUnannounced'
    BY <1>c DEF OneUnannounced
  <1>2. /\ \A x : x \notin Subjects(Unannounced)'
        /\ \A x : Queued(events', x) = {} /\ Queued(ruleEvents', x) = {}
    BY <1>c DEF Subjects, Unannounced, Queued
  <1>3. ASSUME NEW x, Trusted(x)'
        PROVE  /\ Trusted(x) /\ x \notin Subjects(Unannounced)
               /\ Queued(events, x) = {} /\ Queued(ruleEvents, x) = {}
               /\ ~InJob(x)
    BY <1>c, <1>3 DEF Trusted, Queued, InJob
  <1>4. ASSUME NEW a \in Address, Trusted(a)'
        PROVE  WillHaveLease(a)' <=> addr'[a] = "enabled"
    <2>1. WillHaveLease(a) <=> lease[a] # NoLease
      BY <1>3, <1>4 DEF WillHaveLease
    <2>2. WillHaveLease(a)' <=> lease'[a] # NoLease
      BY <1>2, <1>c DEF WillHaveLease, InJob
    <2>3. WillHaveLease(a) <=> addr[a] = "enabled"
      BY <1>3, <1>4 DEF IInv, LeaseFollowsAddress
    <2> QED
      BY <1>c, <2>1, <2>2, <2>3
  <1>5. ASSUME NEW d \in Device, Trusted(d)' PROVE RuleReaches(d)'
    <2>1. RuleReaches(d)
      BY <1>3, <1>5 DEF IInv, LeaseFollowsRule, DeviceOK
    <2>2. \A a \in Address : DeviceOf[a] = d =>
            lease[a] = NoLease \/ Within(lease[a], ttl[d])
      BY <1>3, <1>5, <2>1 DEF RuleReaches
    <2> QED
      BY <1>c, <1>n, <1>2, <2>2 DEF RuleReaches
  <1> QED
    BY <1>1, <1>4, <1>5 DEF Follows, LeaseFollowsAddress, LeaseFollowsRule, DeviceOK

(* The event of a rolled back deletion spoils nobody else's.               *)
LEMMA RollBackKeeps ==
    ASSUME IInv, NEW b \in Address, DeleteUserRolledBack(b)
    PROVE  Follows'
  <1>1. TypeOK /\ Disabled(b) \in AddressEvent /\ Disabled(b).of = b
          /\ Disabled(b) \in Event
    BY EventKinds DEF IInv, Event
  <1>c. /\ Send(Disabled(b)) /\ lost' = lost \cup {b} /\ addr' = addr
        /\ UNCHANGED <<ttl, lease, inflight, job, raced>>
    BY DEF DeleteUserRolledBack, registry
  <1>2. /\ ruleEvents' = ruleEvents
        /\ \A x : x # b => /\ Queued(events', x) = Queued(events, x)
                           /\ \A v : Newest(events', x, v) <=> Newest(events, x, v)
    BY <1>1, <1>c, SendEffect
  <1>3. OneUnannounced' /\ LeaseFollowsRule'
    BY <1>c, <1>2, RulesKept
  <1>4. ASSUME NEW a \in Address PROVE AddressOK(a)'
    <2>1. /\ AddressOK(a) /\ (Trusted(a)' => Trusted(a))
          /\ Unannounced' = Unannounced /\ (InJob(a)' <=> InJob(a))
      BY <1>c DEF IInv, LeaseFollowsAddress, AddressOK, Trusted, Unannounced, InJob
    <2>2. CASE a = b
      BY <1>c, <2>2 DEF AddressOK, Trusted
    <2>3. CASE a # b
      BY <1>c, <1>2, <2>1, <2>3, AddressFrame
    <2> QED
      BY <2>2, <2>3
  <1> QED
    BY <1>3, <1>4 DEF Follows, LeaseFollowsAddress, AddressOK

-----------------------------------------------------------------------------
(* Handlers commit and announce the same change.                           *)
LEMMA HandlersKeep ==
    ASSUME IInv, TypeOK', Handlers
    PROVE  Follows'
  <1>t. TypeOK /\ RegistryTypeOK /\ ttl \in [Device -> Left \cup {NoRule}]
    BY DEF IInv, TypeOK
  <1>0. Address \cap Device = {}
    BY LeaseAssumption
  <1>1. ASSUME NEW r \in Request, NEW a \in Address, RegisterAddressActivity(r, a)
        PROVE  Follows'
    <2>1. /\ Committed(r, {Enabled(a)}) /\ UNCHANGED <<ttl, lease, volatile>>
          /\ \A b \in Address : addr'[b] = IF b = a THEN "enabled" ELSE addr[b]
      BY <1>1, <1>t, EnableEffect DEF RegisterAddressActivity
    <2>2. /\ {Enabled(a)} \in SUBSET Event /\ r \in Process
          /\ Enabled(a).of = a /\ Enabled(a).kind = "enabled"
      BY EventKinds DEF Event, Process, Enabled
    <2>3. Subjects({Enabled(a)}) = {a}
      BY <2>2 DEF Subjects
    <2> QED
      BY <1>0, <2>1, <2>2, <2>3, CommitKeeps
  <1>2. ASSUME NEW r \in Request, DisableSome(r) PROVE Follows'
    <2>1. PICK S \in SUBSET Address :
            /\ Committed(r, {Disabled(a) : a \in S})
            /\ \A a \in Address : addr'[a] = IF a \in S THEN "disabled" ELSE addr[a]
      BY <1>2, <1>t, DisableSomeEffect
    <2> DEFINE E == {Disabled(a) : a \in S}
    <2>2. /\ E \in SUBSET Event /\ r \in Process
          /\ \A e \in E : e.of \in S /\ e = Disabled(e.of) /\ e.kind = "disabled"
          /\ Subjects(E) = S
      BY DisabledEvents DEF Process
    <2>3. UNCHANGED <<ttl, lease, volatile>>
      BY <1>2 DEF DisableSome, DisableAddress, DisableAddresses,
                  DisableOrDeleteDevice
    <2>4. Committed(r, E)
      BY <2>1
    <2> HIDE DEF E
    <2> QED
      BY <1>0, <2>1, <2>2, <2>3, <2>4, CommitKeeps
  <1>3. ASSUME NEW d \in Device, CreateOrEnableDevice(d) PROVE Follows'
    <2>1. addr' = addr /\ UNCHANGED <<ttl, lease, inflight, volatile, lost, raced>>
      BY <1>3 DEF CreateOrEnableDevice, CreateDevice, EnableDevice
    <2>2. UNCHANGED <<events, ruleEvents, job>>
      BY <2>1 DEF volatile
    <2>3. OneUnannounced' /\ LeaseFollowsAddress'
      BY <2>1, <2>2, AddressesKept DEF InJob
    <2>4. LeaseFollowsRule'
      BY <2>1, <2>2, RulesKept
    <2> QED
      BY <2>3, <2>4 DEF Follows
  <1>4. ASSUME NEW r \in Request, NEW d \in Device, NEW t \in Left,
               Committed(r, {RuleSet(d, t)}), ttl' = [ttl EXCEPT ![d] = t],
               UNCHANGED <<registry, lease, volatile>>
        PROVE  Follows'
    <2>1. /\ {RuleSet(d, t)} \in SUBSET Event /\ r \in Process
          /\ RuleSet(d, t).of = d /\ RuleSet(d, t).left = t
      BY EventKinds DEF Event, Process
    <2>2. Subjects({RuleSet(d, t)}) = {d}
      BY <2>1 DEF Subjects
    <2>3. Within(t, t)
      BY DEF Within, Left
    <2>4. addr' = addr /\ \A x \in Device : ttl'[x] = IF x = d THEN t ELSE ttl[x]
      BY <1>t, <1>4 DEF registry
    <2> QED
      BY <1>0, <1>4, <2>1, <2>2, <2>3, <2>4, CommitKeeps
  <1>5. ASSUME NEW r \in Request, NEW d \in Device, NEW t \in TTL,
               EnableDeviceAddressLeaseRule(r, d, t)
        PROVE  Follows'
    <2>1. t \in Left
      BY LeaseAssumption DEF Left
    <2> QED
      BY <1>4, <1>5, <2>1 DEF EnableDeviceAddressLeaseRule
  <1>6. ASSUME NEW r \in Request, NEW d \in Device,
               DisableDeviceAddressLeaseRule(r, d)
        PROVE  Follows'
    <2>1. Never \in Left
      BY DEF Left
    <2> QED
      BY <1>4, <1>6, <2>1 DEF DisableDeviceAddressLeaseRule
  <1> QED
    BY <1>1, <1>2, <1>3, <1>5, <1>6, RollBackKeeps DEF Handlers

LEMMA ExpiryJobKeeps ==
    ASSUME IInv, TypeOK', ExpiryJob
    PROVE  Follows'
  <1>1. CASE GetExpiredAddressIDs
    <2>1. /\ addr' = addr /\ UNCHANGED <<ttl, lease, inflight, lost, raced>>
          /\ UNCHANGED <<events, ruleEvents, job>>
      BY <1>1 DEF GetExpiredAddressIDs, registry, volatile
    <2>2. OneUnannounced' /\ LeaseFollowsAddress'
      BY <2>1, AddressesKept DEF InJob
    <2>3. LeaseFollowsRule'
      BY <2>1, RulesKept
    <2> QED
      BY <2>2, <2>3 DEF Follows
  <1>2. CASE DisableExpired
    <2>1. RegistryTypeOK /\ expired \in SUBSET Address
      BY DEF IInv, TypeOK
    <2>2. /\ Committed(Scheduler, {Disabled(a) : a \in expired})
          /\ \A a \in Address : addr'[a] = IF a \in expired THEN "disabled" ELSE addr[a]
          /\ UNCHANGED <<ttl, lease, volatile>>
      BY <1>2, <2>1, DisableEffect DEF DisableExpired, DisableAddressesTx
    <2> DEFINE E == {Disabled(a) : a \in expired}
    <2>3. /\ E \in SUBSET Event /\ Scheduler \in Process
          /\ \A e \in E : e.of \in expired /\ e = Disabled(e.of) /\ e.kind = "disabled"
          /\ Subjects(E) = expired
      BY <2>1, DisabledEvents DEF Process
    <2>4. Committed(Scheduler, E) /\ Address \cap Device = {}
      BY <2>2, LeaseAssumption
    <2> HIDE DEF E
    <2> QED
      BY <2>1, <2>2, <2>3, <2>4, CommitKeeps
  <1> QED
    BY <1>1, <1>2 DEF ExpiryJob

LEMMA Invariance == Spec => []IInv
  <1>1. Init => IInv
    <2> SUFFICES ASSUME Init PROVE IInv
      OBVIOUS
    <2> USE RegistryAssumption, LeaseAssumption
    <2>0. /\ \A a \in Address : addr[a] = "absent"
          /\ \A x : x \notin Subjects(Unannounced) /\ Queued(events, x) = {}
                      /\ Queued(ruleEvents, x) = {} /\ ~InJob(x)
          /\ \A a \in Address : lease[a] = NoLease
          /\ job.pc = "idle"
      BY DEF Init, RegistryInit, Subjects, Unannounced, Queued, InJob, NoJob
    <2>1. TypeOK
      BY DEF Init, RegistryInit, TypeOK, RegistryTypeOK
    <2>2. OneUnannounced
      BY DEF Init, OneUnannounced
    <2>3. LeaseFollowsAddress
      BY <2>0 DEF LeaseFollowsAddress, WillHaveLease
    <2>4. LeaseFollowsRule
      BY <2>0 DEF LeaseFollowsRule, DeviceOK, RuleReaches
    <2> QED
      BY <2>1, <2>2, <2>3, <2>4 DEF IInv
  <1>2. IInv /\ [Next]_vars => IInv'
    <2> SUFFICES ASSUME IInv, [Next]_vars PROVE IInv'
      OBVIOUS
    <2>1. TypeOK'
      BY TypeStep DEF IInv
    <2>2. CASE UNCHANGED vars
      BY <2>1, <2>2, RulesKept, AddressesKept DEF vars, volatile, IInv, InJob, registry
    <2>3. CASE \E p \in Process : AnnounceAny(p)
      BY <2>1, <2>3, AnnounceKeeps DEF AnnounceAny, IInv, Follows
    <2>4. CASE Handlers
      BY <2>1, <2>4, HandlersKeep DEF IInv, Follows
    <2>5. CASE Listener \/ ListenerFails
      BY <2>1, <2>5, ListenerKeeps, FailureKeeps DEF IInv, Follows
    <2>6. CASE ExpiryJob \/ Tick \/ Restart
      BY <2>1, <2>6, ExpiryJobKeeps, TickKeeps, RestartKeeps DEF IInv, Follows
    <2> QED
      BY <2>2, <2>3, <2>4, <2>5, <2>6 DEF Next
  <1> QED
    BY <1>1, <1>2, PTL DEF Spec

(* Neither channel of the lease service is ever fuller than it was made,   *)
(* and rows, rules and the listener's locals keep their types.             *)
THEOREM LeaseTypes == Spec => []TypeOK
  <1>1. IInv => TypeOK
    BY DEF IInv
  <1> QED
    BY Invariance, <1>1, PTL

(* Once the events under way are applied, an address has a row in          *)
(* address_leases exactly if it is enabled (lease/service.go,              *)
(* lease/repository.go), whatever the order in which concurrent handlers   *)
(* and the listener run, unless its last event got lost or raced another.  *)
THEOREM LeasesFollowAddresses == Spec => []LeaseFollowsAddress
  <1>1. IInv => LeaseFollowsAddress
    BY DEF IInv
  <1> QED
    BY Invariance, <1>1, PTL

(* With nothing under way, the rows of a device agree with its rule.       *)
LEMMA SettledRows ==
    ASSUME IInv, NEW a \in Address, NEW d \in Device, DeviceOf[a] = d,
           Settled(d), Trusted(d)
    PROVE  lease[a] = NoLease \/ Within(lease[a], ttl[d])
  BY DEF IInv, LeaseFollowsRule, DeviceOK, RuleReaches, Settled

(* With nothing under way, an enabled address of a device with the lease   *)
(* rule on has a deadline within the TTL: OnRuleEvent and OnAddressEvent   *)
(* may be served in any order.                                             *)
THEOREM LeasesStayBounded == Spec => []LeasesAreBounded
  <1>1. IInv => LeasesAreBounded
    <2> SUFFICES ASSUME IInv, NEW a \in Address,
                        addr[a] = "enabled", ttl[DeviceOf[a]] \in Nat,
                        Settled(a), Settled(DeviceOf[a]),
                        Trusted(a), Trusted(DeviceOf[a])
                 PROVE  lease[a] \in Nat /\ lease[a] <= ttl[DeviceOf[a]]
      BY DEF LeasesAreBounded
    <2>1. DeviceOf[a] \in Device
      BY RegistryAssumption
    <2>2. WillHaveLease(a)
      BY DEF IInv, LeaseFollowsAddress
    <2>3. lease[a] # NoLease
      BY <2>2 DEF WillHaveLease, Settled
    <2> QED
      BY <2>1, <2>3, SettledRows DEF Within
  <1> QED
    BY Invariance, <1>1, PTL

(* With nothing under way, a device without the lease rule has no address  *)
(* with a deadline: turning the rule off clears expires_at, and a heartbeat *)
(* that read the TTL before does not bring it back.                        *)
THEOREM NoRuleLeavesNoExpiry == Spec => []NoRuleNoExpiry
  <1>1. IInv => NoRuleNoExpiry
    <2> SUFFICES ASSUME IInv, NEW a \in Address,
                        ttl[DeviceOf[a]] \in {Never, NoRule},
                        Settled(DeviceOf[a]), Trusted(DeviceOf[a])
                 PROVE  lease[a] \in {NoLease, Never}
      BY DEF NoRuleNoExpiry
    <2>1. DeviceOf[a] \in Device
      BY RegistryAssumption
    <2>2. ttl[DeviceOf[a]] \notin Nat
      BY LeaseAssumption
    <2> QED
      BY <2>1, <2>2, SettledRows DEF Within
  <1> QED
    BY Invariance, <1>1, PTL

=============================================================================
