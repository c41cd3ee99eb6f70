------------------------------ MODULE History -------------------------------
(***************************************************************************)
(* The address history (internal/device): every change of an address is an *)
(* event, written in the transaction that makes it, and the history views  *)
(* read nothing else: what kind of event each one was, how long after the  *)
(* device's previous renewal it came, how that compares to the lease TTL,  *)
(* a chart of devices per bucket and a ranking of devices whose TTL is too *)
(* short.                                                                  *)
(*                                                                         *)
(* The module extends the transactions of Registry with the event log.     *)
(* Which addresses a background job disables, and when, is left open here; *)
(* Lapse composes the module with the lease service, which decides it.     *)
(* Created times are the clock of a transaction that holds the write lock, *)
(* so that ids follow them; the clock counts the milliseconds julianday    *)
(* keeps, or whatever part of a second it is given.                        *)
(***************************************************************************)
EXTENDS Registry, Sequences, Integers

CONSTANTS
    Step,        \* how the clock advances
    MaxTime,     \* bound: the last instant of the clock
    MaxEvents,   \* bound: length of the log
    Second,      \* units of the clock in a second
    Short,       \* pairs of instants whose difference in days, a binary
                 \* fraction, falls short of the whole seconds between them
    TTL,         \* the TTLs an administrator may set, in seconds
    Percent,     \* the percentile of the ranking (95 in the code)
    MinRenewals, \* sample floor of the ranking (10 in the code)
    TuningLimit, \* length of the ranking (5 in the code)
    DeviceId,    \* the row id of a device
    Width,       \* width of a bucket
    Retention,   \* how long events are kept
    None         \* SQL's NULL: no rule, no gap; a parameter not given

ASSUME HistoryAssumption ==
    /\ Step \subseteq Nat \ {0} /\ TTL \subseteq Nat \ {0}
    /\ MaxTime \in Nat /\ MaxEvents \in Nat /\ Second \in Nat \ {0}
    /\ Percent \in 1 .. 100 /\ MinRenewals \in Nat /\ Width \in Nat \ {0}
    /\ TuningLimit \in Nat /\ DeviceId \in [Device -> Nat]
    /\ \A c, d \in Device : DeviceId[c] = DeviceId[d] => c = d
    /\ Retention \in Nat /\ None \notin Nat /\ None \notin Device

VARIABLES
    now,   \* the clock
    log,   \* every row of address_events so far, in the order of their ids
    cut,   \* how many of them, the oldest, retention has deleted
    ttl    \* ttl[d]: the enabled lease rule of d, or None

historyVars == <<registry, now, log, cut, ttl>>

Source == {"heartbeat", "web_ui", "expiry", "limit_exceeded"}

HistoryInit ==
    /\ RegistryInit
    /\ now = 0
    /\ log = <<>>
    /\ cut = 0
    /\ ttl = [d \in Device |-> None]

-----------------------------------------------------------------------------
(* One event per address, in any order.                                    *)
insertAddressEvents(S, on, src) ==
    /\ Len(log) + Cardinality(S) <= MaxEvents
    /\ \E order \in [1 .. Cardinality(S) -> S] :
         /\ \A i, j \in DOMAIN order : order[i] = order[j] => i = j
         /\ log' = log \o [i \in DOMAIN order |->
                [addr |-> order[i], on |-> on, src |-> src, at |-> now]]

(* Heartbeats and registrations by hand are not told apart.                *)
RegisterAddressActivity(a) ==
    /\ RegisterAddressTx(a)
    /\ insertAddressEvents({a}, TRUE, "heartbeat")
    /\ UNCHANGED <<now, cut, ttl>>

Disabled(S, src) ==
    /\ insertAddressEvents(S, FALSE, src)
    /\ UNCHANGED <<now, cut, ttl>>

(* The toggle of the web UI, on an address in either state.                *)
DisableAddress(a) == DisableAddressTx(a) /\ Disabled({a}, "web_ui")

(* The expiry job and the limit service disable the addresses they have    *)
(* listed before, in whatever state those are by now.                      *)
Listable == {a \in Address : addr[a] # "absent"}

ExpireAddresses(S) ==
    /\ S \subseteq Listable
    /\ DisableAddressesTx(S)
    /\ Disabled(S, "expiry")

EvictAddresses(d, S) ==
    /\ S \subseteq Listable \cap AddressesOf(d) /\ S # {}
    /\ DisableAddressesTx(S)
    /\ Disabled(S, "limit_exceeded")

DisableOrDeleteDevice(d) ==
    /\ DisableDeviceTx(d) \/ DeleteDeviceTx(d)
    /\ Disabled(EnabledAddresses(d), "web_ui")

CreateOrEnableDevice(d) ==
    /\ CreateDevice(d) \/ EnableDevice(d)
    /\ UNCHANGED <<now, log, cut, ttl>>

(* The lease rule is set, or switched off (None).                          *)
SetLeaseRule(d, t) ==
    /\ device[d] # "absent"
    /\ ttl' = [ttl EXCEPT ![d] = t]
    /\ UNCHANGED <<registry, now, log, cut>>

(* Retention.  Ids follow times, so what it deletes are the oldest rows.   *)
DeleteAddressEventsOlderThan(before) ==
    LET old == {i \in DOMAIN log : log[i].at < before}
    IN  /\ Cardinality(old) > cut
        /\ cut' = Cardinality(old)
        /\ UNCHANGED <<registry, now, log, ttl>>

Tick(s) ==
    /\ now + s <= MaxTime
    /\ now' = now + s
    /\ UNCHANGED <<registry, log, cut, ttl>>

HistoryNext ==
    \/ \E a \in Address : RegisterAddressActivity(a) \/ DisableAddress(a)
    \/ \E S \in SUBSET Listable : ExpireAddresses(S)
    \/ \E d \in Device, S \in SUBSET Listable : EvictAddresses(d, S)
    \/ \E d \in Device : DisableOrDeleteDevice(d) \/ CreateOrEnableDevice(d)
    \/ \E d \in Device, t \in TTL \cup {None} : SetLeaseRule(d, t)
    \/ DeleteAddressEventsOlderThan(now - Retention)
    \/ \E s \in Step : Tick(s)

HistorySpec == HistoryInit /\ [][HistoryNext]_historyVars

-----------------------------------------------------------------------------
(* The enriched table every view reads, with its derived columns.          *)
Row == cut + 1 .. Len(log)
DeviceOfEvent(i) == DeviceOf[log[i].addr]
Latest(S) == CHOOSE i \in S : \A j \in S : j <= i

(* Variant: the previous event of the device, not of the address.          *)
eventKindOfDevice(i) ==
    LET earlier == {j \in cut + 1 .. i - 1 : DeviceOfEvent(j) = DeviceOfEvent(i)}
    IN  IF earlier = {} THEN "created"
        ELSE IF log[i].on # log[Latest(earlier)].on
        THEN (IF log[i].on THEN "enabled" ELSE "disabled")
        ELSE "refresh"

eventKind(i) ==
    LET earlier == {j \in cut + 1 .. i - 1 : log[j].addr = log[i].addr}
    IN  IF earlier = {} THEN "created"
        ELSE IF log[i].on # log[Latest(earlier)].on
        THEN (IF log[i].on THEN "enabled" ELSE "disabled")
        ELSE "refresh"

(* Variant: every event counts as a renewal.                               *)
IsRenewalAny(i) == log[i].src \in Source

IsRenewal(i) == log[i].src \notin {"expiry", "limit_exceeded"}

(* The time between two instants cast to an integer number of seconds.     *)
GapSeconds(s, t) ==
    IF s < t /\ <<s, t>> \in Short THEN (t - s - 1) \div Second
                                  ELSE (t - s) \div Second

renewalGap(i) ==
    LET earlier == {j \in cut + 1 .. i - 1 :
                      IsRenewal(j) /\ DeviceOfEvent(j) = DeviceOfEvent(i)}
    IN  IF ~IsRenewal(i) \/ earlier = {} THEN None
        ELSE GapSeconds(log[Latest(earlier)].at, log[i].at)

(* SQL's CASE takes the first branch that applies.                         *)
ttlRisk(gap, t) ==
    IF t = None \/ gap = None   THEN "unknown"
    ELSE IF gap >= t            THEN "breached"
    ELSE IF 10 * gap > 9 * t    THEN "critical"
    ELSE IF 10 * gap > 7 * t    THEN "approaching"
    ELSE "ok"

addressHistoryEnriched ==
    {[id |-> i, device |-> DeviceOfEvent(i), at |-> log[i].at,
      gap |-> renewalGap(i),
      risk |-> ttlRisk(renewalGap(i), ttl[DeviceOfEvent(i)])] :
        i \in {j \in Row : device[DeviceOfEvent(j)] # "deleted"}}

addressHistoryConditions(rows, from, to) ==
    {e \in rows : from <= e.at /\ e.at <= to}

(* The chart: per bucket and level, the devices whose worst level it is;   *)
(* rows are the ones the window and the filters select.                    *)
Bucket(t) == t - (t % Width)

ttlRiskRank ==
    [unknown |-> 0, ok |-> 1, approaching |-> 2, critical |-> 3, breached |-> 4]

riskDeviceBuckets(rows, b, risk) ==
    LET ranks(d) == {ttlRiskRank[e.risk] : e \in
                       {x \in rows : Bucket(x.at) = b /\ x.device = d}}
        worst(d) == CHOOSE r \in ranks(d) : \A s \in ranks(d) : s <= r
    IN  {d \in Device : /\ ranks(d) # {}
                        /\ worst(d) >= ttlRiskRank.ok
                        /\ worst(d) = ttlRiskRank[risk]}

(* The ranking: the measured renewals of a device, the smallest gap at or  *)
(* above the percentile, and the test a device must meet to be listed.     *)
Measured(rows, d) == {e \in rows : e.device = d /\ e.risk # "unknown"}

percentileGap(S) ==
    LET rowNumber(e) == Cardinality({x \in S : \/ x.gap < e.gap
                                               \/ x.gap = e.gap /\ x.id <= e.id})
        high == {e.gap : e \in
                   {x \in S : rowNumber(x) * 100 >= Cardinality(S) * Percent}}
    IN  CHOOSE g \in high : \A h \in high : g <= h

LateRenewals(rows, d) == {e \in Measured(rows, d) : e.risk = "breached"}

TooShort(rows, d) ==
    /\ percentileGap(Measured(rows, d)) > ttl[d]
    /\ Cardinality(Measured(rows, d)) >= MinRenewals

(* The ratio of gap and TTL of c is larger than that of d, or equal to it. *)
LargerRatio(rows, c, d) ==
    percentileGap(Measured(rows, c)) * ttl[d] > percentileGap(Measured(rows, d)) * ttl[c]

EqualRatio(rows, c, d) ==
    percentileGap(Measured(rows, c)) * ttl[d] = percentileGap(Measured(rows, d)) * ttl[c]

(* ORDER BY: the ratio, then the number of late renewals, then the id.     *)
RankedBefore(rows, c, d) ==
    LET late(x) == Cardinality(LateRenewals(rows, x)) IN
    \/ LargerRatio(rows, c, d)
    \/ /\ EqualRatio(rows, c, d)
       /\ \/ late(c) > late(d)
          \/ late(c) = late(d) /\ DeviceId[c] < DeviceId[d]

(* Variant: the page is filled from the other end of the ranking.          *)
FirstRowsLast(rows, S) ==
    {d \in S : Cardinality({c \in S : RankedBefore(rows, d, c)}) < TuningLimit}

FirstRows(rows, S) ==
    {d \in S : Cardinality({c \in S : RankedBefore(rows, c, d)}) < TuningLimit}

(* The ranking of the fleet, or (only # None) the readout of one device,   *)
(* with neither thresholds nor a limit.                                    *)
GetAddressHistoryTuning(rows, only) ==
    LET measured == {d \in Device : Measured(rows, d) # {}}
        found == IF only = None THEN {d \in measured : TooShort(rows, d)}
                                ELSE measured \cap {only}
    IN  [devices |-> IF only = None THEN FirstRows(rows, found) ELSE found,
         total   |-> Cardinality(found)]

-----------------------------------------------------------------------------
(* The kinds alone tell the state: an address is enabled exactly if its    *)
(* last event that is not a refresh is "created" or "enabled".  So no path *)
(* that switches an address on or off, one by one or in bulk, for whatever *)
(* reason, goes without its event (device/address_repository.go:224-254).  *)
(* Once retention has taken events of the address, the oldest one left is  *)
(* "created" whatever it was; the state of its last event still holds.     *)
HistoryTellsTheState ==
    \A a \in Address :
        LET events == {i \in Row : log[i].addr = a}
            pruned == \E i \in 1 .. cut : log[i].addr = a
            changes == {i \in events : eventKind(i) # "refresh"}
            tells(i) == addr[a] = IF log[i].on THEN "enabled" ELSE "disabled"
        IN  IF events = {} THEN addr[a] = "absent" \/ pruned
            ELSE /\ changes # {} /\ tells(Latest(events)) /\ tells(Latest(changes))
                 /\ \A i \in changes :
                      CASE eventKind(i) = "enabled"  -> log[i].on
                        [] eventKind(i) = "disabled" -> ~log[i].on
                        [] OTHER                     -> log[i].on \/ pruned

(* The chart and the ranking agree on who is late.  In any window that     *)
(* reaches to the present the devices with enough renewals of which more   *)
(* are late than the percentile stands for ("p95 > ttl is itself the >5%   *)
(* of renewals arrived late test", address_history_tuning_view.go:148-150) *)
(* are exactly the ones the ranking counts, whatever the size of the       *)
(* sample.  It lists as many of them as there is room for, none that it    *)
(* leaves out has a larger ratio of gap and TTL than one it lists, and the *)
(* chart of the same window shows all of them as breached.                 *)
ViewsAgreeOnTheLate ==
    \A all \in {addressHistoryEnriched} : \A from \in {e.at : e \in all} :
        LET rows == addressHistoryConditions(all, from, now)
            tooLate == {d \in Device :
                LET S == Measured(rows, d)
                    late == {e \in S : e.gap > ttl[d]}
                IN  /\ S # {} /\ Cardinality(S) >= MinRenewals
                    /\ 100 * Cardinality(late) > (100 - Percent) * Cardinality(S)}
            ranking == GetAddressHistoryTuning(rows, None)
        IN  /\ ranking.total = Cardinality(tooLate)
            /\ ranking.devices \subseteq tooLate
            /\ Cardinality(ranking.devices) =
                 IF ranking.total < TuningLimit THEN ranking.total ELSE TuningLimit
            /\ \A c \in ranking.devices, d \in tooLate \ ranking.devices :
                 ~LargerRatio(rows, d, c)
            /\ \A d \in tooLate :
                 /\ \E e \in rows : d \in riskDeviceBuckets(rows, Bucket(e.at), "breached")
                 /\ d \in GetAddressHistoryTuning(rows, d).devices
=============================================================================
