---------------------------- MODULE PolicyCache -----------------------------
(***************************************************************************)
(* The authorization cache (internal/policy) and everything that feeds it. *)
(* verify-ip is answered from an in-memory snapshot of three parts of the  *)
(* database: the enabled addresses with their owners, the hosts each user  *)
(* may reach, and the enabled network policies.  A handler commits its     *)
(* transaction and then signals the cache; the signal carries no data and  *)
(* coalesces in a channel of capacity 1.  The listener reads the parts one *)
(* after the other, each in an access of its own, and swaps them in; a     *)
(* ticker makes it do the same without a signal.                           *)
(***************************************************************************)
EXTENDS Registry

CONSTANTS
    Request,    \* concurrent handlers
    User,       \* user ids
    Group,      \* host group ids
    Host,       \* host FQDNs
    Policy,     \* network policy ids
    Net,        \* CIDR ranges
    Bypass      \* the values of bypass_host_check an administrator may set

ASSUME PolicyCacheAssumption == Bypass \subseteq BOOLEAN

VARIABLES
    owner,      \* owner[d]: devices.owner_id
    user,       \* user[u]: "active" or "deleted"
    grant,      \* grant[u]: bypass flag and host groups of a user
    members,    \* members[g]: hosts of group g, for the groups that exist
    policy,     \* policy[p]: a network policy, or Absent
    writer,     \* the open DeleteUser transaction, or NoWriter
    req,        \* req[r]: Idle, Notify, or an UpdateDevice between its
                \* read and its write
    signal,     \* Service.refreshSignal holds a token
    pc,         \* the listener: the part refreshCache reads next
    snap,       \* what refreshCache has read so far
    cache,      \* Service.ipSet and Service.networkPolicies
    missed,     \* history: parts changed without a later signal since they
                \* were last read
    failed      \* history: parts whose change a database error kept from
                \* the cache since they were last read

tables == <<owner, user, grant, members, policy>>
listener == <<pc, snap, cache>>
vars == <<registry, tables, writer, req, signal, listener, missed, failed>>

Part == {"entries", "access", "policies"}
Absent == [kind |-> "absent"]
NoWriter == [step |-> "none"]
NoGrant == [bypass |-> FALSE, groups |-> {}]

Grant == [bypass : BOOLEAN, groups : SUBSET Group]
GrantInput == [bypass : Bypass, groups : SUBSET Group]
Access == [bypass : BOOLEAN, hosts : SUBSET Host]
NetworkPolicy == [kind : {"policy"}, net : Net, enabled : BOOLEAN, grant : Grant]
Idle == [step |-> "idle"]
Notify == [step |-> "notify"]
Edit == [step : {"edit"}, dev : Device, owner : User, changed : BOOLEAN]
Deletion == [step : {"access", "devices", "commit"}, user : User,
             grants : BOOLEAN, devs : SUBSET Device]

-----------------------------------------------------------------------------
(* The three reads of refreshCache.  The first returns pairs of an address *)
(* and its device's owner; the second and third resolve groups to hosts.   *)
GetEnabledIPEntries ==
    {<<a, owner[DeviceOf[a]]>> : a \in
        {x \in Address : addr[x] = "enabled" /\ device[DeviceOf[x]] # "deleted"}}

Resolve(g) ==
    [bypass |-> g.bypass,
     hosts |-> UNION {members[x] : x \in g.groups \cap DOMAIN members}]

GetAllUserHostAccess == [u \in User |-> Resolve(grant[u])]

GetEnabledCacheEntries ==
    {[id |-> p, net |-> policy[p].net, access |-> Resolve(policy[p].grant)] :
        p \in {x \in Policy : policy[x] # Absent /\ policy[x].enabled}}

Db == [entries  |-> GetEnabledIPEntries,
       access   |-> GetAllUserHostAccess,
       policies |-> GetEnabledCacheEntries]

Empty == [entries  |-> {},
          access   |-> [u \in User |-> [bypass |-> FALSE, hosts |-> {}]],
          policies |-> {}]

Snapshot == [entries  : SUBSET (Address \X User),
             access   : [User -> Access],
             policies : SUBSET [id : Policy, net : Net, access : Access]]

TablesTypeOK ==
    /\ owner \in [Device -> User]
    /\ user \in [User -> {"active", "deleted"}]
    /\ grant \in [User -> Grant]
    /\ DOMAIN members \subseteq Group
    /\ members \in [DOMAIN members -> SUBSET Host]
    /\ policy \in [Policy -> NetworkPolicy \cup {Absent}]

ControlTypeOK ==
    /\ writer \in Deletion \cup {NoWriter}
    /\ req \in [Request -> Edit \cup {Idle, Notify}]
    /\ signal \in BOOLEAN
    /\ pc \in {"idle", "swap"} \cup Part
    /\ snap \in Snapshot
    /\ cache \in Snapshot
    /\ missed \subseteq {"entries", "policies"}
    /\ failed \subseteq Part

TypeOK == RegistryTypeOK /\ TablesTypeOK /\ ControlTypeOK

(* The owner of a device that does not exist yet is the one that           *)
(* CreateDevice will be given.  Every user starts without access.          *)
Init ==
    /\ RegistryInit
    /\ owner \in [Device -> User]
    /\ user = [u \in User |-> "active"]
    /\ grant = [u \in User |-> NoGrant]
    /\ members = [g \in {} |-> {}]
    /\ policy = [p \in Policy |-> Absent]
    /\ writer = NoWriter
    /\ req = [r \in Request |-> Idle]
    /\ signal = FALSE
    /\ pc = "idle"
    /\ snap = Empty
    /\ cache = Empty
    /\ missed = {}
    /\ failed = {}

-----------------------------------------------------------------------------
(* Handlers.  SQLite has one writer at a time (_txlock=immediate), so while *)
(* DeleteUser's transaction is open every other write waits.               *)
Unlocked == writer = NoWriter

Committed(r) ==
    /\ Unlocked
    /\ req[r] = Idle
    /\ req' = [req EXCEPT ![r] = Notify]
    /\ UNCHANGED <<writer, signal, listener, missed, failed>>

CommittedQuietly ==
    /\ Unlocked
    /\ UNCHANGED <<writer, req, signal, listener, missed, failed>>

(* Service.OnAddressEvent ignores a refresh: it changes no entry.          *)
RegisterAddressActivity(r, a) ==
    /\ RegisterAddressTx(a)
    /\ IF ActivityType(a) \in {"created", "enabled"}
         THEN Committed(r)
         ELSE CommittedQuietly
    /\ UNCHANGED tables

(* One AddressDisabled event per address the transaction disabled.         *)
DisableAddress(r, a) ==
    /\ DisableAddressTx(a)
    /\ Committed(r)
    /\ UNCHANGED tables

DisableAddresses(r, S) ==
    /\ \A a \in S : addr[a] # "absent"
    /\ DisableAddressesTx(S)
    /\ Committed(r)
    /\ UNCHANGED tables

(* Variant: the disabled addresses are not announced.                      *)
DisableDeviceQuiet(r, d) ==
    /\ DisableDeviceTx(d)
    /\ req[r] = Idle
    /\ CommittedQuietly
    /\ UNCHANGED tables

DisableDevice(r, d) ==
    /\ DisableDeviceTx(d)
    /\ IF EnabledAddresses(d) # {} THEN Committed(r) ELSE CommittedQuietly
    /\ UNCHANGED tables

DeleteDevice(r, d) ==
    /\ DeleteDeviceTx(d)
    /\ IF EnabledAddresses(d) # {} THEN Committed(r) ELSE CommittedQuietly
    /\ UNCHANGED tables

CreateOrEnableDevice(d) ==
    /\ CreateDevice(d) \/ EnableDevice(d)
    /\ CommittedQuietly
    /\ UNCHANGED tables

(* Variant: the observers are not told of the new grants.                  *)
SetUserAccessQuiet(r, u, g) ==
    /\ req[r] = Idle
    /\ g.groups \subseteq DOMAIN members
    /\ grant' = [grant EXCEPT ![u] = g]
    /\ CommittedQuietly
    /\ UNCHANGED <<registry, owner, user, members, policy>>

(* useraccess.Service.SetUserAccess: the foreign keys check the groups and *)
(* that the user row exists, which a soft-deleted one still does.          *)
SetUserAccess(r, u, g) ==
    /\ g.groups \subseteq DOMAIN members
    /\ grant' = [grant EXCEPT ![u] = g]
    /\ Committed(r)
    /\ UNCHANGED <<registry, owner, user, members, policy>>

(* hosts.Service.ReconcileHosts: hosts come and go, and with them their     *)
(* group memberships; the groups themselves stay.                          *)
ReconcileHosts(r, m) ==
    /\ DOMAIN m = DOMAIN members
    /\ members' = m
    /\ Committed(r)
    /\ UNCHANGED <<registry, owner, user, grant, policy>>

(* hosts.Service.ReconcileHostGroups: deleting a group cascades to the      *)
(* users and the policies that were granted it.                            *)
Without(g, gone) == [g EXCEPT !.groups = @ \ gone]

ReconcileHostGroups(r, m) ==
    LET gone == DOMAIN members \ DOMAIN m IN
    /\ members' = m
    /\ grant' = [u \in User |-> Without(grant[u], gone)]
    /\ policy' = [p \in Policy |->
                    IF policy[p] = Absent THEN Absent
                    ELSE [policy[p] EXCEPT !.grant = Without(@, gone)]]
    /\ Committed(r)
    /\ UNCHANGED <<registry, owner, user>>

(* networkpolicies.Service.CreatePolicy does not notify the observers.     *)
CreatePolicy(p, n) ==
    /\ Unlocked
    /\ policy[p] = Absent
    /\ policy' = [policy EXCEPT ![p] =
                    [kind |-> "policy", net |-> n, enabled |-> TRUE,
                     grant |-> NoGrant]]
    /\ missed' = missed \cup {"policies"}
    /\ UNCHANGED <<registry, owner, user, grant, members, writer, req, signal,
                   listener, failed>>

UpdatePolicy(r, p, n, e) ==
    /\ policy[p] # Absent
    /\ policy' = [policy EXCEPT ![p].net = n, ![p].enabled = e]
    /\ Committed(r)
    /\ UNCHANGED <<registry, owner, user, grant, members>>

(* Variant: the deletion is as quiet as CreatePolicy.                      *)
DeletePolicyQuiet(r, p) ==
    /\ req[r] = Idle
    /\ policy[p] # Absent
    /\ policy' = [policy EXCEPT ![p] = Absent]
    /\ CommittedQuietly
    /\ UNCHANGED <<registry, owner, user, grant, members>>

DeletePolicy(r, p) ==
    /\ policy[p] # Absent
    /\ policy' = [policy EXCEPT ![p] = Absent]
    /\ Committed(r)
    /\ UNCHANGED <<registry, owner, user, grant, members>>

SetHostAccess(r, p, g) ==
    /\ policy[p] # Absent
    /\ g.groups \subseteq DOMAIN members
    /\ policy' = [policy EXCEPT ![p].grant = g]
    /\ Committed(r)
    /\ UNCHANGED <<registry, owner, user, grant, members>>

(***************************************************************************)
(* device.Service.UpdateDevice reads the device, decides from that read    *)
(* whether ownership changes, and then writes every column back.  Reading  *)
(* the row back after the write may fail, which skips the notification.    *)
(***************************************************************************)
UpdateDeviceRead(r, d, o) ==
    /\ req[r] = Idle
    /\ device[d] \in {"active", "disabled"}
    /\ req' = [req EXCEPT ![r] = [step |-> "edit", dev |-> d, owner |-> o,
                                  changed |-> o # owner[d]]]
    /\ UNCHANGED <<registry, tables, writer, signal, listener, missed, failed>>

UpdateDeviceWrite(r) ==
    /\ req[r].step = "edit"
    /\ Unlocked
    /\ device[req[r].dev] \in {"active", "disabled"}
    /\ owner' = [owner EXCEPT ![req[r].dev] = req[r].owner]
    /\ \/ /\ req' = [req EXCEPT ![r] = IF @.changed THEN Notify ELSE Idle]
          /\ missed' = IF req[r].changed \/ owner' = owner
                         THEN missed ELSE missed \cup {"entries"}
          /\ UNCHANGED failed
       \/ /\ req' = [req EXCEPT ![r] = Idle]
          /\ failed' = IF owner' = owner THEN failed
                                        ELSE failed \cup {"entries"}
          /\ UNCHANGED missed
    /\ UNCHANGED <<registry, user, grant, members, policy, writer, signal,
                   listener>>

UpdateDeviceNotFound(r) ==
    /\ req[r].step = "edit"
    /\ device[req[r].dev] = "deleted"
    /\ req' = [req EXCEPT ![r] = Idle]
    /\ UNCHANGED <<registry, tables, writer, signal, listener, missed, failed>>

Announce(r) ==
    /\ req[r] = Notify
    /\ req' = [req EXCEPT ![r] = Idle]
    /\ signal' = TRUE
    /\ UNCHANGED <<registry, tables, writer, listener, missed, failed>>

(***************************************************************************)
(* auth.Service.DeleteUser notifies its observers inside its transaction.  *)
(* useraccess deletes the grants and signals; device deletes the devices   *)
(* and signals if one had an enabled address.  Both log errors and go on.  *)
(***************************************************************************)
DeleteUserBegin(u) ==
    /\ Unlocked
    /\ user[u] = "active"
    /\ writer' = [step |-> "access", user |-> u, grants |-> FALSE, devs |-> {}]
    /\ UNCHANGED <<registry, tables, req, signal, listener, missed, failed>>

DeleteUserData ==
    /\ writer.step = "access"
    /\ \E ok \in BOOLEAN :
          writer' = [writer EXCEPT !.step = "devices", !.grants = ok]
    /\ signal' = TRUE
    /\ UNCHANGED <<registry, tables, req, listener, missed, failed>>

DeleteUserDevices ==
    /\ writer.step = "devices"
    /\ \E D \in SUBSET {d \in Device : /\ owner[d] = writer.user
                                       /\ device[d] \in {"active", "disabled"}} :
          /\ writer' = [writer EXCEPT !.step = "commit", !.devs = D]
          /\ signal' = (signal \/ \E d \in D : EnabledAddresses(d) # {})
    /\ UNCHANGED <<registry, tables, req, listener, missed, failed>>

DeleteUserCommit ==
    /\ writer.step = "commit"
    /\ user' = [user EXCEPT ![writer.user] = "deleted"]
    /\ grant' = IF writer.grants THEN [grant EXCEPT ![writer.user] = NoGrant]
                                 ELSE grant
    /\ device' = [d \in Device |->
                    IF d \in writer.devs THEN "deleted" ELSE device[d]]
    /\ RecordDisabled(UNION {EnabledAddresses(d) : d \in writer.devs})
    /\ missed' = IF signal \/ writer.devs = {} THEN missed
                                              ELSE missed \cup {"entries"}
    /\ writer' = NoWriter
    /\ UNCHANGED <<owner, members, policy, req, signal, listener, failed>>

DeleteUserRollback ==
    /\ ~Unlocked
    /\ writer' = NoWriter
    /\ UNCHANGED <<registry, tables, req, signal, listener, missed, failed>>

-----------------------------------------------------------------------------
(* The listener.  A refresh starts on a signal or on a tick.               *)
StartRefresh ==
    /\ pc = "idle"
    /\ pc' = "entries"
    /\ UNCHANGED <<registry, tables, writer, req, snap, cache, missed, failed>>

(* Variant: no ticker.                                                     *)
OnTickNever == FALSE /\ UNCHANGED signal /\ StartRefresh

OnSignal == signal /\ signal' = FALSE /\ StartRefresh
OnTick == UNCHANGED signal /\ StartRefresh

Read(part, next) ==
    /\ pc = part
    /\ pc' = next
    /\ snap' = [snap EXCEPT ![part] = Db[part]]
    /\ missed' = missed \ {part}
    /\ failed' = failed \ {part}
    /\ UNCHANGED <<registry, tables, writer, req, signal, cache>>

ReadEntries == Read("entries", "access")

(* Variant: a plain read, which the writer does not hold up.               *)
ReadAccessOutsideTx == Read("access", "policies")

(* GetAllUserHostAccess opens a transaction, hence waits for the writer.   *)
ReadAccess == Unlocked /\ Read("access", "policies")

ReadPolicies == Read("policies", "swap")

Swap ==
    /\ pc = "swap"
    /\ pc' = "idle"
    /\ cache' = snap
    /\ snap' = Empty
    /\ UNCHANGED <<registry, tables, writer, req, signal, missed, failed>>

(* A read fails, or ReadAccess runs into the busy timeout: the error is     *)
(* logged and the old snapshot stays.                                      *)
RefreshFails ==
    /\ pc \in Part
    /\ pc' = "idle"
    /\ snap' = Empty
    /\ failed' = failed \cup {t \in Part : cache[t] # Db[t] \/ ~Unlocked}
    /\ UNCHANGED <<registry, tables, writer, req, signal, cache, missed>>

(* The process stops and starts again.  Initialize runs before any request *)
(* is served; if it fails, the server starts with an empty cache.          *)
Restart ==
    /\ writer' = NoWriter
    /\ req' = [r \in Request |-> Idle]
    /\ signal' = FALSE
    /\ pc' = "idle"
    /\ snap' = Empty
    /\ missed' = {}
    /\ \/ cache' = Db /\ failed' = {}
       \/ cache' = Empty /\ failed' = {t \in Part : Empty[t] # Db[t]}
    /\ UNCHANGED <<registry, tables>>

-----------------------------------------------------------------------------
MemberImages == UNION {[G -> SUBSET Host] : G \in SUBSET Group}

DeviceHandlers ==
    \/ \E r \in Request, a \in Address :
          RegisterAddressActivity(r, a) \/ DisableAddress(r, a)
    \/ \E r \in Request, S \in SUBSET Address : DisableAddresses(r, S)
    \/ \E r \in Request, d \in Device : DisableDevice(r, d) \/ DeleteDevice(r, d)
    \/ \E d \in Device : CreateOrEnableDevice(d)
    \/ \E r \in Request, d \in Device, o \in User : UpdateDeviceRead(r, d, o)
    \/ \E r \in Request : UpdateDeviceWrite(r) \/ UpdateDeviceNotFound(r)

AccessHandlers ==
    \/ \E r \in Request, u \in User, g \in GrantInput : SetUserAccess(r, u, g)
    \/ \E r \in Request, m \in MemberImages :
          ReconcileHosts(r, m) \/ ReconcileHostGroups(r, m)

PolicyHandlers ==
    \/ \E p \in Policy, n \in Net : CreatePolicy(p, n)
    \/ \E r \in Request, p \in Policy, n \in Net, e \in BOOLEAN :
          UpdatePolicy(r, p, n, e)
    \/ \E r \in Request, p \in Policy : DeletePolicy(r, p)
    \/ \E r \in Request, p \in Policy, g \in GrantInput : SetHostAccess(r, p, g)

DeleteUser ==
    \/ DeleteUserData \/ DeleteUserDevices \/ DeleteUserCommit

Refresh == OnSignal \/ ReadEntries \/ ReadAccess \/ ReadPolicies \/ Swap

Next ==
    \/ DeviceHandlers \/ AccessHandlers \/ PolicyHandlers
    \/ \E u \in User : DeleteUserBegin(u)
    \/ DeleteUser \/ DeleteUserRollback
    \/ \E r \in Request : Announce(r)
    \/ Refresh \/ OnTick \/ RefreshFails \/ Restart

Spec == Init /\ [][Next]_vars

(* The listener goroutine keeps running, its ticker keeps firing, and a     *)
(* handler that has started keeps going.                                   *)
Fairness ==
    /\ WF_vars(Refresh)
    /\ WF_vars(OnTick)
    /\ WF_vars(DeleteUser)
    /\ \A r \in Request :
          WF_vars(Announce(r)) /\ WF_vars(UpdateDeviceWrite(r))

FairSpec == Spec /\ Fairness

-----------------------------------------------------------------------------
WasRead(t) ==
    CASE t = "entries"  -> pc \in {"access", "policies", "swap"}
      [] t = "access"   -> pc \in {"policies", "swap"}
      [] t = "policies" -> pc = "swap"

Signalled == signal \/ \E r \in Request : req[r] = Notify

(* The refresh under way will bring part t up to date.                     *)
WillSee(t) == pc # "idle" /\ (WasRead(t) => snap[t] = Db[t])

Covered(t) == Signalled \/ WillSee(t)

(***************************************************************************)
(* A part of the cache that differs from the database is about to be       *)
(* rebuilt: a signal is pending or will be sent, or the refresh under way  *)
(* has yet to read the part, or has read what is stored now.  The only     *)
(* exceptions are the changes that no later signal announces ("missed")    *)
(* and database errors.  A signal lost in the channel of capacity 1, or    *)
(* consumed by a refresh that is past the part, would break it.            *)
(***************************************************************************)
CacheConverges ==
    \A t \in Part :
        cache[t] # Db[t] => Covered(t) \/ t \in missed \/ t \in failed

(***************************************************************************)
(* No change of what users may reach goes unnoticed without a database     *)
(* error, deleting a user included, although DeleteUser signals before it  *)
(* commits (auth/service.go:357): a refresh that takes that signal early   *)
(* cannot read the grants before the commit, because GetAllUserHostAccess  *)
(* (useraccess/service.go:55-76) waits for the write lock.                 *)
(***************************************************************************)
AccessConverges ==
    cache.access # Db.access => Covered("access") \/ "access" \in failed

(***************************************************************************)
(* The same for what refreshCache (policy/cache.go:45-86) holds and has    *)
(* not swapped in yet, and for a DeleteUser that has signalled and not yet *)
(* committed: the facts that make CacheConverges inductive.                *)
(***************************************************************************)
PendingReadsConverge ==
    /\ \A t \in Part : pc # "idle" /\ WasRead(t) /\ snap[t] # Db[t]
                         => Signalled \/ t \in missed \/ t \in failed
    /\ writer.step \in {"devices", "commit"}
         => \/ signal \/ pc \in {"entries", "access"}
            \/ "access" \in failed

(***************************************************************************)
(* When the handlers have done their work and no read fails, the cache     *)
(* equals the database from some point on, whatever was missed: the        *)
(* "staleness backstop" of policy/lifecycle.go:45-53.                      *)
(***************************************************************************)
Settling == (\E r \in Request : Announce(r)) \/ Refresh \/ OnTick

CacheCatchesUp == <>[][Settling]_vars => <>[](cache = Db)
=============================================================================
