------------------------- MODULE PolicyCacheProofs --------------------------
(***************************************************************************)
(* Proofs about PolicyCache, for every set of devices, addresses, users,   *)
(* groups, hosts, policies and requests.                                   *)
(***************************************************************************)
EXTENDS PolicyCache, TLAPS

(* CacheConverges says nothing of what a refresh has read and not swapped  *)
(* in; PendingReadsConverge adds that, and what DeleteUser's early signal  *)
(* guarantees until its commit.                                            *)
IInv == TypeOK /\ CacheConverges /\ AccessConverges /\ PendingReadsConverge

-----------------------------------------------------------------------------
(* Types.                                                                  *)

(* Resolving a grant yields hosts only.                                    *)
LEMMA ResolveType ==
    ASSUME members \in [DOMAIN members -> SUBSET Host], NEW g \in Grant
    PROVE  Resolve(g) \in Access
  BY DEF Resolve, Access, Grant

(* What refreshCache reads is a snapshot.                                  *)
LEMMA DbType ==
    ASSUME TypeOK PROVE Db \in Snapshot
  <1>1. GetEnabledIPEntries \in SUBSET (Address \X User)
    BY RegistryAssumption DEF TypeOK, TablesTypeOK, GetEnabledIPEntries
  <1>2. GetAllUserHostAccess \in [User -> Access]
    BY ResolveType DEF TypeOK, TablesTypeOK, GetAllUserHostAccess
  <1>3. GetEnabledCacheEntries \in SUBSET [id : Policy, net : Net, access : Access]
    <2>1. ASSUME NEW p \in Policy, policy[p] # Absent
          PROVE  policy[p].net \in Net /\ policy[p].grant \in Grant
      BY <2>1 DEF TypeOK, TablesTypeOK, NetworkPolicy
    <2>2. ASSUME NEW p \in Policy, policy[p] # Absent
          PROVE  [id |-> p, net |-> policy[p].net,
                  access |-> Resolve(policy[p].grant)]
                   \in [id : Policy, net : Net, access : Access]
      BY <2>1, <2>2, ResolveType DEF TypeOK, TablesTypeOK
    <2> QED
      BY <2>2 DEF GetEnabledCacheEntries
  <1> QED
    BY <1>1, <1>2, <1>3 DEF Db, Snapshot

(* Disabling a set of addresses keeps the registry well typed.             *)
LEMMA DisabledType ==
    ASSUME RegistryTypeOK, NEW S, RecordDisabled(S),
           device' \in [Device -> {"absent", "active", "disabled", "deleted"}]
    PROVE  RegistryTypeOK'
  BY DEF RegistryTypeOK, RecordDisabled

(* Each transaction of the registry keeps the registry well typed.         *)
LEMMA RegistryTxType ==
    ASSUME RegistryTypeOK
    PROVE  /\ \A a \in Address : RegisterAddressTx(a) => RegistryTypeOK'
           /\ \A a \in Address : DisableAddressTx(a) => RegistryTypeOK'
           /\ \A S : DisableAddressesTx(S) => RegistryTypeOK'
           /\ \A d \in Device : DisableDeviceTx(d) => RegistryTypeOK'
           /\ \A d \in Device : DeleteDeviceTx(d) => RegistryTypeOK'
           /\ \A d \in Device : CreateDevice(d) => RegistryTypeOK'
           /\ \A d \in Device : EnableDevice(d) => RegistryTypeOK'
  <1>1. ASSUME NEW a \in Address, RegisterAddressTx(a) PROVE RegistryTypeOK'
    BY <1>1 DEF RegistryTypeOK, RegisterAddressTx, RecordEnabled,
                EnabledAddresses, AddressesOf
  <1>2. ASSUME NEW S, RecordDisabled(S), UNCHANGED device PROVE RegistryTypeOK'
    BY <1>2, DisabledType DEF RegistryTypeOK
  <1>3. ASSUME NEW d \in Device, DisableDeviceTx(d) \/ DeleteDeviceTx(d)
        PROVE RegistryTypeOK'
    <2>1. RecordDisabled(EnabledAddresses(d))
      BY <1>3 DEF DisableDeviceTx, DeleteDeviceTx
    <2>2. device' \in [Device -> {"absent", "active", "disabled", "deleted"}]
      BY <1>3 DEF RegistryTypeOK, DisableDeviceTx, DeleteDeviceTx
    <2> QED
      BY <2>1, <2>2, DisabledType
  <1>4. ASSUME NEW d \in Device, CreateDevice(d) \/ EnableDevice(d)
        PROVE RegistryTypeOK'
    BY <1>4 DEF RegistryTypeOK, CreateDevice, EnableDevice
  <1> QED
    BY <1>1, <1>2, <1>3, <1>4 DEF DisableAddressTx, DisableAddressesTx

(* Deleting groups from a grant leaves a grant.                            *)
LEMMA WithoutType ==
    ASSUME NEW g \in Grant, NEW G PROVE Without(g, G) \in Grant
  BY DEF Grant, Without

(* A commit leaves its request to notify, or is quiet; either way the rest  *)
(* of the control state keeps its type.                                    *)
LEMMA CommitType ==
    ASSUME ControlTypeOK,
           CommittedQuietly \/ \E r \in Request : Committed(r)
    PROVE  ControlTypeOK'
  <1>1. UNCHANGED <<writer, signal, pc, snap, cache, missed, failed>>
    BY DEF CommittedQuietly, Committed, listener
  <1>2. req' \in [Request -> Edit \cup {Idle, Notify}]
    BY DEF CommittedQuietly, Committed, ControlTypeOK
  <1> QED
    BY <1>1, <1>2 DEF ControlTypeOK

(* The handlers' writes keep the tables well typed.                        *)
LEMMA HandlerType ==
    ASSUME TypeOK, DeviceHandlers \/ AccessHandlers \/ PolicyHandlers
    PROVE  TypeOK'
  <1>t. RegistryTypeOK /\ TablesTypeOK /\ ControlTypeOK
    BY DEF TypeOK
  <1>1. ASSUME NEW r \in Request, NEW a \in Address,
               RegisterAddressActivity(r, a) \/ DisableAddress(r, a)
        PROVE TypeOK'
    <2>1. RegistryTypeOK'
      BY <1>1, <1>t, RegistryTxType DEF RegisterAddressActivity, DisableAddress
    <2>2. TablesTypeOK'
      BY <1>1, <1>t DEF RegisterAddressActivity, DisableAddress, tables,
                        TablesTypeOK
    <2>3. ControlTypeOK'
      BY <1>1, <1>t, CommitType DEF RegisterAddressActivity, DisableAddress
    <2> QED
      BY <2>1, <2>2, <2>3 DEF TypeOK
  <1>2. ASSUME NEW r \in Request, NEW S, DisableAddresses(r, S)
        PROVE TypeOK'
    <2>1. RegistryTypeOK'
      BY <1>2, <1>t, RegistryTxType DEF DisableAddresses
    <2>2. TablesTypeOK'
      BY <1>2, <1>t DEF DisableAddresses, tables, TablesTypeOK
    <2>3. ControlTypeOK'
      BY <1>2, <1>t, CommitType DEF DisableAddresses
    <2> QED
      BY <2>1, <2>2, <2>3 DEF TypeOK
  <1>3. ASSUME NEW r \in Request, NEW d \in Device,
               DisableDevice(r, d) \/ DeleteDevice(r, d)
        PROVE TypeOK'
    <2>1. RegistryTypeOK'
      BY <1>3, <1>t, RegistryTxType DEF DisableDevice, DeleteDevice
    <2>2. TablesTypeOK'
      BY <1>3, <1>t DEF DisableDevice, DeleteDevice, tables, TablesTypeOK
    <2>3. ControlTypeOK'
      BY <1>3, <1>t, CommitType DEF DisableDevice, DeleteDevice
    <2> QED
      BY <2>1, <2>2, <2>3 DEF TypeOK
  <1>4. ASSUME NEW d \in Device, CreateOrEnableDevice(d)
        PROVE TypeOK'
    <2>1. RegistryTypeOK'
      BY <1>4, <1>t, RegistryTxType DEF CreateOrEnableDevice
    <2>2. TablesTypeOK'
      BY <1>4, <1>t DEF CreateOrEnableDevice, tables, TablesTypeOK
    <2>3. ControlTypeOK'
      BY <1>4, <1>t, CommitType DEF CreateOrEnableDevice
    <2> QED
      BY <2>1, <2>2, <2>3 DEF TypeOK
  <1>5. ASSUME NEW r \in Request, NEW d \in Device, NEW o \in User,
               UpdateDeviceRead(r, d, o)
        PROVE TypeOK'
    <2>1. [step |-> "edit", dev |-> d, owner |-> o, changed |-> o # owner[d]]
            \in Edit
      BY DEF Edit
    <2>2. req' \in [Request -> Edit \cup {Idle, Notify}]
      BY <1>5, <1>t, <2>1 DEF UpdateDeviceRead, ControlTypeOK
    <2>3. RegistryTypeOK' /\ TablesTypeOK'
      BY <1>5, <1>t DEF UpdateDeviceRead, registry, tables, RegistryTypeOK,
                        TablesTypeOK
    <2>4. ControlTypeOK'
      BY <1>5, <1>t, <2>2 DEF UpdateDeviceRead, listener, ControlTypeOK
    <2> QED
      BY <2>3, <2>4 DEF TypeOK
  <1>6. ASSUME NEW r \in Request, UpdateDeviceWrite(r)
        PROVE TypeOK'
    <2>1. req[r] \in Edit
      BY <1>6, <1>t DEF UpdateDeviceWrite, ControlTypeOK, Idle, Notify
    <2>2. owner' \in [Device -> User]
      BY <1>6, <1>t, <2>1 DEF UpdateDeviceWrite, TablesTypeOK, Edit
    <2>3. req' \in [Request -> Edit \cup {Idle, Notify}]
      BY <1>6, <1>t DEF UpdateDeviceWrite, ControlTypeOK
    <2>4. missed' \subseteq {"entries", "policies"} /\ failed' \subseteq Part
      BY <1>6, <1>t DEF UpdateDeviceWrite, ControlTypeOK, Part
    <2>5. RegistryTypeOK' /\ TablesTypeOK'
      BY <1>6, <1>t, <2>2 DEF UpdateDeviceWrite, registry, RegistryTypeOK,
                              TablesTypeOK
    <2>6. ControlTypeOK'
      BY <1>6, <1>t, <2>3, <2>4 DEF UpdateDeviceWrite, listener, ControlTypeOK
    <2> QED
      BY <2>5, <2>6 DEF TypeOK
  <1>7. ASSUME NEW r \in Request, UpdateDeviceNotFound(r)
        PROVE TypeOK'
    <2>1. RegistryTypeOK' /\ TablesTypeOK'
      BY <1>7, <1>t DEF UpdateDeviceNotFound, registry, tables,
                        RegistryTypeOK, TablesTypeOK
    <2>2. ControlTypeOK'
      BY <1>7, <1>t DEF UpdateDeviceNotFound, listener, ControlTypeOK
    <2> QED
      BY <2>1, <2>2 DEF TypeOK
  <1>8. ASSUME NEW r \in Request, NEW u \in User, NEW g \in GrantInput,
               SetUserAccess(r, u, g)
        PROVE TypeOK'
    <2>1. g \in Grant
      BY PolicyCacheAssumption DEF GrantInput, Grant
    <2>2. RegistryTypeOK' /\ TablesTypeOK'
      BY <1>8, <1>t, <2>1 DEF SetUserAccess, registry, RegistryTypeOK,
                              TablesTypeOK
    <2>3. ControlTypeOK'
      BY <1>8, <1>t, CommitType DEF SetUserAccess
    <2> QED
      BY <2>2, <2>3 DEF TypeOK
  <1>9. ASSUME NEW m \in MemberImages
        PROVE  DOMAIN m \subseteq Group /\ m \in [DOMAIN m -> SUBSET Host]
    BY DEF MemberImages
  <1>10. ASSUME NEW r \in Request, NEW m \in MemberImages, ReconcileHosts(r, m)
         PROVE TypeOK'
    <2>1. RegistryTypeOK' /\ TablesTypeOK'
      BY <1>10, <1>t, <1>9 DEF ReconcileHosts, registry, RegistryTypeOK,
                               TablesTypeOK
    <2>2. ControlTypeOK'
      BY <1>10, <1>t, CommitType DEF ReconcileHosts
    <2> QED
      BY <2>1, <2>2 DEF TypeOK
  <1>11. ASSUME NEW r \in Request, NEW m \in MemberImages,
                ReconcileHostGroups(r, m)
         PROVE TypeOK'
    <2>1. grant' \in [User -> Grant]
      BY <1>11, <1>t, WithoutType DEF ReconcileHostGroups, TablesTypeOK
    <2>2. policy' \in [Policy -> NetworkPolicy \cup {Absent}]
      <3>1. ASSUME NEW p \in Policy, policy[p] # Absent, NEW G
            PROVE  [policy[p] EXCEPT !.grant = Without(@, G)] \in NetworkPolicy
        <4>1. policy[p] \in NetworkPolicy
          BY <1>t, <3>1 DEF TablesTypeOK
        <4>2. Without(policy[p].grant, G) \in Grant
          BY <4>1, WithoutType DEF NetworkPolicy
        <4> QED
          BY <4>1, <4>2 DEF NetworkPolicy
      <3> QED
        BY <1>11, <3>1 DEF ReconcileHostGroups
    <2>3. RegistryTypeOK' /\ TablesTypeOK'
      BY <1>11, <1>t, <1>9, <2>1, <2>2
         DEF ReconcileHostGroups, registry, RegistryTypeOK, TablesTypeOK
    <2>4. ControlTypeOK'
      BY <1>11, <1>t, CommitType DEF ReconcileHostGroups
    <2> QED
      BY <2>3, <2>4 DEF TypeOK
  <1>12. ASSUME NEW p \in Policy, NEW n \in Net, CreatePolicy(p, n)
         PROVE TypeOK'
    <2>1. [kind |-> "policy", net |-> n, enabled |-> TRUE, grant |-> NoGrant]
            \in NetworkPolicy
      BY DEF NetworkPolicy, NoGrant, Grant
    <2>2. RegistryTypeOK' /\ TablesTypeOK'
      BY <1>12, <1>t, <2>1 DEF CreatePolicy, registry, RegistryTypeOK,
                               TablesTypeOK
    <2>3. ControlTypeOK'
      BY <1>12, <1>t DEF CreatePolicy, listener, ControlTypeOK
    <2> QED
      BY <2>2, <2>3 DEF TypeOK
  <1>13. ASSUME NEW r \in Request, NEW p \in Policy, policy[p] # Absent,
                NEW q \in NetworkPolicy \cup {Absent},
                policy' = [policy EXCEPT ![p] = q], Committed(r),
                UNCHANGED <<registry, owner, user, grant, members>>
         PROVE TypeOK'
    <2>1. RegistryTypeOK' /\ TablesTypeOK'
      BY <1>13, <1>t DEF registry, RegistryTypeOK, TablesTypeOK
    <2>2. ControlTypeOK'
      BY <1>13, <1>t, CommitType
    <2> QED
      BY <2>1, <2>2 DEF TypeOK
  <1>14. ASSUME NEW p \in Policy, policy[p] # Absent
         PROVE policy[p] \in NetworkPolicy
    BY <1>14, <1>t DEF TablesTypeOK
  <1>15. ASSUME NEW r \in Request, NEW p \in Policy, NEW n \in Net,
                NEW e \in BOOLEAN, UpdatePolicy(r, p, n, e)
         PROVE TypeOK'
    <2>1. policy[p] \in NetworkPolicy
      BY <1>14, <1>15 DEF UpdatePolicy
    <2>2. [policy[p] EXCEPT !.net = n, !.enabled = e] \in NetworkPolicy
      BY <2>1 DEF NetworkPolicy
    <2>3. policy' = [policy EXCEPT ![p] =
                       [policy[p] EXCEPT !.net = n, !.enabled = e]]
      BY <1>15, <1>t DEF UpdatePolicy, TablesTypeOK
    <2> QED
      BY <1>13, <1>15, <2>2, <2>3 DEF UpdatePolicy
  <1>16. ASSUME NEW r \in Request, NEW p \in Policy, DeletePolicy(r, p)
         PROVE TypeOK'
    BY <1>13, <1>16 DEF DeletePolicy
  <1>17. ASSUME NEW r \in Request, NEW p \in Policy, NEW g \in GrantInput,
                SetHostAccess(r, p, g)
         PROVE TypeOK'
    <2>1. policy[p] \in NetworkPolicy /\ g \in Grant
      BY <1>14, <1>17, PolicyCacheAssumption DEF SetHostAccess, GrantInput, Grant
    <2>2. [policy[p] EXCEPT !.grant = g] \in NetworkPolicy
      BY <2>1 DEF NetworkPolicy
    <2>3. policy' = [policy EXCEPT ![p] = [policy[p] EXCEPT !.grant = g]]
      BY <1>17, <1>t DEF SetHostAccess, TablesTypeOK
    <2> QED
      BY <1>13, <1>17, <2>2, <2>3 DEF SetHostAccess
  <1>18. CASE DeviceHandlers
    BY <1>18, <1>1, <1>2, <1>3, <1>4, <1>5, <1>6, <1>7 DEF DeviceHandlers
  <1>19. CASE AccessHandlers
    BY <1>19, <1>8, <1>10, <1>11 DEF AccessHandlers
  <1>20. CASE PolicyHandlers
    BY <1>20, <1>12, <1>15, <1>16, <1>17 DEF PolicyHandlers
  <1> QED
    BY <1>18, <1>19, <1>20

(* The variables keep their types: tables, the one open writer, requests,   *)
(* the listener's progress and the snapshots it takes.                     *)
LEMMA TypeStep == TypeOK /\ [Next]_vars => TypeOK'
  <1> SUFFICES ASSUME TypeOK, [Next]_vars PROVE TypeOK'
    OBVIOUS
  <1>t. RegistryTypeOK /\ TablesTypeOK /\ ControlTypeOK
    BY DEF TypeOK
  <1>e. Empty \in Snapshot /\ Db \in Snapshot
    <2>1. Empty \in Snapshot
      BY DEF Empty, Snapshot, Access
    <2> QED
      BY <2>1, DbType
  <1>1. ASSUME UNCHANGED <<registry, tables>>, ControlTypeOK' PROVE TypeOK'
    BY <1>1, <1>t DEF registry, tables, RegistryTypeOK, TablesTypeOK, TypeOK
  <1>2. CASE DeviceHandlers \/ AccessHandlers \/ PolicyHandlers
    BY <1>2, HandlerType
  <1>3. ASSUME NEW u \in User, DeleteUserBegin(u) PROVE TypeOK'
    <2>1. writer' \in Deletion
      BY <1>3 DEF DeleteUserBegin, Deletion
    <2>2. ControlTypeOK'
      BY <1>3, <1>t, <2>1 DEF DeleteUserBegin, ControlTypeOK, listener
    <2> QED
      BY <1>1, <1>3, <2>2 DEF DeleteUserBegin
  <1>4. writer.step \in {"access", "devices", "commit"} => writer \in Deletion
    BY <1>t DEF ControlTypeOK, NoWriter
  <1>5. CASE DeleteUserData
    <2>1. writer' \in Deletion /\ signal' \in BOOLEAN
      BY <1>5, <1>4 DEF DeleteUserData, Deletion
    <2>2. ControlTypeOK'
      BY <1>5, <1>t, <2>1 DEF DeleteUserData, ControlTypeOK, listener
    <2> QED
      BY <1>1, <1>5, <2>2 DEF DeleteUserData
  <1>6. CASE DeleteUserDevices
    <2>1. writer' \in Deletion
      BY <1>6, <1>4 DEF DeleteUserDevices, Deletion
    <2>2. signal' \in BOOLEAN
      BY <1>6 DEF DeleteUserDevices
    <2>3. ControlTypeOK'
      BY <1>6, <1>t, <2>1, <2>2 DEF DeleteUserDevices, ControlTypeOK, listener
    <2> QED
      BY <1>1, <1>6, <2>3 DEF DeleteUserDevices
  <1>7. CASE DeleteUserCommit
    <2>1. writer \in Deletion
      BY <1>7, <1>4 DEF DeleteUserCommit
    <2>2. device' \in [Device -> {"absent", "active", "disabled", "deleted"}]
      BY <1>7, <1>t DEF DeleteUserCommit, RegistryTypeOK
    <2>3. RegistryTypeOK'
      BY <1>7, <1>t, <2>2, DisabledType DEF DeleteUserCommit
    <2>4. user' \in [User -> {"active", "deleted"}]
      BY <1>7, <1>t DEF DeleteUserCommit, TablesTypeOK
    <2>5. grant' \in [User -> Grant]
      <3>1. NoGrant \in Grant
        BY DEF NoGrant, Grant
      <3> QED
        BY <1>7, <1>t, <3>1 DEF DeleteUserCommit, TablesTypeOK
    <2>6. TablesTypeOK'
      BY <1>7, <1>t, <2>4, <2>5 DEF DeleteUserCommit, TablesTypeOK
    <2>7. ControlTypeOK'
      BY <1>7, <1>t DEF DeleteUserCommit, ControlTypeOK, listener
    <2> QED
      BY <2>3, <2>6, <2>7 DEF TypeOK
  <1>8. CASE DeleteUserRollback
    <2>1. ControlTypeOK'
      BY <1>8, <1>t DEF DeleteUserRollback, ControlTypeOK, listener
    <2> QED
      BY <1>1, <1>8, <2>1 DEF DeleteUserRollback
  <1>9. ASSUME NEW r \in Request, Announce(r) PROVE TypeOK'
    <2>1. ControlTypeOK'
      BY <1>9, <1>t DEF Announce, ControlTypeOK, listener
    <2> QED
      BY <1>1, <1>9, <2>1 DEF Announce
  <1>10. CASE OnSignal \/ OnTick
    <2>1. ControlTypeOK'
      BY <1>10, <1>t DEF OnSignal, OnTick, StartRefresh, ControlTypeOK, Part
    <2> QED
      BY <1>1, <1>10, <2>1 DEF OnSignal, OnTick, StartRefresh
  <1>11. ASSUME NEW part \in Part, NEW next \in {"swap"} \cup Part,
                Read(part, next)
         PROVE TypeOK'
    <2>1. snap' \in Snapshot
      BY <1>11, <1>t, <1>e DEF Read, ControlTypeOK, Snapshot, Part
    <2>2. ControlTypeOK'
      BY <1>11, <1>t, <2>1 DEF Read, ControlTypeOK
    <2> QED
      BY <1>1, <1>11, <2>2 DEF Read
  <1>12. CASE ReadEntries \/ ReadAccess \/ ReadPolicies
    BY <1>11, <1>12 DEF ReadEntries, ReadAccess, ReadPolicies, Part
  <1>13. CASE Swap
    <2>1. ControlTypeOK'
      BY <1>13, <1>t, <1>e DEF Swap, ControlTypeOK
    <2> QED
      BY <1>1, <1>13, <2>1 DEF Swap
  <1>14. CASE RefreshFails
    <2>1. ControlTypeOK'
      BY <1>14, <1>t, <1>e DEF RefreshFails, ControlTypeOK
    <2> QED
      BY <1>1, <1>14, <2>1 DEF RefreshFails
  <1>15. CASE Restart
    <2>1. ControlTypeOK'
      BY <1>15, <1>t, <1>e DEF Restart, ControlTypeOK
    <2> QED
      BY <1>1, <1>15, <2>1 DEF Restart
  <1>16. CASE UNCHANGED vars
    <2>1. ControlTypeOK'
      BY <1>16, <1>t DEF vars, listener, ControlTypeOK
    <2> QED
      BY <1>1, <1>16, <2>1 DEF vars
  <1> QED
    BY <1>2, <1>3, <1>5, <1>6, <1>7, <1>8, <1>9, <1>10, <1>12, <1>13, <1>14,
       <1>15, <1>16 DEF Next, DeleteUser, Refresh

(* The initial state is well typed.                                        *)
LEMMA TypeInit == Init => TypeOK
  <1> SUFFICES ASSUME Init PROVE TypeOK
    OBVIOUS
  <1>1. RegistryTypeOK
    BY DEF Init, RegistryInit, RegistryTypeOK
  <1>2. TablesTypeOK
    BY DEF Init, TablesTypeOK, NoGrant, Grant
  <1>3. Empty \in Snapshot
    BY DEF Empty, Snapshot, Access
  <1>4. ControlTypeOK
    BY <1>3 DEF Init, ControlTypeOK, Part
  <1> QED
    BY <1>1, <1>2, <1>4 DEF TypeOK

(* Every reachable state of the cache and of the tables it mirrors is well  *)
(* typed; in particular only the parts "entries" and "policies" can ever   *)
(* be missed.                                                              *)
THEOREM TypeCorrect == Spec => []TypeOK
  BY TypeInit, TypeStep, PTL DEF Spec

-----------------------------------------------------------------------------
(* Convergence.                                                            *)

(* The cache mirrors the registry and the tables and nothing else.         *)
LEMMA DbUnchanged ==
    ASSUME UNCHANGED <<registry, tables>> PROVE Db' = Db
  BY DEF registry, tables, Db, GetEnabledIPEntries, GetAllUserHostAccess,
         GetEnabledCacheEntries, Resolve

(* The part of DeleteUser's promise that PendingReadsConverge states.      *)
EarlySignal ==
    writer.step \in {"devices", "commit"}
      => signal \/ pc \in {"entries", "access"} \/ "access" \in failed

(* While the listener stands still, an announced, missed or failed change   *)
(* is all that may separate a part from the database.                      *)
LEMMA HandlerConverges ==
    ASSUME IInv, UNCHANGED listener, Signalled => Signalled',
           missed \subseteq missed', failed \subseteq failed',
           \A t \in Part : \/ Db'[t] = Db[t] \/ Signalled'
                           \/ t \in missed' \/ t \in failed',
           \/ Db'.access = Db.access \/ Covered("access")'
           \/ "access" \in failed',
           EarlySignal'
    PROVE  CacheConverges' /\ AccessConverges' /\ PendingReadsConverge'
  <1>1. /\ pc' = pc /\ snap' = snap /\ cache' = cache
        /\ \A t \in Part : WasRead(t)' <=> WasRead(t)
    BY DEF listener, WasRead
  <1>2. ASSUME NEW t \in Part, Db'[t] = Db[t], Covered(t) PROVE Covered(t)'
    BY <1>1, <1>2 DEF Covered, WillSee
  <1>3. CacheConverges'
    <2> SUFFICES ASSUME NEW t \in Part, cache'[t] # Db'[t]
                 PROVE  Covered(t)' \/ t \in missed' \/ t \in failed'
      BY DEF CacheConverges
    <2>1. CASE Db'[t] = Db[t]
      BY <1>1, <1>2, <2>1 DEF IInv, CacheConverges
    <2>2. CASE Signalled' \/ t \in missed' \/ t \in failed'
      BY <2>2 DEF Covered
    <2> QED
      BY <2>1, <2>2
  <1>4. AccessConverges'
    <2>1. CASE Db'.access = Db.access
      <3>1. cache'.access # Db'.access => Covered("access") \/ "access" \in failed
        BY <1>1, <2>1 DEF IInv, AccessConverges
      <3>2. Covered("access") => Covered("access")'
        BY <1>2, <2>1 DEF Part
      <3> QED
        BY <3>1, <3>2 DEF AccessConverges
    <2>2. CASE Covered("access")' \/ "access" \in failed'
      BY <2>2 DEF AccessConverges
    <2> QED
      BY <2>1, <2>2
  <1>5. PendingReadsConverge'
    <2>1. ASSUME NEW t \in Part, pc' # "idle", WasRead(t)', snap'[t] # Db'[t]
          PROVE  Signalled' \/ t \in missed' \/ t \in failed'
      <3>1. CASE Db'[t] = Db[t]
        BY <1>1, <2>1, <3>1 DEF IInv, PendingReadsConverge
      <3> QED
        BY <3>1
    <2> QED
      BY <2>1 DEF PendingReadsConverge, EarlySignal
  <1> QED
    BY <1>3, <1>4, <1>5

(* A committed change that is about to be announced leaves nothing stale    *)
(* unnoticed; one that is not announced must not change what is cached.    *)
LEMMA CommitConverges ==
    ASSUME IInv, TypeOK',
           \/ \E r \in Request : Committed(r)
           \/ CommittedQuietly /\ Db' = Db
    PROVE  CacheConverges' /\ AccessConverges' /\ PendingReadsConverge'
  <1>1. /\ UNCHANGED <<writer, signal, listener, missed, failed>>
        /\ Unlocked
    BY DEF Committed, CommittedQuietly
  <1>2. EarlySignal'
    BY <1>1 DEF EarlySignal, Unlocked, NoWriter
  <1>3. CASE \E r \in Request : Committed(r)
    <2>1. Signalled'
      <3>1. PICK r \in Request : Committed(r)
        BY <1>3
      <3>2. req'[r] = Notify
        BY <3>1 DEF Committed, IInv, TypeOK, ControlTypeOK
      <3> QED
        BY <3>2 DEF Signalled
    <2> QED
      BY <1>1, <1>2, <2>1, HandlerConverges DEF Covered
  <1>4. CASE CommittedQuietly /\ Db' = Db
    <2>1. Signalled => Signalled'
      BY <1>4 DEF CommittedQuietly, Signalled
    <2> QED
      BY <1>1, <1>2, <1>4, <2>1, HandlerConverges
  <1> QED
    BY <1>3, <1>4

(* The commits that announce nothing: a refreshed address, a device without *)
(* enabled addresses that is frozen or deleted, a device created or        *)
(* unfrozen.  None changes what refreshCache would read.                   *)
LEMMA QuietCommits ==
    ASSUME TypeOK, UNCHANGED tables,
           \/ \E a \in Address :
                 RegisterAddressTx(a) /\ ActivityType(a) \notin {"created", "enabled"}
           \/ \E d \in Device : /\ DisableDeviceTx(d) \/ DeleteDeviceTx(d)
                                /\ EnabledAddresses(d) = {}
           \/ \E d \in Device : CreateDevice(d) \/ EnableDevice(d)
    PROVE  Db' = Db
  <1>t. RegistryTypeOK
    BY DEF TypeOK
  <1>1. ASSUME \A a \in Address : addr'[a] = addr[a],
               \A a \in Address : addr[a] = "enabled" =>
                  (device'[DeviceOf[a]] = "deleted" <=> device[DeviceOf[a]] = "deleted")
        PROVE  Db' = Db
    <2>1. GetEnabledIPEntries' = GetEnabledIPEntries
      <3>1. owner' = owner
        BY DEF tables
      <3> QED
        BY <1>1, <3>1, RegistryAssumption DEF GetEnabledIPEntries
    <2>2. GetAllUserHostAccess' = GetAllUserHostAccess
      BY DEF tables, GetAllUserHostAccess, Resolve
    <2>3. GetEnabledCacheEntries' = GetEnabledCacheEntries
      BY DEF tables, GetEnabledCacheEntries, Resolve
    <2> QED
      BY <2>1, <2>2, <2>3 DEF Db
  <1>2. ASSUME NEW a \in Address, RegisterAddressTx(a),
               ActivityType(a) \notin {"created", "enabled"}
        PROVE  Db' = Db
    <2>1. addr[a] = "enabled"
      BY <1>2, <1>t DEF ActivityType, RegistryTypeOK
    <2>2. addr' = [addr EXCEPT ![a] = "enabled"] /\ device' = device
      BY <1>2 DEF RegisterAddressTx, RecordEnabled
    <2> QED
      BY <1>1, <1>t, <2>1, <2>2 DEF RegistryTypeOK
  <1>3. ASSUME NEW d \in Device, DisableDeviceTx(d) \/ DeleteDeviceTx(d),
               EnabledAddresses(d) = {}
        PROVE  Db' = Db
    <2>1. RecordDisabled({})
      BY <1>3 DEF DisableDeviceTx, DeleteDeviceTx
    <2>2. \A a \in Address : addr'[a] = addr[a]
      BY <2>1 DEF RecordDisabled
    <2>3. \A a \in Address : addr[a] = "enabled" => DeviceOf[a] # d
      BY <1>3 DEF EnabledAddresses, AddressesOf
    <2>4. \A e \in Device \ {d} : device'[e] = device[e]
      BY <1>3, <1>t DEF DisableDeviceTx, DeleteDeviceTx, RegistryTypeOK
    <2> QED
      BY <1>1, <2>2, <2>3, <2>4, RegistryAssumption
  <1>4. ASSUME NEW d \in Device, CreateDevice(d) \/ EnableDevice(d)
        PROVE  Db' = Db
    <2>1. \A a \in Address : addr'[a] = addr[a]
      BY <1>4 DEF CreateDevice, EnableDevice
    <2>2. \A e \in Device : device'[e] = "deleted" <=> device[e] = "deleted"
      BY <1>4, <1>t DEF CreateDevice, EnableDevice, RegistryTypeOK
    <2> QED
      BY <1>1, <2>1, <2>2, RegistryAssumption
  <1> QED
    BY <1>2, <1>3, <1>4

(* Device, access and policy handlers, action by action.                   *)
LEMMA HandlersConverge ==
    ASSUME IInv, TypeOK', DeviceHandlers \/ AccessHandlers \/ PolicyHandlers
    PROVE  CacheConverges' /\ AccessConverges' /\ PendingReadsConverge'
  <1>t. TypeOK
    BY DEF IInv
  <1>1. ASSUME NEW r \in Request, Committed(r)
        PROVE  CacheConverges' /\ AccessConverges' /\ PendingReadsConverge'
    BY <1>1, CommitConverges
  <1>2. ASSUME NEW r \in Request, NEW a \in Address,
               RegisterAddressActivity(r, a)
        PROVE  CacheConverges' /\ AccessConverges' /\ PendingReadsConverge'
    <2>1. CASE ActivityType(a) \in {"created", "enabled"}
      BY <1>1, <1>2, <2>1 DEF RegisterAddressActivity
    <2>2. CASE ActivityType(a) \notin {"created", "enabled"}
      <3>1. /\ CommittedQuietly /\ UNCHANGED tables
            /\ RegisterAddressTx(a)
        BY <1>2, <2>2 DEF RegisterAddressActivity
      <3>2. Db' = Db
        BY <1>t, <2>2, <3>1, QuietCommits
      <3> QED
        BY <3>1, <3>2, CommitConverges
    <2> QED
      BY <2>1, <2>2
  <1>3. ASSUME NEW r \in Request, NEW d \in Device,
               DisableDevice(r, d) \/ DeleteDevice(r, d)
        PROVE  CacheConverges' /\ AccessConverges' /\ PendingReadsConverge'
    <2>1. CASE EnabledAddresses(d) # {}
      BY <1>1, <1>3, <2>1 DEF DisableDevice, DeleteDevice
    <2>2. CASE EnabledAddresses(d) = {}
      <3>1. /\ CommittedQuietly /\ UNCHANGED tables
            /\ DisableDeviceTx(d) \/ DeleteDeviceTx(d)
        BY <1>3, <2>2 DEF DisableDevice, DeleteDevice
      <3>2. Db' = Db
        BY <1>t, <2>2, <3>1, QuietCommits
      <3> QED
        BY <3>1, <3>2, CommitConverges
    <2> QED
      BY <2>1, <2>2
  <1>4. ASSUME NEW d \in Device, CreateOrEnableDevice(d)
        PROVE  CacheConverges' /\ AccessConverges' /\ PendingReadsConverge'
    <2>1. /\ CommittedQuietly /\ UNCHANGED tables
          /\ CreateDevice(d) \/ EnableDevice(d)
      BY <1>4 DEF CreateOrEnableDevice
    <2>2. Db' = Db
      BY <1>t, <2>1, QuietCommits
    <2> QED
      BY <2>1, <2>2, CommitConverges
  \* A step that changes neither the database nor the writer.
  <1>5. ASSUME UNCHANGED <<registry, tables, writer, signal, listener, missed,
                           failed>>,
               Signalled => Signalled'
        PROVE  CacheConverges' /\ AccessConverges' /\ PendingReadsConverge'
    <2>1. Db' = Db
      BY <1>5, DbUnchanged
    <2>2. EarlySignal'
      BY <1>5 DEF EarlySignal, IInv, PendingReadsConverge, listener
    <2> QED
      BY <1>5, <2>1, <2>2, HandlerConverges
  <1>6. ASSUME NEW r \in Request, req[r] # Notify,
               \A q \in Request \ {r} : req'[q] = req[q], UNCHANGED signal
        PROVE  Signalled => Signalled'
    BY <1>6 DEF Signalled
  <1>7. ASSUME NEW r \in Request, NEW d \in Device, NEW o \in User,
               UpdateDeviceRead(r, d, o)
        PROVE  CacheConverges' /\ AccessConverges' /\ PendingReadsConverge'
    <2>1. /\ UNCHANGED <<registry, tables, writer, signal, listener, missed, failed>>
          /\ req[r] # Notify /\ \A q \in Request \ {r} : req'[q] = req[q]
      BY <1>7, <1>t DEF UpdateDeviceRead, Idle, Notify, TypeOK, ControlTypeOK
    <2> QED
      BY <1>5, <1>6, <2>1
  <1>8. ASSUME NEW r \in Request, UpdateDeviceNotFound(r)
        PROVE  CacheConverges' /\ AccessConverges' /\ PendingReadsConverge'
    <2>1. /\ UNCHANGED <<registry, tables, writer, signal, listener, missed, failed>>
          /\ req[r] # Notify /\ \A q \in Request \ {r} : req'[q] = req[q]
      BY <1>8, <1>t DEF UpdateDeviceNotFound, Notify, TypeOK, ControlTypeOK
    <2> QED
      BY <1>5, <1>6, <2>1
  <1>9. ASSUME NEW r \in Request, UpdateDeviceWrite(r)
        PROVE  CacheConverges' /\ AccessConverges' /\ PendingReadsConverge'
    <2>1. /\ UNCHANGED <<registry, user, grant, members, policy, writer, signal,
                         listener>>
          /\ req[r] # Notify /\ \A q \in Request \ {r} : req'[q] = req[q]
          /\ Unlocked
      BY <1>9, <1>t DEF UpdateDeviceWrite, Notify, TypeOK, ControlTypeOK
    <2>2. Signalled => Signalled'
      BY <1>6, <2>1
    <2>3. Db'.access = Db.access /\ Db'.policies = Db.policies
      BY <2>1 DEF Db, GetAllUserHostAccess, GetEnabledCacheEntries, Resolve
    <2>4. owner' = owner => Db'.entries = Db.entries
      BY <2>1 DEF Db, GetEnabledIPEntries, registry
    <2>5. \/ Signalled' /\ UNCHANGED <<missed, failed>>
          \/ owner' = owner /\ UNCHANGED <<missed, failed>>
          \/ missed' = missed \cup {"entries"} /\ UNCHANGED failed
          \/ failed' = failed \cup {"entries"} /\ UNCHANGED missed
      <3>1. CASE req[r].changed /\ req' = [req EXCEPT ![r] = Notify]
                   /\ UNCHANGED <<missed, failed>>
        BY <3>1, <1>t DEF Signalled, TypeOK, ControlTypeOK
      <3> QED
        BY <1>9, <3>1 DEF UpdateDeviceWrite
    <2>6. missed \subseteq missed' /\ failed \subseteq failed'
      BY <2>5
    <2>7. \A t \in Part : \/ Db'[t] = Db[t] \/ Signalled'
                          \/ t \in missed' \/ t \in failed'
      BY <2>3, <2>4, <2>5 DEF Part
    <2>8. EarlySignal'
      BY <2>1 DEF EarlySignal, Unlocked, NoWriter
    <2> QED
      BY <2>1, <2>2, <2>3, <2>6, <2>7, <2>8, HandlerConverges
  <1>10. ASSUME NEW p \in Policy, NEW n \in Net, CreatePolicy(p, n)
         PROVE  CacheConverges' /\ AccessConverges' /\ PendingReadsConverge'
    <2>1. /\ UNCHANGED <<registry, owner, user, grant, members, writer, req,
                         signal, listener, failed>>
          /\ missed' = missed \cup {"policies"} /\ Unlocked
      BY <1>10 DEF CreatePolicy
    <2>2. Db'.access = Db.access /\ Db'.entries = Db.entries
      BY <2>1 DEF Db, GetAllUserHostAccess, GetEnabledIPEntries, Resolve, registry
    <2>3. \A t \in Part : Db'[t] = Db[t] \/ t \in missed'
      BY <2>1, <2>2 DEF Part
    <2>4. EarlySignal'
      BY <2>1 DEF EarlySignal, Unlocked, NoWriter
    <2>5. Signalled => Signalled'
      BY <2>1 DEF Signalled
    <2> QED
      BY <2>1, <2>2, <2>3, <2>4, <2>5, HandlerConverges
  <1>11. CASE DeviceHandlers
    BY <1>11, <1>1, <1>2, <1>3, <1>4, <1>7, <1>8, <1>9
       DEF DeviceHandlers, DisableAddress, DisableAddresses
  <1>12. CASE AccessHandlers
    BY <1>12, <1>1
       DEF AccessHandlers, SetUserAccess, ReconcileHosts, ReconcileHostGroups
  <1>13. CASE PolicyHandlers
    BY <1>13, <1>1, <1>10
       DEF PolicyHandlers, UpdatePolicy, DeletePolicy, SetHostAccess
  <1> QED
    BY <1>11, <1>12, <1>13

(* DeleteUser: its signal precedes its commit.                             *)
LEMMA DeletionConverges ==
    ASSUME IInv, TypeOK',
           DeleteUser \/ DeleteUserRollback \/ \E u \in User : DeleteUserBegin(u)
    PROVE  CacheConverges' /\ AccessConverges' /\ PendingReadsConverge'
  <1>t. ControlTypeOK /\ EarlySignal
    BY DEF IInv, TypeOK, PendingReadsConverge, EarlySignal
  <1>1. ASSUME UNCHANGED <<registry, tables, req, listener, missed, failed>>,
               signal => signal', EarlySignal'
        PROVE  CacheConverges' /\ AccessConverges' /\ PendingReadsConverge'
    <2>1. Db' = Db
      BY <1>1, DbUnchanged
    <2>2. Signalled => Signalled'
      BY <1>1 DEF Signalled
    <2> QED
      BY <1>1, <2>1, <2>2, HandlerConverges
  <1>2. ASSUME NEW u \in User, DeleteUserBegin(u)
        PROVE  CacheConverges' /\ AccessConverges' /\ PendingReadsConverge'
    <2>1. EarlySignal'
      BY <1>2 DEF DeleteUserBegin, EarlySignal
    <2> QED
      BY <1>1, <1>2, <2>1 DEF DeleteUserBegin
  <1>3. CASE DeleteUserData
    <2>1. EarlySignal'
      BY <1>3 DEF DeleteUserData, EarlySignal
    <2> QED
      BY <1>1, <1>3, <2>1 DEF DeleteUserData
  <1>4. CASE DeleteUserDevices
    <2>1. /\ UNCHANGED <<registry, tables, req, listener, missed, failed>>
          /\ writer.step = "devices"
          /\ signal => signal'
      BY <1>4 DEF DeleteUserDevices
    <2>2. EarlySignal'
      <3>1. signal \/ pc \in {"entries", "access"} \/ "access" \in failed
        BY <1>t, <2>1 DEF EarlySignal
      <3>2. pc' = pc /\ failed' = failed
        BY <2>1 DEF listener
      <3>3. signal' \/ pc' \in {"entries", "access"} \/ "access" \in failed'
        BY <2>1, <3>1, <3>2, Zenon
      <3> QED
        BY <3>3 DEF EarlySignal
    <2> QED
      BY <1>1, <2>1, <2>2
  <1>5. CASE DeleteUserRollback
    <2>1. EarlySignal'
      BY <1>5 DEF DeleteUserRollback, EarlySignal, NoWriter
    <2> QED
      BY <1>1, <1>5, <2>1 DEF DeleteUserRollback
  <1>6. CASE DeleteUserCommit
    <2>1. /\ UNCHANGED <<owner, members, policy, req, signal, listener, failed>>
          /\ missed' = IF signal \/ writer.devs = {} THEN missed
                       ELSE missed \cup {"entries"}
          /\ writer' = NoWriter /\ writer.step = "commit"
          /\ device' = [d \in Device |->
                          IF d \in writer.devs THEN "deleted" ELSE device[d]]
          /\ RecordDisabled(UNION {EnabledAddresses(d) : d \in writer.devs})
      BY <1>6 DEF DeleteUserCommit
    <2>2. Db'.policies = Db.policies
      BY <2>1 DEF Db, GetEnabledCacheEntries, Resolve
    <2>3. writer.devs = {} => Db'.entries = Db.entries
      <3> SUFFICES ASSUME writer.devs = {} PROVE Db'.entries = Db.entries
        OBVIOUS
      <3>1. RecordDisabled({})
        BY <2>1
      <3>2. \A a \in Address : addr'[a] = addr[a]
        BY <3>1 DEF RecordDisabled
      <3>3. \A d \in Device : device'[d] = device[d]
        BY <2>1
      <3> QED
        BY <2>1, <3>2, <3>3, RegistryAssumption DEF Db, GetEnabledIPEntries
    \* The commit finds the signal pending or a refresh that has not read
    \* the grants yet, unless a read failed.
    <2>4. signal \/ pc \in {"entries", "access"} \/ "access" \in failed
      BY <1>t, <2>1 DEF EarlySignal
    <2>5. Covered("access")' \/ "access" \in failed'
      <3>1. CASE signal
        BY <2>1, <3>1 DEF Covered, Signalled
      <3>2. CASE pc \in {"entries", "access"}
        <4>1. pc' # "idle" /\ ~WasRead("access")'
          BY <2>1, <3>2 DEF WasRead, listener
        <4> QED
          BY <4>1 DEF Covered, WillSee
      <3> QED
        BY <2>1, <2>4, <3>1, <3>2
    <2>6. Signalled => Signalled'
      BY <2>1 DEF Signalled
    <2>7. EarlySignal'
      BY <2>1 DEF EarlySignal, NoWriter
    <2>8. signal => Signalled'
      BY <2>1 DEF Signalled
    \* HandlerConverges does not apply: the grants change, and may be neither
    \* announced nor missed while the refresh has yet to read them.
    <2>9. /\ pc' = pc /\ snap' = snap /\ cache' = cache /\ failed' = failed
          /\ \A t \in Part : WasRead(t)' <=> WasRead(t)
      BY <2>1 DEF listener, WasRead
    <2>10. ASSUME NEW t \in Part, t # "access"
           PROVE  Db'[t] = Db[t] \/ Signalled' \/ t \in missed'
      BY <2>1, <2>2, <2>3, <2>8, <2>10 DEF Part
    <2>11. missed \subseteq missed'
      BY <2>1
    <2>12. CacheConverges'
      <3> SUFFICES ASSUME NEW t \in Part, cache'[t] # Db'[t]
                   PROVE  Covered(t)' \/ t \in missed' \/ t \in failed'
        BY DEF CacheConverges
      <3>1. CASE t = "access"
        BY <2>5, <3>1
      <3>2. CASE t # "access" /\ Db'[t] = Db[t]
        <4>1. Covered(t) \/ t \in missed \/ t \in failed
          BY <2>9, <3>2 DEF IInv, CacheConverges
        <4>2. Covered(t) => Covered(t)'
          BY <2>6, <2>9, <3>2 DEF Covered, WillSee
        <4> QED
          BY <4>1, <4>2, <2>9, <2>11
      <3>3. CASE Signalled' \/ t \in missed'
        BY <3>3 DEF Covered
      <3> QED
        BY <2>10, <3>1, <3>2, <3>3
    <2>13. PendingReadsConverge'
      <3>1. ASSUME NEW t \in Part, pc' # "idle", WasRead(t)', snap'[t] # Db'[t]
            PROVE  Signalled' \/ t \in missed' \/ t \in failed'
        <4>1. CASE t = "access"
          <5>1. pc \notin {"entries", "access"}
            BY <3>1, <4>1, <2>9 DEF WasRead
          <5> QED
            BY <5>1, <4>1, <2>4, <2>8, <2>9
        <4>2. CASE t # "access" /\ Db'[t] = Db[t]
          BY <3>1, <4>2, <2>6, <2>9, <2>11 DEF IInv, PendingReadsConverge
        <4> QED
          BY <4>1, <4>2, <2>10
      <3> QED
        BY <3>1, <2>7 DEF PendingReadsConverge, EarlySignal
    <2> QED
      BY <2>5, <2>12, <2>13 DEF AccessConverges
  <1> QED
    BY <1>2, <1>3, <1>4, <1>5, <1>6 DEF DeleteUser

(* The listener: receiving the signal before the first read is what makes   *)
(* coalescing safe.                                                        *)
LEMMA RefreshConverges ==
    ASSUME IInv, TypeOK', Refresh \/ OnTick \/ RefreshFails
    PROVE  CacheConverges' /\ AccessConverges' /\ PendingReadsConverge'
  <1>t. ControlTypeOK /\ EarlySignal
    BY DEF IInv, TypeOK, PendingReadsConverge, EarlySignal
  <1>d. UNCHANGED <<registry, tables, writer, req>> /\ Db' = Db
    <2>1. UNCHANGED <<registry, tables, writer, req>>
      BY DEF Refresh, OnSignal, OnTick, StartRefresh, ReadEntries, ReadAccess,
             ReadPolicies, Read, Swap, RefreshFails
    <2> QED
      BY <2>1, DbUnchanged
  <1>1. CASE OnSignal \/ OnTick
    <2>1. pc' = "entries"
      BY <1>1 DEF OnSignal, OnTick, StartRefresh
    <2>2. \A t \in Part : ~WasRead(t)'
      BY <2>1 DEF WasRead, Part
    <2>3. \A t \in Part : Covered(t)'
      BY <2>1, <2>2 DEF Covered, WillSee
    <2> QED
      BY <2>1, <2>2, <2>3
         DEF CacheConverges, AccessConverges, PendingReadsConverge, Part
  <1>2. ASSUME NEW part \in Part, NEW next, Read(part, next),
               next = (CASE part = "entries" -> "access"
                         [] part = "access" -> "policies"
                         [] part = "policies" -> "swap"),
               part = "access" => Unlocked
        PROVE  CacheConverges' /\ AccessConverges' /\ PendingReadsConverge'
    <2>1. /\ pc = part /\ pc' = next /\ snap' = [snap EXCEPT ![part] = Db[part]]
          /\ missed' = missed \ {part} /\ failed' = failed \ {part}
          /\ UNCHANGED <<signal, cache>>
      BY <1>2 DEF Read
    <2>2. /\ snap'[part] = Db[part]
          /\ \A t \in Part \ {part} : snap'[t] = snap[t]
      BY <1>t, <2>1 DEF ControlTypeOK, Snapshot, Part
    <2>3. \A t \in Part \ {part} : WasRead(t)' <=> WasRead(t)
      BY <1>2, <2>1 DEF WasRead, Part
    <2>4. pc # "idle" /\ pc' # "idle"
      BY <1>2, <2>1 DEF Part
    <2>5. Signalled' <=> Signalled
      BY <1>d, <2>1 DEF Signalled
    <2>6. WillSee(part)'
      BY <1>d, <2>2, <2>4 DEF WillSee
    <2>7. \A t \in Part \ {part} : WillSee(t)' <=> WillSee(t)
      BY <1>d, <2>2, <2>3, <2>4 DEF WillSee
    <2>8. ASSUME NEW t \in Part, Covered(t) PROVE Covered(t)'
      BY <2>5, <2>6, <2>7, <2>8 DEF Covered
    <2>9. CacheConverges'
      <3> SUFFICES ASSUME NEW t \in Part, cache'[t] # Db'[t]
                   PROVE  Covered(t)' \/ t \in missed' \/ t \in failed'
        BY DEF CacheConverges
      <3>1. CASE t = part
        BY <3>1, <2>6 DEF Covered
      <3>2. CASE t # part
        <4>1. Covered(t) \/ t \in missed \/ t \in failed
          BY <1>d, <2>1 DEF IInv, CacheConverges
        <4> QED
          BY <3>2, <4>1, <2>1, <2>8
      <3> QED
        BY <3>1, <3>2
    <2>10. AccessConverges'
      <3>1. CASE part = "access"
        BY <3>1, <2>6 DEF AccessConverges, Covered
      <3>2. CASE part # "access"
        <4>1. cache'.access # Db'.access => Covered("access") \/ "access" \in failed
          BY <1>d, <2>1 DEF IInv, AccessConverges
        <4>2. Covered("access") => Covered("access")'
          BY <2>8 DEF Part
        <4> QED
          BY <3>2, <4>1, <4>2, <2>1 DEF AccessConverges
      <3> QED
        BY <3>1, <3>2
    <2>11. ASSUME NEW t \in Part, WasRead(t)', snap'[t] # Db'[t]
           PROVE  Signalled' \/ t \in missed' \/ t \in failed'
      <3>1. t # part
        BY <1>d, <2>2, <2>11
      <3>2. WasRead(t) /\ snap[t] # Db[t]
        BY <3>1, <1>d, <2>2, <2>3, <2>11
      <3> QED
        BY <3>1, <3>2, <2>1, <2>4, <2>5 DEF IInv, PendingReadsConverge
    <2>12. EarlySignal'
      <3>1. CASE part = "entries"
        BY <3>1, <1>2, <2>1 DEF EarlySignal
      <3>2. CASE part = "access"
        BY <3>2, <1>2, <1>d DEF EarlySignal, Unlocked, NoWriter
      <3>3. CASE part = "policies"
        <4>1. writer'.step \in {"devices", "commit"} => signal \/ "access" \in failed
          BY <3>3, <1>t, <1>d, <2>1 DEF EarlySignal
        <4> QED
          BY <3>3, <4>1, <2>1 DEF EarlySignal
      <3> QED
        BY <3>1, <3>2, <3>3 DEF Part
    <2> QED
      BY <2>9, <2>10, <2>11, <2>12 DEF PendingReadsConverge, EarlySignal
  <1>3. CASE ReadEntries
    BY <1>2, <1>3 DEF ReadEntries, Part
  <1>4. CASE ReadAccess
    BY <1>2, <1>4 DEF ReadAccess, Part
  <1>5. CASE ReadPolicies
    BY <1>2, <1>5 DEF ReadPolicies, Part
  <1>6. CASE Swap
    <2>1. /\ pc = "swap" /\ pc' = "idle" /\ cache' = snap
          /\ UNCHANGED <<signal, missed, failed>>
      BY <1>6 DEF Swap
    <2>2. Signalled' <=> Signalled
      BY <1>d, <2>1 DEF Signalled
    <2>3. \A t \in Part : WasRead(t)
      BY <2>1 DEF WasRead, Part
    <2>4. ASSUME NEW t \in Part, cache'[t] # Db'[t]
          PROVE  Signalled' \/ t \in missed \/ t \in failed
      BY <1>d, <2>1, <2>2, <2>3, <2>4 DEF IInv, PendingReadsConverge
    <2>5. CacheConverges'
      BY <2>1, <2>4 DEF CacheConverges, Covered
    <2>6. AccessConverges'
      <3>1. "access" \notin missed
        BY <1>t DEF ControlTypeOK
      <3>2. cache'["access"] # Db'["access"] => Signalled' \/ "access" \in failed
        BY <2>4, <3>1 DEF Part
      <3> QED
        BY <3>2, <2>1 DEF AccessConverges, Covered
    <2>7. PendingReadsConverge'
      BY <1>t, <1>d, <2>1 DEF PendingReadsConverge, EarlySignal
    <2> QED
      BY <2>5, <2>6, <2>7
  <1>7. CASE RefreshFails
    <2>1. /\ pc' = "idle" /\ UNCHANGED <<signal, cache, missed>>
          /\ failed' = failed \cup {t \in Part : cache[t] # Db[t] \/ ~Unlocked}
      BY <1>7 DEF RefreshFails
    <2>2. CacheConverges' /\ AccessConverges'
      BY <1>d, <2>1 DEF CacheConverges, AccessConverges, Part
    <2>3. PendingReadsConverge'
      BY <1>d, <2>1 DEF PendingReadsConverge, Unlocked, NoWriter, Part
    <2> QED
      BY <2>2, <2>3
  <1> QED
    BY <1>1, <1>3, <1>4, <1>5, <1>6, <1>7 DEF Refresh

(* The inductive invariant holds in every reachable state.                 *)
LEMMA Invariance == Spec => []IInv
  <1>1. Init => IInv
    <2> SUFFICES ASSUME Init PROVE IInv
      OBVIOUS
    <2>1. TypeOK
      BY TypeInit
    <2>2. Db = Empty
      <3>1. GetEnabledIPEntries = {}
        BY DEF Init, RegistryInit, GetEnabledIPEntries
      <3>2. GetAllUserHostAccess = [u \in User |-> [bypass |-> FALSE, hosts |-> {}]]
        <4>1. Resolve(NoGrant) = [bypass |-> FALSE, hosts |-> {}]
          BY DEF Resolve, NoGrant
        <4> QED
          BY <4>1 DEF Init, GetAllUserHostAccess
      <3>3. GetEnabledCacheEntries = {}
        BY DEF Init, GetEnabledCacheEntries
      <3> QED
        BY <3>1, <3>2, <3>3 DEF Db, Empty
    <2>3. cache = Db /\ pc = "idle" /\ writer = NoWriter
      BY <2>2 DEF Init
    <2> QED
      BY <2>1, <2>3
         DEF IInv, CacheConverges, AccessConverges, PendingReadsConverge, NoWriter
  <1>2. IInv /\ [Next]_vars => IInv'
    <2> SUFFICES ASSUME IInv, [Next]_vars PROVE IInv'
      OBVIOUS
    <2>t. TypeOK'
      BY TypeStep DEF IInv
    <2> SUFFICES CacheConverges' /\ AccessConverges' /\ PendingReadsConverge'
      BY <2>t DEF IInv
    <2>1. CASE DeviceHandlers \/ AccessHandlers \/ PolicyHandlers
      BY <2>1, <2>t, HandlersConverge
    <2>2. CASE DeleteUser \/ DeleteUserRollback \/ \E u \in User : DeleteUserBegin(u)
      BY <2>2, <2>t, DeletionConverges
    <2>3. CASE Refresh \/ OnTick \/ RefreshFails
      BY <2>3, <2>t, RefreshConverges
    <2>4. ASSUME NEW r \in Request, Announce(r)
          PROVE  CacheConverges' /\ AccessConverges' /\ PendingReadsConverge'
      <3>1. Signalled' /\ EarlySignal'
        BY <2>4 DEF Announce, Signalled, EarlySignal
      <3>2. Db' = Db
        BY <2>4, DbUnchanged DEF Announce
      <3> QED
        BY <2>4, <3>1, <3>2, HandlerConverges DEF Announce
    <2>5. CASE Restart
      <3>1. Db' = Db
        BY <2>5, DbUnchanged DEF Restart
      <3>2. /\ pc' = "idle" /\ writer' = NoWriter
            /\ \/ cache' = Db
               \/ cache' = Empty /\ failed' = {t \in Part : Empty[t] # Db[t]}
        BY <2>5 DEF Restart
      <3> QED
        BY <3>1, <3>2 DEF CacheConverges, AccessConverges,
                          PendingReadsConverge, NoWriter, Part
    <2>6. CASE UNCHANGED vars
      <3>1. Db' = Db
        BY <2>6, DbUnchanged DEF vars
      <3>2. Signalled => Signalled'
        BY <2>6 DEF vars, Signalled
      <3>3. EarlySignal'
        BY <2>6 DEF vars, listener, EarlySignal, IInv, PendingReadsConverge
      <3> QED
        BY <2>6, <3>1, <3>2, <3>3, HandlerConverges DEF vars
    <2> QED
      BY <2>1, <2>2, <2>3, <2>4, <2>5, <2>6 DEF Next
  <1> QED
    BY <1>1, <1>2, PTL DEF Spec

(* No interleaving of handlers with a refresh leaves a part of the cache    *)
(* stale without a refresh to come, except the changes recorded as missed  *)
(* or failed (policy/cache.go:45-86, policy/lifecycle.go:13-80).           *)
THEOREM CacheDoesConverge == Spec => []CacheConverges
  <1>1. IInv => CacheConverges
    BY DEF IInv
  <1> QED
    BY <1>1, Invariance, PTL

(* What a user may reach is never stale unnoticed without a database error, *)
(* although DeleteUser signals before it commits.                          *)
THEOREM AccessDoesConverge == Spec => []AccessConverges
  <1>1. IInv => AccessConverges
    BY DEF IInv
  <1> QED
    BY <1>1, Invariance, PTL

(* What a running refresh has read and no longer holds will be read again,  *)
(* and a DeleteUser that has spent its signal still has a refresh to come: *)
(* the fact that makes the two theorems above inductive.                   *)
THEOREM PendingReadsDoConverge == Spec => []PendingReadsConverge
  <1>1. IInv => PendingReadsConverge
    BY DEF IInv
  <1> QED
    BY <1>1, Invariance, PTL
=============================================================================
