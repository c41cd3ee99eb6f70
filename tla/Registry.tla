------------------------------ MODULE Registry ------------------------------
(***************************************************************************)
(* The device registry (internal/device): which devices exist and which of *)
(* their addresses are enabled.  Every change is one SQLite transaction    *)
(* opened with BEGIN IMMEDIATE (internal/database), so every change is one *)
(* step here.  What a handler does after its transaction commits           *)
(* (notifying the address observers) belongs to the modules that extend    *)
(* this one, each of which models one observer.                            *)
(*                                                                         *)
(* An element of Address stands for one (device_id, ip) pair: the unique   *)
(* index idx_addresses_device_id_ip makes the two the same thing.          *)
(***************************************************************************)
EXTENDS Naturals, FiniteSets

CONSTANTS
    Device,     \* device ids
    Address,    \* (device, ip) pairs
    DeviceOf    \* the device an address belongs to

ASSUME RegistryAssumption ==
    /\ IsFiniteSet(Address)
    /\ DeviceOf \in [Address -> Device]

VARIABLES
    device,     \* device[d]: "absent", "active", "disabled" or "deleted"
    addr,       \* addr[a]: "absent", "enabled" or "disabled"
    older       \* pairs <<a, b>> of enabled addresses of one device whose
                \* updated_at columns satisfy a < b

registry == <<device, addr, older>>

RegistryTypeOK ==
    /\ device \in [Device -> {"absent", "active", "disabled", "deleted"}]
    /\ addr \in [Address -> {"absent", "enabled", "disabled"}]
    /\ older \in SUBSET (Address \X Address)

RegistryInit ==
    /\ device = [d \in Device |-> "absent"]
    /\ addr = [a \in Address |-> "absent"]
    /\ older = {}

AddressesOf(d) == {a \in Address : DeviceOf[a] = d}

(* Repository.GetEnabledAddressesForDevice; its ORDER BY is "older".       *)
EnabledAddresses(d) == {a \in AddressesOf(d) : addr[a] = "enabled"}

(* Variant: the name of the event ends up in the state of the address.     *)
RecordEnabledByName(a) ==
    /\ addr' = [addr EXCEPT ![a] = "refreshed"]
    /\ UNCHANGED older

(***************************************************************************)
(* recordAddressEvent sets is_enabled and updated_at whatever they were.   *)
(* updated_at is only ever compared between enabled addresses of a device, *)
(* so a disabled address leaves the order.                                 *)
(***************************************************************************)
RecordEnabled(a) ==
    /\ addr' = [addr EXCEPT ![a] = "enabled"]
    /\ older' = {p \in older : p[1] # a /\ p[2] # a}
                  \cup {<<x, a>> : x \in EnabledAddresses(DeviceOf[a]) \ {a}}

RecordDisabled(S) ==
    /\ addr' = [a \in Address |-> IF a \in S THEN "disabled" ELSE addr[a]]
    /\ older' = {p \in older : p[1] \notin S /\ p[2] \notin S}

-----------------------------------------------------------------------------
(* Service.CreateDeviceWithOptions: ids are never reused.                  *)
CreateDevice(d) ==
    /\ device[d] = "absent"
    /\ device' = [device EXCEPT ![d] = "active"]
    /\ UNCHANGED <<addr, older>>

(* Variant: the device is not looked at.                                   *)
RegisterAddressTxUnfrozen(a) ==
    /\ RecordEnabled(a)
    /\ UNCHANGED device

(***************************************************************************)
(* The transaction of Service.RegisterAddressActivity.  IsDeviceDisabled   *)
(* is read inside it, and fails for a missing or deleted device.           *)
(***************************************************************************)
RegisterAddressTx(a) ==
    /\ device[DeviceOf[a]] = "active"
    /\ RecordEnabled(a)
    /\ UNCHANGED device

(* The type of the event RegisterAddressActivity announces afterwards.     *)
ActivityType(a) ==
    CASE addr[a] = "absent"   -> "created"
      [] addr[a] = "disabled" -> "enabled"
      [] addr[a] = "enabled"  -> "refreshed"

(* The transaction of Service.DisableAddress, the web UI's toggle.         *)
DisableAddressTx(a) ==
    /\ device[DeviceOf[a]] \in {"active", "disabled"}
    /\ addr[a] # "absent"
    /\ RecordDisabled({a})
    /\ UNCHANGED device

(* Repository.DisableAddresses, used by the expiry and the limit jobs.     *)
DisableAddressesTx(S) ==
    /\ S # {}
    /\ RecordDisabled(S)
    /\ UNCHANGED device

(* The transaction of Service.DisableDevice.                               *)
DisableDeviceTx(d) ==
    /\ device[d] \in {"active", "disabled"}
    /\ RecordDisabled(EnabledAddresses(d))
    /\ device' = [device EXCEPT ![d] = "disabled"]

(* Service.EnableDevice clears disabled_at and re-enables no address.      *)
EnableDevice(d) ==
    /\ device[d] \in {"active", "disabled"}
    /\ device' = [device EXCEPT ![d] = "active"]
    /\ UNCHANGED <<addr, older>>

(* The transaction of Service.DeleteDevice, a soft delete.                 *)
DeleteDeviceTx(d) ==
    /\ device[d] \in {"active", "disabled"}
    /\ device' = [device EXCEPT ![d] = "deleted"]
    /\ RecordDisabled(EnabledAddresses(d))

-----------------------------------------------------------------------------
(***************************************************************************)
(* A disabled or deleted device has no enabled address: DisableDevice is   *)
(* documented as a freeze "which blocks address enable/refresh until the   *)
(* device is re-enabled" (device/service.go:218-222), whatever heartbeats, *)
(* toggles and background jobs run next to it.                             *)
(***************************************************************************)
FrozenDeviceHasNoAccess ==
    \A a \in Address : addr[a] = "enabled" => device[DeviceOf[a]] = "active"
=============================================================================
