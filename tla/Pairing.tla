------------------------------ MODULE Pairing -------------------------------
(***************************************************************************)
(* Device API keys and the pairing codes that deliver them                 *)
(* (internal/devicepairing, and the credentials of internal/device).  An   *)
(* administrator creates a code for a device; an app posts it and gets the *)
(* device's new key, once.  Claims race each other, are retried when an    *)
(* answer is lost, and meet codes that expired, were replaced, invalidated *)
(* or used, and devices that were disabled or deleted meanwhile.           *)
(*                                                                         *)
(* Codes and keys are random: each is a fresh number, and nobody guesses   *)
(* one.  Every service method is one transaction that takes the write lock *)
(* at BEGIN (RegenerateAPIKey joins ClaimPairing's), so it is one step and *)
(* racing or retried requests are steps in some order.  A request that is  *)
(* refused, or whose transaction fails, changes nothing.                   *)
(***************************************************************************)
EXTENDS Naturals, FiniteSets

CONSTANTS
    Device,     \* devices
    MaxCodes,   \* bound: pairing codes ever created
    MaxKeys     \* bound: API keys ever minted

ASSUME PairingAssumption ==
    Device # {} /\ MaxCodes \in Nat \ {0} /\ MaxKeys \in Nat \ {0}

VARIABLES
    device,     \* device[d]: "absent", "active", "disabled" or "deleted"
    key,        \* key[d]: the row of device_api_keys, 0 if there is none
    pairing,    \* pairing[c]: the row of device_pairings with code c
    codes,      \* codes created so far; a larger one is newer
    keys,       \* keys minted so far
    issued      \* history: issued[k], the device and the code (0 for an
                \* administrator) that key k was minted for

pairingVars == <<device, key, pairing, codes, keys, issued>>

Code == 1 .. MaxCodes
Key == 1 .. MaxKeys
SomeDevice == CHOOSE d \in Device : TRUE
Stored == {"none", "pending", "used", "invalidated", "replaced"}
Pairing == [dev : Device, status : Stored, time : {"before", "at", "after"}]
NoPairing == [dev |-> SomeDevice, status |-> "none", time |-> "before"]
Issue == [dev : Device, code : 0 .. MaxCodes]
NoIssue == [dev |-> SomeDevice, code |-> 0]

PairingTypeOK ==
    /\ device \in [Device -> {"absent", "active", "disabled", "deleted"}]
    /\ key \in [Device -> 0 .. MaxKeys]
    /\ pairing \in [Code -> Pairing]
    /\ codes \in 0 .. MaxCodes
    /\ keys \in 0 .. MaxKeys
    /\ issued \in [Key -> Issue]

PairingInit ==
    /\ device = [d \in Device |-> "absent"]
    /\ key = [d \in Device |-> 0]
    /\ pairing = [c \in Code |-> NoPairing]
    /\ codes = 0
    /\ keys = 0
    /\ issued = [k \in Key |-> NoIssue]

-----------------------------------------------------------------------------
(* GetDevice and GetDeviceByAPIKeyHash see devices that are not deleted.   *)
FoundDevice(d) == device[d] \in {"active", "disabled"}

(* Variant: a disabled device is not authenticated.                        *)
GetActiveDeviceByAPIKey(k) == {d \in Device : key[d] = k /\ device[d] = "active"}

GetDeviceByAPIKey(k) == {d \in Device : key[d] = k /\ FoundDevice(d)}
AuthenticateDevice(k) == GetDeviceByAPIKey(k) # {}

(* EvalStatus derives "expired" strictly after expires_at ...              *)
EvalStatus(c) ==
    IF pairing[c].status = "pending" /\ pairing[c].time = "after"
    THEN "expired" ELSE pairing[c].status

(* Variant: a claim does not look at the status of the code.               *)
ClaimableUsed(c) == pairing[c].status # "none" /\ pairing[c].time = "before"

(* Variant: a claim relies on EvalStatus alone.                            *)
ClaimableAtExpiry(c) == EvalStatus(c) = "pending"

(* ... and ClaimPairing also refuses a code exactly at expires_at.         *)
Claimable(c) == EvalStatus(c) = "pending" /\ pairing[c].time = "before"

(* GenerateAPIKey and UpsertAPIKey: the new key replaces the old one.      *)
Mint(d, c) ==
    /\ keys < MaxKeys
    /\ keys' = keys + 1
    /\ key' = [key EXCEPT ![d] = keys + 1]
    /\ issued' = [issued EXCEPT ![keys + 1] = [dev |-> d, code |-> c]]

-----------------------------------------------------------------------------
(* The key, if one is asked for, is minted in the transaction that inserts *)
(* the device.                                                             *)
CreateDeviceWithOptions(d, generateAPIKey) ==
    /\ device[d] = "absent"
    /\ device' = [device EXCEPT ![d] = "active"]
    /\ IF generateAPIKey THEN Mint(d, 0) ELSE UNCHANGED <<key, keys, issued>>
    /\ UNCHANGED <<pairing, codes>>

(* DisableDevice and EnableDevice deliberately keep the key.               *)
SetDeviceDisabled(d, disabled) ==
    /\ FoundDevice(d)
    /\ device' = [device EXCEPT ![d] = IF disabled THEN "disabled" ELSE "active"]
    /\ UNCHANGED <<key, pairing, codes, keys, issued>>

(* Variant: the key outlives its device.                                   *)
DeleteDevicesKeepKey(D) ==
    /\ \A d \in D : FoundDevice(d)
    /\ device' = [d \in Device |-> IF d \in D THEN "deleted" ELSE device[d]]
    /\ UNCHANGED <<key, pairing, codes, keys, issued>>

(* DeleteDevice, and OnUserEvent with the devices of a deleted user that   *)
(* it manages to delete.  The pairings of a device are left alone.         *)
DeleteDevices(D) ==
    /\ \A d \in D : FoundDevice(d)
    /\ device' = [d \in Device |-> IF d \in D THEN "deleted" ELSE device[d]]
    /\ key' = [d \in Device |-> IF d \in D THEN 0 ELSE key[d]]
    /\ UNCHANGED <<pairing, codes, keys, issued>>

RegenerateAPIKey(d) ==
    /\ FoundDevice(d)
    /\ Mint(d, 0)
    /\ UNCHANGED <<device, pairing, codes>>

DeleteAPIKey(d) ==
    /\ FoundDevice(d)
    /\ key[d] # 0
    /\ key' = [key EXCEPT ![d] = 0]
    /\ UNCHANGED <<device, pairing, codes, keys, issued>>

-----------------------------------------------------------------------------
(* Variant: the pending codes of the device stay pending.                  *)
CreatePairingKeepOthers(d) ==
    /\ device[d] # "absent"
    /\ codes < MaxCodes
    /\ codes' = codes + 1
    /\ pairing' = [pairing EXCEPT ![codes + 1] =
                     [dev |-> d, status |-> "pending", time |-> "before"]]
    /\ UNCHANGED <<device, key, keys, issued>>

(* The foreign key asks for the row of the device, which a deleted device  *)
(* keeps: a code can be created for it.                                    *)
CreatePairing(d) ==
    /\ device[d] # "absent"
    /\ codes < MaxCodes
    /\ codes' = codes + 1
    /\ pairing' =
         [c \in Code |->
            IF c = codes + 1
            THEN [dev |-> d, status |-> "pending", time |-> "before"]
            ELSE IF pairing[c].dev = d /\ pairing[c].status = "pending"
            THEN [pairing[c] EXCEPT !.status = "replaced"]
            ELSE pairing[c]]
    /\ UNCHANGED <<device, key, keys, issued>>

InvalidatePairing(c) ==
    /\ pairing[c].status = "pending"
    /\ pairing' = [pairing EXCEPT ![c].status = "invalidated"]
    /\ UNCHANGED <<device, key, codes, keys, issued>>

(* Variant: the expiry is stored.                                          *)
TickStored(c) ==
    /\ pairing[c].status = "pending"
    /\ pairing' = [pairing EXCEPT ![c].status = "expired"]
    /\ UNCHANGED <<device, key, codes, keys, issued>>

(* The clock reaches, then passes, expires_at, which matters to pending    *)
(* codes only.                                                             *)
Tick(c) ==
    /\ pairing[c].status = "pending"
    /\ \/ pairing[c].time = "before" /\ pairing' = [pairing EXCEPT ![c].time = "at"]
       \/ pairing[c].time = "at" /\ pairing' = [pairing EXCEPT ![c].time = "after"]
    /\ UNCHANGED <<device, key, codes, keys, issued>>

(* The code is looked up and judged, the key replaced and the code marked  *)
(* as used, by an UPDATE that does not look at the status again.  With the *)
(* device gone the transaction rolls back and the code stays pending.      *)
ClaimPairing(c) ==
    /\ Claimable(c)
    /\ FoundDevice(pairing[c].dev)
    /\ Mint(pairing[c].dev, c)
    /\ pairing' = [pairing EXCEPT ![c].status = "used"]
    /\ UNCHANGED <<device, codes>>

-----------------------------------------------------------------------------
PairingNext ==
    \/ \E d \in Device :
          \/ \E b \in BOOLEAN : CreateDeviceWithOptions(d, b)
          \/ \E b \in BOOLEAN : SetDeviceDisabled(d, b)
          \/ RegenerateAPIKey(d)
          \/ DeleteAPIKey(d)
          \/ CreatePairing(d)
    \/ \E D \in SUBSET Device : DeleteDevices(D)
    \/ \E c \in Code : InvalidatePairing(c) \/ Tick(c) \/ ClaimPairing(c)

PairingSpec == PairingInit /\ [][PairingNext]_pairingVars

-----------------------------------------------------------------------------
(* One code, one key: however many clients post a code, and however often  *)
(* they retry, devicepairing.Service.ClaimPairing mints one key for it,    *)
(* and only for the device the code was created for.                       *)
OneKeyPerCode ==
    \A j, k \in 1 .. keys :
        issued[k].code # 0 =>
            /\ issued[k].dev = pairing[issued[k].code].dev
            /\ issued[j].code = issued[k].code => j = k

(* The key row of a device (UpsertAPIKey) is the last key that was minted  *)
(* for it by anyone, and a deleted device has none: no claim that was in   *)
(* flight, and no code left pending, brings one back.                      *)
OnlyTheLastKeyOpens ==
    \A d \in Device : key[d] # 0 =>
        /\ FoundDevice(d)
        /\ key[d] \in 1 .. keys
        /\ issued[key[d]].dev = d
        /\ \A k \in key[d] + 1 .. keys : issued[k].dev # d

(* The pairing the device list shows: the newest one.                      *)
PairingsForDevices(d) ==
    {c \in 1 .. codes : /\ pairing[c].dev = d
                        /\ \A x \in c + 1 .. codes : pairing[x].dev # d}

(* If a code of a device can still be claimed, it is the one that          *)
(* PairingsForDevices shows: no older code works behind the                *)
(* administrator's back.                                                   *)
ClaimableCodesAreShown ==
    \A c \in 1 .. codes :
        pairing[c].status = "pending" => c \in PairingsForDevices(pairing[c].dev)

(* A key that Authenticate refuses is refused from then on: keys that were *)
(* replaced, deleted or lost their device do not come back.                *)
RevokedForGood ==
    [][\A k \in 1 .. keys :
          ~AuthenticateDevice(k) => ~AuthenticateDevice(k)']_pairingVars

(* The refinement mapping: a code is open while it is pending and before   *)
(* its expiry.                                                             *)
CodeState ==
    [c \in Code |->
       IF pairing[c].status = "none" THEN "new"
       ELSE IF pairing[c].status = "pending" /\ pairing[c].time = "before"
       THEN "open" ELSE "closed"]

Target == [c \in Code |-> pairing[c].dev]
Redeemed == {x \in Code \X Key : x[2] <= keys /\ issued[x[2]].code = x[1]}
Gone == {d \in Device : device[d] = "deleted"}

Promise == INSTANCE Credentials WITH
    NoKey <- 0, code <- CodeState, target <- Target, cred <- key,
    spent <- 1 .. keys, redeemed <- Redeemed, gone <- Gone

(* Service.ClaimPairing, RegenerateAPIKey, DeleteAPIKey and DeleteDevice   *)
(* together keep the promise of Credentials.                               *)
KeepsThePromise == Promise!Spec
=============================================================================
