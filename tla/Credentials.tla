---------------------------- MODULE Credentials -----------------------------
(***************************************************************************)
(* What API keys and pairing codes promise to whoever administers devices: *)
(* a device has at most one key that opens the API; a key that stopped     *)
(* working never works again; a code is redeemed at most once, is replaced *)
(* by the next one offered for its device, and yields nothing for a device *)
(* that is gone.  Pairing is shown to implement this.                      *)
(***************************************************************************)
EXTENDS Naturals

CONSTANTS
    Device,    \* devices
    Code,      \* pairing codes
    Key,       \* API keys
    NoKey      \* the value that is no key

VARIABLES
    code,      \* code[c]: "new", "open" or "closed"
    target,    \* target[c]: the device code c was offered for
    cred,      \* cred[d]: the key that opens the API for d, or NoKey
    spent,     \* the keys that have been issued
    redeemed,  \* <<c, k>>: code c was exchanged for key k
    gone       \* the devices that were deleted

vars == <<code, target, cred, spent, redeemed, gone>>

Init ==
    /\ code = [c \in Code |-> "new"]
    /\ target \in [Code -> Device]
    /\ cred = [d \in Device |-> NoKey]
    /\ spent = {}
    /\ redeemed = {}
    /\ gone = {}

Offer(c, d) ==
    /\ code[c] = "new"
    /\ target' = [target EXCEPT ![c] = d]
    /\ code' = [x \in Code |->
                  IF x = c THEN "open"
                  ELSE IF code[x] = "open" /\ target[x] = d THEN "closed"
                  ELSE code[x]]
    /\ UNCHANGED <<cred, spent, redeemed, gone>>

Close(c) ==
    /\ code[c] = "open"
    /\ code' = [code EXCEPT ![c] = "closed"]
    /\ UNCHANGED <<target, cred, spent, redeemed, gone>>

Issue(d, k) ==
    /\ d \notin gone
    /\ k \notin spent
    /\ cred' = [cred EXCEPT ![d] = k]
    /\ spent' = spent \cup {k}
    /\ UNCHANGED gone

IssueDirectly(d, k) == Issue(d, k) /\ UNCHANGED <<code, target, redeemed>>

Redeem(c, k) ==
    /\ code[c] = "open"
    /\ code' = [code EXCEPT ![c] = "closed"]
    /\ redeemed' = redeemed \cup {<<c, k>>}
    /\ Issue(target[c], k)
    /\ UNCHANGED target

Revoke(d) ==
    /\ cred' = [cred EXCEPT ![d] = NoKey]
    /\ UNCHANGED <<code, target, spent, redeemed, gone>>

Remove(D) ==
    /\ gone' = gone \cup D
    /\ cred' = [d \in Device |-> IF d \in D THEN NoKey ELSE cred[d]]
    /\ UNCHANGED <<code, target, spent, redeemed>>

Next ==
    \/ \E c \in Code : Close(c) \/ \E d \in Device : Offer(c, d)
    \/ \E c \in Code, k \in Key : Redeem(c, k)
    \/ \E d \in Device : Revoke(d) \/ \E k \in Key : IssueDirectly(d, k)
    \/ \E D \in SUBSET Device : Remove(D)

Spec == Init /\ [][Next]_vars
=============================================================================
