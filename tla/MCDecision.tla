----------------------------- MODULE MCDecision -----------------------------
(***************************************************************************)
(* Instances of Decision.  Addresses have up to two bits; "mapped" is the  *)
(* IPv4-mapped spelling of address 0, "H1" another spelling of host h1 and *)
(* "bad" is not an address.                                                *)
(***************************************************************************)
EXTENDS Decision, TLC

CONSTANTS h1, u1, u2

MCCanon ==
    [t \in Text |-> CASE t \in {"zero", "mapped"} -> 0
                      [] t \in {"one", "mapped one"} -> 1
                      [] t = "three" -> 3
                      [] t = "bad" -> Invalid]

Asking(kind, token, early, peer, realIP, host) ==
    [kind |-> kind, token |-> token, early |-> early, peer |-> peer,
     realIP |-> realIP, host |-> host]

(* What the trusted proxy "one" vouches for, for two hosts; for one of     *)
(* them, what it cannot vouch for, what other peers claim, the refusals    *)
(* and two simulations.                                                    *)
Requests ==
    {Asking("verify", "right", FALSE, "one", t, h) :
        t \in {"zero", "three"}, h \in RawHost}
    \cup {Asking("verify", "right", FALSE, "one", t, "H1") :
             t \in {"mapped", "one", "bad", "none"}}
    \cup {Asking("verify", "right", FALSE, p, "zero", "H1") :
             p \in {"three", "mapped one", "bad"}}
    \cup {Asking("verify", t, FALSE, "one", "zero", "H1") :
             t \in {"wrong", "missing"}}
    \cup {Asking("verify", "right", TRUE, "one", "zero", "H1")}
    \cup {Asking("simulate", "missing", FALSE, t, "none", "H1") :
             t \in {"mapped", "bad"}}

MCNormaliseHost == [h \in RawHost |-> IF h \in {"h1", "H1"} THEN h1 ELSE h]

CIDR(id, mapped, base, bits, bypass, hosts) ==
    [id |-> id, mapped |-> mapped, base |-> base, bits |-> bits,
     bypass |-> bypass, hosts |-> hosts]

(* Overlapping prefixes, one of them in the mapped spelling and with host  *)
(* bits set, and two that stand for the same range.                        *)
Overlapping ==
    {CIDR(1, FALSE, 0, 0, TRUE, {}), CIDR(2, FALSE, 0, 1, FALSE, {h1}),
     CIDR(3, TRUE, 1, 97, FALSE, {}), CIDR(4, FALSE, 3, 2, FALSE, {h1})}

Symmetry == Permutations(User)
=============================================================================
