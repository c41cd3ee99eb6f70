------------------------------ MODULE Decision ------------------------------
(***************************************************************************)
(* How the policy cache is built and how verify-ip is answered from it     *)
(* (internal/policy: buildIPSet, buildNetworkPolicyCache, Decide), from    *)
(* the request's headers to the response and the event that the access log *)
(* receives.  The loop of buildIPSet is one action per entry; publishing a *)
(* rebuilt cache and the two reads of a decision are steps that            *)
(* interleave.                                                             *)
(*                                                                         *)
(* An address is a number of Width bits, so that a CIDR prefix is a range. *)
(* The texts that addresses and hosts are written with are opaque: Canon   *)
(* and NormaliseHost say what parsing and normalising make of them.        *)
(***************************************************************************)
EXTENDS Naturals, Sequences, FiniteSets, Functions

CONSTANTS
    User,           \* user ids
    Host,           \* normalised FQDNs
    Width,          \* bits of an address
    Text,           \* texts of addresses
    Stored,         \* the texts that the rows of addresses hold
    Canon,          \* Canon[t]: netip.ParseAddr(t).Unmap(), or Invalid
    Mapped,         \* the texts that are IPv4-mapped IPv6 addresses
    RawHost,        \* texts of requested hosts
    NormaliseHost,  \* NormaliseHost[h]: the normalised host
    Request,        \* the requests that may come in
    TrustedProxy,   \* the trusted proxy's address, or Invalid for none
    CIDREntry,      \* the enabled network policies a refresh may read
    MaxEntries,     \* bound: entries per address
    MaxPolicies,    \* bound: network policies per refresh
    MaxRefreshes,   \* bound: refreshes
    Invalid

IP == 0 .. (2^Width - 1)

ASSUME DecisionAssumption ==
    /\ Width \in Nat
    /\ Invalid \notin IP
    /\ Canon \in [Text -> IP \cup {Invalid}]
    /\ Mapped \subseteq Text /\ Stored \subseteq Text
    /\ DOMAIN NormaliseHost = RawHost
    /\ \A q \in Request :
         /\ q.kind \in {"verify", "simulate"}
         /\ q.token \in {"missing", "wrong", "right"} /\ q.early \in BOOLEAN
         /\ q.peer \in Text /\ q.realIP \in Text \cup {"none"}
         /\ q.host \in RawHost
    /\ TrustedProxy \in IP \cup {Invalid}
    /\ \A c \in CIDREntry : c.mapped \in BOOLEAN /\ c.bits \in Nat
    /\ MaxEntries \in Nat /\ MaxPolicies \in Nat /\ MaxRefreshes \in Nat
    /\ IsFiniteSet(Host)

VARIABLES
    building,          \* refreshCache is inside buildIPSet
    access,            \* accessByUser and hostSetByUser
    byIP,              \* the accumulators, for the addresses met so far
    refreshes,         \* refreshes started so far
    ipSet,             \* Service.ipSet
    networkPolicies,   \* Service.networkPolicies
    check              \* one request on its way through Decide, or NoCheck

vars == <<building, access, byIP, refreshes, ipSet, networkPolicies, check>>

Access == [bypass : BOOLEAN, hosts : SUBSET Host]
NoCheck == [pc |-> "idle"]

Init ==
    /\ building = FALSE
    /\ access = [u \in User |-> [bypass |-> FALSE, hosts |-> {}]]
    /\ byIP = <<>>
    /\ refreshes = 0
    /\ ipSet = <<>>
    /\ networkPolicies = <<>>
    /\ check = NoCheck

-----------------------------------------------------------------------------
(* buildIPSet.                                                             *)
NewAccumulator ==
    [contributors |-> <<>>, allBypass |-> TRUE, restricted |-> FALSE,
     hosts |-> {}, initialLen |-> 0]

(* The loop body: the first restricted user sets the hosts, each later one *)
(* intersects them, a user who bypasses the list leaves them alone.        *)
Accumulate(acc, u) ==
    LET ua == access[u]
        first == ~ua.bypass /\ ~acc.restricted
    IN [contributors |-> Append(acc.contributors,
                           [user |-> u, bypass |-> ua.bypass, hosts |-> ua.hosts]),
        allBypass |-> acc.allBypass /\ ua.bypass,
        restricted |-> acc.restricted \/ ~ua.bypass,
        hosts |-> IF ua.bypass THEN acc.hosts
                  ELSE IF first THEN ua.hosts ELSE acc.hosts \cap ua.hosts,
        initialLen |-> IF first THEN Cardinality(ua.hosts) ELSE acc.initialLen]

(* A refresh has read the entries and the host access of every user.       *)
StartRefresh ==
    /\ ~building
    /\ refreshes < MaxRefreshes
    /\ refreshes' = refreshes + 1
    /\ building' = TRUE
    /\ byIP' = <<>>
    /\ access' \in [User -> Access]
    /\ UNCHANGED <<ipSet, networkPolicies, check>>

(* A text that is no address is skipped.                                   *)
AddEntry(t, u) ==
    LET ip == Canon[t]
        acc == IF ip \in DOMAIN byIP THEN byIP[ip] ELSE NewAccumulator
    IN
    /\ building
    /\ ip # Invalid
    /\ Len(acc.contributors) < MaxEntries
    /\ byIP' = [x \in DOMAIN byIP \cup {ip} |->
                  IF x = ip THEN Accumulate(acc, u) ELSE byIP[x]]
    /\ UNCHANGED <<building, access, refreshes, ipSet, networkPolicies, check>>

Finish(acc) ==
    [contributors |-> acc.contributors,
     bypass |-> acc.allBypass,
     hosts |-> acc.hosts,
     intersected |-> acc.restricted /\ Cardinality(acc.hosts) < acc.initialLen]

(***************************************************************************)
(* buildNetworkPolicyCache.  An IPv4-mapped IPv6 prefix loses its 96 bits. *)
(* Two texts may then stand for the same range, and the sort leaves        *)
(* prefixes of one length in any order.                                    *)
(***************************************************************************)
Prefix(c) ==
    LET bits == IF c.mapped THEN c.bits - 96 ELSE c.bits
        size == 2^(Width - bits)
    IN [bits |-> bits, base |-> (c.base \div size) * size]

Cached(c) == [id |-> c.id, prefix |-> Prefix(c), bypass |-> c.bypass,
              hosts |-> c.hosts]

(* Variant: the widest prefix comes first.                                 *)
LeastSpecificFirst(s) ==
    \A i, j \in DOMAIN s : i < j => s[i].prefix.bits <= s[j].prefix.bits

MostSpecificFirst(s) ==
    \A i, j \in DOMAIN s : i < j => s[i].prefix.bits >= s[j].prefix.bits

BuiltPolicies(C) ==
    LET P == {Cached(c) : c \in C} IN
    {s \in [1 .. Cardinality(P) -> P] :
        {s[i] : i \in DOMAIN s} = P /\ MostSpecificFirst(s)}

Contains(prefix, ip) ==
    ip \in prefix.base .. (prefix.base + 2^(Width - prefix.bits) - 1)

-----------------------------------------------------------------------------
(***************************************************************************)
(* The reference: which answers a snapshot justifies.  "device" and        *)
(* "policy" allow; "ip" (not registered) and "host" (not allowed) deny.    *)
(* A shared address allows what every user behind it may reach alone; a    *)
(* network policy of the longest matching prefix decides for the others.   *)
(***************************************************************************)
Permits(c, host) == c.bypass \/ host \in c.hosts

Justified(set, policies, ip, host) ==
    LET match == {i \in DOMAIN policies : Contains(policies[i].prefix, ip)}
        longest == {i \in match : \A j \in match :
                      policies[j].prefix.bits <= policies[i].prefix.bits}
    IN CASE ip \in {Invalid, TrustedProxy} -> {"ip"}
         [] ip \notin {Invalid, TrustedProxy} /\ ip \in DOMAIN set ->
              {IF \A i \in DOMAIN set[ip].contributors :
                      Permits(set[ip].contributors[i], host)
                 THEN "device" ELSE "host"}
         [] OTHER ->
              IF match = {} THEN {"ip"}
              ELSE {IF Permits(policies[i], host) THEN "policy" ELSE "host" :
                      i \in longest}

-----------------------------------------------------------------------------
(***************************************************************************)
(* The audit view pivots the published snapshot by user: the cell of a     *)
(* user at an address shows the hosts left to the user there and the ones  *)
(* that the other users behind the address have taken away.                *)
(***************************************************************************)
buildIPIndex(u) ==
    {ip \in DOMAIN ipSet :
        \E i \in DOMAIN ipSet[ip].contributors : ipSet[ip].contributors[i].user = u}

Bucket(u, ip) ==
    LET mine == {i \in DOMAIN ipSet[ip].contributors :
                   ipSet[ip].contributors[i].user = u}
    IN  ipSet[ip].contributors[CHOOSE i \in mine : \A j \in mine : i <= j]

(* Variant: the hosts of the user, whoever shares the address.             *)
buildUserIPsAlone(u, ip) ==
    [bypass |-> ipSet[ip].bypass, trimmed |-> {},
     effective |-> IF Bucket(u, ip).bypass THEN {} ELSE Bucket(u, ip).hosts]

buildUserIPs(u, ip) ==
    LET c == Bucket(u, ip)
        open == c.bypass \/ ipSet[ip].bypass
    IN  [bypass |-> ipSet[ip].bypass,
         effective |-> IF open THEN {} ELSE c.hosts \cap ipSet[ip].hosts,
         trimmed |-> IF open THEN {} ELSE c.hosts \ ipSet[ip].hosts]

-----------------------------------------------------------------------------
(* Variant: X-Real-IP is believed whoever sends it.                        *)
ClientIPFromAnyone(q) ==
    IF q.realIP # "none" /\ Canon[q.realIP] # Invalid
      THEN Canon[q.realIP] ELSE Canon[q.peer]

(***************************************************************************)
(* The address a request is judged by.  X-Real-IP counts only if the peer  *)
(* is the trusted proxy; the peer's address is compared as it is written,  *)
(* before the unmapping.                                                   *)
(***************************************************************************)
ClientIPFromRealIP(q) ==
    IF /\ TrustedProxy # Invalid
       /\ Canon[q.peer] = TrustedProxy /\ q.peer \notin Mapped
       /\ q.realIP # "none"
    THEN IF Canon[q.realIP] # Invalid THEN Canon[q.realIP] ELSE Canon[q.peer]
    ELSE Canon[q.peer]

(* SimulatePolicyAccess is given the address instead.                      *)
ClientIP(q) ==
    IF q.kind = "simulate" THEN Canon[q.peer] ELSE ClientIPFromRealIP(q)

(* refreshCache replaces both caches under the write lock.                 *)
Publish ==
    /\ building
    /\ building' = FALSE
    /\ byIP' = <<>>
    /\ ipSet' = [ip \in DOMAIN byIP |-> Finish(byIP[ip])]
    /\ \E C \in {X \in SUBSET CIDREntry : Cardinality(X) <= MaxPolicies} :
          networkPolicies' \in BuiltPolicies(C)
    /\ check' = IF check.pc # "policies" THEN check
                ELSE [check EXCEPT !.torn = TRUE,
                        !.justified = @ \cup
                          Justified(ipSet', networkPolicies', ClientIP(check.req),
                                    NormaliseHost[check.req.host])]
    /\ UNCHANGED <<access, refreshes>>

Allowing == {"device", "policy"}
NoEvent == [outcome |-> "none"]

(* The event names the users behind the address if their entry decided,    *)
(* and nobody if a network policy or no rule at all did.                   *)
NewDecisionEvent(result, users) ==
    [outcome |-> IF result \in Allowing THEN "allow" ELSE "deny",
     reason |-> result, users |-> users]

(* A request that is refused before Decide is asked.                       *)
Refused(q, status, event) ==
    [pc |-> "done", req |-> q, status |-> status, event |-> event,
     result |-> "ip", torn |-> FALSE, justified |-> {"ip"}]

(* HandleForwardAuthIP and VerifyAccess up to Decide.  Early data, a       *)
(* missing token and an address that does not parse leave no event.        *)
HandleForwardAuthIP(q) ==
    /\ check = NoCheck
    /\ q.kind = "verify"
    /\ \/ q.early /\ check' = Refused(q, 425, NoEvent)
       \/ /\ ~q.early
          /\ q.token = "missing" \/ ClientIP(q) = Invalid
          /\ check' = Refused(q, 403, NoEvent)
       \/ /\ ~q.early /\ ClientIP(q) # Invalid
          /\ q.token = "wrong"
          /\ check' = Refused(q, 403, NewDecisionEvent("token", {}))
    /\ UNCHANGED <<building, access, byIP, refreshes, ipSet, networkPolicies>>

(***************************************************************************)
(* Decide.  lookupIP reads ipSet under the read lock and releases it; the  *)
(* policies are read under the lock taken a second time.  "justified"      *)
(* and "torn" are history: the answers that the snapshots current during   *)
(* the call justify, and whether a new one was published meanwhile.        *)
(* VerifyAccess tells the observers and the handler answers.               *)
(***************************************************************************)
Answer(q, result, users, torn, justified) ==
    LET verify == q.kind = "verify" IN
    [pc |-> "done", req |-> q, result |-> result,
     status |-> IF verify /\ result \notin Allowing THEN 403 ELSE 200,
     event |-> IF verify THEN NewDecisionEvent(result, users) ELSE NoEvent,
     torn |-> torn, justified |-> justified]

Asked(q) ==
    \/ q.kind = "simulate"
    \/ ~q.early /\ q.token = "right" /\ ClientIP(q) # Invalid

LookupIP(q) ==
    LET ip == ClientIP(q)
        host == NormaliseHost[q.host]
        justified == Justified(ipSet, networkPolicies, ip, host)
    IN
    /\ check = NoCheck
    /\ Asked(q)
    /\ \/ /\ ip = Invalid \/ ip = TrustedProxy
          /\ check' = Answer(q, "ip", {}, FALSE, justified)
       \/ /\ ip \notin {Invalid, TrustedProxy}
          /\ ip \in DOMAIN ipSet
          /\ check' = Answer(q, IF ipSet[ip].bypass \/ host \in ipSet[ip].hosts
                                 THEN "device" ELSE "host",
                             {c.user : c \in Range(ipSet[ip].contributors)},
                             FALSE, justified)
       \/ /\ ip \notin {Invalid, TrustedProxy}
          /\ ip \notin DOMAIN ipSet
          /\ check' = [pc |-> "policies", req |-> q, torn |-> FALSE,
                       justified |-> justified]
    /\ UNCHANGED <<building, access, byIP, refreshes, ipSet, networkPolicies>>

(* The loop over the policies stops at the first prefix that matches.      *)
MatchPolicies ==
    /\ check.pc = "policies"
    /\ LET M == {i \in DOMAIN networkPolicies :
                   Contains(networkPolicies[i].prefix, ClientIP(check.req))}
           result ==
             IF M = {} THEN "ip"
             ELSE LET first == CHOOSE i \in M : \A j \in M : i <= j
                  IN IF Permits(networkPolicies[first],
                                NormaliseHost[check.req.host])
                       THEN "policy" ELSE "host"
       IN check' = Answer(check.req, result, {}, check.torn, check.justified)
    /\ UNCHANGED <<building, access, byIP, refreshes, ipSet, networkPolicies>>

Return ==
    /\ check.pc = "done"
    /\ check' = NoCheck
    /\ UNCHANGED <<building, access, byIP, refreshes, ipSet, networkPolicies>>

Next ==
    \/ StartRefresh
    \/ \E t \in Stored, u \in User : AddEntry(t, u)
    \/ Publish
    \/ \E q \in Request : HandleForwardAuthIP(q) \/ LookupIP(q)
    \/ MatchPolicies
    \/ Return

Spec == Init /\ [][Next]_vars

-----------------------------------------------------------------------------
(***************************************************************************)
(* Decide answers what the snapshot it worked on justifies: at an address  *)
(* shared by several users deny wins whatever the order of the entries     *)
(* (policy/cache.go:95-168), spellings of one address or host are the      *)
(* same, the longest prefix decides (cache.go:224), and the trusted proxy  *)
(* is never let in (access.go:50, 125-126).                                 *)
(***************************************************************************)
DecisionIsJustified ==
    check.pc = "done" /\ ~check.torn => check.result \in check.justified

(***************************************************************************)
(* verify-ip lets a request pass only with the right token and about the   *)
(* address of the peer itself, or one that the trusted proxy vouches for,  *)
(* and never for the proxy's own; whatever passes, and nothing else, is    *)
(* reported as allowed, under the address's users if they decided          *)
(* (httpserver/middleware.go:129-133, policy/handler.go:38-85,             *)
(* access.go:79-121).  A simulation is answered alike and reports nothing. *)
(***************************************************************************)
OnlyVouchedRequestsPass ==
    check.pc = "done" =>
        LET q == check.req
            ip == ClientIP(q)
            vouched == {Canon[q.peer]} \cup
                         (IF Canon[q.peer] = TrustedProxy /\ q.realIP # "none"
                            THEN {Canon[q.realIP]} ELSE {})
        IN  /\ q.kind = "simulate" => check.event = NoEvent
            /\ q.kind = "verify" =>
                 /\ check.status = 200 <=> check.event.outcome = "allow"
                 /\ check.status = 200 =>
                      /\ q.token = "right" /\ ~q.early
                      /\ ip \in vouched \ {Invalid, TrustedProxy}
                      /\ check.event.users # {} <=> check.result = "device"

(***************************************************************************)
(* The audit tells a restricted user the truth: at an address that is not  *)
(* the trusted proxy's, the hosts it shows as effective are the ones that  *)
(* the snapshot lets through, no grant disappears without being shown as   *)
(* trimmed, and a cell that is open to all hosts is so for every user      *)
(* behind it (policy_user_view.go:289-300; policy-audit.yaml:181-200).     *)
(***************************************************************************)
AuditShowsTheDecision ==
    \A u \in User : \A ip \in buildIPIndex(u) \ {TrustedProxy} :
        LET cell == buildUserIPs(u, ip)
            allowed == {h \in Host : Justified(ipSet, <<>>, ip, h) = {"device"}}
        IN  /\ cell.bypass <=> \A v \in User : ip \in buildIPIndex(v)
                                                  => Bucket(v, ip).bypass
            /\ ~Bucket(u, ip).bypass =>
                 /\ cell.effective = allowed
                 /\ cell.effective \cup cell.trimmed = Bucket(u, ip).hosts
=============================================================================
