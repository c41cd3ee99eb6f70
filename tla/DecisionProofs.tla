--------------------------- MODULE DecisionProofs ---------------------------
(***************************************************************************)
(* Proofs about Decision, for every set of users, hosts, rows, network     *)
(* policies and requests, every width of an address and any number of      *)
(* refreshes.                                                              *)
(***************************************************************************)
EXTENDS Decision, FiniteSetTheorems, TLAPS

Contributor == [user : User, bypass : BOOLEAN, hosts : SUBSET Host]

(* What the contributors cs of an address may reach together: bypass says  *)
(* that all of them bypass the list, and unless they do, hosts are the     *)
(* hosts that each of them may reach alone.                                *)
DenyWins(cs, bypass, hosts) ==
    /\ cs \in Seq(Contributor) /\ cs # <<>>
    /\ bypass \in BOOLEAN
    /\ bypass <=> \A i \in DOMAIN cs : cs[i].bypass
    /\ ~bypass => hosts = {h \in Host : \A i \in DOMAIN cs : Permits(cs[i], h)}

(* The loop invariant of buildIPSet.                                       *)
AccumulatorOK(acc) ==
    /\ DenyWins(acc.contributors, acc.allBypass, acc.hosts)
    /\ acc.restricted = ~acc.allBypass
    /\ \A i \in DOMAIN acc.contributors :
         LET c == acc.contributors[i] IN
         c.bypass = access[c.user].bypass /\ c.hosts = access[c.user].hosts

Building ==
    /\ access \in [User -> Access]
    /\ DOMAIN byIP \subseteq IP
    /\ \A ip \in DOMAIN byIP : AccumulatorOK(byIP[ip])

(* A published entry: the same, and one user has one set of grants.        *)
EntryOK(e) ==
    /\ DenyWins(e.contributors, e.bypass, e.hosts)
    /\ \A i, j \in DOMAIN e.contributors :
         e.contributors[i].user = e.contributors[j].user
           => e.contributors[i] = e.contributors[j]

Published ==
    /\ DOMAIN ipSet \subseteq IP
    /\ \A ip \in DOMAIN ipSet : EntryOK(ipSet[ip])
    /\ DOMAIN networkPolicies \subseteq Nat
    /\ \A i \in DOMAIN networkPolicies : networkPolicies[i].prefix.bits \in Int
    /\ MostSpecificFirst(networkPolicies)

(* A request between the two reads of Decide.                              *)
Pending ==
    check.pc = "policies" =>
        LET ip == ClientIP(check.req) IN
        /\ DOMAIN check = {"pc", "req", "torn", "justified"}
        /\ check.req \in Request /\ Asked(check.req)
        /\ ip \notin {Invalid, TrustedProxy}
        /\ check.torn \in BOOLEAN
        /\ ~check.torn =>
             /\ ip \notin DOMAIN ipSet
             /\ check.justified = Justified(ipSet, networkPolicies, ip,
                                            NormaliseHost[check.req.host])

Phase == check.pc \in {"idle", "policies", "done"}

IInv ==
    /\ Building /\ Published /\ Phase /\ Pending
    /\ DecisionIsJustified /\ OnlyVouchedRequestsPass

-----------------------------------------------------------------------------
(* A nonempty set of numbers has a least element: of the intervals from 0  *)
(* to its elements one is minimal.                                         *)
LEMMA LeastExists ==
    ASSUME NEW T \in SUBSET Nat, T # {}
    PROVE  \E m \in T : \A k \in T : m <= k
  <1> DEFINE F == {0 .. n : n \in T}
             R == StrictSubsetOrdering(Nat)
  <1>1. F \subseteq FiniteSubsetsOf(Nat)
    <2>1. \A n \in T : IsFiniteSet(0 .. n)
      BY FS_Interval
    <2> QED
      BY <2>1 DEF FiniteSubsetsOf
  <1>2. F # {}
    OBVIOUS
  <1> HIDE DEF F
  <1>3. PICK X \in F : \A Y \in F : <<Y, X>> \notin R
    BY <1>1, <1>2, FS_StrictSubsetOrderingWellFounded, WFMin
  <1>4. PICK m \in T : X = 0 .. m
    BY DEF F
  <1>5. ASSUME NEW k \in T, k < m PROVE FALSE
    <2>1. 0 .. k \in F
      BY DEF F
    <2>2. 0 .. k \subseteq 0 .. m /\ 0 .. k # 0 .. m
      BY <1>5, m \in 0 .. m, m \notin 0 .. k
    <2>3. <<0 .. k, X>> \in R
      BY <1>4, <2>2 DEF StrictSubsetOrdering
    <2> QED
      BY <1>3, <2>1, <2>3
  <1> QED
    BY <1>5

-----------------------------------------------------------------------------
(* buildIPSet.                                                             *)

(* The loop body keeps its invariant: whatever the order of the rows, the  *)
(* hosts that remain are the ones every restricted user may reach          *)
(* (policy/cache.go:95-168).                                               *)
LEMMA AccumulateOK ==
    ASSUME access \in [User -> Access], NEW u \in User, NEW acc,
           acc = NewAccumulator \/ AccumulatorOK(acc)
    PROVE  AccumulatorOK(Accumulate(acc, u))
  <1> DEFINE c == [user |-> u, bypass |-> access[u].bypass,
                   hosts |-> access[u].hosts]
             cs == Append(acc.contributors, c)
             n == Len(acc.contributors)
             new == Accumulate(acc, u)
  <1>1. c \in Contributor
    BY DEF Contributor, Access
  <1>2. acc.contributors \in Seq(Contributor)
    <2>1. CASE acc = NewAccumulator
      BY <2>1 DEF NewAccumulator
    <2>2. CASE AccumulatorOK(acc)
      BY <2>2 DEF AccumulatorOK, DenyWins
    <2> QED
      BY <2>1, <2>2
  <1>3. /\ cs \in Seq(Contributor) /\ cs # <<>>
        /\ n \in Nat /\ DOMAIN acc.contributors = 1 .. n
        /\ DOMAIN cs = 1 .. n + 1
        /\ cs[n + 1] = c
        /\ \A i \in 1 .. n : cs[i] = acc.contributors[i]
    BY <1>1, <1>2
  <1>4. /\ new.contributors = cs
        /\ new.allBypass = (acc.allBypass /\ c.bypass)
        /\ new.restricted = (acc.restricted \/ ~c.bypass)
        /\ new.hosts = IF c.bypass THEN acc.hosts
                       ELSE IF acc.restricted THEN acc.hosts \cap c.hosts
                       ELSE c.hosts
    BY DEF Accumulate
  <1>5. /\ acc.allBypass \in BOOLEAN /\ c.bypass \in BOOLEAN
        /\ acc.restricted = ~acc.allBypass
        /\ acc.allBypass <=> \A i \in 1 .. n : acc.contributors[i].bypass
        /\ ~acc.allBypass => acc.hosts = {h \in Host : \A i \in 1 .. n :
                                            Permits(acc.contributors[i], h)}
        /\ c.hosts \in SUBSET Host
    <2>1. CASE acc = NewAccumulator
      <3>1. /\ acc.allBypass = TRUE /\ acc.restricted = FALSE
            /\ acc.contributors = <<>>
        BY <2>1 DEF NewAccumulator
      <3>2. n = 0
        BY <3>1
      <3>3. c.bypass \in BOOLEAN /\ c.hosts \in SUBSET Host
        BY <1>1 DEF Contributor
      <3>4. acc.restricted = ~acc.allBypass
        BY <3>1
      <3>5. \A i \in 1 .. n : FALSE
        BY <3>2
      <3> HIDE DEF c, n
      <3> QED
        BY <3>1, <3>3, <3>4, <3>5
    <2>2. CASE AccumulatorOK(acc)
      BY <2>2, <1>1, <1>3 DEF AccumulatorOK, DenyWins, Contributor
    <2> QED
      BY <2>1, <2>2
  <1> HIDE DEF c, cs, n, new
  <1>6. new.allBypass \in BOOLEAN
        /\ (new.allBypass <=> \A i \in DOMAIN cs : cs[i].bypass)
    BY <1>3, <1>4, <1>5
  <1>7. new.restricted = ~new.allBypass
    BY <1>4, <1>5
  <1>8. ASSUME ~new.allBypass
        PROVE  new.hosts = {h \in Host : \A i \in DOMAIN cs : Permits(cs[i], h)}
    <2>1. ASSUME NEW h
          PROVE  h \in new.hosts <=>
                   h \in Host /\ \A i \in DOMAIN cs : Permits(cs[i], h)
      <3>1. (\A i \in DOMAIN cs : Permits(cs[i], h)) <=>
              /\ \A i \in 1 .. n : Permits(acc.contributors[i], h)
              /\ Permits(c, h)
        BY <1>3
      <3>2. CASE acc.allBypass
        BY <3>1, <3>2, <1>8, <1>4, <1>5 DEF Permits
      <3>3. CASE ~acc.allBypass
        BY <3>1, <3>3, <1>8, <1>4, <1>5 DEF Permits
      <3> QED
        BY <3>2, <3>3, <1>5
    <2> QED
      BY <2>1
  <1>9. \A i \in DOMAIN cs :
          cs[i].bypass = access[cs[i].user].bypass
          /\ cs[i].hosts = access[cs[i].user].hosts
    <2>1. \A i \in 1 .. n :
            acc.contributors[i].bypass = access[acc.contributors[i].user].bypass
            /\ acc.contributors[i].hosts = access[acc.contributors[i].user].hosts
      BY <1>3 DEF AccumulatorOK, NewAccumulator, n
    <2>2. c.bypass = access[c.user].bypass /\ c.hosts = access[c.user].hosts
      BY DEF c
    <2> QED
      BY <2>1, <2>2, <1>3
  <1> QED
    BY <1>3, <1>4, <1>6, <1>7, <1>8, <1>9 DEF AccumulatorOK, DenyWins, new

(* What is published of an accumulator.                                    *)
LEMMA FinishOK ==
    ASSUME NEW acc, AccumulatorOK(acc)
    PROVE  EntryOK(Finish(acc))
  <1> DEFINE cs == acc.contributors
  <1>1. /\ cs \in Seq(Contributor)
        /\ \A i \in DOMAIN cs : cs[i] \in Contributor
    BY DEF AccumulatorOK, DenyWins
  <1>2. ASSUME NEW i \in DOMAIN cs, NEW j \in DOMAIN cs,
               cs[i].user = cs[j].user
        PROVE  cs[i] = cs[j]
    <2>1. cs[i].bypass = cs[j].bypass /\ cs[i].hosts = cs[j].hosts
      BY <1>2 DEF AccumulatorOK
    <2> QED
      BY <1>1, <1>2, <2>1 DEF Contributor
  <1> QED
    BY <1>2 DEF EntryOK, Finish, AccumulatorOK, DenyWins

-----------------------------------------------------------------------------
(* Decide.                                                                 *)

(* At a registered address the answer read off the entry is the one that   *)
(* every user behind the address has to agree to (policy/access.go:55-70). *)
LEMMA EntryDecides ==
    ASSUME NEW e, EntryOK(e), NEW host
    PROVE  (e.bypass \/ host \in e.hosts) <=>
             \A i \in DOMAIN e.contributors : Permits(e.contributors[i], host)
  <1>1. CASE e.bypass
    BY <1>1 DEF EntryOK, DenyWins, Permits
  <1>2. CASE ~e.bypass
    <2>1. PICK i \in DOMAIN e.contributors : ~e.contributors[i].bypass
      BY <1>2 DEF EntryOK, DenyWins
    <2>2. e.contributors[i].hosts \subseteq Host
      <3>1. e.contributors \in Seq(Contributor)
        BY DEF EntryOK, DenyWins
      <3>2. e.contributors[i] \in Contributor
        BY <3>1
      <3> QED
        BY <3>2 DEF Contributor
    <2>3. e.hosts = {h \in Host : \A j \in DOMAIN e.contributors :
                                    Permits(e.contributors[j], h)}
      BY <1>2 DEF EntryOK, DenyWins
    <2>4. Permits(e.contributors[i], host) => host \in Host
      BY <2>1, <2>2 DEF Permits
    <2>5. host \in e.hosts <=>
            \A j \in DOMAIN e.contributors : Permits(e.contributors[j], host)
      BY <2>1, <2>3, <2>4
    <2> QED
      BY <1>2, <2>5
  <1> QED
    BY <1>1, <1>2

(* The three cases of Justified.                                           *)
LEMMA JustifiedUnknown ==
    ASSUME NEW set, NEW policies, NEW ip, NEW host,
           ip \in {Invalid, TrustedProxy}
    PROVE  Justified(set, policies, ip, host) = {"ip"}
  BY DEF Justified

LEMMA JustifiedByEntry ==
    ASSUME NEW set, NEW policies, NEW ip, NEW host,
           ip \notin {Invalid, TrustedProxy}, ip \in DOMAIN set
    PROVE  Justified(set, policies, ip, host) =
             {IF \A i \in DOMAIN set[ip].contributors :
                     Permits(set[ip].contributors[i], host)
                THEN "device" ELSE "host"}
  BY DEF Justified

LEMMA JustifiedByPolicy ==
    ASSUME NEW set, NEW policies, NEW ip, NEW host,
           ip \notin {Invalid, TrustedProxy}, ip \notin DOMAIN set
    PROVE  LET match == {i \in DOMAIN policies : Contains(policies[i].prefix, ip)}
               longest == {i \in match : \A j \in match :
                             policies[j].prefix.bits <= policies[i].prefix.bits}
           IN  Justified(set, policies, ip, host) =
                 IF match = {} THEN {"ip"}
                 ELSE {IF Permits(policies[i], host) THEN "policy" ELSE "host" :
                         i \in longest}
  BY DEF Justified

(* The loop over the sorted policies stops at a prefix of the greatest     *)
(* length that matches (policy/cache.go:224, access.go:72-76).             *)
LEMMA FirstMatchIsLongest ==
    ASSUME Published, NEW ip, NEW host,
           ip \notin {Invalid, TrustedProxy}, ip \notin DOMAIN ipSet
    PROVE  LET M == {i \in DOMAIN networkPolicies :
                       Contains(networkPolicies[i].prefix, ip)}
               first == CHOOSE i \in M : \A j \in M : i <= j
           IN  (IF M = {} THEN "ip"
                ELSE IF Permits(networkPolicies[first], host)
                       THEN "policy" ELSE "host")
               \in Justified(ipSet, networkPolicies, ip, host)
  <1> DEFINE M == {i \in DOMAIN networkPolicies :
                     Contains(networkPolicies[i].prefix, ip)}
             first == CHOOSE i \in M : \A j \in M : i <= j
             bits(i) == networkPolicies[i].prefix.bits
             longest == {i \in M : \A j \in M : bits(j) <= bits(i)}
             J == Justified(ipSet, networkPolicies, ip, host)
  <1>1. J = IF M = {} THEN {"ip"}
            ELSE {IF Permits(networkPolicies[i], host) THEN "policy" ELSE "host" :
                    i \in longest}
    BY JustifiedByPolicy
  <1>2. M \in SUBSET Nat
    BY DEF Published
  <1>3. \A i, j \in M : /\ bits(i) \in Int
                        /\ i < j => bits(i) >= bits(j)
    BY DEF Published, MostSpecificFirst
  <1> HIDE DEF M, J
  <1>4. ASSUME M # {} PROVE first \in longest
    <2>1. \E i \in M : \A j \in M : i <= j
      BY <1>2, <1>4, LeastExists
    <2>2. first \in M /\ \A j \in M : first <= j
      BY <2>1
    <2> HIDE DEF first
    <2>3. ASSUME NEW j \in M PROVE bits(j) <= bits(first)
      BY <2>2, <1>2, <1>3
    <2> QED
      BY <2>2, <2>3
  <1>5. CASE M = {}
    BY <1>1, <1>5 DEF M, J
  <1>6. CASE M # {}
    <2>1. (IF Permits(networkPolicies[first], host) THEN "policy" ELSE "host") \in J
      BY <1>1, <1>4, <1>6
    <2> QED
      BY <1>6, <2>1 DEF M, J
  <1> QED
    BY <1>5, <1>6

-----------------------------------------------------------------------------
(* A rebuild keeps the loop invariant, however the rows are ordered and    *)
(* whatever grants the refresh has read.                                   *)
LEMMA BuildingStep == IInv /\ [Next]_vars => Building'
  <1> SUFFICES ASSUME IInv, [Next]_vars PROVE Building'
    OBVIOUS
  <1>b. Building
    BY DEF IInv
  <1>1. CASE StartRefresh
    BY <1>1 DEF StartRefresh, Building
  <1>2. ASSUME NEW t \in Stored, NEW u \in User, AddEntry(t, u)
        PROVE  Building'
    <2> DEFINE ip == Canon[t]
               acc == IF ip \in DOMAIN byIP THEN byIP[ip] ELSE NewAccumulator
    <2>1. ip \in IP
      BY <1>2, DecisionAssumption DEF AddEntry
    <2>2. AccumulatorOK(Accumulate(acc, u))
      BY <1>b, AccumulateOK DEF Building
    <2>3. /\ byIP' = [x \in DOMAIN byIP \cup {ip} |->
                        IF x = ip THEN Accumulate(acc, u) ELSE byIP[x]]
          /\ UNCHANGED access
      BY <1>2 DEF AddEntry
    <2> HIDE DEF ip, acc
    <2>4. \A x \in DOMAIN byIP' : AccumulatorOK(byIP'[x])
      BY <2>2, <2>3, <1>b DEF Building
    <2>5. \A x \in DOMAIN byIP' : AccumulatorOK(byIP[x])'
      BY <2>3, <2>4 DEF AccumulatorOK
    <2> QED
      BY <2>1, <2>3, <2>5, <1>b DEF Building
  <1>3. CASE Publish
    BY <1>3, <1>b DEF Publish, Building
  <1>4. CASE UNCHANGED <<building, access, byIP, refreshes, ipSet, networkPolicies>>
    BY <1>4, <1>b DEF Building, AccumulatorOK
  <1> QED
    BY <1>1, <1>2, <1>3, <1>4
       DEF Next, HandleForwardAuthIP, LookupIP, MatchPolicies, Return, vars

(* The sorted policies that buildNetworkPolicyCache makes of any entries.  *)
LEMMA BuiltPoliciesOK ==
    ASSUME NEW C \in SUBSET CIDREntry, NEW s \in BuiltPolicies(C)
    PROVE  /\ DOMAIN s \subseteq Nat
           /\ \A i \in DOMAIN s : s[i].prefix.bits \in Int
           /\ MostSpecificFirst(s)
  <1> DEFINE P == {Cached(c) : c \in C}
  <1>1. /\ s \in [1 .. Cardinality(P) -> P]
        /\ MostSpecificFirst(s)
    BY DEF BuiltPolicies
  <1>2. \A p \in P : p.prefix.bits \in Int
    BY DecisionAssumption DEF Cached, Prefix
  <1>3. \A n : 1 .. n \subseteq Nat
    OBVIOUS
  <1> QED
    BY <1>1, <1>2, <1>3

(* Both caches are replaced by well-formed ones and never changed          *)
(* otherwise.                                                              *)
LEMMA PublishedStep == IInv /\ [Next]_vars => Published'
  <1> SUFFICES ASSUME IInv, [Next]_vars PROVE Published'
    OBVIOUS
  <1>1. CASE Publish
    <2>1. PICK C \in SUBSET CIDREntry : networkPolicies' \in BuiltPolicies(C)
      BY <1>1 DEF Publish
    <2>2. /\ DOMAIN networkPolicies' \subseteq Nat
          /\ \A i \in DOMAIN networkPolicies' : networkPolicies'[i].prefix.bits \in Int
          /\ MostSpecificFirst(networkPolicies')
      BY <2>1, BuiltPoliciesOK
    <2>3. ipSet' = [ip \in DOMAIN byIP |-> Finish(byIP[ip])]
      BY <1>1 DEF Publish
    <2>4. \A ip \in DOMAIN byIP : EntryOK(Finish(byIP[ip]))
      BY FinishOK DEF IInv, Building
    <2>5. DOMAIN byIP \subseteq IP
      BY DEF IInv, Building
    <2> QED
      BY <2>2, <2>3, <2>4, <2>5 DEF Published
  <1>2. CASE UNCHANGED <<ipSet, networkPolicies>>
    BY <1>2 DEF IInv, Published
  <1> QED
    BY <1>1, <1>2
       DEF Next, StartRefresh, AddEntry, HandleForwardAuthIP, LookupIP,
           MatchPolicies, Return, vars

-----------------------------------------------------------------------------
(* The request.                                                            *)

(* The address a request is judged by is the peer's own, or one that the   *)
(* trusted proxy sent (httpserver/middleware.go:129-165).                  *)
LEMMA ClientIPIsVouched ==
    ASSUME NEW q \in Request, q.kind = "verify"
    PROVE  ClientIP(q) \in {Canon[q.peer]} \cup
             (IF Canon[q.peer] = TrustedProxy /\ q.realIP # "none"
                THEN {Canon[q.realIP]} ELSE {})
  BY DEF ClientIP, ClientIPFromRealIP

(* What an answer of Decide has to meet for OnlyVouchedRequestsPass.       *)
LEMMA AnswerIsVouched ==
    ASSUME NEW q \in Request, Asked(q), NEW users, NEW torn, NEW justified,
           NEW result \in {"ip", "host", "device", "policy"},
           result \in Allowing => ClientIP(q) \notin {Invalid, TrustedProxy},
           result = "device" => users # {},
           result = "policy" => users = {},
           check' = Answer(q, result, users, torn, justified)
    PROVE  OnlyVouchedRequestsPass'
  <1> DEFINE c == Answer(q, result, users, torn, justified)
  <1>1. /\ c.req = q /\ c.result = result
        /\ q.kind = "verify" => /\ c.status = (IF result \notin Allowing THEN 403 ELSE 200)
                                /\ c.event = NewDecisionEvent(result, users)
        /\ q.kind = "simulate" => c.event = NoEvent
    BY DEF Answer
  <1>2. /\ NewDecisionEvent(result, users).outcome =
             (IF result \in Allowing THEN "allow" ELSE "deny")
        /\ NewDecisionEvent(result, users).users = users
    BY DEF NewDecisionEvent
  <1>3. q.kind = "verify" => q.token = "right" /\ ~q.early
    BY DEF Asked
  <1>4. q.kind = "verify" => ClientIP(q) \in {Canon[q.peer]} \cup
             (IF Canon[q.peer] = TrustedProxy /\ q.realIP # "none"
                THEN {Canon[q.realIP]} ELSE {})
    BY ClientIPIsVouched
  <1> HIDE DEF c
  <1>5. q.kind = "verify" =>
          /\ c.status = 200 <=> c.event.outcome = "allow"
          /\ c.status = 200 => result \in Allowing
          /\ c.status = 200 => (c.event.users # {} <=> result = "device")
    BY <1>1, <1>2 DEF Allowing
  <1>6. check' = c
    BY DEF c
  <1> QED
    BY <1>1, <1>3, <1>4, <1>5, <1>6
       DEF OnlyVouchedRequestsPass, ClientIP, ClientIPFromRealIP

(* A refusal lets nothing pass and reports no permission.                  *)
LEMMA RefusalIsVouched ==
    ASSUME NEW q \in Request, q.kind = "verify", NEW status \in {403, 425},
           NEW event \in {NoEvent, NewDecisionEvent("token", {})},
           check' = Refused(q, status, event)
    PROVE  OnlyVouchedRequestsPass' /\ DecisionIsJustified' /\ check'.pc = "done"
  <1>1. event.outcome # "allow"
    BY DEF NoEvent, NewDecisionEvent, Allowing
  <1>2. /\ check'.pc = "done" /\ check'.req = q /\ check'.status # 200
        /\ check'.event = event
        /\ check'.result = "ip" /\ check'.justified = {"ip"}
    BY DEF Refused
  <1> QED
    BY <1>1, <1>2 DEF OnlyVouchedRequestsPass, DecisionIsJustified

Checked == Phase /\ Pending /\ DecisionIsJustified /\ OnlyVouchedRequestsPass

(* The first read of Decide answers from the entry of the address, refuses *)
(* it, or leaves it to the policies (policy/access.go:49-66).              *)
LEMMA LookupStep ==
    ASSUME IInv, NEW q \in Request, LookupIP(q)
    PROVE  Checked'
  <1> DEFINE ip == ClientIP(q)
             host == NormaliseHost[q.host]
             justified == Justified(ipSet, networkPolicies, ip, host)
             users == {c.user : c \in Range(ipSet[ip].contributors)}
             result == IF ipSet[ip].bypass \/ host \in ipSet[ip].hosts
                         THEN "device" ELSE "host"
  <1>1. /\ Asked(q)
        /\ UNCHANGED <<ipSet, networkPolicies>>
    BY DEF LookupIP
  <1>2. ASSUME ip \in {Invalid, TrustedProxy},
               check' = Answer(q, "ip", {}, FALSE, justified)
        PROVE  Checked'
    <2>1. justified = {"ip"}
      BY <1>2, JustifiedUnknown
    <2>2. OnlyVouchedRequestsPass'
      BY <1>1, <1>2, AnswerIsVouched DEF Allowing
    <2>3. check'.pc = "done" /\ check'.result = "ip" /\ check'.justified = justified
      BY <1>2 DEF Answer
    <2> QED
      BY <2>1, <2>2, <2>3 DEF Checked, Phase, Pending, DecisionIsJustified
  <1>3. ASSUME ip \notin {Invalid, TrustedProxy}, ip \in DOMAIN ipSet,
               check' = Answer(q, result, users, FALSE, justified)
        PROVE  Checked'
    <2>1. EntryOK(ipSet[ip])
      BY <1>3 DEF IInv, Published
    <2>2. justified = {result}
      BY <1>3, <2>1, EntryDecides, JustifiedByEntry
    <2>3. users # {}
      <3>1. /\ ipSet[ip].contributors \in Seq(Contributor)
            /\ ipSet[ip].contributors # <<>>
        BY <2>1 DEF EntryOK, DenyWins
      <3>2. 1 \in DOMAIN ipSet[ip].contributors
        BY <3>1
      <3>3. ipSet[ip].contributors[1] \in Range(ipSet[ip].contributors)
        BY <3>2 DEF Range
      <3> QED
        BY <3>3
    <2>4. result \in {"device", "host"}
      OBVIOUS
    <2> HIDE DEF result, users
    <2>5. OnlyVouchedRequestsPass'
      BY <1>1, <1>3, <2>3, <2>4, AnswerIsVouched
    <2>6. check'.pc = "done" /\ check'.result = result /\ check'.justified = justified
      BY <1>3 DEF Answer
    <2> QED
      BY <2>2, <2>5, <2>6 DEF Checked, Phase, Pending, DecisionIsJustified
  <1>4. ASSUME ip \notin {Invalid, TrustedProxy}, ip \notin DOMAIN ipSet,
               check' = [pc |-> "policies", req |-> q, torn |-> FALSE,
                         justified |-> justified]
        PROVE  Checked'
    <2>1. /\ check'.pc = "policies" /\ check'.req = q /\ check'.torn = FALSE
          /\ check'.justified = justified
          /\ DOMAIN check' = {"pc", "req", "torn", "justified"}
      BY <1>4
    <2>2. Pending'
      BY <1>1, <1>4, <2>1 DEF Pending, Asked, ClientIP, ClientIPFromRealIP,
                              Justified, Contains, Permits
    <2> QED
      BY <2>1, <2>2 DEF Checked, Phase, DecisionIsJustified, OnlyVouchedRequestsPass
  <1> QED
    BY <1>2, <1>3, <1>4 DEF LookupIP

(* The second read answers from the policies.  Only if no refresh was      *)
(* published in between are they the ones the answer is judged by.         *)
LEMMA MatchStep ==
    ASSUME IInv, MatchPolicies
    PROVE  Checked'
  <1> DEFINE q == check.req
             ip == ClientIP(q)
             host == NormaliseHost[q.host]
             M == {i \in DOMAIN networkPolicies :
                     Contains(networkPolicies[i].prefix, ip)}
             first == CHOOSE i \in M : \A j \in M : i <= j
             result == IF M = {} THEN "ip"
                       ELSE IF Permits(networkPolicies[first], host)
                              THEN "policy" ELSE "host"
  <1>1. /\ q \in Request /\ Asked(q)
        /\ ip \notin {Invalid, TrustedProxy}
        /\ ~check.torn => /\ ip \notin DOMAIN ipSet
                          /\ check.justified =
                               Justified(ipSet, networkPolicies, ip, host)
    BY DEF MatchPolicies, IInv, Pending
  <1>2. check' = Answer(q, result, {}, check.torn, check.justified)
    BY DEF MatchPolicies
  <1>3. ~check.torn => result \in check.justified
    BY <1>1, FirstMatchIsLongest DEF IInv
  <1>4. result \in {"ip", "policy", "host"}
    OBVIOUS
  <1> HIDE DEF result, q, ip, host
  <1>5. OnlyVouchedRequestsPass'
    BY <1>1, <1>2, <1>4, AnswerIsVouched DEF ip
  <1>6. /\ check'.pc = "done" /\ check'.result = result
        /\ check'.torn = check.torn /\ check'.justified = check.justified
    BY <1>2 DEF Answer
  <1> QED
    BY <1>3, <1>5, <1>6 DEF Checked, Phase, Pending, DecisionIsJustified

(* Every step treats the request under way as it should.                   *)
LEMMA CheckedStep == IInv /\ [Next]_vars => Checked'
  <1> SUFFICES ASSUME IInv, [Next]_vars PROVE Checked'
    OBVIOUS
  <1>1. CASE Publish
    <2>1. CASE check.pc # "policies"
      <3>1. check' = check
        BY <1>1, <2>1 DEF Publish
      <3> QED
        BY <2>1, <3>1 DEF IInv, Checked, Phase, Pending, DecisionIsJustified,
              OnlyVouchedRequestsPass, ClientIP, ClientIPFromRealIP
    <2>2. CASE check.pc = "policies"
      <3>1. DOMAIN check = {"pc", "req", "torn", "justified"}
        BY <2>2 DEF IInv, Pending
      <3>2. /\ check'.pc = "policies" /\ check'.req = check.req
            /\ check'.torn = TRUE
            /\ DOMAIN check' = {"pc", "req", "torn", "justified"}
        BY <1>1, <2>2, <3>1 DEF Publish
      <3>3. /\ check.req \in Request /\ Asked(check.req)
            /\ ClientIP(check.req) \notin {Invalid, TrustedProxy}
        BY <2>2 DEF IInv, Pending
      <3>4. Pending'
        BY <3>2, <3>3 DEF Pending, Asked, ClientIP, ClientIPFromRealIP
      <3> QED
        BY <3>2, <3>4 DEF Checked, Phase, DecisionIsJustified,
                          OnlyVouchedRequestsPass
    <2> QED
      BY <2>1, <2>2
  <1>2. ASSUME NEW q \in Request, HandleForwardAuthIP(q) PROVE Checked'
    <2>1. OnlyVouchedRequestsPass' /\ DecisionIsJustified' /\ check'.pc = "done"
      BY <1>2, RefusalIsVouched DEF HandleForwardAuthIP
    <2> QED
      BY <2>1 DEF Checked, Phase, Pending
  <1>3. CASE Return
    BY <1>3 DEF Return, NoCheck, Checked, Phase, Pending, DecisionIsJustified,
                OnlyVouchedRequestsPass
  <1>4. CASE UNCHANGED <<ipSet, networkPolicies, check>>
    <2>1. Phase' /\ DecisionIsJustified'
      BY <1>4 DEF IInv, Phase, DecisionIsJustified
    <2>2. OnlyVouchedRequestsPass'
      BY <1>4 DEF IInv, OnlyVouchedRequestsPass, ClientIP, ClientIPFromRealIP
    <2>3. Pending'
      BY <1>4 DEF IInv, Pending, Asked, ClientIP, ClientIPFromRealIP,
                  Justified, Contains, Permits
    <2> QED
      BY <2>1, <2>2, <2>3 DEF Checked
  <1> QED
    BY <1>1, <1>2, <1>3, <1>4, LookupStep, MatchStep
       DEF Next, StartRefresh, AddEntry, vars

-----------------------------------------------------------------------------
(* The audit page.                                                         *)

(* The bucket of a user at an address is what the user contributes there.  *)
LEMMA BucketIsTheUsers ==
    ASSUME Published, NEW u \in User, NEW ip \in buildIPIndex(u)
    PROVE  /\ ip \in DOMAIN ipSet
           /\ \E i \in DOMAIN ipSet[ip].contributors :
                /\ Bucket(u, ip) = ipSet[ip].contributors[i]
                /\ ipSet[ip].contributors[i].user = u
           /\ \A i \in DOMAIN ipSet[ip].contributors :
                ipSet[ip].contributors[i].user = u
                  => Bucket(u, ip) = ipSet[ip].contributors[i]
  <1> DEFINE cs == ipSet[ip].contributors
             mine == {i \in DOMAIN cs : cs[i].user = u}
  <1>1. ip \in DOMAIN ipSet /\ mine # {}
    BY DEF buildIPIndex
  <1>2. EntryOK(ipSet[ip])
    BY <1>1 DEF Published
  <1>3. cs \in Seq(Contributor)
    BY <1>2 DEF EntryOK, DenyWins
  <1>4. mine \in SUBSET Nat
    BY <1>3
  <1>5. \E i \in mine : \A j \in mine : i <= j
    BY <1>1, <1>4, LeastExists
  <1> DEFINE k == CHOOSE i \in mine : \A j \in mine : i <= j
  <1>6. k \in mine /\ Bucket(u, ip) = cs[k]
    BY <1>5 DEF Bucket
  <1> HIDE DEF k
  <1>7. \A i \in mine : cs[i] = cs[k]
    BY <1>2, <1>6 DEF EntryOK
  <1> QED
    BY <1>1, <1>6, <1>7

(* Whatever well-formed snapshot is published, the audit shows a           *)
(* restricted user what Decide lets through (policy_user_view.go:289-300). *)
LEMMA AuditOfSnapshot == Published => AuditShowsTheDecision
  <1> SUFFICES ASSUME Published, NEW u \in User,
                      NEW ip \in buildIPIndex(u) \ {TrustedProxy}
               PROVE
        LET cell == buildUserIPs(u, ip)
            allowed == {h \in Host : Justified(ipSet, <<>>, ip, h) = {"device"}}
        IN  /\ cell.bypass <=> \A v \in User : ip \in buildIPIndex(v)
                                                  => Bucket(v, ip).bypass
            /\ ~Bucket(u, ip).bypass =>
                 /\ cell.effective = allowed
                 /\ cell.effective \cup cell.trimmed = Bucket(u, ip).hosts
    BY DEF AuditShowsTheDecision
  <1> DEFINE e == ipSet[ip]
             cs == e.contributors
             c == Bucket(u, ip)
             cell == buildUserIPs(u, ip)
             allowed == {h \in Host : Justified(ipSet, <<>>, ip, h) = {"device"}}
  <1>1. ip \in DOMAIN ipSet /\ \E i \in DOMAIN cs : c = cs[i]
    BY BucketIsTheUsers
  <1>2. EntryOK(e)
    BY <1>1 DEF Published
  <1>3. /\ cs \in Seq(Contributor)
        /\ \A i \in DOMAIN cs : cs[i] \in Contributor
        /\ e.bypass \in BOOLEAN
        /\ e.bypass <=> \A i \in DOMAIN cs : cs[i].bypass
        /\ ~e.bypass => e.hosts = {h \in Host : \A i \in DOMAIN cs : Permits(cs[i], h)}
    BY <1>2 DEF EntryOK, DenyWins
  <1>4. ip \notin {Invalid, TrustedProxy}
    BY <1>1, DecisionAssumption DEF Published
  <1>5. cell.bypass = e.bypass
    BY DEF buildUserIPs
  <1>6. e.bypass <=> \A v \in User : ip \in buildIPIndex(v) => Bucket(v, ip).bypass
    <2>1. ASSUME e.bypass, NEW v \in User, ip \in buildIPIndex(v)
          PROVE  Bucket(v, ip).bypass
      <3>1. \E i \in DOMAIN cs : Bucket(v, ip) = cs[i]
        BY <2>1, BucketIsTheUsers
      <3> QED
        BY <2>1, <3>1, <1>3
    <2>2. ASSUME \A v \in User : ip \in buildIPIndex(v) => Bucket(v, ip).bypass,
                 NEW i \in DOMAIN cs
          PROVE  cs[i].bypass
      <3>1. cs[i].user \in User
        BY <1>3 DEF Contributor
      <3>2. ip \in buildIPIndex(cs[i].user)
        BY <1>1 DEF buildIPIndex
      <3>3. Bucket(cs[i].user, ip) = cs[i]
        BY <3>1, <3>2, BucketIsTheUsers
      <3> QED
        BY <2>2, <3>1, <3>2, <3>3
    <2> QED
      BY <2>1, <2>2, <1>3
  <1>7. ASSUME ~c.bypass
        PROVE  /\ cell.effective = allowed
               /\ cell.effective \cup cell.trimmed = c.hosts
    <2>1. ~e.bypass
      BY <1>1, <1>3, <1>7
    <2>2. e.hosts = {h \in Host : \A i \in DOMAIN cs : Permits(cs[i], h)}
      BY <1>3, <2>1
    <2>3. e.hosts \subseteq c.hosts
      BY <1>1, <1>7, <2>2 DEF Permits
    <2>4. /\ cell.effective = c.hosts \cap e.hosts
          /\ cell.trimmed = c.hosts \ e.hosts
      BY <1>7, <2>1 DEF buildUserIPs
    <2>5. allowed = e.hosts
      <3>1. ASSUME NEW h \in Host
            PROVE  Justified(ipSet, <<>>, ip, h) = {"device"} <=>
                     \A i \in DOMAIN cs : Permits(cs[i], h)
        <4>1. Justified(ipSet, <<>>, ip, h) =
                {IF \A i \in DOMAIN cs : Permits(cs[i], h) THEN "device" ELSE "host"}
          BY <1>1, <1>4, JustifiedByEntry
        <4> QED
          BY <4>1
      <3> QED
        BY <2>2, <3>1
    <2> HIDE DEF allowed, e, c, cell
    <2> QED
      BY <2>3, <2>4, <2>5
  <1> QED
    BY <1>5, <1>6, <1>7

-----------------------------------------------------------------------------
(* The inductive invariant holds in every reachable state.                 *)
LEMMA Invariance == Spec => []IInv
  <1>1. Init => IInv
    <2> SUFFICES ASSUME Init PROVE IInv
      OBVIOUS
    <2>1. Building
      BY DEF Init, Building, Access
    <2>2. Published
      BY DEF Init, Published, MostSpecificFirst
    <2>3. check.pc = "idle"
      BY DEF Init, NoCheck
    <2> QED
      BY <2>1, <2>2, <2>3 DEF IInv, Phase, Pending, DecisionIsJustified,
                              OnlyVouchedRequestsPass
  <1>2. IInv /\ [Next]_vars => IInv'
    BY BuildingStep, PublishedStep, CheckedStep DEF IInv, Checked
  <1> QED
    BY <1>1, <1>2, PTL DEF Spec

(* Decide answers what the snapshot it worked on justifies, for any rows   *)
(* in any order, any overlapping prefixes and any requests: deny wins at a *)
(* shared address, the longest prefix decides, the trusted proxy is never  *)
(* let in (policy/access.go:49-76, cache.go:95-240).                       *)
THEOREM DecisionsAreJustified == Spec => []DecisionIsJustified
  <1>1. IInv => DecisionIsJustified
    BY DEF IInv
  <1> QED
    BY <1>1, Invariance, PTL

(* verify-ip lets nothing pass without the right token, and only for an    *)
(* address that the peer has or the trusted proxy vouches for; its answer  *)
(* and the reported event agree (policy/handler.go:38-85).                 *)
THEOREM RequestsAreVouchedFor == Spec => []OnlyVouchedRequestsPass
  <1>1. IInv => OnlyVouchedRequestsPass
    BY DEF IInv
  <1> QED
    BY <1>1, Invariance, PTL

(* The audit page never shows a restricted user other hosts than the ones  *)
(* verify-ip lets through (policy/policy_user_view.go:289-300).            *)
THEOREM AuditIsTrue == Spec => []AuditShowsTheDecision
  <1>1. IInv => AuditShowsTheDecision
    BY AuditOfSnapshot DEF IInv
  <1> QED
    BY <1>1, Invariance, PTL
=============================================================================
