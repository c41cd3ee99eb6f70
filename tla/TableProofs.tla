----------------------------- MODULE TableProofs ----------------------------
(***************************************************************************)
(* Proofs about the components that are tables written by overlapping      *)
(* transactions and read by pages: the catalog of hosts and groups, and    *)
(* the address history, by itself and together with the lease service.     *)
(*                                                                         *)
(* For the catalog, soundness is inductive by itself; convergence needs    *)
(* what each request has established before its transaction (CatalogIInv). *)
(* For the history, nothing the views show is inductive: HistoryIInv says  *)
(* what the whole log, pruned or not, has to do with the tables it was     *)
(* written with, and the views are then a matter of counting.  For lapses, *)
(* LapseIInv relates each lease that its last event has reached to the     *)
(* renewal in the log that started it; that the lease service itself stays *)
(* well typed is taken from LeaseProofs.                                   *)
(***************************************************************************)
EXTENDS Catalog, Lapse, FiniteSetTheorems, SequenceTheorems, TLAPS

-----------------------------------------------------------------------------
(* A finite set with a total order has a last element.                     *)
LEMMA LastExists ==
    ASSUME NEW S, IsFiniteSet(S), S # {}, NEW R,
           \A x, y, z \in S : <<x, y>> \in R /\ <<y, z>> \in R => <<x, z>> \in R,
           \A x, y \in S : x # y => <<x, y>> \in R \/ <<y, x>> \in R
    PROVE  \E x \in S : \A y \in S \ {x} : <<y, x>> \in R
  <1> DEFINE HasLast(T) == \E x \in T : \A y \in T \ {x} : <<y, x>> \in R
             F == {T \in SUBSET S : T # {} /\ ~HasLast(T)}
             O == StrictSubsetOrdering(S)
  <1> SUFFICES ASSUME ~HasLast(S) PROVE FALSE
    OBVIOUS
  <1>1. F \subseteq FiniteSubsetsOf(S) /\ S \in F
    BY FS_Subset DEF FiniteSubsetsOf
  <1>2. PICK X \in F : \A Y \in F : <<Y, X>> \notin O
    <2>1. F # {} /\ F \subseteq FiniteSubsetsOf(S)
      BY <1>1
    <2> HIDE DEF F
    <2> QED
      BY <2>1, FS_StrictSubsetOrderingWellFounded, WFMin
  <1>3. X \in SUBSET S /\ X # {} /\ ~HasLast(X)
    OBVIOUS
  <1>4. PICK x \in X : TRUE
    BY <1>3
  <1> DEFINE Y == X \ {x}
  <1>5. Y \in SUBSET S /\ <<Y, X>> \in O
    BY <1>3, <1>4 DEF StrictSubsetOrdering
  <1>6. Y # {}
    BY <1>3, <1>4
  <1>7. HasLast(Y)
    BY <1>2, <1>5, <1>6
  <1>8. PICK y \in Y : \A z \in Y \ {y} : <<z, y>> \in R
    BY <1>7
  <1>9. CASE <<x, y>> \in R
    BY <1>3, <1>8, <1>9
  <1>10. CASE <<y, x>> \in R
    <2>1. \A z \in X \ {x} : <<z, x>> \in R
      BY <1>3, <1>4, <1>8, <1>10
    <2> QED
      BY <1>3, <1>4, <2>1
  <1> QED
    BY <1>3, <1>4, <1>8, <1>9, <1>10

(* Finite sets of integers have a greatest and a least element.            *)
LEMMA GreatestExists ==
    ASSUME NEW S \in SUBSET Int, IsFiniteSet(S), S # {}
    PROVE  \E x \in S : \A y \in S : y <= x
  <1> DEFINE R == {r \in S \X S : r[1] < r[2]}
  <1>1. \A x, y \in S : <<x, y>> \in R <=> x < y
    OBVIOUS
  <1>2. PICK x \in S : \A y \in S \ {x} : <<y, x>> \in R
    <2>1. /\ \A x, y, z \in S : <<x, y>> \in R /\ <<y, z>> \in R => <<x, z>> \in R
          /\ \A x, y \in S : x # y => <<x, y>> \in R \/ <<y, x>> \in R
      BY <1>1
    <2> HIDE DEF R
    <2> QED
      BY <2>1, LastExists
  <1> HIDE DEF R
  <1>3. ASSUME NEW y \in S PROVE y <= x
    <2>1. y = x \/ y < x
      BY <1>1, <1>2
    <2>2. x \in Int /\ y \in Int
      OBVIOUS
    <2> QED
      BY <2>1, <2>2
  <1> QED
    BY <1>3

(* The same downwards.                                                     *)
LEMMA LeastExists ==
    ASSUME NEW S \in SUBSET Int, IsFiniteSet(S), S # {}
    PROVE  \E x \in S : \A y \in S : x <= y
  <1> DEFINE R == {r \in S \X S : r[2] < r[1]}
  <1>1. \A x, y \in S : <<x, y>> \in R <=> y < x
    OBVIOUS
  <1>2. PICK x \in S : \A y \in S \ {x} : <<y, x>> \in R
    <2>1. /\ \A x, y, z \in S : <<x, y>> \in R /\ <<y, z>> \in R => <<x, z>> \in R
          /\ \A x, y \in S : x # y => <<x, y>> \in R \/ <<y, x>> \in R
      BY <1>1
    <2> HIDE DEF R
    <2> QED
      BY <2>1, LastExists
  <1> HIDE DEF R
  <1>3. ASSUME NEW y \in S PROVE x <= y
    <2>1. y = x \/ x < y
      BY <1>1, <1>2
    <2>2. x \in Int /\ y \in Int
      OBVIOUS
    <2> QED
      BY <2>1, <2>2
  <1> QED
    BY <1>3

(* What comes before x in S, and the elements with less than n before them. *)
Before(S, R, x) == {y \in S : <<y, x>> \in R}
FirstOf(S, R, n) == {x \in S : Cardinality(Before(S, R, x)) < n}

(* The first n elements of a finite set with a strict total order are n    *)
(* elements, or all there are, and nothing left out comes before them.     *)
LEMMA FirstOfOrder ==
    ASSUME NEW S, IsFiniteSet(S), NEW R, NEW n \in Nat,
           \A x \in S : <<x, x>> \notin R,
           \A x, y, z \in S : <<x, y>> \in R /\ <<y, z>> \in R => <<x, z>> \in R,
           \A x, y \in S : x # y => <<x, y>> \in R \/ <<y, x>> \in R
    PROVE  /\ Cardinality(FirstOf(S, R, n)) =
                IF Cardinality(S) < n THEN Cardinality(S) ELSE n
           /\ \A x \in FirstOf(S, R, n), y \in S \ FirstOf(S, R, n) : <<y, x>> \notin R
  <1> DEFINE F == FirstOf(S, R, n)
             before(x) == Before(S, R, x)
             N == Cardinality(S)
             rank == [x \in S |-> Cardinality(before(x))]
  <1>1. N \in Nat /\ \A x \in S : IsFiniteSet(before(x)) /\ Cardinality(before(x)) \in Nat
    <2>1. \A x \in S : before(x) \in SUBSET S
      BY DEF Before
    <2> HIDE DEF before
    <2> QED
      BY <2>1, FS_Subset, FS_CardinalityType
  <1>2. ASSUME NEW x \in S PROVE Cardinality(before(x)) < N
    <2>1. before(x) \in SUBSET S /\ before(x) # S
      BY DEF Before
    <2>2. Cardinality(before(x)) <= N /\ Cardinality(before(x)) # N
      BY <2>1, FS_Subset
    <2> HIDE DEF before, N
    <2> QED
      BY <1>1, <2>2
  <1>3. ASSUME NEW x \in S, NEW y \in S, <<x, y>> \in R
        PROVE  Cardinality(before(x)) < Cardinality(before(y))
    <2>1. before(x) \in SUBSET before(y) /\ before(x) # before(y)
      BY <1>3 DEF Before
    <2>2. /\ Cardinality(before(x)) <= Cardinality(before(y))
          /\ Cardinality(before(x)) # Cardinality(before(y))
      BY <1>1, <2>1, FS_Subset
    <2> HIDE DEF before
    <2> QED
      BY <1>1, <2>2
  <1>0. F = {x \in S : Cardinality(before(x)) < n}
    BY DEF FirstOf
  <1> HIDE DEF before, N, F
  <1>4. rank \in [S -> 0 .. N - 1] /\ \A x, y \in S : rank[x] = rank[y] => x = y
    <2>1. \A x \in S : Cardinality(before(x)) \in 0 .. N - 1
      BY <1>1, <1>2
    <2>2. \A x, y \in S : x # y => Cardinality(before(x)) # Cardinality(before(y))
      <3>1. ASSUME NEW x \in S, NEW y \in S, x # y
            PROVE  Cardinality(before(x)) # Cardinality(before(y))
        <4>1. \/ Cardinality(before(x)) < Cardinality(before(y))
              \/ Cardinality(before(y)) < Cardinality(before(x))
          BY <1>3, <3>1
        <4> QED
          BY <1>1, <4>1
      <3> QED
        BY <3>1
    <2> QED
      BY <2>1, <2>2
  <1>5. \A i \in 0 .. N - 1 : \E x \in S : rank[x] = i
    <2>1. rank \in Injection(S, 0 .. N - 1)
      BY <1>4 DEF Injection, IsInjective
    <2>2. IsFiniteSet(0 .. N - 1) /\ Cardinality(0 .. N - 1) = N
      BY <1>1, FS_Interval
    <2>3. rank \in Surjection(S, 0 .. N - 1)
      BY <2>1, <2>2, FS_Injection DEF N
    <2> QED
      BY <2>3 DEF Surjection
  <1>6. \A x \in S : rank[x] = Cardinality(before(x))
    OBVIOUS
  <1>7. F = {x \in S : rank[x] < n}
    BY <1>0, <1>6
  <1> HIDE DEF rank
  <1> DEFINE k == IF N < n THEN N ELSE n
             f == [x \in F |-> rank[x]]
  <1>8. k \in Nat /\ \A i \in 0 .. k - 1 : i \in 0 .. N - 1 /\ i < n
    BY <1>1
  <1>9. \A x \in F : x \in S /\ rank[x] \in 0 .. k - 1
    BY <1>1, <1>4, <1>7
  <1> HIDE DEF k
  <1>10. f \in Injection(F, 0 .. k - 1)
    <2>1. f \in [F -> 0 .. k - 1]
      BY <1>9
    <2> QED
      BY <1>4, <1>9, <2>1 DEF Injection, IsInjective
  <1>11. f \in Surjection(F, 0 .. k - 1)
    <2>1. \A i \in 0 .. k - 1 : \E x \in F : f[x] = i
      BY <1>5, <1>7, <1>8
    <2> QED
      BY <1>9, <2>1 DEF Surjection
  <1>12. Cardinality(F) = k
    <2>1. IsFiniteSet(0 .. k - 1) /\ Cardinality(0 .. k - 1) = k
      BY <1>8, FS_Interval
    <2> HIDE DEF f
    <2>2. Cardinality(F) = Cardinality(0 .. k - 1)
      BY <1>10, <1>11, <2>1, FS_Injection
    <2> QED
      BY <2>1, <2>2
  <1>13. ASSUME NEW x \in F, NEW y \in S \ F PROVE <<y, x>> \notin R
    <2>1. x \in S /\ y \in S /\ Cardinality(before(x)) < n /\ ~(Cardinality(before(y)) < n)
      BY <1>6, <1>7
    <2> QED
      BY <1>1, <1>3, <2>1
  <1> QED
    BY <1>12, <1>13 DEF k, N, F

(* Comparing two fractions by cross-multiplication is transitive.          *)
LEMMA RatioOrder ==
    ASSUME NEW a \in Nat, NEW b \in Nat, NEW c \in Nat,
           NEW p \in Nat \ {0}, NEW q \in Nat \ {0}, NEW r \in Nat \ {0},
           a * q >= b * p, b * r >= c * q
    PROVE  /\ a * r >= c * p
           /\ a * q > b * p \/ b * r > c * q => a * r > c * p
  <1>1. (a * q) * r >= (b * p) * r /\ (b * r) * p >= (c * q) * p
    OBVIOUS
  <1>2. /\ (a * q) * r = q * (a * r) /\ (c * q) * p = q * (c * p)
        /\ (b * p) * r = (b * r) * p
    OBVIOUS
  <1>3. /\ a * q > b * p => (a * q) * r > (b * p) * r
        /\ b * r > c * q => (b * r) * p > (c * q) * p
    OBVIOUS
  <1> DEFINE x == a * r
             y == c * p
             u == (a * q) * r
             v == (b * p) * r
             w == (c * q) * p
             z == (b * r) * p
  <1>4. x \in Int /\ y \in Int /\ u \in Int /\ v \in Int /\ w \in Int /\ z \in Int
    OBVIOUS
  <1>5. u = q * x /\ w = q * y /\ v = z /\ u >= v /\ z >= w
    BY <1>1, <1>2
  <1>6. a * q > b * p \/ b * r > c * q => u > v \/ z > w
    BY <1>3
  <1> HIDE DEF x, y, u, v, w, z
  <1>7. q * x >= q * y => x >= y
    BY <1>4
  <1>8. q * x > q * y => x > y
    BY <1>4
  <1>9. u >= w /\ (u > v \/ z > w => u > w)
    BY <1>4, <1>5
  <1> QED
    BY <1>5, <1>6, <1>7, <1>8, <1>9 DEF x, y

-----------------------------------------------------------------------------
(* The catalog.                                                            *)
HostsRecord == {"step", "keep", "create", "seen", "clean"}
GroupsRecord == HostsRecord \cup {"toDelete", "rewrite"}

(* What a request for hosts has established before its transaction.        *)
HostsPlanned(q) ==
    /\ DOMAIN q = HostsRecord /\ q.step = "hosts"
    /\ DOMAIN q.create \subseteq Nat \ {0}
    /\ \A i \in DOMAIN q.create :
         q.create[i] \in HostDraft /\ q.create[i].fqdn \notin Range(q.seen)
    /\ DOMAIN q.keep \subseteq DOMAIN q.seen
    /\ q.clean => q.seen = host

(* A request for groups, before and after its reads.                       *)
GroupsPlanned(q) ==
    /\ DOMAIN q = GroupsRecord /\ q.step \in {"groups", "members", "apply"}
    /\ DOMAIN q.create \subseteq Nat \ {0}
    /\ \A i \in DOMAIN q.create : q.create[i] \in GroupDef
    /\ \A g \in DOMAIN q.keep : q.keep[g] \in GroupDef
    /\ q.step = "members" => /\ DOMAIN q.keep \subseteq DOMAIN q.seen
                             /\ q.clean => q.seen = group
    /\ q.step = "apply" =>
         /\ q.rewrite \subseteq DOMAIN q.keep
         /\ q.clean =>
              /\ q.toDelete = DOMAIN group \ DOMAIN q.keep
              /\ DOMAIN q.keep \subseteq DOMAIN group
              /\ \A g \in DOMAIN q.keep \ q.rewrite :
                   /\ group[g] = q.keep[g].name
                   /\ MembersOf(g) = q.keep[g].hosts

CatalogIInv ==
    /\ CatalogIsSound
    /\ DOMAIN host \subseteq Id /\ DOMAIN group \subseteq Id
    /\ req = [r \in Request |-> req[r]]
    /\ \A r \in Request :
         req[r] = Idle \/ HostsPlanned(req[r]) \/ GroupsPlanned(req[r])
-----------------------------------------------------------------------------
(* Operators on rows and memberships.                                      *)
LEMMA NewIdIs ==
    ASSUME NEW S \in SUBSET Id
    PROVE  \E m \in Nat : (\A x \in S : x <= m) /\ \A i : NewId(S, i) = m + i
  <1> DEFINE T == S \cup {0}
  <1>1. Id \subseteq Nat /\ IsFiniteSet(Id)
    BY CatalogAssumption, FS_Interval DEF Id
  <1>2. T \in SUBSET Int /\ T \subseteq Nat /\ IsFiniteSet(T) /\ T # {}
    <2>1. IsFiniteSet(S)
      BY <1>1, FS_Subset
    <2> QED
      BY <1>1, <2>1, FS_AddElement
  <1> HIDE DEF T
  <1>3. \E m \in T : \A x \in T : x <= m
    BY <1>2, GreatestExists
  <1>4. \E m \in T : \A x \in T : m >= x
    BY <1>2, <1>3
  <1>5. Max(T) \in T /\ \A x \in T : Max(T) >= x
    BY <1>4 DEF Max
  <1>6. Max(T) \in Nat /\ \A x \in T : x <= Max(T)
    BY <1>2, <1>5
  <1>7. (\A x \in S : x <= Max(T)) /\ \A i : NewId(S, i) = Max(T) + i
    BY <1>6 DEF T, NewId
  <1> QED
    BY <1>6, <1>7

(* Inserted rows get ids of their own, and the others keep theirs.         *)
LEMMA InsertedIs ==
    ASSUME NEW f, DOMAIN f \subseteq Id, NEW rows, DOMAIN rows \subseteq Nat \ {0}
    PROVE  LET new == {NewId(DOMAIN f, i) : i \in DOMAIN rows}
               all == Inserted(f, rows)
           IN  /\ DOMAIN all = DOMAIN f \cup new
               /\ \A x \in DOMAIN f : all[x] = f[x] /\ x \notin new
               /\ \A i \in DOMAIN rows :
                    /\ all[NewId(DOMAIN f, i)] = rows[i]
                    /\ NewId(DOMAIN f, i) - NewId(DOMAIN f, 0) = i
  <1> DEFINE D == DOMAIN f
             n(i) == NewId(D, i)
             new == {n(i) : i \in DOMAIN rows}
             all == Inserted(f, rows)
  <1>1. PICK m \in Nat : (\A x \in D : x <= m) /\ \A i : n(i) = m + i
    BY NewIdIs
  <1>2. D \subseteq Nat
    BY CatalogAssumption DEF Id
  <1>3. all = [x \in D \cup new |->
                 IF x \in D THEN f[x] ELSE rows[CHOOSE i \in DOMAIN rows : n(i) = x]]
    BY DEF Inserted
  <1> HIDE DEF n
  <1>4. \A i \in DOMAIN rows : n(i) \in Nat /\ n(i) > m /\ n(i) - n(0) = i
    BY <1>1
  <1>5. \A i \in DOMAIN rows : n(i) \notin D
    <2>1. ASSUME NEW i \in DOMAIN rows, n(i) \in D PROVE FALSE
      BY <1>1, <1>4, <2>1
    <2> QED
      BY <2>1
  <1>6. \A i, j \in DOMAIN rows : n(i) = n(j) => i = j
    BY <1>1
  <1> HIDE DEF D, all
  <1>7. \A i \in DOMAIN rows : (CHOOSE j \in DOMAIN rows : n(j) = n(i)) = i
    BY <1>6
  <1>8. \A i \in DOMAIN rows : all[n(i)] = rows[i]
    BY <1>3, <1>5, <1>7
  <1>9. DOMAIN all = D \cup new /\ \A x \in D : all[x] = f[x] /\ x \notin new
    BY <1>3, <1>5
  <1> QED
    BY <1>4, <1>8, <1>9 DEF n, D, all

(* SetHostGroupMembership decides about its hosts and no others,           *)
(* replaceHostGroupMembers about its groups and no others.                 *)
LEMMA HostGroupsSet ==
    ASSUME NEW m, NEW groups, NEW h, NEW g
    PROVE  <<h, g>> \in SetHostGroupMembership(m, groups) <=>
             IF h \in DOMAIN groups THEN g \in groups[h] ELSE <<h, g>> \in m
  BY DEF SetHostGroupMembership

(* The same for the members of groups.                                     *)
LEMMA GroupMembersReplaced ==
    ASSUME NEW m, NEW hosts, NEW h, NEW g
    PROVE  <<h, g>> \in replaceHostGroupMembers(m, hosts) <=>
             IF g \in DOMAIN hosts THEN h \in hosts[g] ELSE <<h, g>> \in m
  BY DEF replaceHostGroupMembers

-----------------------------------------------------------------------------
(* Memberships stay within the rows there are.                             *)
LEMMA HostGroupsWithin ==
    ASSUME NEW A, NEW B, NEW m \in SUBSET (A \X B), NEW groups, Linkable(groups, A, B)
    PROVE  SetHostGroupMembership(m, groups) \subseteq A \X B
  <1> SUFFICES ASSUME NEW x \in SetHostGroupMembership(m, groups) PROVE x \in A \X B
    OBVIOUS
  <1>1. CASE x \in m
    BY <1>1
  <1>2. CASE x \notin m
    <2>1. PICK h \in DOMAIN groups : \E g \in groups[h] : x = <<h, g>>
      BY <1>2 DEF SetHostGroupMembership
    <2> QED
      BY <2>1 DEF Linkable
  <1> QED
    BY <1>1, <1>2

(* The same for the members of groups.                                     *)
LEMMA GroupMembersWithin ==
    ASSUME NEW A, NEW B, NEW m \in SUBSET (B \X A), NEW hosts, Linkable(hosts, A, B)
    PROVE  replaceHostGroupMembers(m, hosts) \subseteq B \X A
  <1> SUFFICES ASSUME NEW x \in replaceHostGroupMembers(m, hosts) PROVE x \in B \X A
    OBVIOUS
  <1>1. CASE x \in m
    BY <1>1
  <1>2. CASE x \notin m
    <2>1. PICK g \in DOMAIN hosts : x \in hosts[g] \X {g}
      BY <1>2 DEF replaceHostGroupMembers
    <2> QED
      BY <2>1 DEF Linkable
  <1> QED
    BY <1>1, <1>2

-----------------------------------------------------------------------------
(* The host rows that the transaction of q leaves, and the ones it adds.   *)
HostsLeft(q) == DOMAIN host \ (DOMAIN q.seen \ DOMAIN q.keep)
HostsNew(q) == {NewId(HostsLeft(q), i) : i \in DOMAIN q.create}

(* What the transaction of ReconcileHosts does to the tables.              *)
LEMMA HostsApplied ==
    ASSUME CatalogIInv, NEW r \in Request, ApplyHosts(r), NEW q, q = req[r]
    PROVE  /\ HostsPlanned(q) /\ group' = group /\ Commit(r)
           /\ DOMAIN host' \subseteq Id /\ Unique(host')
           /\ member' \subseteq (DOMAIN host') \X (DOMAIN group)
           /\ DOMAIN host' = HostsLeft(q) \cup HostsNew(q)
           /\ \A h \in HostsLeft(q) : host'[h] = host[h] /\ h \notin HostsNew(q)
           /\ \A i \in DOMAIN q.create : \A h : h = NewId(HostsLeft(q), i) =>
                /\ host'[h] = q.create[i].fqdn
                /\ h \notin DOMAIN q.keep => GroupsOf(h)' = q.create[i].groups
           /\ \A h \in DOMAIN q.keep : GroupsOf(h)' = q.keep[h]
  <1> DEFINE base == HostsLeft(q)
             n(i) == NewId(base, i)
             new == {n(i) : i \in DOMAIN q.create}
             left == Restricted(host, DOMAIN host \ (DOMAIN q.seen \ DOMAIN q.keep))
             fqdns == [i \in DOMAIN q.create |-> q.create[i].fqdn]
             rows == Inserted(left, fqdns)
             newGroups == [x \in new |-> q.create[x - n(0)].groups]
             created == SetHostGroupMembership(CascadeHosts(member, base), newGroups)
  <1>1. DOMAIN left = base /\ \A x \in base : left[x] = host[x]
    BY DEF HostsLeft, Restricted
  <1>2. /\ q.step = "hosts" /\ new \subseteq Id /\ Unique(rows)
        /\ Linkable(newGroups, DOMAIN rows, DOMAIN group)
        /\ Linkable(q.keep, DOMAIN rows, DOMAIN group)
        /\ host' = rows /\ member' = SetHostGroupMembership(created, q.keep)
        /\ Commit(r) /\ group' = group
    <2> HIDE DEF left, fqdns
    <2> QED
      BY <1>1 DEF ApplyHosts, left, fqdns
  <1>3. HostsPlanned(q)
    BY <1>2 DEF CatalogIInv, GroupsPlanned, Idle
  <1>4. /\ base \subseteq Id /\ base \subseteq DOMAIN host
        /\ member \subseteq (DOMAIN host) \X (DOMAIN group)
    BY DEF CatalogIInv, CatalogIsSound, HostsLeft
  <1>5. DOMAIN fqdns = DOMAIN q.create /\ DOMAIN q.create \subseteq Nat \ {0}
    BY <1>3 DEF HostsPlanned
  <1> HIDE DEF left, base, fqdns, rows, newGroups, created
  <1>6. /\ DOMAIN rows = base \cup new
        /\ \A x \in base : rows[x] = host[x] /\ x \notin new
        /\ \A i \in DOMAIN q.create : rows[n(i)] = fqdns[i] /\ n(i) - n(0) = i
    <2>1. DOMAIN left \subseteq Id /\ DOMAIN fqdns \subseteq Nat \ {0}
      BY <1>1, <1>4, <1>5
    <2> DEFINE ids == {NewId(DOMAIN left, i) : i \in DOMAIN fqdns}
    <2>2. /\ DOMAIN rows = DOMAIN left \cup ids
          /\ \A x \in DOMAIN left : rows[x] = left[x] /\ x \notin ids
          /\ \A i \in DOMAIN fqdns :
               /\ rows[NewId(DOMAIN left, i)] = fqdns[i]
               /\ NewId(DOMAIN left, i) - NewId(DOMAIN left, 0) = i
      BY <2>1, InsertedIs DEF rows
    <2>3. ids = new /\ DOMAIN left = base
      BY <1>1, <1>5
    <2> HIDE DEF ids
    <2> QED
      BY <1>1, <1>5, <2>2, <2>3
  <1>7. \A i \in DOMAIN q.create : rows[n(i)] = q.create[i].fqdn
    BY <1>6 DEF fqdns
  <1>8. DOMAIN rows \subseteq Id
    BY <1>2, <1>4, <1>6
  <1>9. member' \subseteq (DOMAIN rows) \X (DOMAIN group)
    <2>1. CascadeHosts(member, base) \in SUBSET ((DOMAIN rows) \X (DOMAIN group))
      BY <1>4, <1>6 DEF CascadeHosts
    <2>2. created \in SUBSET ((DOMAIN rows) \X (DOMAIN group))
      BY <1>2, <2>1, HostGroupsWithin DEF created
    <2> QED
      BY <1>2, <2>2, HostGroupsWithin
  <1>10. ASSUME NEW i \in DOMAIN q.create, NEW h, h = n(i), h \notin DOMAIN q.keep
         PROVE  GroupsOf(h)' = q.create[i].groups
    <2>1. h \in DOMAIN newGroups /\ newGroups[h] = q.create[i].groups
      BY <1>6, <1>10 DEF newGroups
    <2>2. newGroups[h] \subseteq DOMAIN group
      BY <1>2, <2>1 DEF Linkable
    <2>3. \A g : <<h, g>> \in member' <=> g \in newGroups[h]
      BY <1>2, <1>10, <2>1, HostGroupsSet DEF created
    <2> QED
      BY <1>2, <2>1, <2>2, <2>3 DEF GroupsOf
  <1>11. ASSUME NEW h \in DOMAIN q.keep PROVE GroupsOf(h)' = q.keep[h]
    <2>1. q.keep[h] \subseteq DOMAIN group
      BY <1>2 DEF Linkable
    <2>2. \A g : <<h, g>> \in member' <=> g \in q.keep[h]
      BY <1>2, HostGroupsSet
    <2> QED
      BY <1>2, <2>1, <2>2 DEF GroupsOf
  <1> QED
    BY <1>2, <1>3, <1>6, <1>7, <1>8, <1>9, <1>10, <1>11 DEF base, HostsNew

GroupsLeft(q) == DOMAIN group \ q.toDelete
GroupsNew(q) == {NewId(GroupsLeft(q), i) : i \in DOMAIN q.create}

(* What the transaction of ReconcileHostGroups does to the tables.         *)
LEMMA GroupsApplied ==
    ASSUME CatalogIInv, NEW r \in Request, ApplyGroups(r), NEW q, q = req[r]
    PROVE  /\ GroupsPlanned(q) /\ q.step = "apply" /\ host' = host /\ Commit(r)
           /\ DOMAIN group' \subseteq Id /\ Unique(group')
           /\ member' \subseteq (DOMAIN host) \X (DOMAIN group')
           /\ DOMAIN group' = GroupsLeft(q) \cup GroupsNew(q)
           /\ q.rewrite \subseteq GroupsLeft(q)
           /\ \A g \in q.rewrite :
                group'[g] = q.keep[g].name /\ MembersOf(g)' = q.keep[g].hosts
           /\ \A g \in GroupsLeft(q) \ q.rewrite :
                group'[g] = group[g] /\ MembersOf(g)' = MembersOf(g)
           /\ \A i \in DOMAIN q.create : \A g : g = NewId(GroupsLeft(q), i) =>
                /\ group'[g] = q.create[i].name
                /\ MembersOf(g)' = q.create[i].hosts
  <1> DEFINE base == GroupsLeft(q)
             n(i) == NewId(base, i)
             new == {n(i) : i \in DOMAIN q.create}
             left == Restricted(group, DOMAIN group \ q.toDelete)
             renamed == [g \in base |-> IF g \in q.rewrite THEN q.keep[g].name
                                                          ELSE left[g]]
             names == [i \in DOMAIN q.create |-> q.create[i].name]
             rows == Inserted(renamed, names)
             hosts == [g \in q.rewrite \cup new |->
                         IF g \in q.rewrite THEN q.keep[g].hosts
                         ELSE q.create[g - n(0)].hosts]
             kept == {x \in member : x[2] \in base}
  <1>1. DOMAIN left = base /\ \A x \in base : left[x] = group[x]
    BY DEF GroupsLeft, Restricted
  <1>2. /\ q.step = "apply" /\ new \subseteq Id /\ Unique(rows)
        /\ q.rewrite \subseteq base
        /\ Linkable(hosts, DOMAIN rows, DOMAIN host)
        /\ group' = rows /\ member' = replaceHostGroupMembers(kept, hosts)
        /\ Commit(r) /\ host' = host
    <2> HIDE DEF left
    <2> QED
      BY <1>1 DEF ApplyGroups, left
  <1>3. GroupsPlanned(q)
    BY <1>2 DEF CatalogIInv, HostsPlanned, Idle
  <1>4. /\ base \subseteq Id /\ base \subseteq DOMAIN group
        /\ member \subseteq (DOMAIN host) \X (DOMAIN group)
    BY DEF CatalogIInv, CatalogIsSound, GroupsLeft
  <1>5. DOMAIN names = DOMAIN q.create /\ DOMAIN q.create \subseteq Nat \ {0}
    BY <1>3 DEF GroupsPlanned
  <1>6. DOMAIN renamed = base
    OBVIOUS
  <1> HIDE DEF left, base, names, renamed, rows, hosts, kept
  <1>7. /\ DOMAIN rows = base \cup new
        /\ \A x \in base : rows[x] = renamed[x] /\ x \notin new
        /\ \A i \in DOMAIN q.create : rows[n(i)] = names[i] /\ n(i) - n(0) = i
    <2>1. DOMAIN renamed \subseteq Id /\ DOMAIN names \subseteq Nat \ {0}
      BY <1>4, <1>5, <1>6
    <2> DEFINE ids == {NewId(DOMAIN renamed, i) : i \in DOMAIN names}
    <2>2. /\ DOMAIN rows = DOMAIN renamed \cup ids
          /\ \A x \in DOMAIN renamed : rows[x] = renamed[x] /\ x \notin ids
          /\ \A i \in DOMAIN names :
               /\ rows[NewId(DOMAIN renamed, i)] = names[i]
               /\ NewId(DOMAIN renamed, i) - NewId(DOMAIN renamed, 0) = i
      BY <2>1, InsertedIs DEF rows
    <2>3. ids = new /\ DOMAIN renamed = base
      BY <1>5, <1>6
    <2> HIDE DEF ids
    <2> QED
      BY <1>5, <1>6, <2>2, <2>3
  <1>8. /\ \A i \in DOMAIN q.create : rows[n(i)] = q.create[i].name
        /\ \A g \in q.rewrite : rows[g] = q.keep[g].name
        /\ \A g \in base \ q.rewrite : rows[g] = group[g]
    BY <1>1, <1>2, <1>7 DEF names, renamed
  <1>9. DOMAIN rows \subseteq Id
    BY <1>2, <1>4, <1>7
  <1>10. member' \subseteq (DOMAIN host) \X (DOMAIN rows)
    <2>1. kept \in SUBSET ((DOMAIN host) \X (DOMAIN rows))
      BY <1>4, <1>7 DEF kept
    <2> QED
      BY <1>2, <2>1, GroupMembersWithin
  <1>11. ASSUME NEW g \in DOMAIN hosts PROVE MembersOf(g)' = hosts[g]
    <2>1. hosts[g] \subseteq DOMAIN host
      BY <1>2 DEF Linkable
    <2>2. \A h : <<h, g>> \in member' <=> h \in hosts[g]
      BY <1>2, GroupMembersReplaced
    <2> QED
      BY <1>2, <2>1, <2>2 DEF MembersOf
  <1>12. DOMAIN hosts = q.rewrite \cup new
    BY DEF hosts
  <1>13. ASSUME NEW g \in q.rewrite PROVE MembersOf(g)' = q.keep[g].hosts
    <2>1. g \in DOMAIN hosts /\ hosts[g] = q.keep[g].hosts
      BY DEF hosts
    <2> QED
      BY <1>11, <2>1
  <1>14. ASSUME NEW i \in DOMAIN q.create, NEW g, g = n(i)
         PROVE  MembersOf(g)' = q.create[i].hosts
    <2>1. g \in new /\ g \notin q.rewrite
      BY <1>2, <1>7, <1>14
    <2>2. g \in DOMAIN hosts /\ hosts[g] = q.create[i].hosts
      BY <1>7, <1>14, <2>1 DEF hosts
    <2> QED
      BY <1>11, <2>2
  <1>15. ASSUME NEW g \in base \ q.rewrite PROVE MembersOf(g)' = MembersOf(g)
    <2>1. g \notin DOMAIN hosts
      BY <1>7, <1>12
    <2>2. \A h : <<h, g>> \in member' <=> <<h, g>> \in kept
      BY <1>2, <2>1, GroupMembersReplaced
    <2>3. \A h : <<h, g>> \in kept <=> <<h, g>> \in member
      BY DEF kept
    <2> QED
      BY <1>2, <2>2, <2>3 DEF MembersOf
  <1> QED
    BY <1>2, <1>3, <1>7, <1>8, <1>9, <1>10, <1>13, <1>14, <1>15 DEF base, GroupsNew

-----------------------------------------------------------------------------
(* Empty tables and no requests.                                           *)
LEMMA CatalogInitIInv == Init => CatalogIInv
  <1> SUFFICES ASSUME Init PROVE CatalogIInv
    OBVIOUS
  <1>1. host = <<>> /\ group = <<>> /\ member = {} /\ req = [r \in Request |-> Idle]
    BY DEF Init
  <1>2. DOMAIN host = {} /\ DOMAIN group = {}
    BY <1>1
  <1> QED
    BY <1>1, <1>2 DEF CatalogIInv, CatalogIsSound, Unique

(* A commit leaves the other requests with a stale image, marked as such.  *)
LEMMA CommitKeeps ==
    ASSUME CatalogIInv, NEW r \in Request, Commit(r),
           CatalogIsSound', DOMAIN host' \subseteq Id, DOMAIN group' \subseteq Id
    PROVE  CatalogIInv'
  <1>1. req' = [x \in Request |-> req'[x]]
    BY DEF Commit
  <1>2. ASSUME NEW x \in Request
        PROVE  (req[x] = Idle \/ HostsPlanned(req[x]) \/ GroupsPlanned(req[x]))'
    <2>1. CASE req'[x] = Idle
      BY <2>1 DEF Idle
    <2>2. CASE req'[x] # Idle
      <3> DEFINE q == req[x]
                 p == [q EXCEPT !.clean = FALSE]
      <3>1. req'[x] = p /\ q # Idle
        BY <2>2 DEF Commit
      <3>2. CASE HostsPlanned(q)
        <4>1. /\ DOMAIN p = DOMAIN q /\ p.clean = FALSE /\ p.step = q.step
              /\ p.keep = q.keep /\ p.create = q.create /\ p.seen = q.seen
          BY <3>2 DEF HostsPlanned, HostsRecord
        <4> HIDE DEF p, q
        <4> QED
          BY <3>1, <3>2, <4>1 DEF HostsPlanned, HostDraft
      <3>3. CASE GroupsPlanned(q)
        <4>1. /\ DOMAIN p = DOMAIN q /\ p.clean = FALSE /\ p.step = q.step
              /\ p.keep = q.keep /\ p.create = q.create /\ p.seen = q.seen
              /\ p.rewrite = q.rewrite /\ p.toDelete = q.toDelete
          BY <3>3 DEF GroupsPlanned, GroupsRecord, HostsRecord
        <4> HIDE DEF p, q
        <4> QED
          BY <3>1, <3>3, <4>1 DEF GroupsPlanned, GroupDef
      <3> QED
        BY <3>1, <3>2, <3>3 DEF CatalogIInv
    <2> QED
      BY <2>1, <2>2
  <1> QED
    BY <1>1, <1>2 DEF CatalogIInv

(* A step that changes the record of one request and no table.             *)
LEMMA RequestKeeps ==
    ASSUME CatalogIInv, NEW r \in Request, NEW p, req' = [req EXCEPT ![r] = p],
           UNCHANGED <<host, group, member>>,
           p = Idle \/ HostsPlanned(p) \/ GroupsPlanned(p)
    PROVE  CatalogIInv'
  <1>1. req' = [x \in Request |-> IF x = r THEN p ELSE req[x]]
    BY DEF CatalogIInv
  <1>2. \A x : /\ HostsPlanned(x)' <=> HostsPlanned(x)
               /\ GroupsPlanned(x)' <=> GroupsPlanned(x)
    BY DEF HostsPlanned, GroupsPlanned, MembersOf
  <1>3. CatalogIsSound'
    BY DEF CatalogIInv, CatalogIsSound, Unique
  <1> QED
    BY <1>1, <1>2, <1>3 DEF CatalogIInv

(* What a client may send.                                                 *)
LEMMA ImagesAre ==
    ASSUME NEW kept, NEW new, NEW i \in Fitting(Images(kept, new))
    PROVE  /\ DOMAIN i.create \subseteq Nat \ {0}
           /\ \A j \in DOMAIN i.create : i.create[j] \in new
           /\ \A x \in DOMAIN i.keep : i.keep[x] \in kept
  <1>1. PICK k \in Partial(Id, kept), c \in BoundedSeq(new, MaxImage) :
           i = [keep |-> k, create |-> c]
    BY DEF Fitting, Images
  <1>2. PICK m \in 0 .. MaxImage : c \in [1 .. m -> new]
    BY DEF BoundedSeq, SeqOf
  <1>3. PICK S \in SUBSET Id : k \in [S -> kept]
    BY DEF Partial
  <1>4. m \in Nat
    BY CatalogAssumption
  <1>5. DOMAIN c \subseteq Nat \ {0}
    BY <1>2, <1>4
  <1> QED
    BY <1>1, <1>2, <1>3, <1>5

(* ReconcileHosts has refused what its plan may not hold.                  *)
LEMMA ReconcileHostsKeeps ==
    ASSUME CatalogIInv, NEW r \in Request, NEW i \in HostImages,
           ReconcileHosts(r, i.keep, i.create)
    PROVE  CatalogIInv'
  <1> DEFINE p == [step |-> "hosts", keep |-> i.keep, create |-> i.create,
                   seen |-> host, clean |-> TRUE]
  <1>1. /\ DOMAIN i.create \subseteq Nat \ {0}
        /\ \A j \in DOMAIN i.create : i.create[j] \in HostDraft
    BY ImagesAre DEF HostImages
  <1>2. HostsPlanned(p)
    BY <1>1 DEF HostsPlanned, HostsRecord, ReconcileHosts
  <1>3. req' = [req EXCEPT ![r] = p] /\ UNCHANGED <<host, group, member>>
    BY DEF ReconcileHosts
  <1> QED
    BY <1>2, <1>3, RequestKeeps

(* ReconcileHostGroups has read nothing yet that its plan uses.            *)
LEMMA ReconcileHostGroupsKeeps ==
    ASSUME CatalogIInv, NEW r \in Request, NEW i \in GroupImages,
           ReconcileHostGroups(r, i.keep, i.create)
    PROVE  CatalogIInv'
  <1> DEFINE p == [step |-> "groups", keep |-> i.keep, create |-> i.create,
                   seen |-> <<>>, toDelete |-> {}, rewrite |-> {}, clean |-> TRUE]
  <1>1. /\ DOMAIN i.create \subseteq Nat \ {0}
        /\ \A j \in DOMAIN i.create : i.create[j] \in GroupDef
        /\ \A g \in DOMAIN i.keep : i.keep[g] \in GroupDef
    BY ImagesAre DEF GroupImages
  <1>2. GroupsPlanned(p)
    BY <1>1 DEF GroupsPlanned, GroupsRecord, HostsRecord
  <1>3. req' = [req EXCEPT ![r] = p] /\ UNCHANGED <<host, group, member>>
    BY DEF ReconcileHostGroups
  <1> QED
    BY <1>2, <1>3, RequestKeeps

(* ListHostGroups has refused unknown groups.                              *)
LEMMA ListHostGroupsKeeps ==
    ASSUME CatalogIInv, NEW r \in Request, ListHostGroups(r)
    PROVE  CatalogIInv'
  <1> DEFINE q == req[r]
             p == [q EXCEPT !.step = "members", !.seen = group]
  <1>1. q.step = "groups" /\ DOMAIN q.keep \subseteq DOMAIN group
    BY DEF ListHostGroups
  <1>2. GroupsPlanned(q)
    BY <1>1 DEF CatalogIInv, HostsPlanned, Idle
  <1>3. GroupsPlanned(p)
    <2>1. /\ DOMAIN p = DOMAIN q /\ p.step = "members" /\ p.seen = group
          /\ p.keep = q.keep /\ p.create = q.create
      BY <1>2 DEF GroupsPlanned, GroupsRecord, HostsRecord
    <2> HIDE DEF p
    <2> QED
      BY <1>1, <1>2, <2>1 DEF GroupsPlanned
  <1>4. req' = [req EXCEPT ![r] = p] /\ UNCHANGED <<host, group, member>>
    BY DEF ListHostGroups, CatalogIInv
  <1> QED
    BY <1>3, <1>4, RequestKeeps

(* What the plan leaves alone is as desired, if nobody committed since.    *)
LEMMA PlanHostGroupsKeeps ==
    ASSUME CatalogIInv, NEW r \in Request, PlanHostGroups(r)
    PROVE  CatalogIInv'
  <1> DEFINE q == req[r]
             keep == q.keep
             members(g) == {x[1] : x \in {y \in member : y[2] = g}}
             differ == {g \in DOMAIN keep : ~SameDefinitionAs(
                           q.seen[g], members(g), keep[g])}
  <1>1. q.step = "members" /\ UNCHANGED <<host, group, member>>
    BY DEF PlanHostGroups
  <1>2. GroupsPlanned(q)
    BY <1>1 DEF CatalogIInv, HostsPlanned, Idle
  <1>3. PICK S \in SUBSET (DOMAIN keep \ differ) :
           req' = [req EXCEPT ![r].step = "apply", ![r].seen = <<>>,
                              ![r].toDelete = DOMAIN q.seen \ DOMAIN keep,
                              ![r].rewrite = differ \cup S]
    BY DEF PlanHostGroups
  <1> DEFINE p == [q EXCEPT !.step = "apply", !.seen = <<>>,
                            !.toDelete = DOMAIN q.seen \ DOMAIN keep,
                            !.rewrite = differ \cup S]
  <1>4. GroupsPlanned(p)
    <2>1. /\ DOMAIN p = DOMAIN q /\ p.step = "apply" /\ p.keep = keep
          /\ p.create = q.create /\ p.clean = q.clean
          /\ p.toDelete = DOMAIN q.seen \ DOMAIN keep /\ p.rewrite = differ \cup S
      BY <1>2 DEF GroupsPlanned, GroupsRecord, HostsRecord
    <2>2. \A g \in DOMAIN keep \ (differ \cup S) :
             q.seen[g] = keep[g].name /\ members(g) = keep[g].hosts
      BY DEF SameDefinitionAs
    <2>3. \A g : members(g) = MembersOf(g)
      BY DEF CatalogIInv, CatalogIsSound, MembersOf
    <2>4. differ \cup S \subseteq DOMAIN keep
      OBVIOUS
    <2>5. DOMAIN keep \subseteq DOMAIN q.seen /\ (q.clean => q.seen = group)
      BY <1>1, <1>2 DEF GroupsPlanned
    <2> HIDE DEF p, differ, members
    <2>6. q.clean =>
            /\ p.toDelete = DOMAIN group \ DOMAIN keep
            /\ DOMAIN keep \subseteq DOMAIN group
            /\ \A g \in DOMAIN keep \ p.rewrite :
                 group[g] = keep[g].name /\ MembersOf(g) = keep[g].hosts
      BY <2>1, <2>2, <2>3, <2>5
    <2> QED
      BY <1>2, <2>1, <2>4, <2>6 DEF GroupsPlanned
  <1>5. req' = [req EXCEPT ![r] = p]
    BY <1>3 DEF CatalogIInv
  <1> HIDE DEF p
  <1> QED
    BY <1>1, <1>4, <1>5, RequestKeeps

(* One step per action; the commits are HostsApplied and GroupsApplied.    *)
LEMMA CatalogNextIInv == CatalogIInv /\ [Next]_vars => CatalogIInv'
  <1> SUFFICES ASSUME CatalogIInv, [Next]_vars PROVE CatalogIInv'
    OBVIOUS
  <1>1. ASSUME NEW r \in Request, ApplyHosts(r) PROVE CatalogIInv'
    <2>1. /\ group' = group /\ Commit(r) /\ DOMAIN host' \subseteq Id
          /\ Unique(host') /\ member' \subseteq (DOMAIN host') \X (DOMAIN group)
      BY <1>1, HostsApplied
    <2>2. CatalogIsSound' /\ DOMAIN group' \subseteq Id
      BY <2>1 DEF CatalogIInv, CatalogIsSound, Unique
    <2> QED
      BY <2>1, <2>2, CommitKeeps
  <1>2. ASSUME NEW r \in Request, ApplyGroups(r) PROVE CatalogIInv'
    <2>1. /\ host' = host /\ Commit(r) /\ DOMAIN group' \subseteq Id
          /\ Unique(group') /\ member' \subseteq (DOMAIN host) \X (DOMAIN group')
      BY <1>2, GroupsApplied
    <2>2. CatalogIsSound' /\ DOMAIN host' \subseteq Id
      BY <2>1 DEF CatalogIInv, CatalogIsSound, Unique
    <2> QED
      BY <2>1, <2>2, CommitKeeps
  <1>3. ASSUME NEW r \in Request, Fail(r) PROVE CatalogIInv'
    BY <1>3, RequestKeeps DEF Fail
  <1>4. CASE UNCHANGED vars
    <2>1. \A x : /\ HostsPlanned(x)' <=> HostsPlanned(x)
                 /\ GroupsPlanned(x)' <=> GroupsPlanned(x)
      BY <1>4 DEF HostsPlanned, GroupsPlanned, MembersOf, vars
    <2> QED
      BY <1>4, <2>1 DEF CatalogIInv, CatalogIsSound, Unique, vars
  <1> QED
    BY <1>1, <1>2, <1>3, <1>4, ReconcileHostsKeeps, ReconcileHostGroupsKeeps,
       ListHostGroupsKeeps, PlanHostGroupsKeeps DEF Next

(* The tables are sound, and a request knows what it needs to know.        *)
THEOREM CatalogInvariance == Spec => []CatalogIInv
  BY CatalogInitIInv, CatalogNextIInv, PTL DEF Spec

(* Names identify rows and memberships join rows that exist, whatever plan *)
(* the transactions of hosts/reconcile_*.go apply to whatever rows.        *)
THEOREM CatalogStaysSound == Spec => []CatalogIsSound
  <1>1. CatalogIInv => CatalogIsSound
    BY DEF CatalogIInv
  <1> QED
    BY CatalogInvariance, <1>1, PTL

-----------------------------------------------------------------------------
(* The tables after a ReconcileHosts that succeeds.                        *)
LEMMA HostsConverged ==
    ASSUME CatalogIInv, NEW r \in Request, ApplyHosts(r), NEW q, q = req[r]
    PROVE  /\ \A d \in Range(q.create) : \E h \in DOMAIN host' :
                /\ host'[h] = d.fqdn
                /\ h \notin DOMAIN q.keep => GroupsOf(h)' = d.groups
           /\ \A h \in DOMAIN host' \cap DOMAIN q.seen :
                host'[h] = q.seen[h] =>
                   h \in DOMAIN q.keep /\ GroupsOf(h)' = q.keep[h]
           /\ q.clean => GetAllHostsWithGroups' = HostImage(q)
  <1>1. /\ HostsPlanned(q)
        /\ DOMAIN host' = HostsLeft(q) \cup HostsNew(q)
        /\ \A h \in HostsLeft(q) : host'[h] = host[h] /\ h \notin HostsNew(q)
        /\ \A i \in DOMAIN q.create : \A h : h = NewId(HostsLeft(q), i) =>
             /\ host'[h] = q.create[i].fqdn
             /\ h \notin DOMAIN q.keep => GroupsOf(h)' = q.create[i].groups
        /\ \A h \in DOMAIN q.keep : GroupsOf(h)' = q.keep[h]
    BY HostsApplied
  <1>2. /\ \A i \in DOMAIN q.create :
             q.create[i] \in HostDraft /\ q.create[i].fqdn \notin Range(q.seen)
        /\ DOMAIN q.keep \subseteq DOMAIN q.seen
        /\ q.clean => q.seen = host
    BY <1>1 DEF HostsPlanned
  <1>3. \A h \in HostsNew(q) : \E i \in DOMAIN q.create : h = NewId(HostsLeft(q), i)
    BY DEF HostsNew
  <1>4. \A i \in DOMAIN q.create : NewId(HostsLeft(q), i) \in HostsNew(q)
    BY DEF HostsNew
  <1>5. ASSUME NEW d \in Range(q.create)
        PROVE  \E h \in DOMAIN host' :
                  /\ host'[h] = d.fqdn
                  /\ h \notin DOMAIN q.keep => GroupsOf(h)' = d.groups
    <2>1. PICK i \in DOMAIN q.create : d = q.create[i]
      BY DEF Range
    <2>2. PICK h : h = NewId(HostsLeft(q), i)
      OBVIOUS
    <2> QED
      BY <1>1, <1>4, <2>1, <2>2
  <1>6. ASSUME NEW h \in DOMAIN host' \cap DOMAIN q.seen, host'[h] = q.seen[h]
        PROVE  h \in DOMAIN q.keep /\ GroupsOf(h)' = q.keep[h]
    <2>1. h \notin HostsNew(q)
      <3> SUFFICES ASSUME h \in HostsNew(q) PROVE FALSE
        OBVIOUS
      <3>1. PICK i \in DOMAIN q.create : h = NewId(HostsLeft(q), i)
        BY <1>3
      <3>2. q.seen[h] \in Range(q.seen)
        BY DEF Range
      <3> QED
        BY <1>1, <1>2, <1>6, <3>1, <3>2
    <2>2. h \in HostsLeft(q)
      BY <1>1, <2>1
    <2>3. h \in DOMAIN q.keep
      BY <2>2 DEF HostsLeft
    <2> QED
      BY <1>1, <2>3
  <1>7. ASSUME q.clean PROVE GetAllHostsWithGroups' = HostImage(q)
    <2> DEFINE kept(h) == [fqdn |-> q.seen[h], groups |-> q.keep[h]]
               shown == GetAllHostsWithGroups'
    <2>1. HostsLeft(q) = DOMAIN q.keep /\ q.seen = host
      BY <1>2, <1>7 DEF HostsLeft
    <2>2. shown = {[fqdn |-> host'[h], groups |-> GroupsOf(h)'] : h \in DOMAIN host'}
      BY DEF GetAllHostsWithGroups
    <2>3. HostImage(q) = {kept(h) : h \in DOMAIN q.keep} \cup Range(q.create)
      BY DEF HostImage
    <2>4. ASSUME NEW h \in DOMAIN q.keep
          PROVE  /\ h \in DOMAIN host'
                 /\ [fqdn |-> host'[h], groups |-> GroupsOf(h)'] = kept(h)
      BY <1>1, <2>1
    <2>5. ASSUME NEW i \in DOMAIN q.create, NEW h, h = NewId(HostsLeft(q), i)
          PROVE  /\ h \in DOMAIN host'
                 /\ [fqdn |-> host'[h], groups |-> GroupsOf(h)'] = q.create[i]
      <3>1. h \in HostsNew(q)
        BY <1>4, <2>5
      <3>2. h \notin DOMAIN q.keep
        BY <1>1, <2>1, <3>1
      <3>3. host'[h] = q.create[i].fqdn /\ GroupsOf(h)' = q.create[i].groups
        BY <1>1, <2>5, <3>2
      <3>4. q.create[i] = [fqdn |-> q.create[i].fqdn, groups |-> q.create[i].groups]
        BY <1>2 DEF HostDraft
      <3> QED
        BY <1>1, <3>1, <3>3, <3>4
    <2> HIDE DEF kept, shown
    <2>6. ASSUME NEW x \in shown PROVE x \in HostImage(q)
      <3>1. PICK h \in DOMAIN host' : x = [fqdn |-> host'[h], groups |-> GroupsOf(h)']
        BY <2>2
      <3>2. CASE h \in DOMAIN q.keep
        BY <2>3, <2>4, <3>1, <3>2
      <3>3. CASE h \notin DOMAIN q.keep
        <4>1. PICK i \in DOMAIN q.create : h = NewId(HostsLeft(q), i)
          BY <1>1, <1>3, <2>1, <3>1, <3>3
        <4>2. x = q.create[i]
          BY <2>5, <3>1, <4>1
        <4> QED
          BY <2>3, <4>2 DEF Range
      <3> QED
        BY <3>2, <3>3
    <2>7. ASSUME NEW x \in HostImage(q) PROVE x \in shown
      <3>1. CASE x \in Range(q.create)
        <4>1. PICK i \in DOMAIN q.create : x = q.create[i]
          BY <3>1 DEF Range
        <4>2. PICK h : h = NewId(HostsLeft(q), i)
          OBVIOUS
        <4> QED
          BY <2>2, <2>5, <4>1, <4>2
      <3>2. CASE x \notin Range(q.create)
        <4>1. PICK h \in DOMAIN q.keep : x = kept(h)
          BY <2>3, <3>2
        <4> QED
          BY <2>2, <2>4, <4>1
      <3> QED
        BY <3>1, <3>2
    <2> QED
      BY <2>6, <2>7 DEF shown
  <1> QED
    BY <1>5, <1>6, <1>7

(* hosts/reconcile_hosts.go:81-88: an edit of the hosts that succeeds has  *)
(* done what it was asked, and exactly that if nobody came in between.     *)
THEOREM HostsReachTheImage == Spec => HostsConverge
  <1> DEFINE A == \A r \in Request : ApplyHosts(r) =>
          LET q == req[r] IN
          /\ \A d \in Range(q.create) : \E h \in DOMAIN host' :
                /\ host'[h] = d.fqdn
                /\ h \notin DOMAIN q.keep => GroupsOf(h)' = d.groups
          /\ \A h \in DOMAIN host' \cap DOMAIN q.seen :
                host'[h] = q.seen[h] =>
                   h \in DOMAIN q.keep /\ GroupsOf(h)' = q.keep[h]
          /\ q.clean => GetAllHostsWithGroups' = HostImage(q)
  <1>1. CatalogIInv /\ [Next]_vars => [A]_vars
    BY HostsConverged
  <1>2. HostsConverge <=> [][A]_vars
    BY DEF HostsConverge
  <1> HIDE DEF A
  <1> QED
    BY <1>1, <1>2, CatalogInvariance, PTL DEF Spec

(* The tables after a ReconcileHostGroups that succeeds.                   *)
LEMMA GroupsConverged ==
    ASSUME CatalogIInv, NEW r \in Request, ApplyGroups(r), NEW q, q = req[r]
    PROVE  /\ Range(q.create) \cup {q.keep[g] : g \in q.rewrite}
                \subseteq GetHostGroups'
           /\ q.clean => GetHostGroups' = GroupImage(q)
  <1> DEFINE shown == GetHostGroups'
  <1>1. /\ GroupsPlanned(q) /\ q.step = "apply" /\ host' = host
        /\ DOMAIN group' = GroupsLeft(q) \cup GroupsNew(q)
        /\ q.rewrite \subseteq GroupsLeft(q)
        /\ \A g \in q.rewrite :
             group'[g] = q.keep[g].name /\ MembersOf(g)' = q.keep[g].hosts
        /\ \A g \in GroupsLeft(q) \ q.rewrite :
             group'[g] = group[g] /\ MembersOf(g)' = MembersOf(g)
        /\ \A i \in DOMAIN q.create : \A g : g = NewId(GroupsLeft(q), i) =>
             group'[g] = q.create[i].name /\ MembersOf(g)' = q.create[i].hosts
    BY GroupsApplied
  <1>2. /\ \A i \in DOMAIN q.create :
             q.create[i] = [name |-> q.create[i].name, hosts |-> q.create[i].hosts]
        /\ \A g \in DOMAIN q.keep :
             q.keep[g] = [name |-> q.keep[g].name, hosts |-> q.keep[g].hosts]
        /\ q.rewrite \subseteq DOMAIN q.keep
    BY <1>1 DEF GroupsPlanned, GroupDef
  <1>3. shown = {[name |-> group'[g], hosts |-> MembersOf(g)'] : g \in DOMAIN group'}
    BY DEF GetHostGroups
  <1> HIDE DEF shown
  <1>4. ASSUME NEW i \in DOMAIN q.create, NEW g, g = NewId(GroupsLeft(q), i)
        PROVE  /\ g \in DOMAIN group'
               /\ [name |-> group'[g], hosts |-> MembersOf(g)'] = q.create[i]
    <2>1. g \in GroupsNew(q)
      BY <1>4 DEF GroupsNew
    <2>2. group'[g] = q.create[i].name /\ MembersOf(g)' = q.create[i].hosts
      BY <1>1, <1>4
    <2> QED
      BY <1>1, <1>2, <2>1, <2>2
  <1>5. ASSUME NEW g \in q.rewrite
        PROVE  /\ g \in DOMAIN group' /\ g \in DOMAIN q.keep
               /\ [name |-> group'[g], hosts |-> MembersOf(g)'] = q.keep[g]
    <2>1. group'[g] = q.keep[g].name /\ MembersOf(g)' = q.keep[g].hosts
      BY <1>1
    <2> QED
      BY <1>1, <1>2, <2>1
  <1>6. Range(q.create) \subseteq shown
    <2>1. ASSUME NEW i \in DOMAIN q.create PROVE q.create[i] \in shown
      <3>1. PICK g : g = NewId(GroupsLeft(q), i)
        OBVIOUS
      <3> QED
        BY <1>3, <1>4, <3>1
    <2> QED
      BY <2>1 DEF Range
  <1>7. {q.keep[g] : g \in q.rewrite} \subseteq shown
    BY <1>3, <1>5
  <1>8. ASSUME q.clean PROVE shown = GroupImage(q)
    <2>1. /\ GroupsLeft(q) = DOMAIN q.keep
          /\ \A g \in DOMAIN q.keep \ q.rewrite :
               group[g] = q.keep[g].name /\ MembersOf(g) = q.keep[g].hosts
      BY <1>1, <1>8 DEF GroupsPlanned, GroupsLeft
    <2>2. ASSUME NEW g \in DOMAIN q.keep
          PROVE  /\ g \in DOMAIN group'
                 /\ [name |-> group'[g], hosts |-> MembersOf(g)'] = q.keep[g]
      <3>1. CASE g \in q.rewrite
        BY <1>5, <3>1
      <3>2. CASE g \notin q.rewrite
        <4>1. group'[g] = q.keep[g].name /\ MembersOf(g)' = q.keep[g].hosts
          BY <1>1, <2>1, <3>2
        <4> QED
          BY <1>1, <1>2, <2>1, <4>1
      <3> QED
        BY <3>1, <3>2
    <2>3. Range(q.keep) \subseteq shown
      BY <1>3, <2>2 DEF Range
    <2>4. ASSUME NEW x \in shown PROVE x \in GroupImage(q)
      <3>1. PICK g \in DOMAIN group' : x = [name |-> group'[g], hosts |-> MembersOf(g)']
        BY <1>3
      <3>2. CASE g \in DOMAIN q.keep
        BY <2>2, <3>1, <3>2 DEF GroupImage, Range
      <3>3. CASE g \notin DOMAIN q.keep
        <4>1. PICK i \in DOMAIN q.create : g = NewId(GroupsLeft(q), i)
          BY <1>1, <2>1, <3>1, <3>3 DEF GroupsNew
        <4>2. x = q.create[i]
          BY <1>4, <3>1, <4>1
        <4> QED
          BY <4>2 DEF GroupImage, Range
      <3> QED
        BY <3>2, <3>3
    <2> QED
      BY <1>6, <2>3, <2>4 DEF GroupImage
  <1> QED
    BY <1>6, <1>7, <1>8 DEF shown

(* hosts/reconcile_groups.go:80-87: the same for the groups, although the  *)
(* plan is made from three reads and leaves alone what needs no change.    *)
THEOREM GroupsReachTheImage == Spec => GroupsConverge
  <1> DEFINE A == \A r \in Request : ApplyGroups(r) =>
          LET q == req[r] IN
          /\ Range(q.create) \cup {q.keep[g] : g \in q.rewrite}
                \subseteq GetHostGroups'
          /\ q.clean => GetHostGroups' = GroupImage(q)
  <1>1. CatalogIInv /\ [Next]_vars => [A]_vars
    BY GroupsConverged
  <1>2. GroupsConverge <=> [][A]_vars
    BY DEF GroupsConverge
  <1> HIDE DEF A
  <1> QED
    BY <1>1, <1>2, CatalogInvariance, PTL DEF Spec

-----------------------------------------------------------------------------
(* The address history.                                                    *)
EventRow == [addr : Address, on : BOOLEAN, src : Source, at : Nat]

HistoryTypes ==
    /\ RegistryTypeOK
    /\ now \in Nat
    /\ log \in Seq(EventRow) /\ cut \in 0 .. Len(log)
    /\ ttl \in [Device -> (Nat \ {0}) \cup {None}]

(* Ids follow times.                                                       *)
Chronological ==
    /\ \A i, j \in DOMAIN log : i <= j => log[i].at <= log[j].at
    /\ \A i \in DOMAIN log : log[i].at <= now

EventsOf(a) == {i \in DOMAIN log : log[i].addr = a}

(* The last event of an address, pruned or not, tells its state.           *)
LogTells ==
    \A a \in Address :
        /\ EventsOf(a) = {} => addr[a] = "absent"
        /\ \A i \in EventsOf(a) : (\A j \in EventsOf(a) : j <= i) =>
              addr[a] = IF log[i].on THEN "enabled" ELSE "disabled"

(* Nothing is disabled before it was enabled.                              *)
FirstIsOn ==
    \A i \in DOMAIN log : log[i].on \/ \E j \in 1 .. i - 1 : log[j].addr = log[i].addr

OnIsHeartbeat == \A i \in DOMAIN log : log[i].on => log[i].src = "heartbeat"

HistoryIInv ==
    /\ HistoryTypes /\ Chronological
    /\ LogTells /\ FirstIsOn /\ OnIsHeartbeat

-----------------------------------------------------------------------------
(* What a row of the log holds.                                            *)
LEMMA LogRows ==
    ASSUME HistoryTypes
    PROVE  /\ Len(log) \in Nat /\ DOMAIN log = 1 .. Len(log)
           /\ IsFiniteSet(DOMAIN log) /\ Cardinality(DOMAIN log) = Len(log)
           /\ \A i \in DOMAIN log :
                /\ log[i] \in EventRow /\ log[i].addr \in Address
                /\ log[i].at \in Nat /\ DeviceOf[log[i].addr] \in Device
                /\ log[i].on \in BOOLEAN
  <1> DEFINE n == Len(log)
  <1>1. log \in Seq(EventRow)
    BY DEF HistoryTypes
  <1>2. /\ n \in Nat /\ DOMAIN log = 1 .. n
        /\ \A i \in DOMAIN log : log[i] \in EventRow
    BY <1>1
  <1>3. \A e \in EventRow : /\ e.addr \in Address /\ e.at \in Nat
                            /\ DeviceOf[e.addr] \in Device /\ e.on \in BOOLEAN
    BY RegistryAssumption DEF EventRow
  <1>4. IsFiniteSet(1 .. n) /\ Cardinality(1 .. n) = n
    <2> HIDE DEF n
    <2> QED
      BY <1>2, FS_Interval
  <1> QED
    BY <1>2, <1>3, <1>4

(* Where the rows of a concatenation come from.                            *)
LEMMA Concatenated ==
    ASSUME NEW R, NEW s \in Seq(R), NEW t \in Seq(R)
    PROVE  /\ s \o t \in Seq(R) /\ Len(s \o t) = Len(s) + Len(t) /\ Len(s) \in Nat
           /\ \A i \in 1 .. Len(s) : (s \o t)[i] = s[i]
           /\ \A i \in Len(s) + 1 .. Len(s \o t) :
                i - Len(s) \in 1 .. Len(t) /\ (s \o t)[i] = t[i - Len(s)]
  OBVIOUS

(* The log after a transaction that recorded the addresses S: an event is  *)
(* an old one or one of the new ones, and every address of S has one.      *)
Logged(S, on, src) ==
    /\ log' \in Seq(EventRow) /\ cut \in 0 .. Len(log')
    /\ Len(log) \in Nat /\ DOMAIN log = 1 .. Len(log)
    /\ DOMAIN log \subseteq DOMAIN log' /\ DOMAIN log' \subseteq Nat \ {0}
    /\ \A i \in DOMAIN log : log'[i] = log[i] /\ log[i] \in EventRow
    /\ \A i \in DOMAIN log' \ DOMAIN log :
         /\ i > Len(log) /\ log'[i].addr \in S
         /\ log'[i].on = on /\ log'[i].src = src /\ log'[i].at = now
    /\ \A a \in S : \E i \in DOMAIN log' \ DOMAIN log : log'[i].addr = a

(* insertAddressEvents writes an event for each of the addresses.          *)
LEMMA EventsInserted ==
    ASSUME HistoryTypes, NEW S \in SUBSET Address, NEW on \in BOOLEAN,
           NEW src \in Source, insertAddressEvents(S, on, src)
    PROVE  Logged(S, on, src) /\ Len(log') = Len(log) + Cardinality(S)
  <1> DEFINE n == Cardinality(S)
  <1>1. PICK order \in [1 .. n -> S] :
           /\ \A i, j \in DOMAIN order : order[i] = order[j] => i = j
           /\ log' = log \o [i \in DOMAIN order |->
                  [addr |-> order[i], on |-> on, src |-> src, at |-> now]]
    BY DEF insertAddressEvents
  <1>2. IsFiniteSet(S) /\ n \in Nat
    BY RegistryAssumption, FS_Subset, FS_CardinalityType
  <1>3. \A a \in S : \E i \in 1 .. n : order[i] = a
    <2>1. order \in Injection(1 .. n, S)
      BY <1>1 DEF Injection, IsInjective
    <2>2. Cardinality(1 .. n) = n
      BY <1>2, FS_Interval
    <2>3. order \in Surjection(1 .. n, S)
      BY <1>2, <2>1, <2>2, FS_Injection
    <2> QED
      BY <2>3 DEF Surjection
  <1> DEFINE new == [i \in 1 .. n |->
                       [addr |-> order[i], on |-> on, src |-> src, at |-> now]]
  <1>4. new \in Seq(EventRow) /\ Len(new) = n
    <2>1. \A i \in 1 .. n :
             [addr |-> order[i], on |-> on, src |-> src, at |-> now] \in EventRow
      BY <1>1 DEF EventRow, HistoryTypes
    <2>2. new \in [1 .. n -> EventRow]
      BY <2>1
    <2> QED
      BY <1>2, <2>2
  <1>5. log' = log \o new /\ log \in Seq(EventRow)
    BY <1>1 DEF HistoryTypes
  <1>6. \A i \in 1 .. n : /\ new[i].addr = order[i] /\ order[i] \in S
                          /\ new[i].on = on /\ new[i].src = src /\ new[i].at = now
    BY <1>1
  <1> HIDE DEF new, n
  <1>7. /\ log' \in Seq(EventRow) /\ Len(log') = Len(log) + n /\ Len(log) \in Nat
        /\ \A i \in 1 .. Len(log) : log'[i] = log[i]
        /\ \A i \in Len(log) + 1 .. Len(log') :
             i - Len(log) \in 1 .. n /\ log'[i] = new[i - Len(log)]
    BY <1>2, <1>4, <1>5, Concatenated, Zenon
  <1>8. /\ log \in Seq(EventRow) /\ cut \in 0 .. Len(log)
    BY DEF HistoryTypes
  <1>9. /\ Len(log') \in Nat
        /\ DOMAIN log = 1 .. Len(log) /\ DOMAIN log' = 1 .. Len(log')
        /\ \A i \in DOMAIN log : log[i] \in EventRow
    BY <1>7, <1>8
  <1>10. DOMAIN log' \ DOMAIN log = Len(log) + 1 .. Len(log')
    BY <1>2, <1>7, <1>9
  <1>11. /\ DOMAIN log \subseteq DOMAIN log' /\ DOMAIN log' \subseteq Nat \ {0}
         /\ cut \in 0 .. Len(log')
         /\ \A i \in DOMAIN log' \ DOMAIN log : i > Len(log)
    BY <1>2, <1>7, <1>8, <1>9
  <1>12. ASSUME NEW a \in S
         PROVE  \E i \in DOMAIN log' \ DOMAIN log : log'[i].addr = a
    <2>1. PICK i \in 1 .. n : order[i] = a
      BY <1>3
    <2>2. Len(log) + i \in Len(log) + 1 .. Len(log')
      BY <1>2, <1>7
    <2>3. (Len(log) + i) - Len(log) = i
      BY <1>2, <1>7
    <2>4. log'[Len(log) + i] = new[i]
      BY <1>7, <2>2, <2>3
    <2> QED
      BY <1>6, <1>10, <2>1, <2>2, <2>4
  <1>13. \A i \in DOMAIN log' \ DOMAIN log :
            /\ log'[i].addr \in S
            /\ log'[i].on = on /\ log'[i].src = src /\ log'[i].at = now
    BY <1>6, <1>7, <1>10
  <1> QED
    BY <1>7, <1>9, <1>11, <1>12, <1>13 DEF Logged, n

(* New events are the latest of the log.                                   *)
LEMMA ChronologicalStep ==
    ASSUME HistoryTypes, Chronological, NEW S \in SUBSET Address, NEW on, NEW src,
           Logged(S, on, src), now' = now
    PROVE  Chronological'
  <1> USE DEF Logged
  <1>1. \A i \in DOMAIN log' : log'[i].at <= now /\ log'[i].at \in Nat
    <2>1. now \in Nat /\ now <= now
      BY DEF HistoryTypes
    <2>2. \A i \in DOMAIN log : log[i].at <= now /\ log[i].at \in Nat
      BY LogRows DEF Chronological
    <2> QED
      BY <2>1, <2>2
  <1>2. ASSUME NEW i \in DOMAIN log', NEW j \in DOMAIN log', i <= j
        PROVE  log'[i].at <= log'[j].at
    <2>1. CASE j \in DOMAIN log
      <3>1. i \in DOMAIN log
        BY <1>2, <2>1
      <3> QED
        BY <1>2, <2>1, <3>1 DEF Chronological
    <2>2. CASE j \notin DOMAIN log
      <3>1. log'[j].at = now
        BY <2>2
      <3> QED
        BY <1>1, <3>1
    <2> QED
      BY <2>1, <2>2
  <1> QED
    BY <1>1, <1>2 DEF Chronological

(* The addresses without a new event keep theirs.                          *)
LEMMA LogTellsStep ==
    ASSUME HistoryTypes, LogTells, NEW S \in SUBSET Address, NEW on, NEW src,
           Logged(S, on, src),
           \A a \in Address : addr'[a] = IF a \in S
                                         THEN IF on THEN "enabled" ELSE "disabled"
                                         ELSE addr[a]
    PROVE  LogTells'
  <1> USE DEF Logged
  <1> SUFFICES ASSUME NEW a \in Address
               PROVE  /\ EventsOf(a)' = {} => addr'[a] = "absent"
                      /\ \A i \in EventsOf(a)' : (\A j \in EventsOf(a)' : j <= i) =>
                            addr'[a] = IF log'[i].on THEN "enabled" ELSE "disabled"
    BY DEF LogTells
  <1>1. CASE a \in S
    <2>1. PICK k \in DOMAIN log' \ DOMAIN log : log'[k].addr = a
      BY <1>1
    <2>2. k \in EventsOf(a)' /\ k > Len(log)
      BY <2>1 DEF EventsOf
    <2>3. ASSUME NEW i \in EventsOf(a)', \A j \in EventsOf(a)' : j <= i
          PROVE  log'[i].on = on
      <3>1. i >= k /\ i \in DOMAIN log'
        BY <2>2, <2>3 DEF EventsOf
      <3>2. i \notin DOMAIN log
        BY <2>2, <3>1
      <3> QED
        BY <3>1, <3>2
    <2> QED
      BY <1>1, <2>2, <2>3
  <1>2. CASE a \notin S
    <2>1. EventsOf(a)' = EventsOf(a)
      BY <1>2 DEF EventsOf
    <2>2. \A i \in EventsOf(a) : log'[i] = log[i]
      BY DEF EventsOf
    <2> QED
      BY <1>2, <2>1, <2>2 DEF LogTells
  <1> QED
    BY <1>1, <1>2

(* Nor is anything disabled that no event had enabled.                     *)
LEMMA FirstIsOnStep ==
    ASSUME HistoryTypes, LogTells, FirstIsOn, NEW S \in SUBSET Address,
           NEW on \in BOOLEAN, NEW src, Logged(S, on, src),
           on \/ \A a \in S : addr[a] # "absent"
    PROVE  FirstIsOn'
  <1> USE DEF Logged
  <1> SUFFICES ASSUME NEW i \in DOMAIN log', ~log'[i].on
               PROVE  \E j \in 1 .. i - 1 : log'[j].addr = log'[i].addr
    BY DEF FirstIsOn
  <1>1. CASE i \in DOMAIN log
    <2>1. PICK j \in 1 .. i - 1 : log[j].addr = log[i].addr
      BY <1>1 DEF FirstIsOn
    <2>2. j \in DOMAIN log
      BY <1>1, <2>1
    <2> QED
      BY <1>1, <2>1, <2>2
  <1>2. CASE i \notin DOMAIN log
    <2> DEFINE a == log'[i].addr
    <2>1. a \in S /\ addr[a] # "absent" /\ i > Len(log)
      BY <1>2
    <2>2. PICK j \in EventsOf(a) : TRUE
      BY <2>1 DEF LogTells
    <2>3. j \in DOMAIN log /\ log'[j].addr = a
      BY <2>2 DEF EventsOf
    <2>4. j \in 1 .. i - 1
      BY <2>1, <2>3
    <2> QED
      BY <2>3, <2>4
  <1> QED
    BY <1>1, <1>2

(* Only heartbeats switch on.                                              *)
LEMMA OnIsHeartbeatStep ==
    ASSUME HistoryTypes, OnIsHeartbeat, NEW S \in SUBSET Address,
           NEW on \in BOOLEAN, NEW src, Logged(S, on, src),
           on => src = "heartbeat"
    PROVE  OnIsHeartbeat'
  BY DEF OnIsHeartbeat, Logged

(* Whoever disables addresses that were registered keeps the invariant.    *)
LEMMA DisabledKeeps ==
    ASSUME HistoryIInv, NEW S \in SUBSET Address, NEW src \in Source,
           src # "heartbeat", RegistryTypeOK', RecordDisabled(S), Disabled(S, src),
           \A a \in S : addr[a] # "absent"
    PROVE  HistoryIInv'
  <1>1. HistoryTypes /\ Logged(S, FALSE, src)
    BY EventsInserted DEF HistoryIInv, Disabled
  <1>2. /\ \A a \in Address : addr'[a] = IF a \in S THEN "disabled" ELSE addr[a]
        /\ UNCHANGED <<now, cut, ttl>>
    BY DEF RecordDisabled, Disabled
  <1>3. HistoryTypes'
    BY <1>1, <1>2 DEF HistoryTypes, Logged
  <1>4. Chronological' /\ LogTells' /\ FirstIsOn' /\ OnIsHeartbeat'
    <2>1. Chronological'
      BY <1>1, <1>2, ChronologicalStep DEF HistoryIInv
    <2>2. LogTells'
      BY <1>1, <1>2, LogTellsStep DEF HistoryIInv
    <2>3. FirstIsOn'
      BY <1>1, FirstIsOnStep DEF HistoryIInv
    <2>4. OnIsHeartbeat'
      BY <1>1, OnIsHeartbeatStep DEF HistoryIInv
    <2> QED
      BY <2>1, <2>2, <2>3, <2>4
  <1> QED
    BY <1>3, <1>4 DEF HistoryIInv

(* A registration keeps the invariant: its event is the last of the log.   *)
LEMMA RegisterKeeps ==
    ASSUME HistoryIInv, NEW a \in Address, RegisterAddressActivity(a)
    PROVE  HistoryIInv'
  <1>1. HistoryTypes /\ Logged({a}, TRUE, "heartbeat")
    BY EventsInserted DEF HistoryIInv, RegisterAddressActivity, Source
  <1>2. RegistryTypeOK'
    BY <1>1 DEF HistoryTypes, RegistryTypeOK, RegisterAddressActivity,
                RegisterAddressTx, RecordEnabled, EnabledAddresses, AddressesOf
  <1>3. /\ \A b \in Address : addr'[b] = IF b = a THEN "enabled" ELSE addr[b]
        /\ UNCHANGED <<now, cut, ttl>>
    BY <1>1 DEF HistoryTypes, RegistryTypeOK, RegisterAddressActivity,
                RegisterAddressTx, RecordEnabled
  <1>5. HistoryTypes'
    BY <1>1, <1>2, <1>3 DEF HistoryTypes, Logged
  <1>7. Chronological' /\ LogTells' /\ FirstIsOn' /\ OnIsHeartbeat'
    <2>1. Chronological'
      BY <1>1, <1>3, ChronologicalStep DEF HistoryIInv
    <2>2. \A b \in Address : addr'[b] = IF b \in {a}
                                        THEN IF TRUE THEN "enabled" ELSE "disabled"
                                        ELSE addr[b]
      BY <1>3
    <2>3. LogTells'
      BY <1>1, <2>2, LogTellsStep DEF HistoryIInv
    <2>4. FirstIsOn'
      BY <1>1, FirstIsOnStep DEF HistoryIInv
    <2>5. OnIsHeartbeat'
      BY <1>1, OnIsHeartbeatStep DEF HistoryIInv
    <2> QED
      BY <2>1, <2>3, <2>4, <2>5
  <1> QED
    BY <1>5, <1>7 DEF HistoryIInv

(* A change of the rule does not touch the log.                            *)
LEMMA SetLeaseRuleKeeps ==
    ASSUME HistoryIInv, NEW d \in Device, NEW t \in TTL \cup {None}, SetLeaseRule(d, t)
    PROVE  HistoryIInv'
  <1>1. /\ ttl' = [ttl EXCEPT ![d] = t]
        /\ UNCHANGED <<registry, device, addr, older, now, log, cut>>
    BY DEF SetLeaseRule, registry
  <1>2. t \in (Nat \ {0}) \cup {None} /\ HistoryTypes
    BY HistoryAssumption DEF HistoryIInv
  <1>3. HistoryTypes'
    BY <1>1, <1>2 DEF HistoryTypes, RegistryTypeOK
  <1>4. Chronological' /\ LogTells' /\ FirstIsOn' /\ OnIsHeartbeat'
    BY <1>1 DEF HistoryIInv, Chronological, LogTells, EventsOf, FirstIsOn, OnIsHeartbeat
  <1> QED
    BY <1>3, <1>4 DEF HistoryIInv

(* What touches neither the log nor the addresses.                         *)
LEMMA QuietKeeps ==
    ASSUME HistoryIInv, RegistryTypeOK', UNCHANGED <<addr, log, ttl>>,
           now' \in Nat, now' >= now, cut' \in 0 .. Len(log)
    PROVE  HistoryIInv'
  <1>1. HistoryTypes'
    BY DEF HistoryIInv, HistoryTypes
  <1>2. Chronological'
    <2>1. now \in Nat /\ \A i \in DOMAIN log : log[i].at \in Nat
      BY LogRows DEF HistoryIInv, HistoryTypes
    <2> QED
      BY <2>1 DEF HistoryIInv, Chronological
  <1>3. LogTells' /\ FirstIsOn' /\ OnIsHeartbeat'
    BY DEF HistoryIInv, LogTells, EventsOf, FirstIsOn, OnIsHeartbeat
  <1> QED
    BY <1>1, <1>2, <1>3 DEF HistoryIInv

(* An empty log over empty tables.                                         *)
LEMMA HistoryInitIInv == HistoryInit => HistoryIInv
  <1> SUFFICES ASSUME HistoryInit PROVE HistoryIInv
    OBVIOUS
  <1>1. HistoryTypes
    BY DEF HistoryInit, RegistryInit, HistoryTypes, RegistryTypeOK
  <1>2. DOMAIN log = {} /\ \A a \in Address : addr[a] = "absent"
    BY DEF HistoryInit, RegistryInit
  <1> QED
    BY <1>1, <1>2 DEF HistoryIInv, Chronological, LogTells, EventsOf, FirstIsOn,
                      OnIsHeartbeat

(* Disabling addresses keeps the registry well typed.                      *)
LEMMA RecordDisabledTypes ==
    ASSUME RegistryTypeOK, NEW S \in SUBSET Address, RecordDisabled(S),
           device' \in [Device -> {"absent", "active", "disabled", "deleted"}]
    PROVE  RegistryTypeOK'
  BY DEF RegistryTypeOK, RecordDisabled

(* One step per action of HistoryNext.                                     *)
LEMMA HistoryNextIInv == HistoryIInv /\ [HistoryNext]_historyVars => HistoryIInv'
  <1> SUFFICES ASSUME HistoryIInv, [HistoryNext]_historyVars PROVE HistoryIInv'
    OBVIOUS
  <1>t. HistoryTypes /\ RegistryTypeOK
    BY DEF HistoryIInv, HistoryTypes
  <1>1. ASSUME NEW a \in Address, DisableAddress(a) PROVE HistoryIInv'
    <2>1. RecordDisabled({a}) /\ Disabled({a}, "web_ui") /\ addr[a] # "absent" /\ device' = device
      BY <1>1 DEF DisableAddress, DisableAddressTx
    <2>2. RegistryTypeOK'
      BY <1>t, <2>1, RecordDisabledTypes DEF RegistryTypeOK
    <2> QED
      BY <2>1, <2>2, DisabledKeeps DEF Source
  <1>2. ASSUME NEW d \in Device, NEW S \in SUBSET Listable, EvictAddresses(d, S)
        PROVE  HistoryIInv'
    <2>1. RecordDisabled(S) /\ Disabled(S, "limit_exceeded") /\ device' = device
      BY <1>2 DEF EvictAddresses, DisableAddressesTx
    <2>2. S \in SUBSET Address /\ \A a \in S : addr[a] # "absent"
      BY DEF Listable
    <2>3. RegistryTypeOK'
      BY <1>t, <2>1, <2>2, RecordDisabledTypes DEF RegistryTypeOK
    <2> QED
      BY <2>1, <2>2, <2>3, DisabledKeeps DEF Source
  <1>3. ASSUME NEW S \in SUBSET Listable, ExpireAddresses(S) PROVE HistoryIInv'
    <2>1. RecordDisabled(S) /\ Disabled(S, "expiry") /\ device' = device
      BY <1>3 DEF ExpireAddresses, DisableAddressesTx
    <2>2. S \in SUBSET Address /\ \A a \in S : addr[a] # "absent"
      BY DEF Listable
    <2>3. RegistryTypeOK'
      BY <1>t, <2>1, <2>2, RecordDisabledTypes DEF RegistryTypeOK
    <2> QED
      BY <2>1, <2>2, <2>3, DisabledKeeps DEF Source
  <1>4. ASSUME NEW d \in Device, DisableOrDeleteDevice(d) PROVE HistoryIInv'
    <2> DEFINE S == EnabledAddresses(d)
    <2>1. /\ RecordDisabled(S) /\ Disabled(S, "web_ui")
          /\ device' \in [Device -> {"absent", "active", "disabled", "deleted"}]
      BY <1>t, <1>4 DEF DisableOrDeleteDevice, DisableDeviceTx, DeleteDeviceTx, RegistryTypeOK
    <2>2. S \in SUBSET Address /\ \A a \in S : addr[a] # "absent"
      BY DEF EnabledAddresses, AddressesOf
    <2> HIDE DEF S
    <2>3. RegistryTypeOK'
      BY <1>t, <2>1, <2>2, RecordDisabledTypes
    <2> QED
      BY <2>1, <2>2, <2>3, DisabledKeeps DEF Source
  <1>5. ASSUME NEW d \in Device, CreateOrEnableDevice(d) PROVE HistoryIInv'
    <2>1. RegistryTypeOK' /\ UNCHANGED <<addr, now, log, cut, ttl>>
      BY <1>t, <1>5 DEF CreateOrEnableDevice, CreateDevice, EnableDevice, RegistryTypeOK
    <2>2. now' \in Nat /\ now' >= now /\ cut' \in 0 .. Len(log)
      BY <1>t, <2>1 DEF HistoryTypes
    <2> QED
      BY <2>1, <2>2, QuietKeeps
  <1>6. CASE DeleteAddressEventsOlderThan(now - Retention)
    <2> DEFINE old == {i \in DOMAIN log : log[i].at < now - Retention}
    <2>1. /\ cut' = Cardinality(old)
          /\ UNCHANGED <<registry, now, log, ttl>>
      BY <1>6 DEF DeleteAddressEventsOlderThan
    <2>2. now \in Nat
      BY <1>t DEF HistoryTypes
    <2>3. Len(log) \in Nat /\ IsFiniteSet(DOMAIN log) /\ Cardinality(DOMAIN log) = Len(log)
      BY <1>t, LogRows
    <2>4. Cardinality(old) \in Nat /\ Cardinality(old) <= Len(log)
      BY <2>3, FS_Subset, FS_CardinalityType
    <2>5. cut' \in 0 .. Len(log)
      BY <2>1, <2>3, <2>4
    <2> QED
      BY <1>t, <2>1, <2>2, <2>5, QuietKeeps DEF registry, RegistryTypeOK
  <1>7. ASSUME NEW s \in Step, Tick(s) PROVE HistoryIInv'
    <2>1. now' = now + s /\ UNCHANGED <<registry, log, cut, ttl>>
      BY <1>7 DEF Tick
    <2>2. now' \in Nat /\ now' >= now /\ cut' \in 0 .. Len(log)
      BY <1>t, <2>1, HistoryAssumption DEF HistoryTypes
    <2> QED
      BY <1>t, <2>1, <2>2, QuietKeeps DEF registry, RegistryTypeOK
  <1>8. CASE UNCHANGED historyVars
    <2>1. now' \in Nat /\ now' >= now /\ cut' \in 0 .. Len(log)
      BY <1>t, <1>8 DEF HistoryTypes, historyVars
    <2> QED
      BY <1>t, <1>8, <2>1, QuietKeeps DEF historyVars, registry, RegistryTypeOK
  <1> QED
    BY <1>1, <1>2, <1>3, <1>4, <1>5, <1>6, <1>7, <1>8, RegisterKeeps, SetLeaseRuleKeeps
       DEF HistoryNext

(* The log and the tables belong together (device/address_repository.go).  *)
THEOREM HistoryInvariance == HistorySpec => []HistoryIInv
  BY HistoryInitIInv, HistoryNextIInv, PTL DEF HistorySpec

-----------------------------------------------------------------------------
(* Any events of the log have a latest and an earliest one.                *)
LEMMA LatestIs ==
    ASSUME HistoryTypes, NEW S \in SUBSET DOMAIN log, S # {}
    PROVE  /\ Latest(S) \in S /\ \A j \in S : j <= Latest(S)
           /\ \E i \in S : \A j \in S : i <= j
  <1>1. S \in SUBSET Int /\ IsFiniteSet(S)
    <2>1. Len(log) \in Nat /\ DOMAIN log = 1 .. Len(log) /\ IsFiniteSet(DOMAIN log)
      BY LogRows
    <2>2. DOMAIN log \subseteq Int
      BY <2>1
    <2> QED
      BY <2>1, <2>2, FS_Subset
  <1>2. \E i \in S : \A j \in S : j <= i
    BY <1>1, GreatestExists
  <1>3. \E i \in S : \A j \in S : i <= j
    BY <1>1, LeastExists
  <1> QED
    BY <1>2, <1>3 DEF Latest

-----------------------------------------------------------------------------
(* The events of the address of event i before it that are still there.    *)
Earlier(i) == {j \in cut + 1 .. i - 1 : log[j].addr = log[i].addr}

(* They are events of the log.                                             *)
LEMMA EarlierEvents ==
    ASSUME HistoryTypes, NEW i \in Row
    PROVE  /\ i \in DOMAIN log /\ i > cut /\ i \in Nat /\ cut \in Nat
           /\ Earlier(i) \subseteq DOMAIN log
  <1>1. Len(log) \in Nat /\ DOMAIN log = 1 .. Len(log)
    BY LogRows
  <1>2. cut \in Nat /\ Row = cut + 1 .. Len(log)
    BY <1>1 DEF HistoryTypes, Row
  <1> QED
    BY <1>1, <1>2 DEF Earlier

(* eventKind compares with the latest of them.                             *)
LEMMA KindIs ==
    ASSUME HistoryTypes, NEW i \in Row
    PROVE  IF Earlier(i) = {} THEN eventKind(i) = "created"
           ELSE LET k == Latest(Earlier(i)) IN
                /\ k \in Earlier(i) /\ \A j \in Earlier(i) : j <= k
                /\ eventKind(i) = IF log[i].on # log[k].on
                                  THEN (IF log[i].on THEN "enabled" ELSE "disabled")
                                  ELSE "refresh"
  <1>1. CASE Earlier(i) = {}
    BY <1>1 DEF eventKind, Earlier
  <1>2. CASE Earlier(i) # {}
    <2>1. /\ Latest(Earlier(i)) \in Earlier(i)
          /\ \A j \in Earlier(i) : j <= Latest(Earlier(i))
      BY <1>2, EarlierEvents, LatestIs
    <2> QED
      BY <1>2, <2>1 DEF eventKind, Earlier
  <1> QED
    BY <1>1, <1>2

(* The derived kinds tell the state, because no change goes unlogged.      *)
LEMMA StateTold == HistoryIInv => HistoryTellsTheState
  <1> SUFFICES ASSUME HistoryIInv, NEW a \in Address
               PROVE
        LET E == {i \in Row : log[i].addr = a}
            pruned == \E i \in 1 .. cut : log[i].addr = a
            changes == {i \in E : eventKind(i) # "refresh"}
            tells(i) == addr[a] = IF log[i].on THEN "enabled" ELSE "disabled"
        IN  IF E = {} THEN addr[a] = "absent" \/ pruned
            ELSE /\ changes # {} /\ tells(Latest(E)) /\ tells(Latest(changes))
                 /\ \A i \in changes :
                      CASE eventKind(i) = "enabled"  -> log[i].on
                        [] eventKind(i) = "disabled" -> ~log[i].on
                        [] OTHER                     -> log[i].on \/ pruned
    BY DEF HistoryTellsTheState
  <1> DEFINE E == {i \in Row : log[i].addr = a}
             pruned == \E i \in 1 .. cut : log[i].addr = a
             C == {i \in E : eventKind(i) # "refresh"}
             tells(i) == addr[a] = IF log[i].on THEN "enabled" ELSE "disabled"
  <1>1. HistoryTypes
    BY DEF HistoryIInv
  <1>2. /\ cut \in Nat /\ Len(log) \in Nat /\ cut <= Len(log)
        /\ DOMAIN log = 1 .. Len(log) /\ Row = cut + 1 .. Len(log)
    BY <1>1, LogRows DEF HistoryTypes, Row
  <1>3. E \subseteq DOMAIN log /\ C \subseteq DOMAIN log
    BY <1>2
  <1>4. \A i \in EventsOf(a) : i \in E \/ i <= cut
    BY <1>2 DEF EventsOf
  <1>5. ASSUME E = {} PROVE addr[a] = "absent" \/ pruned
    <2>1. CASE EventsOf(a) = {}
      BY <2>1 DEF HistoryIInv, LogTells
    <2>2. ASSUME NEW i \in EventsOf(a) PROVE pruned
      <3>1. i <= cut /\ i \in 1 .. Len(log) /\ log[i].addr = a
        BY <1>2, <1>4, <1>5, <2>2 DEF EventsOf
      <3> QED
        BY <1>2, <3>1
    <2> QED
      BY <2>1, <2>2
  <1>6. ASSUME E # {} PROVE C # {}
    <2>1. PICK i \in E : \A j \in E : i <= j
      BY <1>1, <1>3, <1>6, LatestIs
    <2>2. Earlier(i) = {}
      BY <1>2, <2>1 DEF Earlier
    <2> QED
      BY <1>1, <2>1, <2>2, KindIs
  <1>7. ASSUME E # {} PROVE tells(Latest(E))
    <2> DEFINE l == Latest(E)
    <2>1. l \in E /\ \A j \in E : j <= l
      BY <1>1, <1>3, <1>7, LatestIs
    <2> HIDE DEF l
    <2>2. l \in EventsOf(a) /\ \A j \in EventsOf(a) : j <= l
      BY <1>2, <1>4, <2>1 DEF EventsOf
    <2>3. tells(l)
      BY <2>2 DEF HistoryIInv, LogTells
    <2> QED
      BY <2>3 DEF l
  <1>8. ASSUME E # {} PROVE log[Latest(C)].on = log[Latest(E)].on
    <2> DEFINE c == Latest(C)
               l == Latest(E)
    <2>1. l \in E /\ c \in C /\ \A j \in C : j <= c
      BY <1>1, <1>3, <1>6, <1>8, LatestIs
    <2>2. c \in E /\ c <= l
      BY <1>1, <1>3, <1>8, <2>1, LatestIs
    <2> SUFFICES ASSUME log[c].on # log[l].on PROVE FALSE
      OBVIOUS
    <2> HIDE DEF c, l
    <2> DEFINE D == {i \in E : i > c /\ log[i].on # log[c].on}
    <2>3. l \in D
      BY <1>2, <2>1, <2>2
    <2>4. PICK m \in D : \A j \in D : m <= j
      BY <1>1, <1>3, <2>3, LatestIs
    <2>5. m \in Row /\ m \in E /\ m > c /\ log[m].on # log[c].on /\ log[m].addr = a
      BY <2>4
    <2>6. c \in Earlier(m)
      BY <1>2, <2>2, <2>5 DEF Earlier
    <2> DEFINE k == Latest(Earlier(m))
    <2>7. /\ k \in Earlier(m) /\ k >= c
          /\ eventKind(m) = IF log[m].on # log[k].on
                            THEN (IF log[m].on THEN "enabled" ELSE "disabled")
                            ELSE "refresh"
      BY <1>1, <2>5, <2>6, KindIs
    <2> HIDE DEF k
    <2>8. log[k].on = log[c].on
      <3>1. k \in E /\ k < m
        BY <1>2, <2>5, <2>7 DEF Earlier
      <3>2. CASE k > c
        <4>1. k \notin D
          BY <1>2, <2>4, <2>5, <3>1
        <4> QED
          BY <3>1, <3>2, <4>1
      <3> QED
        BY <1>2, <2>2, <2>7, <3>1, <3>2
    <2>9. m \in C
      BY <2>5, <2>7, <2>8
    <2> QED
      BY <1>2, <2>1, <2>2, <2>5, <2>9
  <1>9. ASSUME NEW i \in C
        PROVE  CASE eventKind(i) = "enabled"  -> log[i].on
                 [] eventKind(i) = "disabled" -> ~log[i].on
                 [] OTHER                     -> log[i].on \/ pruned
    <2>1. i \in Row /\ log[i].addr = a /\ eventKind(i) # "refresh"
      OBVIOUS
    <2>2. CASE Earlier(i) = {}
      <3>1. eventKind(i) = "created"
        BY <1>1, <2>1, <2>2, KindIs
      <3>2. log[i].on \/ pruned
        <4> SUFFICES ASSUME ~log[i].on PROVE pruned
          OBVIOUS
        <4>1. PICK j \in 1 .. i - 1 : log[j].addr = a
          BY <1>2, <2>1 DEF HistoryIInv, FirstIsOn
        <4>2. j <= cut
          BY <1>2, <2>1, <2>2, <4>1 DEF Earlier
        <4> QED
          BY <1>2, <4>1, <4>2
      <3> QED
        BY <3>1, <3>2
    <2>3. CASE Earlier(i) # {}
      <3>1. eventKind(i) = IF log[i].on THEN "enabled" ELSE "disabled"
        BY <1>1, <2>1, <2>3, KindIs
      <3> QED
        BY <3>1
    <2> QED
      BY <2>2, <2>3
  <1>10. ASSUME E # {} PROVE tells(Latest(C))
    BY <1>7, <1>8, <1>10
  <1> QED
    BY <1>5, <1>6, <1>7, <1>9, <1>10

(* Of every address the kinds of its events tell the state: no path that   *)
(* switches one on or off goes without its event                           *)
(* (device/address_repository.go:224-254), and retention may take any      *)
(* number of them.                                                         *)
THEOREM HistoryTells == HistorySpec => []HistoryTellsTheState
  BY HistoryInvariance, StateTold, PTL

-----------------------------------------------------------------------------
(* The rows of a sample in the order the percentile counts them.           *)
UpTo(S, e) == {x \in S : \/ x.gap < e.gap
                         \/ x.gap = e.gap /\ x.id <= e.id}

Sample(S) ==
    /\ IsFiniteSet(S)
    /\ \A e \in S : e.gap \in Nat /\ e.id \in Nat
    /\ \A x, y \in S : x.id = y.id => x = y

(* A sample has a row that is last in that order, and one that is first.   *)
LEMMA SampleEnds ==
    ASSUME NEW S, Sample(S), S # {}
    PROVE  /\ \E e \in S : UpTo(S, e) = S
           /\ \E e \in S : \A x \in S : e.gap <= x.gap
  <1> DEFINE Less(x, y) == \/ x.gap < y.gap
                           \/ x.gap = y.gap /\ x.id < y.id
             R == {r \in S \X S : Less(r[1], r[2])}
             Q == {r \in S \X S : Less(r[2], r[1])}
  <1>1. \A x, y \in S : /\ <<x, y>> \in R <=> Less(x, y)
                        /\ <<x, y>> \in Q <=> Less(y, x)
    OBVIOUS
  <1>2. \A x, y, z \in S : Less(x, y) /\ Less(y, z) => Less(x, z)
    BY DEF Sample
  <1>3. \A x, y \in S : x # y => Less(x, y) \/ Less(y, x)
    <2>1. ASSUME NEW x \in S, NEW y \in S, x # y PROVE Less(x, y) \/ Less(y, x)
      <3>1. /\ x.gap \in Nat /\ y.gap \in Nat /\ x.id \in Nat /\ y.id \in Nat
            /\ x.id # y.id
        BY <2>1 DEF Sample
      <3> QED
        BY <3>1
    <2> QED
      BY <2>1
  <1>4. IsFiniteSet(S)
    BY DEF Sample
  <1> HIDE DEF R, Q
  <1>5. PICK e \in S : \A x \in S \ {e} : <<x, e>> \in R
    <2>1. /\ \A x, y, z \in S : <<x, y>> \in R /\ <<y, z>> \in R => <<x, z>> \in R
          /\ \A x, y \in S : x # y => <<x, y>> \in R \/ <<y, x>> \in R
      <3>1. \A x, y, z \in S : Less(x, y) /\ Less(y, z) => Less(x, z)
        BY <1>2
      <3>2. \A x, y \in S : x # y => Less(x, y) \/ Less(y, x)
        BY <1>3
      <3> HIDE DEF Less
      <3> QED
        BY <1>1, <3>1, <3>2
    <2> QED
      BY <1>4, <2>1, LastExists
  <1>6. PICK f \in S : \A x \in S \ {f} : <<x, f>> \in Q
    <2>1. /\ \A x, y, z \in S : <<x, y>> \in Q /\ <<y, z>> \in Q => <<x, z>> \in Q
          /\ \A x, y \in S : x # y => <<x, y>> \in Q \/ <<y, x>> \in Q
      <3>1. \A x, y, z \in S : Less(x, y) /\ Less(y, z) => Less(x, z)
        BY <1>2
      <3>2. \A x, y \in S : x # y => Less(x, y) \/ Less(y, x)
        BY <1>3
      <3> HIDE DEF Less
      <3> QED
        BY <1>1, <3>1, <3>2
    <2> QED
      BY <1>4, <2>1, LastExists
  <1>7. ASSUME NEW x \in S PROVE x \in UpTo(S, e)
    <2>1. x = e \/ Less(x, e)
      BY <1>1, <1>5
    <2>2. x.gap \in Nat /\ x.id \in Nat /\ e.gap \in Nat /\ e.id \in Nat
      BY DEF Sample
    <2> QED
      BY <2>1, <2>2 DEF UpTo
  <1>8. ASSUME NEW x \in S PROVE f.gap <= x.gap
    <2>1. x = f \/ Less(f, x)
      BY <1>1, <1>6
    <2>2. x.gap \in Nat /\ f.gap \in Nat
      BY DEF Sample
    <2> QED
      BY <2>1, <2>2
  <1>9. UpTo(S, e) = S
    BY <1>7 DEF UpTo
  <1> QED
    BY <1>8, <1>9

(* A part of a sample is a sample, and counts no more.                     *)
LEMMA SampleOfLess ==
    ASSUME NEW S, Sample(S), NEW T \in SUBSET S
    PROVE  /\ Sample(T) /\ Cardinality(T) \in Nat /\ Cardinality(T) <= Cardinality(S)
           /\ Cardinality(T) = 0 <=> T = {}
  BY FS_Subset, FS_CardinalityType, FS_EmptySet DEF Sample

(* "At most m of n rows" and "more than l of n rows" are one test.         *)
LEMMA PercentArithmetic ==
    ASSUME NEW n \in Nat, NEW m \in Nat, NEW l \in Nat, n = m + l
    PROVE  m * 100 < n * Percent <=> 100 * l > (100 - Percent) * n
  <1>1. Percent \in Int
    BY HistoryAssumption
  <1>2. (100 - Percent) * n = 100 * n - n * Percent
    BY <1>1
  <1>3. n * Percent \in Int
    BY <1>1
  <1> DEFINE p == n * Percent
  <1> HIDE DEF p
  <1>4. m * 100 < p <=> 100 * l > 100 * n - p
    BY <1>3 DEF p
  <1> QED
    BY <1>2, <1>4 DEF p

(* The percentile exceeds the TTL exactly if too many gaps do.             *)
LEMMA PercentileIsLate ==
    ASSUME NEW S, Sample(S), S # {}, NEW t \in Nat
    PROVE  /\ percentileGap(S) \in Nat
           /\ percentileGap(S) > t <=>
                100 * Cardinality({e \in S : e.gap > t}) > (100 - Percent) * Cardinality(S)
  <1> DEFINE late == {e \in S : e.gap > t}
             punctual == {e \in S : e.gap <= t}
             n == Cardinality(S)
             m == Cardinality(punctual)
             l == Cardinality(late)
             T == {x \in S : Cardinality(UpTo(S, x)) * 100 >= n * Percent}
             high == {e.gap : e \in T}
  <1>1. n \in Nat /\ m \in Nat /\ l \in Nat /\ n # 0 /\ n = m + l
    <2>1. punctual \in SUBSET S /\ late \in SUBSET S /\ S \in SUBSET S
      OBVIOUS
    <2>2. n \in Nat /\ m \in Nat /\ l \in Nat /\ n # 0
      BY <2>1, SampleOfLess
    <2>3. punctual \cup late = S /\ punctual \cap late = {}
      BY DEF Sample
    <2>4. Cardinality(punctual \cup late) = m + l - Cardinality(punctual \cap late)
      BY <2>1, FS_Union, FS_Subset DEF Sample
    <2>5. Cardinality(punctual \cap late) = 0
      BY <2>3, FS_EmptySet
    <2>6. n = m + l - 0
      BY <2>3, <2>4, <2>5
    <2> HIDE DEF n, m, l
    <2> QED
      BY <2>2, <2>6
  <1>2. /\ Percent \in 1 .. 100 /\ n * Percent \in Nat /\ n * Percent > 0
        /\ n * 100 >= n * Percent
    <2>1. Percent \in 1 .. 100
      BY HistoryAssumption
    <2> HIDE DEF n
    <2> QED
      BY <1>1, <2>1
  <1>3. T # {}
    <2>1. PICK e \in S : UpTo(S, e) = S
      BY SampleEnds
    <2> QED
      BY <1>2, <2>1
  <1>4. PICK f \in T : \A x \in T : f.gap <= x.gap
    <2>1. Sample(T)
      BY SampleOfLess
    <2> QED
      BY <1>3, <2>1, SampleEnds
  <1>5. percentileGap(S) = f.gap
    <2>1. percentileGap(S) = CHOOSE g \in high : \A h \in high : g <= h
      BY DEF percentileGap, UpTo
    <2>2. f.gap \in high /\ \A h \in high : f.gap <= h
      BY <1>4
    <2>3. \A g, h \in high : g <= h /\ h <= g => g = h
      <3>1. \A g \in high : g \in Nat
        BY DEF Sample
      <3> HIDE DEF high
      <3> QED
        BY <3>1
    <2> DEFINE least(g) == g \in high /\ \A h \in high : g <= h
    <2>4. \A g : least(g) => g = f.gap
      BY <2>2, <2>3
    <2>5. (CHOOSE g : least(g)) = f.gap
      <3>1. least(f.gap)
        BY <2>2
      <3> HIDE DEF least
      <3> QED
        BY <2>4, <3>1
    <2> QED
      BY <2>1, <2>5
  <1>6. f \in S /\ f.gap \in Nat /\ Cardinality(UpTo(S, f)) * 100 >= n * Percent
    BY <1>4 DEF Sample
  <1>7. ASSUME f.gap > t PROVE m * 100 < n * Percent
    <2>1. CASE punctual = {}
      <3>1. m = 0
        BY <2>1, FS_EmptySet
      <3> QED
        BY <1>2, <3>1
    <2>2. CASE punctual # {}
      <3>1. PICK e \in punctual : UpTo(punctual, e) = punctual
        BY <2>2, SampleOfLess, SampleEnds
      <3>2. UpTo(S, e) = punctual
        BY <3>1 DEF UpTo, Sample
      <3>3. e \notin T
        <4>1. ~(f.gap <= e.gap)
          BY <1>6, <1>7, <3>1 DEF Sample
        <4> QED
          BY <1>4, <4>1
      <3>4. ~(m * 100 >= n * Percent)
        BY <3>1, <3>2, <3>3
      <3> HIDE DEF m, n
      <3> QED
        BY <1>1, <1>2, <3>4
    <2> QED
      BY <2>1, <2>2
  <1>8. ASSUME ~(f.gap > t) PROVE ~(m * 100 < n * Percent)
    <2>1. UpTo(S, f) \in SUBSET punctual
      BY <1>6, <1>8 DEF UpTo, Sample
    <2> DEFINE c == Cardinality(UpTo(S, f))
    <2>2. c \in Nat /\ c <= m
      BY <2>1, SampleOfLess
    <2> HIDE DEF c, m, n
    <2>3. c * 100 >= n * Percent
      BY <1>6 DEF c
    <2> QED
      BY <1>1, <1>2, <2>2, <2>3
  <1>9. m * 100 < n * Percent <=> 100 * l > (100 - Percent) * n
    <2> HIDE DEF m, n, l
    <2> QED
      BY <1>1, PercentArithmetic
  <1> QED
    BY <1>5, <1>6, <1>7, <1>8, <1>9

-----------------------------------------------------------------------------
(* The time between two instants in seconds, and when a number of seconds  *)
(* has passed for sure.                                                    *)
LEMMA SecondsBetween ==
    ASSUME NEW s \in Nat, NEW t \in Nat, s <= t
    PROVE  /\ GapSeconds(s, t) \in Nat
           /\ \A n \in Nat : s + n * Second < t => GapSeconds(s, t) >= n
  <1>1. Second \in Nat /\ Second > 0
    BY HistoryAssumption
  <1>2. \A x \in Nat : x \div Second \in Nat
    BY <1>1
  <1>3. ASSUME NEW x \in Nat, NEW n \in Nat, n * Second <= x
        PROVE  x \div Second >= n
    <2> DEFINE q == x \div Second
    <2>1. q \in Nat /\ x < (q + 1) * Second
      BY <1>1
    <2> HIDE DEF q
    <2>2. SUFFICES ASSUME q + 1 <= n PROVE FALSE
      BY <2>1 DEF q
    <2>3. (q + 1) * Second <= n * Second
      BY <1>1, <2>1, <2>2
    <2> QED
      BY <1>1, <1>3, <2>1, <2>3
  <1>4. CASE s < t /\ <<s, t>> \in Short
    <2>1. GapSeconds(s, t) = (t - s - 1) \div Second /\ t - s - 1 \in Nat
      BY <1>4 DEF GapSeconds
    <2>2. ASSUME NEW n \in Nat, s + n * Second < t PROVE n * Second <= t - s - 1
      <3> DEFINE m == n * Second
      <3>1. m \in Nat
        BY <1>1
      <3> HIDE DEF m
      <3>2. s + m < t
        BY <2>2 DEF m
      <3>3. m <= t - s - 1
        BY <3>1, <3>2
      <3> QED
        BY <3>3 DEF m
    <2> QED
      BY <1>2, <1>3, <2>1, <2>2
  <1>5. CASE ~(s < t /\ <<s, t>> \in Short)
    <2>1. GapSeconds(s, t) = (t - s) \div Second /\ t - s \in Nat
      BY <1>5 DEF GapSeconds
    <2>2. ASSUME NEW n \in Nat, s + n * Second < t PROVE n * Second <= t - s
      <3> DEFINE m == n * Second
      <3>1. m \in Nat
        BY <1>1
      <3> HIDE DEF m
      <3>2. s + m < t
        BY <2>2 DEF m
      <3>3. m <= t - s
        BY <3>1, <3>2
      <3> QED
        BY <3>3 DEF m
    <2> QED
      BY <1>2, <1>3, <2>1, <2>2
  <1> QED
    BY <1>4, <1>5

(* A gap is measured from the past.                                        *)
LEMMA GapsArePositive ==
    ASSUME HistoryIInv, NEW i \in Row
    PROVE  renewalGap(i) \in Nat \cup {None}
  <1> DEFINE E == {j \in cut + 1 .. i - 1 :
                     IsRenewal(j) /\ DeviceOfEvent(j) = DeviceOfEvent(i)}
             k == Latest(E)
  <1>1. HistoryTypes /\ Chronological
    BY DEF HistoryIInv
  <1>2. /\ cut \in Nat /\ Len(log) \in Nat
        /\ DOMAIN log = 1 .. Len(log) /\ i \in cut + 1 .. Len(log)
    BY <1>1, LogRows DEF HistoryTypes, Row
  <1>3. renewalGap(i) = IF ~IsRenewal(i) \/ E = {} THEN None ELSE GapSeconds(log[k].at, log[i].at)
    BY DEF renewalGap
  <1>4. ASSUME E # {} PROVE GapSeconds(log[k].at, log[i].at) \in Nat
    <2>1. E \in SUBSET DOMAIN log
      BY <1>2
    <2>2. k \in E
      BY <1>1, <1>4, <2>1, LatestIs
    <2> HIDE DEF k
    <2>3. k \in DOMAIN log /\ i \in DOMAIN log /\ k <= i
      BY <1>2, <2>2
    <2>4. log[k].at \in Nat /\ log[i].at \in Nat /\ log[k].at <= log[i].at
      BY <1>1, <2>3, LogRows DEF Chronological
    <2> QED
      BY <2>4, SecondsBetween
  <1> QED
    BY <1>3, <1>4

(* The enriched table is finite, and has one row per id.                   *)
LEMMA EnrichedRows ==
    ASSUME HistoryIInv
    PROVE  /\ IsFiniteSet(addressHistoryEnriched)
           /\ \A e \in addressHistoryEnriched :
                /\ e.id \in Nat /\ e.device \in Device /\ e.gap \in Nat \cup {None}
                /\ e.risk = ttlRisk(e.gap, ttl[e.device])
           /\ \A x, y \in addressHistoryEnriched : x.id = y.id => x = y
  <1> DEFINE D == {j \in Row : device[DeviceOfEvent(j)] # "deleted"}
             f == [i \in D |->
                     [id |-> i, device |-> DeviceOfEvent(i), at |-> log[i].at,
                      gap |-> renewalGap(i),
                      risk |-> ttlRisk(renewalGap(i), ttl[DeviceOfEvent(i)])]]
             A == addressHistoryEnriched
  <1>1. HistoryTypes
    BY DEF HistoryIInv
  <1>2. /\ Row \subseteq DOMAIN log /\ Row \subseteq Nat /\ IsFiniteSet(DOMAIN log)
    <2>1. /\ cut \in Nat /\ Len(log) \in Nat /\ Row = cut + 1 .. Len(log)
          /\ DOMAIN log = 1 .. Len(log) /\ IsFiniteSet(DOMAIN log)
      BY <1>1, LogRows DEF HistoryTypes, Row
    <2> QED
      BY <2>1
  <1>3. A = {f[i] : i \in D} /\ DOMAIN f = D
    BY DEF addressHistoryEnriched
  <1>4. \A i \in D :
           /\ f[i].id = i /\ i \in Nat /\ f[i].device \in Device
           /\ f[i].gap \in Nat \cup {None}
           /\ f[i].risk = ttlRisk(f[i].gap, ttl[f[i].device])
    <2>1. \A i \in D : DeviceOfEvent(i) \in Device /\ renewalGap(i) \in Nat \cup {None}
      BY <1>1, <1>2, LogRows, GapsArePositive DEF DeviceOfEvent
    <2> QED
      BY <1>2, <2>1
  <1>5. IsFiniteSet(D)
    <2>1. D \in SUBSET DOMAIN log
      BY <1>2
    <2> QED
      BY <1>2, <2>1, FS_Subset
  <1> HIDE DEF f, D, A
  <1>6. IsFiniteSet(A)
    <2>1. f \in [D -> A]
      <3>1. f = [i \in D |-> f[i]]
        BY DEF f
      <3> QED
        BY <1>3, <3>1
    <2>2. \A e \in A : \E i \in D : f[i] = e
      BY <1>3
    <2>3. f \in Surjection(D, A)
      BY <2>1, <2>2 DEF Surjection
    <2> QED
      BY <1>5, <2>3, FS_Surjection
  <1>7. /\ \A e \in A :
             /\ e.id \in Nat /\ e.device \in Device /\ e.gap \in Nat \cup {None}
             /\ e.risk = ttlRisk(e.gap, ttl[e.device])
        /\ \A x, y \in A : x.id = y.id => x = y
    <2>1. \A e \in A : \E i \in D : e = f[i]
      BY <1>3
    <2> QED
      BY <1>4, <2>1
  <1> QED
    BY <1>6, <1>7 DEF A

(* A gap is breached exactly from the TTL on.                              *)
LEMMA RiskIs ==
    ASSUME NEW gap \in Nat, NEW t \in Nat
    PROVE  /\ ttlRisk(gap, t) # "unknown"
           /\ ttlRisk(gap, t) = "breached" <=> gap >= t
  <1>1. gap # None /\ t # None
    BY HistoryAssumption
  <1>2. CASE gap >= t
    BY <1>1, <1>2 DEF ttlRisk
  <1>3. CASE ~(gap >= t)
    BY <1>1, <1>3 DEF ttlRisk
  <1> QED
    BY <1>2, <1>3

(* A known risk has a gap and a TTL; no risk ranks above breached.         *)
LEMMA RiskRanks ==
    ASSUME NEW gap \in Nat \cup {None}, NEW t \in Nat \cup {None}
    PROVE  /\ ttlRisk(gap, t) # "unknown" => gap \in Nat /\ t \in Nat
           /\ ttlRiskRank[ttlRisk(gap, t)] \in 0 .. 4
  BY DEF ttlRisk, ttlRiskRank

(* A breached row of a device makes it show in the bucket of the row.      *)
LEMMA BreachShows ==
    ASSUME HistoryIInv, NEW rows \in SUBSET addressHistoryEnriched,
           NEW e \in rows, e.risk = "breached"
    PROVE  e.device \in riskDeviceBuckets(rows, Bucket(e.at), "breached")
  <1> DEFINE ranks(d) == {ttlRiskRank[x.risk] : x \in
                            {y \in rows : Bucket(y.at) = Bucket(e.at) /\ y.device = d}}
             worst(d) == CHOOSE r \in ranks(d) : \A s \in ranks(d) : s <= r
             d == e.device
  <1>1. \A x \in rows : ttlRiskRank[x.risk] \in 0 .. 4
    <2>1. ASSUME NEW x \in rows PROVE ttlRiskRank[x.risk] \in 0 .. 4
      <3>1. /\ x.gap \in Nat \cup {None} /\ ttl[x.device] \in Nat \cup {None}
            /\ x.risk = ttlRisk(x.gap, ttl[x.device])
        BY EnrichedRows DEF HistoryIInv, HistoryTypes
      <3> QED
        BY <3>1, RiskRanks
    <2> QED
      BY <2>1
  <1>2. ttlRiskRank["breached"] = 4 /\ ttlRiskRank.breached = 4 /\ ttlRiskRank.ok = 1
    BY DEF ttlRiskRank
  <1>3. 4 \in ranks(d)
    BY <1>2
  <1>4. \A r \in ranks(d) : r \in 0 .. 4
    BY <1>1
  <1>5. worst(d) = 4
    <2> HIDE DEF ranks
    <2> QED
      BY <1>3, <1>4
  <1>6. d \in Device
    BY EnrichedRows
  <1>7. riskDeviceBuckets(rows, Bucket(e.at), "breached") =
          {x \in Device : /\ ranks(x) # {} /\ worst(x) >= ttlRiskRank.ok
                          /\ worst(x) = ttlRiskRank["breached"]}
    BY DEF riskDeviceBuckets
  <1>8. ranks(d) # {} /\ worst(d) >= ttlRiskRank.ok /\ worst(d) = ttlRiskRank["breached"]
    <2>1. ranks(d) # {}
      BY <1>3
    <2> HIDE DEF worst, ranks
    <2> QED
      BY <1>2, <1>5, <2>1
  <1> HIDE DEF ranks, worst
  <1> QED
    BY <1>6, <1>7, <1>8

(* Whether a window ranks device d.                                        *)
Ranked(rows, d) == Measured(rows, d) # {} /\ TooShort(rows, d)

(* The test of the ranking for one device and one window: what it compares *)
(* are numbers, it is the test of ViewsAgreeOnTheLate, and the chart shows *)
(* who meets it.                                                           *)
LEMMA LateAgree ==
    ASSUME HistoryIInv, NEW rows \in SUBSET addressHistoryEnriched, NEW d \in Device
    PROVE
      LET S == Measured(rows, d)
          late == {e \in S : e.gap > ttl[d]}
      IN  /\ Ranked(rows, d) <=>
               /\ S # {} /\ Cardinality(S) >= MinRenewals
               /\ 100 * Cardinality(late) > (100 - Percent) * Cardinality(S)
          /\ Ranked(rows, d) =>
               /\ \E e \in rows : d \in riskDeviceBuckets(rows, Bucket(e.at), "breached")
               /\ percentileGap(S) \in Nat /\ ttl[d] \in Nat \ {0}
               /\ Cardinality(LateRenewals(rows, d)) \in Nat
  <1> DEFINE S == Measured(rows, d)
             late == {e \in S : e.gap > ttl[d]}
             tooMany == 100 * Cardinality(late) > (100 - Percent) * Cardinality(S)
  <1>1. Ranked(rows, d) <=>
          S # {} /\ percentileGap(S) > ttl[d] /\ Cardinality(S) >= MinRenewals
    BY DEF Ranked, TooShort
  <1>2. \A e \in S : /\ e \in rows /\ e.device = d /\ e.gap \in Nat /\ ttl[d] \in Nat \ {0}
                     /\ e.id \in Nat /\ e.risk = ttlRisk(e.gap, ttl[d])
    <2>1. ASSUME NEW e \in S
          PROVE  /\ e \in rows /\ e.device = d /\ e.gap \in Nat /\ ttl[d] \in Nat \ {0}
                 /\ e.id \in Nat /\ e.risk = ttlRisk(e.gap, ttl[d])
      <3>1. e \in rows /\ e.device = d /\ e.risk # "unknown"
        BY DEF Measured
      <3>2. /\ e.gap \in Nat \cup {None} /\ ttl[d] \in (Nat \ {0}) \cup {None}
            /\ e.risk = ttlRisk(e.gap, ttl[d]) /\ e.id \in Nat
        BY <3>1, EnrichedRows DEF HistoryIInv, HistoryTypes
      <3>3. e.gap \in Nat /\ ttl[d] \in Nat
        BY <3>1, <3>2, RiskRanks
      <3> QED
        BY <3>1, <3>2, <3>3, HistoryAssumption
    <2> QED
      BY <2>1
  <1>3. Sample(S)
    <2>1. S \in SUBSET addressHistoryEnriched
      BY DEF Measured
    <2>2. IsFiniteSet(S) /\ \A x, y \in S : x.id = y.id => x = y
      BY <2>1, EnrichedRows, FS_Subset
    <2> QED
      BY <1>2, <2>2 DEF Sample
  <1>4. Cardinality(LateRenewals(rows, d)) \in Nat
    <2>1. LateRenewals(rows, d) \in SUBSET S
      BY DEF LateRenewals
    <2> QED
      BY <1>3, <2>1, SampleOfLess
  <1> HIDE DEF S
  <1>5. ASSUME S # {}
        PROVE  /\ percentileGap(S) \in Nat /\ ttl[d] \in Nat \ {0}
               /\ percentileGap(S) > ttl[d] <=> tooMany
    <2>1. ttl[d] \in Nat \ {0}
      BY <1>2, <1>5
    <2> QED
      BY <1>3, <1>5, <2>1, PercentileIsLate
  <1>6. ASSUME S # {}, tooMany
        PROVE  \E e \in rows : d \in riskDeviceBuckets(rows, Bucket(e.at), "breached")
    <2>1. late # {}
      <3> SUFFICES ASSUME late = {} PROVE FALSE
        OBVIOUS
      <3>1. Cardinality(late) = 0
        BY FS_EmptySet
      <3>2. Cardinality(S) \in Nat /\ Percent \in 1 .. 100
        BY <1>3, FS_CardinalityType, HistoryAssumption DEF Sample
      <3>3. 100 * 0 > (100 - Percent) * Cardinality(S)
        BY <1>6, <3>1
      <3> DEFINE n == Cardinality(S)
      <3> HIDE DEF n
      <3>4. (100 - Percent) * n >= 0 /\ (100 - Percent) * n \in Int
        BY <3>2 DEF n
      <3> QED
        BY <3>3, <3>4 DEF n
    <2>2. PICK e \in late : TRUE
      BY <2>1
    <2>3. /\ e \in rows /\ e.device = d /\ e.gap \in Nat /\ ttl[d] \in Nat
          /\ e.gap > ttl[d] /\ e.risk = ttlRisk(e.gap, ttl[d])
      BY <1>2, <2>2
    <2>4. e.risk = "breached"
      <3>1. e.gap >= ttl[d]
        BY <2>3
      <3> QED
        BY <2>3, <3>1, RiskIs
    <2> QED
      BY <2>3, <2>4, BreachShows
  <1> HIDE DEF tooMany
  <1>7. /\ Ranked(rows, d) <=> S # {} /\ Cardinality(S) >= MinRenewals /\ tooMany
        /\ Ranked(rows, d) =>
             /\ \E e \in rows : d \in riskDeviceBuckets(rows, Bucket(e.at), "breached")
             /\ percentileGap(S) \in Nat /\ ttl[d] \in Nat \ {0}
    BY <1>1, <1>5, <1>6
  <1> QED
    BY <1>4, <1>7 DEF S, tooMany

(* ORDER BY is a strict total order of the devices that are ranked.        *)
LEMMA RankingOrder ==
    ASSUME HistoryIInv, NEW rows \in SUBSET addressHistoryEnriched, NEW S,
           S = {d \in Device : Ranked(rows, d)}
    PROVE  /\ \A x \in S : ~RankedBefore(rows, x, x)
           /\ \A x, y, z \in S : RankedBefore(rows, x, y) /\ RankedBefore(rows, y, z)
                                   => RankedBefore(rows, x, z)
           /\ \A x, y \in S : x # y => RankedBefore(rows, x, y) \/ RankedBefore(rows, y, x)
  <1> DEFINE g(x) == percentileGap(Measured(rows, x))
             t(x) == ttl[x]
             l(x) == Cardinality(LateRenewals(rows, x))
             i(x) == DeviceId[x]
             before(x, y) ==
               \/ g(x) * t(y) > g(y) * t(x)
               \/ /\ g(x) * t(y) = g(y) * t(x)
                  /\ l(x) > l(y) \/ (l(x) = l(y) /\ i(x) < i(y))
  <1>1. \A x \in S : g(x) \in Nat /\ t(x) \in Nat \ {0} /\ l(x) \in Nat /\ i(x) \in Nat
    BY LateAgree, HistoryAssumption
  <1>2. \A x, y \in S : i(x) = i(y) => x = y
    BY HistoryAssumption
  <1>3. \A x, y \in S : RankedBefore(rows, x, y) <=> before(x, y)
    BY DEF RankedBefore, LargerRatio, EqualRatio
  <1> HIDE DEF g, t, l, i
  <1>4. \A x, y \in S : g(x) * t(y) \in Nat
    BY <1>1
  <1>5. \A x \in S : ~before(x, x)
    BY <1>1, <1>4
  <1>6. ASSUME NEW x \in S, NEW y \in S, x # y PROVE before(x, y) \/ before(y, x)
    <2> DEFINE u == g(x) * t(y)
               v == g(y) * t(x)
    <2>1. u \in Nat /\ v \in Nat
      BY <1>4
    <2>2. i(x) # i(y) /\ l(x) \in Nat /\ l(y) \in Nat /\ i(x) \in Nat /\ i(y) \in Nat
      BY <1>1, <1>2, <1>6
    <2> HIDE DEF u, v
    <2>3. \/ u > v \/ v > u
          \/ u = v /\ (l(x) > l(y) \/ l(y) > l(x)
                         \/ (l(x) = l(y) /\ (i(x) < i(y) \/ i(y) < i(x))))
      BY <2>1, <2>2
    <2> QED
      BY <2>3 DEF u, v
  <1>7. ASSUME NEW x \in S, NEW y \in S, NEW z \in S, before(x, y), before(y, z)
        PROVE  before(x, z)
    <2>1. /\ g(x) * t(y) >= g(y) * t(x) /\ g(y) * t(z) >= g(z) * t(y)
      BY <1>4, <1>7
    <2>2. /\ g(x) * t(z) >= g(z) * t(x)
          /\ g(x) * t(y) > g(y) * t(x) \/ g(y) * t(z) > g(z) * t(y)
                => g(x) * t(z) > g(z) * t(x)
      BY <1>1, <2>1, RatioOrder
    <2>3. CASE g(x) * t(y) > g(y) * t(x) \/ g(y) * t(z) > g(z) * t(y)
      BY <2>2, <2>3
    <2>4. CASE ~(g(x) * t(y) > g(y) * t(x) \/ g(y) * t(z) > g(z) * t(y))
      <3>1. /\ l(x) > l(y) \/ (l(x) = l(y) /\ i(x) < i(y))
            /\ l(y) > l(z) \/ (l(y) = l(z) /\ i(y) < i(z))
        BY <1>7, <2>4
      <3>2. l(x) > l(z) \/ (l(x) = l(z) /\ i(x) < i(z))
        BY <1>1, <3>1
      <3>3. g(x) * t(z) > g(z) * t(x) \/ g(x) * t(z) = g(z) * t(x)
        <4> DEFINE u == g(x) * t(z)
                   v == g(z) * t(x)
        <4>1. u \in Nat /\ v \in Nat /\ u >= v
          BY <1>4, <2>2
        <4> HIDE DEF u, v
        <4>2. u > v \/ u = v
          BY <4>1
        <4> QED
          BY <4>2 DEF u, v
      <3> QED
        BY <3>2, <3>3
    <2> QED
      BY <2>3, <2>4
  <1> HIDE DEF before
  <1> QED
    BY <1>3, <1>5, <1>6, <1>7

(* Only finitely many devices have rows.                                   *)
LEMMA RankedAreFinite ==
    ASSUME HistoryIInv, NEW rows \in SUBSET addressHistoryEnriched
    PROVE  IsFiniteSet({d \in Device : Ranked(rows, d)})
  <1> DEFINE T == {e.device : e \in rows}
             f == [e \in rows |-> e.device]
             S == {d \in Device : Ranked(rows, d)}
  <1>1. IsFiniteSet(rows)
    BY EnrichedRows, FS_Subset
  <1>2. f \in Surjection(rows, T)
    BY DEF Surjection
  <1>3. IsFiniteSet(T)
    BY <1>1, <1>2, FS_Surjection
  <1>4. S \in SUBSET T
    BY DEF Ranked, Measured
  <1> QED
    BY <1>3, <1>4, FS_Subset

(* The ranking of one window.                                              *)
LEMMA RankingIs ==
    ASSUME HistoryIInv, NEW rows \in SUBSET addressHistoryEnriched,
           NEW S, S = {d \in Device : Ranked(rows, d)},
           NEW ranking, ranking = GetAddressHistoryTuning(rows, None)
    PROVE  /\ ranking.total = Cardinality(S) /\ ranking.devices \subseteq S
           /\ Cardinality(ranking.devices) =
                IF Cardinality(S) < TuningLimit THEN Cardinality(S) ELSE TuningLimit
           /\ \A c \in ranking.devices, d \in S \ ranking.devices : ~LargerRatio(rows, d, c)
  <1>1. PICK R : \A x, y \in S : <<x, y>> \in R <=> RankedBefore(rows, x, y)
    <2> DEFINE Q == {p \in S \X S : RankedBefore(rows, p[1], p[2])}
    <2>1. \A x, y \in S : <<x, y>> \in Q <=> RankedBefore(rows, x, y)
      OBVIOUS
    <2> HIDE DEF Q
    <2> QED
      BY <2>1
  <1>2. /\ ranking.total = Cardinality(S)
        /\ ranking.devices = FirstOf(S, R, TuningLimit)
    <2>1. S = {d \in {c \in Device : Measured(rows, c) # {}} : TooShort(rows, d)}
      BY DEF Ranked
    <2>2. /\ ranking.total = Cardinality(S)
          /\ ranking.devices = FirstRows(rows, S)
      BY <2>1 DEF GetAddressHistoryTuning
    <2>3. \A d \in S : {c \in S : RankedBefore(rows, c, d)} = Before(S, R, d)
      BY <1>1 DEF Before
    <2> QED
      BY <2>2, <2>3 DEF FirstRows, FirstOf
  <1>3. /\ \A x \in S : <<x, x>> \notin R
        /\ \A x, y, z \in S : <<x, y>> \in R /\ <<y, z>> \in R => <<x, z>> \in R
        /\ \A x, y \in S : x # y => <<x, y>> \in R \/ <<y, x>> \in R
    BY <1>1, RankingOrder
  <1>4. IsFiniteSet(S) /\ TuningLimit \in Nat
    BY RankedAreFinite, HistoryAssumption
  <1>5. /\ Cardinality(ranking.devices) =
             IF Cardinality(S) < TuningLimit THEN Cardinality(S) ELSE TuningLimit
        /\ \A c \in ranking.devices, d \in S \ ranking.devices : <<d, c>> \notin R
    <2> DEFINE F == FirstOf(S, R, TuningLimit)
    <2>1. /\ Cardinality(F) =
               IF Cardinality(S) < TuningLimit THEN Cardinality(S) ELSE TuningLimit
          /\ \A c \in F, d \in S \ F : <<d, c>> \notin R
      BY ONLY <1>3, <1>4, FirstOfOrder
    <2> QED
      BY <1>2, <2>1
  <1>6. ASSUME NEW c \in ranking.devices, NEW d \in S \ ranking.devices
        PROVE  ~LargerRatio(rows, d, c)
    <2>1. c \in S /\ ~RankedBefore(rows, d, c)
      BY <1>1, <1>2, <1>5 DEF FirstOf
    <2> QED
      BY <2>1 DEF RankedBefore
  <1> QED
    BY <1>2, <1>5, <1>6 DEF FirstOf

(* For every sample size, percentile and length of the list, the ranking   *)
(* counts exactly the devices of which too many renewals came late, lists  *)
(* as many of them as fit, those with the largest ratios, and the chart    *)
(* shows them all (device/address_history_tuning_view.go:130-175).         *)
THEOREM LatesAgree == HistorySpec => []ViewsAgreeOnTheLate
  <1>1. ASSUME HistoryIInv, NEW rows \in SUBSET addressHistoryEnriched, NEW S,
               S = {d \in Device :
                 LET M == Measured(rows, d)
                     late == {e \in M : e.gap > ttl[d]}
                 IN  /\ M # {} /\ Cardinality(M) >= MinRenewals
                     /\ 100 * Cardinality(late) > (100 - Percent) * Cardinality(M)},
               NEW ranking, ranking = GetAddressHistoryTuning(rows, None)
        PROVE  /\ ranking.total = Cardinality(S)
               /\ ranking.devices \subseteq S
               /\ Cardinality(ranking.devices) =
                    IF ranking.total < TuningLimit THEN ranking.total ELSE TuningLimit
               /\ \A c \in ranking.devices, d \in S \ ranking.devices :
                    ~LargerRatio(rows, d, c)
               /\ \A d \in S :
                    /\ \E e \in rows : d \in riskDeviceBuckets(rows, Bucket(e.at), "breached")
                    /\ d \in GetAddressHistoryTuning(rows, d).devices
    <2>1. S = {d \in Device : Ranked(rows, d)}
      BY <1>1, LateAgree
    <2>2. ASSUME NEW d \in S
          PROVE  /\ \E e \in rows : d \in riskDeviceBuckets(rows, Bucket(e.at), "breached")
                 /\ d \in GetAddressHistoryTuning(rows, d).devices
      <3>1. d \in Device /\ Ranked(rows, d) /\ d # None
        BY <2>1, HistoryAssumption
      <3>2. \E e \in rows : d \in riskDeviceBuckets(rows, Bucket(e.at), "breached")
        BY <1>1, <3>1, LateAgree
      <3>3. d \in GetAddressHistoryTuning(rows, d).devices
        BY <3>1 DEF GetAddressHistoryTuning, Ranked
      <3> QED
        BY <3>2, <3>3
    <2>3. /\ ranking.total = Cardinality(S) /\ ranking.devices \subseteq S
          /\ Cardinality(ranking.devices) =
               IF Cardinality(S) < TuningLimit THEN Cardinality(S) ELSE TuningLimit
          /\ \A c \in ranking.devices, d \in S \ ranking.devices : ~LargerRatio(rows, d, c)
      BY <1>1, <2>1, RankingIs
    <2>4. Cardinality(ranking.devices) =
            IF ranking.total < TuningLimit THEN ranking.total ELSE TuningLimit
      BY <2>3
    <2> QED
      BY <2>2, <2>3, <2>4
  <1>2. HistoryIInv => ViewsAgreeOnTheLate
    <2>1. ASSUME HistoryIInv, NEW from
          PROVE  addressHistoryConditions(addressHistoryEnriched, from, now)
                   \in SUBSET addressHistoryEnriched
      BY DEF addressHistoryConditions
    <2> QED
      BY <1>1, <2>1 DEF ViewsAgreeOnTheLate
  <1> QED
    BY <1>2, HistoryInvariance, PTL

-----------------------------------------------------------------------------
(* The address history and the lease service together.                     *)

(* The views and the lease service go by the same rule.                    *)
RuleIsTtl ==
    \A d \in Device : IF ttl[d] = None THEN rule[d] \notin Nat
                                       ELSE rule[d] = ttl[d] * Second

(* No rule event of a device is under way unless its rule has moved.       *)
RulesArrived ==
    \A d \in Device \ moved :
        d \notin Leases!Subjects(Leases!Unannounced) /\ Leases!Queued(ruleEvents, d) = {}

(* j is the last renewal of its device.                                    *)
LastOn(j) ==
    /\ log[j].on
    /\ \A i \in DOMAIN log : i > j /\ DeviceOf[log[i].addr] = DeviceOf[log[j].addr]
                               => ~log[i].on

(* The last event about b has reached the listener.                        *)
Reached(b) ==
    /\ Leases!Trusted(b) /\ b \notin Leases!Subjects(Leases!Unannounced)
    /\ Leases!Queued(events, b) = {}

(* The lease of b, or the one being written, runs at least until m.        *)
RunsUntil(b, m) ==
    /\ ~Leases!InJob(b) /\ lease[b] \in Nat => now + lease[b] >= m
    /\ Leases!InJob(b) /\ job.pc = "upsert" /\ job.left \in Nat => now + job.left >= m

(* A lease the last renewal has reached runs for a TTL from that renewal,  *)
(* unless the rule has moved.                                              *)
LeasesRunFull ==
    \A j \in DOMAIN log, b \in Address :
        /\ LastOn(j) /\ log[j].addr = b
        /\ DeviceOf[b] \notin moved /\ ttl[DeviceOf[b]] # None /\ Reached(b)
        => RunsUntil(b, log[j].at + ttl[DeviceOf[b]] * Second)

(* Nor has it been expired before then, except early.                      *)
ExpiriesAreLate ==
    \A j, l \in DOMAIN log, b \in Address :
        /\ LastOn(j) /\ log[j].addr = b
        /\ l > j /\ log[l].addr = b /\ log[l].src = "expiry"
        /\ DeviceOf[b] \notin moved \cup early /\ ttl[DeviceOf[b]] # None
        => log[l].at >= log[j].at + ttl[DeviceOf[b]] * Second

LapseIInv ==
    /\ HistoryIInv /\ Leases!TypeOK
    /\ RuleIsTtl /\ RulesArrived /\ LeasesRunFull /\ ExpiriesAreLate

LeaseFacts == INSTANCE LeaseProofs WITH
    ttl <- rule, TTL <- {t * Second : t \in TTL}, Request <- Handler

(* The types of the lease service, from the proofs about it.               *)
LEMMA LeaseTypesKept == Leases!TypeOK /\ [Leases!Next]_(Leases!vars) => Leases!TypeOK'
  <1>1. LeaseFacts!IsFiniteSet(Address)
    BY RegistryAssumption DEF LeaseFacts!IsFiniteSet, IsFiniteSet
  <1>2. {t * Second : t \in TTL} \subseteq Nat
    BY HistoryAssumption
  <1>3. LeaseFacts!TypeOK /\ [LeaseFacts!Next]_(LeaseFacts!vars) => LeaseFacts!TypeOK'
    BY <1>1, <1>2, RegistryAssumption, LapseAssumption, LeaseFacts!TypeStep
  <1>4. /\ LeaseFacts!TypeOK <=> Leases!TypeOK
        /\ LeaseFacts!TypeOK' <=> Leases!TypeOK'
    BY DEF LeaseFacts!TypeOK, Leases!TypeOK, LeaseFacts!RegistryTypeOK,
           Leases!RegistryTypeOK, LeaseFacts!Left, Leases!Left, LeaseFacts!Process,
           Leases!Process, LeaseFacts!AddressEvent, Leases!AddressEvent,
           LeaseFacts!RuleEvent, Leases!RuleEvent, LeaseFacts!Event, Leases!Event,
           LeaseFacts!NoJob, Leases!NoJob
  <1>5. LeaseFacts!Next <=> Leases!Next
    BY DEF LeaseFacts!Next, Leases!Next, LeaseFacts!Handlers, Leases!Handlers,
           LeaseFacts!RegisterAddressActivity, Leases!RegisterAddressActivity,
           LeaseFacts!DisableSome, Leases!DisableSome, LeaseFacts!DisableAddress,
           Leases!DisableAddress, LeaseFacts!DisableAddresses,
           Leases!DisableAddresses, LeaseFacts!DisableOrDeleteDevice,
           Leases!DisableOrDeleteDevice, LeaseFacts!CreateOrEnableDevice,
           Leases!CreateOrEnableDevice, LeaseFacts!EnableDeviceAddressLeaseRule,
           Leases!EnableDeviceAddressLeaseRule,
           LeaseFacts!DisableDeviceAddressLeaseRule,
           Leases!DisableDeviceAddressLeaseRule, LeaseFacts!DeleteUserRolledBack,
           Leases!DeleteUserRolledBack, LeaseFacts!AnnounceAny, Leases!AnnounceAny,
           LeaseFacts!Announce, Leases!Announce, LeaseFacts!Send, Leases!Send,
           LeaseFacts!Listener, Leases!Listener, LeaseFacts!TakeEnabled,
           Leases!TakeEnabled, LeaseFacts!GetDeviceAddressLeaseTTLSeconds,
           Leases!GetDeviceAddressLeaseTTLSeconds, LeaseFacts!UpsertAddressLease,
           Leases!UpsertAddressLease, LeaseFacts!ClearAddressLease,
           Leases!ClearAddressLease, LeaseFacts!SetDeviceAddressLeasesExpiry,
           Leases!SetDeviceAddressLeasesExpiry, LeaseFacts!ListenerFails,
           Leases!ListenerFails, LeaseFacts!ExpiryJob, Leases!ExpiryJob,
           LeaseFacts!GetExpiredAddressIDs, Leases!GetExpiredAddressIDs,
           LeaseFacts!DisableExpired, Leases!DisableExpired, LeaseFacts!Tick,
           Leases!Tick, LeaseFacts!Aged, Leases!Aged, LeaseFacts!AgedEvent,
           Leases!AgedEvent, LeaseFacts!Restart, Leases!Restart,
           LeaseFacts!Committed, Leases!Committed, LeaseFacts!Subjects,
           Leases!Subjects, LeaseFacts!Unannounced, Leases!Unannounced,
           LeaseFacts!Enabled, Leases!Enabled, LeaseFacts!Disabled, Leases!Disabled,
           LeaseFacts!RuleSet, Leases!RuleSet, LeaseFacts!Process, Leases!Process,
           LeaseFacts!NoJob, Leases!NoJob, LeaseFacts!registry, Leases!registry,
           LeaseFacts!volatile, Leases!volatile, LeaseFacts!RegisterAddressTx,
           Leases!RegisterAddressTx, LeaseFacts!RecordEnabled, Leases!RecordEnabled,
           LeaseFacts!EnabledAddresses, Leases!EnabledAddresses,
           LeaseFacts!AddressesOf, Leases!AddressesOf, LeaseFacts!DisableAddressTx,
           Leases!DisableAddressTx, LeaseFacts!RecordDisabled, Leases!RecordDisabled,
           LeaseFacts!DisableAddressesTx, Leases!DisableAddressesTx,
           LeaseFacts!DisableDeviceTx, Leases!DisableDeviceTx,
           LeaseFacts!DeleteDeviceTx, Leases!DeleteDeviceTx, LeaseFacts!CreateDevice,
           Leases!CreateDevice, LeaseFacts!EnableDevice, Leases!EnableDevice
  <1>6. LeaseFacts!vars = Leases!vars /\ LeaseFacts!vars' = Leases!vars'
    BY DEF LeaseFacts!vars, Leases!vars, LeaseFacts!registry, Leases!registry,
           LeaseFacts!volatile, Leases!volatile
  <1> QED
    BY <1>3, <1>4, <1>5, <1>6

(* Every step is one of the lease service and one of the history.          *)
LEMMA LapseIsLease == [LapseNext]_lapseVars => [Leases!Next]_(Leases!vars)
  <1> SUFFICES ASSUME [LapseNext]_lapseVars PROVE [Leases!Next]_(Leases!vars)
    OBVIOUS
  <1> USE DEF Leases!Next, Leases!Handlers
  <1>1. ASSUME NEW h \in Handler, NEW a \in Address, RegisterAndRenew(h, a)
        PROVE  Leases!Next
    BY <1>1 DEF RegisterAndRenew
  <1>2. ASSUME NEW h \in Handler, DisableAndClear(h) PROVE Leases!Next
    <2>1. CASE \E a \in Address : DisableAddress(a) /\ Leases!DisableAddress(h, a)
      BY <2>1 DEF Leases!DisableSome
    <2>2. CASE \E d \in Device, S \in SUBSET Listable :
                 EvictAddresses(d, S) /\ Leases!DisableAddresses(h, S)
      BY <2>2 DEF Leases!DisableSome, Listable
    <2>3. CASE \E d \in Device :
                 DisableOrDeleteDevice(d) /\ Leases!DisableOrDeleteDevice(h, d)
      BY <2>3 DEF Leases!DisableSome
    <2> QED
      BY <1>2, <2>1, <2>2, <2>3 DEF DisableAndClear
  <1>3. ASSUME NEW d \in Device, CreateOrEnable(d) PROVE Leases!Next
    BY <1>3 DEF CreateOrEnable
  <1>4. ASSUME NEW h \in Handler, NEW d \in Device, NEW t \in TTL, EnableLeaseRule(h, d, t)
        PROVE  Leases!Next
    <2>1. t * Second \in {x * Second : x \in TTL}
      OBVIOUS
    <2>2. Leases!EnableDeviceAddressLeaseRule(h, d, t * Second)
      BY <1>4 DEF EnableLeaseRule
    <2> QED
      BY <2>1, <2>2
  <1>5. ASSUME NEW h \in Handler, NEW d \in Device, DisableLeaseRule(h, d) PROVE Leases!Next
    BY <1>5 DEF DisableLeaseRule
  <1>6. CASE ExpireListed
    BY <1>6 DEF ExpireListed, Leases!ExpiryJob
  <1>7. CASE BehindTheRegistry
    BY <1>7 DEF BehindTheRegistry, Leases!ExpiryJob
  <1>8. CASE PassTime
    BY <1>8 DEF PassTime
  <1>9. CASE PruneEvents \/ UNCHANGED lapseVars
    <2>1. UNCHANGED leaseTables /\ UNCHANGED registry
      BY <1>9 DEF PruneEvents, DeleteAddressEventsOlderThan, lapseVars, historyVars
    <2> QED
      BY <2>1 DEF leaseTables, registry, Leases!vars, Leases!registry, Leases!volatile
  <1> QED
    BY <1>1, <1>2, <1>3, <1>4, <1>5, <1>6, <1>7, <1>8, <1>9 DEF LapseNext

LEMMA LapseIsHistory == [LapseNext]_lapseVars => [HistoryNext]_historyVars
  <1> SUFFICES ASSUME [LapseNext]_lapseVars PROVE [HistoryNext]_historyVars
    OBVIOUS
  <1>1. ASSUME NEW h \in Handler, NEW a \in Address, RegisterAndRenew(h, a)
        PROVE  HistoryNext
    BY <1>1 DEF RegisterAndRenew, HistoryNext
  <1>2. ASSUME NEW h \in Handler, DisableAndClear(h) PROVE HistoryNext
    BY <1>2 DEF DisableAndClear, HistoryNext
  <1>3. ASSUME NEW d \in Device, CreateOrEnable(d) PROVE HistoryNext
    BY <1>3 DEF CreateOrEnable, HistoryNext
  <1>4. ASSUME NEW h \in Handler, NEW d \in Device, NEW t \in TTL, EnableLeaseRule(h, d, t)
        PROVE  HistoryNext
    BY <1>4 DEF EnableLeaseRule, HistoryNext
  <1>5. ASSUME NEW h \in Handler, NEW d \in Device, DisableLeaseRule(h, d) PROVE HistoryNext
    BY <1>5 DEF DisableLeaseRule, HistoryNext
  <1>6. CASE ExpireListed
    BY <1>6 DEF ExpireListed, HistoryNext, ExpireAddresses
  <1>7. CASE PassTime
    BY <1>7, LapseAssumption DEF PassTime, HistoryNext
  <1>8. CASE PruneEvents
    BY <1>8 DEF PruneEvents, HistoryNext
  <1>9. CASE BehindTheRegistry \/ UNCHANGED lapseVars
    BY <1>9 DEF BehindTheRegistry, lapseVars
  <1> QED
    BY <1>1, <1>2, <1>3, <1>4, <1>5, <1>6, <1>7, <1>8, <1>9 DEF LapseNext

-----------------------------------------------------------------------------
(* A queue and what is under way after one event.                          *)
LEMMA QueueGrows ==
    ASSUME NEW T, NEW q \in Seq(T), NEW e \in T, NEW x
    PROVE  Leases!Queued(Append(q, e), x) = {} <=> Leases!Queued(q, x) = {} /\ e.of # x
  <1> DEFINE n == Len(q)
             r == Append(q, e)
  <1>1. /\ n \in Nat /\ DOMAIN q = 1 .. n /\ DOMAIN r = 1 .. n + 1
        /\ r[n + 1] = e /\ \A i \in 1 .. n : r[i] = q[i]
    OBVIOUS
  <1> HIDE DEF n, r
  <1>2. \A i \in 1 .. n + 1 : i \in 1 .. n \/ i = n + 1
    BY <1>1
  <1>3. n + 1 \in 1 .. n + 1 /\ \A i \in 1 .. n : i \in 1 .. n + 1
    BY <1>1
  <1> QED
    BY <1>1, <1>2, <1>3 DEF Leases!Queued, r

LEMMA QueueShrinks ==
    ASSUME NEW T, NEW q \in Seq(T), q # <<>>, NEW x
    PROVE  Leases!Queued(q, x) = {} <=> Head(q).of # x /\ Leases!Queued(Tail(q), x) = {}
  <1> DEFINE n == Len(q)
             r == Tail(q)
  <1>1. /\ n \in Nat \ {0} /\ DOMAIN q = 1 .. n /\ DOMAIN r = 1 .. n - 1
        /\ Head(q) = q[1] /\ \A i \in 1 .. n - 1 : r[i] = q[i + 1]
    OBVIOUS
  <1> HIDE DEF n, r
  <1>2. \A i \in 1 .. n : i = 1 \/ (i - 1 \in 1 .. n - 1 /\ (i - 1) + 1 = i)
    BY <1>1
  <1>3. 1 \in 1 .. n /\ \A i \in 1 .. n - 1 : i + 1 \in 1 .. n
    BY <1>1
  <1>4. /\ Leases!Queued(q, x) = {} <=> \A i \in 1 .. n : q[i].of # x
        /\ Leases!Queued(r, x) = {} <=> \A i \in 1 .. n - 1 : r[i].of # x
    BY <1>1 DEF Leases!Queued
  <1>5. ASSUME \A i \in 1 .. n - 1 : r[i].of # x, q[1].of # x, NEW i \in 1 .. n
        PROVE  q[i].of # x
    <2>1. CASE i = 1
      BY <1>5, <2>1
    <2>2. CASE i # 1
      <3>1. i - 1 \in 1 .. n - 1 /\ q[(i - 1) + 1] = q[i]
        BY <1>2, <2>2
      <3> QED
        BY <1>1, <1>5, <3>1
    <2> QED
      BY <2>1, <2>2
  <1>6. ASSUME \A i \in 1 .. n : q[i].of # x
        PROVE  q[1].of # x /\ \A i \in 1 .. n - 1 : r[i].of # x
    BY <1>1, <1>3, <1>6
  <1> QED
    BY <1>1, <1>4, <1>5, <1>6 DEF r

(* What a commit leaves under way.                                         *)
LEMMA CommitReached ==
    ASSUME Leases!TypeOK, NEW p \in Leases!Process, NEW E, Leases!Committed(p, E), NEW x
    PROVE  /\ x \in Leases!Subjects(Leases!Unannounced)' <=>
                x \in Leases!Subjects(Leases!Unannounced) \cup Leases!Subjects(E)
           /\ events' = events /\ Reached(x)' => Reached(x) /\ x \notin Leases!Subjects(E)
  <1>1. /\ inflight \in [Leases!Process -> SUBSET Leases!Event]
        /\ inflight[p] = {} /\ inflight' = [inflight EXCEPT ![p] = E]
    BY DEF Leases!TypeOK, Leases!Committed
  <1>2. Leases!Unannounced' = Leases!Unannounced \cup E
    BY <1>1 DEF Leases!Unannounced
  <1>3. x \in Leases!Subjects(Leases!Unannounced)' <=>
                x \in Leases!Subjects(Leases!Unannounced) \cup Leases!Subjects(E)
    BY <1>2 DEF Leases!Subjects
  <1>4. x \notin Leases!Subjects(E) => (Leases!Trusted(x)' <=> Leases!Trusted(x))
    BY DEF Leases!Trusted, Leases!Committed
  <1> QED
    BY <1>3, <1>4 DEF Reached

(* What a send, or the loss of what was to be sent, leaves under way.      *)
LEMMA SendReached ==
    ASSUME Leases!TypeOK, NEW e \in Leases!Event, Leases!Send(e), NEW x
    PROVE  /\ x \in Address /\ Leases!Queued(events', x) = {} =>
                Leases!Queued(events, x) = {} /\ e.of # x
           /\ Leases!Queued(ruleEvents, x) = {} /\ e.of # x =>
                Leases!Queued(ruleEvents', x) = {}
  <1>1. events \in Seq(Leases!AddressEvent) /\ ruleEvents \in Seq(Leases!RuleEvent)
    BY DEF Leases!TypeOK
  <1>2. /\ e.kind # "rule" => e \in Leases!AddressEvent
        /\ e.kind = "rule" => e \in Leases!RuleEvent /\ e.of \in Device
    BY DEF Leases!Event, Leases!AddressEvent, Leases!RuleEvent
  <1>3. CASE e.kind # "rule" /\ events' = Append(events, e) /\ UNCHANGED ruleEvents
    BY <1>1, <1>2, <1>3, QueueGrows
  <1>4. CASE e.kind = "rule" /\ ruleEvents' = Append(ruleEvents, e) /\ UNCHANGED events
    <2>1. x \in Address => e.of # x
      BY <1>2, <1>4, LapseAssumption
    <2> QED
      BY <1>1, <1>2, <1>4, <2>1, QueueGrows
  <1> QED
    BY <1>3, <1>4 DEF Leases!Send

(* What an announcement takes off what is under way.                       *)
LEMMA AnnounceReached ==
    ASSUME Leases!TypeOK, NEW p \in Leases!Process, NEW e, Leases!Announce(p, e), NEW x
    PROVE  /\ e \in Leases!Event /\ e.of \in Leases!Subjects(Leases!Unannounced)
           /\ x \in Leases!Subjects(Leases!Unannounced)' =>
                x \in Leases!Subjects(Leases!Unannounced)
           /\ x \in Leases!Subjects(Leases!Unannounced) =>
                x \in Leases!Subjects(Leases!Unannounced)' \/ x = e.of
  <1>1. /\ inflight \in [Leases!Process -> SUBSET Leases!Event]
        /\ e \in inflight[p] /\ inflight' = [inflight EXCEPT ![p] = @ \ {e}]
    BY DEF Leases!TypeOK, Leases!Announce
  <1>2. e \in Leases!Event /\ e \in Leases!Unannounced
    BY <1>1 DEF Leases!Unannounced
  <1>3. /\ Leases!Unannounced' \subseteq Leases!Unannounced
        /\ Leases!Unannounced \subseteq Leases!Unannounced' \cup {e}
    BY <1>1 DEF Leases!Unannounced
  <1> QED
    BY <1>2, <1>3 DEF Leases!Subjects

(* Behind the registry no rule event comes up.                             *)
LEMMA BehindRules ==
    ASSUME Leases!TypeOK, BehindTheRegistry, NEW d \in Device,
           d \notin Leases!Subjects(Leases!Unannounced),
           Leases!Queued(ruleEvents, d) = {}
    PROVE  /\ d \notin Leases!Subjects(Leases!Unannounced)'
           /\ Leases!Queued(ruleEvents, d)' = {}
  <1> DEFINE Done == /\ d \notin Leases!Subjects(Leases!Unannounced)'
                     /\ Leases!Queued(ruleEvents', d) = {}
  <1>t. ruleEvents \in Seq(Leases!RuleEvent)
    BY DEF Leases!TypeOK
  <1>s. ASSUME inflight' = inflight PROVE d \notin Leases!Subjects(Leases!Unannounced)'
    BY <1>s DEF Leases!Subjects, Leases!Unannounced
  <1>1. ASSUME NEW p \in Leases!Process, Leases!AnnounceAny(p) PROVE Done
    <2>1. PICK e : Leases!Announce(p, e)
      BY <1>1 DEF Leases!AnnounceAny
    <2>2. d \notin Leases!Subjects(Leases!Unannounced)' /\ e.of # d /\ e \in Leases!Event
      BY <2>1, AnnounceReached
    <2>3. CASE Leases!Send(e)
      BY <2>2, <2>3, SendReached
    <2>4. CASE UNCHANGED ruleEvents
      BY <2>2, <2>4
    <2> QED
      BY <2>1, <2>3, <2>4 DEF Leases!Announce
  <1>2. ASSUME NEW a \in Address, Leases!DeleteUserRolledBack(a) PROVE Done
    <2>1. Leases!Send(Leases!Disabled(a)) /\ inflight' = inflight
      BY <1>2 DEF Leases!DeleteUserRolledBack
    <2>2. UNCHANGED ruleEvents
      BY <2>1 DEF Leases!Send, Leases!Disabled
    <2> QED
      BY <1>s, <2>1, <2>2
  <1>3. ASSUME inflight' = inflight,
               ruleEvents' = ruleEvents \/ (ruleEvents # <<>> /\ ruleEvents' = Tail(ruleEvents))
        PROVE  Done
    BY <1>s, <1>t, <1>3, QueueShrinks
  <1>4. CASE Leases!Listener
    BY <1>3, <1>4 DEF Leases!Listener, Leases!TakeEnabled, Leases!UpsertAddressLease,
         Leases!GetDeviceAddressLeaseTTLSeconds, Leases!ClearAddressLease,
         Leases!SetDeviceAddressLeasesExpiry
  <1>5. CASE Leases!ListenerFails \/ Leases!GetExpiredAddressIDs
    BY <1>3, <1>5 DEF Leases!ListenerFails, Leases!GetExpiredAddressIDs, Leases!volatile
  <1>6. CASE Leases!Restart
    BY <1>6 DEF Leases!Restart, Leases!Subjects, Leases!Unannounced, Leases!Queued
  <1> QED
    BY <1>1, <1>2, <1>4, <1>5, <1>6 DEF BehindTheRegistry

(* Behind the registry a lease is written with the TTL of the rule, or not *)
(* at all.                                                                 *)
LEMMA BehindRuns ==
    ASSUME Leases!TypeOK, BehindTheRegistry, now \in Nat, NEW b \in Address,
           Leases!Queued(ruleEvents, DeviceOf[b]) = {}, NEW m \in Nat,
           rule[DeviceOf[b]] \in Nat => now + rule[DeviceOf[b]] >= m,
           Reached(b)', Reached(b) => RunsUntil(b, m)
    PROVE  RunsUntil(b, m)'
  <1>t. events \in Seq(Leases!AddressEvent) /\ ruleEvents \in Seq(Leases!RuleEvent)
    BY DEF Leases!TypeOK
  <1>n. now' = now
    BY DEF BehindTheRegistry, historyVars
  <1>r. /\ b \notin lost' \cup raced' /\ Leases!Queued(events', b) = {}
        /\ b \notin Leases!Subjects(Leases!Unannounced)'
    BY DEF Reached, Leases!Trusted
  <1>s. ASSUME inflight' = inflight PROVE b \notin Leases!Subjects(Leases!Unannounced)
    BY <1>r, <1>s DEF Leases!Subjects, Leases!Unannounced
  <1>f. ASSUME Reached(b), lease' = lease, job' = job PROVE RunsUntil(b, m)'
    BY <1>n, <1>f DEF RunsUntil, Leases!InJob
  <1>1. ASSUME NEW p \in Leases!Process, Leases!AnnounceAny(p) PROVE RunsUntil(b, m)'
    <2>1. PICK e : Leases!Announce(p, e)
      BY <1>1 DEF Leases!AnnounceAny
    <2>2. /\ e \in Leases!Event
          /\ b \in Leases!Subjects(Leases!Unannounced) => b = e.of
      BY <1>r, <2>1, AnnounceReached
    <2>3. CASE Leases!Send(e) /\ UNCHANGED lost
      BY <1>f, <1>r, <2>1, <2>2, <2>3, SendReached DEF Leases!Announce, Reached, Leases!Trusted
    <2>4. CASE lost' = lost \cup {e.of} /\ UNCHANGED <<events, ruleEvents>>
      BY <1>f, <1>r, <2>1, <2>2, <2>4 DEF Leases!Announce, Reached, Leases!Trusted
    <2> QED
      BY <2>1, <2>3, <2>4 DEF Leases!Announce
  <1>2. ASSUME NEW a \in Address, Leases!DeleteUserRolledBack(a) PROVE RunsUntil(b, m)'
    <2>1. /\ Leases!Send(Leases!Disabled(a)) /\ lost' = lost \cup {a} /\ raced' = raced
          /\ inflight' = inflight /\ lease' = lease /\ job' = job
      BY <1>2 DEF Leases!DeleteUserRolledBack
    <2>2. Leases!Disabled(a) \in Leases!Event
      BY DEF Leases!Disabled, Leases!Event, Leases!AddressEvent
    <2>3. Leases!Queued(events, b) = {}
      BY <1>r, <2>1, <2>2, SendReached
    <2> QED
      BY <1>f, <1>r, <1>s, <2>1, <2>3 DEF Reached, Leases!Trusted
  <1>3. CASE Leases!TakeEnabled
    <2>1. /\ job = Leases!NoJob /\ events # <<>> /\ events' = Tail(events)
          /\ job' = [pc |-> "ttl", of |-> Head(events).of] /\ lease' = lease
          /\ inflight' = inflight /\ lost' = lost /\ raced' = raced
      BY <1>3 DEF Leases!TakeEnabled
    <2>2. job' # Leases!NoJob /\ job'.pc = "ttl" /\ job'.of = Head(events).of
      BY <2>1 DEF Leases!NoJob
    <2>3. CASE Head(events).of = b
      BY <2>2, <2>3 DEF RunsUntil, Leases!InJob
    <2>4. CASE Head(events).of # b
      <3>1. Leases!Queued(events, b) = {}
        BY <1>r, <1>t, <2>1, <2>4, QueueShrinks
      <3>2. Reached(b)
        BY <1>r, <1>s, <2>1, <3>1 DEF Reached, Leases!Trusted
      <3>3. ~Leases!InJob(b) /\ ~Leases!InJob(b)'
        BY <2>1, <2>2, <2>4 DEF Leases!InJob
      <3> QED
        BY <1>n, <2>1, <3>2, <3>3 DEF RunsUntil
    <2> QED
      BY <2>3, <2>4
  <1>4. CASE Leases!GetDeviceAddressLeaseTTLSeconds
    <2>1. /\ job.pc = "ttl" /\ lease' = lease /\ events' = events
          /\ job' = [pc |-> "upsert", of |-> job.of,
                     left |-> IF rule[DeviceOf[job.of]] = NoRule THEN Never
                              ELSE rule[DeviceOf[job.of]]]
          /\ inflight' = inflight /\ lost' = lost /\ raced' = raced
      BY <1>4 DEF Leases!GetDeviceAddressLeaseTTLSeconds
    <2>2. Reached(b)
      BY <1>r, <1>s, <2>1 DEF Reached, Leases!Trusted
    <2>3. /\ job # Leases!NoJob /\ job' # Leases!NoJob /\ job'.of = job.of
          /\ job'.left = IF rule[DeviceOf[job.of]] = NoRule THEN Never
                         ELSE rule[DeviceOf[job.of]]
      BY <2>1 DEF Leases!NoJob
    <2>4. CASE job.of = b
      <3>1. job'.left \in Nat => now + job'.left >= m
        BY <2>3, <2>4, LapseAssumption
      <3> QED
        BY <1>n, <2>3, <2>4, <3>1 DEF RunsUntil, Leases!InJob
    <2>5. CASE job.of # b
      BY <1>n, <2>1, <2>2, <2>3, <2>5 DEF RunsUntil, Leases!InJob
    <2> QED
      BY <2>4, <2>5
  <1>5. CASE Leases!UpsertAddressLease
    <2>1. /\ job.pc = "upsert" /\ lease' = [lease EXCEPT ![job.of] = job.left]
          /\ job' = Leases!NoJob /\ events' = events
          /\ inflight' = inflight /\ lost' = lost /\ raced' = raced
      BY <1>5 DEF Leases!UpsertAddressLease
    <2>2. Reached(b)
      BY <1>r, <1>s, <2>1 DEF Reached, Leases!Trusted
    <2>3. ~Leases!InJob(b)' /\ job # Leases!NoJob /\ b \in DOMAIN lease
      BY <2>1 DEF Leases!InJob, Leases!NoJob, Leases!TypeOK
    <2> QED
      BY <1>n, <2>1, <2>2, <2>3 DEF RunsUntil, Leases!InJob
  <1>6. CASE Leases!ClearAddressLease
    <2>1. /\ events # <<>> /\ events' = Tail(events) /\ job' = job
          /\ lease' = [lease EXCEPT ![Head(events).of] = NoLease] /\ job = Leases!NoJob
          /\ inflight' = inflight /\ lost' = lost /\ raced' = raced
      BY <1>6 DEF Leases!ClearAddressLease
    <2>2. b \in DOMAIN lease /\ ~Leases!InJob(b) /\ ~Leases!InJob(b)'
      BY <2>1 DEF Leases!TypeOK, Leases!InJob
    <2>3. CASE Head(events).of = b
      BY <2>1, <2>2, <2>3, LapseAssumption DEF RunsUntil
    <2>4. CASE Head(events).of # b
      <3>1. Leases!Queued(events, b) = {}
        BY <1>r, <1>t, <2>1, <2>4, QueueShrinks
      <3>2. Reached(b) /\ lease'[b] = lease[b]
        BY <1>r, <1>s, <2>1, <2>4, <3>1 DEF Reached, Leases!Trusted
      <3> QED
        BY <1>n, <2>2, <3>2 DEF RunsUntil
    <2> QED
      BY <2>3, <2>4
  <1>7. CASE Leases!SetDeviceAddressLeasesExpiry
    <2>1. /\ ruleEvents # <<>> /\ job' = job /\ events' = events
          /\ lease' = [a \in Address |->
                         IF DeviceOf[a] = Head(ruleEvents).of /\ lease[a] # NoLease
                         THEN Head(ruleEvents).left ELSE lease[a]]
          /\ inflight' = inflight /\ lost' = lost /\ raced' = raced
      BY <1>7 DEF Leases!SetDeviceAddressLeasesExpiry
    <2>2. Head(ruleEvents).of # DeviceOf[b]
      BY <1>t, <2>1, QueueShrinks
    <2>3. lease'[b] = lease[b] /\ Reached(b)
      BY <1>r, <1>s, <2>1, <2>2 DEF Reached, Leases!Trusted
    <2> QED
      BY <1>n, <2>1, <2>3 DEF RunsUntil, Leases!InJob
  <1>8. CASE Leases!ListenerFails
    <2>1. lease' = lease /\ inflight' = inflight /\ raced' = raced
      BY <1>8 DEF Leases!ListenerFails
    <2>2. CASE job # Leases!NoJob /\ job' = Leases!NoJob /\ lost' = lost \cup {job.of}
                 /\ UNCHANGED <<events, ruleEvents>>
      <3>1. Reached(b) /\ job.of # b
        BY <1>r, <1>s, <2>1, <2>2 DEF Reached, Leases!Trusted
      <3> QED
        BY <1>n, <2>1, <2>2, <3>1 DEF RunsUntil, Leases!InJob
    <2>3. CASE events # <<>> /\ events' = Tail(events) /\ job' = job
                 /\ lost' = lost \cup {Head(events).of}
      <3>1. Leases!Queued(events, b) = {}
        BY <1>r, <1>t, <2>3, QueueShrinks
      <3> QED
        BY <1>f, <1>r, <1>s, <2>1, <2>3, <3>1 DEF Reached, Leases!Trusted
    <2>4. CASE events' = events /\ job' = job /\ lost' = lost \cup {Head(ruleEvents).of}
      BY <1>f, <1>r, <1>s, <2>1, <2>4 DEF Reached, Leases!Trusted
    <2> QED
      BY <1>8, <2>2, <2>3, <2>4 DEF Leases!ListenerFails
  <1>9. CASE Leases!GetExpiredAddressIDs
    BY <1>f, <1>r, <1>s, <1>9
       DEF Leases!GetExpiredAddressIDs, Leases!volatile, Reached, Leases!Trusted
  <1>10. CASE Leases!Restart
    <2>1. /\ lost \subseteq lost' /\ raced' = raced /\ lease' = lease
          /\ b \notin Leases!Subjects(Leases!Unannounced)
          /\ \A i \in DOMAIN events : events[i].of # b
          /\ job # Leases!NoJob => job.of # b
          /\ job' = Leases!NoJob
      BY <1>r, <1>10 DEF Leases!Restart
    <2>2. Reached(b)
      BY <1>r, <2>1 DEF Reached, Leases!Trusted, Leases!Queued
    <2> QED
      BY <1>n, <2>1, <2>2 DEF RunsUntil, Leases!InJob
  <1> QED
    BY <1>1, <1>2, <1>3, <1>4, <1>5, <1>6, <1>7, <1>8, <1>9, <1>10
       DEF BehindTheRegistry, Leases!Listener

(* Time passes for the clock and the leases alike.                         *)
LEMMA TickRuns ==
    ASSUME Leases!TypeOK, Leases!Tick, now \in Nat, now' = now + 1, NEW b \in Address,
           NEW m \in Nat, Reached(b)', Reached(b) => RunsUntil(b, m)
    PROVE  RunsUntil(b, m)'
  <1>1. /\ lease' = [a \in Address |-> Leases!Aged(lease[a])]
        /\ job' = IF job.pc = "upsert" THEN [job EXCEPT !.left = Leases!Aged(@)] ELSE job
        /\ inflight' = inflight /\ events' = events /\ lost' = lost /\ raced' = raced
    BY DEF Leases!Tick
  <1>2. Reached(b)
    BY <1>1 DEF Reached, Leases!Trusted, Leases!Subjects, Leases!Unannounced
  <1>3. \A l : Leases!Aged(l) \in Nat => l \in Nat /\ now' + Leases!Aged(l) >= now + l
    BY DEF Leases!Aged
  <1>4. CASE job.pc = "upsert"
    <2>1. job \in [pc : {"upsert"}, of : Address, left : Leases!Left]
      BY <1>4 DEF Leases!TypeOK, Leases!NoJob
    <2>2. /\ job' # Leases!NoJob /\ job # Leases!NoJob /\ job'.of = job.of
          /\ job'.pc = "upsert" /\ job'.left = Leases!Aged(job.left)
      BY <1>1, <1>4, <2>1 DEF Leases!NoJob
    <2>3. lease'[b] = Leases!Aged(lease[b])
      BY <1>1
    <2>4. CASE job.of = b
      <3>1. job.left \in Nat => now + job.left >= m
        BY <1>2, <1>4, <2>2, <2>4 DEF RunsUntil, Leases!InJob
      <3>2. job'.left \in Nat => now' + job'.left >= m
        BY <1>3, <2>2, <3>1
      <3> QED
        BY <2>2, <2>4, <3>2 DEF RunsUntil, Leases!InJob
    <2>5. CASE job.of # b
      <3>1. lease[b] \in Nat => now + lease[b] >= m
        BY <1>2, <2>5 DEF RunsUntil, Leases!InJob
      <3>2. lease'[b] \in Nat => now' + lease'[b] >= m
        BY <1>3, <2>3, <3>1
      <3> QED
        BY <2>2, <2>5, <3>2 DEF RunsUntil, Leases!InJob
    <2> QED
      BY <2>4, <2>5
  <1>5. CASE job.pc # "upsert"
    <2>1. job' = job /\ lease'[b] = Leases!Aged(lease[b])
      BY <1>1, <1>5
    <2>2. ~Leases!InJob(b) /\ lease'[b] \in Nat => now' + lease'[b] >= m
      <3>1. ~Leases!InJob(b) /\ lease[b] \in Nat => now + lease[b] >= m
        BY <1>2 DEF RunsUntil
      <3> QED
        BY <1>3, <2>1, <3>1
    <2> QED
      BY <1>5, <2>1, <2>2 DEF RunsUntil, Leases!InJob
  <1> QED
    BY <1>4, <1>5

-----------------------------------------------------------------------------
(* The last renewals after a transaction that recorded the addresses S.    *)
LEMMA LastOnKept ==
    ASSUME NEW S, NEW on \in BOOLEAN, NEW src, Logged(S, on, src), NEW j \in DOMAIN log',
           LastOn(j)'
    PROVE  /\ j \in DOMAIN log =>
                /\ LastOn(j) /\ log'[j] = log[j]
                /\ on => \A a \in S : DeviceOf[log[j].addr] # DeviceOf[a]
           /\ j \notin DOMAIN log => log'[j].on = on /\ log'[j].addr \in S /\ on
  <1>1. /\ log'[j].on
        /\ \A i \in DOMAIN log' : i > j /\ DeviceOf[log'[i].addr] = DeviceOf[log'[j].addr]
                                    => ~log'[i].on
    BY DEF LastOn
  <1>2. ASSUME j \in DOMAIN log
        PROVE  /\ LastOn(j) /\ log'[j] = log[j]
               /\ on => \A a \in S : DeviceOf[log[j].addr] # DeviceOf[a]
    <2>1. LastOn(j) /\ log'[j] = log[j]
      BY <1>1, <1>2 DEF Logged, LastOn
    <2>2. ASSUME on, NEW a \in S PROVE DeviceOf[log[j].addr] # DeviceOf[a]
      <3>1. PICK i \in DOMAIN log' \ DOMAIN log : log'[i].addr = a
        BY DEF Logged
      <3>2. i > j
        BY <1>2, <3>1 DEF Logged
      <3>3. log'[i].on = on
        BY <3>1 DEF Logged
      <3> QED
        BY <1>1, <2>1, <2>2, <3>1, <3>2, <3>3
    <2> QED
      BY <2>1, <2>2
  <1>3. ASSUME j \notin DOMAIN log PROVE log'[j].on = on /\ log'[j].addr \in S /\ on
    BY <1>1, <1>3 DEF Logged
  <1> QED
    BY <1>2, <1>3

(* What the deadline of a renewal is made of.                              *)
LEMMA DeadlineIs ==
    ASSUME LapseIInv, NEW j \in DOMAIN log, NEW b \in Address,
           ttl[DeviceOf[b]] # None
    PROVE  /\ DeviceOf[b] \in Device /\ now \in Nat
           /\ log[j].at + ttl[DeviceOf[b]] * Second \in Nat
           /\ rule[DeviceOf[b]] \in Nat
           /\ now + rule[DeviceOf[b]] >= log[j].at + ttl[DeviceOf[b]] * Second
  <1>1. DeviceOf[b] \in Device
    BY RegistryAssumption
  <1>2. HistoryTypes /\ Chronological
    BY DEF LapseIInv, HistoryIInv
  <1>3. log[j].at \in Nat /\ now \in Nat /\ log[j].at <= now
    BY <1>2, LogRows DEF HistoryTypes, Chronological
  <1>4. ttl[DeviceOf[b]] \in Nat /\ Second \in Nat
    BY <1>1, <1>2, HistoryAssumption DEF HistoryTypes
  <1> DEFINE r == ttl[DeviceOf[b]] * Second
  <1>5. r \in Nat
    BY <1>4
  <1>6. rule[DeviceOf[b]] = r
    BY <1>1 DEF LapseIInv, RuleIsTtl
  <1> HIDE DEF r
  <1>7. log[j].at + r \in Nat /\ now + r >= log[j].at + r
    BY <1>3, <1>5
  <1> QED
    BY <1>1, <1>3, <1>5, <1>6, <1>7 DEF r

LapseRest == RuleIsTtl /\ RulesArrived /\ LeasesRunFull /\ ExpiriesAreLate

(* Addresses are switched off, by a user, the limit or the expiry job.     *)
LEMMA OffKeeps ==
    ASSUME LapseIInv, NEW p \in Leases!Process, NEW S \in SUBSET Address, NEW src,
           Leases!Committed(p, {Leases!Disabled(a) : a \in S}), Logged(S, FALSE, src),
           UNCHANGED <<rule, ttl, lease, job, events, ruleEvents, now, moved>>,
           early \subseteq early',
           src = "expiry" => \A a \in S : DeviceOf[a] \in early' \/ InTime(a)
    PROVE  LapseRest'
  <1> DEFINE E == {Leases!Disabled(a) : a \in S}
  <1>t. Leases!TypeOK
    BY DEF LapseIInv
  <1>1. Leases!Subjects(E) = S
    <2>1. \A a \in S : Leases!Disabled(a).of = a
      BY DEF Leases!Disabled
    <2> QED
      BY <2>1 DEF Leases!Subjects
  <1>2. Leases!Committed(p, E)
    OBVIOUS
  <1> HIDE DEF E
  <1>3. RuleIsTtl'
    BY DEF LapseIInv, RuleIsTtl
  <1>4. RulesArrived'
    <2>1. ASSUME NEW d \in Device, d \notin moved
          PROVE  d \notin Leases!Subjects(Leases!Unannounced)'
      <3>1. d \notin Leases!Subjects(Leases!Unannounced) /\ d \notin S
        BY <2>1, LapseAssumption DEF LapseIInv, RulesArrived
      <3> QED
        BY <1>t, <1>1, <1>2, <3>1, CommitReached
    <2> QED
      BY <2>1 DEF LapseIInv, RulesArrived
  <1>5. \A b : Reached(b)' => Reached(b)
    BY <1>t, <1>2, CommitReached
  <1>6. ASSUME NEW j \in DOMAIN log', LastOn(j)'
        PROVE  j \in DOMAIN log /\ LastOn(j) /\ log'[j] = log[j]
    BY <1>6, LastOnKept
  <1>7. LeasesRunFull'
    <2> SUFFICES ASSUME NEW j \in DOMAIN log', NEW b \in Address, LastOn(j)', log'[j].addr = b,
                        DeviceOf[b] \notin moved', ttl'[DeviceOf[b]] # None, Reached(b)',
                        NEW m, m = log'[j].at + ttl'[DeviceOf[b]] * Second
                 PROVE  RunsUntil(b, m)'
      BY DEF LeasesRunFull
    <2>1. RunsUntil(b, m)
      BY <1>5, <1>6 DEF LapseIInv, LeasesRunFull
    <2> QED
      BY <2>1 DEF RunsUntil, Leases!InJob
  <1>8. ExpiriesAreLate'
    <2> SUFFICES ASSUME NEW j \in DOMAIN log', NEW l \in DOMAIN log', NEW b \in Address,
                        LastOn(j)', log'[j].addr = b,
                        l > j, log'[l].addr = b, log'[l].src = "expiry",
                        DeviceOf[b] \notin moved' \cup early', ttl'[DeviceOf[b]] # None
                 PROVE  log'[l].at >= log'[j].at + ttl'[DeviceOf[b]] * Second
      BY DEF ExpiriesAreLate
    <2>1. j \in DOMAIN log /\ LastOn(j) /\ log'[j] = log[j]
      BY <1>6
    <2>2. CASE l \in DOMAIN log
      <3>1. log'[l] = log[l]
        BY <2>2 DEF Logged
      <3> QED
        BY <2>1, <2>2, <3>1 DEF LapseIInv, ExpiriesAreLate
    <2>3. CASE l \notin DOMAIN log
      <3>1. b \in S /\ src = "expiry" /\ log'[l].at = now
        BY <2>3 DEF Logged
      <3>2. InTime(b)
        BY <3>1
      <3>3. Reached(b) /\ ~Leases!InJob(b) /\ lease[b] = 0
        BY <3>2 DEF InTime, Reached, Leases!Settled
      <3> DEFINE m == log[j].at + ttl[DeviceOf[b]] * Second
      <3>4. RunsUntil(b, m)
        BY <2>1, <3>3 DEF LapseIInv, LeasesRunFull
      <3>5. m \in Nat /\ now \in Nat
        BY <2>1, DeadlineIs
      <3> HIDE DEF m
      <3>6. now + 0 >= m
        BY <3>3, <3>4 DEF RunsUntil
      <3>7. now >= m
        BY <3>5, <3>6
      <3> QED
        BY <2>1, <3>1, <3>7 DEF m
    <2> QED
      BY <2>2, <2>3
  <1> QED
    BY <1>3, <1>4, <1>7, <1>8 DEF LapseRest

(* A renewal starts afresh.                                                *)
LEMMA RenewKeeps ==
    ASSUME LapseIInv, NEW h \in Handler, NEW a \in Address, RegisterAndRenew(h, a)
    PROVE  LapseRest'
  <1> DEFINE E == {Leases!Enabled(a)}
             c == DeviceOf[a]
  <1>t. Leases!TypeOK /\ HistoryTypes
    BY DEF LapseIInv, HistoryIInv
  <1>1. /\ Leases!Committed(h, E) /\ h \in Leases!Process
        /\ UNCHANGED <<rule, ttl, lease, job, events, ruleEvents, now>>
        /\ moved' = IF Leases!Settled(c) THEN moved \ {c} ELSE moved
        /\ early' = early \ {c} /\ c \in Device
    BY RegistryAssumption DEF RegisterAndRenew, RegisterAddressActivity,
         Leases!RegisterAddressActivity, Leases!volatile, Leases!Process
  <1>2. Leases!Subjects(E) = {a}
    BY DEF Leases!Subjects, Leases!Enabled
  <1>3. Logged({a}, TRUE, "heartbeat")
    BY <1>t, EventsInserted DEF RegisterAndRenew, RegisterAddressActivity, Source
  <1> HIDE DEF E
  <1>4. RuleIsTtl'
    BY <1>1 DEF LapseIInv, RuleIsTtl
  <1>5. RulesArrived'
    <2>1. ASSUME NEW d \in Device, d \notin moved'
          PROVE  /\ d \notin Leases!Subjects(Leases!Unannounced)'
                 /\ Leases!Queued(ruleEvents, d)' = {}
      <3>1. d \notin Leases!Subjects(Leases!Unannounced) /\ Leases!Queued(ruleEvents, d) = {}
        <4>1. CASE d \notin moved
          BY <4>1 DEF LapseIInv, RulesArrived
        <4>2. CASE d \in moved
          BY <1>1, <2>1, <4>2 DEF Leases!Settled
        <4> QED
          BY <4>1, <4>2
      <3>2. d # a
        BY LapseAssumption
      <3> QED
        BY <1>t, <1>1, <1>2, <3>1, <3>2, CommitReached
    <2> QED
      BY <2>1 DEF RulesArrived
  <1>6. \A b : Reached(b)' => Reached(b) /\ b # a
    BY <1>t, <1>1, <1>2, CommitReached
  <1>7. ASSUME NEW j \in DOMAIN log', LastOn(j)'
        PROVE  /\ j \in DOMAIN log => /\ LastOn(j) /\ log'[j] = log[j]
                                      /\ DeviceOf[log[j].addr] # c
               /\ j \notin DOMAIN log => log'[j].addr = a
    <2>1. /\ j \in DOMAIN log =>
               /\ LastOn(j) /\ log'[j] = log[j]
               /\ \A x \in {a} : DeviceOf[log[j].addr] # DeviceOf[x]
          /\ j \notin DOMAIN log => log'[j].addr \in {a}
      BY <1>3, <1>7, LastOnKept
    <2> QED
      BY <2>1
  <1>8. LeasesRunFull'
    <2> SUFFICES ASSUME NEW j \in DOMAIN log', NEW b \in Address, LastOn(j)', log'[j].addr = b,
                        DeviceOf[b] \notin moved', ttl'[DeviceOf[b]] # None, Reached(b)',
                        NEW m, m = log'[j].at + ttl'[DeviceOf[b]] * Second
                 PROVE  RunsUntil(b, m)'
      BY DEF LeasesRunFull
    <2>1. Reached(b) /\ b # a
      BY <1>6
    <2>2. j \in DOMAIN log /\ LastOn(j) /\ log'[j] = log[j] /\ DeviceOf[b] # c
      BY <1>7, <2>1
    <2>3. RunsUntil(b, m)
      BY <1>1, <2>1, <2>2 DEF LapseIInv, LeasesRunFull
    <2> QED
      BY <1>1, <2>3 DEF RunsUntil, Leases!InJob
  <1>9. ExpiriesAreLate'
    <2> SUFFICES ASSUME NEW j \in DOMAIN log', NEW l \in DOMAIN log', NEW b \in Address,
                        LastOn(j)', log'[j].addr = b,
                        l > j, log'[l].addr = b, log'[l].src = "expiry",
                        DeviceOf[b] \notin moved' \cup early', ttl'[DeviceOf[b]] # None
                 PROVE  log'[l].at >= log'[j].at + ttl'[DeviceOf[b]] * Second
      BY DEF ExpiriesAreLate
    <2>1. l \in DOMAIN log /\ log'[l] = log[l]
      BY <1>3 DEF Logged
    <2>2. j \in DOMAIN log
      BY <1>3, <2>1 DEF Logged
    <2>3. LastOn(j) /\ log'[j] = log[j] /\ DeviceOf[b] # c
      BY <1>7, <2>2
    <2> QED
      BY <1>1, <2>1, <2>2, <2>3 DEF LapseIInv, ExpiriesAreLate
  <1> QED
    BY <1>4, <1>5, <1>8, <1>9 DEF LapseRest

(* A change of the rule of c.                                              *)
LEMMA RuleKeeps ==
    ASSUME LapseIInv, NEW h \in Handler, NEW c \in Device, NEW t \in TTL \cup {None}, NEW r,
           IF t = None THEN r \notin Nat ELSE r = t * Second, NEW l,
           Leases!Committed(h, {Leases!RuleSet(c, l)}),
           ttl' = [ttl EXCEPT ![c] = t], rule' = [rule EXCEPT ![c] = r],
           moved' = moved \cup {c},
           UNCHANGED <<log, now, lease, job, events, ruleEvents, early>>
    PROVE  LapseRest'
  <1> DEFINE E == {Leases!RuleSet(c, l)}
  <1>t. Leases!TypeOK /\ HistoryTypes /\ h \in Leases!Process
    BY DEF LapseIInv, HistoryIInv, Leases!Process
  <1>1. Leases!Subjects(E) = {c} /\ Leases!Committed(h, E)
    BY DEF Leases!Subjects, Leases!RuleSet
  <1> HIDE DEF E
  <1>2. /\ ttl \in [Device -> (Nat \ {0}) \cup {None}] /\ DOMAIN rule = Device
    BY <1>t DEF HistoryTypes, Leases!TypeOK
  <1>3. RuleIsTtl'
    BY <1>2 DEF LapseIInv, RuleIsTtl
  <1>4. RulesArrived'
    <2>1. ASSUME NEW d \in Device, d \notin moved'
          PROVE  d \notin Leases!Subjects(Leases!Unannounced)'
      <3>1. d \notin Leases!Subjects(Leases!Unannounced) /\ d # c
        BY <2>1 DEF LapseIInv, RulesArrived
      <3> QED
        BY <1>t, <1>1, <3>1, CommitReached
    <2> QED
      BY <2>1 DEF LapseIInv, RulesArrived
  <1>5. \A b : Reached(b)' => Reached(b)
    BY <1>t, <1>1, CommitReached
  <1>6. \A j : LastOn(j)' <=> LastOn(j)
    BY DEF LastOn
  <1>7. LeasesRunFull'
    <2> SUFFICES ASSUME NEW j \in DOMAIN log, NEW b \in Address, LastOn(j)', log[j].addr = b,
                        DeviceOf[b] \notin moved', ttl'[DeviceOf[b]] # None, Reached(b)',
                        NEW m, m = log[j].at + ttl'[DeviceOf[b]] * Second
                 PROVE  RunsUntil(b, m)'
      BY DEF LeasesRunFull
    <2>1. DeviceOf[b] # c /\ DeviceOf[b] \notin moved /\ ttl'[DeviceOf[b]] = ttl[DeviceOf[b]]
      BY <1>2, RegistryAssumption
    <2>2. RunsUntil(b, m)
      BY <1>5, <1>6, <2>1 DEF LapseIInv, LeasesRunFull
    <2> QED
      BY <2>2 DEF RunsUntil, Leases!InJob
  <1>8. ExpiriesAreLate'
    <2>1. \A b \in Address : DeviceOf[b] \notin moved' =>
            DeviceOf[b] \notin moved /\ ttl'[DeviceOf[b]] = ttl[DeviceOf[b]]
      BY <1>2, RegistryAssumption
    <2> QED
      BY <1>6, <2>1 DEF LapseIInv, ExpiriesAreLate
  <1> QED
    BY <1>3, <1>4, <1>7, <1>8 DEF LapseRest

(* Nothing happens to the leases.                                          *)
LEMMA NothingKeeps ==
    ASSUME LapseIInv, UNCHANGED <<leaseTables, log, now, ttl, moved, early>>
    PROVE  LapseRest'
  BY DEF LapseIInv, LapseRest, leaseTables, RuleIsTtl, RulesArrived, LeasesRunFull,
         ExpiriesAreLate, LastOn, Reached, RunsUntil, Leases!Trusted, Leases!InJob,
         Leases!Subjects, Leases!Unannounced, Leases!Queued

(* The lease service works behind the registry, or the clock moves.        *)
LEMMA BehindKeeps ==
    ASSUME LapseIInv, BehindTheRegistry \/ PassTime
    PROVE  LapseRest'
  <1>t. Leases!TypeOK /\ HistoryTypes
    BY DEF LapseIInv, HistoryIInv
  <1>1. UNCHANGED <<log, ttl, moved, early>>
    BY DEF BehindTheRegistry, PassTime, Tick, historyVars
  <1>2. rule' = rule
    BY DEF BehindTheRegistry, PassTime, Leases!Tick, Leases!AnnounceAny, Leases!Announce,
           Leases!DeleteUserRolledBack, Leases!Listener, Leases!TakeEnabled,
           Leases!GetDeviceAddressLeaseTTLSeconds, Leases!UpsertAddressLease,
           Leases!ClearAddressLease, Leases!SetDeviceAddressLeasesExpiry,
           Leases!ListenerFails, Leases!GetExpiredAddressIDs, Leases!Restart
  <1>3. RuleIsTtl'
    BY <1>1, <1>2 DEF LapseIInv, RuleIsTtl
  <1>4. RulesArrived'
    <2>1. CASE BehindTheRegistry
      BY <1>t, <1>1, <2>1, BehindRules DEF LapseIInv, RulesArrived
    <2>2. CASE PassTime
      <3>1. /\ inflight' = inflight
            /\ ruleEvents' = [i \in DOMAIN ruleEvents |-> Leases!AgedEvent(ruleEvents[i])]
        BY <2>2 DEF PassTime, Leases!Tick
      <3>2. \A e \in Leases!RuleEvent : Leases!AgedEvent(e).of = e.of
        BY DEF Leases!AgedEvent, Leases!RuleEvent
      <3>3. \A i \in DOMAIN ruleEvents : ruleEvents[i] \in Leases!RuleEvent
        <4>1. ruleEvents \in Seq(Leases!RuleEvent)
          BY <1>t DEF Leases!TypeOK
        <4> QED
          BY <4>1
      <3>4. \A d : Leases!Queued(ruleEvents', d) = Leases!Queued(ruleEvents, d)
        BY <3>1, <3>2, <3>3 DEF Leases!Queued
      <3> QED
        BY <1>1, <3>1, <3>4 DEF LapseIInv, RulesArrived, Leases!Subjects, Leases!Unannounced
    <2> QED
      BY <2>1, <2>2
  <1>5. \A j : LastOn(j)' <=> LastOn(j)
    BY <1>1 DEF LastOn
  <1>6. LeasesRunFull'
    <2> SUFFICES ASSUME NEW j \in DOMAIN log, NEW b \in Address, LastOn(j), log[j].addr = b,
                        DeviceOf[b] \notin moved, ttl[DeviceOf[b]] # None, Reached(b)',
                        NEW m, m = log[j].at + ttl[DeviceOf[b]] * Second
                 PROVE  RunsUntil(b, m)'
      BY <1>1, <1>5 DEF LeasesRunFull
    <2>1. Reached(b) => RunsUntil(b, m)
      BY DEF LapseIInv, LeasesRunFull
    <2>2. /\ DeviceOf[b] \in Device /\ now \in Nat /\ m \in Nat
          /\ now + rule[DeviceOf[b]] >= m
      BY DeadlineIs
    <2>3. Leases!Queued(ruleEvents, DeviceOf[b]) = {}
      BY <2>2 DEF LapseIInv, RulesArrived
    <2>4. CASE BehindTheRegistry
      BY <1>t, <2>1, <2>2, <2>3, <2>4, BehindRuns
    <2>5. CASE PassTime
      BY <1>t, <2>1, <2>2, <2>5, TickRuns DEF PassTime, Tick
    <2> QED
      BY <2>4, <2>5
  <1>7. ExpiriesAreLate'
    BY <1>1, <1>5 DEF LapseIInv, ExpiriesAreLate
  <1> QED
    BY <1>3, <1>4, <1>6, <1>7 DEF LapseRest

(* Nothing is under way over empty tables.                                 *)
LEMMA LapseInitIInv == LapseInit => LapseIInv
  <1> SUFFICES ASSUME LapseInit PROVE LapseIInv
    OBVIOUS
  <1>1. HistoryInit /\ Leases!Init
    BY DEF LapseInit
  <1>2. HistoryIInv
    BY <1>1, HistoryInitIInv
  <1>3. Leases!TypeOK
    <2>1. events = <<>> /\ ruleEvents = <<>> /\ EventCap \in Nat /\ RuleCap \in Nat
      BY <1>1, LapseAssumption DEF Leases!Init
    <2>2. /\ events \in Seq(Leases!AddressEvent) /\ Len(events) <= EventCap
          /\ ruleEvents \in Seq(Leases!RuleEvent) /\ Len(ruleEvents) <= RuleCap
      BY <2>1
    <2> QED
      BY <1>1, <2>2 DEF Leases!Init, Leases!TypeOK, Leases!RegistryInit,
                        Leases!RegistryTypeOK, Leases!Left
  <1>4. RuleIsTtl
    BY <1>1, LapseAssumption DEF HistoryInit, Leases!Init, RuleIsTtl
  <1>5. RulesArrived
    BY <1>1 DEF Leases!Init, RulesArrived, Leases!Subjects, Leases!Unannounced, Leases!Queued
  <1>6. LeasesRunFull /\ ExpiriesAreLate
    <2>1. DOMAIN log = {}
      BY <1>1 DEF HistoryInit
    <2> QED
      BY <2>1 DEF LeasesRunFull, ExpiriesAreLate
  <1> QED
    BY <1>2, <1>3, <1>4, <1>5, <1>6 DEF LapseIInv

(* One step per action of LapseNext.                                       *)
LEMMA LapseNextIInv == LapseIInv /\ [LapseNext]_lapseVars => LapseIInv'
  <1> SUFFICES ASSUME LapseIInv, [LapseNext]_lapseVars PROVE LapseIInv'
    OBVIOUS
  <1>t. Leases!TypeOK /\ HistoryIInv /\ HistoryTypes
    BY DEF LapseIInv, HistoryIInv
  <1>1. HistoryIInv' /\ Leases!TypeOK'
    BY <1>t, LapseIsHistory, HistoryNextIInv, LapseIsLease, LeaseTypesKept
  <1>2. ASSUME NEW h \in Handler, DisableAndClear(h) PROVE LapseRest'
    <2>1. h \in Leases!Process /\ UNCHANGED <<moved, early>>
      BY <1>2 DEF DisableAndClear, Leases!Process
    <2>2. ASSUME NEW S \in SUBSET Address, NEW src \in Source, src # "expiry", Disabled(S, src),
                 Leases!Committed(h, {Leases!Disabled(a) : a \in S}),
                 UNCHANGED <<rule, lease, Leases!volatile>>
          PROVE  LapseRest'
      <3>1. Logged(S, FALSE, src) /\ UNCHANGED <<now, ttl>>
        BY <1>t, <2>2, EventsInserted DEF Disabled
      <3> QED
        BY <2>1, <2>2, <3>1, OffKeeps DEF Leases!volatile
    <2>3. ASSUME NEW a \in Address, DisableAddress(a), Leases!DisableAddress(h, a)
          PROVE  LapseRest'
      <3>1. {Leases!Disabled(x) : x \in {a}} = {Leases!Disabled(a)}
        OBVIOUS
      <3> QED
        BY <2>2, <2>3, <3>1 DEF DisableAddress, Leases!DisableAddress, Source
    <2>4. ASSUME NEW d \in Device, NEW S \in SUBSET Listable,
                 EvictAddresses(d, S), Leases!DisableAddresses(h, S)
          PROVE  LapseRest'
      BY <2>2, <2>4 DEF EvictAddresses, Listable, Leases!DisableAddresses, Source
    <2>5. ASSUME NEW d \in Device, DisableOrDeleteDevice(d), Leases!DisableOrDeleteDevice(h, d)
          PROVE  LapseRest'
      <3>1. EnabledAddresses(d) \in SUBSET Address
            /\ Leases!EnabledAddresses(d) = EnabledAddresses(d)
        BY DEF EnabledAddresses, AddressesOf, Leases!EnabledAddresses, Leases!AddressesOf
      <3> QED
        BY <2>2, <2>5, <3>1 DEF DisableOrDeleteDevice, Leases!DisableOrDeleteDevice, Source
    <2> QED
      BY <1>2, <2>3, <2>4, <2>5 DEF DisableAndClear
  <1>3. ASSUME NEW d \in Device, CreateOrEnable(d) PROVE LapseRest'
    <2>1. UNCHANGED <<leaseTables, log, now, ttl, moved, early>>
      BY <1>3 DEF CreateOrEnable, CreateOrEnableDevice, Leases!CreateOrEnableDevice,
                  leaseTables, Leases!volatile
    <2> QED
      BY <2>1, NothingKeeps
  <1>4. ASSUME NEW h \in Handler, NEW d \in Device, NEW t \in TTL, EnableLeaseRule(h, d, t)
        PROVE  LapseRest'
    <2>1. /\ Leases!Committed(h, {Leases!RuleSet(d, t * Second)})
          /\ ttl' = [ttl EXCEPT ![d] = t] /\ rule' = [rule EXCEPT ![d] = t * Second]
          /\ moved' = moved \cup {d}
          /\ UNCHANGED <<log, now, lease, job, events, ruleEvents, early>>
      BY <1>4 DEF EnableLeaseRule, SetLeaseRule, Leases!EnableDeviceAddressLeaseRule,
                  Leases!volatile
    <2>2. t # None
      BY HistoryAssumption
    <2> QED
      BY <2>1, <2>2, RuleKeeps
  <1>5. ASSUME NEW h \in Handler, NEW d \in Device, DisableLeaseRule(h, d) PROVE LapseRest'
    <2>1. /\ Leases!Committed(h, {Leases!RuleSet(d, Never)})
          /\ ttl' = [ttl EXCEPT ![d] = None] /\ rule' = [rule EXCEPT ![d] = Never]
          /\ moved' = moved \cup {d} /\ Never \notin Nat
          /\ UNCHANGED <<log, now, lease, job, events, ruleEvents, early>>
      BY <1>5, LapseAssumption DEF DisableLeaseRule, SetLeaseRule,
           Leases!DisableDeviceAddressLeaseRule, Leases!volatile
    <2> QED
      BY <2>1, RuleKeeps
  <1>6. ASSUME ExpireListed PROVE LapseRest'
    <2>1. /\ ExpireAddresses(expired) /\ Leases!DisableExpired /\ moved' = moved
          /\ early' = early \cup {DeviceOf[a] : a \in {x \in expired : ~InTime(x)}}
      BY <1>6 DEF ExpireListed
    <2>2. expired \in SUBSET Address /\ Scheduler \in Leases!Process
      BY <1>t DEF Leases!TypeOK, Leases!Process
    <2>3. Logged(expired, FALSE, "expiry") /\ UNCHANGED <<now, ttl>>
      BY <1>t, <2>1, <2>2, EventsInserted DEF ExpireAddresses, Disabled, Source
    <2>4. /\ Leases!Committed(Scheduler, {Leases!Disabled(a) : a \in expired})
          /\ UNCHANGED <<rule, lease, job, events, ruleEvents>>
      BY <2>1 DEF Leases!DisableExpired, Leases!volatile
    <2>5. early \subseteq early' /\ \A a \in expired : DeviceOf[a] \in early' \/ InTime(a)
      BY <2>1
    <2>6. PICK S : S = expired
      OBVIOUS
    <2> QED
      BY <2>1, <2>2, <2>3, <2>4, <2>5, <2>6, OffKeeps
  <1>7. ASSUME PruneEvents \/ UNCHANGED lapseVars PROVE LapseRest'
    <2>1. UNCHANGED <<leaseTables, log, now, ttl, moved, early>>
      BY <1>7 DEF PruneEvents, DeleteAddressEventsOlderThan, lapseVars, historyVars
    <2> QED
      BY <2>1, NothingKeeps
  <1>8. LapseRest'
    BY <1>2, <1>3, <1>4, <1>5, <1>6, <1>7, RenewKeeps, BehindKeeps DEF LapseNext
  <1> QED
    BY <1>1, <1>8 DEF LapseIInv, LapseRest

(* The leases, as far as events have reached them, and the log agree.      *)
THEOREM LapseInvariance == LapseSpec => []LapseIInv
  BY LapseInitIInv, LapseNextIInv, PTL DEF LapseSpec

-----------------------------------------------------------------------------
(* The renewals of device d that are still there.                          *)
RenewalsOf(d) == {j \in Row : IsRenewal(j) /\ DeviceOfEvent(j) = d}

(* When a device has lapsed, more than a TTL has passed since its last     *)
(* renewal, as soon as the clock has moved on.                             *)
LEMMA LapseIsLong ==
    ASSUME LapseIInv, NEW d \in Device, EnabledAddresses(d) = {},
           \E j \in Row : DeviceOfEvent(j) = d /\ log[j].on,
           \A j \in Row : DeviceOfEvent(j) = d => log[j].on \/ log[j].src = "expiry",
           \A j \in Row : DeviceOfEvent(j) = d => log[j].at < now,
           ttl[d] # None, d \notin moved \cup early
    PROVE  /\ RenewalsOf(d) # {}
           /\ log[Latest(RenewalsOf(d))].at \in Nat
           /\ log[Latest(RenewalsOf(d))].at <= now
           /\ GapSeconds(log[Latest(RenewalsOf(d))].at, now) >= ttl[d]
  <1> DEFINE j == Latest(RenewalsOf(d))
  <1>1. HistoryIInv /\ HistoryTypes
    BY DEF LapseIInv, HistoryIInv
  <1>2. /\ cut \in Nat /\ Len(log) \in Nat
        /\ DOMAIN log = 1 .. Len(log) /\ Row = cut + 1 .. Len(log)
    BY <1>1, LogRows DEF HistoryTypes, Row
  <1>3. Row \subseteq DOMAIN log
    BY <1>2
  <1>4. \A i \in Row : log[i].on => IsRenewal(i)
    BY <1>1, <1>3 DEF HistoryIInv, OnIsHeartbeat, IsRenewal
  <1>5. RenewalsOf(d) # {} /\ RenewalsOf(d) \subseteq DOMAIN log
    BY <1>3, <1>4 DEF RenewalsOf
  <1>6. j \in RenewalsOf(d) /\ \A i \in RenewalsOf(d) : i <= j
    BY <1>1, <1>5, LatestIs
  <1> HIDE DEF j
  <1>7. j \in Row /\ j \in DOMAIN log /\ DeviceOf[log[j].addr] = d /\ log[j].on
    BY <1>3, <1>6 DEF RenewalsOf, IsRenewal, DeviceOfEvent
  <1>8. ASSUME NEW i \in DOMAIN log, i > j, DeviceOf[log[i].addr] = d
        PROVE  i \in Row /\ ~log[i].on /\ log[i].src = "expiry"
    <2>1. i \in Row
      BY <1>2, <1>7, <1>8
    <2>2. i \notin RenewalsOf(d)
      BY <1>2, <1>6, <1>7, <1>8
    <2> QED
      BY <1>4, <1>8, <2>1, <2>2 DEF RenewalsOf, DeviceOfEvent
  <1> DEFINE b == log[j].addr
             l == Latest(EventsOf(b))
  <1>9. b \in Address /\ log[j].at \in Nat /\ j \in EventsOf(b)
    BY <1>1, <1>7, LogRows DEF EventsOf
  <1>10. l \in EventsOf(b) /\ \A i \in EventsOf(b) : i <= l
    <2>1. EventsOf(b) \subseteq DOMAIN log /\ EventsOf(b) # {}
      BY <1>9 DEF EventsOf
    <2> QED
      BY <1>1, <2>1, LatestIs
  <1> HIDE DEF l
  <1>11. addr[b] # "enabled"
    BY <1>7, <1>9 DEF EnabledAddresses, AddressesOf
  <1>12. ~log[l].on
    BY <1>1, <1>9, <1>10, <1>11 DEF HistoryIInv, LogTells
  <1>13. l \in DOMAIN log /\ log[l].addr = b /\ l > j
    <2>1. l \in DOMAIN log /\ log[l].addr = b /\ j <= l
      BY <1>9, <1>10 DEF EventsOf
    <2> QED
      BY <1>2, <1>7, <1>12, <2>1
  <1>14. l \in Row /\ log[l].src = "expiry"
    BY <1>7, <1>8, <1>13
  <1>15. LastOn(j)
    BY <1>7, <1>8 DEF LastOn
  <1>16. log[l].at >= log[j].at + ttl[d] * Second
    BY <1>7, <1>9, <1>13, <1>14, <1>15 DEF LapseIInv, ExpiriesAreLate
  <1>17. log[l].at < now /\ log[l].at \in Nat /\ now \in Nat /\ ttl[d] \in Nat
    BY <1>1, <1>7, <1>13, <1>14, LogRows DEF HistoryTypes, DeviceOfEvent
  <1> DEFINE r == ttl[d] * Second
  <1>18. r \in Nat
    BY <1>17, HistoryAssumption
  <1>19. log[j].at + r < now /\ log[j].at <= now
    <2> HIDE DEF r
    <2>1. log[l].at >= log[j].at + r
      BY <1>16 DEF r
    <2> QED
      BY <1>9, <1>17, <1>18, <2>1
  <1>20. GapSeconds(log[j].at, now) >= ttl[d]
    BY <1>9, <1>17, <1>19, SecondsBetween
  <1> QED
    BY <1>5, <1>9, <1>19, <1>20 DEF j

(* The renewal that ends the lapse is enriched as breached.                *)
LEMMA LapseStep ==
    ASSUME LapseIInv, NEW a \in Address, NEW d \in Device, d = DeviceOf[a],
           RegisterAddressActivity(a), EnabledAddresses(d) = {},
           \E j \in Row : DeviceOfEvent(j) = d /\ log[j].on,
           \A j \in Row : DeviceOfEvent(j) = d => log[j].on \/ log[j].src = "expiry",
           \A j \in Row : DeviceOfEvent(j) = d => log[j].at < now,
           ttl[d] # None, d \notin moved \cup early
    PROVE  \E e \in addressHistoryEnriched' : e.id = Len(log') /\ e.risk = "breached"
  <1> DEFINE gap == GapSeconds(log[Latest(RenewalsOf(d))].at, now)
  <1>0. PICK n : n = Len(log')
    OBVIOUS
  <1>1. /\ HistoryTypes /\ Logged({a}, TRUE, "heartbeat")
        /\ Len(log') = Len(log) + Cardinality({a})
    BY EventsInserted DEF LapseIInv, HistoryIInv, RegisterAddressActivity, Source
  <1>2. /\ Len(log) \in Nat /\ cut \in 0 .. Len(log) /\ DOMAIN log = 1 .. Len(log)
        /\ n = Len(log) + 1 /\ DOMAIN log' = 1 .. n
    <2>1. Cardinality({a}) = 1
      BY FS_Singleton
    <2>2. /\ Len(log) \in Nat /\ cut \in 0 .. Len(log) /\ DOMAIN log = 1 .. Len(log)
          /\ log' \in Seq(EventRow)
      BY <1>1 DEF Logged, HistoryTypes
    <2>3. n = Len(log) + 1
      BY <1>0, <1>1, <2>1, <2>2
    <2>4. DOMAIN log' = 1 .. n
      BY <1>0, <2>2
    <2> QED
      BY <2>2, <2>3, <2>4
  <1>3. /\ log'[n].addr = a /\ log'[n].src = "heartbeat" /\ log'[n].at = now
        /\ \A i \in DOMAIN log : log'[i] = log[i]
    <2>1. n \in DOMAIN log' \ DOMAIN log
      BY <1>2
    <2> QED
      BY <1>1, <2>1 DEF Logged
  <1>4. cut' = cut /\ ttl' = ttl /\ device' = device /\ device[d] = "active"
    BY DEF RegisterAddressActivity, RegisterAddressTx
  <1>5. {j \in cut' + 1 .. n - 1 : IsRenewal(j)' /\ DeviceOfEvent(j)' = DeviceOfEvent(n)'}
          = RenewalsOf(d)
    <2>1. cut' + 1 .. n - 1 = Row /\ Row \subseteq DOMAIN log
      BY <1>2, <1>4 DEF Row
    <2>2. \A j \in Row : /\ IsRenewal(j)' <=> IsRenewal(j)
                         /\ DeviceOfEvent(j)' = DeviceOfEvent(j)
      BY <1>3, <2>1 DEF IsRenewal, DeviceOfEvent
    <2>3. DeviceOfEvent(n)' = d
      BY <1>3 DEF DeviceOfEvent
    <2> QED
      BY <2>1, <2>2, <2>3 DEF RenewalsOf
  <1>6. /\ RenewalsOf(d) # {} /\ gap >= ttl[d]
        /\ log[Latest(RenewalsOf(d))].at \in Nat /\ Latest(RenewalsOf(d)) \in DOMAIN log
        /\ log[Latest(RenewalsOf(d))].at <= now
    <2>1. /\ RenewalsOf(d) # {} /\ gap >= ttl[d]
          /\ log[Latest(RenewalsOf(d))].at \in Nat /\ log[Latest(RenewalsOf(d))].at <= now
      BY LapseIsLong
    <2>2. RenewalsOf(d) \subseteq DOMAIN log
      BY <1>2 DEF RenewalsOf, Row
    <2> QED
      BY <1>1, <2>1, <2>2, LatestIs
  <1>7. renewalGap(n)' = gap
    <2>1. IsRenewal(n)'
      BY <1>3 DEF IsRenewal
    <2>2. log'[Latest(RenewalsOf(d))] = log[Latest(RenewalsOf(d))]
      BY <1>3, <1>6
    <2> QED
      <3> DEFINE E == {j \in cut' + 1 .. n - 1 :
                         IsRenewal(j)' /\ DeviceOfEvent(j)' = DeviceOfEvent(n)'}
      <3>1. renewalGap(n)' = IF ~IsRenewal(n)' \/ E = {} THEN None
                             ELSE GapSeconds(log'[Latest(E)].at, log'[n].at)
        BY DEF renewalGap
      <3>2. E = RenewalsOf(d)
        BY <1>5
      <3> HIDE DEF E
      <3> QED
        BY <1>3, <1>6, <2>1, <2>2, <3>1, <3>2
  <1>8. ttl[d] \in Nat /\ now \in Nat
    BY <1>1 DEF HistoryTypes
  <1>9. gap \in Nat
    BY <1>6, <1>8, SecondsBetween
  <1> HIDE DEF gap
  <1>10. ttlRisk(gap, ttl[d]) = "breached"
    BY <1>6, <1>8, <1>9, RiskIs
  <1> DEFINE e == [id |-> n, device |-> DeviceOfEvent(n)', at |-> log'[n].at,
                   gap |-> renewalGap(n)',
                   risk |-> ttlRisk(renewalGap(n)', ttl'[DeviceOfEvent(n)'])]
  <1>11. n \in Row' /\ DeviceOfEvent(n)' = d
    BY <1>0, <1>2, <1>3, <1>4 DEF Row, DeviceOfEvent
  <1>12. e \in addressHistoryEnriched'
    BY <1>4, <1>11 DEF addressHistoryEnriched, ttlRisk
  <1>13. e.id = n /\ e.risk = "breached"
    BY <1>4, <1>7, <1>10, <1>11
  <1> QED
    BY <1>0, <1>12, <1>13

(* The renewal that ends a lapse is shown as breached, for any number of   *)
(* devices, addresses and handlers, any queues, and whatever becomes of    *)
(* the lease events (lease/service.go:94-137, lease/expiry_job.go:34-48,   *)
(* renewalGapCTE in device/address_history_view.go:74-89).                 *)
THEOREM LapsesShowUp == LapseSpec => LapsesShow
  <1>1. LapseIInv /\ [LapseNext]_lapseVars =>
          [\A h \in Handler, a \in Address :
             LET d == DeviceOf[a]
                 past == {j \in Row : DeviceOfEvent(j) = d}
             IN  /\ RegisterAndRenew(h, a)
                 /\ EnabledAddresses(d) = {} /\ \E j \in past : log[j].on
                 /\ \A j \in past : log[j].on \/ log[j].src = "expiry"
                 /\ \A j \in past : log[j].at < now
                 /\ ttl[d] # None /\ d \notin moved \cup early
                 => \E e \in addressHistoryEnriched' :
                      e.id = Len(log') /\ e.risk = "breached"]_lapseVars
    <2>1. ASSUME LapseIInv, NEW h \in Handler, NEW a \in Address, NEW d, d = DeviceOf[a],
                 RegisterAndRenew(h, a), EnabledAddresses(d) = {},
                 \E j \in {i \in Row : DeviceOfEvent(i) = d} : log[j].on,
                 \A j \in {i \in Row : DeviceOfEvent(i) = d} :
                    log[j].on \/ log[j].src = "expiry",
                 \A j \in {i \in Row : DeviceOfEvent(i) = d} : log[j].at < now,
                 ttl[d] # None, d \notin moved \cup early
          PROVE  \E e \in addressHistoryEnriched' :
                    e.id = Len(log') /\ e.risk = "breached"
      <3>1. d \in Device /\ RegisterAddressActivity(a)
        BY <2>1, RegistryAssumption DEF RegisterAndRenew
      <3> QED
        BY <2>1, <3>1, LapseStep
    <2> QED
      BY <2>1
  <1> QED
    BY <1>1, LapseInvariance, PTL DEF LapseSpec, LapsesShow

=============================================================================
