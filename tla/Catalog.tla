------------------------------ MODULE Catalog -------------------------------
(***************************************************************************)
(* Hosts, host groups and their memberships (internal/hosts).  The two     *)
(* editors of the administration UI send a complete desired image; the     *)
(* service reads the current rows, derives a plan of rows to delete,       *)
(* create and rewrite, and applies the plan in one transaction.  The reads *)
(* are outside that transaction, so the requests of two administrators     *)
(* overlap: a plan may be applied to rows that have changed since.         *)
(*                                                                         *)
(* Row ids are SQLite rowids without AUTOINCREMENT: an insert takes the    *)
(* largest id plus one, so the id of a deleted row can come back.  What a  *)
(* request is refused for changes nothing, and is left out as an action.   *)
(* Colour, icon and description of a group are part of its name here.      *)
(***************************************************************************)
EXTENDS Integers, FiniteSets, SequencesExt

CONSTANTS
    Request,     \* concurrent requests
    Fqdn,        \* normalised host names
    Name,        \* group names
    MaxId,       \* bound: row ids
    MaxImage,    \* bound: hosts, or groups, in a desired image
    Links,       \* bound: the sets of ids that an entry of an image names
    SameNames    \* bound: whether groups of an image may have equal names

ASSUME CatalogAssumption ==
    /\ MaxId \in Nat \ {0} /\ MaxImage \in Nat \ {0} /\ Links \subseteq SUBSET (1 .. MaxId)
    /\ SameNames \in BOOLEAN

VARIABLES
    host,        \* hosts: a function from the ids in use to FQDNs
    group,       \* host_groups: from the ids in use to names
    member,      \* host_group_members: pairs of a host id and a group id
    req          \* req[r]: the request, its image, what it has read and, as
                 \* history, whether that is still current (clean)

vars == <<host, group, member, req>>

Id == 1 .. MaxId
Idle == [step |-> "idle"]
Partial(D, R) == UNION {[S -> R] : S \in SUBSET D}

HostDraft == [fqdn : Fqdn, groups : Links]
GroupDef == [name : Name, hosts : Links]

(* The images a client may send: entries for rows it knows, and new ones.  *)
Images(kept, new) ==
    {[keep |-> k, create |-> c] :
        k \in Partial(Id, kept), c \in BoundedSeq(new, MaxImage)}
Fitting(images) ==
    {i \in images : Cardinality(DOMAIN i.keep) + Len(i.create) <= MaxImage}
HostImages == Fitting(Images(Links, HostDraft))
(* An image with two groups of one name fails (idx_host_groups_name), but  *)
(* for one case: the group that was skipped as unchanged has been renamed  *)
(* or deleted by somebody else when the other one takes its name.          *)
GroupImages ==
    {i \in Fitting(Images(GroupDef, GroupDef)) :
        \/ SameNames
        \/ Cardinality({d.name : d \in Range(i.keep) \cup Range(i.create)})
             = Cardinality(DOMAIN i.keep) + Len(i.create)}

MembersOf(g) == {h \in DOMAIN host : <<h, g>> \in member}
GroupsOf(h) == {g \in DOMAIN group : <<h, g>> \in member}

(* The pages that list what is stored.                                     *)
GetAllHostsWithGroups ==
    {[fqdn |-> host[h], groups |-> GroupsOf(h)] : h \in DOMAIN host}
GetHostGroups ==
    {[name |-> group[g], hosts |-> MembersOf(g)] : g \in DOMAIN group}

Init ==
    /\ host = <<>>
    /\ group = <<>>
    /\ member = {}
    /\ req = [r \in Request |-> Idle]

-----------------------------------------------------------------------------
(* The id of the i-th row inserted into a table whose ids are S.           *)
NewId(S, i) == Max(S \cup {0}) + i
Restricted(f, S) == [x \in DOMAIN f \cap S |-> f[x]]

Inserted(f, rows) ==
    LET n(i) == NewId(DOMAIN f, i) IN
    [x \in DOMAIN f \cup {n(i) : i \in DOMAIN rows} |->
        IF x \in DOMAIN f THEN f[x] ELSE rows[CHOOSE i \in DOMAIN rows : n(i) = x]]

(* The foreign keys of the memberships that are inserted: f gives rows in A *)
(* their partners in B.                                                    *)
Linkable(f, A, B) == \A x \in DOMAIN f : f[x] # {} => x \in A /\ f[x] \subseteq B

Unique(f) == \A x, y \in DOMAIN f : f[x] = f[y] => x = y

(* A commit ends request r; what others have read is no longer current.    *)
Commit(r) ==
    req' = [q \in Request |->
              IF q = r \/ req[q] = Idle THEN Idle
              ELSE [req[q] EXCEPT !.clean = FALSE]]

(* A refused request, at any point: the transaction rolls back.            *)
Fail(r) ==
    /\ req[r] # Idle
    /\ req' = [req EXCEPT ![r] = Idle]
    /\ UNCHANGED <<host, group, member>>

-----------------------------------------------------------------------------
(* ReconcileHosts up to buildHostReconcilePlan.  prepare has refused equal *)
(* ids and names; the plan refuses unknown ids, changed names of known     *)
(* hosts, and new hosts whose name exists.  keep gives the kept hosts      *)
(* their groups; every other host seen is to be deleted.                   *)
ReconcileHosts(r, keep, create) ==
    /\ req[r] = Idle
    /\ DOMAIN keep \subseteq DOMAIN host
    /\ \A i \in DOMAIN create : create[i].fqdn \notin Range(host)
    /\ \A i, j \in DOMAIN create : create[i].fqdn = create[j].fqdn => i = j
    /\ req' = [req EXCEPT ![r] = [step |-> "hosts", keep |-> keep,
                                  create |-> create, seen |-> host,
                                  clean |-> TRUE]]
    /\ UNCHANGED <<host, group, member>>

(* Variant: the memberships of a deleted host stay.                        *)
CascadeNothing(m, hosts) == m

(* ON DELETE CASCADE on host_group_members.                                *)
CascadeHosts(m, hosts) == {x \in m : x[1] \in hosts}

(* Variant: the groups of a kept host are added to the ones it has.        *)
AddHostGroupMembership(m, groups) ==
    m \cup UNION {{<<h, g>> : g \in groups[h]} : h \in DOMAIN groups}

(* SetHostGroupMembership replaces the groups of the hosts it is given.    *)
SetHostGroupMembership(m, groups) ==
    {x \in m : x[1] \notin DOMAIN groups}
      \cup UNION {{<<h, g>> : g \in groups[h]} : h \in DOMAIN groups}

(* The transaction: deletes, creates with their groups, groups of the kept *)
(* hosts.  It fails on a host to delete that is gone (DeleteHost), a name  *)
(* that is taken, or a membership without its host or group; a kept host   *)
(* that is gone and gets no group goes unnoticed.                          *)
ApplyHosts(r) ==
    LET q == req[r]
        toDelete == DOMAIN q.seen \ DOMAIN q.keep
        left == Restricted(host, DOMAIN host \ toDelete)
        base == DOMAIN left
        new == {NewId(base, i) : i \in DOMAIN q.create}
        rows == Inserted(left, [i \in DOMAIN q.create |-> q.create[i].fqdn])
        newGroups == [x \in new |-> q.create[x - NewId(base, 0)].groups]
        created == SetHostGroupMembership(CascadeHosts(member, base), newGroups)
    IN
    /\ q.step = "hosts"
    /\ toDelete \subseteq DOMAIN host
    /\ new \subseteq Id
    /\ Unique(rows)
    /\ Linkable(newGroups, DOMAIN rows, DOMAIN group)
    /\ Linkable(q.keep, DOMAIN rows, DOMAIN group)
    /\ host' = rows
    /\ member' = SetHostGroupMembership(created, q.keep)
    /\ Commit(r)
    /\ UNCHANGED group

-----------------------------------------------------------------------------
(* ReconcileHostGroups.  prepare refuses equal ids, but not equal names;   *)
(* validateReferencedHosts reads the hosts first.                          *)
ReconcileHostGroups(r, keep, create) ==
    /\ req[r] = Idle
    /\ \A g \in DOMAIN keep : keep[g].hosts \subseteq DOMAIN host
    /\ \A i \in DOMAIN create : create[i].hosts \subseteq DOMAIN host
    /\ req' = [req EXCEPT ![r] = [step |-> "groups", keep |-> keep,
                                  create |-> create, seen |-> <<>>,
                                  toDelete |-> {}, rewrite |-> {},
                                  clean |-> TRUE]]
    /\ UNCHANGED <<host, group, member>>

(* ListHostGroups reads the groups, then the members.                      *)
ListHostGroups(r) ==
    /\ req[r].step = "groups"
    /\ DOMAIN req[r].keep \subseteq DOMAIN group
    /\ req' = [req EXCEPT ![r].step = "members", ![r].seen = group]
    /\ UNCHANGED <<host, group, member>>

(* Variant: the members do not count.                                      *)
SameName(name, hosts, def) == name = def.name

SameDefinitionAs(name, hosts, def) == name = def.name /\ hosts = def.hosts

(* buildGroupReconcilePlan leaves alone the groups that need no change.    *)
(* sameHostIDs compares lists: the same two members in another order are   *)
(* rewritten, or not.                                                      *)
PlanHostGroups(r) ==
    LET keep == req[r].keep
        differ == {g \in DOMAIN keep : ~SameDefinitionAs(
                      req[r].seen[g], {x[1] : x \in {y \in member : y[2] = g}}, keep[g])}
        maybe == {g \in DOMAIN keep \ differ : Cardinality(keep[g].hosts) > 1}
    IN
    /\ req[r].step = "members"
    /\ \E S \in SUBSET maybe :
          req' = [req EXCEPT ![r].step = "apply", ![r].seen = <<>>,
                             ![r].toDelete = DOMAIN req[r].seen \ DOMAIN keep,
                             ![r].rewrite = differ \cup S]
    /\ UNCHANGED <<host, group, member>>

replaceHostGroupMembers(m, hosts) ==
    {x \in m : x[2] \notin DOMAIN hosts}
      \cup UNION {hosts[g] \X {g} : g \in DOMAIN hosts}

(* Renaming the groups of sequence s one after the other meets no name     *)
(* that is taken.                                                          *)
Renames(rows, s, def) ==
    \A i \in DOMAIN s : \A x \in DOMAIN rows \ {s[i]} :
        def[s[i]].name # IF \E j \in 1 .. i - 1 : s[j] = x THEN def[x].name
                                                          ELSE rows[x]

(* Deletes, then updates in the order of the image, then creates.          *)
ApplyGroups(r) ==
    LET q == req[r]
        left == Restricted(group, DOMAIN group \ q.toDelete)
        base == DOMAIN left
        renamed == [g \in base |-> IF g \in q.rewrite THEN q.keep[g].name
                                                     ELSE left[g]]
        new == {NewId(base, i) : i \in DOMAIN q.create}
        rows == Inserted(renamed, [i \in DOMAIN q.create |-> q.create[i].name])
        hosts == [g \in q.rewrite \cup new |->
                    IF g \in q.rewrite THEN q.keep[g].hosts
                    ELSE q.create[g - NewId(base, 0)].hosts]
    IN
    /\ q.step = "apply"
    /\ q.toDelete \subseteq DOMAIN group
    /\ q.rewrite \subseteq base
    /\ \E s \in SetToSeqs(q.rewrite) : Renames(left, s, q.keep)
    /\ new \subseteq Id
    /\ Unique(rows)
    /\ Linkable(hosts, DOMAIN rows, DOMAIN host)
    /\ group' = rows
    /\ member' = replaceHostGroupMembers({x \in member : x[2] \in base}, hosts)
    /\ Commit(r)
    /\ UNCHANGED host

-----------------------------------------------------------------------------
Next ==
    \E r \in Request :
       \/ \E i \in HostImages : ReconcileHosts(r, i.keep, i.create)
       \/ \E i \in GroupImages : ReconcileHostGroups(r, i.keep, i.create)
       \/ ListHostGroups(r)
       \/ PlanHostGroups(r)
       \/ ApplyHosts(r)
       \/ ApplyGroups(r)
       \/ Fail(r)

Spec == Init /\ [][Next]_vars

-----------------------------------------------------------------------------
(* FQDNs and group names identify rows, and memberships join rows that     *)
(* exist, whatever plan is applied to whatever rows (the order of deletes, *)
(* creates and updates in the transactions of hosts/reconcile_*.go).       *)
CatalogIsSound ==
    /\ Unique(host)
    /\ Unique(group)
    /\ member \subseteq (DOMAIN host) \X (DOMAIN group)

HostImage(q) ==
    {[fqdn |-> q.seen[h], groups |-> q.keep[h]] : h \in DOMAIN q.keep}
      \cup Range(q.create)

(* hosts/reconcile_hosts.go:81-88.  After a ReconcileHosts that succeeds,  *)
(* every host it created exists with its groups, unless it was given the   *)
(* id of a kept host that vanished; every host it has read and that is     *)
(* still the same host was kept and has its groups; and if nothing was     *)
(* committed since its read, the catalog is exactly the desired image.     *)
HostsConverge ==
    [][\A r \in Request : ApplyHosts(r) =>
          LET q == req[r] IN
          /\ \A d \in Range(q.create) : \E h \in DOMAIN host' :
                /\ host'[h] = d.fqdn
                /\ h \notin DOMAIN q.keep => GroupsOf(h)' = d.groups
          /\ \A h \in DOMAIN host' \cap DOMAIN q.seen :
                host'[h] = q.seen[h] =>
                   h \in DOMAIN q.keep /\ GroupsOf(h)' = q.keep[h]
          /\ q.clean => GetAllHostsWithGroups' = HostImage(q)]_vars

GroupImage(q) == Range(q.keep) \cup Range(q.create)

(* hosts/reconcile_groups.go:80-87.  The same for ReconcileHostGroups: the *)
(* groups it wrote are as desired, and so is everything if nothing was     *)
(* committed since validateReferencedHosts.                                *)
GroupsConverge ==
    [][\A r \in Request : ApplyGroups(r) =>
          LET q == req[r] IN
          /\ Range(q.create) \cup {q.keep[g] : g \in q.rewrite}
                \subseteq GetHostGroups'
          /\ q.clean => GetHostGroups' = GroupImage(q)]_vars
=============================================================================
