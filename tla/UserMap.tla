------------------------------- MODULE UserMap -------------------------------
(***************************************************************************)
(* The user namespace of a container: which UID and GID mappings           *)
(* apply_userns (main.rs) or create_internal (runtime.rs) choose from the  *)
(* request and from /etc/subuid and /etc/subgid (isolation/usermap.rs),    *)
(* the runtime base the parent hands to the container's root, the writing  *)
(* of /proc/<pid>/{setgroups,uid_map,gid_map} directly or through the      *)
(* setuid helpers, and the identities the child then takes.                *)
(*                                                                         *)
(* An id is a small number: IdSpace stands for 2^32 and MaxMapping for the *)
(* 65536 ids one mapping may span.                                         *)
(***************************************************************************)
EXTENDS Naturals, Sequences, FiniteSetsExt

CONSTANTS MapCases,        \* [uid, gid, mode, uidmap, gidmap, user, group, subuid, subgid]
          IdSpace, MaxMapping,
          RemapBase, RemapCount

VARIABLES map_case,        \* who asks, for what, and what the host delegates
          mappings,        \* UserNamespaceConfig: [uid, gid], sequences of mappings
          map_pc,
          base_owner,      \* who owns the runtime base: [uid, gid] on the host
          setgroups,       \* /proc/<child>/setgroups
          uid_map, gid_map,\* what the kernel accepted for the child, <<>> at first
          child_ids        \* the ids of the child inside its namespace

mapVars == <<map_case, mappings, map_pc, base_owner, setgroups, uid_map,
             gid_map, child_ids>>

IsRoot == map_case.uid = 0

IdMappings == [container : Nat, host : Nat, count : Nat]
SubidLines == [who : {"name", "uid", "other"}, start : Nat, count : Nat]

MapRequests ==
    [uid : Nat, gid : Nat, user : Nat, group : Nat,
     mode : {"specs", "keep-id", "auto", "strict", "nomap"},
     uidmap : Seq(IdMappings), gidmap : Seq(IdMappings),
     subuid : Seq(SubidLines), subgid : Seq(SubidLines)]

ASSUME MapAssumption ==
    MapCases \subseteq MapRequests /\ {IdSpace, MaxMapping, RemapBase, RemapCount} \subseteq Nat

Mapping(c, h, n) == [container |-> c, host |-> h, count |-> n]
NoRange == [start |-> 0, count |-> 0]

\* ---------------------------------------------------------------------------
\* The mappings

\* subid_range_for: the first line for the login name with a usable count, else
\* the first such line for the numeric uid.  Lines are [who, start, count].
SubidRangeFor(lines) ==
    LET usable(by) == {i \in DOMAIN lines : lines[i].who = by /\ lines[i].count > 0}
        first(s) == [start |-> lines[Min(s)].start, count |-> lines[Min(s)].count]
    IN  IF usable("name") # {} THEN first(usable("name"))
        ELSE IF usable("uid") # {} THEN first(usable("uid"))
        ELSE NoRange

\* current_subid_ranges: both files must delegate a range.
Delegated(c) == SubidRangeFor(c.subuid) # NoRange /\ SubidRangeFor(c.subgid) # NoRange

\* IdMapping::validate, with the host's root allowed to map host id 0.
MappingOk(m, allow_host_root) ==
    /\ m.count \in 1..MaxMapping
    /\ m.container + m.count < IdSpace
    /\ m.host + m.count < IdSpace
    /\ allow_host_root \/ m.host # 0

RootlessMapping(c) == [uid |-> <<Mapping(0, c.uid, 1)>>, gid |-> <<Mapping(0, c.gid, 1)>>]

\* keep_id with its two mappings the other way round.
KeepIdSwapped(c) ==
    [uid |-> <<Mapping(0, c.uid, 1), Mapping(c.uid, SubidRangeFor(c.subuid).start, 1)>>,
     gid |-> <<Mapping(0, c.gid, 1), Mapping(c.gid, SubidRangeFor(c.subgid).start, 1)>>]

KeepId(c) ==
    [uid |-> <<Mapping(0, SubidRangeFor(c.subuid).start, 1), Mapping(c.uid, c.uid, 1)>>,
     gid |-> <<Mapping(0, SubidRangeFor(c.subgid).start, 1), Mapping(c.gid, c.gid, 1)>>]

SubuidAuto(c) ==
    LET capped(r) == IF r.count < MaxMapping THEN r.count ELSE MaxMapping
        both(own, r) == <<Mapping(0, own, 1), Mapping(1, r.start, capped(r))>>
    IN  [uid |-> both(c.uid, SubidRangeFor(c.subuid)),
         gid |-> both(c.gid, SubidRangeFor(c.subgid))]

RootRemapped == [uid |-> <<Mapping(0, RemapBase, RemapCount)>>,
                 gid |-> <<Mapping(0, RemapBase, RemapCount)>>]

\* from_map_specs and custom: at least one valid mapping of each kind.
SpecsOk(c) ==
    /\ c.uidmap # <<>> /\ c.gidmap # <<>>
    /\ \A i \in DOMAIN c.uidmap : MappingOk(c.uidmap[i], c.uid = 0)
    /\ \A i \in DOMAIN c.gidmap : MappingOk(c.gidmap[i], c.uid = 0)

\* for_unprivileged_rootless: keep-id for a workload that is not root, when the
\* host delegates ids, and otherwise the caller alone.
ForUnprivilegedRootless(c) ==
    IF c.user # 0 /\ Delegated(c) THEN KeepId(c) ELSE RootlessMapping(c)

Covers(m, id) == m.container <= id /\ id < m.container + m.count
Maps(maps, id) == \E i \in DOMAIN maps : Covers(maps[i], id)

\* mapped_host_id_for_container_id without looking for the mapping that covers
\* the id.
HostIdOfFirst(maps, id) == maps[1].host

\* The first mapping that covers the id.
MappedHostId(maps, id) ==
    LET m == maps[Min({i \in DOMAIN maps : Covers(maps[i], id)})]
    IN  m.host + (id - m.container)

\* ---------------------------------------------------------------------------
\* The parent before the fork

UserMapTypeOK ==
    /\ map_case \in MapRequests
    /\ mappings \in [uid : Seq(IdMappings), gid : Seq(IdMappings)]
    /\ map_pc \in {"choose", "validate", "base", "request", "newgidmap", "newuidmap", "write-uid",
                   "write-gid", "acked", "setup", "workload", "unmapped", "refused", "failed"}
    /\ setgroups \in {"allow", "deny"}
    /\ uid_map \in Seq(IdMappings) /\ gid_map \in Seq(IdMappings)

UserMapBegins ==
    /\ mappings = [uid |-> <<>>, gid |-> <<>>]
    /\ map_pc = "choose"
    /\ base_owner = [uid |-> map_case.uid, gid |-> map_case.gid]
    /\ setgroups = "allow"
    /\ uid_map = <<>> /\ gid_map = <<>>
    /\ child_ids = [uid |-> map_case.uid, gid |-> map_case.gid]
UserMapInit == map_case \in MapCases /\ UserMapBegins

\* apply_userns, or the defaults of create_internal when the request names no
\* mapping ("nomap"); "strict" is a strict service mode without one.
ChosenMap(c) ==
    CASE c.mode = "specs" -> [uid |-> c.uidmap, gid |-> c.gidmap]
      [] c.mode = "keep-id" -> KeepId(c)
      [] c.mode = "auto" -> SubuidAuto(c)
      [] c.mode = "strict" /\ c.uid = 0 -> RootRemapped
      [] OTHER -> ForUnprivilegedRootless(c)

ChooseMapping ==
    /\ map_pc = "choose"
    /\ IF /\ map_case.mode = "specs" => SpecsOk(map_case)
          /\ map_case.mode \in {"keep-id", "auto"} => Delegated(map_case)
       THEN /\ mappings' = ChosenMap(map_case)
            /\ map_pc' = "validate"
       ELSE /\ map_pc' = "refused"
            /\ UNCHANGED mappings
    /\ UNCHANGED <<map_case, base_owner, setgroups, uid_map, gid_map, child_ids>>

\* validate_runtime_support: the workload's identity must be mapped.
ValidateIdentity ==
    /\ map_pc = "validate"
    /\ map_pc' = IF Maps(mappings.uid, map_case.user) /\ Maps(mappings.gid, map_case.group)
                 THEN "base" ELSE "refused"
    /\ UNCHANGED <<map_case, mappings, base_owner, setgroups, uid_map, gid_map, child_ids>>

\* prepare_runtime_base_override: the host's root gives the base to the ids the
\* container's root will have; anyone else keeps the base they own.
PrepareBase ==
    /\ map_pc = "base"
    /\ IF ~IsRoot
       THEN map_pc' = "request" /\ UNCHANGED base_owner
       ELSE IF Maps(mappings.uid, 0) /\ Maps(mappings.gid, 0)
       THEN /\ base_owner' = [uid |-> MappedHostId(mappings.uid, 0),
                              gid |-> MappedHostId(mappings.gid, 0)]
            /\ map_pc' = "request"
       ELSE map_pc' = "refused" /\ UNCHANGED base_owner
    /\ UNCHANGED <<map_case, mappings, setgroups, uid_map, gid_map, child_ids>>

\* ---------------------------------------------------------------------------
\* Writing the maps.  The kernel's and the helpers' rules are external.

OneToOne(maps) ==
    \A i, j \in DOMAIN maps : i # j =>
        LET apart(a, n, b, m) == a + n <= b \/ b + m <= a
        IN  /\ apart(maps[i].container, maps[i].count, maps[j].container, maps[j].count)
            /\ apart(maps[i].host, maps[i].count, maps[j].host, maps[j].count)

Own(maps, own) == Len(maps) = 1 /\ maps[1].count = 1 /\ maps[1].host = own

Authorized(maps, own, range) ==
    \A i \in DOMAIN maps :
        \/ maps[i].count = 1 /\ maps[i].host = own
        \/ maps[i].host >= range.start /\ maps[i].host + maps[i].count <= range.start + range.count

\* needs_setuid_helper: anything but the caller's own ids as container root.
NeedsSetuidHelper == mappings # RootlessMapping(map_case)

\* setgroups is only denied for a single mapping of more than one id.
DenyForMany == Len(mappings.gid) = 1 /\ mappings.gid[1].count > 1

\* should_deny_setgroups
ShouldDenySetgroups == Len(mappings.gid) = 1 /\ mappings.gid[1].count = 1

MapOutcome(ok, next) == map_pc' = IF ok THEN next ELSE "failed"

\* write_mappings_for_pid, once the child has asked: the direct way starts with
\* setgroups, the helpers with newgidmap.
BeginWrite ==
    /\ map_pc = "request"
    /\ IF ~IsRoot /\ NeedsSetuidHelper
       THEN map_pc' = "newgidmap" /\ UNCHANGED setgroups
       ELSE /\ setgroups' = IF ShouldDenySetgroups THEN "deny" ELSE setgroups
            /\ map_pc' = "write-uid"
    /\ UNCHANGED <<map_case, mappings, base_owner, uid_map, gid_map, child_ids>>

WriteUidMap ==
    /\ map_pc = "write-uid"
    /\ LET ok == OneToOne(mappings.uid) /\ (IsRoot \/ Own(mappings.uid, map_case.uid))
       IN  /\ uid_map' = IF ok THEN mappings.uid ELSE uid_map
           /\ MapOutcome(ok, "write-gid")
    /\ UNCHANGED <<map_case, mappings, base_owner, setgroups, gid_map, child_ids>>

WriteGidMap ==
    /\ map_pc = "write-gid"
    /\ LET ok == /\ OneToOne(mappings.gid)
                 /\ IsRoot \/ (Own(mappings.gid, map_case.gid) /\ setgroups = "deny")
       IN  /\ gid_map' = IF ok THEN mappings.gid ELSE gid_map
           /\ MapOutcome(ok, "acked")
    /\ UNCHANGED <<map_case, mappings, base_owner, setgroups, uid_map, child_ids>>

\* write_mappings_via_setuid_helper: groups first, then users.  A helper that is
\* not installed fails like one that refuses.
RunNewgidmap ==
    /\ map_pc = "newgidmap"
    /\ \E installed \in BOOLEAN :
          LET ok == /\ installed
                    /\ OneToOne(mappings.gid)
                    /\ Authorized(mappings.gid, map_case.gid, SubidRangeFor(map_case.subgid))
          IN  /\ gid_map' = IF ok THEN mappings.gid ELSE gid_map
              /\ MapOutcome(ok, "newuidmap")
    /\ UNCHANGED <<map_case, mappings, base_owner, setgroups, uid_map, child_ids>>

RunNewuidmap ==
    /\ map_pc = "newuidmap"
    /\ \E installed \in BOOLEAN :
          LET ok == /\ installed
                    /\ OneToOne(mappings.uid)
                    /\ Authorized(mappings.uid, map_case.uid, SubidRangeFor(map_case.subuid))
          IN  /\ uid_map' = IF ok THEN mappings.uid ELSE uid_map
              /\ MapOutcome(ok, "acked")
    /\ UNCHANGED <<map_case, mappings, base_owner, setgroups, gid_map, child_ids>>

\* ---------------------------------------------------------------------------
\* The child, once it has the parent's byte

\* become_userns_root_for_setup: setresgid and setresuid to 0.
BecomeUsernsRoot ==
    /\ map_pc = "acked"
    /\ LET ok == Maps(gid_map, 0) /\ Maps(uid_map, 0)
       IN  /\ child_ids' = IF ok THEN [uid |-> 0, gid |-> 0] ELSE child_ids
           /\ MapOutcome(ok, "setup")
    /\ UNCHANGED <<map_case, mappings, base_owner, setgroups, uid_map, gid_map>>

\* apply_process_identity_to_current_process inside a user namespace: setgid,
\* then setuid, and no setgroups.
ApplyIdentity ==
    /\ map_pc = "setup"
    /\ LET ok == Maps(gid_map, map_case.group) /\ Maps(uid_map, map_case.user)
       IN  /\ child_ids' = IF ok THEN [uid |-> map_case.user, gid |-> map_case.group]
                           ELSE child_ids
           /\ map_pc' = IF ok THEN "workload" ELSE "unmapped"
    /\ UNCHANGED <<map_case, mappings, base_owner, setgroups, uid_map, gid_map>>

UserMapNext ==
    \/ ChooseMapping \/ ValidateIdentity \/ PrepareBase
    \/ BeginWrite \/ WriteUidMap \/ WriteGidMap \/ RunNewgidmap \/ RunNewuidmap
    \/ BecomeUsernsRoot \/ ApplyIdentity

UserMapSpec == UserMapInit /\ [][UserMapNext]_mapVars

\* ---------------------------------------------------------------------------
\* Properties

\* The host ids the kernel may take an id of the child for.
OnHost(maps, id) ==
    {maps[i].host + (id - maps[i].container) : i \in {k \in DOMAIN maps : Covers(maps[k], id)}}
HostUids == OnHost(uid_map, child_ids.uid)
HostGids == OnHost(gid_map, child_ids.gid)

\* While the child sets the container up it is, on the host, exactly the user
\* and group the parent gave the runtime base to (when the host's root launched
\* it), so the workspace and the overlay the parent prepared are its own; and a
\* workload that keeps the caller's ids under keep-id really is the caller on
\* the host, so the caller's bind mounts are readable without ownership shifts
\* (prepare_runtime_base_override, keep_id).
OwnersMatch ==
    /\ map_pc = "setup" /\ IsRoot =>
          HostUids = {base_owner.uid} /\ HostGids = {base_owner.gid}
    /\ /\ map_pc = "workload"
       /\ map_case.mode = "keep-id"
       /\ map_case.user = map_case.uid /\ map_case.group = map_case.gid
       => HostUids = {map_case.uid} /\ HostGids = {map_case.gid}

\* A launch that maps nobody but the caller needs nothing from the host: neither
\* the kernel nor a missing helper can make it fail, whatever /etc/subuid says
\* (should_deny_setgroups, needs_setuid_helper).  And an identity that passed
\* validation is never refused once the kernel has accepted the maps and the
\* child is the container's root.
OwnIdsSuffice ==
    /\ map_pc = "failed" => mappings # RootlessMapping(map_case)
    /\ map_pc # "unmapped"

\* What each step has left for the ones that follow: an inductive invariant with
\* the two properties.
Accepted(kind, written) ==
    written = mappings[kind] /\ OneToOne(written)

MapsFollow ==
    /\ map_pc \notin {"choose", "refused"} => mappings = ChosenMap(map_case)
    /\ map_pc \notin {"choose", "validate", "refused"} =>
          Maps(mappings.uid, map_case.user) /\ Maps(mappings.gid, map_case.group)
    /\ map_pc \notin {"choose", "validate", "base", "refused"} /\ IsRoot =>
          base_owner = [uid |-> MappedHostId(mappings.uid, 0), gid |-> MappedHostId(mappings.gid, 0)]
    /\ map_pc \in {"newgidmap", "newuidmap"} => NeedsSetuidHelper
    /\ map_pc \in {"write-uid", "write-gid"} /\ ShouldDenySetgroups => setgroups = "deny"
    /\ map_pc \in {"write-gid", "acked", "setup", "workload"} => Accepted("uid", uid_map)
    /\ map_pc \in {"newuidmap", "acked", "setup", "workload"} => Accepted("gid", gid_map)
    /\ map_pc = "setup" => /\ child_ids = [uid |-> 0, gid |-> 0]
                           /\ Maps(uid_map, 0) /\ Maps(gid_map, 0)
    /\ map_pc = "workload" => child_ids = [uid |-> map_case.user, gid |-> map_case.group]

\* The runtime base belongs to whom the child is on the host, and a mapping of the
\* caller's own ids depends on nobody (usermap.rs, runtime.rs); with what makes
\* this inductive.
MappingServes == UserMapTypeOK /\ OwnersMatch /\ OwnIdsSuffice /\ MapsFollow
=============================================================================
