---------------------------- MODULE Provisioning ----------------------------
(***************************************************************************)
(* MCP_SQL["PROFILES"], from the settings to what a user may enter:        *)
(* validated when a process boots, made into groups and permissions by     *)
(* provision_mcp_profiles after each migrate, read back by resolve_profile *)
(* on each request.  Releases with other profiles follow one another, and  *)
(* a migrate may break off anywhere: each of its statements commits alone. *)
(* What is provisioned stays: nothing ever takes a permission from a group. *)
(***************************************************************************)
EXTENDS Naturals, Sequences, FiniteSets

CONSTANTS
    Groups,      \* the groups some release names
    Codenames,   \* of permissions on the content type mcpquerylog ...
    Reserved,    \* ... and Django's own among them
    Releases     \* the profiles of each release, in the settings' order

ProfileEntry == [codename : Codenames, group : Groups]

ASSUME ProvisioningAssumption ==
    /\ Reserved \subseteq Codenames
    /\ Releases \subseteq Seq(ProfileEntry)

VARIABLES
    rows,          \* groups that exist
    carries,       \* the permissions of each group
    member,        \* groups the user is in, as committed
    direct,        \* permissions the user holds without a group
    migration,     \* the migrate under way: the profile it is at, and where
    begun,         \* history: releases whose migrate has begun ...
    provisioned    \* ... and those for which one was completed

provisioningVars == <<rows, carries, member, direct, migration, begun, provisioned>>

\* The profiles of a release
Entries(release) == {release[i] : i \in DOMAIN release}

\* Mutant: only the groups have to differ.
ValidGroups(release) ==
    /\ release # <<>>
    /\ \A i, j \in DOMAIN release : release[i].group = release[j].group => i = j
    /\ \A p \in Entries(release) : p.codename \notin Reserved

\* _validate_profiles; a process that finds others does not boot.
ValidProfiles(release) ==
    /\ release # <<>>
    /\ \A i, j \in DOMAIN release :
          release[i].codename = release[j].codename \/ release[i].group = release[j].group
              => i = j
    /\ \A p \in Entries(release) : p.codename \notin Reserved

Bootable == {release \in Releases : ValidProfiles(release)}

ProvisioningInit ==
    /\ rows \in SUBSET Groups
    /\ carries = [g \in Groups |-> {}]
    /\ member = {}
    /\ direct = {}
    /\ migration = [at |-> "none"]
    /\ begun = {}
    /\ provisioned = {}

-----------------------------------------------------------------------------
(* provision_mcp_profiles *)

Current == migration.release[migration.i]

MigrateStart(release) ==
    /\ migration.at = "none"
    /\ migration' = [at |-> "group", release |-> release, i |-> 1]
    /\ begun' = begun \cup {release}
    /\ UNCHANGED <<rows, carries, member, direct, provisioned>>

NextProfile ==
    IF migration.i < Len(migration.release)
    THEN /\ migration' = [migration EXCEPT !.at = "group", !.i = @ + 1]
         /\ UNCHANGED provisioned
    ELSE /\ migration' = [at |-> "none"]
         /\ provisioned' = provisioned \cup {migration.release}

\* Mutant: a group that is there already is taken for provisioned.
CreateGroup ==
    /\ migration.at = "group"
    /\ IF Current.group \in rows
       THEN NextProfile /\ UNCHANGED rows
       ELSE /\ rows' = rows \cup {Current.group}
            /\ migration' = [migration EXCEPT !.at = "permission"]
            /\ UNCHANGED provisioned
    /\ UNCHANGED <<carries, member, direct, begun>>

\* The permission's row, which nobody finds before a group carries it, and the
\* group's row
GetOrCreateGroup ==
    /\ migration.at = "group"
    /\ rows' = rows \cup {Current.group}
    /\ migration' = [migration EXCEPT !.at = "permission"]
    /\ UNCHANGED <<carries, member, direct, begun, provisioned>>

\* group.permissions.add: what the group carries from earlier releases stays.
AddPermission ==
    /\ migration.at = "permission"
    /\ carries' = [carries EXCEPT ![Current.group] = @ \cup {Current.codename}]
    /\ NextProfile
    /\ UNCHANGED <<rows, member, direct, begun>>

MigrateBreaksOff ==
    /\ migration.at # "none"
    /\ migration' = [at |-> "none"]
    /\ UNCHANGED <<rows, carries, member, direct, begun, provisioned>>

Provision ==
    \/ \E release \in Bootable : MigrateStart(release)
    \/ GetOrCreateGroup \/ AddPermission \/ MigrateBreaksOff

-----------------------------------------------------------------------------
(* resolve_profile *)

Denied(reason) == [denied |-> reason]
Bound(p) == [profile |-> p]

\* By group, or directly; a permission held in both ways counts once.
Held == direct \cup UNION {carries[g] : g \in member}

\* by_codename: the last profile with the codename
ByCodename(release, codename) ==
    release[CHOOSE i \in DOMAIN release :
                /\ release[i].codename = codename
                /\ \A j \in DOMAIN release : release[j].codename = codename => j <= i]

resolve_profile(release) ==
    LET matched == Held \cap {p.codename : p \in Entries(release)}
    IN  IF matched = {} THEN Denied("NO_PERM")
        ELSE IF \E c, d \in matched : c # d THEN Denied("AMBIGUOUS_PROFILE")
        ELSE Bound(ByCodename(release, CHOOSE c \in matched : TRUE))

-----------------------------------------------------------------------------
(* Properties *)

ProvisioningTypeOK ==
    /\ rows        \subseteq Groups
    /\ carries     \in [Groups -> SUBSET Codenames]
    /\ member      \subseteq rows
    /\ direct      \subseteq Codenames
    /\ begun       \subseteq Bootable
    /\ provisioned \subseteq begun
    /\ \/ migration = [at |-> "none"]
       \/ /\ migration \in [at : {"group", "permission"}, release : Bootable, i : Nat]
          /\ migration.i \in DOMAIN migration.release

\* No group and no codename of the one means another in the other.
Agree(one, other) ==
    \A p \in Entries(one), q \in Entries(other) :
        p.group = q.group <=> p.codename = q.codename

\* The profiles of the release the user was assigned to
Assigned(release) ==
    {p \in Entries(release) : p.group \in member \/ p.codename \in direct}

\* "A user must belong to exactly one profile group: 0 denied, more than one
\* denied as ambiguous" (docs/oauth.md:174).  Once a release is provisioned, and
\* whatever broke off before, a user enters exactly the one profile of it they
\* were assigned to, also while other releases run; as long as no release gave
\* one of its groups or codenames another meaning, which a group never loses.
ResolvesAsAssigned ==
    \A release \in provisioned :
        (\A other \in begun : Agree(release, other)) =>
            LET assigned == Assigned(release)
                outcome  == resolve_profile(release)
            IN  /\ assigned = {} => outcome = Denied("NO_PERM")
                /\ \A p \in assigned : assigned = {p} => outcome = Bound(p)
                /\ (\E p, q \in assigned : p # q) => outcome = Denied("AMBIGUOUS_PROFILE")
=============================================================================
