---------------------------- MODULE CohortProofs ----------------------------
(***************************************************************************)
(* Proofs about provisioning and the pages on group changes, for any       *)
(* groups, permissions, releases and number of admins.                     *)
(***************************************************************************)
EXTENDS Cohort, TLAPS

\* What a group carries some release gave it, ...
CarriedByDeclaration ==
    \A g \in Groups : \A c \in carries[g] :
        \E other \in begun : \E q \in Entries(other) : q.group = g /\ q.codename = c

\* ... a migrate has provided for the profiles it is past, ...
BehindMigration ==
    migration.at # "none" =>
        /\ migration.release \in begun
        /\ \A j \in DOMAIN migration.release : j < migration.i =>
              migration.release[j].codename \in carries[migration.release[j].group]

\* ... and, once completed, for every profile.
ProvidedFor ==
    \A release \in provisioned : \A p \in Entries(release) :
        p.codename \in carries[p.group]

ProvisioningInv ==
    ProvisioningTypeOK /\ CarriedByDeclaration /\ BehindMigration /\ ProvidedFor

Declared(a) == {p.group : p \in Entries(worker[a])}

\* A receiver reads groups its release names, and what it adds of them it has
\* paged when it is through.
ReceiverThrough ==
    \A a \in Admins :
        /\ at[a] \in {"read", "alerted"} => seen[a] \subseteq Declared(a)
        /\ at[a] = "alerted" /\ adds[a] \cap Declared(a) # {} =>
              /\ "gained" \in pages[a]
              /\ Ambiguous(seen[a]) => "ambiguity" \in pages[a]

CohortInv == TypeOK /\ ProvisioningInv /\ ReceiverThrough /\ UnpagedOnlyByRace

-----------------------------------------------------------------------------
(* Releases *)

LEMMA EntriesTyped ==
    ASSUME NEW release \in Bootable
    PROVE  /\ release \in Seq(ProfileEntry)
           /\ DOMAIN release = 1..Len(release)
           /\ Len(release) \in Nat \ {0}
           /\ \A i \in DOMAIN release :
                 release[i].group \in Groups /\ release[i].codename \in Codenames
           /\ \A p \in Entries(release) :
                 p.group \in Groups /\ p.codename \in Codenames
<1>1. release \in Seq(ProfileEntry) /\ release # <<>>
  BY ProvisioningAssumption DEF Bootable, ValidProfiles
<1>2. \A i \in DOMAIN release : release[i] \in ProfileEntry
  BY <1>1
<1>3. \A p \in ProfileEntry : p.group \in Groups /\ p.codename \in Codenames
  BY DEF ProfileEntry
<1> QED
  BY <1>1, <1>2, <1>3 DEF Entries

\* In a release a process boots with, a codename or a group is of one profile.
LEMMA OneProfileEach ==
    ASSUME NEW release \in Bootable,
           NEW p \in Entries(release), NEW q \in Entries(release),
           p.codename = q.codename \/ p.group = q.group
    PROVE  p = q
BY DEF Bootable, ValidProfiles, Entries

LEMMA ByCodenameFinds ==
    ASSUME NEW release \in Bootable, NEW p \in Entries(release)
    PROVE  ByCodename(release, p.codename) = p
<1>1. PICK i \in DOMAIN release : release[i] = p
  BY DEF Entries
<1>2. \A j \in DOMAIN release : release[j].codename = p.codename => j = i
  BY <1>1 DEF Bootable, ValidProfiles
<1>3. i \in Nat
  BY <1>1, EntriesTyped
<1> QED
  BY <1>1, <1>2, <1>3 DEF ByCodename

-----------------------------------------------------------------------------
(* provision_mcp_profiles *)

LEMMA ProvisionKeepsInv ==
    ASSUME ProvisioningInv, Provision
    PROVE  ProvisioningInv'
<1> USE DEF ProvisioningInv
<1>1. ASSUME NEW release \in Bootable, MigrateStart(release)
      PROVE  ProvisioningInv'
  <2>1. ProvisioningTypeOK'
    BY <1>1, EntriesTyped DEF MigrateStart, ProvisioningTypeOK
  <2>2. CarriedByDeclaration'
    BY <1>1 DEF MigrateStart, CarriedByDeclaration
  <2>3. BehindMigration'
    BY <1>1, EntriesTyped DEF MigrateStart, BehindMigration
  <2>4. ProvidedFor'
    BY <1>1 DEF MigrateStart, ProvidedFor
  <2> QED
    BY <2>1, <2>2, <2>3, <2>4
<1>2. CASE GetOrCreateGroup
  <2>1. migration.release \in Bootable /\ migration.i \in DOMAIN migration.release
    BY <1>2 DEF GetOrCreateGroup, ProvisioningTypeOK
  <2>2. Current.group \in Groups
    BY <2>1, EntriesTyped DEF Current, Entries
  <2>3. ProvisioningTypeOK'
    BY <1>2, <2>2 DEF GetOrCreateGroup, ProvisioningTypeOK
  <2>4. CarriedByDeclaration' /\ ProvidedFor'
    BY <1>2 DEF GetOrCreateGroup, CarriedByDeclaration, ProvidedFor
  <2>5. BehindMigration'
    BY <1>2 DEF GetOrCreateGroup, BehindMigration, ProvisioningTypeOK
  <2> QED
    BY <2>3, <2>4, <2>5
<1>3. CASE AddPermission
  <2> DEFINE R == migration.release
             i == migration.i
  <2>1. /\ R \in Bootable /\ i \in DOMAIN R /\ R \in begun
        /\ Current = R[i]
    BY <1>3 DEF AddPermission, ProvisioningTypeOK, BehindMigration, Current
  <2>2. Current \in Entries(R) /\ Current.group \in Groups /\ Current.codename \in Codenames
    BY <2>1, EntriesTyped DEF Entries
  <2>3. \A g \in Groups : carries[g] \subseteq carries'[g]
    BY <1>3 DEF AddPermission, ProvisioningTypeOK
  <2>4. Current.codename \in carries'[Current.group]
    BY <1>3, <2>2 DEF AddPermission, ProvisioningTypeOK
  <2>5. \A j \in DOMAIN R : j <= i => R[j].codename \in carries'[R[j].group]
    <3> SUFFICES ASSUME NEW j \in DOMAIN R, j <= i
                 PROVE  R[j].codename \in carries'[R[j].group]
      OBVIOUS
    <3>1. R[j].group \in Groups
      BY <2>1, EntriesTyped
    <3>2. i \in Nat /\ j \in Nat
      BY <2>1, EntriesTyped
    <3>3. CASE j = i
      BY <3>3, <2>1, <2>4
    <3>4. CASE j < i
      BY <3>4, <3>1, <2>3, <1>3 DEF AddPermission, BehindMigration
    <3> QED
      BY <3>2, <3>3, <3>4
  <2>6. CarriedByDeclaration'
    BY <1>3, <2>1, <2>2 DEF AddPermission, CarriedByDeclaration, ProvisioningTypeOK
  <2>7. \A release \in provisioned : \A p \in Entries(release) :
            p.codename \in carries'[p.group]
    <3> SUFFICES ASSUME NEW release \in provisioned, NEW p \in Entries(release)
                 PROVE  p.codename \in carries'[p.group]
      OBVIOUS
    <3>1. p.group \in Groups
      BY EntriesTyped DEF ProvisioningTypeOK
    <3> QED
      BY <3>1, <2>3 DEF ProvidedFor
  <2>8. CASE i < Len(R)
    <3>1. /\ migration' = [migration EXCEPT !.at = "group", !.i = @ + 1]
          /\ provisioned' = provisioned
      BY <1>3, <2>8 DEF AddPermission, NextProfile
    <3>2. /\ migration'.at = "group" /\ migration'.release = R
          /\ migration'.i = i + 1 /\ i + 1 \in DOMAIN R
      BY <1>3, <3>1, <2>1, <2>8, EntriesTyped DEF AddPermission, ProvisioningTypeOK
    <3>3. migration \in [at : {"group", "permission"}, release : Bootable, i : Nat]
      BY <1>3 DEF AddPermission, ProvisioningTypeOK
    <3>4. migration' \in [at : {"group", "permission"}, release : Bootable, i : Nat]
      <4>1. migration = [at |-> migration.at, release |-> R, i |-> i] /\ i + 1 \in Nat
        BY <3>3
      <4>2. migration' = [at |-> "group", release |-> R, i |-> i + 1]
        BY <3>1, <4>1
      <4> QED
        BY <4>1, <4>2, <2>1
    <3>5. migration'.i \in DOMAIN migration'.release
      BY <3>2
    <3>6. ProvisioningTypeOK'
      BY <1>3, <3>1, <3>4, <3>5, <2>2 DEF AddPermission, ProvisioningTypeOK
    <3>7. BehindMigration'
      BY <1>3, <3>2, <2>1, <2>5, EntriesTyped DEF AddPermission, BehindMigration
    <3>8. ProvidedFor'
      BY <3>1, <2>7 DEF ProvidedFor
    <3> QED
      BY <3>6, <3>7, <3>8, <2>6
  <2>9. CASE ~(i < Len(R))
    <3>1. migration' = [at |-> "none"] /\ provisioned' = provisioned \cup {R}
      BY <1>3, <2>9 DEF AddPermission, NextProfile
    <3>2. ProvisioningTypeOK'
      BY <1>3, <3>1, <2>1, <2>2 DEF AddPermission, ProvisioningTypeOK
    <3>3. BehindMigration'
      BY <3>1 DEF BehindMigration
    <3>4. \A p \in Entries(R) : p.codename \in carries'[p.group]
      BY <2>1, <2>5, <2>9, EntriesTyped DEF Entries
    <3>5. ProvidedFor'
      BY <3>1, <3>4, <2>7 DEF ProvidedFor
    <3> QED
      BY <3>2, <3>3, <3>5, <2>6
  <2> QED
    BY <2>8, <2>9
<1>4. CASE MigrateBreaksOff
  BY <1>4 DEF MigrateBreaksOff, ProvisioningTypeOK, CarriedByDeclaration,
              BehindMigration, ProvidedFor
<1> QED
  BY <1>1, <1>2, <1>3, <1>4 DEF Provision

-----------------------------------------------------------------------------
(* resolve_profile *)

\* What the user holds of a provisioned release is what they were assigned to.
LEMMA HeldIsAssigned ==
    ASSUME ProvisioningInv, NEW release \in provisioned,
           \A other \in begun : Agree(release, other)
    PROVE  \A p \in Entries(release) : p.codename \in Held <=> p \in Assigned(release)
<1> SUFFICES ASSUME NEW p \in Entries(release)
             PROVE  p.codename \in Held <=> p \in Assigned(release)
  OBVIOUS
<1>1. ASSUME p \in Assigned(release) PROVE p.codename \in Held
  BY <1>1 DEF Assigned, Held, ProvisioningInv, ProvidedFor
<1>2. ASSUME p.codename \in Held, p.codename \notin direct PROVE p.group \in member
  <2>1. PICK g \in member : p.codename \in carries[g]
    BY <1>2 DEF Held
  <2>2. g \in Groups
    BY <2>1 DEF ProvisioningInv, ProvisioningTypeOK
  <2>3. PICK other \in begun : \E q \in Entries(other) : q.group = g /\ q.codename = p.codename
    BY <2>1, <2>2 DEF ProvisioningInv, CarriedByDeclaration
  <2>4. p.group = g
    BY <2>3 DEF Agree
  <2> QED
    BY <2>1, <2>4
<1> QED
  BY <1>1, <1>2 DEF Assigned

LEMMA ResolvesByInv == ProvisioningInv => ResolvesAsAssigned
<1> SUFFICES ASSUME ProvisioningInv, NEW release \in provisioned,
                    \A other \in begun : Agree(release, other)
             PROVE  LET assigned == Assigned(release)
                        outcome  == resolve_profile(release)
                    IN  /\ assigned = {} => outcome = Denied("NO_PERM")
                        /\ \A p \in assigned : assigned = {p} => outcome = Bound(p)
                        /\ (\E p, q \in assigned : p # q)
                              => outcome = Denied("AMBIGUOUS_PROFILE")
  BY DEF ResolvesAsAssigned
<1> DEFINE matched  == Held \cap {p.codename : p \in Entries(release)}
           assigned == Assigned(release)
<1>1. release \in Bootable
  BY DEF ProvisioningInv, ProvisioningTypeOK
<1>2. assigned \subseteq Entries(release)
  BY DEF Assigned
<1>3. \A p \in Entries(release) : p.codename \in matched <=> p \in assigned
  BY HeldIsAssigned
<1>4. \A c \in matched : \E p \in assigned : c = p.codename
  BY <1>3
<1>5. assigned = {} => matched = {}
  BY <1>4
<1>6. ASSUME NEW p \in assigned, assigned = {p}
      PROVE  resolve_profile(release) = Bound(p)
  <2>1. matched = {p.codename}
    BY <1>2, <1>3, <1>4, <1>6
  <2>2. (CHOOSE c \in matched : TRUE) = p.codename
    BY <2>1
  <2>3. ByCodename(release, p.codename) = p
    BY <1>1, <1>2, ByCodenameFinds
  <2>4. matched # {} /\ ~(\E c, d \in matched : c # d)
    BY <2>1
  <2> QED
    BY <2>2, <2>3, <2>4 DEF resolve_profile
<1>7. ASSUME NEW p \in assigned, NEW q \in assigned, p # q
      PROVE  resolve_profile(release) = Denied("AMBIGUOUS_PROFILE")
  <2>1. p.codename \in matched /\ q.codename \in matched
    BY <1>2, <1>3
  <2>2. p.codename # q.codename
    BY <1>1, <1>2, <1>7, OneProfileEach
  <2> QED
    BY <2>1, <2>2 DEF resolve_profile
<1> QED
  BY <1>5, <1>6, <1>7 DEF resolve_profile

-----------------------------------------------------------------------------
(* The admins *)

LEMMA ReadsDeclared ==
    ASSUME NEW a \in Admins PROVE McpGroups(a) \subseteq Declared(a)
BY DEF McpGroups, Declared

\* A change's steps keep the invariant, one by one.
LEMMA AdminKeepsInv ==
    ASSUME CohortInv, NEW a \in Admins,
           \/ ChangeGroups(a) \/ NoGain(a) \/ ReadMemberships(a)
           \/ ReadFails(a)    \/ Alert(a)  \/ Commit(a) \/ Rollback(a)
    PROVE  CohortInv'
<1> USE DEF CohortInv
<1>1. UNCHANGED rest
  BY DEF ChangeGroups, NoGain, ReadMemberships, ReadFails, Alert, Commit, Rollback
<1>2. member' \subseteq rows
  BY DEF ChangeGroups, NoGain, ReadMemberships, ReadFails, Alert, Commit, Rollback,
         TypeOK, ProvisioningTypeOK, Visible
<1>3. ProvisioningInv'
  BY <1>1, <1>2 DEF rest, ProvisioningInv, ProvisioningTypeOK, CarriedByDeclaration,
                    BehindMigration, ProvidedFor
<1>4. \A b \in Admins : Declared(b)' = Declared(b)
  BY <1>1 DEF rest, Declared
<1>5. rows' = rows /\ worker' = worker
  BY <1>1 DEF rest
<1>6. TypeOK'
  <2>1. CASE ChangeGroups(a)
    <3>1. PICK g \in SUBSET rows, r \in SUBSET member :
            /\ adds' = [adds EXCEPT ![a] = g \ (member \ r)]
            /\ removes' = [removes EXCEPT ![a] = r]
      BY <2>1 DEF ChangeGroups
    <3>2. g \ (member \ r) \subseteq rows /\ r \subseteq Groups
      BY DEF TypeOK, ProvisioningTypeOK
    <3>3. adds' \in [Admins -> SUBSET rows] /\ removes' \in [Admins -> SUBSET Groups]
      BY <3>1, <3>2 DEF TypeOK
    <3>4. changes' \in Nat /\ at' \in [Admins -> Stages]
      BY <2>1 DEF ChangeGroups, Goto, TypeOK, Stages
    <3> QED
      BY <2>1, <1>3, <1>5, <3>3, <3>4 DEF ChangeGroups, TypeOK, ProvisioningInv
  <2>2. CASE NoGain(a)
    BY <2>2, <1>3, <1>5 DEF NoGain, Goto, TypeOK, ProvisioningInv, ProvisioningTypeOK,
                           Stages, McpGroups
  <2>3. CASE ReadMemberships(a)
    BY <2>3, <1>3, <1>5 DEF ReadMemberships, Goto, TypeOK, ProvisioningInv,
                           ProvisioningTypeOK, Stages, McpGroups
  <2>4. CASE ReadFails(a)
    BY <2>4, <1>3, <1>5 DEF ReadFails, Goto, TypeOK, ProvisioningInv, Stages
  <2>5. CASE Alert(a)
    BY <2>5, <1>3, <1>5 DEF Alert, Goto, TypeOK, ProvisioningInv, Stages
  <2>6. CASE Commit(a)
    BY <2>6, <1>3, <1>5 DEF Commit, Close, Goto, TypeOK, ProvisioningInv, Stages
  <2>7. CASE Rollback(a)
    BY <2>7, <1>3, <1>5 DEF Rollback, Close, Goto, TypeOK, ProvisioningInv, Stages
  <2> QED
    BY <2>1, <2>2, <2>3, <2>4, <2>5, <2>6, <2>7
<1>7. ReceiverThrough'
  <2> USE <1>4 DEF ReceiverThrough, Goto, TypeOK
  <2>1. CASE ChangeGroups(a)
    BY <2>1 DEF ChangeGroups
  <2>2. CASE NoGain(a)
    <3>1. adds[a] \cap Declared(a) = {}
      BY <2>2 DEF NoGain, Gains, McpGroups, Declared
    <3> QED
      BY <2>2, <3>1, ReadsDeclared DEF NoGain
  <2>3. CASE ReadMemberships(a)
    BY <2>3, ReadsDeclared DEF ReadMemberships
  <2>4. CASE ReadFails(a)
    BY <2>4 DEF ReadFails
  <2>5. CASE Alert(a)
    BY <2>5 DEF Alert
  <2>6. CASE Commit(a)
    BY <2>6 DEF Commit, Close
  <2>7. CASE Rollback(a)
    BY <2>7 DEF Rollback, Close
  <2> QED
    BY <2>1, <2>2, <2>3, <2>4, <2>5, <2>6, <2>7
<1>8. UnpagedOnlyByRace'
  <2>1. CASE Commit(a)
    <3> SUFFICES ASSUME Ambiguous(member'), ~paged', seen[a] = member'
                 PROVE  raced
      BY <2>1 DEF Commit, UnpagedOnlyByRace
    <3>1. "ambiguity" \notin pages[a] /\ ~paged /\ at[a] = "alerted" /\ member' = Visible(a)
      BY <2>1 DEF Commit, TypeOK
    <3>2. adds[a] \cap Declared(a) = {} /\ seen[a] \subseteq Declared(a)
      BY <3>1 DEF ReceiverThrough
    <3>3. adds[a] \subseteq seen[a]
      BY <3>1 DEF Visible
    <3>4. member' \subseteq member
      BY <3>1, <3>2, <3>3 DEF Visible
    <3> QED
      BY <3>1, <3>4 DEF UnpagedOnlyByRace, Ambiguous
  <2>2. CASE ~Commit(a)
    BY <2>2 DEF ChangeGroups, NoGain, ReadMemberships, ReadFails, Alert, Rollback,
                UnpagedOnlyByRace
  <2> QED
    BY <2>1, <2>2
<1> QED
  BY <1>3, <1>6, <1>7, <1>8

-----------------------------------------------------------------------------
(* The specification *)

LEMMA InitCohortInv == Init => CohortInv
<1> SUFFICES ASSUME Init PROVE CohortInv
  OBVIOUS
<1>1. ProvisioningInv
  BY DEF Init, ProvisioningInit, ProvisioningInv, ProvisioningTypeOK, CarriedByDeclaration,
         BehindMigration, ProvidedFor
<1>2. TypeOK
  BY <1>1 DEF Init, TypeOK, ProvisioningInv, Stages
<1>3. ReceiverThrough /\ UnpagedOnlyByRace
  BY DEF Init, ProvisioningInit, ReceiverThrough, UnpagedOnlyByRace, Ambiguous
<1> QED
  BY <1>1, <1>2, <1>3 DEF CohortInv

LEMMA NextCohortInv == CohortInv /\ [Next]_vars => CohortInv'
<1> SUFFICES ASSUME CohortInv, [Next]_vars PROVE CohortInv'
  OBVIOUS
<1>1. ASSUME NEW a \in Admins,
             \/ ChangeGroups(a) \/ NoGain(a) \/ ReadMemberships(a)
             \/ ReadFails(a)    \/ Alert(a)  \/ Commit(a) \/ Rollback(a)
      PROVE  CohortInv'
  BY <1>1, AdminKeepsInv
<1>2. CASE Migrate
  <2>1. ProvisioningInv'
    BY <1>2, ProvisionKeepsInv DEF CohortInv, Migrate
  <2>2. rows \subseteq rows' /\ member' = member
    BY <1>2 DEF Migrate, Provision, MigrateStart, GetOrCreateGroup, AddPermission,
                MigrateBreaksOff
  <2>3. TypeOK'
    BY <1>2, <2>1, <2>2 DEF CohortInv, Migrate, TypeOK, ProvisioningInv
  <2>4. ReceiverThrough' /\ UnpagedOnlyByRace'
    BY <1>2, <2>2 DEF CohortInv, Migrate, ReceiverThrough, UnpagedOnlyByRace, Declared
  <2> QED
    BY <2>1, <2>3, <2>4 DEF CohortInv
<1>3. ASSUME NEW c \in Codenames, GrantDirectly(c) PROVE CohortInv'
  BY <1>3 DEF GrantDirectly, Change, CohortInv, TypeOK, ProvisioningInv,
     ProvisioningTypeOK, CarriedByDeclaration, BehindMigration, ProvidedFor,
     ReceiverThrough, UnpagedOnlyByRace, Declared
<1>4. ASSUME NEW a \in Admins, Restart(a) PROVE CohortInv'
  <2>1. \A b \in Admins : at[b] # "idle" => Declared(b)' = Declared(b)
    BY <1>4 DEF Restart, Declared, CohortInv, TypeOK
  <2> QED
    BY <1>4, <2>1 DEF Restart, Change, CohortInv, TypeOK, ProvisioningInv,
       ProvisioningTypeOK, CarriedByDeclaration, BehindMigration, ProvidedFor,
       ReceiverThrough, UnpagedOnlyByRace
<1>5. CASE UNCHANGED vars
  BY <1>5 DEF vars, provisioningVars, cohortVars, CohortInv, TypeOK, ProvisioningInv,
     ProvisioningTypeOK, CarriedByDeclaration, BehindMigration, ProvidedFor,
     ReceiverThrough, UnpagedOnlyByRace, Declared
<1> QED
  BY <1>1, <1>2, <1>3, <1>4, <1>5 DEF Next, Quiet

LEMMA CohortInvariance == Spec => []CohortInv
BY InitCohortInv, NextCohortInv, PTL DEF Spec

\* Every variable has its type, whatever the releases and however many admins.
THEOREM TypeCorrect == Spec => []TypeOK
<1>1. CohortInv => TypeOK
  BY DEF CohortInv
<1> QED
  BY <1>1, CohortInvariance, PTL

\* For any sequence of releases, migrates and broken-off migrates, a user enters
\* the one profile of a provisioned release they were assigned to.
THEOREM UsersResolveAsAssigned == Spec => []ResolvesAsAssigned
<1>1. CohortInv => ResolvesAsAssigned
  BY ResolvesByInv DEF CohortInv
<1> QED
  BY <1>1, CohortInvariance, PTL

\* For any number of admins: an ambiguity nobody was paged about comes of a change
\* that was committed without knowing all memberships.
THEOREM UnpagedNeedsRace == Spec => []UnpagedOnlyByRace
<1>1. CohortInv => UnpagedOnlyByRace
  BY DEF CohortInv
<1> QED
  BY <1>1, CohortInvariance, PTL

\* For any number of admins: who commits a gain of a profile group has paged it.
THEOREM EveryGainIsPaged == Spec => NoSilentGain
<1>1. CohortInv /\ [Next]_vars =>
        [\A a \in Admins :
           /\ at[a] # "idle" /\ at'[a] = "idle"
           /\ \A b \in Admins \ {a} : at'[b] = at[b]
           /\ \E p \in Entries(worker[a]) : p.group \in member' \ member
           => "gained" \in pages[a]]_vars
  <2> SUFFICES ASSUME CohortInv, Next, NEW a \in Admins, at[a] # "idle", at'[a] = "idle",
                      NEW p \in Entries(worker[a]), p.group \in member' \ member
               PROVE  "gained" \in pages[a]
    OBVIOUS
  <2>1. Commit(a) \/ Rollback(a)
    BY DEF Next, ChangeGroups, NoGain, ReadMemberships, ReadFails, Alert, Commit, Rollback,
           Close, Goto, Migrate, GrantDirectly, Restart, Change, Quiet, vars, cohortVars,
           CohortInv, TypeOK
  <2>2. Commit(a)
    BY <2>1 DEF Rollback
  <2>3. p.group \in adds[a] \cap Declared(a)
    BY <2>2 DEF Commit, Visible, Declared
  <2> QED
    BY <2>2, <2>3 DEF Commit, CohortInv, ReceiverThrough
<1> QED
  BY <1>1, CohortInvariance, PTL DEF Spec, NoSilentGain
=============================================================================
