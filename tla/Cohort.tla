------------------------------- MODULE Cohort -------------------------------
(***************************************************************************)
(* alert_on_mcp_group_grant: the pages sent when a user gains an MCP       *)
(* profile group.  Django sends m2m_changed inside the transaction of the  *)
(* change, so the receiver reads the memberships that are committed by     *)
(* then and those its own transaction writes, but not those other          *)
(* transactions are about to commit; and it knows the profile groups of    *)
(* the release its worker booted with.  One user is modelled; others have  *)
(* memberships of their own.                                               *)
(***************************************************************************)
EXTENDS Provisioning

CONSTANTS
    Admins,       \* transactions that change the user's groups
    MaxChanges    \* bound: changes, restarts and migrates begun

ASSUME CohortAssumption == MaxChanges \in Nat

VARIABLES
    worker,    \* the release of each admin's worker
    at,        \* where each admin's transaction is
    adds,      \* groups it adds ...
    removes,   \* ... and removes
    seen,      \* memberships its receiver read
    pages,     \* pages its receiver sent: "gained", "ambiguity"
    paged,     \* history: the present ambiguity was paged by a change that committed
    raced,     \* history: a change committed without knowing all memberships
    changes

cohortVars == <<worker, at, adds, removes, seen, pages, paged, raced, changes>>
vars == <<provisioningVars, cohortVars>>

rest == <<rows, carries, direct, migration, begun, provisioned, worker>>

Stages == {"idle", "changed", "read", "alerted", "doomed"}

Ambiguous(g) == \E one, other \in g : one # other

\* _mcp_group_pks
McpGroups(a) == {p.group : p \in Entries(worker[a])} \cap rows

Goto(a, place) == at' = [at EXCEPT ![a] = place]

\* What the admin's transaction reads: READ COMMITTED, and its own writes
Visible(a) == (member \ removes[a]) \cup adds[a]

\* The profile groups it adds
Gains(a) == adds[a] \cap McpGroups(a)

Init ==
    /\ ProvisioningInit
    /\ worker \in [Admins -> Bootable]
    /\ at      = [a \in Admins |-> "idle"]
    /\ adds    = [a \in Admins |-> {}]
    /\ removes = [a \in Admins |-> {}]
    /\ seen    = [a \in Admins |-> {}]
    /\ pages   = [a \in Admins |-> {}]
    /\ paged   = FALSE
    /\ raced   = FALSE
    /\ changes = 0

-----------------------------------------------------------------------------

\* user.groups.set(), add() and remove(), or the same from the group's side:
\* the removals first, then the groups the user lacks.
ChangeGroups(a) ==
    /\ at[a] = "idle"
    /\ changes < MaxChanges
    /\ changes' = changes + 1
    /\ \E g \in SUBSET rows, r \in SUBSET member :
          /\ g \cup r # {}
          /\ adds'    = [adds EXCEPT ![a] = g \ (member \ r)]
          /\ removes' = [removes EXCEPT ![a] = r]
    /\ Goto(a, "changed")
    /\ UNCHANGED <<rest, member, seen, pages, paged, raced>>

\* Nothing was added, and the receiver has nothing to say.
NoGain(a) ==
    /\ at[a] = "changed"
    /\ Gains(a) = {}
    /\ seen' = [seen EXCEPT ![a] = Visible(a) \cap McpGroups(a)]
    /\ Goto(a, "alerted")
    /\ UNCHANGED <<rest, member, adds, removes, pages, paged, raced, changes>>

\* _mcp_memberships
ReadMemberships(a) ==
    /\ at[a] = "changed"
    /\ Gains(a) # {}
    /\ seen' = [seen EXCEPT ![a] = Visible(a) \cap McpGroups(a)]
    /\ Goto(a, "read")
    /\ UNCHANGED <<rest, member, adds, removes, pages, paged, raced, changes>>

\* Mutant: an unreadable membership is not paged.
ReadFailsSilent(a) ==
    /\ at[a] = "changed"
    /\ Gains(a) # {}
    /\ Goto(a, "alerted")
    /\ UNCHANGED <<rest, member, adds, removes, seen, pages, paged, raced, changes>>

\* Mutant: the placeholder is taken for a membership.
ReadFailsPlaceholder(a) ==
    /\ at[a] = "changed"
    /\ Gains(a) # {}
    /\ seen' = [seen EXCEPT ![a] = {"?"}]
    /\ Goto(a, "read")
    /\ UNCHANGED <<rest, member, adds, removes, pages, paged, raced, changes>>

\* Its query fails: [] stands for the profiles, the gain is paged with "?",
\* and PostgreSQL will not commit the transaction any more.
ReadFails(a) ==
    /\ at[a] = "changed"
    /\ Gains(a) # {}
    /\ pages' = [pages EXCEPT ![a] = {"gained"}]
    /\ Goto(a, "doomed")
    /\ UNCHANGED <<rest, member, adds, removes, seen, paged, raced, changes>>

\* Mutant: two profiles are not yet an ambiguity.
AlertAtThree(a) ==
    /\ at[a] = "read"
    /\ pages' = [pages EXCEPT ![a] =
                   {"gained"} \cup IF Cardinality(seen[a]) > 2 THEN {"ambiguity"} ELSE {}]
    /\ Goto(a, "alerted")
    /\ UNCHANGED <<rest, member, adds, removes, seen, paged, raced, changes>>

\* _alert_mcp_group_grant
Alert(a) ==
    /\ at[a] = "read"
    /\ pages' = [pages EXCEPT ![a] =
                   {"gained"} \cup IF Ambiguous(seen[a]) THEN {"ambiguity"} ELSE {}]
    /\ Goto(a, "alerted")
    /\ UNCHANGED <<rest, member, adds, removes, seen, paged, raced, changes>>

Close(a) ==
    /\ adds'    = [adds EXCEPT ![a] = {}]
    /\ removes' = [removes EXCEPT ![a] = {}]
    /\ seen'    = [seen EXCEPT ![a] = {}]
    /\ pages'   = [pages EXCEPT ![a] = {}]
    /\ Goto(a, "idle")

Commit(a) ==
    /\ at[a] = "alerted"
    /\ member' = Visible(a)
    /\ paged'  = (Ambiguous(member') /\ (paged \/ "ambiguity" \in pages[a]))
    /\ raced'  = (Ambiguous(member') /\ (raced \/ seen[a] # member'))
    /\ Close(a)
    /\ UNCHANGED <<rest, changes>>

\* The request failed later, or its transaction was doomed.
Rollback(a) ==
    /\ at[a] # "idle"
    /\ Close(a)
    /\ UNCHANGED <<rest, member, paged, raced, changes>>

Change ==
    /\ changes < MaxChanges
    /\ changes' = changes + 1
    /\ UNCHANGED <<carries, member, migration, begun, provisioned, at, adds, removes, seen,
                   pages, paged, raced>>

\* user_permissions.add and remove: no receiver hears of them.
GrantDirectly(c) ==
    /\ Change
    /\ direct' \in {direct \cup {c}, direct \ {c}}
    /\ UNCHANGED <<rows, worker>>

Restart(a) ==
    /\ Change
    /\ at[a] = "idle"
    /\ \E release \in Bootable : worker' = [worker EXCEPT ![a] = release]
    /\ UNCHANGED <<rows, direct>>

Migrate ==
    /\ Provision
    /\ changes' = IF migration.at = "none" THEN changes + 1 ELSE changes
    /\ changes' <= MaxChanges
    /\ UNCHANGED <<worker, at, adds, removes, seen, pages, paged, raced>>

Quiet ==
    /\ changes = MaxChanges
    /\ migration.at = "none"
    /\ \A a \in Admins : at[a] = "idle"
    /\ UNCHANGED vars

Next ==
    \/ \E a \in Admins : \/ ChangeGroups(a) \/ NoGain(a)    \/ ReadMemberships(a)
                         \/ ReadFails(a)    \/ Alert(a)     \/ Commit(a) \/ Rollback(a)
    \/ Migrate
    \/ \E c \in Codenames \ Reserved : GrantDirectly(c)
    \/ \E a \in Admins : Restart(a)
    \/ Quiet

Spec == Init /\ [][Next]_vars

-----------------------------------------------------------------------------
(* Properties *)

\* Every variable has its type.
TypeOK ==
    /\ ProvisioningTypeOK
    /\ worker  \in [Admins -> Bootable]
    /\ at      \in [Admins -> Stages]
    /\ adds    \in [Admins -> SUBSET rows]
    /\ removes \in [Admins -> SUBSET Groups]
    /\ seen    \in [Admins -> SUBSET Groups]
    /\ pages   \in [Admins -> SUBSET {"gained", "ambiguity"}]
    /\ paged   \in BOOLEAN
    /\ raced   \in BOOLEAN
    /\ changes \in Nat

\* Nobody gains an MCP group unpaged: whoever commits a membership the user did
\* not have of a group its release names has sent the page, whatever other admins
\* and a migrate do at the same time, and although the group may carry nothing yet.
NoSilentGain ==
    [][\A a \in Admins :
         /\ at[a] # "idle" /\ at'[a] = "idle"
         /\ \A b \in Admins \ {a} : at'[b] = at[b]
         /\ \E p \in Entries(worker[a]) : p.group \in member' \ member
         => "gained" \in pages[a]]_vars

\* An ambiguity nobody was paged about is one of transactions that overlapped, or
\* of a worker of another release: some change was committed on memberships that
\* were not all of the present ones.
UnpagedOnlyByRace == Ambiguous(member) /\ ~paged => raced

-----------------------------------------------------------------------------
(* What the repository says and the code does not do *)

\* "ambiguity page when the addition leaves the user in >1 MCP profile
\* group" (signals.py:357): a user who is in two was paged about.
AmbiguityPaged == Ambiguous(member) => paged
=============================================================================
