---------------------------- MODULE MemberRoster ---------------------------
(***************************************************************************)
(* The guild's members in the database.  A bot process fetches the whole   *)
(* guild when it becomes ready, when a member changes and every five       *)
(* minutes, and then writes what it fetched in three statements: accounts, *)
(* payslip roles and administrators.  A sync that finds another running in *)
(* its process gives up.  During a deployment two processes do so, each    *)
(* with what it fetched.                                                   *)
(***************************************************************************)
EXTENDS Integers, FiniteSets

CONSTANTS
  People,          \* who may be in the guild
  Processes,       \* announcing bot processes
  Kinds,           \* the role sets a person may hold there
  MaxChanges,      \* bound on the changes of the guild
  MaxRosterFaults  \* bound on failed syncs and restarts

VARIABLES
  guild,        \* each person's roles, or Gone
  accounts,     \* the members table
  sync,         \* each process's syncGuildMembers, with the roster it fetched
  changes, rosterFaults
rosterVars == <<guild, accounts, sync, changes, rosterFaults>>

Gone == {"gone"}
Unsynced == [pc |-> "free"]
NoRole == "none"

\* DISCORD_MEMBER_ROLE_IDS and DISCORD_ADMIN_IDS.
IsPlayer(roles) == "SOT CR" \in roles
IsAdministrator(roles) == "admin" \in roles

\* selectedMemberRole: Guest, the more specific one, goes first.
SelectedMemberRole(roles) ==
  CASE "SOT CR Guest" \in roles -> "SOT CR Guest"
    [] "SOT CR Guest" \notin roles /\ "SOT CR" \in roles -> "SOT CR"
    [] OTHER -> NoRole

\* The two lists of roles are configured apart: an administrator may hold no member
\* role, and then no sync creates an account for him.
ASSUME RosterAssumption == {MaxChanges, MaxRosterFaults} \subseteq Nat

RosterInit ==
  /\ guild \in [People -> Kinds]
  /\ accounts = [x \in People |-> [known |-> FALSE, role |-> NoRole, admin |-> FALSE]]
  /\ sync = [p \in Processes |-> Unsynced]
  /\ changes = 0 /\ rosterFaults = 0

RosterFault == rosterFaults < MaxRosterFaults /\ rosterFaults' = rosterFaults + 1

Working(p, pc, roster) == sync' = [sync EXCEPT ![p] = [pc |-> pc, roster |-> roster]]
Unlock(p) == sync' = [sync EXCEPT ![p] = Unsynced]

-----------------------------------------------------------------------------
\* Somebody joins, leaves, or is given or loses a role.
ChangeGuild(x, roles) ==
  /\ changes < MaxChanges
  /\ roles # guild[x]
  /\ guild' = [guild EXCEPT ![x] = roles]
  /\ changes' = changes + 1
  /\ UNCHANGED <<accounts, sync, rosterFaults>>

\* A member event, a gateway that becomes ready, or the five minutes of
\* runMemberRoleSync.  TryLock drops one that finds a sync of its process
\* running, and a disconnected gateway loses events: no sync is begun for them.
Begin(p) ==
  /\ sync[p] = Unsynced
  /\ sync' = [sync EXCEPT ![p] = [pc |-> "fetching"]]
  /\ UNCHANGED <<guild, accounts, changes, rosterFaults>>

FetchGuildMembers(p) ==
  /\ sync[p].pc = "fetching"
  /\ Working(p, "fetched", guild)
  /\ UNCHANGED <<guild, accounts, changes, rosterFaults>>

\* Accounts are created for those who hold a member role, and never removed.
UpsertGuildMembers(p) ==
  /\ sync[p].pc = "fetched"
  /\ accounts' = [x \in People |->
                    [accounts[x] EXCEPT !.known = @ \/ IsPlayer(sync[p].roster[x])]]
  /\ Working(p, "upserted", sync[p].roster)
  /\ UNCHANGED <<guild, changes, rosterFaults>>

\* Fault: only the accounts found in the guild are reconciled.
SyncRolesOfFetched(p) ==
  /\ sync[p].pc = "upserted"
  /\ accounts' = [x \in People |->
                    IF accounts[x].known /\ sync[p].roster[x] # Gone
                    THEN [accounts[x] EXCEPT !.role = SelectedMemberRole(sync[p].roster[x])]
                    ELSE accounts[x]]
  /\ Working(p, "reconciled", sync[p].roster)
  /\ UNCHANGED <<guild, changes, rosterFaults>>

\* Every account is reconciled: one that left the guild has no role.
SyncRoles(p) ==
  /\ sync[p].pc = "upserted"
  /\ accounts' = [x \in People |->
                    IF accounts[x].known
                    THEN [accounts[x] EXCEPT !.role = SelectedMemberRole(sync[p].roster[x])]
                    ELSE accounts[x]]
  /\ Working(p, "reconciled", sync[p].roster)
  /\ UNCHANGED <<guild, changes, rosterFaults>>

Administrators(roster) == {x \in People : IsAdministrator(roster[x])}

\* Fault: an empty list of administrators is synced like any other.
SyncAdminsAlways(p) ==
  /\ sync[p].pc = "reconciled"
  /\ accounts' = [x \in People |->
                    [accounts[x] EXCEPT !.admin = accounts[x].known /\ x \in Administrators(sync[p].roster)]]
  /\ Unlock(p)
  /\ UNCHANGED <<guild, changes, rosterFaults>>

\* An empty list is never an instruction to demote everyone.
SyncAdmins(p) ==
  /\ sync[p].pc = "reconciled"
  /\ accounts' = IF Administrators(sync[p].roster) = {} THEN accounts
                 ELSE [x \in People |->
                         [accounts[x] EXCEPT !.admin =
                            accounts[x].known /\ x \in Administrators(sync[p].roster)]]
  /\ Unlock(p)
  /\ UNCHANGED <<guild, changes, rosterFaults>>

\* A call to Discord or a statement fails, or the process is replaced: what
\* was written before stays.
SyncFails(p) ==
  /\ sync[p] # Unsynced
  /\ RosterFault
  /\ Unlock(p)
  /\ UNCHANGED <<guild, accounts, changes>>

SyncStep(p) == FetchGuildMembers(p) \/ UpsertGuildMembers(p) \/ SyncRoles(p) \/ SyncAdmins(p)

RosterNext ==
  \/ \E x \in People, roles \in Kinds \cup {Gone} : ChangeGuild(x, roles)
  \/ \E p \in Processes : Begin(p) \/ SyncStep(p) \/ SyncFails(p)

\* The ticker goes off again and again, and a sync goes on.
RosterFairness ==
  \A p \in Processes : WF_rosterVars(Begin(p)) /\ WF_rosterVars(SyncStep(p))

RosterSpec == RosterInit /\ [][RosterNext]_rosterVars /\ RosterFairness

-----------------------------------------------------------------------------
\* Whom monthlyPayslips makes a payslip for.
OnPayslip(x) == accounts[x].known /\ accounts[x].role \in {"SOT CR", "SOT CR Guest"}

Reconciled ==
  \A x \in People :
    /\ IsPlayer(guild[x]) => accounts[x].known
    /\ accounts[x].known =>
         /\ accounts[x].role = SelectedMemberRole(guild[x])
         /\ OnPayslip(x) <=> {"SOT CR", "SOT CR Guest"} \cap guild[x] # {}
    /\ Administrators(guild) # {} =>
         (accounts[x].admin <=> accounts[x].known /\ IsAdministrator(guild[x]))

(***************************************************************************)
(* Once the guild stops changing, the accounts, the payslip roles and the  *)
(* administrators become those of the guild and stay so, whatever events   *)
(* were dropped or lost and however late an older roster was written: the  *)
(* five minute sync repairs it (runMemberRoleSync, syncGuildMembers).      *)
(***************************************************************************)
RosterConverges == <>[]Reconciled

(***************************************************************************)
(* A sync takes the last administrator away in one case only: the roster   *)
(* it fetched names administrators, and none of them holds a member role,  *)
(* so that no account need exist for any.  A roster without administrators *)
(* ("An empty list is never an instruction to demote everyone"), one that  *)
(* names a member, and whatever another process wrote in between leave     *)
(* the admin-only pages to somebody (syncGuildMembers).                    *)
(***************************************************************************)
HasAdministrator == \E x \in People : accounts[x].admin
NamesStrangersOnly(roster) ==
  /\ Administrators(roster) # {}
  /\ \A x \in Administrators(roster) : ~IsPlayer(roster[x])
AdministratorsRemain ==
  [][HasAdministrator /\ ~HasAdministrator' =>
       \E p \in Processes : SyncAdmins(p) /\ NamesStrangersOnly(sync[p].roster)]_rosterVars
=============================================================================
