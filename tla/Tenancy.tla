------------------------------- MODULE Tenancy -------------------------------
(***************************************************************************)
(* Organisations, projects, agents, sessions, events and tasks: the        *)
(* handlers of internal/router/router.go and org_handlers.go over the      *)
(* repositories and the foreign keys of migrations/000001_init_schema.     *)
(*                                                                         *)
(* Rows form a tree below the user who owns the organisation.  A handler   *)
(* first asks permissions.go whether the caller is a member of the         *)
(* organisation above the row and then sends its statement: the caller, or *)
(* the row, may be deleted between the two.  Row ids are UUIDs and are     *)
(* never used again.  A request carries the claims of its token and is     *)
(* served after its user's row is gone.                                    *)
(***************************************************************************)
EXTENDS FiniteSets, Naturals

CONSTANTS
    Users,          \* accounts
    Admins,         \* users whose token says admin, which nobody compares with the row
    Rows,           \* ids of the rows below an account
    Kind,           \* the table each row id belongs to
    NoRow           \* NULL

ASSUME TenancyAssumption ==
    /\ Kind \in [Rows -> { "org", "project", "agent", "session", "event", "task" }]
    /\ NoRow \notin Rows \cup Users
    /\ Users \cap Rows = {} /\ Admins \subseteq Users

VARIABLES
    accounts,       \* the users table
    row,            \* [Rows -> "free", "live" or "gone"]
    parent,         \* [Rows -> the row or account a row hangs below]
    agentOf,        \* sessions.agent_id
    userOf,         \* user_id of sessions and tasks, owner_id of organisations
    members,        \* organization_members
    status,         \* status of sessions and tasks
    call,           \* [Users -> the request of that user past its check]
    writer,         \* history: who wrote a row last
    shown           \* history: <<reader, owner of what was read>>

tenancyVars == <<accounts, row, parent, agentOf, userOf, members, status, call,
                 writer, shown>>

NoCall == [op |-> "none"]
Live(r) == row[r] = "live"

\* The organisation a row belongs to; parent links are never updated.
OrgOf(r) ==
    CASE Kind[r] = "org" -> r
      [] Kind[r] = "project" -> parent[r]
      [] Kind[r] \in { "agent", "session", "task" } -> parent[parent[r]]
      [] Kind[r] = "event" -> parent[parent[parent[r]]]

\* The rows a DELETE takes with it (ON DELETE CASCADE).
Below(x) ==
    LET Child(S) == { r \in Rows : Live(r) /\ parent[r] \in S }
        L1 == Child({ x })   L2 == Child(L1)   L3 == Child(L2)   L4 == Child(L3)
    IN  L1 \cup L2 \cup L3 \cup L4

IsOwner(o, u) == Live(o) /\ parent[o] = u
IsMember(o, u) == IsOwner(o, u) \/ <<o, u>> \in members

TenancyInit ==
    /\ accounts = Users
    /\ row = [r \in Rows |-> "free"]
    /\ parent = [r \in Rows |-> NoRow]
    /\ agentOf = [r \in Rows |-> NoRow]
    /\ userOf = [r \in Rows |-> NoRow]
    /\ members = {}
    /\ status = [r \in Rows |-> "none"]
    /\ call = [u \in Users |-> NoCall]
    /\ writer = [r \in Rows |-> NoRow]
    /\ shown = {}

(* Mutants *)

\* requireSessionMember returns the session without asking for its organisation.
RequireMemberMissing(u, r) == Live(r)

------------------------------------------------------------------------------

(***************************************************************************)
(* permissions.go: the lookups climb from the row to its organisation.     *)
(***************************************************************************)
RequireMember(u, r) == Live(r) /\ IsMember(OrgOf(r), u)
RequireOwner(u, o) == IsOwner(o, u)

\* What each handler that takes a row checks before its statement.
Permits(u, op, r) ==
    CASE op \in { "updateOrg", "deleteOrg" } -> Kind[r] = "org" /\ RequireOwner(u, r)
      [] op \in { "createProject", "listProjects", "analytics", "dashboard", "costs", "invite" } ->
            Kind[r] = "org" /\ RequireMember(u, r)
      [] op \in { "updateProject", "deleteProject", "createAgent", "createTask", "listAgents" } ->
            Kind[r] = "project" /\ RequireMember(u, r)
      [] op \in { "updateAgent", "deleteAgent", "createSession", "listSessions" } ->
            Kind[r] = "agent" /\ RequireMember(u, r)
      [] op \in { "updateSession", "createEvent" } ->
            Kind[r] = "session" /\ RequireMember(u, r)

Ops == { "updateOrg", "deleteOrg", "createProject", "updateProject", "deleteProject",
         "createAgent", "createTask", "updateAgent", "deleteAgent", "createSession",
         "updateSession", "createEvent", "listProjects", "listAgents", "listSessions",
         "analytics", "dashboard", "costs", "invite" }

\* A request passes its check; createSession keeps the agent's project.
Authorize(u, op, r) ==
    /\ call[u] = NoCall /\ Permits(u, op, r)
    /\ call' = [call EXCEPT ![u] =
                   [op |-> op, on |-> r,
                    project |-> IF Kind[r] = "agent" THEN parent[r] ELSE NoRow]]
    /\ UNCHANGED <<accounts, row, parent, agentOf, userOf, members, status, writer, shown>>

Finish(u) == call' = [call EXCEPT ![u] = NoCall]

\* An INSERT of a row of kind k below `above`: refused by a foreign key when
\* `above` or the user it names is gone.
Insert(u, r, k, above, namesUser) ==
    /\ Kind[r] = k /\ row[r] = "free"
    /\ \/ /\ IF above \in Users THEN above \in accounts ELSE Live(above)
          /\ ~namesUser \/ u \in accounts
          /\ row' = [row EXCEPT ![r] = "live"]
          /\ parent' = [parent EXCEPT ![r] = above]
          /\ userOf' = [userOf EXCEPT ![r] = IF namesUser THEN u ELSE NoRow]
          /\ writer' = [writer EXCEPT ![r] = u]
       \/ UNCHANGED <<row, parent, userOf, writer>>   \* refused, or the database fails

\* A DELETE or UPDATE by id of a row that may be gone by now.
DeleteRow(r) ==
    row' = IF Live(r) THEN [x \in Rows |-> IF x \in { r } \cup Below(r) THEN "gone" ELSE row[x]]
                      ELSE row

UpdateRow(u, r) ==
    writer' = [writer EXCEPT ![r] = IF Live(r) THEN u ELSE @]

------------------------------------------------------------------------------

\* createOrgHandler: INSERT of the organisation ...
CreateOrg(u, o) ==
    /\ call[u] = NoCall
    /\ Insert(u, o, "org", u, TRUE)
    /\ call' = [call EXCEPT ![u] = IF row'[o] = "live" THEN [op |-> "addOwner", on |-> o] ELSE NoCall]
    /\ UNCHANGED <<accounts, agentOf, members, status, shown>>

\* ... and AddMember in a statement of its own, whose failure is logged.
AddMember(u) ==
    /\ call[u].op = "addOwner"
    /\ \/ /\ Live(call[u].on) /\ u \in accounts
          /\ members' = members \cup { <<call[u].on, u>> }
       \/ UNCHANGED members
    /\ Finish(u)
    /\ UNCHANGED <<accounts, row, parent, agentOf, userOf, status, writer, shown>>

UpdateOrg(u) ==
    /\ call[u].op = "updateOrg" /\ UpdateRow(u, call[u].on) /\ Finish(u)
    /\ UNCHANGED <<accounts, row, parent, agentOf, userOf, members, status, shown>>

DeleteOrg(u) ==
    /\ call[u].op = "deleteOrg" /\ DeleteRow(call[u].on) /\ Finish(u)
    /\ members' = { m \in members : m[1] # call[u].on }
    /\ UNCHANGED <<accounts, parent, agentOf, userOf, status, writer, shown>>

CreateProject(u, p) ==
    /\ call[u].op = "createProject" /\ Insert(u, p, "project", call[u].on, FALSE) /\ Finish(u)
    /\ UNCHANGED <<accounts, agentOf, members, status, shown>>

UpdateProject(u) ==
    /\ call[u].op = "updateProject" /\ UpdateRow(u, call[u].on) /\ Finish(u)
    /\ UNCHANGED <<accounts, row, parent, agentOf, userOf, members, status, shown>>

DeleteProject(u) ==
    /\ call[u].op = "deleteProject" /\ DeleteRow(call[u].on) /\ Finish(u)
    /\ UNCHANGED <<accounts, parent, agentOf, userOf, members, status, writer, shown>>

CreateAgent(u, a) ==
    /\ call[u].op = "createAgent" /\ Insert(u, a, "agent", call[u].on, FALSE) /\ Finish(u)
    /\ UNCHANGED <<accounts, agentOf, members, status, shown>>

UpdateAgent(u) ==
    /\ call[u].op = "updateAgent" /\ UpdateRow(u, call[u].on) /\ Finish(u)
    /\ UNCHANGED <<accounts, row, parent, agentOf, userOf, members, status, shown>>

\* sessions.agent_id is ON DELETE SET NULL.
DeleteAgent(u) ==
    /\ call[u].op = "deleteAgent" /\ DeleteRow(call[u].on) /\ Finish(u)
    /\ agentOf' = [s \in Rows |-> IF agentOf[s] = call[u].on THEN NoRow ELSE agentOf[s]]
    /\ UNCHANGED <<accounts, parent, userOf, members, status, writer, shown>>

\* The session goes below the project the agent had when it was checked.
CreateSession(u, s) ==
    /\ call[u].op = "createSession"
    /\ Insert(u, s, "session", call[u].project, TRUE)
    /\ Live(call[u].on) \/ row' = row
    /\ agentOf' = [agentOf EXCEPT ![s] = IF row' # row THEN call[u].on ELSE @]
    /\ status' = [status EXCEPT ![s] = IF row' # row THEN "active" ELSE @]
    /\ Finish(u)
    /\ UNCHANGED <<accounts, members, shown>>

\* Any status may follow any other; "completed" goes through EndSession.
UpdateSession(u, st) ==
    /\ call[u].op = "updateSession"
    /\ UpdateRow(u, call[u].on)
    /\ status' = [status EXCEPT ![call[u].on] = IF Live(call[u].on) THEN st ELSE @]
    /\ Finish(u)
    /\ UNCHANGED <<accounts, row, parent, agentOf, userOf, members, shown>>

\* createEventsHandler and batchEventsHandler, one transaction each.
CreateEvents(u, E) ==
    /\ call[u].op = "createEvent"
    /\ E # {} /\ \A e \in E : Kind[e] = "event" /\ row[e] = "free"
    /\ \/ /\ Live(call[u].on)
          /\ row' = [r \in Rows |-> IF r \in E THEN "live" ELSE row[r]]
          /\ parent' = [r \in Rows |-> IF r \in E THEN call[u].on ELSE parent[r]]
          /\ writer' = [r \in Rows |-> IF r \in E THEN u ELSE writer[r]]
       \/ UNCHANGED <<row, parent, writer>>
    /\ Finish(u)
    /\ UNCHANGED <<accounts, agentOf, userOf, members, status, shown>>

CreateTask(u, t) ==
    /\ call[u].op = "createTask" /\ Insert(u, t, "task", call[u].on, TRUE) /\ Finish(u)
    /\ status' = [status EXCEPT ![t] = IF row' # row THEN "pending" ELSE @]
    /\ UNCHANGED <<accounts, agentOf, members, shown>>

\* The task's goroutine ends; its UPDATE finds the row or not.
TaskEnds(t) ==
    /\ status[t] = "pending"
    /\ status' = [status EXCEPT ![t] = "completed"]
    /\ UNCHANGED <<accounts, row, parent, agentOf, userOf, members, call, writer, shown>>

(***************************************************************************)
(* Reads.  A get answers with the row its check read; a list or a summary  *)
(* answers with the rows its own statement finds after the check.          *)
(***************************************************************************)
Shows(u, S) == shown' = shown \cup { <<u, parent[OrgOf(r)]>> : r \in S }

GetRow(u, r, k) ==
    /\ call[u] = NoCall /\ Kind[r] = k /\ RequireMember(u, r) /\ Shows(u, { r })
    /\ UNCHANGED <<accounts, row, parent, agentOf, userOf, members, status, call, writer>>

GetOrg(u, o) == GetRow(u, o, "org")
GetProject(u, p) == GetRow(u, p, "project")
GetAgent(u, a) == GetRow(u, a, "agent")
GetSession(u, s) == GetRow(u, s, "session")

\* The statements: by org_id, by project_id, by agent_id, and the events, sessions
\* and agents joined to the projects of an organisation.
ProjectsOf(o) == { p \in Rows : Live(p) /\ Kind[p] = "project" /\ parent[p] = o }
AgentsOf(p) == { a \in Rows : Live(a) /\ Kind[a] = "agent" /\ parent[a] = p }
SessionsOf(a) == { s \in Rows : Live(s) /\ Kind[s] = "session" /\ agentOf[s] = a }
ActivityOf(o) ==
    { r \in Rows : Live(r) /\ Kind[r] \in { "event", "session", "agent" } /\ OrgOf(r) = o }

\* ListByUser: owner or member, in one statement.
ListOrgs(u) ==
    /\ call[u] = NoCall
    /\ Shows(u, { o \in Rows : Live(o) /\ Kind[o] = "org" /\ IsMember(o, u) })
    /\ UNCHANGED <<accounts, row, parent, agentOf, userOf, members, status, call, writer>>

ListRows(u, op, S) ==
    /\ call[u].op = op /\ Shows(u, S) /\ Finish(u)
    /\ UNCHANGED <<accounts, row, parent, agentOf, userOf, members, status, writer>>

ListProjects(u) == ListRows(u, "listProjects", ProjectsOf(call[u].on))
ListAgents(u) == ListRows(u, "listAgents", AgentsOf(call[u].on))
ListSessions(u) == ListRows(u, "listSessions", SessionsOf(call[u].on))

Summarise(u) == ListRows(u, "analytics", ActivityOf(call[u].on))

\* The dashboards send several statements, each of which may fail; rows appear and
\* disappear between them.
DashboardStatement(u) ==
    /\ Shows(u, ActivityOf(call[u].on)) \/ UNCHANGED shown
    /\ Finish(u) \/ UNCHANGED call
    /\ UNCHANGED <<accounts, row, parent, agentOf, userOf, members, status, writer>>

Dashboard(u) == call[u].op = "dashboard" /\ DashboardStatement(u)

\* costIntelDashboardHandler; what it adds from the cost engine is of no organisation.
CostIntelDashboard(u) == call[u].op = "costs" /\ DashboardStatement(u)

\* inviteMemberHandler: a token is mailed and announced, and nothing is stored, so
\* nobody becomes a member by it; the organisation may be gone by then.
InviteMember(u) ==
    /\ call[u].op = "invite" /\ Finish(u)
    /\ UNCHANGED <<accounts, row, parent, agentOf, userOf, members, status, writer, shown>>

\* invalidateSessionHandler: the caller's own active session, in one statement.
InvalidateSession(u, s) ==
    /\ Kind[s] = "session" /\ Live(s) /\ status[s] = "active" /\ userOf[s] = u
    /\ status' = [status EXCEPT ![s] = "cancelled"]
    /\ UNCHANGED <<accounts, row, parent, agentOf, userOf, members, call, writer, shown>>

\* CleanupStaleSessions: an idle session whose project has no unfinished task.
CleanupStaleSessions ==
    /\ status' = [s \in Rows |->
            IF /\ Kind[s] = "session" /\ Live(s) /\ status[s] = "active"
               /\ ~\E t \in Rows : /\ Kind[t] = "task" /\ Live(t) /\ status[t] = "pending"
                                   /\ parent[t] = parent[s] /\ userOf[t] = userOf[s]
            THEN "expired" ELSE status[s]]
    /\ UNCHANGED <<accounts, row, parent, agentOf, userOf, members, call, writer, shown>>

\* adminDeleteUserHandler: the claims say admin; not one's own account.
AdminDeleteUser(u, v) ==
    /\ call[u] = NoCall /\ u \in Admins /\ u # v /\ v \in accounts
    /\ accounts' = accounts \ { v }
    /\ row' = [r \in Rows |-> IF r \in Below(v) THEN "gone" ELSE row[r]]
    /\ userOf' = [r \in Rows |-> IF userOf[r] = v THEN NoRow ELSE userOf[r]]
    /\ members' = { m \in members : m[2] # v /\ row'[m[1]] = "live" }
    /\ UNCHANGED <<parent, agentOf, status, call, writer, shown>>

Handlers(u) ==
    \/ \E op \in Ops, r \in Rows : Authorize(u, op, r)
    \/ \E r \in Rows : \/ CreateOrg(u, r) \/ CreateProject(u, r) \/ CreateAgent(u, r)
                       \/ CreateSession(u, r) \/ CreateTask(u, r) \/ InvalidateSession(u, r)
    \/ \E E \in SUBSET { r \in Rows : Kind[r] = "event" } : CreateEvents(u, E)
    \/ AddMember(u) \/ UpdateOrg(u) \/ DeleteOrg(u) \/ UpdateProject(u) \/ DeleteProject(u)
    \/ UpdateAgent(u) \/ DeleteAgent(u) \/ InviteMember(u)
    \/ ListOrgs(u) \/ ListProjects(u) \/ ListAgents(u) \/ ListSessions(u) \/ Summarise(u)
    \/ Dashboard(u) \/ CostIntelDashboard(u)
    \/ \E r \in Rows : GetOrg(u, r) \/ GetProject(u, r) \/ GetAgent(u, r) \/ GetSession(u, r)
    \/ \E st \in { "active", "completed" } : UpdateSession(u, st)
    \/ \E v \in Users : AdminDeleteUser(u, v)

TenancyNext ==
    \/ \E u \in Users : Handlers(u)
    \/ \E t \in Rows : TaskEnds(t)
    \/ CleanupStaleSessions

TenancySpec == TenancyInit /\ [][TenancyNext]_tenancyVars

------------------------------------------------------------------------------

(***************************************************************************)
(* permissions.go with the foreign keys of 000001_init_schema.up.sql.      *)
(* However requests overlap with the deletion of rows and accounts: every  *)
(* live row was last written by the owner of its organisation, and nobody  *)
(* was answered with another owner's rows; a live row hangs below live     *)
(* rows only; and a session's agent is in the session's own project,       *)
(* although the two are read and written in different statements.          *)
(***************************************************************************)
TenantIsolation ==
    /\ \A r \in Rows : Live(r) =>
          /\ parent[OrgOf(r)] = writer[r]
          /\ IF Kind[r] = "org" THEN parent[r] \in accounts ELSE Live(parent[r])
    /\ \A x \in shown : x[1] = x[2]
    /\ \A s \in Rows : Live(s) /\ agentOf[s] # NoRow =>
          Live(agentOf[s]) /\ parent[agentOf[s]] = parent[s]
    /\ \A m \in members : Live(m[1]) /\ m[2] \in accounts
==============================================================================
