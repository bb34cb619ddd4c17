--------------------------- MODULE Access_proofs ----------------------------
(***************************************************************************)
(* Who may do what, and who is shown what: tenants (Tenancy), credentials  *)
(* (Accounts), walks of a list (Listing), for any number of users, rows,   *)
(* requests, tokens and keys.                                              *)
(***************************************************************************)
EXTENDS Tenancy, Accounts, Listing, FiniteSetTheorems, SequenceTheorems, TLAPS

-----------------------------------------------------------------------------
(***************************************************************************)
(* Tenants.  The argument is about who owns the organisation above a row:  *)
(* parent links of rows that exist never change, so the owner a request    *)
(* was checked against is still the owner when its statement comes,        *)
(* although the row may be gone by then.                                   *)
(***************************************************************************)


Known(r) == row[r] # "free"
Owner(r) == parent[OrgOf(r)]

\* The table a foreign key refers to, and the table each request names a row of.
AboveKind(k) == CASE k = "project" -> "org" [] k = "event" -> "session" [] OTHER -> "project"

OrgOps == { "addOwner", "updateOrg", "deleteOrg", "createProject", "listProjects",
            "analytics", "dashboard", "costs", "invite" }
ProjectOps == { "updateProject", "deleteProject", "createAgent", "createTask", "listAgents" }
AgentOps == { "updateAgent", "deleteAgent", "createSession", "listSessions" }
SessionOps == { "updateSession", "createEvent" }

TenancyTypeOK ==
    /\ accounts \subseteq Users
    /\ row \in [Rows -> { "free", "live", "gone" }]
    /\ parent \in [Rows -> Rows \cup Users \cup { NoRow }]
    /\ agentOf \in [Rows -> Rows \cup { NoRow }]
    /\ writer \in [Rows -> Users \cup { NoRow }]
    /\ members \subseteq Rows \X Users
    /\ DOMAIN call = Users /\ call = [u \in Users |-> call[u]]

\* Foreign keys name rows of the right table that exist or existed.
Linked ==
    \A r \in Rows : Known(r) =>
        IF Kind[r] = "org" THEN parent[r] \in Users
        ELSE parent[r] \in Rows /\ Known(parent[r]) /\ Kind[parent[r]] = AboveKind(Kind[r])

\* What a live row hangs below is live.
Supported ==
    \A r \in Rows : Live(r) =>
        IF Kind[r] = "org" THEN parent[r] \in accounts ELSE Live(parent[r])

WrittenByOwner == \A r \in Rows : Known(r) => writer[r] = Owner(r)

AgentInProject ==
    \A s \in Rows : agentOf[s] # NoRow =>
        /\ Known(s) /\ Kind[agentOf[s]] = "agent"
        /\ Live(s) => Live(agentOf[s]) /\ parent[agentOf[s]] = parent[s]

\* Nobody but its owner is a member of an organisation.
OwnersAreMembers ==
    \A m \in members :
        /\ Live(m[1]) /\ Kind[m[1]] = "org"
        /\ m[2] \in accounts /\ parent[m[1]] = m[2]

\* A request past its check names a row, of the table it is about, whose
\* organisation its user owns.
CallOwned(u) ==
    call[u].op # "none" =>
        /\ call[u].on \in Rows /\ Known(call[u].on) /\ Owner(call[u].on) = u
        /\ call[u].op \in OrgOps => Kind[call[u].on] = "org"
        /\ call[u].op \in ProjectOps => Kind[call[u].on] = "project"
        /\ call[u].op \in AgentOps => Kind[call[u].on] = "agent"
        /\ call[u].op \in SessionOps => Kind[call[u].on] = "session"
        /\ call[u].op = "createSession" => call[u].project = parent[call[u].on]

CallsOwned == \A u \in Users : CallOwned(u)

OwnShown == \A x \in shown : x[1] = x[2]

TenancyInv ==
    /\ TenancyTypeOK /\ Linked /\ Supported /\ WrittenByOwner /\ AgentInProject
    /\ OwnersAreMembers /\ CallsOwned /\ OwnShown

-----------------------------------------------------------------------------
(* The tree *)

\* The organisation above a row is a row of its table, and its owner is a user.
LEMMA OwnerExists ==
    ASSUME TenancyTypeOK, Linked, NEW r \in Rows, Known(r)
    PROVE  /\ OrgOf(r) \in Rows /\ Known(OrgOf(r)) /\ Kind[OrgOf(r)] = "org"
           /\ Owner(r) \in Users
<1>1. CASE Kind[r] = "org"
  BY <1>1 DEF OrgOf, Owner, Linked
<1>2. CASE Kind[r] = "project"
  BY <1>2 DEF OrgOf, Owner, Linked, AboveKind
<1>3. CASE Kind[r] \in { "agent", "session", "task" }
  <2>1. parent[r] \in Rows /\ Known(parent[r]) /\ Kind[parent[r]] = "project"
    BY <1>3 DEF Linked, AboveKind
  <2> QED
    BY <1>3, <2>1 DEF OrgOf, Owner, Linked, AboveKind
<1>4. CASE Kind[r] = "event"
  <2>1. parent[r] \in Rows /\ Known(parent[r]) /\ Kind[parent[r]] = "session"
    BY <1>4 DEF Linked, AboveKind
  <2>2. parent[parent[r]] \in Rows /\ Known(parent[parent[r]]) /\ Kind[parent[parent[r]]] = "project"
    BY <2>1 DEF Linked, AboveKind
  <2> QED
    BY <1>4, <2>2 DEF OrgOf, Owner, Linked, AboveKind
<1> QED
  BY <1>1, <1>2, <1>3, <1>4, TenancyAssumption

\* A row has the owner of what it hangs below.
LEMMA OwnerOfParent ==
    ASSUME TenancyTypeOK, Linked, NEW r \in Rows, Known(r), Kind[r] # "org"
    PROVE  Owner(r) = Owner(parent[r])
<1>1. CASE Kind[r] = "project"
  BY <1>1 DEF OrgOf, Owner, Linked, AboveKind
<1>2. CASE Kind[r] \in { "agent", "session", "task" }
  <2>1. parent[r] \in Rows /\ Kind[parent[r]] = "project"
    BY <1>2 DEF Linked, AboveKind
  <2> QED
    BY <1>2, <2>1 DEF OrgOf, Owner
<1>3. CASE Kind[r] = "event"
  <2>1. parent[r] \in Rows /\ Kind[parent[r]] = "session"
    BY <1>3 DEF Linked, AboveKind
  <2> QED
    BY <1>3, <2>1 DEF OrgOf, Owner
<1> QED
  BY <1>1, <1>2, <1>3, TenancyAssumption

\* Rows that exist keep their organisation and its owner, whatever is inserted.
LEMMA OwnerStays ==
    ASSUME TenancyTypeOK, Linked,
           \A x \in Rows : Known(x) => parent'[x] = parent[x],
           NEW r \in Rows, Known(r)
    PROVE  OrgOf(r)' = OrgOf(r) /\ Owner(r)' = Owner(r)
<1>0. Known(OrgOf(r)) /\ OrgOf(r) \in Rows
  BY OwnerExists
<1>1. OrgOf(r)' = OrgOf(r)
  <2>1. CASE Kind[r] \in { "org", "project" }
    BY <2>1 DEF OrgOf
  <2>2. CASE Kind[r] \in { "agent", "session", "task" }
    <3>1. parent[r] \in Rows /\ Known(parent[r])
      BY <2>2 DEF Linked
    <3> QED
      BY <2>2, <3>1 DEF OrgOf
  <2>3. CASE Kind[r] = "event"
    <3>1. parent[r] \in Rows /\ Known(parent[r]) /\ Kind[parent[r]] = "session"
      BY <2>3 DEF Linked, AboveKind
    <3>2. parent[parent[r]] \in Rows /\ Known(parent[parent[r]])
      BY <3>1 DEF Linked
    <3> QED
      BY <2>3, <3>1, <3>2 DEF OrgOf
  <2> QED
    BY <2>1, <2>2, <2>3, TenancyAssumption
<1> QED
  BY <1>0, <1>1 DEF Owner

\* permissions.go: a member of the organisation above a row is its owner.
LEMMA MemberOwns ==
    ASSUME TenancyInv, NEW u \in Users, NEW r \in Rows, RequireMember(u, r)
    PROVE  Known(r) /\ Owner(r) = u
<1>1. Known(r) /\ IsMember(OrgOf(r), u)
  BY DEF RequireMember, Live, Known
<1>2. CASE IsOwner(OrgOf(r), u)
  BY <1>1, <1>2 DEF IsOwner, Owner
<1>3. CASE <<OrgOf(r), u>> \in members
  BY <1>1, <1>3 DEF OwnersAreMembers, TenancyInv, Owner
<1> QED
  BY <1>1, <1>2, <1>3 DEF IsMember

\* ON DELETE CASCADE goes four levels down, and there are four: what Below finds is
\* closed under "hangs below", and all of it hangs below the row that is deleted.
LEMMA CascadeClosed ==
    ASSUME TenancyTypeOK, Linked, NEW x \in Rows \cup Users
    PROVE  /\ \A r \in Rows : Live(r) /\ parent[r] \in { x } \cup Below(x) => r \in Below(x)
           /\ \A r \in Below(x) : r \in Rows /\ Live(r) /\ parent[r] \in { x } \cup Below(x)
<1> DEFINE Child(S) == { r \in Rows : Live(r) /\ parent[r] \in S }
           L1 == Child({ x })   L2 == Child(L1)   L3 == Child(L2)   L4 == Child(L3)
<1>0. Below(x) = L1 \cup L2 \cup L3 \cup L4
  BY DEF Below
<1>1. \A r \in Rows : Live(r) => Known(r)
  BY DEF Live, Known
<1>2. \A r \in L2 : Kind[r] # "org"
  BY <1>1, TenancyAssumption DEF Linked
<1>3. \A r \in L3 : Kind[r] # "org" /\ Kind[r] # "project"
  <2> SUFFICES ASSUME NEW r \in L3 PROVE Kind[r] # "org" /\ Kind[r] # "project"
    OBVIOUS
  <2>1. Known(r) /\ parent[r] \in Rows /\ Kind[parent[r]] # "org"
    BY <1>1, <1>2
  <2> QED
    BY <2>1, TenancyAssumption DEF Linked, AboveKind
<1>4. \A r \in L4 : Kind[r] = "event"
  <2> SUFFICES ASSUME NEW r \in L4 PROVE Kind[r] = "event"
    OBVIOUS
  <2>1. Known(r) /\ parent[r] \in Rows /\ Kind[parent[r]] # "org" /\ Kind[parent[r]] # "project"
    BY <1>1, <1>3
  <2> QED
    BY <2>1, TenancyAssumption DEF Linked, AboveKind
<1>5. \A r \in Rows : Live(r) => parent[r] \notin L4
  <2> SUFFICES ASSUME NEW r \in Rows, Live(r), parent[r] \in L4 PROVE FALSE
    OBVIOUS
  <2>1. Known(r) /\ parent[r] \in Rows /\ Kind[parent[r]] = "event"
    BY <1>1, <1>4
  <2> QED
    BY <2>1, TenancyAssumption DEF Linked, AboveKind
<1> QED
  BY <1>0, <1>5

\* Deleting a row or an account with what is below it leaves a tree behind, with
\* every session's agent in it.
LEMMA CascadeKeepsTree ==
    ASSUME TenancyInv, NEW x \in Rows \cup Users, x \in Rows => Live(x),
           row' = [r \in Rows |-> IF r \in { x } \cup Below(x) THEN "gone" ELSE row[r]],
           parent' = parent, writer' = writer, accounts' = accounts \ { x },
           agentOf' \in [Rows -> Rows \cup { NoRow }],
           \A s \in Rows : agentOf'[s] # NoRow => agentOf'[s] = agentOf[s] /\ agentOf[s] # x
    PROVE  /\ \A r \in Rows : Live(r)' <=> Live(r) /\ r \notin { x } \cup Below(x)
           /\ \A r \in Rows : Known(r)' <=> Known(r)
           /\ row' \in [Rows -> { "free", "live", "gone" }]
           /\ Linked' /\ Supported' /\ WrittenByOwner' /\ AgentInProject'
<1> DEFINE D == { x } \cup Below(x)
<1> USE DEF TenancyInv
<1>0. /\ \A r \in Rows : Live(r) /\ parent[r] \in D => r \in D
      /\ \A r \in Below(x) : r \in Rows /\ Live(r) /\ parent[r] \in D
  BY CascadeClosed
<1>1. \A r \in Rows : Live(r)' <=> Live(r) /\ r \notin D
  BY DEF Live
<1>2. \A r \in Rows : Known(r)' <=> Known(r)
  <2>1. \A r \in Rows : r \in D => row[r] = "live"
    BY <1>0, TenancyAssumption DEF Live
  <2> QED
    BY <2>1 DEF Known
<1>3. row' \in [Rows -> { "free", "live", "gone" }]
  BY DEF TenancyTypeOK
<1> HIDE DEF D
<1>4. Linked'
  BY <1>2 DEF Linked
<1>5. Supported'
  <2> SUFFICES ASSUME NEW r \in Rows, Live(r)'
               PROVE  IF Kind[r] = "org" THEN parent[r] \in accounts' ELSE Live(parent[r])'
    BY DEF Supported
  <2>1. Live(r) /\ r \notin D /\ Known(r)
    BY <1>1 DEF Live, Known
  <2>2. parent[r] \notin D
    BY <1>0, <2>1
  <2>3. parent[r] # x
    BY <2>2 DEF D
  <2>4. CASE Kind[r] = "org"
    BY <2>1, <2>3, <2>4 DEF Supported
  <2>5. CASE Kind[r] # "org"
    BY <1>1, <2>1, <2>2, <2>5 DEF Supported, Linked
  <2> QED
    BY <2>4, <2>5
<1>6. WrittenByOwner'
  BY <1>2, OwnerStays DEF WrittenByOwner
<1>7. AgentInProject'
  <2> SUFFICES ASSUME NEW s \in Rows, Live(s)', agentOf'[s] # NoRow
               PROVE  (Live(agentOf[s]) /\ parent[agentOf[s]] = parent[s])'
    BY <1>2 DEF AgentInProject
  <2> DEFINE a == agentOf[s]
  <2>1. agentOf'[s] = a /\ a # x /\ a \in Rows /\ a # NoRow
    OBVIOUS
  <2>2. Live(s) /\ s \notin D
    BY <1>1
  <2>3. Live(a) /\ parent[a] = parent[s]
    BY <2>1, <2>2 DEF AgentInProject
  <2>4. parent[s] \notin D
    BY <1>0, <2>2
  <2>5. a \notin Below(x)
    BY <1>0, <2>3, <2>4
  <2>6. a \notin D
    BY <2>1, <2>5 DEF D
  <2> QED
    BY <1>1, <2>1, <2>3, <2>6 DEF Live
<1> QED
  BY <1>1, <1>2, <1>3, <1>4, <1>5, <1>6, <1>7 DEF D
\* An INSERT by the owner below a live row of the right table, or below the owner's
\* own account, extends the tree.
LEMMA InsertKeepsTree ==
    ASSUME TenancyInv, NEW u \in Users, NEW E \in SUBSET Rows, NEW above \in Rows \cup Users,
           \A r \in E : ~Known(r) /\ (Kind[r] = "org" <=> above \in Users),
           \A r \in E : Kind[r] # "org" => Kind[above] = AboveKind(Kind[r]),
           above \in Users => above = u /\ u \in accounts,
           above \in Rows => Live(above) /\ Owner(above) = u,
           row' = [r \in Rows |-> IF r \in E THEN "live" ELSE row[r]],
           parent' = [r \in Rows |-> IF r \in E THEN above ELSE parent[r]],
           writer' = [r \in Rows |-> IF r \in E THEN u ELSE writer[r]],
           accounts' = accounts,
           agentOf' \in [Rows -> Rows \cup { NoRow }],
           \A s \in Rows \ E : agentOf'[s] = agentOf[s],
           \A s \in E : agentOf'[s] # NoRow =>
               Kind[agentOf'[s]] = "agent" /\ Live(agentOf'[s]) /\ parent[agentOf'[s]] = above
    PROVE  /\ \A r \in Rows : Known(r) => Known(r)' /\ parent'[r] = parent[r]
           /\ \A r \in Rows : Live(r) => Live(r)'
           /\ Linked' /\ Supported' /\ WrittenByOwner' /\ AgentInProject'
<1> USE DEF TenancyInv
<1>1. \A r \in Rows : Live(r)' <=> Live(r) \/ r \in E
  BY DEF Live, Known
<1>2. \A r \in Rows : Known(r)' <=> Known(r) \/ r \in E
  BY DEF Known
<1>3. \A r \in Rows : Known(r) => parent'[r] = parent[r] /\ writer'[r] = writer[r]
  OBVIOUS
<1>4. \A r \in Rows : Live(r) => Known(r)
  BY DEF Live, Known
<1>5. \A r \in Rows : r \in E => parent'[r] = above /\ writer'[r] = u /\ ~Known(r)
  OBVIOUS
<1>6. Linked'
  <2> SUFFICES ASSUME NEW r \in Rows, Known(r)'
               PROVE  IF Kind[r] = "org" THEN parent'[r] \in Users
                      ELSE parent'[r] \in Rows /\ Known(parent[r])' /\ Kind[parent'[r]] = AboveKind(Kind[r])
    BY DEF Linked
  <2>1. CASE r \in E
    BY <1>2, <1>4, <1>5, <2>1, TenancyAssumption DEF Known
  <2>2. CASE r \notin E
    BY <1>2, <1>3, <2>2 DEF Linked, Known
  <2> QED
    BY <2>1, <2>2
<1>7. Supported'
  <2> SUFFICES ASSUME NEW r \in Rows, Live(r)'
               PROVE  IF Kind[r] = "org" THEN parent'[r] \in accounts ELSE Live(parent[r])'
    BY DEF Supported
  <2>1. CASE r \in E
    BY <1>1, <1>5, <2>1, TenancyAssumption DEF Live
  <2>2. CASE r \notin E
    <3>1. Live(r) /\ Known(r) /\ parent'[r] = parent[r]
      BY <1>1, <1>3, <1>4, <2>2
    <3> QED
      BY <1>1, <3>1 DEF Supported, Linked, Live
  <2> QED
    BY <2>1, <2>2
<1>8. \A r \in Rows : Known(r) => OrgOf(r)' = OrgOf(r) /\ Owner(r)' = Owner(r)
  BY <1>3, OwnerStays
<1>9. WrittenByOwner'
  <2> SUFFICES ASSUME NEW r \in Rows, Known(r)' PROVE writer'[r] = Owner(r)'
    BY DEF WrittenByOwner
  <2>1. CASE r \notin E
    BY <1>2, <1>3, <1>8, <2>1 DEF WrittenByOwner
  <2>2. CASE r \in E /\ Kind[r] = "org"
    BY <1>5, <2>2, TenancyAssumption DEF Owner, OrgOf
  <2>3. CASE r \in E /\ Kind[r] # "org"
    <3>1. above \in Rows /\ Known(above) /\ Owner(above)' = u /\ parent'[r] = above
      BY <1>4, <1>5, <1>8, <2>3, TenancyAssumption
    <3>2. OrgOf(r)' = OrgOf(above)'
      BY <2>3, <3>1, TenancyAssumption DEF OrgOf, AboveKind
    <3> QED
      BY <1>5, <2>3, <3>1, <3>2 DEF Owner
  <2> QED
    BY <2>1, <2>2, <2>3
<1>10. AgentInProject'
  <2> SUFFICES ASSUME NEW s \in Rows, agentOf'[s] # NoRow
               PROVE  (/\ Known(s) /\ Kind[agentOf[s]] = "agent"
                       /\ Live(s) => Live(agentOf[s]) /\ parent[agentOf[s]] = parent[s])'
    BY DEF AgentInProject
  <2> DEFINE a == agentOf'[s]
  <2>0. a \in Rows
    OBVIOUS
  <2>1. CASE s \in E
    <3>1. Kind[a] = "agent" /\ Live(a) /\ parent[a] = above
      BY <2>1
    <3> QED
      BY <1>1, <1>2, <1>3, <1>4, <1>5, <2>0, <2>1, <3>1 DEF Live
  <2>2. CASE s \notin E
    <3>1. a = agentOf[s] /\ Known(s) /\ Kind[a] = "agent" /\ (Live(s) => Live(a) /\ parent[a] = parent[s])
      BY <2>2 DEF AgentInProject
    <3> QED
      BY <1>1, <1>2, <1>3, <1>4, <2>0, <2>2, <3>1 DEF Live
  <2> QED
    BY <2>1, <2>2
<1> QED
  BY <1>1, <1>2, <1>3, <1>6, <1>7, <1>9, <1>10
-----------------------------------------------------------------------------
(* Requests *)

\* Finish(u), or no change of the requests.
Answers == call' = call \/ \E u \in Users : call' = [call EXCEPT ![u] = NoCall]

\* What was checked of a request stays true of it: rows that exist keep their place.
LEMMA RequestsStay ==
    ASSUME TenancyInv, \A x \in Rows : Known(x) => Known(x)' /\ parent'[x] = parent[x],
           NEW u \in Users, call'[u] = call[u] \/ call'[u] = NoCall
    PROVE  CallOwned(u)'
<1> USE DEF TenancyInv
<1>1. CASE call'[u] = NoCall
  BY <1>1 DEF CallOwned, NoCall
<1>2. CASE call'[u] = call[u]
  <2> SUFFICES ASSUME call[u].op # "none" PROVE CallOwned(u)'
    BY <1>2 DEF CallOwned
  <2>1. CallOwned(u) /\ call[u].on \in Rows /\ Known(call[u].on)
    BY DEF CallsOwned, CallOwned
  <2>2. Owner(call[u].on)' = Owner(call'[u].on)
    BY <1>2, <2>1, OwnerStays
  <2> QED
    BY <1>2, <2>1, <2>2 DEF CallOwned, Known
<1> QED
  BY <1>1, <1>2

LEMMA AnswersStay ==
    ASSUME TenancyInv, \A x \in Rows : Known(x) => Known(x)' /\ parent'[x] = parent[x], Answers
    PROVE  CallsOwned' /\ DOMAIN call' = Users /\ call' = [u \in Users |-> call'[u]]
<1>1. DOMAIN call' = Users /\ call' = [u \in Users |-> call'[u]]
  BY DEF Answers, TenancyInv, TenancyTypeOK
<1>2. \A u \in Users : call'[u] = call[u] \/ call'[u] = NoCall
  BY DEF Answers, TenancyInv, TenancyTypeOK
<1> QED
  BY <1>1, <1>2, RequestsStay DEF CallsOwned

\* A statement that leaves the tree alone and writes rows only in their owner's name.
LEMMA QuietStep ==
    ASSUME TenancyInv, UNCHANGED <<accounts, row, parent>>,
           \A s \in Rows : agentOf'[s] \in { agentOf[s], NoRow },
           writer' \in [Rows -> Users \cup { NoRow }],
           \A r \in Rows : Known(r) => writer'[r] \in { writer[r], Owner(r) }
    PROVE  /\ Linked' /\ Supported' /\ WrittenByOwner' /\ AgentInProject'
           /\ \A x \in Rows : Known(x) => Known(x)' /\ parent'[x] = parent[x]
           /\ \A x \in Rows : OrgOf(x)' = OrgOf(x) /\ Owner(x)' = Owner(x) /\ Live(x)' = Live(x)
<1> USE DEF TenancyInv
<1>1. \A x \in Rows : OrgOf(x)' = OrgOf(x) /\ Owner(x)' = Owner(x) /\ Live(x)' = Live(x)
  BY DEF OrgOf, Owner, Live
<1>2. Linked' /\ Supported' /\ AgentInProject'
  BY DEF Linked, Supported, AgentInProject, Live, Known
<1>3. WrittenByOwner'
  BY <1>1 DEF WrittenByOwner, Known
<1> QED
  BY <1>1, <1>2, <1>3 DEF Known

LEMMA QuietAnswer ==
    ASSUME TenancyInv, UNCHANGED <<accounts, row, parent, agentOf, members>>,
           writer' \in [Rows -> Users \cup { NoRow }],
           \A r \in Rows : Known(r) => writer'[r] \in { writer[r], Owner(r) },
           Answers, OwnShown'
    PROVE  TenancyInv'
<1>1. /\ Linked' /\ Supported' /\ WrittenByOwner' /\ AgentInProject'
      /\ \A x \in Rows : Known(x) => Known(x)' /\ parent'[x] = parent[x]
  BY QuietStep
<1>2. CallsOwned' /\ DOMAIN call' = Users /\ call' = [u \in Users |-> call'[u]]
  BY <1>1, AnswersStay
<1>3. TenancyTypeOK'
  BY <1>2 DEF TenancyInv, TenancyTypeOK
<1>4. OwnersAreMembers'
  BY DEF TenancyInv, OwnersAreMembers, Live
<1> QED
  BY <1>1, <1>2, <1>3, <1>4 DEF TenancyInv

LEMMA SameWriter ==
    ASSUME TenancyInv, writer' = writer
    PROVE  /\ writer' \in [Rows -> Users \cup { NoRow }]
           /\ \A r \in Rows : Known(r) => writer'[r] \in { writer[r], Owner(r) }
BY DEF TenancyInv, TenancyTypeOK

LEMMA AuthorizeStep ==
    ASSUME TenancyInv, NEW u \in Users, NEW op \in Ops, NEW r \in Rows, Authorize(u, op, r)
    PROVE  TenancyInv'
<1> USE DEF Authorize
<1>1. /\ Linked' /\ Supported' /\ WrittenByOwner' /\ AgentInProject'
      /\ \A x \in Rows : Known(x) => Known(x)' /\ parent'[x] = parent[x]
      /\ \A x \in Rows : Owner(x)' = Owner(x)
  BY QuietStep, SameWriter
<1>2. call' = [call EXCEPT ![u] = [op |-> op, on |-> r,
                    project |-> IF Kind[r] = "agent" THEN parent[r] ELSE NoRow]]
  OBVIOUS
<1>3. TenancyTypeOK'
  BY <1>2 DEF TenancyInv, TenancyTypeOK
<1>4. OwnersAreMembers' /\ OwnShown'
  BY DEF TenancyInv, OwnersAreMembers, OwnShown, Live
<1>5. CallsOwned'
  <2> SUFFICES ASSUME NEW v \in Users PROVE CallOwned(v)'
    BY DEF CallsOwned
  <2>1. CASE v # u
    BY <1>1, <1>2, <2>1, RequestsStay DEF TenancyInv, TenancyTypeOK
  <2>2. CASE v = u
    <3>1. RequireMember(u, r) \/ (Kind[r] = "org" /\ RequireOwner(u, r))
      BY DEF Permits, Ops
    <3>2. Known(r) /\ Owner(r) = u
      BY <3>1, MemberOwns DEF RequireOwner, IsOwner, Live, Known, Owner, OrgOf
    <3>3. /\ op \in OrgOps => Kind[r] = "org"
          /\ op \in ProjectOps => Kind[r] = "project"
          /\ op \in AgentOps => Kind[r] = "agent"
          /\ op \in SessionOps => Kind[r] = "session"
          /\ op = "createSession" => Kind[r] = "agent"
      BY DEF Permits, Ops, OrgOps, ProjectOps, AgentOps, SessionOps
    <3>4. /\ call'[u].op = op /\ call'[u].on = r
          /\ Kind[r] = "agent" => call'[u].project = parent[r]
      BY <1>2 DEF TenancyInv, TenancyTypeOK
    <3> QED
      BY <1>1, <2>2, <3>2, <3>3, <3>4 DEF CallOwned, Known
  <2> QED
    BY <2>1, <2>2
<1> QED
  BY <1>1, <1>3, <1>4, <1>5 DEF TenancyInv
\* What the check established of the request a user has under way.
LEMMA CallFacts ==
    ASSUME TenancyInv, NEW u \in Users, call[u].op # "none"
    PROVE  call[u].on \in Rows /\ Known(call[u].on) /\ Owner(call[u].on) = u
BY DEF TenancyInv, CallsOwned, CallOwned

\* An UPDATE by id, in the name of the owner the check found.
LEMMA UpdateStep ==
    ASSUME TenancyInv, NEW u \in Users, call[u].op # "none", UpdateRow(u, call[u].on),
           Finish(u), UNCHANGED <<accounts, row, parent, agentOf, members, shown>>
    PROVE  TenancyInv'
<1>1. call[u].on \in Rows /\ Owner(call[u].on) = u
  BY CallFacts
<1>2. /\ writer' \in [Rows -> Users \cup { NoRow }]
      /\ \A r \in Rows : Known(r) => writer'[r] \in { writer[r], Owner(r) }
  BY <1>1 DEF UpdateRow, TenancyInv, TenancyTypeOK
<1>3. Answers /\ OwnShown'
  BY DEF Answers, Finish, TenancyInv, OwnShown
<1> QED
  BY <1>2, <1>3, QuietAnswer

\* Rows of an organisation the reader owns are all that a statement shows.
LEMMA ShowStep ==
    ASSUME TenancyInv, NEW u \in Users, NEW S \in SUBSET Rows,
           \A r \in S : Owner(r) = u,
           Shows(u, S) \/ UNCHANGED shown, Answers,
           UNCHANGED <<accounts, row, parent, agentOf, members, writer>>
    PROVE  TenancyInv'
<1>1. OwnShown'
  <2>1. CASE UNCHANGED shown
    BY <2>1 DEF TenancyInv, OwnShown
  <2>2. CASE Shows(u, S)
    <3>1. shown' = shown \cup { <<u, parent[OrgOf(r)]>> : r \in S }
      BY <2>2 DEF Shows
    <3>2. \A r \in S : parent[OrgOf(r)] = u
      BY DEF Owner
    <3> QED
      BY <3>1, <3>2 DEF TenancyInv, OwnShown
  <2> QED
    BY <2>1, <2>2
<1> QED
  BY <1>1, QuietAnswer, SameWriter

LEMMA GetStep ==
    ASSUME TenancyInv, NEW u \in Users, NEW r \in Rows, NEW k, GetRow(u, r, k)
    PROVE  TenancyInv'
<1>1. Owner(r) = u
  BY MemberOwns DEF GetRow
<1>2. Answers
  BY DEF GetRow, Answers
<1> QED
  BY <1>1, <1>2, ShowStep DEF GetRow

LEMMA ListOrgsStep ==
    ASSUME TenancyInv, NEW u \in Users, ListOrgs(u)
    PROVE  TenancyInv'
<1> DEFINE S == { o \in Rows : Live(o) /\ Kind[o] = "org" /\ IsMember(o, u) }
<1>1. \A r \in S : Owner(r) = u
  BY MemberOwns DEF RequireMember, OrgOf
<1>2. Answers /\ Shows(u, S)
  BY DEF ListOrgs, Answers
<1> QED
  BY <1>1, <1>2, ShowStep DEF ListOrgs

\* A list or a summary of what hangs below the row that was checked.
LEMMA ListStep ==
    ASSUME TenancyInv, NEW u \in Users, NEW S \in SUBSET Rows, call[u].op # "none",
           \/ call[u].op \in OrgOps /\ S \in { ProjectsOf(call[u].on), ActivityOf(call[u].on) }
           \/ call[u].op \in ProjectOps /\ S = AgentsOf(call[u].on)
           \/ call[u].op \in AgentOps /\ S = SessionsOf(call[u].on)
    PROVE  \A r \in S : Owner(r) = u
<1> DEFINE x == call[u].on
<1>1. x \in Rows /\ Known(x) /\ Owner(x) = u /\ CallOwned(u)
  BY CallFacts DEF TenancyInv, CallsOwned
<1> SUFFICES ASSUME NEW r \in S PROVE Owner(r) = u
  OBVIOUS
<1>2. CASE S = ProjectsOf(x) \/ S = AgentsOf(x)
  <2>1. r \in Rows /\ Known(r) /\ Kind[r] # "org" /\ parent[r] = x
    BY <1>2 DEF ProjectsOf, AgentsOf, Live, Known
  <2> QED
    BY <1>1, <2>1, OwnerOfParent DEF TenancyInv
<1>3. CASE S = ActivityOf(x) /\ Kind[x] = "org"
  BY <1>1, <1>3, TenancyAssumption DEF ActivityOf, Owner, OrgOf
<1>4. CASE S = SessionsOf(x) /\ Kind[x] = "agent"
  <2>1. r \in Rows /\ Live(r) /\ Known(r) /\ Kind[r] = "session" /\ agentOf[r] = x
    BY <1>4 DEF SessionsOf, Live, Known
  <2>2. parent[x] = parent[r]
    BY <1>1, <2>1, TenancyAssumption DEF TenancyInv, AgentInProject
  <2> QED
    BY <1>1, <1>4, <2>1, <2>2 DEF Owner, OrgOf
<1> QED
  BY <1>1, <1>2, <1>3, <1>4 DEF CallOwned

\* AddMember makes the caller a member of the organisation it created.
LEMMA AddMemberStep ==
    ASSUME TenancyInv, NEW u \in Users, AddMember(u)
    PROVE  TenancyInv'
<1> USE DEF AddMember
<1>1. /\ call[u].on \in Rows /\ Kind[call[u].on] = "org" /\ Owner(call[u].on) = u
  BY DEF TenancyInv, CallsOwned, CallOwned, OrgOps
<1>2. parent[call[u].on] = u
  BY <1>1 DEF Owner, OrgOf
<1>3. /\ Linked' /\ Supported' /\ WrittenByOwner' /\ AgentInProject'
      /\ \A x \in Rows : Known(x) => Known(x)' /\ parent'[x] = parent[x]
  BY QuietStep, SameWriter
<1>4. CallsOwned' /\ DOMAIN call' = Users /\ call' = [v \in Users |-> call'[v]]
  BY <1>3, AnswersStay DEF Finish, Answers
<1>5. OwnersAreMembers'
  BY <1>1, <1>2 DEF TenancyInv, OwnersAreMembers, Live
<1>6. TenancyTypeOK' /\ OwnShown'
  BY <1>1, <1>4 DEF TenancyInv, TenancyTypeOK, OwnShown
<1> QED
  BY <1>3, <1>4, <1>5, <1>6 DEF TenancyInv
\* A DELETE by id: of a row that is gone it changes nothing, of a live one it takes
\* everything below along.  The members of a deleted organisation go with it, and
\* sessions no longer name a deleted agent.
LEMMA DeleteStep ==
    ASSUME TenancyInv, NEW x \in Rows, Kind[x] \in { "org", "project", "agent" },
           DeleteRow(x), Answers, UNCHANGED <<accounts, parent, writer, shown>>,
           agentOf' = IF Kind[x] = "agent"
                      THEN [s \in Rows |-> IF agentOf[s] = x THEN NoRow ELSE agentOf[s]] ELSE agentOf,
           members' = IF Kind[x] = "org" THEN { m \in members : m[1] # x } ELSE members
    PROVE  TenancyInv'
<1> USE DEF TenancyInv
<1>1. /\ agentOf' \in [Rows -> Rows \cup { NoRow }]
      /\ \A s \in Rows : agentOf'[s] \in { agentOf[s], NoRow }
      /\ \A s \in Rows : agentOf'[s] # NoRow => agentOf'[s] = agentOf[s] /\ agentOf[s] # x
  BY DEF TenancyTypeOK, AgentInProject
<1>2. CASE ~Live(x)
  <2>1. row' = row
    BY <1>2 DEF DeleteRow
  <2>2. /\ Linked' /\ Supported' /\ WrittenByOwner' /\ AgentInProject'
        /\ \A y \in Rows : Known(y) => Known(y)' /\ parent'[y] = parent[y]
    BY <1>1, <2>1, QuietStep, SameWriter
  <2>3. CallsOwned' /\ DOMAIN call' = Users /\ call' = [v \in Users |-> call'[v]]
    BY <2>2, AnswersStay
  <2>4. OwnersAreMembers' /\ OwnShown'
    BY <2>1 DEF OwnersAreMembers, OwnShown, Live
  <2>5. TenancyTypeOK'
    BY <1>1, <2>1, <2>3 DEF TenancyTypeOK
  <2> QED
    BY <2>2, <2>3, <2>4, <2>5
<1>3. CASE Live(x)
  <2>1. row' = [r \in Rows |-> IF r \in { x } \cup Below(x) THEN "gone" ELSE row[r]]
    BY <1>3 DEF DeleteRow
  <2>2. accounts' = accounts \ { x }
    BY TenancyAssumption DEF TenancyTypeOK
  <2>3. /\ \A r \in Rows : Live(r)' <=> Live(r) /\ r \notin { x } \cup Below(x)
        /\ \A r \in Rows : Known(r)' <=> Known(r)
        /\ row' \in [Rows -> { "free", "live", "gone" }]
        /\ Linked' /\ Supported' /\ WrittenByOwner' /\ AgentInProject'
    BY <1>1, <1>3, <2>1, <2>2, CascadeKeepsTree
  <2>4. CallsOwned' /\ DOMAIN call' = Users /\ call' = [v \in Users |-> call'[v]]
    BY <2>3, AnswersStay
  <2>5. TenancyTypeOK' /\ OwnShown'
    BY <1>1, <2>3, <2>4 DEF TenancyTypeOK, OwnShown
  <2>6. \A r \in Below(x) : Kind[r] # "org"
    <3> SUFFICES ASSUME NEW r \in Below(x), Kind[r] = "org" PROVE FALSE
      OBVIOUS
    <3>1. r \in Rows /\ Live(r) /\ parent[r] \in { x } \cup Below(x) /\ Below(x) \subseteq Rows
      BY CascadeClosed
    <3>2. parent[r] \in Users
      BY <3>1 DEF Linked, Live, Known
    <3> QED
      BY <3>1, <3>2, TenancyAssumption
  <2>7. OwnersAreMembers'
    <3> SUFFICES ASSUME NEW m \in members'
                 PROVE  (Live(m[1]) /\ Kind[m[1]] = "org" /\ m[2] \in accounts /\ parent[m[1]] = m[2])'
      BY DEF OwnersAreMembers
    <3>1. m \in members /\ m[1] \in Rows /\ Live(m[1]) /\ Kind[m[1]] = "org" /\ m[1] # x
      BY DEF OwnersAreMembers, TenancyTypeOK
    <3>2. Live(m[1])'
      BY <2>3, <2>6, <3>1
    <3> QED
      BY <3>1, <3>2 DEF OwnersAreMembers, Live
  <2> QED
    BY <2>3, <2>4, <2>5, <2>7
<1> QED
  BY <1>2, <1>3

\* adminDeleteUserHandler takes the user's organisations and memberships along; a
\* request of that user that is already past its check goes on.
LEMMA DeleteUserStep ==
    ASSUME TenancyInv, NEW u \in Users, NEW v \in Users, AdminDeleteUser(u, v)
    PROVE  TenancyInv'
<1> USE DEF TenancyInv, AdminDeleteUser
<1>1. row' = [r \in Rows |-> IF r \in { v } \cup Below(v) THEN "gone" ELSE row[r]]
  BY TenancyAssumption
<1>2. \A s \in Rows : agentOf'[s] # NoRow => agentOf'[s] = agentOf[s] /\ agentOf[s] # v
  BY TenancyAssumption DEF TenancyTypeOK
<1>3. agentOf' \in [Rows -> Rows \cup { NoRow }]
  BY DEF TenancyTypeOK
<1>4. v \notin Rows
  BY TenancyAssumption
<1>5. /\ \A r \in Rows : Live(r)' <=> Live(r) /\ r \notin { v } \cup Below(v)
      /\ \A r \in Rows : Known(r)' <=> Known(r)
      /\ row' \in [Rows -> { "free", "live", "gone" }]
      /\ Linked' /\ Supported' /\ WrittenByOwner' /\ AgentInProject'
  BY <1>1, <1>2, <1>3, <1>4, CascadeKeepsTree
<1>6. CallsOwned' /\ DOMAIN call' = Users /\ call' = [w \in Users |-> call'[w]]
  BY <1>5, AnswersStay DEF Answers
<1>7. TenancyTypeOK' /\ OwnShown'
  BY <1>5, <1>6 DEF TenancyTypeOK, OwnShown
<1>8. OwnersAreMembers'
  BY DEF OwnersAreMembers, Live
<1> QED
  BY <1>5, <1>6, <1>7, <1>8
\* New rows E below `above`, or a statement that was refused.
LEMMA RowsStep ==
    ASSUME TenancyInv, NEW u \in Users, NEW E \in SUBSET Rows, NEW above \in Rows \cup Users,
           \A r \in E : ~Known(r) /\ (Kind[r] = "org" <=> above \in Users),
           \A r \in E : Kind[r] # "org" => Kind[above] = AboveKind(Kind[r]),
           above \in Users => above = u,
           above \in Rows => Owner(above) = u,
           \/ /\ IF above \in Users THEN above \in accounts ELSE Live(above)
              /\ row' = [r \in Rows |-> IF r \in E THEN "live" ELSE row[r]]
              /\ parent' = [r \in Rows |-> IF r \in E THEN above ELSE parent[r]]
              /\ writer' = [r \in Rows |-> IF r \in E THEN u ELSE writer[r]]
           \/ UNCHANGED <<row, parent, writer>> /\ agentOf' = agentOf,
           UNCHANGED <<accounts, members, shown>>,
           agentOf' \in [Rows -> Rows \cup { NoRow }],
           \A s \in Rows \ E : agentOf'[s] = agentOf[s],
           \A s \in E : agentOf'[s] # NoRow =>
               Kind[agentOf'[s]] = "agent" /\ Live(agentOf'[s]) /\ parent[agentOf'[s]] = above
    PROVE  /\ \A r \in Rows : Known(r) => Known(r)' /\ parent'[r] = parent[r]
           /\ row' \in [Rows -> { "free", "live", "gone" }]
           /\ parent' \in [Rows -> Rows \cup Users \cup { NoRow }]
           /\ writer' \in [Rows -> Users \cup { NoRow }]
           /\ Linked' /\ Supported' /\ WrittenByOwner' /\ AgentInProject'
           /\ OwnersAreMembers' /\ OwnShown'
<1> USE DEF TenancyInv
<1>0. OwnShown'
  BY DEF OwnShown
<1>1. CASE /\ IF above \in Users THEN above \in accounts ELSE Live(above)
           /\ row' = [r \in Rows |-> IF r \in E THEN "live" ELSE row[r]]
           /\ parent' = [r \in Rows |-> IF r \in E THEN above ELSE parent[r]]
           /\ writer' = [r \in Rows |-> IF r \in E THEN u ELSE writer[r]]
  <2>1. above \in Users => above = u /\ u \in accounts
    BY <1>1
  <2>2. above \in Rows => Live(above) /\ Owner(above) = u
    BY <1>1, TenancyAssumption
  <2>3. /\ \A r \in Rows : Known(r) => Known(r)' /\ parent'[r] = parent[r]
        /\ \A r \in Rows : Live(r) => Live(r)'
        /\ Linked' /\ Supported' /\ WrittenByOwner' /\ AgentInProject'
    BY <1>1, <2>1, <2>2, InsertKeepsTree
  <2>4. /\ row' \in [Rows -> { "free", "live", "gone" }]
        /\ parent' \in [Rows -> Rows \cup Users \cup { NoRow }]
        /\ writer' \in [Rows -> Users \cup { NoRow }]
    BY <1>1 DEF TenancyTypeOK
  <2>5. OwnersAreMembers'
    <3> SUFFICES ASSUME NEW m \in members
                 PROVE  (Live(m[1]) /\ Kind[m[1]] = "org" /\ m[2] \in accounts /\ parent[m[1]] = m[2])'
      BY DEF OwnersAreMembers
    <3>1. m[1] \in Rows /\ Live(m[1]) /\ Known(m[1])
      BY DEF OwnersAreMembers, TenancyTypeOK, Live, Known
    <3>2. Live(m[1])' /\ parent'[m[1]] = parent[m[1]]
      BY <2>3, <3>1
    <3> QED
      BY <3>2 DEF OwnersAreMembers, Live
  <2> QED
    BY <1>0, <2>3, <2>4, <2>5
<1>2. CASE UNCHANGED <<row, parent, writer>> /\ agentOf' = agentOf
  <2>1. /\ Linked' /\ Supported' /\ WrittenByOwner' /\ AgentInProject'
        /\ \A x \in Rows : Known(x) => Known(x)' /\ parent'[x] = parent[x]
    BY <1>2, QuietStep, SameWriter
  <2>2. OwnersAreMembers'
    BY <1>2 DEF OwnersAreMembers, Live
  <2> QED
    BY <1>0, <1>2, <2>1, <2>2 DEF TenancyTypeOK
<1> QED
  BY <1>1, <1>2

\* An INSERT of one row that names no agent, in the terms of RowsStep.
LEMMA InsertStep ==
    ASSUME TenancyInv, NEW u \in Users, NEW r \in Rows, NEW k, NEW above \in Rows \cup Users,
           NEW n \in BOOLEAN, Insert(u, r, k, above, n),
           k = "org" <=> above \in Users,
           k # "org" => Kind[above] = AboveKind(k),
           above \in Users => above = u,
           above \in Rows => Owner(above) = u,
           UNCHANGED <<accounts, members, shown, agentOf>>
    PROVE  /\ \A x \in Rows : Known(x) => Known(x)' /\ parent'[x] = parent[x]
           /\ row' \in [Rows -> { "free", "live", "gone" }]
           /\ parent' \in [Rows -> Rows \cup Users \cup { NoRow }]
           /\ writer' \in [Rows -> Users \cup { NoRow }]
           /\ Linked' /\ Supported' /\ WrittenByOwner' /\ AgentInProject'
           /\ OwnersAreMembers' /\ OwnShown'
<1> DEFINE E == { r }
<1>1. ~Known(r) /\ Kind[r] = k
  BY DEF Insert, Known
<1>2. \/ /\ IF above \in Users THEN above \in accounts ELSE Live(above)
         /\ row' = [x \in Rows |-> IF x \in E THEN "live" ELSE row[x]]
         /\ parent' = [x \in Rows |-> IF x \in E THEN above ELSE parent[x]]
         /\ writer' = [x \in Rows |-> IF x \in E THEN u ELSE writer[x]]
      \/ UNCHANGED <<row, parent, writer>> /\ agentOf' = agentOf
  BY DEF Insert, TenancyInv, TenancyTypeOK
<1>3. agentOf \in [Rows -> Rows \cup { NoRow }] /\ agentOf[r] = NoRow
  BY <1>1 DEF TenancyInv, TenancyTypeOK, AgentInProject
<1>4. E \in SUBSET Rows /\ \A x \in E : x = r
  OBVIOUS
<1>5. /\ \A x \in E : ~Known(x) /\ (Kind[x] = "org" <=> above \in Users)
      /\ \A x \in E : Kind[x] # "org" => Kind[above] = AboveKind(Kind[x])
      /\ \A s \in E : agentOf'[s] = NoRow
  BY <1>1, <1>3, <1>4
<1>6. agentOf' \in [Rows -> Rows \cup { NoRow }] /\ \A s \in Rows \ E : agentOf'[s] = agentOf[s]
  BY <1>3
<1> HIDE DEF E
<1> QED
  BY <1>2, <1>4, <1>5, <1>6, RowsStep

\* CreateProject, CreateAgent and CreateTask: below the row that was checked.
LEMMA CreateBelowStep ==
    ASSUME TenancyInv, NEW u \in Users, NEW r \in Rows, NEW k, NEW n \in BOOLEAN,
           call[u].op # "none", Insert(u, r, k, call[u].on, n), k # "org",
           Kind[call[u].on] = AboveKind(k), Finish(u),
           UNCHANGED <<accounts, members, shown, agentOf>>
    PROVE  TenancyInv'
<1>1. call[u].on \in Rows /\ Owner(call[u].on) = u /\ call[u].on \notin Users
  BY CallFacts, TenancyAssumption
<1>2. /\ \A x \in Rows : Known(x) => Known(x)' /\ parent'[x] = parent[x]
      /\ row' \in [Rows -> { "free", "live", "gone" }]
      /\ parent' \in [Rows -> Rows \cup Users \cup { NoRow }]
      /\ writer' \in [Rows -> Users \cup { NoRow }]
      /\ Linked' /\ Supported' /\ WrittenByOwner' /\ AgentInProject'
      /\ OwnersAreMembers' /\ OwnShown'
  BY <1>1, InsertStep
<1>3. CallsOwned' /\ DOMAIN call' = Users /\ call' = [v \in Users |-> call'[v]]
  BY <1>2, AnswersStay DEF Finish, Answers
<1>4. TenancyTypeOK'
  BY <1>2, <1>3 DEF TenancyInv, TenancyTypeOK
<1> QED
  BY <1>2, <1>3, <1>4 DEF TenancyInv

LEMMA CreateOrgStep ==
    ASSUME TenancyInv, NEW u \in Users, NEW o \in Rows, CreateOrg(u, o)
    PROVE  TenancyInv'
<1> USE DEF CreateOrg
<1>1. /\ \A x \in Rows : Known(x) => Known(x)' /\ parent'[x] = parent[x]
      /\ row' \in [Rows -> { "free", "live", "gone" }]
      /\ parent' \in [Rows -> Rows \cup Users \cup { NoRow }]
      /\ writer' \in [Rows -> Users \cup { NoRow }]
      /\ Linked' /\ Supported' /\ WrittenByOwner' /\ AgentInProject'
      /\ OwnersAreMembers' /\ OwnShown'
  <2>1. u \in Users /\ u \notin Rows
    BY TenancyAssumption
  <2> QED
    BY <2>1, InsertStep
<1>2. call' = [call EXCEPT ![u] = IF row'[o] = "live" THEN [op |-> "addOwner", on |-> o] ELSE NoCall]
  OBVIOUS
<1>3. TenancyTypeOK'
  BY <1>1, <1>2 DEF TenancyInv, TenancyTypeOK
<1>4. CallsOwned'
  <2> SUFFICES ASSUME NEW v \in Users PROVE CallOwned(v)'
    BY DEF CallsOwned
  <2>1. CASE v # u \/ row'[o] # "live"
    <3>1. call'[v] = call[v] \/ call'[v] = NoCall
      BY <1>2, <2>1 DEF TenancyInv, TenancyTypeOK
    <3> QED
      BY <1>1, <3>1, RequestsStay
  <2>2. CASE v = u /\ row'[o] = "live"
    <3>1. Kind[o] = "org" /\ parent'[o] = u
      BY <2>2 DEF Insert, TenancyInv, TenancyTypeOK
    <3>2. call'[u].op = "addOwner" /\ call'[u].on = o
      BY <1>2, <2>2 DEF TenancyInv, TenancyTypeOK
    <3>3. Known(o)' /\ Owner(o)' = u
      BY <2>2, <3>1 DEF Known, Owner, OrgOf
    <3> QED
      BY <2>2, <3>1, <3>2, <3>3
      DEF CallOwned, Known, OrgOps, ProjectOps, AgentOps, SessionOps
  <2> QED
    BY <2>1, <2>2
<1> QED
  BY <1>1, <1>3, <1>4 DEF TenancyInv
\* createSessionHandler writes the project it read with the agent before: parent
\* links do not change, so it still is the agent's project.
LEMMA CreateSessionStep ==
    ASSUME TenancyInv, NEW u \in Users, NEW s \in Rows, CreateSession(u, s)
    PROVE  TenancyInv'
<1> USE DEF CreateSession
<1> DEFINE a == call[u].on
           above == call[u].project
           E == { s }
<1>1. a \in Rows /\ Known(a) /\ Owner(a) = u /\ Kind[a] = "agent" /\ above = parent[a]
  BY DEF TenancyInv, CallsOwned, CallOwned, AgentOps
<1>2. above \in Rows /\ Kind[above] = "project" /\ Owner(above) = u /\ above \notin Users
  BY <1>1, OwnerOfParent, TenancyAssumption DEF TenancyInv, Linked, AboveKind
<1>3. ~Known(s) /\ Kind[s] = "session" /\ agentOf[s] = NoRow
  BY DEF Insert, Known, TenancyInv, AgentInProject
<1>4. \/ /\ row' # row /\ Live(a) /\ Live(above)
         /\ row' = [x \in Rows |-> IF x \in E THEN "live" ELSE row[x]]
         /\ parent' = [x \in Rows |-> IF x \in E THEN above ELSE parent[x]]
         /\ writer' = [x \in Rows |-> IF x \in E THEN u ELSE writer[x]]
      \/ UNCHANGED <<row, parent, writer>>
  BY <1>2 DEF Insert, TenancyInv, TenancyTypeOK
<1>5. agentOf \in [Rows -> Rows \cup { NoRow }]
  BY DEF TenancyInv, TenancyTypeOK
<1>6. agentOf' = [agentOf EXCEPT ![s] = IF row' # row THEN a ELSE NoRow]
  BY <1>3
<1>7. /\ agentOf' \in [Rows -> Rows \cup { NoRow }]
      /\ \A x \in Rows \ E : agentOf'[x] = agentOf[x]
      /\ \A x \in E : agentOf'[x] = IF row' # row THEN a ELSE NoRow
      /\ row' = row => agentOf' = agentOf
  BY <1>1, <1>3, <1>5, <1>6
<1>8. /\ E \in SUBSET Rows
      /\ \A x \in E : ~Known(x) /\ (Kind[x] = "org" <=> above \in Users)
      /\ \A x \in E : Kind[x] # "org" => Kind[above] = AboveKind(Kind[x])
  BY <1>2, <1>3 DEF AboveKind
<1>9. \/ /\ IF above \in Users THEN above \in accounts ELSE Live(above)
         /\ row' = [x \in Rows |-> IF x \in E THEN "live" ELSE row[x]]
         /\ parent' = [x \in Rows |-> IF x \in E THEN above ELSE parent[x]]
         /\ writer' = [x \in Rows |-> IF x \in E THEN u ELSE writer[x]]
      \/ UNCHANGED <<row, parent, writer>> /\ agentOf' = agentOf
  BY <1>2, <1>4, <1>7
<1>10. \A x \in E : agentOf'[x] # NoRow =>
          Kind[agentOf'[x]] = "agent" /\ Live(agentOf'[x]) /\ parent[agentOf'[x]] = above
  BY <1>1, <1>4, <1>7
<1> HIDE DEF E, above, a
<1>11. /\ \A x \in Rows : Known(x) => Known(x)' /\ parent'[x] = parent[x]
       /\ row' \in [Rows -> { "free", "live", "gone" }]
       /\ parent' \in [Rows -> Rows \cup Users \cup { NoRow }]
       /\ writer' \in [Rows -> Users \cup { NoRow }]
       /\ Linked' /\ Supported' /\ WrittenByOwner' /\ AgentInProject'
       /\ OwnersAreMembers' /\ OwnShown'
  BY <1>2, <1>7, <1>8, <1>9, <1>10, RowsStep
<1>12. CallsOwned' /\ DOMAIN call' = Users /\ call' = [v \in Users |-> call'[v]]
  BY <1>11, AnswersStay DEF Finish, Answers
<1>13. TenancyTypeOK'
  BY <1>7, <1>11, <1>12 DEF TenancyInv, TenancyTypeOK
<1> QED
  BY <1>11, <1>12, <1>13 DEF TenancyInv

LEMMA CreateEventsStep ==
    ASSUME TenancyInv, NEW u \in Users, NEW E \in SUBSET { r \in Rows : Kind[r] = "event" },
           CreateEvents(u, E)
    PROVE  TenancyInv'
<1> USE DEF CreateEvents
<1> DEFINE above == call[u].on
<1>1. /\ above \in Rows /\ Owner(above) = u /\ Kind[above] = "session" /\ above \notin Users
  BY TenancyAssumption DEF TenancyInv, CallsOwned, CallOwned, SessionOps
<1>2. /\ E \in SUBSET Rows
      /\ \A x \in E : ~Known(x) /\ (Kind[x] = "org" <=> above \in Users)
      /\ \A x \in E : Kind[x] # "org" => Kind[above] = AboveKind(Kind[x])
  BY <1>1 DEF AboveKind, Known
<1>3. /\ agentOf' \in [Rows -> Rows \cup { NoRow }]
      /\ \A s \in Rows \ E : agentOf'[s] = agentOf[s]
      /\ \A s \in E : agentOf'[s] = NoRow
  BY <1>2 DEF TenancyInv, TenancyTypeOK, AgentInProject
<1>4. \/ /\ IF above \in Users THEN above \in accounts ELSE Live(above)
         /\ row' = [x \in Rows |-> IF x \in E THEN "live" ELSE row[x]]
         /\ parent' = [x \in Rows |-> IF x \in E THEN above ELSE parent[x]]
         /\ writer' = [x \in Rows |-> IF x \in E THEN u ELSE writer[x]]
      \/ UNCHANGED <<row, parent, writer>> /\ agentOf' = agentOf
  BY <1>1
<1> HIDE DEF above
<1>5. /\ \A x \in Rows : Known(x) => Known(x)' /\ parent'[x] = parent[x]
      /\ row' \in [Rows -> { "free", "live", "gone" }]
      /\ parent' \in [Rows -> Rows \cup Users \cup { NoRow }]
      /\ writer' \in [Rows -> Users \cup { NoRow }]
      /\ Linked' /\ Supported' /\ WrittenByOwner' /\ AgentInProject'
      /\ OwnersAreMembers' /\ OwnShown'
  BY <1>1, <1>2, <1>3, <1>4, RowsStep
<1>6. CallsOwned' /\ DOMAIN call' = Users /\ call' = [v \in Users |-> call'[v]]
  BY <1>5, AnswersStay DEF Finish, Answers
<1>7. TenancyTypeOK'
  BY <1>3, <1>5, <1>6 DEF TenancyInv, TenancyTypeOK
<1> QED
  BY <1>5, <1>6, <1>7 DEF TenancyInv

-----------------------------------------------------------------------------
(* The theorems *)

LEMMA TenancyInitial == TenancyInit => TenancyInv
<1> SUFFICES ASSUME TenancyInit PROVE TenancyInv
  OBVIOUS
<1> USE DEF TenancyInit
<1>1. TenancyTypeOK
  BY DEF TenancyTypeOK
<1>2. CallsOwned
  BY DEF CallsOwned, CallOwned, NoCall
<1> QED
  BY <1>1, <1>2 DEF TenancyInv, Linked, Supported, WrittenByOwner, AgentInProject,
                    OwnersAreMembers, OwnShown, Known, Live

\* Reads: what a handler shows after its check belongs to the caller.
LEMMA ReadStep ==
    ASSUME TenancyInv, NEW u \in Users,
           \/ ListProjects(u) \/ ListAgents(u) \/ ListSessions(u) \/ Summarise(u)
           \/ Dashboard(u) \/ CostIntelDashboard(u)
    PROVE  TenancyInv'
<1> DEFINE x == call[u].on
<1>0. /\ ProjectsOf(x) \in SUBSET Rows /\ AgentsOf(x) \in SUBSET Rows
      /\ SessionsOf(x) \in SUBSET Rows /\ ActivityOf(x) \in SUBSET Rows
  BY DEF ProjectsOf, AgentsOf, SessionsOf, ActivityOf
<1>1. CASE ListProjects(u)
  <2>1. call[u].op \in OrgOps /\ call[u].op # "none" /\ Answers
    BY <1>1 DEF ListProjects, ListRows, OrgOps, Finish, Answers
  <2> QED
    BY <1>0, <1>1, <2>1, ListStep, ShowStep DEF ListProjects, ListRows
<1>2. CASE ListAgents(u)
  <2>1. call[u].op \in ProjectOps /\ call[u].op # "none" /\ Answers
    BY <1>2 DEF ListAgents, ListRows, ProjectOps, Finish, Answers
  <2> QED
    BY <1>0, <1>2, <2>1, ListStep, ShowStep DEF ListAgents, ListRows
<1>3. CASE ListSessions(u)
  <2>1. call[u].op \in AgentOps /\ call[u].op # "none" /\ Answers
    BY <1>3 DEF ListSessions, ListRows, AgentOps, Finish, Answers
  <2> QED
    BY <1>0, <1>3, <2>1, ListStep, ShowStep DEF ListSessions, ListRows
<1>4. CASE Summarise(u)
  <2>1. call[u].op \in OrgOps /\ call[u].op # "none" /\ Answers
    BY <1>4 DEF Summarise, ListRows, OrgOps, Finish, Answers
  <2> QED
    BY <1>0, <1>4, <2>1, ListStep, ShowStep DEF Summarise, ListRows
<1>5. CASE Dashboard(u) \/ CostIntelDashboard(u)
  <2>1. call[u].op \in OrgOps /\ call[u].op # "none" /\ Answers
    BY <1>5 DEF Dashboard, CostIntelDashboard, DashboardStatement, OrgOps, Finish, Answers
  <2> QED
    BY <1>0, <1>5, <2>1, ListStep, ShowStep DEF Dashboard, CostIntelDashboard, DashboardStatement
<1> QED
  BY <1>1, <1>2, <1>3, <1>4, <1>5
LEMMA WriteStep ==
    ASSUME TenancyInv, NEW u \in Users,
           \/ UpdateOrg(u) \/ UpdateProject(u) \/ UpdateAgent(u)
           \/ \E st \in { "active", "completed" } : UpdateSession(u, st)
           \/ DeleteOrg(u) \/ DeleteProject(u) \/ DeleteAgent(u)
    PROVE  TenancyInv'
<1>1. CASE UpdateOrg(u) \/ UpdateProject(u) \/ UpdateAgent(u)
  BY <1>1, UpdateStep DEF UpdateOrg, UpdateProject, UpdateAgent
<1>2. CASE \E st \in { "active", "completed" } : UpdateSession(u, st)
  BY <1>2, UpdateStep DEF UpdateSession
<1>3. CASE DeleteOrg(u) \/ DeleteProject(u) \/ DeleteAgent(u)
  <2>1. call[u].op # "none" /\ CallOwned(u) /\ Answers
    BY <1>3 DEF DeleteOrg, DeleteProject, DeleteAgent, TenancyInv, CallsOwned, Finish, Answers
  <2>2. CASE DeleteOrg(u)
    <3>1. call[u].on \in Rows /\ Kind[call[u].on] = "org"
      BY <2>1, <2>2 DEF DeleteOrg, CallOwned, OrgOps
    <3> QED
      BY <2>1, <2>2, <3>1, DeleteStep DEF DeleteOrg
  <2>3. CASE DeleteProject(u)
    <3>1. call[u].on \in Rows /\ Kind[call[u].on] = "project"
      BY <2>1, <2>3 DEF DeleteProject, CallOwned, ProjectOps
    <3> QED
      BY <2>1, <2>3, <3>1, DeleteStep DEF DeleteProject
  <2>4. CASE DeleteAgent(u)
    <3>1. call[u].on \in Rows /\ Kind[call[u].on] = "agent"
      BY <2>1, <2>4 DEF DeleteAgent, CallOwned, AgentOps
    <3> QED
      BY <2>1, <2>4, <3>1, DeleteStep DEF DeleteAgent
  <2> QED
    BY <1>3, <2>2, <2>3, <2>4
<1> QED
  BY <1>1, <1>2, <1>3

LEMMA CreateStep ==
    ASSUME TenancyInv, NEW u \in Users, NEW r \in Rows,
           CreateProject(u, r) \/ CreateAgent(u, r) \/ CreateTask(u, r)
    PROVE  TenancyInv'
<1>1. CallOwned(u)
  BY DEF TenancyInv, CallsOwned
<1>2. CASE CreateProject(u, r)
  <2>1. Kind[call[u].on] = AboveKind("project") /\ call[u].op # "none"
    BY <1>1, <1>2 DEF CreateProject, CallOwned, OrgOps, AboveKind
  <2> QED
    BY <1>2, <2>1, CreateBelowStep DEF CreateProject
<1>3. CASE CreateAgent(u, r)
  <2>1. Kind[call[u].on] = AboveKind("agent") /\ call[u].op # "none"
    BY <1>1, <1>3 DEF CreateAgent, CallOwned, ProjectOps, AboveKind
  <2> QED
    BY <1>3, <2>1, CreateBelowStep DEF CreateAgent
<1>4. CASE CreateTask(u, r)
  <2>1. Kind[call[u].on] = AboveKind("task") /\ call[u].op # "none"
    BY <1>1, <1>4 DEF CreateTask, CallOwned, ProjectOps, AboveKind
  <2> QED
    BY <1>4, <2>1, CreateBelowStep DEF CreateTask
<1> QED
  BY <1>2, <1>3, <1>4

\* Steps that touch nothing the invariant is about but a request that ends.
LEMMA OtherStep ==
    ASSUME TenancyInv,
           \/ \E u \in Users : InviteMember(u)
           \/ \E u \in Users, s \in Rows : InvalidateSession(u, s)
           \/ \E t \in Rows : TaskEnds(t)
           \/ CleanupStaleSessions
           \/ UNCHANGED tenancyVars
    PROVE  TenancyInv'
<1>1. Answers /\ UNCHANGED <<accounts, row, parent, agentOf, members, writer, shown>>
  BY DEF Answers, Finish, InviteMember, InvalidateSession, TaskEnds, CleanupStaleSessions, tenancyVars
<1>2. OwnShown'
  BY <1>1 DEF TenancyInv, OwnShown
<1> QED
  BY <1>1, <1>2, QuietAnswer, SameWriter

(***************************************************************************)
(* permissions.go and org_handlers.go with the foreign keys of             *)
(* 000001_init_schema: the tree of rows, the owner of every organisation   *)
(* and the owner each request was checked against agree in every state.    *)
(***************************************************************************)
THEOREM TenancyInvariant == TenancySpec => []TenancyInv
<1>1. TenancyInit => TenancyInv
  BY TenancyInitial
<1>2. TenancyInv /\ [TenancyNext]_tenancyVars => TenancyInv'
  <2> SUFFICES ASSUME TenancyInv, [TenancyNext]_tenancyVars PROVE TenancyInv'
    OBVIOUS
  <2>1. CASE UNCHANGED tenancyVars \/ CleanupStaleSessions \/ \E t \in Rows : TaskEnds(t)
    BY <2>1, OtherStep
  <2>2. ASSUME NEW u \in Users, Handlers(u) PROVE TenancyInv'
    <3>1. CASE \E op \in Ops, r \in Rows : Authorize(u, op, r)
      BY <3>1, AuthorizeStep
    <3>2. CASE \E r \in Rows : CreateOrg(u, r) \/ CreateSession(u, r)
      BY <3>2, CreateOrgStep, CreateSessionStep
    <3>3. CASE \E r \in Rows : CreateProject(u, r) \/ CreateAgent(u, r) \/ CreateTask(u, r)
      BY <3>3, CreateStep
    <3>4. CASE \E E \in SUBSET { r \in Rows : Kind[r] = "event" } : CreateEvents(u, E)
      BY <3>4, CreateEventsStep
    <3>5. CASE AddMember(u) \/ ListOrgs(u)
      BY <3>5, AddMemberStep, ListOrgsStep
    <3>6. CASE InviteMember(u) \/ \E r \in Rows : InvalidateSession(u, r)
      BY <3>6, OtherStep
    <3>7. CASE \/ UpdateOrg(u) \/ UpdateProject(u) \/ UpdateAgent(u)
               \/ \E st \in { "active", "completed" } : UpdateSession(u, st)
               \/ DeleteOrg(u) \/ DeleteProject(u) \/ DeleteAgent(u)
      BY <3>7, WriteStep
    <3>8. CASE \/ ListProjects(u) \/ ListAgents(u) \/ ListSessions(u) \/ Summarise(u)
               \/ Dashboard(u) \/ CostIntelDashboard(u)
      BY <3>8, ReadStep
    <3>9. CASE \E r \in Rows : GetOrg(u, r) \/ GetProject(u, r) \/ GetAgent(u, r) \/ GetSession(u, r)
      BY <3>9, GetStep DEF GetOrg, GetProject, GetAgent, GetSession
    <3>10. CASE \E v \in Users : AdminDeleteUser(u, v)
      BY <3>10, DeleteUserStep
    <3> QED
      BY <2>2, <3>1, <3>2, <3>3, <3>4, <3>5, <3>6, <3>7, <3>8, <3>9, <3>10 DEF Handlers
  <2> QED
    BY <2>1, <2>2 DEF TenancyNext
<1> QED
  BY <1>1, <1>2, PTL DEF TenancySpec

(***************************************************************************)
(* permissions.go.  For any number of users, organisations and rows, and   *)
(* however requests overlap with deletions: every live row was last        *)
(* written by the owner of its organisation and hangs below live rows,     *)
(* nobody was shown another owner's rows, and a session's agent is in the  *)
(* session's project.                                                      *)
(***************************************************************************)
THEOREM TenantsAlwaysIsolated == TenancySpec => []TenantIsolation
<1>1. TenancyInv => TenantIsolation
  <2> SUFFICES ASSUME TenancyInv PROVE TenantIsolation
    OBVIOUS
  <2>1. \A r \in Rows : Live(r) => parent[OrgOf(r)] = writer[r]
    BY DEF TenancyInv, WrittenByOwner, Owner, Live, Known
  <2>2. \A r \in Rows : Live(r) => IF Kind[r] = "org" THEN parent[r] \in accounts ELSE Live(parent[r])
    BY DEF TenancyInv, Supported
  <2>3. \A s \in Rows : Live(s) /\ agentOf[s] # NoRow =>
            Live(agentOf[s]) /\ parent[agentOf[s]] = parent[s]
    BY DEF TenancyInv, AgentInProject
  <2>4. \A m \in members : Live(m[1]) /\ m[2] \in accounts
    BY DEF TenancyInv, OwnersAreMembers
  <2> QED
    BY <2>1, <2>2, <2>3, <2>4 DEF TenantIsolation, TenancyInv, OwnShown
<1> QED
  BY <1>1, TenancyInvariant, PTL

-----------------------------------------------------------------------------
(* Counting requests *)

LEMMA CountBounded ==
    ASSUME NEW T, IsFiniteSet(T), NEW S \in SUBSET T
    PROVE  IsFiniteSet(S) /\ Cardinality(S) \in Nat /\ Cardinality(T) \in Nat
           /\ Cardinality(S) <= Cardinality(T)
BY FS_Subset, FS_CardinalityType

\* One request enters or leaves the set that is counted, or the set stays the same.
LEMMA CountEnters ==
    ASSUME NEW T, IsFiniteSet(T), NEW S \in SUBSET T, NEW c, c \notin S
    PROVE  Cardinality(S \cup { c }) = Cardinality(S) + 1
BY CountBounded, FS_AddElement

LEMMA CountLeaves ==
    ASSUME NEW T, IsFiniteSet(T), NEW S \in SUBSET T, NEW c \in S
    PROVE  Cardinality(S \ { c }) = Cardinality(S) - 1
BY CountBounded, FS_RemoveElement

-----------------------------------------------------------------------------
(* Logins *)

\* Logins that are past the lockout's check and may still record a failure.
Guessing == { c \in LoginClients : attempt[c] \in { "password", "wrong" } }

LoginInv ==
    /\ store \in { "memory", "redis" }
    /\ attempt \in [LoginClients -> { "idle", "lockout", "password", "wrong", "right", "limit" }]
    /\ failed \in Nat /\ tested = failed
    /\ lockLeft \in Int /\ lockLeft >= NoTime
    /\ lockLeft >= 0 <=> failed >= MaxAttempts
    /\ failed + Cardinality(Guessing) <= MaxAttempts - 1 + Cardinality(LoginClients)
    /\ store = "memory" => ~refused

LEMMA LoginInitial == LoginGuardInit => LoginInv
<1> SUFFICES ASSUME LoginGuardInit PROVE LoginInv
  OBVIOUS
<1>1. Guessing = {}
  BY DEF LoginGuardInit, Guessing
<1>2. Cardinality(Guessing) = 0 /\ Cardinality(LoginClients) \in Nat
  BY <1>1, FS_EmptySet, FS_CardinalityType, LoginGuardAssumption
<1> QED
  BY <1>2, LoginGuardAssumption DEF LoginGuardInit, LoginInv, NoTime

\* A login that fails no password on its way leaves at most fewer of them guessing.
LEMMA GuessersKept ==
    ASSUME LoginInv, Guessing' \subseteq Guessing
    PROVE  Cardinality(Guessing') <= Cardinality(Guessing) /\ Cardinality(Guessing') \in Nat
           /\ Cardinality(Guessing) \in Nat /\ Cardinality(LoginClients) \in Nat
<1>1. Guessing \in SUBSET LoginClients
  BY DEF Guessing
<1>2. IsFiniteSet(Guessing) /\ Cardinality(Guessing) \in Nat /\ Cardinality(LoginClients) \in Nat
  BY <1>1, CountBounded, LoginGuardAssumption
<1> QED
  BY <1>2, CountBounded

LEMMA LoginStepKeeps ==
    ASSUME LoginInv, [LoginGuardNext]_loginVars
    PROVE  LoginInv'
<1> USE DEF LoginInv, NoTime
<1>0. MaxAttempts \in Nat /\ MaxAttempts > 0 /\ LockFor \in Nat /\ LockFor > 0
  BY LoginGuardAssumption
<1>1. CASE UNCHANGED loginVars
  BY <1>1 DEF loginVars, Guessing
<1>2. CASE CleanupLockout \/ CleanupLimiter \/ Tick
  <2>1. Guessing' = Guessing
    BY <1>2 DEF CleanupLockout, CleanupLimiter, Tick, Guessing
  <2>2. Cardinality(Guessing) \in Nat /\ Cardinality(LoginClients) \in Nat
    BY <2>1, GuessersKept
  <2> QED
    BY <1>0, <1>2, <2>1, <2>2 DEF CleanupLockout, CleanupLimiter, Tick, Aged
<1>3. ASSUME NEW c \in LoginClients, LoginStep(c) PROVE LoginInv'
  <2>1. CASE LimiterCheck(c) \/ ComparePassword(c) \/ RecordLimiterFailure(c) \/ RecordSuccess(c)
    <3>1. Guessing' \subseteq Guessing
      BY <2>1 DEF LimiterCheck, ComparePassword, RecordLimiterFailure, RecordSuccess, At, Guessing
    <3>2. attempt' \in [LoginClients -> { "idle", "lockout", "password", "wrong", "right", "limit" }]
      BY <2>1 DEF LimiterCheck, ComparePassword, RecordLimiterFailure, RecordSuccess, At
    <3>3. Cardinality(Guessing') <= Cardinality(Guessing) /\ Cardinality(Guessing') \in Nat
           /\ Cardinality(Guessing) \in Nat /\ Cardinality(LoginClients) \in Nat
      BY <3>1, GuessersKept
    <3> QED
      BY <1>0, <2>1, <3>2, <3>3 DEF LimiterCheck, ComparePassword, RecordLimiterFailure, RecordSuccess
  <2>2. CASE RecordFailure(c)
    <3>1. Guessing' = Guessing \ { c } /\ c \in Guessing /\ Guessing \in SUBSET LoginClients
      BY <2>2 DEF RecordFailure, At, Guessing
    <3>2. Cardinality(Guessing') = Cardinality(Guessing) - 1
      BY <3>1, CountLeaves, LoginGuardAssumption
    <3>3. Cardinality(Guessing) \in Nat /\ Cardinality(LoginClients) \in Nat
      BY <3>1, CountBounded, LoginGuardAssumption
    <3>4. attempt' \in [LoginClients -> { "idle", "lockout", "password", "wrong", "right", "limit" }]
      BY <2>2 DEF RecordFailure, At
    <3> QED
      BY <1>0, <2>2, <3>2, <3>3, <3>4 DEF RecordFailure
  <2>3. CASE LockoutCheck(c)
    <3>1. Guessing' \in SUBSET LoginClients
      BY DEF Guessing
    <3>2. Cardinality(Guessing') \in Nat /\ Cardinality(LoginClients) \in Nat
          /\ Cardinality(Guessing') <= Cardinality(LoginClients)
      BY <3>1, CountBounded, LoginGuardAssumption
    <3>3. attempt' \in [LoginClients -> { "idle", "lockout", "password", "wrong", "right", "limit" }]
      BY <2>3 DEF LockoutCheck, At
    <3>4. CASE IsLocked
      <4>1. Guessing' \subseteq Guessing
        BY <2>3, <3>4 DEF LockoutCheck, At, Guessing
      <4>2. Cardinality(Guessing') <= Cardinality(Guessing) /\ Cardinality(Guessing) \in Nat
        BY <4>1, GuessersKept
      <4>3. store = "memory" => lockLeft > 0 /\ ~(tested < MaxAttempts)
        BY <1>0, <3>4 DEF IsLocked
      <4>4. store' = store /\ (refused' <=> (refused \/ tested < MaxAttempts))
        BY <2>3, <3>4 DEF LockoutCheck
      <4>5. store' = "memory" => ~refused'
        BY <4>3, <4>4
      <4> QED
        BY <1>0, <2>3, <3>2, <3>3, <4>2, <4>5 DEF LockoutCheck, Expired
    <3>5. CASE ~IsLocked
      <4>1. store' = store /\ refused' = refused
        BY <2>3, <3>5 DEF LockoutCheck
      <4>2. lockLeft <= 0
        BY <3>5 DEF IsLocked
      <4>3. store' = "memory" => ~refused'
        BY <4>1
      <4>4. /\ failed' = (IF lockLeft = 0 THEN 0 ELSE failed) /\ tested' = failed'
            /\ lockLeft' = (IF lockLeft = 0 THEN -1 ELSE lockLeft)
        BY <2>3 DEF LockoutCheck, Expired
      <4> QED
        BY <1>0, <3>2, <3>3, <4>1, <4>2, <4>3, <4>4
    <3> QED
      BY <3>4, <3>5
  <2> QED
    BY <1>3, <2>1, <2>2, <2>3 DEF LoginStep
<1> QED
  BY <1>1, <1>2, <1>3 DEF LoginGuardNext
(***************************************************************************)
(* middleware/lockout.go:76-113.  For any number of clients, attempts and  *)
(* lock times: wrong passwords beyond MaxAttempts are those of logins that *)
(* were past the check together, and the lockout in memory refuses nobody  *)
(* early.                                                                  *)
(***************************************************************************)
THEOREM GuessesAlwaysBounded == LoginGuardSpec => []GuessesBounded
<1>1. LoginInv => GuessesBounded
  <2> SUFFICES ASSUME LoginInv PROVE GuessesBounded
    OBVIOUS
  <2>1. Cardinality(Guessing) \in Nat /\ Cardinality(LoginClients) \in Nat
    BY CountBounded, LoginGuardAssumption DEF Guessing
  <2>2. MaxAttempts \in Nat
    BY LoginGuardAssumption
  <2> QED
    BY <2>1, <2>2 DEF LoginInv, GuessesBounded
<1> QED
  BY <1>1, LoginInitial, LoginStepKeeps, PTL DEF LoginGuardSpec

-----------------------------------------------------------------------------
(* API keys *)

Creating == { c \in KeyClients : creatingKey[c] # "idle" }
Created == { c \in KeyClients : creatingKey[c] = "created" }

KeysTypeOK ==
    /\ keyRow \in [Keys -> { "free", "active", "inactive", "deleted" }]
    /\ expires \in [Keys -> Int]
    /\ creatingKey \in [KeyClients -> { "idle", "allowed", "created" }]
    /\ recorded \in Nat

\* What was created in this window is recorded or about to be; and who is past Allow
\* found the count below the limit.
WindowCounted ==
    /\ madeInWindow = recorded + Cardinality(Created)
    /\ recorded + Cardinality(Creating) <= MaxKeys - 1 + Cardinality(KeyClients)

LastingKey ==
    /\ \A k \in Keys : keyRow[k] = "free" => expires[k] = Never
    /\ (\E k \in Keys : keyRow[k] # "free") /\ ~revoked =>
          \E k \in Keys : keyRow[k] = "active" /\ expires[k] = Never

KeysInv == KeysTypeOK /\ WindowCounted /\ LastingKey

LEMMA KeyClientsFinite ==
    /\ Cardinality(Creating) \in Nat /\ Cardinality(Created) \in Nat
    /\ Cardinality(KeyClients) \in Nat
    /\ Cardinality(Creating) <= Cardinality(KeyClients)
    /\ Cardinality(Created) <= Cardinality(Creating)
<1>1. Creating \in SUBSET KeyClients /\ Created \in SUBSET Creating
  BY DEF Creating, Created
<1>2. IsFiniteSet(Creating) /\ Cardinality(Creating) \in Nat /\ Cardinality(KeyClients) \in Nat
      /\ Cardinality(Creating) <= Cardinality(KeyClients)
  BY <1>1, CountBounded, APIKeysAssumption
<1> QED
  BY <1>1, <1>2, CountBounded

LEMMA KeysInitial == APIKeysInit => KeysInv
<1> SUFFICES ASSUME APIKeysInit PROVE KeysInv
  OBVIOUS
<1>1. Creating = {} /\ Created = {}
  BY DEF APIKeysInit, Creating, Created
<1>2. Cardinality(Creating) = 0 /\ Cardinality(Created) = 0
  BY <1>1, FS_EmptySet
<1>3. WindowCounted
  BY <1>2, KeyClientsFinite, APIKeysAssumption DEF APIKeysInit, WindowCounted
<1> QED
  BY <1>3 DEF APIKeysInit, KeysInv, KeysTypeOK, LastingKey, Never

LEMMA KeysStepKeeps ==
    ASSUME KeysInv, [APIKeysNext]_keyVars
    PROVE  KeysInv'
<1> USE DEF KeysInv, Never
<1>0. MaxKeys \in Nat /\ MaxKeys > 0 /\ Grace \in Nat
  BY APIKeysAssumption
<1>1. CASE UNCHANGED keyVars
  BY <1>1 DEF keyVars, KeysTypeOK, WindowCounted, LastingKey, Creating, Created
<1>2. ASSUME NEW c \in KeyClients, AllowCreate(c) PROVE KeysInv'
  <2> USE <1>2 DEF AllowCreate
  <2>1. KeysTypeOK'
    BY DEF KeysTypeOK
  <2>2. LastingKey'
    BY DEF LastingKey
  <2>3. Created' = Created
    BY DEF Created, KeysTypeOK
  <2>4. /\ Cardinality(Creating)' \in Nat /\ Cardinality(KeyClients) \in Nat
        /\ Cardinality(Creating)' <= Cardinality(KeyClients)
    BY CountBounded, APIKeysAssumption DEF Creating
  <2>5. recorded < MaxKeys /\ recorded \in Nat
    BY DEF Allow, KeysTypeOK
  <2>6. WindowCounted'
    BY <1>0, <2>3, <2>4, <2>5 DEF WindowCounted
  <2> QED
    BY <2>1, <2>2, <2>6
<1>3. ASSUME NEW c \in KeyClients, NEW k \in Keys, CreateAPIKey(c, k) PROVE KeysInv'
  <2> USE <1>3 DEF CreateAPIKey
  <2>0. c \in Creating /\ c \notin Created /\ Creating \in SUBSET KeyClients /\ Created \in SUBSET KeyClients
    BY DEF Creating, Created
  <2>1. KeysTypeOK'
    BY DEF KeysTypeOK, Create
  <2>2. CASE creatingKey' = [creatingKey EXCEPT ![c] = "created"] /\ Create(k) /\ madeInWindow' = madeInWindow + 1
    <3>1. Creating' = Creating /\ Created' = Created \cup { c }
      BY <2>2 DEF Creating, Created, KeysTypeOK
    <3>2. Cardinality(Created') = Cardinality(Created) + 1
      BY <2>0, <3>1, CountEnters, APIKeysAssumption
    <3>3. WindowCounted'
      BY <2>2, <3>1, <3>2, KeyClientsFinite DEF WindowCounted, KeysTypeOK
    <3>4. LastingKey'
      BY <2>2 DEF LastingKey, Create, KeysTypeOK
    <3> QED
      BY <2>1, <3>3, <3>4
  <2>3. CASE creatingKey' = [creatingKey EXCEPT ![c] = "idle"] /\ UNCHANGED <<keyRow, madeInWindow>>
    <3>1. Creating' = Creating \ { c } /\ Created' = Created
      BY <2>3 DEF Creating, Created, KeysTypeOK
    <3>2. Cardinality(Creating') = Cardinality(Creating) - 1
      BY <2>0, <3>1, CountLeaves, APIKeysAssumption
    <3>3. WindowCounted'
      BY <1>0, <2>3, <3>1, <3>2, KeyClientsFinite DEF WindowCounted, KeysTypeOK
    <3>4. LastingKey'
      BY <2>3 DEF LastingKey
    <3> QED
      BY <2>1, <3>3, <3>4
  <2> QED
    BY <2>2, <2>3
<1>4. ASSUME NEW c \in KeyClients, RecordCreate(c) PROVE KeysInv'
  <2> USE <1>4 DEF RecordCreate
  <2>0. c \in Creating /\ c \in Created /\ Creating \in SUBSET KeyClients /\ Created \in SUBSET KeyClients
    BY DEF Creating, Created
  <2>1. KeysTypeOK' /\ LastingKey'
    BY DEF KeysTypeOK, LastingKey
  <2>2. Creating' = Creating \ { c } /\ Created' = Created \ { c }
    BY DEF Creating, Created, KeysTypeOK
  <2>3. Cardinality(Creating') = Cardinality(Creating) - 1 /\ Cardinality(Created') = Cardinality(Created) - 1
    BY <2>0, <2>2, CountLeaves, APIKeysAssumption
  <2>4. WindowCounted'
    BY <1>0, <2>3, KeyClientsFinite DEF WindowCounted, KeysTypeOK
  <2> QED
    BY <2>1, <2>4
<1>5. CASE WindowOver
  <2>1. Creating' = {} /\ Created' = {}
    BY <1>5 DEF WindowOver, Creating, Created
  <2>2. Cardinality(Creating') = 0 /\ Cardinality(Created') = 0
    BY <2>1, FS_EmptySet
  <2>3. WindowCounted'
    BY <1>0, <1>5, <2>2, KeyClientsFinite DEF WindowCounted, WindowOver
  <2> QED
    BY <1>5, <2>3 DEF WindowOver, KeysTypeOK, LastingKey
<1>6. CASE \/ \E old, new \in Keys : RotateAPIKey(old, new)
           \/ \E k \in Keys : DeleteAPIKey(k)
           \/ CleanupExpiredKeys \/ KeysTick
  <2>1. WindowCounted'
    BY <1>6 DEF WindowCounted, Creating, Created, RotateAPIKey, DeleteAPIKey, CleanupExpiredKeys, KeysTick
  <2>2. ASSUME NEW old \in Keys, NEW new \in Keys, RotateAPIKey(old, new) PROVE KeysTypeOK' /\ LastingKey'
    <3>1. KeysTypeOK'
      BY <1>0, <2>2 DEF KeysTypeOK, RotateAPIKey, NewKeyExpiry
    <3>2. old # new /\ keyRow'[new] = "active" /\ expires'[new] = -1
      BY <2>2 DEF KeysTypeOK, RotateAPIKey, NewKeyExpiry
    <3>3. \A k \in Keys : keyRow'[k] = "free" => expires'[k] = -1
      BY <2>2 DEF KeysTypeOK, RotateAPIKey, NewKeyExpiry, LastingKey
    <3> QED
      BY <3>1, <3>2, <3>3 DEF LastingKey
  <2>3. ASSUME NEW k \in Keys, DeleteAPIKey(k) PROVE KeysTypeOK' /\ LastingKey'
    BY <2>3 DEF KeysTypeOK, DeleteAPIKey, LastingKey
  <2>4. CASE CleanupExpiredKeys
    <3>1. KeysTypeOK' /\ expires' = expires /\ revoked' = revoked
      BY <2>4 DEF KeysTypeOK, CleanupExpiredKeys
    <3>2. \A k \in Keys : /\ keyRow'[k] = "free" <=> keyRow[k] = "free"
                          /\ keyRow[k] = "active" /\ expires[k] = -1 => keyRow'[k] = "active"
      BY <2>4 DEF KeysTypeOK, CleanupExpiredKeys
    <3>3. (\E k \in Keys : keyRow'[k] # "free") => \E k \in Keys : keyRow[k] # "free"
      BY <3>2
    <3>4. (\E k \in Keys : keyRow[k] = "active" /\ expires[k] = -1)
              => \E k \in Keys : keyRow'[k] = "active" /\ expires'[k] = -1
      BY <3>1, <3>2
    <3>5. \A k \in Keys : keyRow'[k] = "free" => expires'[k] = -1
      BY <3>1, <3>2 DEF LastingKey
    <3>6. ~revoked' => ~revoked
      BY <3>1
    <3>7. LastingKey'
      BY <3>3, <3>4, <3>5, <3>6 DEF LastingKey
    <3> QED
      BY <2>1, <3>1, <3>7
  <2>5. CASE KeysTick
    <3>1. \A k \in Keys : expires'[k] = -1 <=> expires[k] = -1
      BY <2>5 DEF KeysTypeOK, KeysTick
    <3>2. KeysTypeOK' /\ keyRow' = keyRow /\ revoked' = revoked
      BY <2>5 DEF KeysTypeOK, KeysTick
    <3>3. (\E k \in Keys : keyRow[k] = "active" /\ expires[k] = -1)
              => \E k \in Keys : keyRow'[k] = "active" /\ expires'[k] = -1
      BY <3>1, <3>2
    <3>4. \A k \in Keys : keyRow'[k] = "free" => expires'[k] = -1
      BY <3>1, <3>2 DEF LastingKey
    <3>5. (~revoked' => ~revoked) /\ keyRow' = keyRow
      BY <3>2
    <3>6. LastingKey'
      BY <3>3, <3>4, <3>5 DEF LastingKey
    <3> QED
      BY <2>1, <3>2, <3>6
  <2> QED
    BY <1>6, <2>1, <2>2, <2>3, <2>4, <2>5
<1> QED
  BY <1>1, <1>2, <1>3, <1>4, <1>5, <1>6 DEF APIKeysNext

LEMMA KeysAlwaysKept == APIKeysSpec => []KeysKept
<1>1. KeysInv => KeysKept
  <2> SUFFICES ASSUME KeysInv PROVE KeysKept
    OBVIOUS
  <2>1. madeInWindow <= MaxKeys - 1 + Cardinality(KeyClients)
    BY KeyClientsFinite, APIKeysAssumption DEF KeysInv, WindowCounted, KeysTypeOK
  <2> QED
    BY <2>1 DEF KeysInv, LastingKey, KeysKept, Usable, FindAPIKeyByHash, Never
<1> QED
  BY <1>1, KeysInitial, KeysStepKeeps, PTL DEF APIKeysSpec
-----------------------------------------------------------------------------
(* Tokens *)

Requests == [at : { "idle", "auth", "handler", "reset", "verify", "spend" },
             with : Tokens \cup ResetTokens \cup { NoToken }, out : BOOLEAN]

SessionsTypeOK ==
    /\ life \in [Tokens -> Nat] /\ black \in [Tokens -> Nat]
    /\ issued \subseteq Tokens /\ loggedOut \subseteq issued
    /\ resetLife \in [ResetTokens -> Nat] /\ resets \in [ResetTokens -> Nat]
    /\ purpose \in [ResetTokens -> { "unsent", "verify", "reset" }]
    /\ caller \in [Callers -> Requests]

\* A request past its first check holds a token of the kind it was checked for.
RequestsHold ==
    \A c \in Callers :
        LET w == caller[c].with IN
        /\ caller[c].at \in { "auth", "handler" } => w \in issued
        /\ caller[c].at \in { "reset", "verify" } => w \in ResetTokens /\ purpose[w] = caller[c].at
        /\ caller[c].at = "spend" => w \in ResetTokens /\ purpose[w] # "unsent"

\* The blacklist entry outlives the token, so who passes it after the logout has a
\* token that is over.
BlacklistOutlives ==
    /\ \A t \in Tokens : life[t] <= TokenLife /\ (t \in loggedOut => life[t] <= black[t])
    /\ \A c \in Callers : caller[c].at = "auth" /\ caller[c].out => life[caller[c].with] = 0
    /\ ~wronglyServed

Resetting(r) == { c \in Callers : caller[c].at = "reset" /\ caller[c].with = r }
Spending(r) == { c \in Callers : caller[c].at = "spend" /\ caller[c].with = r }

\* While a reset token is stored, the passwords it has set are those of requests that
\* still have to delete it.
ResetsCounted ==
    \A r \in ResetTokens :
        /\ resets[r] + Cardinality(Resetting(r)) <= Cardinality(Callers)
        /\ purpose[r] = "reset" /\ resetLife[r] > 0 => resets[r] = Cardinality(Spending(r))
        /\ resets[r] > 0 => purpose[r] = "reset"

VerifiedByMail == account = "verified" => \E r \in ResetTokens : purpose[r] = "verify"

SessionsInv ==
    SessionsTypeOK /\ RequestsHold /\ BlacklistOutlives /\ ResetsCounted /\ VerifiedByMail

LEMMA SessionsInitial == SessionsInit => SessionsInv
<1> SUFFICES ASSUME SessionsInit PROVE SessionsInv
  OBVIOUS
<1>1. SessionsTypeOK /\ RequestsHold
  BY DEF SessionsInit, SessionsTypeOK, RequestsHold, Requests, Quiet
<1>2. BlacklistOutlives
  BY SessionsAssumption DEF SessionsInit, BlacklistOutlives, Quiet
<1>3. ResetsCounted
  <2> SUFFICES ASSUME NEW r \in ResetTokens
               PROVE  resets[r] + Cardinality(Resetting(r)) <= Cardinality(Callers)
    BY DEF SessionsInit, ResetsCounted
  <2>1. Resetting(r) = {}
    BY DEF SessionsInit, Resetting, Quiet
  <2>2. Cardinality(Resetting(r)) = 0 /\ Cardinality(Callers) \in Nat
    BY <2>1, FS_EmptySet, FS_CardinalityType, SessionsAssumption
  <2> QED
    BY <2>2 DEF SessionsInit
<1>4. VerifiedByMail
  BY DEF SessionsInit, VerifiedByMail
<1> QED
  BY <1>1, <1>2, <1>3, <1>4 DEF SessionsInv

\* The handlers that leave the emailed tokens alone.
JWTStep(c) ==
    \/ RegisterUser(c) \/ Login(c) \/ ValidateToken(c) \/ Serve(c) \/ Logout(c) \/ Refresh(c)
    \/ UpdateProfile(c) \/ \E t \in Tokens : PassBlacklist(c, t)

\* Those about emailed tokens.
MailStep(c) ==
    \/ ForgotPassword(c) \/ UpdatePassword(c) \/ FinishReset(c) \/ UpdateEmailVerified(c)
    \/ \E r \in ResetTokens : ValidateReset(c, r) \/ ValidateEmail(c, r)

LEMMA SessionsNextSplit ==
    ASSUME SessionsNext
    PROVE  SessionsTick \/ SendVerificationEmail \/ \E c \in Callers : JWTStep(c) \/ MailStep(c)
BY DEF SessionsNext, JWTStep, MailStep

\* What a JWT handler does to the emailed tokens and to the requests that hold one.
LEMMA JWTStepEffect ==
    ASSUME SessionsInv, NEW c \in Callers, JWTStep(c)
    PROVE  /\ UNCHANGED <<resetLife, purpose, resets>>
           /\ account' = account \/ account' = "registered"
           /\ \E q \in Requests :
                 /\ caller' = [caller EXCEPT ![c] = q]
                 /\ q.at \in { "idle", "auth", "handler" } \/ q = caller[c]
                 /\ caller[c].at \in { "idle", "auth", "handler" }
<1>1. caller \in [Callers -> Requests]
  BY DEF SessionsInv, SessionsTypeOK
<1>2. Quiet \in Requests /\ Quiet.at = "idle"
  BY DEF Quiet, Requests
<1>3. UNCHANGED <<resetLife, purpose, resets>> /\ (account' = account \/ account' = "registered")
  BY DEF JWTStep, RegisterUser, Login, ValidateToken, Serve, Logout, Refresh, UpdateProfile, PassBlacklist
<1>4. CASE RegisterUser(c) \/ Login(c)
  <2>1. caller' = [caller EXCEPT ![c] = caller[c]] /\ caller[c] = Quiet
    BY <1>1, <1>4 DEF RegisterUser, Login
  <2> QED
    BY <1>1, <1>2, <1>3, <2>1
<1>5. CASE ValidateToken(c)
  <2>1. caller' = [caller EXCEPT ![c] = [@ EXCEPT !.at = "handler"]] \/ caller' = [caller EXCEPT ![c] = Quiet]
    BY <1>5 DEF ValidateToken, Becomes, Ends
  <2>2. [caller[c] EXCEPT !.at = "handler"] \in Requests
    BY <1>1 DEF Requests
  <2>3. [caller[c] EXCEPT !.at = "handler"].at = "handler"
    BY <1>1 DEF Requests
  <2> QED
    BY <1>1, <1>2, <1>3, <1>5, <2>1, <2>2, <2>3 DEF ValidateToken
<1>6. CASE Serve(c) \/ Logout(c) \/ Refresh(c) \/ UpdateProfile(c)
  <2>1. caller' = [caller EXCEPT ![c] = Quiet] /\ caller[c].at = "handler"
    BY <1>6 DEF Serve, Logout, Refresh, UpdateProfile, Ends, RequireJWTRefresh
  <2> QED
    BY <1>2, <1>3, <2>1
<1>7. ASSUME NEW t \in Tokens, PassBlacklist(c, t) PROVE \E q \in Requests :
                 /\ caller' = [caller EXCEPT ![c] = q]
                 /\ q.at \in { "idle", "auth", "handler" } \/ q = caller[c]
                 /\ caller[c].at \in { "idle", "auth", "handler" }
  <2> DEFINE q == [at |-> "auth", with |-> t, out |-> t \in loggedOut]
  <2>1. q \in Requests /\ q.at = "auth"
    BY DEF Requests
  <2>2. caller' = [caller EXCEPT ![c] = q] /\ caller[c] = Quiet
    BY <1>7 DEF PassBlacklist
  <2> QED
    BY <1>2, <2>1, <2>2
<1> QED
  BY <1>3, <1>4, <1>5, <1>6, <1>7 DEF JWTStep

\* A JWT handler keeps what holds of requests and tokens.
LEMMA JWTStepKeeps ==
    ASSUME SessionsInv, NEW c \in Callers, JWTStep(c)
    PROVE  SessionsInv'
<1> USE DEF SessionsInv
<1>0. PICK q \in Requests : /\ caller' = [caller EXCEPT ![c] = q]
                            /\ q.at \in { "idle", "auth", "handler" } \/ q = caller[c]
                            /\ caller[c].at \in { "idle", "auth", "handler" }
  BY JWTStepEffect
<1>1. UNCHANGED <<resetLife, purpose, resets>> /\ (account' = account \/ account' = "registered")
  BY JWTStepEffect
<1>2. caller \in [Callers -> Requests] /\ caller' \in [Callers -> Requests]
  BY <1>0 DEF SessionsTypeOK
<1>3. ResetsCounted'
  <2>1. \A r \in ResetTokens : Resetting(r)' = Resetting(r) /\ Spending(r)' = Spending(r)
    BY <1>0, <1>2 DEF Resetting, Spending
  <2> QED
    BY <1>1, <2>1 DEF ResetsCounted
<1>4. VerifiedByMail'
  BY <1>1 DEF VerifiedByMail
<1>5. ASSUME NEW t \in Tokens, GenerateToken(t), UNCHANGED <<black, loggedOut, wronglyServed>>,
             caller'[c].at \notin { "auth", "handler" }
      PROVE  SessionsTypeOK' /\ RequestsHold' /\ BlacklistOutlives'
  <2>1. SessionsTypeOK'
    BY <1>1, <1>2, <1>5, SessionsAssumption DEF SessionsTypeOK, GenerateToken
  <2>2. RequestsHold'
    BY <1>0, <1>1, <1>2, <1>5 DEF RequestsHold, GenerateToken, SessionsTypeOK
  <2>3. \A u \in Tokens : life'[u] <= TokenLife /\ (u \in loggedOut' => life'[u] <= black'[u])
    BY <1>5, SessionsAssumption DEF BlacklistOutlives, GenerateToken, SessionsTypeOK
  <2>4. \A d \in Callers : caller'[d].at = "auth" /\ caller'[d].out => life'[caller'[d].with] = 0
    BY <1>0, <1>2, <1>5 DEF BlacklistOutlives, GenerateToken, SessionsTypeOK, RequestsHold
  <2> QED
    BY <1>5, <2>1, <2>2, <2>3, <2>4 DEF BlacklistOutlives
<1>6. CASE RegisterUser(c) \/ Login(c) \/ Refresh(c) \/ UpdateProfile(c)
  <2>1. caller'[c].at \notin { "auth", "handler" } /\ UNCHANGED <<black, loggedOut, wronglyServed>>
    BY <1>6, <1>2 DEF RegisterUser, Login, Refresh, UpdateProfile, Ends, Quiet
  <2>2. PICK t \in Tokens : GenerateToken(t)
    BY <1>6 DEF RegisterUser, Login, Refresh, UpdateProfile, RequireJWTRefresh
  <2> QED
    BY <1>3, <1>4, <1>5, <2>1, <2>2
<1>7. CASE Serve(c)
  <2>1. SessionsTypeOK' /\ RequestsHold'
    BY <1>2, <1>7 DEF Serve, Ends, Quiet, SessionsTypeOK, RequestsHold
  <2>2. BlacklistOutlives'
    BY <1>2, <1>7 DEF Serve, Ends, Quiet, BlacklistOutlives
  <2> QED
    BY <1>3, <1>4, <2>1, <2>2
<1>8. CASE ValidateToken(c)
  <2>0. caller[c].with \in issued /\ issued \subseteq Tokens /\ life \in [Tokens -> Nat]
    BY <1>8 DEF ValidateToken, RequestsHold, SessionsTypeOK
  <2>1. CASE life[caller[c].with] > 0
    <3>1. caller' = [caller EXCEPT ![c].at = "handler"] /\ wronglyServed' = (wronglyServed \/ caller[c].out)
      BY <1>8, <2>1 DEF ValidateToken, Becomes
    <3>2. caller'[c].at = "handler" /\ caller'[c].with = caller[c].with
      BY <1>2, <3>1 DEF Requests
    <3>3. \A d \in Callers \ { c } : caller'[d] = caller[d]
      BY <1>2, <3>1
    <3>4. caller[c].out = FALSE
      BY <1>2, <1>8, <2>1 DEF BlacklistOutlives, ValidateToken, Requests
    <3>5. SessionsTypeOK' /\ RequestsHold'
      BY <1>2, <1>8, <2>0, <3>2, <3>3 DEF ValidateToken, SessionsTypeOK, RequestsHold
    <3>6. BlacklistOutlives'
      BY <1>2, <1>8, <3>1, <3>2, <3>3, <3>4 DEF ValidateToken, BlacklistOutlives
    <3> QED
      BY <1>3, <1>4, <3>5, <3>6
  <2>2. CASE ~(life[caller[c].with] > 0)
    <3>1. SessionsTypeOK' /\ RequestsHold'
      BY <1>2, <1>8, <2>2 DEF ValidateToken, Ends, Quiet, SessionsTypeOK, RequestsHold
    <3>2. BlacklistOutlives'
      BY <1>2, <1>8, <2>2 DEF ValidateToken, Ends, Quiet, BlacklistOutlives
    <3> QED
      BY <1>3, <1>4, <3>1, <3>2
  <2> QED
    BY <2>1, <2>2
<1>9. CASE Logout(c)
  <2>0. caller[c].with \in issued /\ issued \subseteq Tokens
    BY <1>9 DEF Logout, RequestsHold, SessionsTypeOK
  <2>1. SessionsTypeOK'
    BY <1>2, <1>9, <2>0, SessionsAssumption DEF Logout, Revoke, SessionsTypeOK
  <2>2. RequestsHold'
    BY <1>2, <1>9 DEF Logout, Ends, Quiet, RequestsHold
  <2>3. \A u \in Tokens : life'[u] <= TokenLife /\ (u \in loggedOut' => life'[u] <= black'[u])
    BY <1>9, <2>0, SessionsAssumption DEF BlacklistOutlives, Logout, Revoke, SessionsTypeOK
  <2>4. \A d \in Callers : caller'[d].at = "auth" /\ caller'[d].out => life'[caller'[d].with] = 0
    BY <1>2, <1>9 DEF BlacklistOutlives, Logout, Ends, Quiet
  <2>5. ~wronglyServed'
    BY <1>9 DEF BlacklistOutlives, Logout
  <2> QED
    BY <1>3, <1>4, <2>1, <2>2, <2>3, <2>4, <2>5 DEF BlacklistOutlives
<1>10. ASSUME NEW t \in Tokens, PassBlacklist(c, t) PROVE SessionsInv'
  <2>1. /\ caller'[c].at = "auth" /\ caller'[c].with = t
        /\ caller'[c].out = (t \in loggedOut) /\ t \in issued /\ ~(black[t] > 0)
    BY <1>2, <1>10 DEF PassBlacklist, IsRevoked
  <2>2. \A d \in Callers \ { c } : caller'[d] = caller[d]
    BY <1>2, <1>10 DEF PassBlacklist
  <2>3. SessionsTypeOK' /\ RequestsHold'
    BY <1>2, <1>10, <2>1, <2>2 DEF PassBlacklist, SessionsTypeOK, RequestsHold
  <2>4. t \in loggedOut => life[t] = 0
    BY <2>1 DEF BlacklistOutlives, SessionsTypeOK
  <2>5. BlacklistOutlives'
    BY <1>10, <2>1, <2>2, <2>4 DEF PassBlacklist, BlacklistOutlives
  <2> QED
    BY <1>3, <1>4, <2>3, <2>5
<1> QED
  BY <1>6, <1>7, <1>8, <1>9, <1>10 DEF JWTStep

LEMMA CallersFinite ==
    /\ Cardinality(Callers) \in Nat
    /\ \A r \in ResetTokens : /\ IsFiniteSet(Resetting(r)) /\ Cardinality(Resetting(r)) \in Nat
                              /\ IsFiniteSet(Spending(r)) /\ Cardinality(Spending(r)) \in Nat
<1>1. \A r \in ResetTokens : Resetting(r) \subseteq Callers /\ Spending(r) \subseteq Callers
  BY DEF Resetting, Spending
<1> QED
  BY <1>1, FS_Subset, FS_CardinalityType, SessionsAssumption

\* A new emailed token has been used by nobody.
LEMMA MailKeepsCounts ==
    ASSUME SessionsInv, NEW r \in ResetTokens, NEW for \in { "verify", "reset" }, NEW ttl \in Nat,
           GenerateVerificationToken(r, for, ttl), UNCHANGED <<life, issued, black, caller, loggedOut, resets, wronglyServed>>
    PROVE  SessionsTypeOK' /\ RequestsHold' /\ BlacklistOutlives' /\ ResetsCounted'
<1> USE DEF SessionsInv
<1>1. SessionsTypeOK' /\ BlacklistOutlives'
  BY DEF GenerateVerificationToken, SessionsTypeOK, BlacklistOutlives
<1>2. RequestsHold'
  BY DEF GenerateVerificationToken, SessionsTypeOK, RequestsHold
<1>3. \A u \in ResetTokens : Resetting(u)' = Resetting(u) /\ Spending(u)' = Spending(u)
  BY DEF Resetting, Spending
<1>4. Spending(r) = {} /\ resets[r] = 0
  <2>1. purpose[r] = "unsent" /\ resets[r] \in Nat
    BY DEF GenerateVerificationToken, SessionsTypeOK
  <2>2. ~(resets[r] > 0)
    BY <2>1 DEF ResetsCounted
  <2>3. \A c \in Callers : ~(caller[c].at = "spend" /\ caller[c].with = r)
    BY <2>1 DEF RequestsHold
  <2> QED
    BY <2>1, <2>2, <2>3 DEF Spending
<1>5. Cardinality(Spending(r)) = 0
  BY <1>4, FS_EmptySet
<1>6. \A u \in ResetTokens \ { r } : purpose'[u] = purpose[u] /\ resetLife'[u] = resetLife[u]
  BY DEF GenerateVerificationToken, SessionsTypeOK
<1>7. ResetsCounted'
  BY <1>3, <1>4, <1>5, <1>6 DEF ResetsCounted
<1> QED
  BY <1>1, <1>2, <1>7

\* So does a handler of the emailed tokens.
LEMMA MailStepKeeps ==
    ASSUME SessionsInv, NEW c \in Callers, MailStep(c)
    PROVE  SessionsInv'
<1> USE DEF SessionsInv
<1>0. caller \in [Callers -> Requests]
  BY DEF SessionsTypeOK
<1>1. CASE ForgotPassword(c)
  <2>1. PICK r \in ResetTokens : GenerateVerificationToken(r, "reset", ResetLife)
    BY <1>1 DEF ForgotPassword, SendPasswordResetEmail
  <2>2. SessionsTypeOK' /\ RequestsHold' /\ BlacklistOutlives' /\ ResetsCounted'
    BY <1>1, <2>1, MailKeepsCounts, SessionsAssumption DEF ForgotPassword
  <2>3. VerifiedByMail'
    BY <1>1, <2>1 DEF ForgotPassword, GenerateVerificationToken, VerifiedByMail, SessionsTypeOK
  <2> QED
    BY <2>2, <2>3
<1>2. ASSUME NEW r \in ResetTokens, NEW for \in { "reset", "verify" }, caller[c] = Quiet, Valid(r, for),
             caller' = [caller EXCEPT ![c] = [at |-> for, with |-> r, out |-> FALSE]],
             UNCHANGED <<life, issued, black, resetLife, purpose, account, loggedOut, resets, wronglyServed>>
      PROVE  SessionsInv'
  <2>1. caller'[c].at = for /\ caller'[c].with = r /\ \A d \in Callers \ { c } : caller'[d] = caller[d]
    BY <1>0, <1>2
  <2>2. SessionsTypeOK'
    BY <1>0, <1>2 DEF SessionsTypeOK, Requests
  <2>3. RequestsHold'
    BY <1>2, <2>1 DEF RequestsHold, Valid
  <2>4. BlacklistOutlives' /\ VerifiedByMail'
    BY <1>2, <2>1 DEF BlacklistOutlives, VerifiedByMail
  <2>5. \A u \in ResetTokens : Spending(u)' = Spending(u)
    BY <1>2, <2>1 DEF Spending, Quiet
  <2>6. \A u \in ResetTokens : u # r \/ for = "verify" => Resetting(u)' = Resetting(u)
    BY <1>2, <2>1 DEF Resetting, Quiet
  <2>7. CASE for = "verify"
    <3>1. ResetsCounted'
      BY <1>2, <2>5, <2>6, <2>7 DEF ResetsCounted
    <3> QED
      BY <2>2, <2>3, <2>4, <3>1
  <2>8. CASE for = "reset"
    <3>1. Resetting(r)' = Resetting(r) \cup { c } /\ c \notin Resetting(r) /\ c \notin Spending(r)
      BY <1>2, <2>1, <2>8 DEF Resetting, Spending, Quiet
    <3>2. Cardinality(Resetting(r)') = Cardinality(Resetting(r)) + 1
      BY <3>1, CallersFinite, FS_AddElement
    <3>3. Resetting(r)' \cap Spending(r) = {} /\ Resetting(r)' \cup Spending(r) \subseteq Callers
      BY <2>8, <3>1 DEF Resetting, Spending
    <3>4. IsFiniteSet(Resetting(r)')
      BY <3>3, FS_Subset, SessionsAssumption
    <3>5. Cardinality(Resetting(r)' \cup Spending(r)) = Cardinality(Resetting(r)') + Cardinality(Spending(r))
      <4> DEFINE A == Resetting(r)'
                 B == Spending(r)
      <4>1. IsFiniteSet(A) /\ IsFiniteSet(B) /\ A \cap B = {}
        BY <3>3, <3>4, CallersFinite
      <4>2. Cardinality(A) \in Nat /\ Cardinality(B) \in Nat
        BY <4>1, FS_CardinalityType
      <4> HIDE DEF A, B
      <4>3. Cardinality(A \cup B) = Cardinality(A) + Cardinality(B) - Cardinality(A \cap B)
        BY <4>1, FS_Union
      <4>4. Cardinality(A \cap B) = 0
        BY <4>1, FS_EmptySet
      <4>5. Cardinality(A \cup B) = Cardinality(A) + Cardinality(B)
        BY <4>2, <4>3, <4>4
      <4> QED
        BY <4>5 DEF A, B
    <3>6. Cardinality(Resetting(r)') + Cardinality(Spending(r)) <= Cardinality(Callers)
      BY <3>3, <3>5, FS_Subset, SessionsAssumption
    <3>7. resets[r] = Cardinality(Spending(r))
      BY <1>2, <2>8 DEF Valid, ResetsCounted
    <3>8. resets'[r] + Cardinality(Resetting(r)') <= Cardinality(Callers)
      BY <1>2, <3>2, <3>6, <3>7, CallersFinite
    <3>9. ResetsCounted'
      BY <1>2, <2>5, <2>6, <3>8 DEF ResetsCounted
    <3> QED
      BY <2>2, <2>3, <2>4, <3>9
  <2> QED
    BY <2>7, <2>8
<1>3. CASE \E r \in ResetTokens : ValidateReset(c, r) \/ ValidateEmail(c, r)
  BY <1>2, <1>3 DEF ValidateReset, ValidateEmail
\* A request that is over with nothing done.
<1>4. ASSUME Ends(c), caller[c].at \in { "reset", "verify" },
             UNCHANGED <<life, issued, black, resetLife, purpose, account, loggedOut, resets, wronglyServed>>
      PROVE  SessionsInv'
  <2>1. caller'[c] = Quiet /\ \A d \in Callers \ { c } : caller'[d] = caller[d]
    BY <1>0, <1>4 DEF Ends
  <2>2. SessionsTypeOK' /\ RequestsHold'
    BY <1>0, <1>4, <2>1 DEF SessionsTypeOK, Requests, RequestsHold, Ends, Quiet
  <2>3. BlacklistOutlives' /\ VerifiedByMail'
    BY <1>4, <2>1 DEF BlacklistOutlives, VerifiedByMail, Quiet
  <2>4. \A u \in ResetTokens : Spending(u)' = Spending(u) /\ Resetting(u)' \subseteq Resetting(u)
    BY <1>4, <2>1 DEF Spending, Resetting, Quiet
  <2>5. \A u \in ResetTokens : Cardinality(Resetting(u)') <= Cardinality(Resetting(u))
                              /\ Cardinality(Resetting(u)') \in Nat
    BY <2>4, CallersFinite, FS_Subset, FS_CardinalityType
  <2>6. ASSUME NEW u \in ResetTokens PROVE resets'[u] + Cardinality(Resetting(u)') <= Cardinality(Callers)
    BY <1>4, <2>5, CallersFinite DEF ResetsCounted, SessionsTypeOK
  <2>7. ResetsCounted'
    BY <1>4, <2>4, <2>6 DEF ResetsCounted
  <2> QED
    BY <2>2, <2>3, <2>7
<1>5. CASE UpdatePassword(c) /\ ~Ends(c)
  <2> DEFINE w == caller[c].with
  <2>0. /\ caller[c].at = "reset" /\ w \in ResetTokens /\ purpose[w] = "reset"
        /\ caller' = [caller EXCEPT ![c].at = "spend"] /\ resets' = [resets EXCEPT ![w] = @ + 1]
        /\ UNCHANGED <<life, issued, black, resetLife, purpose, account, loggedOut, wronglyServed>>
    BY <1>5 DEF UpdatePassword, Becomes, RequestsHold
  <2>1. caller'[c].at = "spend" /\ caller'[c].with = w /\ \A d \in Callers \ { c } : caller'[d] = caller[d]
    BY <1>0, <2>0 DEF Requests
  <2>2. SessionsTypeOK'
    BY <1>0, <2>0 DEF SessionsTypeOK, Requests
  <2>3. RequestsHold'
    BY <2>0, <2>1 DEF RequestsHold
  <2>4. BlacklistOutlives' /\ VerifiedByMail'
    BY <2>0, <2>1 DEF BlacklistOutlives, VerifiedByMail
  <2>5. Spending(w)' = Spending(w) \cup { c } /\ Resetting(w)' = Resetting(w) \ { c }
        /\ c \notin Spending(w) /\ c \in Resetting(w)
    BY <2>0, <2>1 DEF Spending, Resetting
  <2>6. Cardinality(Spending(w)') = Cardinality(Spending(w)) + 1
        /\ Cardinality(Resetting(w)') = Cardinality(Resetting(w)) - 1
    <3>1. Spending(w) \in SUBSET Callers /\ Resetting(w) \in SUBSET Callers
      BY DEF Spending, Resetting
    <3> QED
      BY <2>5, <3>1, CountEnters, CountLeaves, SessionsAssumption
  <2>7. \A u \in ResetTokens \ { w } : /\ Spending(u)' = Spending(u) /\ Resetting(u)' = Resetting(u)
                                        /\ resets'[u] = resets[u]
    BY <2>0, <2>1 DEF Spending, Resetting, SessionsTypeOK
  <2>8. resets'[w] = resets[w] + 1 /\ resets[w] \in Nat
    BY <2>0 DEF SessionsTypeOK
  <2>9. ResetsCounted'
    <3>1. /\ resets'[w] + Cardinality(Resetting(w)') <= Cardinality(Callers)
          /\ resetLife'[w] > 0 => resets'[w] = Cardinality(Spending(w)')
      BY <2>0, <2>6, <2>8, CallersFinite DEF ResetsCounted
    <3> QED
      BY <2>0, <2>7, <3>1 DEF ResetsCounted
  <2> QED
    BY <2>2, <2>3, <2>4, <2>9
<1>6. CASE UpdateEmailVerified(c) /\ ~(Ends(c) /\ UNCHANGED account)
  <2> DEFINE w == caller[c].with
  <2>0. /\ caller[c].at = "verify" /\ w \in ResetTokens /\ purpose[w] = "verify"
        /\ caller' = [caller EXCEPT ![c].at = "spend"]
        /\ UNCHANGED <<life, issued, black, resetLife, purpose, loggedOut, resets, wronglyServed>>
    BY <1>6 DEF UpdateEmailVerified, Becomes, RequestsHold
  <2>1. caller'[c].at = "spend" /\ caller'[c].with = w /\ \A d \in Callers \ { c } : caller'[d] = caller[d]
    BY <1>0, <2>0 DEF Requests
  <2>2. SessionsTypeOK'
    BY <1>0, <2>0 DEF SessionsTypeOK, Requests
  <2>3. RequestsHold'
    BY <2>0, <2>1 DEF RequestsHold
  <2>4. BlacklistOutlives' /\ VerifiedByMail'
    BY <2>0, <2>1 DEF BlacklistOutlives, VerifiedByMail
  <2>5. \A u \in ResetTokens : Resetting(u)' = Resetting(u) /\ (u # w => Spending(u)' = Spending(u))
    BY <2>0, <2>1 DEF Spending, Resetting
  <2>6. ResetsCounted'
    BY <2>0, <2>5 DEF ResetsCounted
  <2> QED
    BY <2>2, <2>3, <2>4, <2>6
<1>7. CASE FinishReset(c)
  <2> DEFINE w == caller[c].with
  <2>0. /\ caller[c].at = "spend" /\ w \in ResetTokens
        /\ caller' = [caller EXCEPT ![c] = Quiet] /\ resetLife' = [resetLife EXCEPT ![w] = 0]
        /\ UNCHANGED <<life, issued, black, purpose, account, loggedOut, resets, wronglyServed>>
    BY <1>7 DEF FinishReset, InvalidateToken, Ends, RequestsHold
  <2>1. caller'[c] = Quiet /\ \A d \in Callers \ { c } : caller'[d] = caller[d]
    BY <1>0, <2>0
  <2>2. SessionsTypeOK' /\ RequestsHold'
    BY <1>0, <2>0, <2>1 DEF SessionsTypeOK, Requests, RequestsHold, Quiet
  <2>3. BlacklistOutlives' /\ VerifiedByMail'
    BY <2>0, <2>1 DEF BlacklistOutlives, VerifiedByMail, Quiet
  <2>4. \A u \in ResetTokens : Resetting(u)' = Resetting(u) /\ (u # w => Spending(u)' = Spending(u))
    BY <2>0, <2>1 DEF Spending, Resetting, Quiet
  <2>5. resetLife'[w] = 0 /\ \A u \in ResetTokens \ { w } : resetLife'[u] = resetLife[u]
    BY <2>0 DEF SessionsTypeOK
  <2>6. ResetsCounted'
    BY <2>0, <2>4, <2>5 DEF ResetsCounted
  <2> QED
    BY <2>2, <2>3, <2>6
<1>8. ASSUME UpdatePassword(c) /\ Ends(c) /\ UNCHANGED resets PROVE SessionsInv'
  BY <1>4, <1>8 DEF UpdatePassword
<1>9. UpdatePassword(c) /\ Ends(c) => UNCHANGED resets
  <2> SUFFICES ASSUME UpdatePassword(c), Ends(c), Becomes(c, "spend") PROVE FALSE
    BY DEF UpdatePassword
  <2>1. caller'[c].at = "spend" /\ caller'[c].at = "idle"
    BY <1>0 DEF Becomes, Ends, Quiet, Requests
  <2> QED
    BY <2>1
<1>10. ASSUME UpdateEmailVerified(c) /\ Ends(c) /\ UNCHANGED account PROVE SessionsInv'
  BY <1>4, <1>10 DEF UpdateEmailVerified
<1> QED
  BY <1>1, <1>3, <1>5, <1>6, <1>7, <1>8, <1>9, <1>10 DEF MailStep

\* Time shortens what is left of a token and of its blacklist entry alike.
LEMMA TickKeeps ==
    ASSUME SessionsInv, SessionsTick
    PROVE  SessionsInv'
<1> USE DEF SessionsInv, SessionsTick
<1>1. /\ DOMAIN life = Tokens /\ DOMAIN black = Tokens /\ DOMAIN resetLife = ResetTokens
      /\ life \in [Tokens -> Nat] /\ black \in [Tokens -> Nat] /\ resetLife \in [ResetTokens -> Nat]
  BY DEF SessionsTypeOK
<1>2. SessionsTypeOK' /\ RequestsHold' /\ VerifiedByMail'
  BY <1>1 DEF Older, SessionsTypeOK, RequestsHold, VerifiedByMail
<1>3. \A t \in Tokens : life'[t] <= life[t] /\ (life[t] <= black[t] => life'[t] <= black'[t])
                        /\ (life[t] = 0 => life'[t] = 0) /\ life'[t] \in Nat
  BY <1>1 DEF Older
<1>4. \A t \in Tokens : life'[t] <= TokenLife /\ (t \in loggedOut' => life'[t] <= black'[t])
  BY <1>1, <1>3, SessionsAssumption DEF BlacklistOutlives
<1>5. \A c \in Callers : caller'[c].at = "auth" /\ caller'[c].out => life'[caller'[c].with] = 0
  BY <1>3 DEF BlacklistOutlives, RequestsHold, SessionsTypeOK
<1>6. \A r \in ResetTokens : /\ resetLife'[r] > 0 => resetLife[r] > 0
                             /\ Resetting(r)' = Resetting(r) /\ Spending(r)' = Spending(r)
  BY <1>1 DEF Older, Resetting, Spending
<1>7. ResetsCounted'
  BY <1>6 DEF ResetsCounted
<1> QED
  BY <1>2, <1>4, <1>5, <1>7 DEF BlacklistOutlives

LEMMA SessionsStepKeeps ==
    ASSUME SessionsInv, [SessionsNext]_sessionVars
    PROVE  SessionsInv'
<1> USE DEF SessionsInv
<1>1. CASE UNCHANGED sessionVars
  <2>1. \A r \in ResetTokens : Resetting(r)' = Resetting(r) /\ Spending(r)' = Spending(r)
    BY <1>1 DEF sessionVars, Resetting, Spending
  <2> QED
    BY <1>1, <2>1 DEF sessionVars, SessionsTypeOK, RequestsHold, BlacklistOutlives, ResetsCounted, VerifiedByMail
<1>2. CASE SendVerificationEmail
  <2>1. VerifiedByMail'
    BY <1>2 DEF SendVerificationEmail, VerifiedByMail
  <2>2. ASSUME NEW r \in ResetTokens, GenerateVerificationToken(r, "verify", VerifyLife) PROVE SessionsInv'
    <3>1. SessionsTypeOK' /\ RequestsHold' /\ BlacklistOutlives' /\ ResetsCounted'
      BY <1>2, <2>2, MailKeepsCounts, SessionsAssumption DEF SendVerificationEmail
    <3> QED
      BY <2>1, <3>1
  <2>3. CASE UNCHANGED <<purpose, resetLife>>
    <3>1. \A r \in ResetTokens : Resetting(r)' = Resetting(r) /\ Spending(r)' = Spending(r)
      BY <1>2 DEF SendVerificationEmail, Resetting, Spending
    <3> QED
      BY <1>2, <2>1, <2>3, <3>1
      DEF SendVerificationEmail, SessionsTypeOK, RequestsHold, BlacklistOutlives, ResetsCounted
  <2> QED
    BY <1>2, <2>2, <2>3 DEF SendVerificationEmail
<1> QED
  BY <1>1, <1>2, SessionsNextSplit, TickKeeps, JWTStepKeeps, MailStepKeeps

LEMMA CredentialsAlwaysSpent == SessionsSpec => []CredentialsSpent
<1>1. SessionsInv => CredentialsSpent
  <2> SUFFICES ASSUME SessionsInv PROVE CredentialsSpent
    OBVIOUS
  <2>1. ASSUME NEW r \in ResetTokens PROVE resets[r] <= Cardinality(Callers)
    BY CallersFinite DEF SessionsInv, ResetsCounted, SessionsTypeOK
  <2> QED
    BY <2>1 DEF SessionsInv, BlacklistOutlives, ResetsCounted, VerifiedByMail, CredentialsSpent
<1> QED
  BY <1>1, SessionsInitial, SessionsStepKeeps, PTL DEF SessionsSpec

\* Accounts!CredentialsSound: no interleaving of logins, logouts, refreshes, resets,
\* expiries, rotations and cleanups serves a token after its logout was answered, lets a
\* reset token set more passwords than there are requests, crosses the two purposes of
\* an emailed token, leaves a user who deleted no key without a lasting one, or lets
\* more wrong passwords through than were past the lockout's check.
THEOREM CredentialsAlwaysSound ==
    SessionsSpec /\ APIKeysSpec /\ LoginGuardSpec => []CredentialsSound
<1>1. CredentialsSpent /\ KeysKept /\ GuessesBounded => CredentialsSound
  BY DEF CredentialsSound
<1> QED
  BY <1>1, CredentialsAlwaysSpent, KeysAlwaysKept, GuessesAlwaysBounded, PTL

--------------------------------------------------------------------------------
(* Walking a list *)

\* Newer rows come first, and no row is left out.
LEMMA Ordered ==
    ASSUME NEW S \in SUBSET Int, IsFiniteSet(S)
    PROVE  /\ Cardinality(S) \in Nat
           /\ NewestFirst(S) \in [1 .. Cardinality(S) -> S]
           /\ NewestFirst(S) \in Seq(S) /\ Len(NewestFirst(S)) = Cardinality(S)
           /\ \A i \in 1 .. Cardinality(S) : Cardinality(Newer(S, NewestFirst(S)[i])) = i - 1
           /\ \A i, j \in 1 .. Cardinality(S) : i < j => NewestFirst(S)[j] < NewestFirst(S)[i]
           /\ \A r \in S : /\ Cardinality(Newer(S, r)) \in 0 .. (Cardinality(S) - 1)
                           /\ NewestFirst(S)[Cardinality(Newer(S, r)) + 1] = r
<1> DEFINE n == Cardinality(S)
           rank == [r \in S |-> Cardinality(Newer(S, r))]
           l == NewestFirst(S)
<1>0. \A x \in S : x \in Int
  OBVIOUS
<1>1. n \in Nat
  BY FS_CardinalityType
<1>2. \A r \in S : IsFiniteSet(Newer(S, r)) /\ Cardinality(Newer(S, r)) \in Nat
  BY FS_Subset, FS_CardinalityType DEF Newer
<1>3. ASSUME NEW r \in S, NEW x \in S, x < r
      PROVE  Cardinality(Newer(S, r)) < Cardinality(Newer(S, x))
  <2>1. Newer(S, r) \subseteq Newer(S, x) /\ r \in Newer(S, x) /\ r \notin Newer(S, r)
    <3>1. r \in Int /\ x \in Int /\ ~(r < r)
      BY <1>0
    <3>2. ASSUME NEW y \in S, r < y PROVE x < y
      BY <1>0, <1>3, <3>1, <3>2
    <3> QED
      BY <1>3, <3>1, <3>2 DEF Newer
  <2>2. Newer(S, r) # Newer(S, x)
    BY <2>1
  <2> QED
    BY <1>2, <2>1, <2>2, FS_Subset
<1>4. ASSUME NEW r \in S PROVE Cardinality(Newer(S, r)) < n
  <2>1. Newer(S, r) \subseteq S /\ r \notin Newer(S, r)
    BY DEF Newer
  <2>2. Newer(S, r) # S
    BY <2>1
  <2> QED
    BY <1>1, <1>2, <2>1, <2>2, FS_Subset
<1>5. rank \in [S -> 0 .. (n - 1)]
  BY <1>1, <1>2, <1>4
<1>6. \A r, x \in S : rank[r] = rank[x] => r = x
  <2>1. ASSUME NEW r \in S, NEW x \in S, rank[r] = rank[x], r # x PROVE FALSE
    <3>1. r < x \/ x < r
      BY <2>1
    <3> QED
      BY <1>2, <1>3, <2>1, <3>1
  <2> QED
    BY <2>1
<1>7. \A i \in 1 .. n : \E r \in S : rank[r] = i - 1
  <2>1. rank \in Injection(S, 0 .. (n - 1))
    BY <1>5, <1>6 DEF Injection, IsInjective
  <2>2. IsFiniteSet(0 .. (n - 1)) /\ Cardinality(0 .. (n - 1)) = n
    BY <1>1, FS_Interval
  <2>3. rank \in Surjection(S, 0 .. (n - 1))
    BY <2>1, <2>2, FS_Injection
  <2>4. ASSUME NEW i \in 1 .. n PROVE \E r \in S : rank[r] = i - 1
    <3>1. i - 1 \in 0 .. (n - 1)
      BY <1>1
    <3> QED
      BY <2>3, <3>1 DEF Surjection
  <2> QED
    BY <2>4
<1>8. \A i \in 1 .. n : l[i] \in S /\ rank[l[i]] = i - 1
  <2> SUFFICES ASSUME NEW i \in 1 .. n PROVE l[i] \in S /\ rank[l[i]] = i - 1
    OBVIOUS
  <2>1. l[i] = CHOOSE r \in S : Cardinality(Newer(S, r)) = i - 1
    BY DEF NewestFirst
  <2>2. \E r \in S : Cardinality(Newer(S, r)) = i - 1
    BY <1>7
  <2> QED
    BY <2>1, <2>2
<1>9. l \in [1 .. n -> S]
  BY <1>8 DEF NewestFirst
<1> HIDE DEF l
<1>10. ASSUME NEW i \in 1 .. n, NEW j \in 1 .. n, i < j PROVE l[j] < l[i]
  <2>1. rank[l[i]] < rank[l[j]] /\ l[i] \in S /\ l[j] \in S
    BY <1>1, <1>8, <1>10
  <2>2. l[i] < l[j] => rank[l[j]] < rank[l[i]]
    BY <1>3, <2>1
  <2>3. rank[l[i]] \in Int /\ rank[l[j]] \in Int /\ l[i] \in Int /\ l[j] \in Int
    <3>1. l[i] \in Int /\ l[j] \in Int
      BY <1>0, <2>1
    <3>2. rank[l[i]] \in 0 .. (n - 1) /\ rank[l[j]] \in 0 .. (n - 1)
      BY <1>5, <2>1
    <3> QED
      BY <1>1, <3>1, <3>2
  <2> HIDE DEF rank
  <2>4. ~(l[i] < l[j]) /\ l[i] # l[j]
    BY <2>1, <2>2, <2>3
  <2> QED
    BY <2>3, <2>4
<1>11. ASSUME NEW r \in S
       PROVE  Cardinality(Newer(S, r)) \in 0 .. (n - 1) /\ l[Cardinality(Newer(S, r)) + 1] = r
  <2>1. rank[r] \in 0 .. (n - 1) /\ rank[r] + 1 \in 1 .. n
    BY <1>1, <1>5
  <2>2. l[rank[r] + 1] \in S /\ rank[l[rank[r] + 1]] = rank[r]
    BY <1>8, <2>1
  <2> QED
    BY <1>6, <2>1, <2>2
<1>12. l \in Seq(S) /\ Len(l) = n
  BY <1>1, <1>9
<1> QED
  BY <1>1, <1>8, <1>9, <1>10, <1>11, <1>12 DEF l

\* Of the rows of a page, what comes after start.
LEMMA PageRows ==
    ASSUME NEW S \in SUBSET Int, NEW list \in Seq(S), NEW from \in 0 .. Len(list), Limit \in Nat \ { 0 }
    PROVE  /\ Page(list, from).hasMore \in BOOLEAN
           /\ Page(list, from).hasMore <=> from + Limit < Len(list)
           /\ Page(list, from).rows \in Seq(S)
           /\ Page(list, from).hasMore =>
                 Len(Page(list, from).rows) = Limit /\ Last(Page(list, from).rows) = list[from + Limit]
           /\ \A i \in 1 .. Len(list) :
                 from < i /\ i <= from + Limit =>
                    i - from \in 1 .. Len(Page(list, from).rows)
                    /\ Page(list, from).rows[i - from] = list[i]
           /\ \A k \in 1 .. Len(Page(list, from).rows) :
                 k <= Limit /\ from + k \in 1 .. Len(list) /\ Page(list, from).rows[k] = list[from + k]
<1> DEFINE end == IF from + Limit < Len(list) THEN from + Limit ELSE Len(list)
           rows == SubSeq(list, from + 1, end)
<1>1. Page(list, from) = [rows |-> rows, hasMore |-> from + Limit < Len(list)]
  BY DEF Page
<1>2. Len(list) \in Nat /\ end \in from .. Len(list)
  BY LenProperties
<1>3. rows \in Seq(S) /\ Len(rows) = end - from /\ \A k \in 1 .. Len(rows) : rows[k] = list[from + k]
  <2>1. from + 1 \in Int /\ end \in Int /\ \A i \in (from + 1) .. end : list[i] \in S
    BY <1>2, ElementOfSeq
  <2>2. /\ rows \in Seq(S)
        /\ Len(rows) = IF from + 1 <= end THEN end - (from + 1) + 1 ELSE 0
        /\ \A i \in 1 .. (end - (from + 1) + 1) : rows[i] = list[(from + 1) + i - 1]
    BY <2>1, SubSeqProperties
  <2> HIDE DEF rows, end
  <2>3. Len(rows) = end - from
    BY <1>2, <2>2
  <2>4. ASSUME NEW k \in 1 .. Len(rows) PROVE rows[k] = list[from + k]
    <3>1. rows[k] = list[(from + 1) + k - 1] /\ (from + 1) + k - 1 = from + k
      BY <1>2, <2>2, <2>3
    <3> QED
      BY <3>1
  <2> QED
    BY <2>2, <2>3, <2>4
<1> HIDE DEF rows
<1>4. from + Limit < Len(list) => Last(rows) = list[from + Limit]
  BY <1>2, <1>3 DEF Last
<1>5. ASSUME NEW i \in 1 .. Len(list), from < i, i <= from + Limit
      PROVE  i - from \in 1 .. Len(rows) /\ rows[i - from] = list[i]
  <2>1. i - from \in 1 .. Len(rows) /\ from + (i - from) = i
    BY <1>2, <1>3, <1>5
  <2> QED
    BY <1>3, <2>1
<1>6. \A k \in 1 .. Len(rows) :
         k <= Limit /\ from + k \in 1 .. Len(list) /\ rows[k] = list[from + k]
  BY <1>2, <1>3
<1>7. from + Limit < Len(list) => Len(rows) = Limit
  BY <1>2, <1>3
<1>8. /\ Page(list, from).rows = rows
      /\ Page(list, from).hasMore = (from + Limit < Len(list))
  BY <1>1
<1>9. /\ Page(list, from).hasMore \in BOOLEAN
      /\ Page(list, from).hasMore <=> from + Limit < Len(list)
  <2>1. CASE from + Limit < Len(list)
    <3>1. Page(list, from).hasMore = TRUE
      BY <1>8, <2>1
    <3> QED
      BY <2>1, <3>1
  <2>2. CASE ~(from + Limit < Len(list))
    <3>1. (from + Limit < Len(list)) = FALSE
      BY <2>2
    <3>2. Page(list, from).hasMore = FALSE
      BY <1>8, <3>1
    <3> QED
      BY <2>2, <3>2
  <2> QED
    BY <2>1, <2>2
<1> QED
  BY <1>3, <1>4, <1>5, <1>6, <1>7, <1>8, <1>9

Shown == ToSet(seen)
Walks == [mode : { "cursor", "page", "key" }, cursor : Nat, pages : Nat, ended : BOOLEAN]

\* A row the walk has left behind: by page number, one of the rows of the pages so far.
Behind(r) ==
    IF walk.mode = "page" THEN Cardinality(Newer(matching, r)) < walk.pages * Limit
    ELSE walk.cursor # 0 /\ walk.cursor <= r

(***************************************************************************)
(* WalkComplete rests on what was left behind: every row that was there    *)
(* all along and is behind the walk has been shown.                        *)
(***************************************************************************)
WalkInv ==
    /\ newest \in Nat /\ table \subseteq 1 .. newest /\ matching \subseteq table
    /\ walk \in Walks /\ seen \in Seq(Nat \ { 0 })
    /\ steady \subseteq (IF walk.mode = "key" THEN table ELSE matching)
    /\ ~walk.ended /\ ~(walk.mode = "page" /\ shrunk) =>
          \A r \in steady : Behind(r) => r \in Shown
    /\ ~walk.ended /\ walk.mode = "key" =>
          \A i \in DOMAIN seen : walk.cursor # 0 /\ walk.cursor <= seen[i]
    /\ WalkComplete

LEMMA LimitPositive == Limit \in Nat \ { 0 }
  BY ListingAssumption DEF Limit, ClampLimit

LEMMA RowsFinite ==
    ASSUME WalkInv, NEW S \in SUBSET table
    PROVE  IsFiniteSet(S) /\ S \in SUBSET (Nat \ { 0 }) /\ S \in SUBSET Int
<1>1. table \subseteq 1 .. newest /\ newest \in Nat
  BY DEF WalkInv
<1>2. IsFiniteSet(1 .. newest)
  BY <1>1, FS_Interval
<1>3. S \subseteq 1 .. newest
  BY <1>1
<1>4. IsFiniteSet(S)
  BY <1>2, <1>3, FS_Subset
<1>5. S \subseteq Nat \ { 0 }
  BY <1>1, <1>3
<1> QED
  BY <1>4, <1>5

\* What a page adds to the rows shown, and where it leaves the walk.
LEMMA Returned ==
    ASSUME WalkInv, NEW S \in SUBSET (Nat \ { 0 }), NEW list \in Seq(S), NEW from \in 0 .. Len(list),
           Return(Page(list, from))
    PROVE  /\ seen' \in Seq(Nat \ { 0 }) /\ Shown \subseteq Shown'
           /\ \A i \in 1 .. Len(list) : from < i /\ i <= from + Limit => list[i] \in Shown'
           /\ \A k \in DOMAIN seen' :
                 \/ k \in DOMAIN seen /\ seen'[k] = seen[k]
                 \/ /\ k \notin DOMAIN seen /\ k - Len(seen) \in 1 .. Limit
                    /\ from + (k - Len(seen)) \in 1 .. Len(list)
                    /\ seen'[k] = list[from + (k - Len(seen))]
           /\ walk' \in Walks /\ walk'.mode = walk.mode /\ walk'.pages = walk.pages + 1
           /\ from + Limit < Len(list) => ~walk'.ended /\ walk'.cursor = list[from + Limit]
           /\ ~(from + Limit < Len(list)) => walk'.ended
           /\ UNCHANGED <<table, newest, matching, steady, shrunk>>
<1> DEFINE p == Page(list, from)
<1>1. S \in SUBSET Int /\ Limit \in Nat \ { 0 } /\ Len(list) \in Nat
  BY LimitPositive, LenProperties
<1>2. /\ p.hasMore \in BOOLEAN /\ (p.hasMore <=> from + Limit < Len(list))
      /\ p.rows \in Seq(S)
      /\ p.hasMore => Len(p.rows) = Limit /\ Last(p.rows) = list[from + Limit]
      /\ \A i \in 1 .. Len(list) : from < i /\ i <= from + Limit =>
            i - from \in 1 .. Len(p.rows) /\ p.rows[i - from] = list[i]
      /\ \A k \in 1 .. Len(p.rows) :
            k <= Limit /\ from + k \in 1 .. Len(list) /\ p.rows[k] = list[from + k]
  BY <1>1, PageRows
<1>3. /\ seen' = seen \o p.rows
      /\ walk' = [walk EXCEPT !.cursor = IF p.hasMore THEN Last(p.rows) ELSE @,
                              !.pages = @ + 1, !.ended = ~p.hasMore]
      /\ UNCHANGED <<table, newest, matching, steady, shrunk>>
  BY DEF Return
<1> HIDE DEF p
<1>4. /\ seen \in Seq(Nat \ { 0 }) /\ Len(seen) \in Nat /\ DOMAIN seen = 1 .. Len(seen)
      /\ p.rows \in Seq(Nat \ { 0 }) /\ Len(p.rows) \in Nat
  BY <1>2, SeqMonotonic, LenProperties DEF WalkInv
<1>5. /\ seen' \in Seq(Nat \ { 0 }) /\ Len(seen') = Len(seen) + Len(p.rows)
      /\ \A k \in 1 .. (Len(seen) + Len(p.rows)) :
            seen'[k] = IF k <= Len(seen) THEN seen[k] ELSE p.rows[k - Len(seen)]
  BY <1>3, <1>4, ConcatProperties
<1>6. DOMAIN seen' = 1 .. (Len(seen) + Len(p.rows))
  BY <1>5, LenProperties
<1>7. Shown \subseteq Shown'
  <2>1. \A k \in DOMAIN seen : k \in DOMAIN seen' /\ seen'[k] = seen[k]
    BY <1>4, <1>5, <1>6
  <2> QED
    BY <2>1 DEF Shown, ToSet
<1>8. ASSUME NEW i \in 1 .. Len(list), from < i, i <= from + Limit
      PROVE  list[i] \in Shown'
  <2> DEFINE k == Len(seen) + (i - from)
  <2>1. i - from \in 1 .. Len(p.rows) /\ p.rows[i - from] = list[i]
    BY <1>2, <1>8
  <2>2. k \in DOMAIN seen' /\ seen'[k] = p.rows[i - from]
    <3>1. k \in 1 .. (Len(seen) + Len(p.rows)) /\ ~(k <= Len(seen)) /\ k - Len(seen) = i - from
      BY <1>4, <2>1
    <3> QED
      BY <1>5, <1>6, <3>1
  <2> QED
    BY <2>1, <2>2 DEF Shown, ToSet
<1>9. ASSUME NEW k \in DOMAIN seen'
      PROVE  \/ k \in DOMAIN seen /\ seen'[k] = seen[k]
             \/ /\ k \notin DOMAIN seen /\ k - Len(seen) \in 1 .. Limit
                /\ from + (k - Len(seen)) \in 1 .. Len(list)
                /\ seen'[k] = list[from + (k - Len(seen))]
  <2>1. CASE k <= Len(seen)
    BY <1>4, <1>5, <1>6, <2>1
  <2>2. CASE ~(k <= Len(seen))
    <3>1. k - Len(seen) \in 1 .. Len(p.rows) /\ k \notin DOMAIN seen
      BY <1>4, <1>6, <2>2
    <3> QED
      BY <1>2, <1>5, <1>6, <2>2, <3>1
  <2> QED
    BY <2>1, <2>2
<1>10. /\ walk' \in Walks /\ walk'.mode = walk.mode /\ walk'.pages = walk.pages + 1
       /\ from + Limit < Len(list) => ~walk'.ended /\ walk'.cursor = list[from + Limit]
       /\ ~(from + Limit < Len(list)) => walk'.ended
  <2>1. walk \in Walks
    BY DEF WalkInv
  <2>2. CASE from + Limit < Len(list)
    <3>1. p.hasMore = TRUE /\ Last(p.rows) = list[from + Limit]
      BY <1>2, <2>2
    <3>2. list[from + Limit] \in S
      BY <1>1, <2>2, ElementOfSeq
    <3>3. walk' = [walk EXCEPT !.cursor = list[from + Limit], !.pages = @ + 1, !.ended = FALSE]
      BY <1>3, <3>1
    <3>4. list[from + Limit] \in Nat
      BY <3>2
    <3> DEFINE last == list[from + Limit]
    <3> HIDE DEF last
    <3>5. last \in Nat /\ walk' = [walk EXCEPT !.cursor = last, !.pages = @ + 1, !.ended = FALSE]
      BY <3>3, <3>4 DEF last
    <3>6. walk.pages \in Nat /\ walk.mode \in { "cursor", "page", "key" }
      BY <2>1 DEF Walks
    <3>7. /\ walk' \in Walks /\ walk'.mode = walk.mode /\ walk'.pages = walk.pages + 1
          /\ walk'.ended = FALSE /\ walk'.cursor = last
      <4>1. walk' = [mode |-> walk.mode, cursor |-> last, pages |-> walk.pages + 1, ended |-> FALSE]
        BY <2>1, <3>5 DEF Walks
      <4>2. last \in Nat
        BY <3>5
      <4> QED
        BY <3>6, <4>1, <4>2 DEF Walks
    <3> QED
      BY <2>2, <3>7 DEF last
  <2>3. CASE ~(from + Limit < Len(list))
    <3>1. p.hasMore = FALSE
      BY <1>2, <2>3
    <3>2. walk' = [walk EXCEPT !.cursor = @, !.pages = @ + 1, !.ended = TRUE]
      BY <1>3, <3>1
    <3>3. /\ walk' \in Walks /\ walk'.mode = walk.mode /\ walk'.pages = walk.pages + 1
          /\ walk'.ended = TRUE
      <4>1. /\ walk' = [mode |-> walk.mode, cursor |-> walk.cursor, pages |-> walk.pages + 1,
                         ended |-> TRUE]
            /\ walk.pages \in Nat /\ walk.cursor \in Nat /\ walk.mode \in { "cursor", "page", "key" }
        BY <2>1, <3>2 DEF Walks
      <4> QED
        BY <4>1 DEF Walks
    <3> QED
      BY <2>3, <3>3
  <2> QED
    BY <2>2, <2>3
<1> QED
  BY <1>3, <1>5, <1>7, <1>8, <1>9, <1>10

LEMMA ByCursor == ASSUME WalkInv, NextByCursor PROVE WalkInv'
<1> DEFINE list == NewestFirst(matching)
           at == { i \in DOMAIN list : list[i] = walk.cursor }
           from == StartIndex(list, walk.cursor)
           n == Cardinality(matching)
<1>1. /\ matching \in SUBSET table /\ IsFiniteSet(matching) /\ matching \in SUBSET (Nat \ { 0 })
      /\ matching \in SUBSET Int /\ Limit \in Nat \ { 0 } /\ walk.mode = "cursor" /\ ~walk.ended
      /\ Return(Page(list, from))
  BY RowsFinite, LimitPositive DEF WalkInv, NextByCursor, Filtered
<1>2. /\ n \in Nat /\ list \in [1 .. n -> matching] /\ list \in Seq(matching) /\ Len(list) = n
      /\ \A i, j \in 1 .. n : i < j => list[j] < list[i]
      /\ \A r \in matching : \E i \in 1 .. n : list[i] = r
  <2>1. ASSUME NEW r \in matching PROVE \E i \in 1 .. n : list[i] = r
    <3>1. Cardinality(Newer(matching, r)) + 1 \in 1 .. n
      BY <1>1, Ordered
    <3> QED
      BY <1>1, <3>1, Ordered
  <2> QED
    BY <1>1, <2>1, Ordered
<1> HIDE DEF list, n
<1>3. DOMAIN list = 1 .. n
  BY <1>2
<1>4. from \in 0 .. n /\ (from # 0 => list[from] = walk.cursor) /\ (from = 0 => at = {})
  <2>1. from = IF at = {} THEN 0 ELSE CHOOSE i \in at : TRUE
    BY DEF StartIndex
  <2>2. CASE at = {}
    BY <1>2, <2>1, <2>2
  <2>3. CASE at # {}
    <3>1. from \in at
      BY <2>1, <2>3
    <3> QED
      BY <1>2, <1>3, <3>1
  <2> QED
    BY <2>2, <2>3
<1> HIDE DEF from, at
<1>5. /\ seen' \in Seq(Nat \ { 0 }) /\ Shown \subseteq Shown'
      /\ \A i \in 1 .. n : from < i /\ i <= from + Limit => list[i] \in Shown'
      /\ walk' \in Walks /\ walk'.mode = walk.mode
      /\ from + Limit < n => ~walk'.ended /\ walk'.cursor = list[from + Limit]
      /\ ~(from + Limit < n) => walk'.ended
      /\ UNCHANGED <<table, newest, matching, steady, shrunk>>
  BY <1>1, <1>2, <1>4, Returned
<1>6. \A r \in steady : walk.cursor # 0 /\ walk.cursor <= r => r \in Shown
  BY <1>1 DEF WalkInv, Behind
<1>7. ASSUME NEW i \in 1 .. n, list[i] \in steady, i <= from + Limit PROVE list[i] \in Shown'
  <2>1. CASE from < i
    BY <1>5, <1>7, <2>1
  <2>2. CASE ~(from < i)
    <3>1. from # 0 /\ from \in 1 .. n /\ list[from] \in matching /\ list[i] \in matching
      BY <1>2, <1>4, <2>2
    <3>2. walk.cursor # 0 /\ walk.cursor <= list[i]
      <4>1. list[from] = walk.cursor /\ list[from] \in Nat \ { 0 } /\ list[i] \in Nat \ { 0 }
        BY <1>1, <1>4, <3>1
      <4>2. i = from \/ i < from
        BY <1>2, <1>4, <2>2
      <4>3. i < from => list[from] < list[i]
        BY <1>2, <3>1
      <4> QED
        BY <4>1, <4>2, <4>3
    <3> QED
      BY <1>5, <1>6, <1>7, <3>2
  <2> QED
    BY <2>1, <2>2
<1>8. ASSUME NEW r \in steady PROVE \E i \in 1 .. n : list[i] = r
  BY <1>1, <1>2 DEF WalkInv
<1>9. CASE from + Limit < n
  <2> DEFINE last == from + Limit
  <2>1. last \in 1 .. n
    BY <1>1, <1>2, <1>4, <1>9
  <2>2. ASSUME NEW r \in steady, list[last] <= r PROVE r \in Shown'
    <3>1. PICK i \in 1 .. n : list[i] = r
      BY <1>8
    <3>2. list[i] \in Int /\ list[last] \in Int
      BY <1>1, <1>2, <2>1
    <3>3. i <= last
      BY <1>2, <2>1, <2>2, <3>1, <3>2
    <3> QED
      BY <1>7, <3>1, <3>3
  <2> QED
    BY <1>1, <1>5, <1>9, <2>2 DEF WalkInv, WalkComplete, Behind
<1>10. CASE ~(from + Limit < n)
  <2>1. steady \subseteq Shown'
    <3> SUFFICES ASSUME NEW r \in steady PROVE r \in Shown'
      OBVIOUS
    <3>1. PICK i \in 1 .. n : list[i] = r
      BY <1>8
    <3>2. i <= from + Limit
      BY <1>1, <1>2, <1>4, <1>10
    <3> QED
      BY <1>7, <3>1, <3>2
  <2> QED
    BY <1>1, <1>5, <1>10, <2>1 DEF WalkInv, WalkComplete, Shown
<1> QED
  BY <1>9, <1>10

LEMMA ByPage == ASSUME WalkInv, NextByPage PROVE WalkInv'
<1> DEFINE list == NewestFirst(matching)
           n == Cardinality(matching)
           offset == walk.pages * Limit
           from == IF offset > Len(list) THEN Len(list) ELSE offset
<1>1. /\ matching \in SUBSET table /\ IsFiniteSet(matching) /\ matching \in SUBSET (Nat \ { 0 })
      /\ matching \in SUBSET Int /\ Limit \in Nat \ { 0 } /\ walk.mode = "page" /\ ~walk.ended
      /\ Return(Page(list, from)) /\ walk.pages \in Nat
  BY RowsFinite, LimitPositive DEF WalkInv, Walks, NextByPage, Filtered
<1>2. /\ n \in Nat /\ list \in Seq(matching) /\ Len(list) = n
      /\ \A r \in matching : /\ Cardinality(Newer(matching, r)) \in 0 .. (n - 1)
                              /\ list[Cardinality(Newer(matching, r)) + 1] = r
  BY <1>1, Ordered
<1> HIDE DEF list, n
<1>3. offset \in Nat /\ (walk.pages + 1) * Limit = offset + Limit
  BY <1>1
<1> HIDE DEF offset
<1>4. from \in 0 .. n /\ (from = offset \/ (from = n /\ n < offset))
  BY <1>2, <1>3
<1> HIDE DEF from
<1>5. /\ seen' \in Seq(Nat \ { 0 }) /\ Shown \subseteq Shown'
      /\ \A i \in 1 .. n : from < i /\ i <= from + Limit => list[i] \in Shown'
      /\ walk' \in Walks /\ walk'.mode = walk.mode /\ walk'.pages = walk.pages + 1
      /\ from + Limit < n => ~walk'.ended
      /\ ~(from + Limit < n) => walk'.ended
      /\ UNCHANGED <<table, newest, matching, steady, shrunk>>
  BY <1>1, <1>2, <1>4, Returned
<1>6. ASSUME ~shrunk, NEW r \in steady, Cardinality(Newer(matching, r)) < offset + Limit
      PROVE  r \in Shown'
  <2> DEFINE i == Cardinality(Newer(matching, r)) + 1
  <2>1. r \in matching
    BY <1>1 DEF WalkInv
  <2>2. i \in 1 .. n /\ list[i] = r
    BY <1>2, <2>1
  <2>3. CASE Cardinality(Newer(matching, r)) < offset
    BY <1>1, <1>5, <1>6, <2>3 DEF WalkInv, Behind, offset
  <2>4. CASE ~(Cardinality(Newer(matching, r)) < offset)
    <3>1. from < i /\ i <= from + Limit
      BY <1>1, <1>2, <1>3, <1>4, <1>6, <2>1, <2>4
    <3> QED
      BY <1>5, <2>2, <3>1
  <2> QED
    BY <2>3, <2>4
<1>7. CASE from + Limit < n
  BY <1>1, <1>3, <1>5, <1>6, <1>7 DEF WalkInv, WalkComplete, Behind
<1>8. CASE ~(from + Limit < n)
  <2>1. ~shrunk => steady \subseteq Shown'
    <3> SUFFICES ASSUME ~shrunk, NEW r \in steady PROVE r \in Shown'
      OBVIOUS
    <3>1. r \in matching
      BY <1>1 DEF WalkInv
    <3>2. Cardinality(Newer(matching, r)) < offset + Limit
      BY <1>1, <1>2, <1>3, <1>4, <1>8, <3>1
    <3> QED
      BY <1>6, <3>2
  <2> QED
    BY <1>1, <1>5, <1>8, <2>1 DEF WalkInv, WalkComplete, Shown
<1> QED
  BY <1>7, <1>8

LEMMA ByKey == ASSUME WalkInv, NextByKey PROVE WalkInv'
<1> DEFINE S == AfterKey(walk.cursor)
           full == NewestFirst(S)
           n == Cardinality(S)
           list == Truncate(full, Limit + 1)
<1>1. /\ walk.mode = "key" /\ ~walk.ended /\ Limit \in Nat \ { 0 } /\ walk.cursor \in Nat
      /\ Return(Page(list, 0)) /\ S \in SUBSET table /\ steady \subseteq table
  BY LimitPositive DEF WalkInv, Walks, NextByKey, AfterKey
<1>2. IsFiniteSet(S) /\ S \in SUBSET (Nat \ { 0 }) /\ S \in SUBSET Int
  BY <1>1, RowsFinite
<1>3. \A r \in table : r \in S \/ (walk.cursor # 0 /\ walk.cursor <= r)
  <2>1. ASSUME NEW r \in table PROVE r \in Nat \ { 0 }
    BY RowsFinite
  <2> QED
    BY <1>1, <2>1 DEF AfterKey
<1>4. \A r \in S : walk.cursor = 0 \/ r < walk.cursor
  BY DEF AfterKey
<1> HIDE DEF S
<1>5. /\ n \in Nat /\ full \in Seq(S) /\ Len(full) = n
      /\ \A i \in 1 .. n : full[i] \in S
      /\ \A i, j \in 1 .. n : i < j => full[j] < full[i]
      /\ \A r \in S : \E i \in 1 .. n : full[i] = r
  <2>1. ASSUME NEW r \in S PROVE \E i \in 1 .. n : full[i] = r
    <3>1. Cardinality(Newer(S, r)) + 1 \in 1 .. n
      BY <1>2, Ordered
    <3> QED
      BY <1>2, <3>1, Ordered
  <2> QED
    BY <1>2, <2>1, Ordered
<1> HIDE DEF full, n
<1>6. /\ list \in Seq(S) /\ Len(list) = (IF Limit + 1 < n THEN Limit + 1 ELSE n)
      /\ \A i \in 1 .. Len(list) : list[i] = full[i]
  <2> DEFINE end == IF Limit + 1 < n THEN Limit + 1 ELSE n
  <2>1. list = SubSeq(full, 1, end)
    BY <1>5 DEF Truncate
  <2>2. 1 \in Int /\ end \in Nat /\ end <= n /\ \A i \in 1 .. end : full[i] \in S
    BY <1>1, <1>5
  <2> HIDE DEF list, end
  <2>3. /\ list \in Seq(S) /\ Len(list) = (IF 1 <= end THEN end - 1 + 1 ELSE 0)
        /\ \A i \in 1 .. (end - 1 + 1) : list[i] = full[1 + i - 1]
    BY <2>1, <2>2, SubSeqProperties
  <2>4. Len(list) = end /\ end - 1 + 1 = end
    BY <2>2, <2>3
  <2>5. ASSUME NEW i \in 1 .. end PROVE list[i] = full[i]
    <3>1. list[i] = full[1 + i - 1] /\ 1 + i - 1 = i
      BY <2>2, <2>3, <2>4
    <3> QED
      BY <3>1
  <2> QED
    BY <2>3, <2>4, <2>5 DEF end
<1> HIDE DEF list
<1>7. 0 \in 0 .. Len(list) /\ Len(list) \in 0 .. n /\ (0 + Limit < Len(list) <=> Limit < n)
  BY <1>1, <1>5, <1>6
<1>8. /\ seen' \in Seq(Nat \ { 0 }) /\ Shown \subseteq Shown'
      /\ \A i \in 1 .. Len(list) : 0 < i /\ i <= 0 + Limit => list[i] \in Shown'
      /\ \A k \in DOMAIN seen' :
            \/ k \in DOMAIN seen /\ seen'[k] = seen[k]
            \/ /\ k \notin DOMAIN seen /\ k - Len(seen) \in 1 .. Limit
               /\ 0 + (k - Len(seen)) \in 1 .. Len(list)
               /\ seen'[k] = list[0 + (k - Len(seen))]
      /\ walk' \in Walks /\ walk'.mode = walk.mode
      /\ 0 + Limit < Len(list) => ~walk'.ended /\ walk'.cursor = list[0 + Limit]
      /\ ~(0 + Limit < Len(list)) => walk'.ended
      /\ UNCHANGED <<table, newest, matching, steady, shrunk>>
  BY <1>1, <1>2, <1>6, <1>7, Returned
<1>9. \A i \in 1 .. n : i <= Limit => full[i] \in Shown'
  <2> SUFFICES ASSUME NEW i \in 1 .. n, i <= Limit PROVE full[i] \in Shown'
    OBVIOUS
  <2>1. i \in 1 .. Len(list) /\ 0 < i /\ i <= 0 + Limit
    BY <1>1, <1>5, <1>6
  <2> QED
    BY <1>6, <1>8, <2>1
<1>10. ASSUME NEW k \in DOMAIN seen'
       PROVE  \/ k \in DOMAIN seen /\ seen'[k] = seen[k]
              \/ \E i \in 1 .. n :
                    i <= Limit /\ i = k - Len(seen) /\ seen'[k] = full[i] /\ k \notin DOMAIN seen
  <2>1. CASE k \in DOMAIN seen
    BY <1>8, <2>1
  <2>2. CASE k \notin DOMAIN seen
    <3> DEFINE i == k - Len(seen)
    <3>1. i \in 1 .. Limit /\ 0 + i \in 1 .. Len(list) /\ seen'[k] = list[0 + i]
      BY <1>8, <2>2
    <3> HIDE DEF i
    <3>2. 0 + i = i
      BY <1>1, <3>1
    <3>3. i \in 1 .. Len(list) /\ seen'[k] = list[i]
      BY <3>1, <3>2
    <3>4. i \in 1 .. n /\ i <= Limit /\ seen'[k] = full[i]
      BY <1>1, <1>5, <1>6, <1>7, <3>1, <3>3
    <3> QED
      BY <2>2, <3>4 DEF i
  <2> QED
    BY <2>1, <2>2
<1>11. \A r \in steady : walk.cursor # 0 /\ walk.cursor <= r => r \in Shown
  BY <1>1 DEF WalkInv, Behind
<1>12. \A k \in DOMAIN seen : seen[k] \in Nat \ { 0 } /\ walk.cursor # 0 /\ walk.cursor <= seen[k]
  BY <1>1, ElementOfSeq, LenProperties DEF WalkInv
<1>13. Len(seen) \in Nat /\ DOMAIN seen = 1 .. Len(seen) /\ DOMAIN seen' = 1 .. Len(seen')
       /\ Len(seen') \in Nat
  BY <1>8, LenProperties DEF WalkInv
<1>14. IsInjective(seen')
  <2>1. ASSUME NEW k \in DOMAIN seen', NEW m \in DOMAIN seen', k < m PROVE seen'[k] # seen'[m]
    <3>1. CASE m \in DOMAIN seen
      <4>1. k \in DOMAIN seen /\ k # m
        BY <1>13, <2>1, <3>1
      <4>2. IsInjective(seen)
        BY <1>1 DEF WalkInv, WalkComplete
      <4> QED
        BY <1>10, <3>1, <4>1, <4>2 DEF IsInjective
    <3>2. CASE m \notin DOMAIN seen
      <4>1. PICK j \in 1 .. n : j = m - Len(seen) /\ seen'[m] = full[j]
        BY <1>10, <3>2
      <4>2. full[j] \in S /\ full[j] \in Nat
        BY <1>2, <1>5
      <4>3. CASE k \in DOMAIN seen
        <5>1. seen'[k] = seen[k] /\ seen[k] \in Nat /\ walk.cursor # 0 /\ walk.cursor <= seen[k]
          BY <1>10, <1>12, <4>3
        <5>2. full[j] < walk.cursor
          BY <1>4, <4>2, <5>1
        <5> QED
          BY <1>1, <4>1, <4>2, <5>1, <5>2
      <4>4. CASE k \notin DOMAIN seen
        <5>1. PICK i \in 1 .. n : i = k - Len(seen) /\ seen'[k] = full[i]
          BY <1>10, <4>4
        <5>2. i < j
          BY <1>13, <2>1, <4>1, <5>1
        <5>3. full[j] < full[i] /\ full[i] \in S
          BY <1>5, <5>2
        <5>4. full[i] \in Nat
          BY <1>2, <5>3
        <5> QED
          BY <4>1, <4>2, <5>1, <5>3, <5>4
      <4> QED
        BY <4>3, <4>4
    <3> QED
      BY <3>1, <3>2
  <2>2. ASSUME NEW k \in DOMAIN seen', NEW m \in DOMAIN seen', seen'[k] = seen'[m] PROVE k = m
    <3>1. ~(k < m) /\ ~(m < k) /\ k \in Int /\ m \in Int
      BY <1>13, <2>1, <2>2
    <3> QED
      BY <3>1
  <2> QED
    BY <2>2 DEF IsInjective
<1>15. CASE Limit < n
  <2>1. Limit \in 1 .. n /\ ~walk'.ended /\ walk'.cursor = full[Limit] /\ full[Limit] \in S
    <3>1. Limit \in 1 .. n /\ Limit \in 1 .. Len(list) /\ 0 + Limit = Limit
      BY <1>1, <1>5, <1>6, <1>15
    <3> QED
      BY <1>5, <1>6, <1>7, <1>8, <1>15, <3>1
  <2>2. full[Limit] \in Nat \ { 0 }
    BY <1>2, <2>1
  <2>3. ASSUME NEW r \in steady, full[Limit] <= r PROVE r \in Shown'
    <3>1. CASE r \in S
      <4>1. PICK i \in 1 .. n : full[i] = r
        BY <1>5, <3>1
      <4>2. r \in Nat
        BY <1>2, <3>1
      <4>3. Limit < i => full[i] < full[Limit]
        BY <1>5, <2>1
      <4>4. i <= Limit
        BY <1>1, <1>5, <2>2, <2>3, <4>1, <4>2, <4>3
      <4> QED
        BY <1>9, <4>1, <4>4
    <3>2. CASE r \notin S
      BY <1>1, <1>3, <1>8, <1>11, <3>2
    <3> QED
      BY <3>1, <3>2
  <2>4. ASSUME NEW k \in DOMAIN seen' PROVE walk'.cursor # 0 /\ walk'.cursor <= seen'[k]
    <3>1. CASE k \in DOMAIN seen
      <4>1. seen'[k] = seen[k] /\ seen[k] \in Nat /\ walk.cursor # 0 /\ walk.cursor <= seen[k]
        BY <1>10, <1>12, <3>1
      <4>2. full[Limit] < walk.cursor
        BY <1>4, <2>1, <4>1
      <4> QED
        BY <1>1, <2>1, <2>2, <4>1, <4>2
    <3>2. CASE k \notin DOMAIN seen
      <4>1. PICK i \in 1 .. n : i <= Limit /\ seen'[k] = full[i]
        BY <1>10, <3>2
      <4>2. full[i] \in Nat
        BY <1>2, <1>5
      <4>3. i < Limit => full[Limit] < full[i]
        BY <1>5, <2>1
      <4>4. i = Limit \/ i < Limit
        BY <1>1, <1>5, <4>1
      <4> QED
        BY <2>1, <2>2, <4>1, <4>2, <4>3, <4>4
    <3> QED
      BY <3>1, <3>2
  <2> QED
    BY <1>1, <1>8, <1>14, <2>1, <2>3, <2>4 DEF WalkInv, WalkComplete, Behind
<1>16. CASE ~(Limit < n)
  <2>1. steady \subseteq Shown'
    <3> SUFFICES ASSUME NEW r \in steady PROVE r \in Shown'
      OBVIOUS
    <3>1. CASE r \in S
      <4>1. PICK i \in 1 .. n : full[i] = r
        BY <1>5, <3>1
      <4>2. i <= Limit
        BY <1>1, <1>5, <1>16
      <4> QED
        BY <1>9, <4>1, <4>2
    <3>2. CASE r \notin S
      BY <1>1, <1>3, <1>8, <1>11, <3>2
    <3> QED
      BY <3>1, <3>2
  <2> QED
    BY <1>1, <1>7, <1>8, <1>14, <1>16, <2>1 DEF WalkInv, WalkComplete, Shown
<1> QED
  BY <1>15, <1>16

\* A row that stays no further down the list than it was is not behind if it was not.
LEMMA RowsChange ==
    ASSUME WalkInv, ~walk.ended, UNCHANGED <<walk, seen>>,
           newest' \in Nat, table' \subseteq 1 .. newest', matching' \subseteq table',
           steady' \subseteq steady, steady' \subseteq (IF walk.mode = "key" THEN table' ELSE matching'),
           walk.mode = "page" /\ ~shrunk' => ~shrunk /\ matching \subseteq matching'
    PROVE  WalkInv'
<1>1. ~walk'.ended /\ walk' = walk /\ seen' = seen /\ Shown' = Shown
  BY DEF Shown
<1>2. ASSUME NEW r \in steady', Behind(r)', ~(walk.mode = "page" /\ shrunk') PROVE r \in Shown'
  <2>1. CASE walk.mode = "page"
    <3>1. Newer(matching, r) \subseteq Newer(matching', r) /\ Newer(matching', r) \subseteq matching'
      BY <1>2, <2>1 DEF Newer
    <3>2. IsFiniteSet(1 .. newest')
      BY FS_Interval
    <3>3. IsFiniteSet(Newer(matching', r))
      BY <3>1, <3>2, FS_Subset
    <3>4. /\ Cardinality(Newer(matching, r)) <= Cardinality(Newer(matching', r))
          /\ Cardinality(Newer(matching', r)) \in Nat /\ Cardinality(Newer(matching, r)) \in Nat
      BY <3>1, <3>3, FS_Subset, FS_CardinalityType
    <3>5. Cardinality(Newer(matching', r)) < walk.pages * Limit
      BY <1>1, <1>2, <2>1 DEF Behind, Newer
    <3>6. walk.pages * Limit \in Nat
      BY LimitPositive DEF WalkInv, Walks
    <3>7. Behind(r)
      BY <2>1, <3>4, <3>5, <3>6 DEF Behind
    <3> QED
      BY <1>1, <1>2, <2>1, <3>7 DEF WalkInv
  <2>2. CASE walk.mode # "page"
    <3>1. Behind(r)
      BY <1>1, <1>2, <2>2 DEF Behind
    <3> QED
      BY <1>1, <1>2, <2>2, <3>1 DEF WalkInv
  <2> QED
    BY <2>1, <2>2
<1> QED
  BY <1>1, <1>2 DEF WalkInv, WalkComplete, Walks

LEMMA CreationKeeps == ASSUME WalkInv, RowCreated PROVE WalkInv'
  BY RowsChange DEF WalkInv, RowCreated

LEMMA DeletionKeeps == ASSUME WalkInv, NEW r \in table, RowDeleted(r) PROVE WalkInv'
<1>1. /\ ~walk.ended /\ UNCHANGED <<walk, seen, newest>> /\ newest \in Nat
      /\ table' = table \ { r } /\ matching' = matching \ { r } /\ steady' = steady \ { r }
      /\ table' \subseteq 1 .. newest' /\ matching' \subseteq table'
      /\ ~shrunk' => ~shrunk /\ r \notin matching
  BY DEF WalkInv, RowDeleted
<1>2. steady' \subseteq (IF walk.mode = "key" THEN table' ELSE matching')
  BY <1>1 DEF WalkInv
<1> QED
  BY <1>1, <1>2, RowsChange

LEMMA ChangeKeeps == ASSUME WalkInv, NEW r \in table, RowChanged(r) PROVE WalkInv'
<1>1. /\ ~walk.ended /\ UNCHANGED <<walk, seen, newest, table>> /\ newest \in Nat
      /\ matching' = IF r \in matching THEN matching \ { r } ELSE matching \cup { r }
      /\ steady' = IF walk.mode = "key" THEN steady ELSE steady \ { r }
      /\ table' \subseteq 1 .. newest' /\ matching' \subseteq table'
      /\ ~shrunk' => ~shrunk /\ r \notin matching
  BY DEF WalkInv, RowChanged
<1>2. steady' \subseteq (IF walk.mode = "key" THEN table' ELSE matching')
  BY <1>1 DEF WalkInv
<1> QED
  BY <1>1, <1>2, RowsChange

(***************************************************************************)
(* However the rows change during a walk, the walk that ends has shown     *)
(* what was listed all along, and the walk by key shows no row twice.      *)
(***************************************************************************)
THEOREM WalksAlwaysComplete == ListingSpec => []WalkComplete
<1>1. ListingInit => WalkInv
  <2> SUFFICES ASSUME ListingInit PROVE WalkInv
    OBVIOUS
  <2>1. /\ newest = Initially /\ table = 1 .. Initially /\ Initially \in Nat \ { 0 }
        /\ matching \subseteq table
        /\ walk \in [mode : { "cursor", "page", "key" }, cursor : { 0 }, pages : { 0 }, ended : { FALSE }]
        /\ seen = <<>> /\ shrunk = FALSE
        /\ steady = IF walk.mode = "key" THEN table ELSE matching
    BY ListingAssumption DEF ListingInit
  <2>2. /\ walk \in Walks /\ walk.cursor = 0 /\ walk.pages = 0 /\ ~walk.ended
    <3>1. PICK m \in { "cursor", "page", "key" } :
             walk = [mode |-> m, cursor |-> 0, pages |-> 0, ended |-> FALSE]
      <4>1. /\ walk = [mode |-> walk.mode, cursor |-> walk.cursor, pages |-> walk.pages,
                       ended |-> walk.ended]
            /\ walk.mode \in { "cursor", "page", "key" } /\ walk.cursor = 0 /\ walk.pages = 0
            /\ walk.ended = FALSE
        BY <2>1
      <4> QED
        BY <4>1
    <3> QED
      BY <3>1 DEF Walks
  <2>3. ASSUME NEW r \in steady PROVE ~Behind(r)
    <3>1. IsFiniteSet(1 .. Initially)
      <4>1. 1 \in Int /\ Initially \in Int
        BY <2>1
      <4> QED
        BY <4>1, FS_Interval
    <3>2. Newer(matching, r) \subseteq 1 .. Initially
      BY <2>1 DEF Newer
    <3>3. Cardinality(Newer(matching, r)) \in Nat
      BY <3>1, <3>2, FS_Subset, FS_CardinalityType
    <3>4. walk.pages * Limit = 0
      BY <2>2, LimitPositive
    <3> QED
      BY <2>2, <3>3, <3>4 DEF Behind
  <2>4. seen \in Seq(Nat \ { 0 }) /\ DOMAIN seen = {}
    BY <2>1
  <2>5. IsInjective(seen)
    BY <2>4 DEF IsInjective
  <2> QED
    BY <2>1, <2>2, <2>3, <2>4, <2>5 DEF WalkInv, WalkComplete
<1>2. WalkInv /\ [ListingNext]_listingVars => WalkInv'
  <2> SUFFICES ASSUME WalkInv, [ListingNext]_listingVars PROVE WalkInv'
    OBVIOUS
  <2>1. CASE walk.pages <= MaxRows /\ (NextByCursor \/ NextByPage \/ NextByKey)
    BY <2>1, ByCursor, ByPage, ByKey
  <2>2. CASE RowCreated
    BY <2>2, CreationKeeps
  <2>3. CASE \E r \in table : RowDeleted(r) \/ RowChanged(r)
    BY <2>3, DeletionKeeps, ChangeKeeps
  <2>4. CASE UNCHANGED listingVars
    BY <2>4 DEF listingVars, WalkInv, WalkComplete, Walks, Behind, Shown
  <2> QED
    BY <2>1, <2>2, <2>3, <2>4 DEF ListingNext
<1>3. WalkInv => WalkComplete
  BY DEF WalkInv
<1> QED
  BY <1>1, <1>2, <1>3, PTL DEF ListingSpec
=============================================================================
