------------------------ MODULE ConsoleSession_proofs ------------------------
(***************************************************************************)
(* The session of a tab, for any number of users, mounts, shells and       *)
(* logins under way.                                                       *)
(***************************************************************************)
EXTENDS ConsoleSession, FiniteSetTheorems, TLAPS

\* A login sent is one from where the tab stands.
LEMMA SendIsLogin ==
    ASSUME SessionTypeOK, NEW u \in Users, Send(u)
    PROVE  logins' \subseteq Login
BY DEF SessionTypeOK, Send, Login

\* Mounting a route restores its operator and leaves every variable in its type.
LEMMA MountTypes ==
    ASSUME SessionTypeOK, NEW r \in Routes, NEW t \in Users \cup {None}, Mount(r, t)
    PROVE  /\ route' \in Routes /\ goingTo' \in Routes \cup {None}
           /\ provider' \in Nat /\ persona' \in Users \cup {None}
           /\ checked' \in BOOLEAN /\ shell' \in Nat
           /\ switching' = FALSE /\ loading' = FALSE
BY DEF SessionTypeOK, Mount, Gate, Routes

LEMMA ShowTypes ==
    ASSUME SessionTypeOK, NEW u \in Users \cup {None}, ShowOperator(u)
    PROVE  persona' \in Users \cup {None} /\ shell' \in Nat
BY DEF SessionTypeOK, ShowOperator

\* Without a token no operator is shown: what NoButtonWithoutToken rests on.
NobodyWithoutToken == memToken = None => persona = None

SessionInv == SessionTypeOK /\ NobodyWithoutToken

LEMMA SessionStep == SessionInv /\ [SessionNext]_sessionVars => SessionInv'
<1> SUFFICES ASSUME SessionInv, [SessionNext]_sessionVars PROVE SessionInv'
  OBVIOUS
<1> USE SessionAssumption DEF SessionInv
<1>1. ASSUME NEW u \in Users, PickOperator(u) PROVE SessionInv'
  <2>1. logins' \subseteq Login
    BY <1>1, SendIsLogin DEF PickOperator
  <2> QED BY <1>1, <2>1 DEF PickOperator, SessionTypeOK, NobodyWithoutToken
<1>2. ASSUME NEW u \in Users, SwitchOperator(u) PROVE SessionInv'
  <2>1. logins' \subseteq Login
    BY <1>2, SendIsLogin DEF SwitchOperator
  <2> QED BY <1>2, <2>1 DEF SwitchOperator, SessionTypeOK, NobodyWithoutToken
<1>3. ASSUME NEW l \in logins, LoginOk(l) PROVE SessionInv'
  <2>1. l.user \in Users
    BY DEF SessionTypeOK, Login
  <2>2. persona' \in Users \cup {None} /\ shell' \in Nat
    BY <1>3, <2>1, ShowTypes DEF LoginOk, SessionTypeOK
  <2>3. memToken' \in Users /\ stored' \in Users \cup {None}
    BY <1>3, <2>1 DEF LoginOk, SetToken, SessionTypeOK
  <2>4. goingTo' \in Routes \cup {None} /\ switching' \in BOOLEAN /\ logins' \subseteq Login
    BY <1>3 DEF LoginOk, SessionTypeOK, Routes
  <2>5. SessionTypeOK'
    BY <1>3, <2>2, <2>3, <2>4 DEF LoginOk, SessionTypeOK
  <2>6. NobodyWithoutToken'
    BY <2>3, SessionAssumption DEF NobodyWithoutToken
  <2> QED BY <2>5, <2>6
<1>4. ASSUME NEW l \in logins, LoginRefused(l) PROVE SessionInv'
  BY <1>4 DEF LoginRefused, SessionTypeOK, NobodyWithoutToken
<1>5. CASE Logout
  <2>1. persona' \in Users \cup {None} /\ shell' \in Nat
    BY <1>5, ShowTypes DEF Logout
  <2>2. SessionTypeOK'
    BY <1>5, <2>1 DEF Logout, SessionTypeOK, Routes
  <2>3. NobodyWithoutToken'
    BY <1>5 DEF Logout, ShowOperator, NobodyWithoutToken
  <2> QED BY <2>2, <2>3
<1>6. CASE Arrive
  <2>1. CASE goingTo # route /\ Mount(goingTo, memToken)
    <3>1. goingTo \in Routes /\ memToken' = memToken /\ stored' = stored
          /\ durable' = durable /\ logins' = logins
      BY <1>6 DEF Arrive, SessionTypeOK
    <3>2. SessionTypeOK'
      BY <2>1, <3>1, MountTypes DEF SessionTypeOK
    <3>3. NobodyWithoutToken'
      BY <2>1, <3>1 DEF Mount, NobodyWithoutToken
    <3> QED BY <3>2, <3>3
  <2>2. CASE goingTo = route /\ goingTo' = None
             /\ UNCHANGED <<route, provider, persona, checked, shell, switching, loading>>
    BY <1>6, <2>2 DEF Arrive, SessionTypeOK, NobodyWithoutToken, Routes
  <2> QED BY <1>6, <2>1, <2>2 DEF Arrive
<1>7. CASE Back
  <2>1. PICK r \in Routes : Mount(r, memToken)
    BY <1>7 DEF Back
  <2>2. UNCHANGED <<memToken, stored, durable, logins>>
    BY <1>7 DEF Back
  <2>3. SessionTypeOK'
    BY <2>1, <2>2, MountTypes DEF SessionTypeOK
  <2>4. NobodyWithoutToken'
    BY <2>1, <2>2 DEF Mount, NobodyWithoutToken
  <2> QED BY <2>3, <2>4
<1>8. CASE Reload
  <2>1. /\ memToken' = stored /\ Mount(route, stored) /\ logins' = {}
        /\ UNCHANGED <<stored, durable>>
    BY <1>8 DEF Reload
  <2>2. SessionTypeOK'
    BY <2>1, MountTypes DEF SessionTypeOK
  <2>3. NobodyWithoutToken'
    BY <2>1 DEF Mount, NobodyWithoutToken
  <2> QED BY <2>2, <2>3
<1>9. CASE GoWithin \/ BackWithin
  BY <1>9 DEF GoWithin, BackWithin, SessionTypeOK, NobodyWithoutToken, Routes
<1>10. CASE UNCHANGED sessionVars
  BY <1>10 DEF sessionVars, SessionTypeOK, NobodyWithoutToken
<1> QED
  BY <1>1, <1>2, <1>3, <1>4, <1>5, <1>6, <1>7, <1>8, <1>9, <1>10 DEF SessionNext

LEMMA SessionInitInv == SessionInit => SessionInv
<1> SUFFICES ASSUME SessionInit PROVE SessionInv
  OBVIOUS
<1>1. SessionTypeOK
  BY DEF SessionInit, SessionTypeOK, Gate, Routes
<1>2. NobodyWithoutToken
  BY DEF SessionInit, NobodyWithoutToken
<1> QED BY <1>1, <1>2 DEF SessionInv

\* The session's state keeps its type (persona-context.tsx:52-95, api.ts:8-36).
THEOREM SessionTypeCorrect == SessionSpec => []SessionTypeOK
BY SessionInitInv, SessionStep, PTL DEF SessionSpec, SessionInv

\* A console left open after a logout offers no button (sidebar.tsx:214-219,
\* persona-context.tsx:56-95, rbac.ts:178-202).
THEOREM SessionNoButtonWithoutToken == SessionSpec => []NoButtonWithoutToken
<1>1. SessionInv => NoButtonWithoutToken
  <2> SUFFICES ASSUME SessionInv, memToken = None, NEW a \in Actions
               PROVE  ~Can(ShownRole(persona), a)
    BY DEF NoButtonWithoutToken
  <2>1. ShownRole(persona) = "UNKNOWN"
    BY DEF SessionInv, NobodyWithoutToken, ShownRole
  <2>2. NormalizeRole("UNKNOWN") = "UNKNOWN"
    BY DEF NormalizeRole, Roles
  <2> QED BY <2>1, <2>2 DEF Can, ActionsOf
<1> QED BY <1>1, SessionInitInv, SessionStep, PTL DEF SessionSpec

\* Operator shown and token come apart only by a login that answers late
\* (persona-context.tsx:74-91).
THEOREM SessionShownOperatorActs == SessionSpec => ShownOperatorActs
<1> DEFINE Apart == persona = memToken /\ persona' # memToken'
           Late == \E l \in logins \ logins' :
                      l.provider # provider /\ memToken' = l.user
<1>1. ASSUME [SessionNext]_sessionVars, Apart PROVE Late
  <2>1. ASSUME NEW u \in Users, PickOperator(u) \/ SwitchOperator(u) PROVE Late
    BY <1>1, <2>1 DEF PickOperator, SwitchOperator
  <2>2. ASSUME NEW l \in logins, LoginOk(l) PROVE Late
    <3>1. logins' = logins \ {l} /\ memToken' = l.user
      BY <2>2 DEF LoginOk, SetToken
    <3>2. l.provider # provider
      BY <1>1, <2>2, <3>1 DEF LoginOk, ShowOperator
    <3> QED BY <3>1, <3>2
  <2>3. ASSUME NEW l \in logins, LoginRefused(l) PROVE Late
    BY <1>1, <2>3 DEF LoginRefused
  <2>4. CASE Logout
    BY <1>1, <2>4 DEF Logout, ShowOperator
  <2>5. CASE GoWithin \/ BackWithin \/ Arrive \/ Back \/ Reload
    BY <1>1, <2>5 DEF GoWithin, BackWithin, Arrive, Back, Reload, Mount
  <2>6. CASE UNCHANGED sessionVars
    BY <1>1, <2>6 DEF sessionVars
  <2> QED BY <1>1, <2>1, <2>2, <2>3, <2>4, <2>5, <2>6 DEF SessionNext
<1>2. [SessionNext]_sessionVars => [Apart => Late]_sessionVars
  BY <1>1
<1> QED BY <1>2, PTL DEF SessionSpec, ShownOperatorActs
----------------------------------------------------------------------------
(* The role tables. *)

\* For every role of the users' table, and one the console does not know, the
\* buttons offered are admitted, but for the four of ADMIN.
LEMMA TablesAgree ==
    ASSUME NEW r \in Roles \cup {Foreign}, NEW a \in Actions, Can(PersonaRole(r), a)
    PROVE  \/ r \in Admitted(a)
           \/ r = "ADMIN" /\ a \in {"approve_srdom", "authorize_drm", "drill",
                                   "incident_ack"}
<1> USE DEF Admitted, PlanRoles, DecisionRoles, EmergencyRoles, IncidentAckRoles,
            SolveRoles, LedgerRoles
<1>1. CASE r = Foreign
  <2>1. PersonaRole(r) = "UNKNOWN"
    BY <1>1, ForeignAssumption DEF PersonaRole, Aliases
  <2> QED BY <2>1 DEF Can, NormalizeRole, Roles, ActionsOf
<1>2. CASE r \in Roles
  <2>1. PersonaRole(r) = r /\ NormalizeRole(r) = r
    BY <1>2, ForeignAssumption DEF PersonaRole, NormalizeRole, Roles
  <2>2. a \in ActionsOf(r)
    BY <2>1 DEF Can
  <2>3. CASE r = "SR_DOM"
    BY <2>2, <2>3 DEF ActionsOf
  <2>4. CASE r = "DRM"
    BY <2>2, <2>4 DEF ActionsOf
  <2>5. CASE r = "CONTROLLER"
    BY <2>2, <2>5 DEF ActionsOf
  <2>6. CASE r = "ENGINEER"
    BY <2>2, <2>6 DEF ActionsOf
  <2>7. CASE r = "STATION_MASTER"
    BY <2>2, <2>7 DEF ActionsOf
  <2>8. CASE r = "AUDITOR"
    BY <2>2, <2>8 DEF ActionsOf
  <2>9. CASE r = "ADMIN"
    BY <2>9 DEF Actions
  <2>10. CASE r = "UNKNOWN"
    BY <2>2, <2>10 DEF ActionsOf
  <2> QED
    BY <1>2, <2>3, <2>4, <2>5, <2>6, <2>7, <2>8, <2>9, <2>10 DEF Roles
<1> QED BY <1>1, <1>2

\* A button the shown operator is offered is one the endpoint admits for the token
\* (rbac.ts:178-202, require_roles of the routers).
THEOREM SessionOfferedIsAdmitted == SessionSpec => []OfferedIsAdmitted
<1>1. SessionTypeOK => OfferedIsAdmitted
  <2> SUFFICES ASSUME SessionTypeOK, persona # None, persona = memToken,
                      NEW a \in Actions, Can(ShownRole(persona), a)
               PROVE  \/ RoleOf[memToken] \in Admitted(a)
                      \/ /\ RoleOf[memToken] = "ADMIN"
                         /\ a \in {"approve_srdom", "authorize_drm", "drill",
                                   "incident_ack"}
    BY DEF OfferedIsAdmitted
  <2>1. RoleOf[memToken] \in Roles \cup {Foreign}
    BY SessionAssumption DEF SessionTypeOK
  <2>2. Can(PersonaRole(RoleOf[memToken]), a)
    BY DEF ShownRole
  <2> QED BY <2>1, <2>2, TablesAgree
<1> QED BY <1>1, SessionTypeCorrect, PTL
============================================================================
