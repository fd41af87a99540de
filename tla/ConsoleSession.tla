--------------------------- MODULE ConsoleSession ---------------------------
(***************************************************************************)
(* The session of one browser tab: the token in memory and its mirror in   *)
(* sessionStorage (lib/api.ts), the operator the console shows             *)
(* (context/persona-context.tsx), the login page, the header's persona     *)
(* switch, the sidebar's logout, and the gate of the console routes.       *)
(*                                                                         *)
(* A user stands for the tokens minted for it.  Each route has its own     *)
(* persona provider, which restores its operator from the token when it    *)
(* mounts; a login outlives the provider that asked for it.  The pages of  *)
(* the console share one layout: going from one to another mounts nothing. *)
(***************************************************************************)
EXTENDS Roles, Absent, FiniteSets

CONSTANTS Users,
          RoleOf,       \* the role in a user's token, as auth.users spells it
          MaxMounts,    \* bound: providers mounted
          MaxShells,    \* bound: shells mounted
          MaxLogins     \* bound: logins under way at a time

ASSUME SessionAssumption ==
    /\ None \notin Users
    /\ RoleOf \in [Users -> Roles \cup {Foreign}]
    /\ MaxMounts \in Nat \ {0} /\ MaxShells \in Nat /\ MaxLogins \in Nat

VARIABLES
    memToken,     \* the token requests carry
    stored,       \* its mirror in sessionStorage
    durable,      \* whether the browser lets the mirror be written
    route,        \* the route shown
    goingTo,      \* the route last pushed and not reached yet
    provider,     \* the persona provider mounted, by number
    persona,      \* the operator it holds
    checked,      \* the gate let the console's shell be mounted
    shell,        \* the shell mounted last, by number
    switching,    \* the header of that shell waits for a login
    loading,      \* the login page waits for a login
    logins        \* logins under way

sessionVars == <<memToken, stored, durable, route, goingTo, provider, persona,
                 checked, shell, switching, loading, logins>>

Routes == {"login", "console"}
Login == [user : Users, from : Routes, provider : Nat, shell : Nat]

SessionTypeOK ==
    /\ memToken \in Users \cup {None}
    /\ stored \in Users \cup {None}
    /\ persona \in Users \cup {None}
    /\ durable \in BOOLEAN /\ checked \in BOOLEAN
    /\ switching \in BOOLEAN /\ loading \in BOOLEAN
    /\ route \in Routes /\ goingTo \in Routes \cup {None}
    /\ provider \in Nat /\ shell \in Nat
    /\ logins \subseteq Login

ShownRole(u) == IF u = None THEN "UNKNOWN" ELSE PersonaRole(RoleOf[u])
\* The gate of the console: no token when its layout mounts, off to the login.
Gate(r, token) == IF r = "console" /\ token = None THEN "login" ELSE None

SessionInit ==
    /\ memToken = None /\ stored = None /\ durable \in BOOLEAN
    /\ route \in Routes /\ goingTo = Gate(route, None)
    /\ provider = 1 /\ persona = None /\ checked = FALSE
    /\ shell = 0 /\ switching = FALSE /\ loading = FALSE /\ logins = {}

\* Mounting a route's layout: the provider restores its operator.
Mount(r, token) ==
    /\ provider < MaxMounts /\ shell < MaxShells
    /\ route' = r /\ goingTo' = Gate(r, token)
    /\ provider' = provider + 1 /\ persona' = token
    /\ checked' = (r = "console" /\ token # None)
    /\ shell' = IF checked' THEN shell + 1 ELSE shell
    /\ switching' = FALSE /\ loading' = FALSE

\* The shell is keyed by the operator: another operator, another shell.
ShowOperator(u) ==
    /\ persona' = u
    /\ \/ (u = persona \/ ~checked) /\ shell' = shell
       \/ u # persona /\ checked /\ shell < MaxShells /\ shell' = shell + 1

SetToken(u) == memToken' = u /\ stored' = IF durable THEN u ELSE stored

Send(u) ==
    \E l \in [user : {u}, from : {route}, provider : {provider}, shell : {shell}] :
        /\ l \notin logins /\ Cardinality(logins) < MaxLogins
        /\ logins' = logins \cup {l}

PickOperator(u) ==
    /\ route = "login" /\ ~loading
    /\ loading' = TRUE /\ Send(u)
    /\ UNCHANGED <<memToken, stored, durable, route, goingTo, provider, persona,
                   checked, shell, switching>>

SwitchOperator(u) ==
    /\ checked /\ ~switching /\ persona # u
    /\ switching' = TRUE /\ Send(u)
    /\ UNCHANGED <<memToken, stored, durable, route, goingTo, provider, persona,
                   checked, shell, loading>>

\* The answer sets the token whoever is mounted by now; only the provider that
\* asked shows the new operator, and the login page pushes the dashboard.
LoginOk(l) ==
    /\ logins' = logins \ {l}
    /\ SetToken(l.user)
    /\ IF l.provider = provider
       THEN ShowOperator(l.user) ELSE UNCHANGED <<persona, shell>>
    /\ switching' = (switching /\ shell' = shell /\ l.shell # shell)
    /\ goingTo' = IF l.from = "login" THEN "console" ELSE goingTo
    /\ UNCHANGED <<durable, route, provider, checked, loading>>

\* MUTANT of LoginRefused: a refusal signs the operator of before out.
LoginRefusedSignsOut(l) ==
    /\ logins' = logins \ {l}
    /\ memToken' = None /\ stored' = None
    /\ switching' = (switching /\ ~(l.from = "console" /\ l.shell = shell))
    /\ loading' = (loading /\ l.provider # provider)
    /\ UNCHANGED <<durable, route, goingTo, provider, persona, checked, shell>>

LoginRefused(l) ==
    /\ logins' = logins \ {l}
    /\ switching' = (switching /\ ~(l.from = "console" /\ l.shell = shell))
    /\ loading' = (loading /\ l.provider # provider)
    /\ UNCHANGED <<memToken, stored, durable, route, goingTo, provider, persona,
                   checked, shell>>
\* MUTANT of Logout: the token goes, and the operator shown stays.
LogoutOfToken ==
    /\ checked
    /\ memToken' = None /\ stored' = None
    /\ goingTo' = "login"
    /\ UNCHANGED <<durable, route, provider, persona, checked, shell, switching,
                   loading, logins>>

Logout ==
    /\ checked
    /\ memToken' = None /\ stored' = None
    /\ ShowOperator(None)
    /\ switching' = (switching /\ shell' = shell)
    /\ goingTo' = "login"
    /\ UNCHANGED <<durable, route, provider, checked, loading, logins>>

\* A link, the page search or a card of the shell pushes another console page, in
\* the place of whatever was pushed before.
GoWithin ==
    /\ checked
    /\ goingTo' = "console"
    /\ UNCHANGED <<memToken, stored, durable, route, provider, persona, checked,
                   shell, switching, loading, logins>>

\* Browser back or forward between console pages: the layout stays as it is, and
\* the route pushed is not reached any more.
BackWithin ==
    /\ route = "console" /\ goingTo # None
    /\ goingTo' = None
    /\ UNCHANGED <<memToken, stored, durable, route, provider, persona, checked,
                   shell, switching, loading, logins>>

\* The router reaches the route pushed; the layout of the same route stays.
Arrive ==
    /\ goingTo # None
    /\ \/ /\ goingTo # route
          /\ Mount(goingTo, memToken)
       \/ /\ goingTo = route
          /\ goingTo' = None
          /\ UNCHANGED <<route, provider, persona, checked, shell, switching, loading>>
    /\ UNCHANGED <<memToken, stored, durable, logins>>

\* Browser back or forward: the other route, in the same page.
Back ==
    /\ \E r \in Routes \ {route} : Mount(r, memToken)
    /\ UNCHANGED <<memToken, stored, durable, logins>>

\* A reload drops what is in memory and every request under way.
Reload ==
    /\ memToken' = stored
    /\ Mount(route, stored)
    /\ logins' = {}
    /\ UNCHANGED <<stored, durable>>

SessionNext ==
    \/ \E u \in Users : PickOperator(u) \/ SwitchOperator(u)
    \/ \E l \in logins : LoginOk(l) \/ LoginRefused(l)
    \/ Logout \/ GoWithin \/ BackWithin \/ Arrive \/ Back \/ Reload

\* The operator shown and the token requests carry come apart only when a login
\* answers after the provider that asked for it is gone
\* (persona-context.tsx:74-91): whatever else is under way, no switch, failed
\* switch, logout, navigation or reload separates the two.
ShownOperatorActs ==
    [][ persona = memToken /\ persona' # memToken'
        => \E l \in logins \ logins' :
              l.provider # provider /\ memToken' = l.user ]_sessionVars

\* A console may stay open after a logout: its gate looks once, and a click on a
\* link overtakes the way to the login page (layout.tsx:25-33, sidebar.tsx:214-219,
\* header.tsx:180-228).  But it offers no button then: without a token no operator
\* is shown whose role has any, whatever logins, refusals and reloads come between.
NoButtonWithoutToken ==
    memToken = None => \A a \in Actions : ~Can(ShownRole(persona), a)

\* A button the shown operator's role is offered is one the endpoint behind it
\* admits for the role of the token that the request will carry; the four
\* signing and emergency buttons of ADMIN are the ones rbac.ts:172-173 owns to.
OfferedIsAdmitted ==
    persona # None /\ persona = memToken =>
        \A a \in Actions :
            Can(ShownRole(persona), a) =>
                \/ RoleOf[memToken] \in Admitted(a)
                \/ /\ RoleOf[memToken] = "ADMIN"
                   /\ a \in {"approve_srdom", "authorize_drm", "drill",
                             "incident_ack"}

SessionSpec == SessionInit /\ [][SessionNext]_sessionVars
============================================================================
