------------------------------- MODULE SignIn -------------------------------
(***************************************************************************)
(* Signing in and choosing a project, in the tabs of one browser.  The     *)
(* tabs share the local storage: the access token and the active project.  *)
(* A request carries the token that is stored when it is sent, and the     *)
(* interceptor of the project API empties the storage whenever one is      *)
(* answered 401, whichever token is stored by then.  The login page and    *)
(* the IDE page talk to the server without that interceptor.               *)
(*                                                                         *)
(* The requests of a tab belong to flows: the list the projects page asks  *)
(* for when it is shown, the creation of a project, joining one by its     *)
(* code, and a login.  A flow outlives the page it began on, but not a     *)
(* reload.  Within a tab one flow of a kind runs at a time.                *)
(***************************************************************************)
EXTENDS Integers, FiniteSets

CONSTANTS
    Tabs, Users,
    Numbered,      \* users whose name is a number, which the page can read
    MaxTokens,     \* bound: logins
    MaxProjects,   \* bound: projects
    MaxFlows       \* bound: flows under way when the user begins one

ASSUME SignInAssumption ==
    Users # {} /\ Numbered \subseteq Users /\ MaxTokens \in Nat
    /\ MaxProjects \in Nat /\ MaxFlows \in Nat

Tokens == 1 .. MaxTokens
Projects == 1 .. MaxProjects
None == 0

VARIABLES
    token, project,    \* the local storage
    page,              \* the page of each tab
    list, listFor,     \* its list of projects, and the user it was asked for
    loading,           \* the buttons of the projects page are disabled
    flow,              \* the flows of each tab
    issued, userOf,    \* tokens the server gave, and to whom
    expired,           \* those it takes no more
    members,           \* the members of each project; none: not created
    crossed            \* history: the active project was chosen from a list
                       \* of another user than the one signed in

storage == <<token, project, crossed>>
tabVars == <<page, list, listFor, loading, flow>>
serverVars == <<issued, userOf, expired, members>>
vars == <<storage, tabVars, serverVars>>

Flows == {"show", "create", "join", "login"}
Steps == {"none", "my", "create", "code", "join", "login"}

Someone == CHOOSE u \in Users : TRUE

\* The request a flow waits for: the token it was sent with, the user that is
\* for, and whether the server took the token then; the project the flow is
\* about, and who created it; whether the projects page the flow began on is
\* still there.
Requests ==
    [step : Steps, token : 0 .. MaxTokens, user : Users, taken : BOOLEAN,
     project : 0 .. MaxProjects, by : Users, shown : BOOLEAN]

NoRequest == [step |-> "none", token |-> None, user |-> Someone, taken |-> FALSE,
              project |-> None, by |-> Someone, shown |-> FALSE]

TypeOK ==
    /\ token \in 0 .. MaxTokens /\ project \in 0 .. MaxProjects
    /\ page \in [Tabs -> {"login", "projects", "ide"}]
    /\ list \in [Tabs -> SUBSET Projects] /\ listFor \in [Tabs -> Users]
    /\ loading \in [Tabs -> BOOLEAN]
    /\ \A t \in Tabs : \A f \in Flows : flow[t][f] \in Requests
    /\ issued \in 0 .. MaxTokens /\ userOf \in [Tokens -> Users]
    /\ expired \subseteq 1 .. issued
    /\ members \in [Projects -> SUBSET Users]
    /\ crossed \in BOOLEAN

Init ==
    /\ token = None /\ project = None /\ crossed = FALSE
    /\ page = [t \in Tabs |-> "login"]
    /\ list = [t \in Tabs |-> {}] /\ listFor = [t \in Tabs |-> Someone]
    /\ loading = [t \in Tabs |-> FALSE]
    /\ flow = [t \in Tabs |-> [f \in Flows |-> NoRequest]]
    /\ issued = 0 /\ userOf = [n \in Tokens |-> Someone] /\ expired = {}
    /\ members = [p \in Projects |-> {}]

-----------------------------------------------------------------------------
(* What the actions are made of.                                           *)

Valid(n) == n # None /\ n \notin expired

\* The user a token is for; without one, anybody.
UserFor(n) == IF n = None THEN Someone ELSE userOf'[n]

\* A request sent now, with the token that is stored now.
Send(step, p, by, shown) ==
    [NoRequest EXCEPT !.step = step, !.token = token', !.user = UserFor(token'),
                      !.taken = Valid(token'), !.project = p, !.by = by,
                      !.shown = shown]

\* The page that the route guards let a tab have.
Guarded(url) ==
    CASE url = "login" -> "login"
      [] token' = None -> "login"
      [] url = "ide" /\ project' = None -> "projects"
      [] OTHER -> url

\* Tab t comes to its page with the given flows; anew says that it has
\* nothing of its old page.  The projects page asks for its list.
Navigate(t, url, flows, anew) ==
    LET new == Guarded(url)
        fresh == anew \/ new # page[t]
        left == [f \in Flows |-> [flows[f] EXCEPT !.shown = @ /\ ~fresh]]
    IN  /\ page' = [page EXCEPT ![t] = new]
        /\ flow' = [flow EXCEPT ![t] =
                IF fresh /\ new = "projects"
                THEN [left EXCEPT !["show"] = Send("my", None, Someone, TRUE)] ELSE left]
        /\ list' = [list EXCEPT ![t] = IF fresh THEN {} ELSE @]
        /\ listFor' = IF fresh THEN [listFor EXCEPT ![t] = Someone] ELSE listFor
        /\ loading' = [loading EXCEPT ![t] = IF fresh THEN new = "projects" ELSE @]

\* Project p, known through a list or an answer for user u, becomes active.
Activate(p, u) ==
    /\ project' = p
    /\ crossed' = (token = None \/ userOf[token] # u)
    /\ UNCHANGED token

\* The interceptor, on 401: the storage is emptied.
Forget == token' = None /\ project' = None /\ crossed' = FALSE

-----------------------------------------------------------------------------
(* The user.                                                               *)

\* A tab is reloaded, or brought to an address: its flows are forgotten.
Visit(t, url) ==
    /\ UNCHANGED <<storage, serverVars>>
    /\ Navigate(t, url, [f \in Flows |-> NoRequest], TRUE)

Begins(t, f) ==
    /\ flow[t][f].step = "none"
    /\ Cardinality({tf \in Tabs \X Flows : flow[tf[1]][tf[2]].step # "none"}) < MaxFlows

Login(t, u) ==
    /\ page[t] = "login" /\ Begins(t, "login")
    /\ UNCHANGED <<storage, serverVars, page, list, listFor, loading>>
    /\ flow' = [flow EXCEPT ![t]["login"] =
            [NoRequest EXCEPT !.step = "login", !.user = u]]

Create(t) ==
    /\ page[t] = "projects" /\ ~loading[t] /\ Begins(t, "create")
    /\ UNCHANGED <<storage, serverVars, page, list, listFor, loading>>
    /\ flow' = [flow EXCEPT ![t]["create"] = Send("create", None, Someone, TRUE)]

\* The page looks for a number in the stored token before it asks.
Join(t) ==
    /\ page[t] = "projects" /\ Begins(t, "join")
    /\ token # None /\ userOf[token] \in Numbered
    /\ UNCHANGED <<storage, serverVars, page, list, listFor, loading>>
    /\ flow' = [flow EXCEPT ![t]["join"] = Send("code", None, Someone, TRUE)]

Open(t, p) ==
    /\ page[t] = "projects" /\ ~loading[t] /\ p \in list[t]
    /\ Activate(p, listFor[t])
    /\ UNCHANGED serverVars
    /\ Navigate(t, "ide", flow[t], FALSE)

-----------------------------------------------------------------------------
(* The answers.  The server looked at the token between the sending of the  *)
(* request and the answer.                                                  *)

Accepted(r) == r.taken
Denied(r) == ~Valid(r.token)

LoginKeepsProject(t) ==
    /\ flow[t]["login"].step = "login" /\ issued < MaxTokens
    /\ issued' = issued + 1
    /\ userOf' = [userOf EXCEPT ![issued + 1] = flow[t]["login"].user]
    /\ token' = issued + 1 /\ crossed' = FALSE
    /\ UNCHANGED <<project, expired, members>>
    /\ Navigate(t, "projects", [flow[t] EXCEPT !["login"] = NoRequest], FALSE)

\* The token is stored, and what was active is active no more.
LoggedIn(t) ==
    /\ flow[t]["login"].step = "login" /\ issued < MaxTokens
    /\ issued' = issued + 1
    /\ userOf' = [userOf EXCEPT ![issued + 1] = flow[t]["login"].user]
    /\ token' = issued + 1 /\ project' = None /\ crossed' = FALSE
    /\ UNCHANGED <<expired, members>>
    /\ Navigate(t, "projects", [flow[t] EXCEPT !["login"] = NoRequest], FALSE)

LoginFails(t) ==
    /\ flow[t]["login"].step = "login"
    /\ flow' = [flow EXCEPT ![t]["login"] = NoRequest]
    /\ UNCHANGED <<storage, page, list, listFor, loading, serverVars>>

\* The interceptor of failed answers, if it empties the storage on any.
InterceptAny(answer) == Forget

\* The interceptor of failed answers, if it drops the user's name only.
InterceptUser(answer) == UNCHANGED storage

\* The interceptor of failed answers: on 401 the storage is emptied.
Intercept(answer) == IF answer = "denied" THEN Forget ELSE UNCHANGED storage

\* A failed answer: the token was not taken, or anything else went wrong.
Failure(r, answer) ==
    /\ r.step # "none"
    /\ answer = "denied" => Denied(r)
    /\ Intercept(answer)

\* A creation or a join goes on, with the token of this moment.
Continue(t, f, step, p, by) ==
    LET r == flow[t][f] IN
    /\ Accepted(r)
    /\ flow' = [flow EXCEPT ![t][f] = Send(step, p, by, r.shown)]
    /\ loading' = [loading EXCEPT ![t] = @ \/ (r.shown /\ step = "my")]

OnCreate(t) ==
    LET r == flow[t]["create"] IN
    /\ r.step = "create"
    /\ UNCHANGED <<storage, page, list, listFor, issued, userOf, expired>>
    /\ \E p \in Projects :
          /\ members[p] = {} /\ \A q \in 1 .. p - 1 : members[q] # {}
          /\ members' = [members EXCEPT ![p] = {r.user}]
          /\ Continue(t, "create", "my", p, r.user)

OnCode(t) ==
    /\ flow[t]["join"].step = "code"
    /\ UNCHANGED <<storage, page, list, listFor, serverVars>>
    /\ \E p \in Projects :
          /\ members[p] # {}
          /\ Continue(t, "join", "join", p, Someone)

OnJoin(t) ==
    LET r == flow[t]["join"] IN
    /\ r.step = "join" /\ r.user \notin members[r.project]
    /\ UNCHANGED <<storage, page, list, listFor, issued, userOf, expired>>
    /\ members' = [members EXCEPT ![r.project] = @ \cup {r.user}]
    /\ Continue(t, "join", "my", None, Someone)

\* A creation or a join fails before its list.
Breaks(t, f, answer) ==
    /\ f \in {"create", "join"} /\ flow[t][f].step # "my"
    /\ Failure(flow[t][f], answer)
    /\ flow' = [flow EXCEPT ![t][f] = NoRequest]
    /\ UNCHANGED <<page, list, listFor, loading, serverVars>>

\* What a list that was answered, or failed, leaves on its page.
Shows(t, f, found) ==
    LET r == flow[t][f] IN
    /\ f \in {"show", "join"} /\ r.step = "my"
    /\ list' = IF r.shown THEN [list EXCEPT ![t] = found] ELSE list
    /\ listFor' = IF r.shown THEN [listFor EXCEPT ![t] = r.user] ELSE listFor
    /\ loading' = [loading EXCEPT ![t] = @ /\ ~r.shown]
    /\ flow' = [flow EXCEPT ![t][f] = NoRequest]
    /\ UNCHANGED <<page, serverVars>>

Listed(t, f) ==
    /\ Accepted(flow[t][f])
    /\ Shows(t, f, {p \in Projects : flow[t][f].user \in members[p]})
    /\ UNCHANGED storage

NotListed(t, f, answer) ==
    /\ Failure(flow[t][f], answer)
    /\ Shows(t, f, {})

\* The list after a creation came, or did not: the new project becomes
\* active, wherever the tab is by now, and the tab goes to the IDE page.
Created(t, answer) ==
    LET r == flow[t]["create"] IN
    /\ r.step = "my"
    /\ IF answer = "ok" THEN Accepted(r) ELSE answer = "denied" => Denied(r)
    /\ LET kept == IF answer = "denied" THEN None ELSE token
       IN  /\ token' = kept /\ project' = r.project
           /\ crossed' = (kept = None \/ userOf[kept] # r.by)
    /\ UNCHANGED serverVars
    /\ Navigate(t, "ide", [flow[t] EXCEPT !["create"] = NoRequest], FALSE)

Expire(n) ==
    /\ n \in 1 .. issued \ expired
    /\ expired' = expired \cup {n}
    /\ UNCHANGED <<storage, tabVars, issued, userOf, members>>

Next ==
    \/ \E t \in Tabs :
          \/ \E url \in {"login", "projects", "ide"} : Visit(t, url)
          \/ \E u \in Users : Login(t, u)
          \/ Create(t) \/ Join(t)
          \/ \E p \in Projects : Open(t, p)
          \/ LoggedIn(t) \/ LoginFails(t)
          \/ OnCreate(t) \/ OnCode(t) \/ OnJoin(t)
          \/ \E f \in Flows : Listed(t, f)
          \/ \E f \in Flows, answer \in {"denied", "refused"} :
                Breaks(t, f, answer) \/ NotListed(t, f, answer)
          \/ \E answer \in {"ok", "denied", "refused"} : Created(t, answer)
    \/ \E n \in Tokens : Expire(n)

\* Requests are answered, and not every one of a page that is reloaded again
\* and again fails on its way.
Fairness ==
    \A t \in Tabs :
        /\ WF_vars(Listed(t, "show"))
        /\ SF_vars(NotListed(t, "show", "denied"))

Spec == Init /\ [][Next]_vars
FairSpec == Spec /\ Fairness

-----------------------------------------------------------------------------
(* What holds.                                                             *)

\* The active project is one of the signed-in user's, whoever signed in
\* before; unless a tab chose it from a list that was asked for another user,
\* as one does that stays open while another tab signs in.
OwnProject ==
    project # None /\ token # None /\ ~crossed => userOf[token] \in members[project]

\* A token that the server still takes is dropped only by the answer to a
\* request that carried another one: the interceptor does not compare.
FreshTokenStays ==
    [][Valid(token) /\ token' = None =>
          \E t \in Tabs, f \in Flows :
              LET r == flow[t][f]
              IN  /\ r.step \notin {"none", "login"} /\ flow'[t][f] # r
                  /\ r.token # token /\ Denied(r)]_vars

\* A projects page does not ask for its list with an expired token for ever,
\* however often it is reloaded and its requests fail: one is answered 401,
\* the token is dropped, and the login page comes next.
NoLoginTrap ==
    \A n \in Tokens, t \in Tabs :
        <>[]~(/\ token = n /\ n \in expired
              /\ page[t] = "projects" /\ flow[t]["show"].token = n)
=============================================================================
