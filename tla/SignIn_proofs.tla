---------------------------- MODULE SignIn_proofs ----------------------------
(***************************************************************************)
(* The active project belongs to the user who is signed in, and a token    *)
(* that the server still takes is dropped only by the answer to another    *)
(* one's request, for any number of tabs, users, logins and projects.      *)
(*                                                                         *)
(* OwnProject rests on what the tabs know (Known): a list is of projects   *)
(* of the user it was asked for, and a creation that waits for the list is *)
(* about a project that has its creator as a member.  Members never leave. *)
(***************************************************************************)
EXTENDS SignIn, TLAPS

\* The types of the variables that the argument is about.
SignType ==
    /\ token \in 0 .. MaxTokens /\ project \in 0 .. MaxProjects
    /\ issued \in Nat
    /\ userOf \in [Tokens -> Users]
    /\ list \in [Tabs -> SUBSET Projects]
    /\ listFor \in [Tabs -> Users]
    /\ flow \in [Tabs -> [Flows -> Requests]]
    /\ members \in [Projects -> SUBSET Users]

\* What the tabs know of the projects.
KnownList(t) == \A p \in list[t] : listFor[t] \in members[p]
KnownNew(t) ==
    LET r == flow[t]["create"]
    IN  r.step = "my" => r.project \in Projects /\ r.by \in members[r.project]
Known == \A t \in Tabs : KnownList(t) /\ KnownNew(t)

\* Only a login is a login.
LoginSteps == \A t \in Tabs, f \in Flows : flow[t][f].step = "login" => f = "login"

IInv == SignType /\ Known /\ LoginSteps /\ OwnProject

-----------------------------------------------------------------------------
(* What the actions are made of.                                           *)

LEMMA SomeoneIs == Someone \in Users
BY SignInAssumption DEF Someone

LEMMA NoRequestIs ==
    /\ NoRequest \in Requests /\ NoRequest.step = "none"
BY SomeoneIs, SignInAssumption DEF NoRequest, Requests, Steps, None

\* A request has the type of requests, and is what it was sent as.
LEMMA SendIs ==
    ASSUME token' \in 0 .. MaxTokens, userOf' \in [Tokens -> Users],
           NEW step \in Steps, NEW p \in 0 .. MaxProjects, NEW by \in Users, NEW shown \in BOOLEAN
    PROVE  /\ Send(step, p, by, shown) \in Requests
           /\ Send(step, p, by, shown).step = step
           /\ Send(step, p, by, shown).project = p
           /\ Send(step, p, by, shown).by = by
<1>1. UserFor(token') \in Users
  BY SomeoneIs DEF UserFor, Tokens, None
<1>2. Valid(token') \in BOOLEAN
  BY DEF Valid
<1>3. NoRequest \in Requests
  BY NoRequestIs
<1> DEFINE r1 == [NoRequest EXCEPT !.step = step]
           r2 == [r1 EXCEPT !.token = token']
           r3 == [r2 EXCEPT !.user = UserFor(token')]
           r4 == [r3 EXCEPT !.taken = Valid(token')]
           r5 == [r4 EXCEPT !.project = p]
           r6 == [r5 EXCEPT !.by = by]
           r7 == [r6 EXCEPT !.shown = shown]
<1>4. Send(step, p, by, shown) = r7
  BY Zenon DEF Send
<1>5. r1 \in Requests /\ r1.step = step
  BY <1>3 DEF Requests
<1>6. r2 \in Requests /\ r2.step = step
  <2> HIDE DEF r1
  <2> QED
    BY <1>5 DEF Requests
<1>7. r3 \in Requests /\ r3.step = step
  <2> HIDE DEF r2
  <2> QED
    BY <1>1, <1>6 DEF Requests
<1>8. r4 \in Requests /\ r4.step = step
  <2> HIDE DEF r3
  <2> QED
    BY <1>2, <1>7 DEF Requests
<1>9. r5 \in Requests /\ r5.step = step /\ r5.project = p
  <2> HIDE DEF r4
  <2> QED
    BY <1>8 DEF Requests
<1>10. r6 \in Requests /\ r6.step = step /\ r6.project = p /\ r6.by = by
  <2> HIDE DEF r5
  <2> QED
    BY <1>9 DEF Requests
<1>11. r7 \in Requests /\ r7.step = step /\ r7.project = p /\ r7.by = by
  <2> HIDE DEF r6
  <2> QED
    BY <1>10 DEF Requests
<1> QED
  BY <1>4, <1>11

\* A first request of a flow.
LEMMA FirstSend ==
    ASSUME token' \in 0 .. MaxTokens, userOf' \in [Tokens -> Users], NEW step \in Steps
    PROVE  /\ Send(step, None, Someone, TRUE) \in Requests
           /\ Send(step, None, Someone, TRUE).step = step
<1>1. None \in 0 .. MaxProjects
  BY SignInAssumption DEF None
<1> QED
  BY <1>1, SendIs, SomeoneIs

\* What a tab still knows when it comes to its page.
LEMMA NavigateKeeps ==
    ASSUME SignType, NEW t \in Tabs, NEW url, NEW flows \in [Flows -> Requests],
           NEW anew \in BOOLEAN, token' \in 0 .. MaxTokens, userOf' \in [Tokens -> Users],
           Navigate(t, url, flows, anew)
    PROVE  /\ flow' \in [Tabs -> [Flows -> Requests]]
           /\ list' \in [Tabs -> SUBSET Projects] /\ listFor' \in [Tabs -> Users]
           /\ \A q \in Tabs : q # t => flow'[q] = flow[q]
           /\ flow'[t]["create"].step = flows["create"].step
           /\ flow'[t]["create"].project = flows["create"].project
           /\ flow'[t]["create"].by = flows["create"].by
           /\ \A f \in Flows : flow'[t][f].step = flows[f].step
                                  \/ (f = "show" /\ flow'[t][f].step = "my")
           /\ \A q \in Tabs : list'[q] = {} \/ (list'[q] = list[q] /\ listFor'[q] = listFor[q])
<1> DEFINE new == Guarded(url)
           fresh == anew \/ new # page[t]
           left == [f \in Flows |-> [flows[f] EXCEPT !.shown = @ /\ ~fresh]]
           sent == Send("my", None, Someone, TRUE)
           all == IF fresh /\ new = "projects" THEN [left EXCEPT !["show"] = sent] ELSE left
<1>1. /\ flow' = [flow EXCEPT ![t] = all]
      /\ list' = [list EXCEPT ![t] = IF fresh THEN {} ELSE @]
      /\ listFor' = IF fresh THEN [listFor EXCEPT ![t] = Someone] ELSE listFor
  BY DEF Navigate
<1>2. \A f \in Flows : /\ left[f] \in Requests /\ left[f].step = flows[f].step
                       /\ left[f].project = flows[f].project /\ left[f].by = flows[f].by
  BY DEF Requests
<1>3. sent \in Requests /\ sent.step = "my"
  <2>1. "my" \in Steps /\ None \in 0 .. MaxProjects
    BY SignInAssumption DEF Steps, None
  <2> QED
    BY <2>1, SendIs, SomeoneIs
<1>4. left \in [Flows -> Requests]
  BY <1>2
<1> HIDE DEF left, sent, fresh, new
<1>5. all \in [Flows -> Requests]
  BY <1>3, <1>4
<1>6. /\ all["create"] = left["create"]
      /\ \A f \in Flows : all[f] = left[f] \/ (f = "show" /\ all[f] = sent)
  BY <1>4 DEF Flows
<1> HIDE DEF all
<1>7. flow' \in [Tabs -> [Flows -> Requests]] /\ flow'[t] = all
  BY <1>1, <1>5 DEF SignType
<1>8. \A q \in Tabs : q # t => flow'[q] = flow[q]
  BY <1>1 DEF SignType
<1>9. /\ flow'[t]["create"].step = flows["create"].step
      /\ flow'[t]["create"].project = flows["create"].project
      /\ flow'[t]["create"].by = flows["create"].by
  BY <1>2, <1>6, <1>7 DEF Flows
<1>10. \A f \in Flows : flow'[t][f].step = flows[f].step
                           \/ (f = "show" /\ flow'[t][f].step = "my")
  BY <1>2, <1>3, <1>6, <1>7
<1>11. list' \in [Tabs -> SUBSET Projects] /\ listFor' \in [Tabs -> Users]
  <2>1. list' \in [Tabs -> SUBSET Projects]
    BY <1>1 DEF SignType
  <2>2. listFor' \in [Tabs -> Users]
    BY <1>1, SomeoneIs DEF SignType
  <2> QED
    BY <2>1, <2>2
<1>12. \A q \in Tabs : list'[q] = {} \/ (list'[q] = list[q] /\ listFor'[q] = listFor[q])
  BY <1>1 DEF SignType
<1> QED
  BY <1>7, <1>8, <1>9, <1>10, <1>11, <1>12

\* One flow of a tab moves.
LEMMA OneFlow ==
    ASSUME SignType, NEW t \in Tabs, NEW f \in Flows, NEW r \in Requests,
           flow' = [flow EXCEPT ![t][f] = r]
    PROVE  /\ flow' \in [Tabs -> [Flows -> Requests]]
           /\ \A q \in Tabs, g \in Flows :
                 flow'[q][g] = IF q = t /\ g = f THEN r ELSE flow[q][g]
<1>1. flow' = [flow EXCEPT ![t] = [flow[t] EXCEPT ![f] = r]]
  OBVIOUS
<1>2. [flow[t] EXCEPT ![f] = r] \in [Flows -> Requests]
  BY DEF SignType
<1>3. \A q \in Tabs : flow'[q] = IF q = t THEN [flow[t] EXCEPT ![f] = r] ELSE flow[q]
  BY <1>1 DEF SignType
<1>4. \A q \in Tabs : flow[q] \in [Flows -> Requests]
  BY DEF SignType
<1> QED
  BY <1>1, <1>2, <1>3, <1>4 DEF SignType

\* The members grow, the lists are the same or gone, and no creation has come
\* to wait for its list.
LEMMA KnownKept ==
    ASSUME SignType, Known, \A p \in Projects : members[p] \subseteq members'[p],
           \A q \in Tabs : list'[q] = {} \/ (list'[q] = list[q] /\ listFor'[q] = listFor[q]),
           \A q \in Tabs : flow'[q]["create"].step = "my" =>
               /\ flow[q]["create"].step = "my"
               /\ flow'[q]["create"].project = flow[q]["create"].project
               /\ flow'[q]["create"].by = flow[q]["create"].by
    PROVE  Known'
<1> SUFFICES ASSUME NEW q \in Tabs PROVE KnownList(q)' /\ KnownNew(q)'
  BY DEF Known
<1>1. KnownList(q) /\ KnownNew(q) /\ list[q] \subseteq Projects
  BY DEF Known, SignType
<1>2. KnownList(q)'
  BY <1>1 DEF KnownList
<1>3. KnownNew(q)'
  BY <1>1 DEF KnownNew
<1> QED
  BY <1>2, <1>3

\* The active project stays one's own as long as nobody chooses another one.
LEMMA OwnKept ==
    ASSUME SignType, OwnProject, \A p \in Projects : members[p] \subseteq members'[p],
           userOf' = userOf,
           (UNCHANGED storage) \/ project' = None
    PROVE  OwnProject'
<1>1. CASE project' = None
  BY <1>1 DEF OwnProject
<1>2. CASE UNCHANGED storage /\ project' # None
  <2>1. project' = project /\ token' = token /\ crossed' = crossed
    BY <1>2 DEF storage
  <2> SUFFICES ASSUME project # None, token # None, ~crossed
               PROVE  userOf[token] \in members'[project]
    BY <2>1 DEF OwnProject
  <2>2. userOf[token] \in members[project]
    BY DEF OwnProject
  <2>3. project \in Projects
    BY SignInAssumption DEF SignType, Projects, None
  <2> QED
    BY <2>2, <2>3
<1> QED
  BY <1>1, <1>2

-----------------------------------------------------------------------------
(* The steps that bring a tab to a page.                                   *)

\* What follows from a Navigate with flows the tab had, or none, in their place.
LEMMA NavigateStep ==
    ASSUME IInv, NEW t \in Tabs, NEW url, NEW flows \in [Flows -> Requests],
           NEW anew \in BOOLEAN, token' \in 0 .. MaxTokens, project' \in 0 .. MaxProjects,
           issued' \in Nat, userOf' \in [Tokens -> Users], members' = members,
           \A f \in Flows : flows[f] = flow[t][f] \/ flows[f] = NoRequest,
           Navigate(t, url, flows, anew)
    PROVE  SignType' /\ Known' /\ LoginSteps'
<1> USE DEF IInv
<1>1. /\ flow' \in [Tabs -> [Flows -> Requests]]
      /\ list' \in [Tabs -> SUBSET Projects] /\ listFor' \in [Tabs -> Users]
      /\ \A q \in Tabs : q # t => flow'[q] = flow[q]
      /\ flow'[t]["create"].step = flows["create"].step
      /\ flow'[t]["create"].project = flows["create"].project
      /\ flow'[t]["create"].by = flows["create"].by
      /\ \A f \in Flows : flow'[t][f].step = flows[f].step
                             \/ (f = "show" /\ flow'[t][f].step = "my")
      /\ \A q \in Tabs : list'[q] = {} \/ (list'[q] = list[q] /\ listFor'[q] = listFor[q])
  BY NavigateKeeps
<1>2. SignType'
  BY <1>1 DEF SignType
<1>3. flows["create"].step = "my" => flows["create"] = flow[t]["create"]
  BY NoRequestIs DEF Flows
<1>4. Known'
  <2>1. \A q \in Tabs : flow'[q]["create"].step = "my" =>
               /\ flow[q]["create"].step = "my"
               /\ flow'[q]["create"].project = flow[q]["create"].project
               /\ flow'[q]["create"].by = flow[q]["create"].by
    BY <1>1, <1>3
  <2> QED
    BY <2>1, <1>1, KnownKept
<1>5. LoginSteps'
  <2> SUFFICES ASSUME NEW q \in Tabs, NEW f \in Flows, flow'[q][f].step = "login"
               PROVE  f = "login"
    BY DEF LoginSteps
  <2>1. CASE q = t
    <3>1. flows[f].step = "login"
      BY <1>1, <2>1
    <3> QED
      BY <3>1, <2>1, NoRequestIs DEF LoginSteps
  <2>2. CASE q # t
    BY <1>1, <2>2 DEF LoginSteps
  <2> QED
    BY <2>1, <2>2
<1> QED
  BY <1>2, <1>4, <1>5

LEMMA VisitStep ==
    ASSUME IInv, NEW t \in Tabs, NEW url, Visit(t, url) PROVE IInv'
<1> USE DEF IInv
<1>1. /\ UNCHANGED <<storage, serverVars>>
      /\ Navigate(t, url, [f \in Flows |-> NoRequest], TRUE)
  BY DEF Visit
<1>2. token' = token /\ project' = project /\ issued' = issued /\ userOf' = userOf
      /\ members' = members
  BY <1>1 DEF storage, serverVars
<1>3. [f \in Flows |-> NoRequest] \in [Flows -> Requests]
  BY NoRequestIs
<1>4. SignType' /\ Known' /\ LoginSteps'
  BY <1>1, <1>2, <1>3, NavigateStep DEF SignType
<1>5. OwnProject'
  BY <1>1, <1>2, OwnKept
<1> QED
  BY <1>4, <1>5

LEMMA OpenStep ==
    ASSUME IInv, NEW t \in Tabs, NEW p \in Projects, Open(t, p) PROVE IInv'
<1> USE DEF IInv
<1>1. /\ p \in list[t] /\ project' = p /\ token' = token
      /\ crossed' = (token = None \/ userOf[token] # listFor[t])
      /\ issued' = issued /\ userOf' = userOf /\ members' = members
      /\ Navigate(t, "ide", flow[t], FALSE)
  BY DEF Open, Activate, serverVars
<1>2. flow[t] \in [Flows -> Requests] /\ p \in 0 .. MaxProjects
  BY SignInAssumption DEF SignType, Projects
<1>3. SignType' /\ Known' /\ LoginSteps'
  BY <1>1, <1>2, NavigateStep DEF SignType
<1>4. OwnProject'
  BY <1>1 DEF OwnProject, Known, KnownList
<1> QED
  BY <1>3, <1>4

LEMMA LoggedInStep == ASSUME IInv, NEW t \in Tabs, LoggedIn(t) PROVE IInv'
<1> USE DEF IInv
<1> DEFINE flows == [flow[t] EXCEPT !["login"] = NoRequest]
<1>1. /\ flow[t]["login"].step = "login" /\ issued < MaxTokens /\ issued' = issued + 1
      /\ userOf' = [userOf EXCEPT ![issued + 1] = flow[t]["login"].user]
      /\ token' = issued + 1 /\ project' = None /\ members' = members
      /\ Navigate(t, "projects", flows, FALSE)
  BY DEF LoggedIn
<1>2. flow[t] \in [Flows -> Requests]
  BY DEF SignType
<1>3. /\ flows \in [Flows -> Requests]
      /\ \A f \in Flows : flows[f] = flow[t][f] \/ flows[f] = NoRequest
  BY <1>2, NoRequestIs
<1>4. flow[t]["login"].user \in Users
  BY <1>2 DEF Flows, Requests
<1>5. /\ token' \in 0 .. MaxTokens /\ project' \in 0 .. MaxProjects /\ issued' \in Nat
      /\ userOf' \in [Tokens -> Users]
  <2>1. issued \in Nat /\ issued + 1 \in Tokens /\ issued + 1 \in 0 .. MaxTokens
    BY <1>1, SignInAssumption DEF SignType, Tokens
  <2>2. None \in 0 .. MaxProjects
    BY SignInAssumption DEF None
  <2>3. userOf' \in [Tokens -> Users]
    BY <1>1, <1>4, <2>1 DEF SignType
  <2> QED
    BY <1>1, <2>1, <2>2, <2>3
<1> HIDE DEF flows
<1>6. SignType' /\ Known' /\ LoginSteps'
  BY <1>1, <1>3, <1>5, NavigateStep
<1>7. OwnProject'
  BY <1>1 DEF OwnProject
<1> QED
  BY <1>6, <1>7

LEMMA CreatedStep ==
    ASSUME IInv, NEW t \in Tabs, NEW answer \in {"ok", "denied", "refused"},
           Created(t, answer)
    PROVE  IInv'
<1> USE DEF IInv
<1> DEFINE flows == [flow[t] EXCEPT !["create"] = NoRequest]
           r == flow[t]["create"]
           kept == IF answer = "denied" THEN None ELSE token
<1>1. /\ r.step = "my" /\ token' = kept /\ project' = r.project
      /\ crossed' = (kept = None \/ userOf[kept] # r.by)
      /\ issued' = issued /\ userOf' = userOf /\ members' = members
      /\ Navigate(t, "ide", flows, FALSE)
  BY DEF Created, serverVars
<1>2. flow[t] \in [Flows -> Requests]
  BY DEF SignType
<1>3. /\ flows \in [Flows -> Requests]
      /\ \A f \in Flows : flows[f] = flow[t][f] \/ flows[f] = NoRequest
  BY <1>2, NoRequestIs
<1>4. r.project \in Projects /\ r.by \in members[r.project]
  BY <1>1 DEF Known, KnownNew
<1>5. kept \in 0 .. MaxTokens /\ r.project \in 0 .. MaxProjects
  BY <1>4, SignInAssumption DEF SignType, None, Projects
<1> HIDE DEF flows, r, kept
<1>6. SignType' /\ Known' /\ LoginSteps'
  BY <1>1, <1>3, <1>5, NavigateStep DEF SignType
<1>7. OwnProject'
  BY <1>1, <1>4 DEF OwnProject
<1> QED
  BY <1>6, <1>7

-----------------------------------------------------------------------------
(* The steps of one flow.                                                  *)

\* A flow moves, and neither a creation comes to wait for its list nor a login
\* begins in another flow.
LEMMA FlowStep ==
    ASSUME IInv, NEW t \in Tabs, NEW f \in Flows, NEW r \in Requests,
           flow' = [flow EXCEPT ![t][f] = r],
           f = "create" => r.step # "my", r.step = "login" => f = "login",
           UNCHANGED <<serverVars, list, listFor>>,
           UNCHANGED storage \/ (token' = None /\ project' = None)
    PROVE  IInv'
<1> USE DEF IInv
<1>1. /\ flow' \in [Tabs -> [Flows -> Requests]]
      /\ \A q \in Tabs, g \in Flows :
            flow'[q][g] = IF q = t /\ g = f THEN r ELSE flow[q][g]
  BY OneFlow
<1>2. token' \in 0 .. MaxTokens /\ project' \in 0 .. MaxProjects
  BY SignInAssumption DEF SignType, storage, None
<1>3. SignType'
  BY <1>1, <1>2 DEF SignType, serverVars
<1>4. Known'
  BY <1>1, KnownKept DEF serverVars, Flows
<1>5. LoginSteps'
  BY <1>1 DEF LoginSteps
<1>6. OwnProject'
  BY OwnKept DEF serverVars
<1> QED
  BY <1>3, <1>4, <1>5, <1>6

LEMMA BeginStep ==
    ASSUME IInv, NEW t \in Tabs,
           \/ \E u \in Users : Login(t, u)
           \/ Create(t) \/ Join(t) \/ LoginFails(t)
           \/ \E f \in Flows, answer \in {"denied", "refused"} : Breaks(t, f, answer)
    PROVE  IInv'
<1>1. ASSUME NEW u \in Users, Login(t, u) PROVE IInv'
  <2> DEFINE r == [NoRequest EXCEPT !.step = "login", !.user = u]
  <2>1. r \in Requests
    BY NoRequestIs DEF Requests, Steps
  <2>2. flow' = [flow EXCEPT ![t]["login"] = r] /\ UNCHANGED <<storage, serverVars, list, listFor>>
    BY <1>1 DEF Login
  <2> HIDE DEF r
  <2> QED
    BY <2>1, <2>2, FlowStep DEF Flows
<1>2. CASE Create(t)
  <2> DEFINE r == Send("create", None, Someone, TRUE)
  <2>1. /\ flow' = [flow EXCEPT ![t]["create"] = r]
        /\ UNCHANGED <<storage, serverVars, list, listFor>>
    BY <1>2 DEF Create
  <2>2. token' \in 0 .. MaxTokens /\ userOf' \in [Tokens -> Users]
    BY <2>1 DEF IInv, SignType, storage, serverVars
  <2>3. "create" \in Steps
    BY DEF Steps
  <2>4. r \in Requests /\ r.step = "create"
    BY <2>2, <2>3, FirstSend
  <2> HIDE DEF r
  <2> QED
    BY <2>1, <2>4, FlowStep DEF Flows
<1>5. CASE Join(t)
  <2> DEFINE r == Send("code", None, Someone, TRUE)
  <2>1. /\ flow' = [flow EXCEPT ![t]["join"] = r]
        /\ UNCHANGED <<storage, serverVars, list, listFor>>
    BY <1>5 DEF Join
  <2>2. token' \in 0 .. MaxTokens /\ userOf' \in [Tokens -> Users]
    BY <2>1 DEF IInv, SignType, storage, serverVars
  <2>3. "code" \in Steps
    BY DEF Steps
  <2>4. r \in Requests /\ r.step = "code"
    BY <2>2, <2>3, FirstSend
  <2> HIDE DEF r
  <2> QED
    BY <2>1, <2>4, FlowStep DEF Flows
<1>3. CASE LoginFails(t)
  BY <1>3, NoRequestIs, FlowStep DEF LoginFails, Flows
<1>4. ASSUME NEW f \in Flows, NEW answer \in {"denied", "refused"}, Breaks(t, f, answer)
      PROVE  IInv'
  <2>1. /\ flow' = [flow EXCEPT ![t][f] = NoRequest]
        /\ UNCHANGED <<serverVars, list, listFor>>
        /\ UNCHANGED storage \/ (token' = None /\ project' = None)
    BY <1>4 DEF Breaks, Failure, Intercept, Forget
  <2> QED
    BY <2>1, NoRequestIs, FlowStep
<1> QED
  BY <1>1, <1>2, <1>3, <1>4, <1>5

LEMMA OnCreateStep == ASSUME IInv, NEW t \in Tabs, OnCreate(t) PROVE IInv'
<1> USE DEF IInv
<1>1. PICK p \in Projects :
         /\ members[p] = {} /\ members' = [members EXCEPT ![p] = {flow[t]["create"].user}]
         /\ flow' = [flow EXCEPT ![t]["create"] =
               Send("my", p, flow[t]["create"].user, flow[t]["create"].shown)]
  BY DEF OnCreate, Continue
<1>2. UNCHANGED <<storage, list, listFor, issued, userOf>>
  BY DEF OnCreate
<1>3. PICK u \in Users, shown \in BOOLEAN :
         u = flow[t]["create"].user /\ shown = flow[t]["create"].shown
  <2>1. flow[t]["create"] \in Requests
    BY DEF SignType, Flows
  <2> QED
    BY <2>1 DEF Requests
<1>4. PICK r \in Requests : /\ r = Send("my", p, u, shown)
                            /\ r.step = "my" /\ r.project = p /\ r.by = u
  <2>1. token' \in 0 .. MaxTokens /\ userOf' \in [Tokens -> Users]
    BY <1>2 DEF SignType, storage
  <2>2. "my" \in Steps /\ p \in 0 .. MaxProjects
    BY SignInAssumption DEF Steps, Projects
  <2> QED
    BY <2>1, <2>2, SendIs
<1>5. flow' = [flow EXCEPT ![t]["create"] = r]
  BY <1>1, <1>3, <1>4
<1>6. /\ flow' \in [Tabs -> [Flows -> Requests]]
      /\ \A q \in Tabs, g \in Flows :
            flow'[q][g] = IF q = t /\ g = "create" THEN r ELSE flow[q][g]
  <2>1. "create" \in Flows
    BY DEF Flows
  <2> QED
    BY <2>1, <1>5, OneFlow
<1>7. members' \in [Projects -> SUBSET Users] /\ members'[p] = {u}
  BY <1>1, <1>3 DEF SignType
<1>8. \A q \in Projects : members[q] \subseteq members'[q]
  BY <1>1 DEF SignType
<1>9. SignType'
  BY <1>2, <1>6, <1>7 DEF SignType, storage
<1>10. Known'
  <2> SUFFICES ASSUME NEW q \in Tabs PROVE KnownList(q)' /\ KnownNew(q)'
    BY DEF Known
  <2>1. KnownList(q)'
    BY <1>2, <1>8 DEF Known, KnownList, SignType
  <2>2. KnownNew(q)'
    <3>1. CASE q = t
      <4>1. flow'[q]["create"] = r
        BY <3>1, <1>6 DEF Flows
      <4> QED
        BY <4>1, <1>4, <1>7 DEF KnownNew
    <3>2. CASE q # t
      <4>1. flow'[q]["create"] = flow[q]["create"]
        BY <3>2, <1>6 DEF Flows
      <4> QED
        BY <4>1, <1>8 DEF Known, KnownNew
    <3> QED
      BY <3>1, <3>2
  <2> QED
    BY <2>1, <2>2
<1>11. LoginSteps'
  BY <1>4, <1>6 DEF LoginSteps
<1>12. OwnProject'
  BY <1>2, <1>8, OwnKept
<1> QED
  BY <1>9, <1>10, <1>11, <1>12

LEMMA OnJoinStep == ASSUME IInv, NEW t \in Tabs, OnCode(t) \/ OnJoin(t) PROVE IInv'
<1> USE DEF IInv
<1>1. PICK step \in {"join", "my"}, p \in 0 .. MaxProjects :
         flow' = [flow EXCEPT ![t]["join"] = Send(step, p, Someone, flow[t]["join"].shown)]
  <2>1. None \in 0 .. MaxProjects /\ Projects \subseteq 0 .. MaxProjects
    BY SignInAssumption DEF None, Projects
  <2>2. CASE OnCode(t)
    BY <2>1, <2>2 DEF OnCode, Continue
  <2>3. CASE OnJoin(t)
    BY <2>1, <2>3 DEF OnJoin, Continue
  <2> QED
    BY <2>2, <2>3
<1>2. UNCHANGED <<storage, list, listFor, issued, userOf>>
  BY DEF OnCode, OnJoin, serverVars
<1>3. flow[t]["join"] \in Requests
  BY DEF SignType, Flows
<1>4. /\ members' \in [Projects -> SUBSET Users]
      /\ \A q \in Projects : members[q] \subseteq members'[q]
  <2>1. CASE members' = members
    BY <2>1 DEF SignType
  <2>2. CASE OnJoin(t)
    <3>1. flow[t]["join"].user \in Users
      BY <1>3 DEF Requests
    <3>2. PICK u \in Users : u = flow[t]["join"].user
      BY <3>1
    <3>3. PICK p0 : p0 = flow[t]["join"].project
      OBVIOUS
    <3>4. members' = [members EXCEPT ![p0] = members[p0] \cup {u}]
      BY <2>2, <3>2, <3>3 DEF OnJoin
    <3>5. members \in [Projects -> SUBSET Users]
      BY DEF SignType
    <3>6. members' \in [Projects -> SUBSET Users]
      BY <3>4, <3>5
    <3>7. \A q \in Projects : members[q] \subseteq members'[q]
      BY <3>4, <3>5
    <3> QED
      BY <3>6, <3>7
  <2> QED
    BY <2>1, <2>2 DEF OnCode, serverVars
<1>5. PICK r \in Requests : r = Send(step, p, Someone, flow[t]["join"].shown) /\ r.step = step
  <2>1. token' \in 0 .. MaxTokens /\ userOf' \in [Tokens -> Users]
    BY <1>2 DEF SignType, storage
  <2>2. step \in Steps /\ flow[t]["join"].shown \in BOOLEAN
    BY <1>3 DEF Steps, Requests
  <2>3. PICK shown \in BOOLEAN : shown = flow[t]["join"].shown
    BY <2>2
  <2>4. Send(step, p, Someone, shown) \in Requests /\ Send(step, p, Someone, shown).step = step
    BY <2>1, <2>2, SendIs, SomeoneIs
  <2> QED
    BY <2>3, <2>4
<1>6. flow' = [flow EXCEPT ![t]["join"] = r]
  BY <1>1, <1>5
<1>7. /\ flow' \in [Tabs -> [Flows -> Requests]]
      /\ \A q \in Tabs, g \in Flows :
            flow'[q][g] = IF q = t /\ g = "join" THEN r ELSE flow[q][g]
  <2>1. "join" \in Flows
    BY DEF Flows
  <2> QED
    BY <2>1, <1>6, OneFlow
<1>8. SignType'
  BY <1>2, <1>4, <1>7 DEF SignType, storage
<1>9. Known'
  <2>1. \A q \in Tabs : flow'[q]["create"] = flow[q]["create"]
    BY <1>7 DEF Flows
  <2> QED
    BY <2>1, <1>2, <1>4, KnownKept
<1>10. LoginSteps'
  BY <1>5, <1>7 DEF LoginSteps
<1>11. OwnProject'
  BY <1>2, <1>4, OwnKept
<1> QED
  BY <1>8, <1>9, <1>10, <1>11

LEMMA ShowsStep ==
    ASSUME IInv, NEW t \in Tabs, NEW f \in Flows,
           Listed(t, f) \/ \E answer \in {"denied", "refused"} : NotListed(t, f, answer)
    PROVE  IInv'
<1> USE DEF IInv
<1> DEFINE r == flow[t][f]
<1>1. PICK found \in SUBSET Projects :
         /\ \A p \in found : r.user \in members[p]
         /\ Shows(t, f, found)
  BY DEF Listed, NotListed
<1>2. UNCHANGED storage \/ (token' = None /\ project' = None)
  BY DEF Listed, NotListed, Failure, Intercept, Forget
<1>3. /\ flow' = [flow EXCEPT ![t][f] = NoRequest] /\ UNCHANGED serverVars
      /\ list' = IF r.shown THEN [list EXCEPT ![t] = found] ELSE list
      /\ listFor' = IF r.shown THEN [listFor EXCEPT ![t] = r.user] ELSE listFor
  BY <1>1 DEF Shows
<1>4. r.user \in Users
  BY DEF SignType, Requests
<1>5. /\ flow' \in [Tabs -> [Flows -> Requests]]
      /\ \A q \in Tabs, g \in Flows :
            flow'[q][g] = IF q = t /\ g = f THEN NoRequest ELSE flow[q][g]
  BY <1>3, NoRequestIs, OneFlow
<1> HIDE DEF r
<1>6. SignType'
  <2>1. list' \in [Tabs -> SUBSET Projects]
    BY <1>3 DEF SignType
  <2>2. listFor' \in [Tabs -> Users]
    BY <1>3, <1>4 DEF SignType
  <2>3. token' \in 0 .. MaxTokens /\ project' \in 0 .. MaxProjects
    BY <1>2, SignInAssumption DEF SignType, storage, None
  <2> QED
    BY <2>1, <2>2, <2>3, <1>3, <1>5 DEF SignType, serverVars
<1>7. Known'
  <2> SUFFICES ASSUME NEW q \in Tabs PROVE KnownList(q)' /\ KnownNew(q)'
    BY DEF Known
  <2>1. KnownList(q)'
    <3>1. \/ list'[q] = list[q] /\ listFor'[q] = listFor[q]
          \/ list'[q] = found /\ listFor'[q] = r.user
      BY <1>3 DEF SignType
    <3> QED
      BY <3>1, <1>1, <1>3 DEF Known, KnownList, serverVars, r
  <2>2. KnownNew(q)'
    <3>1. flow'[q]["create"] = flow[q]["create"] \/ flow'[q]["create"] = NoRequest
      BY <1>5 DEF Flows
    <3> QED
      BY <3>1, <1>3, NoRequestIs DEF Known, KnownNew, serverVars
  <2> QED
    BY <2>1, <2>2
<1>8. LoginSteps'
  BY <1>5, NoRequestIs DEF LoginSteps
<1>9. OwnProject'
  BY <1>2, <1>3, OwnKept DEF serverVars
<1> QED
  BY <1>6, <1>7, <1>8, <1>9

LEMMA SameStep ==
    ASSUME IInv, UNCHANGED <<storage, list, listFor, flow, issued, userOf, members>> PROVE IInv'
<1>1. SignType'
  BY DEF IInv, SignType, storage
<1>2. Known'
  BY DEF IInv, Known, KnownList, KnownNew
<1>3. LoginSteps'
  BY DEF IInv, LoginSteps
<1>4. OwnProject'
  BY DEF IInv, OwnProject, storage
<1> QED
  BY <1>1, <1>2, <1>3, <1>4 DEF IInv

-----------------------------------------------------------------------------
(* The theorems.                                                           *)

LEMMA InvInit == Init => IInv
<1> SUFFICES ASSUME Init PROVE IInv
  OBVIOUS
<1>1. SignType
  BY SomeoneIs, NoRequestIs, SignInAssumption DEF Init, SignType, None
<1>2. \A t \in Tabs, f \in Flows : flow[t][f] = NoRequest
  BY DEF Init
<1>3. Known
  BY <1>2, NoRequestIs DEF Init, Known, KnownList, KnownNew, Flows
<1>4. LoginSteps
  BY <1>2, NoRequestIs DEF LoginSteps
<1>5. OwnProject
  BY DEF Init, OwnProject
<1> QED
  BY <1>1, <1>3, <1>4, <1>5 DEF IInv

LEMMA InvStep == IInv /\ [Next]_vars => IInv'
<1> SUFFICES ASSUME IInv, [Next]_vars PROVE IInv'
  OBVIOUS
<1>1. ASSUME NEW t \in Tabs, NEW url \in {"login", "projects", "ide"}, Visit(t, url) PROVE IInv'
  BY <1>1, VisitStep
<1>2. ASSUME NEW t \in Tabs,
             \/ \E u \in Users : Login(t, u)
             \/ Create(t) \/ Join(t) \/ LoginFails(t)
             \/ \E f \in Flows, answer \in {"denied", "refused"} : Breaks(t, f, answer)
      PROVE  IInv'
  BY <1>2, BeginStep
<1>3. ASSUME NEW t \in Tabs, NEW p \in Projects, Open(t, p) PROVE IInv'
  BY <1>3, OpenStep
<1>4. ASSUME NEW t \in Tabs, LoggedIn(t) PROVE IInv'
  BY <1>4, LoggedInStep
<1>5. ASSUME NEW t \in Tabs, OnCreate(t) PROVE IInv'
  BY <1>5, OnCreateStep
<1>6. ASSUME NEW t \in Tabs, OnCode(t) \/ OnJoin(t) PROVE IInv'
  BY <1>6, OnJoinStep
<1>7. ASSUME NEW t \in Tabs, NEW f \in Flows,
             Listed(t, f) \/ \E answer \in {"denied", "refused"} : NotListed(t, f, answer)
      PROVE  IInv'
  BY <1>7, ShowsStep
<1>8. ASSUME NEW t \in Tabs, NEW answer \in {"ok", "denied", "refused"}, Created(t, answer)
      PROVE  IInv'
  BY <1>8, CreatedStep
<1>9. ASSUME NEW n \in Tokens, Expire(n) PROVE IInv'
  BY <1>9, SameStep DEF Expire, tabVars
<1>10. CASE UNCHANGED vars
  BY <1>10, SameStep DEF vars, tabVars, serverVars
<1> QED
  BY <1>1, <1>2, <1>3, <1>4, <1>5, <1>6, <1>7, <1>8, <1>9, <1>10 DEF Next

\* The invariant and its strengthening hold in every reachable state.
THEOREM Invariance == Spec => []IInv
BY InvInit, InvStep, PTL DEF Spec

\* The active project is one of the signed-in user's, unless it was chosen from
\* what was asked for another user.
THEOREM ProjectIsOwn == Spec => []OwnProject
<1>1. IInv => OwnProject
  BY DEF IInv
<1> QED
  BY <1>1, Invariance, PTL

\* The types of what the argument above leaves alone.
OtherTypes ==
    /\ page \in [Tabs -> {"login", "projects", "ide"}]
    /\ loading \in [Tabs -> BOOLEAN]
    /\ issued \in 0 .. MaxTokens /\ expired \subseteq 1 .. issued
    /\ crossed \in BOOLEAN

\* A tab comes to a page that there is.
LEMMA NavigateTypes ==
    ASSUME OtherTypes, NEW t \in Tabs, NEW url \in {"login", "projects", "ide"}, NEW flows,
           NEW anew, Navigate(t, url, flows, anew)
    PROVE  /\ page' \in [Tabs -> {"login", "projects", "ide"}]
           /\ loading' \in [Tabs -> BOOLEAN]
<1> DEFINE new == Guarded(url)
           fresh == anew \/ new # page[t]
<1>1. new \in {"login", "projects", "ide"}
  BY DEF Guarded
<1>2. /\ page' = [page EXCEPT ![t] = new]
      /\ loading' = [loading EXCEPT ![t] = IF fresh THEN new = "projects" ELSE @]
  BY DEF Navigate
<1> HIDE DEF new, fresh
<1>3. page' \in [Tabs -> {"login", "projects", "ide"}]
  BY <1>1, <1>2 DEF OtherTypes
<1>4. (IF fresh THEN new = "projects" ELSE loading[t]) \in BOOLEAN
  BY DEF OtherTypes
<1>5. loading' \in [Tabs -> BOOLEAN]
  BY <1>2, <1>4 DEF OtherTypes
<1> QED
  BY <1>3, <1>5

LEMMA OtherTypesStep == SignType /\ OtherTypes /\ [Next]_vars => OtherTypes'
<1> SUFFICES ASSUME SignType, OtherTypes, [Next]_vars PROVE OtherTypes'
  OBVIOUS
<1> DEFINE Urls == {"login", "projects", "ide"}
<1>1. ASSUME NEW t \in Tabs, NEW url \in Urls, Visit(t, url) PROVE OtherTypes'
  <2>1. page' \in [Tabs -> Urls] /\ loading' \in [Tabs -> BOOLEAN]
    BY <1>1, NavigateTypes DEF Visit
  <2> QED
    BY <1>1, <2>1 DEF OtherTypes, Visit, storage, serverVars
<1>2. ASSUME NEW t \in Tabs, NEW p \in Projects, Open(t, p) PROVE OtherTypes'
  <2>1. page' \in [Tabs -> Urls] /\ loading' \in [Tabs -> BOOLEAN]
    BY <1>2, NavigateTypes DEF Open
  <2>2. crossed' \in BOOLEAN
    BY <1>2 DEF Open, Activate
  <2> QED
    BY <1>2, <2>1, <2>2 DEF OtherTypes, Open, serverVars
<1>3. ASSUME NEW t \in Tabs, LoggedIn(t) PROVE OtherTypes'
  <2>1. page' \in [Tabs -> Urls] /\ loading' \in [Tabs -> BOOLEAN]
    BY <1>3, NavigateTypes DEF LoggedIn
  <2>2. issued' \in 0 .. MaxTokens /\ expired' \subseteq 1 .. issued'
    BY <1>3, SignInAssumption DEF OtherTypes, LoggedIn
  <2> QED
    BY <1>3, <2>1, <2>2 DEF OtherTypes, LoggedIn
<1>4. ASSUME NEW t \in Tabs, NEW answer \in {"ok", "denied", "refused"}, Created(t, answer)
      PROVE  OtherTypes'
  <2>1. page' \in [Tabs -> Urls] /\ loading' \in [Tabs -> BOOLEAN]
    BY <1>4, NavigateTypes DEF Created
  <2>2. crossed' \in BOOLEAN
    BY <1>4 DEF Created
  <2> QED
    BY <1>4, <2>1, <2>2 DEF OtherTypes, Created, serverVars
<1>5. ASSUME NEW t \in Tabs,
             \/ \E u \in Users : Login(t, u)
             \/ Create(t) \/ Join(t) \/ LoginFails(t)
      PROVE  OtherTypes'
  BY <1>5 DEF OtherTypes, Login, Create, Join, LoginFails, storage, serverVars
<1>6. ASSUME NEW t \in Tabs, OnCreate(t) \/ OnCode(t) \/ OnJoin(t) PROVE OtherTypes'
  <2>1. PICK b : loading' = [loading EXCEPT ![t] = @ \/ b]
    BY <1>6 DEF OnCreate, OnCode, OnJoin, Continue
  <2>2. (loading[t] \/ b) \in BOOLEAN
    OBVIOUS
  <2>3. loading' \in [Tabs -> BOOLEAN]
    BY <2>1, <2>2 DEF OtherTypes
  <2> QED
    BY <1>6, <2>3 DEF OtherTypes, OnCreate, OnCode, OnJoin, storage, serverVars
<1>7. ASSUME NEW t \in Tabs, NEW f \in Flows,
             \/ Listed(t, f)
             \/ \E answer \in {"denied", "refused"} : Breaks(t, f, answer) \/ NotListed(t, f, answer)
      PROVE  OtherTypes'
  <2>1. crossed' \in BOOLEAN
    BY <1>7 DEF OtherTypes, Listed, Breaks, NotListed, Failure, Intercept, Forget, storage
  <2>2. loading' = loading \/ \E b : loading' = [loading EXCEPT ![t] = @ /\ b]
    BY <1>7 DEF Listed, Breaks, NotListed, Shows
  <2>3. \A b : (loading[t] /\ b) \in BOOLEAN
    OBVIOUS
  <2>4. loading' \in [Tabs -> BOOLEAN]
    BY <2>2, <2>3 DEF OtherTypes
  <2> QED
    BY <1>7, <2>1, <2>4 DEF OtherTypes, Listed, Breaks, NotListed, Shows, serverVars
<1>8. ASSUME NEW n \in Tokens, Expire(n) PROVE OtherTypes'
  BY <1>8 DEF OtherTypes, Expire, storage, tabVars
<1>9. CASE UNCHANGED vars
  BY <1>9 DEF OtherTypes, vars, storage, tabVars, serverVars
<1> QED
  BY <1>1, <1>2, <1>3, <1>4, <1>5, <1>6, <1>7, <1>8, <1>9 DEF Next

\* Whatever the tabs, the storage and the server hold has its type; no more
\* tokens are expired than were issued.
THEOREM TypeCorrect == Spec => []TypeOK
<1>1. ASSUME Init PROVE OtherTypes
  <2>1. page \in [Tabs -> {"login", "projects", "ide"}]
    BY <1>1 DEF Init
  <2>2. loading \in [Tabs -> BOOLEAN]
    BY <1>1 DEF Init
  <2>3. issued \in 0 .. MaxTokens /\ expired \subseteq 1 .. issued
    BY <1>1, SignInAssumption DEF Init
  <2>4. crossed \in BOOLEAN
    BY <1>1 DEF Init
  <2> QED
    BY <2>1, <2>2, <2>3, <2>4 DEF OtherTypes
<1>2. IInv => SignType
  BY DEF IInv
<1>3. SignType /\ OtherTypes => TypeOK
  BY DEF SignType, OtherTypes, TypeOK
<1> QED
  BY <1>1, <1>2, <1>3, OtherTypesStep, Invariance, PTL DEF Spec

\* The editor of a new project asks for no list.
LEMMA IdeKeeps ==
    ASSUME SignType, NEW t \in Tabs, NEW flows \in [Flows -> Requests],
           token' \in 0 .. MaxTokens, userOf' \in [Tokens -> Users],
           Navigate(t, "ide", flows, FALSE)
    PROVE  flow'[t]["create"].step = flows["create"].step
<1> DEFINE url == "ide"
           anew == FALSE
<1>1. anew \in BOOLEAN /\ Navigate(t, url, flows, anew)
  OBVIOUS
<1> HIDE DEF url, anew
<1> QED
  BY <1>1, NavigateKeeps

\* The interceptor drops a token that the server takes only on the answer to a
\* request with another token.
THEOREM FreshTokenKept == Spec => FreshTokenStays
<1> DEFINE Drops ==
        \E t \in Tabs, f \in Flows :
            LET r == flow[t][f]
            IN  /\ r.step \notin {"none", "login"} /\ flow'[t][f] # r
                /\ r.token # token /\ Denied(r)
<1>1. ASSUME IInv, [Next]_vars, Valid(token), token' = None PROVE Drops \/ UNCHANGED vars
  <2>0. token # None
    BY <1>1 DEF Valid
  <2>1. ASSUME NEW t \in Tabs, NEW f \in Flows,
               flow[t][f].step \notin {"none", "login"}, Denied(flow[t][f]),
               flow'[t][f].step = "none"
        PROVE  Drops
    BY <2>1, <1>1 DEF Denied
  <2>2. ASSUME NEW t \in Tabs, NEW f \in Flows, NEW answer \in {"denied", "refused"},
               Breaks(t, f, answer) \/ NotListed(t, f, answer)
        PROVE  Drops
    <3>1. /\ flow' = [flow EXCEPT ![t][f] = NoRequest] /\ flow[t][f].step # "none"
          /\ f \in {"show", "create", "join"}
      BY <2>2 DEF Breaks, NotListed, Shows, Failure
    <3>2. answer = "denied" /\ Denied(flow[t][f])
      BY <2>0, <1>1, <2>2 DEF Breaks, NotListed, Failure, Intercept, storage
    <3>3. flow[t][f].step # "login"
      BY <3>1, <1>1 DEF IInv, LoginSteps
    <3>4. flow'[t][f].step = "none"
      BY <3>1, <1>1, NoRequestIs, OneFlow DEF IInv
    <3> QED
      BY <2>1, <3>1, <3>2, <3>3, <3>4
  <2>3. ASSUME NEW t \in Tabs, NEW answer \in {"ok", "denied", "refused"}, Created(t, answer)
        PROVE  Drops
    <3> DEFINE flows == [flow[t] EXCEPT !["create"] = NoRequest]
    <3>1. /\ flow[t]["create"].step = "my" /\ answer = "denied" /\ Denied(flow[t]["create"])
          /\ userOf' = userOf /\ Navigate(t, "ide", flows, FALSE)
      BY <2>0, <1>1, <2>3 DEF Created, serverVars
    <3>2. flows \in [Flows -> Requests] /\ flows["create"] = NoRequest
      BY <1>1, NoRequestIs DEF IInv, SignType, Flows
    <3>3. token' \in 0 .. MaxTokens /\ userOf' \in [Tokens -> Users]
      BY <1>1, <3>1, SignInAssumption DEF IInv, SignType, None
    <3> HIDE DEF flows
    <3>4. flow'[t]["create"].step = "none"
      <4>1. SignType /\ FALSE \in BOOLEAN
        BY <1>1 DEF IInv
      <4>2. flow'[t]["create"].step = flows["create"].step
        BY <4>1, <3>1, <3>2, <3>3, IdeKeeps
      <4> QED
        BY <4>2, <3>2, NoRequestIs
    <3> QED
      BY <2>1, <3>1, <3>4 DEF Flows
  <2>4. ASSUME NEW t \in Tabs, LoggedIn(t) PROVE FALSE
    BY <2>4, <1>1 DEF LoggedIn, IInv, SignType, None
  <2>5. ASSUME \/ UNCHANGED <<token>>
               \/ \E t \in Tabs, url \in {"login", "projects", "ide"} : Visit(t, url)
               \/ \E t \in Tabs, p \in Projects : Open(t, p)
        PROVE  FALSE
    BY <2>0, <2>5, <1>1 DEF Visit, Open, Activate, storage
  <2>6. ASSUME \/ \E t \in Tabs, u \in Users : Login(t, u)
               \/ \E t \in Tabs : \/ Create(t) \/ Join(t) \/ LoginFails(t)
                                  \/ OnCreate(t) \/ OnCode(t) \/ OnJoin(t)
                                  \/ \E f \in Flows : Listed(t, f)
               \/ \E n \in Tokens : Expire(n)
        PROVE  FALSE
    BY <2>0, <2>6, <1>1 DEF Login, Create, Join, LoginFails, OnCreate, OnCode, OnJoin, Listed,
                            Expire, storage
  <2> QED
    BY <1>1, <2>2, <2>3, <2>4, <2>5, <2>6 DEF Next
<1>2. IInv /\ [Next]_vars => [Valid(token) /\ token' = None => Drops]_vars
  BY <1>1
<1> QED
  BY <1>2, Invariance, PTL DEF Spec, FreshTokenStays
=============================================================================
