------------------------------ MODULE Accounts ------------------------------
(***************************************************************************)
(* The requests of the dashboard (package api: auth.go, user.go) and the   *)
(* operator's POST /api/v1/rules for a user (rules.go), with the services  *)
(* behind them (auth.Service, user.Service) and the tables they read and   *)
(* write: users, user_sessions, password_reset_tokens and the user rules   *)
(* of alert_rules.  Every request is a goroutine; one SQL statement is one *)
(* step, and nothing joins two statements of a request.                    *)
(***************************************************************************)
EXTENDS Integers, FiniteSets

CONSTANTS
  Users, Emails, Passwords, Sessions, Tokens, Rules,
  Drafts,        \* bodies of PUT /user/telegram/preferences
  Moments,       \* minutes of a day at which alerts are raised
  Requests,      \* goroutines that serve requests
  None,
  First,         \* what an earlier run left: an account with a chat, its session, its token
  MaxRules,      \* LimitsForPlan(plan).MaxRules
  SessionTTL, ResetTTL,
  MaxCalls,      \* bound: requests
  MaxClock       \* bound: time

(* Times of day are minutes; an empty or unreadable field has no minute.   *)
Absent == -1
Malformed == -2
Day == 1440
Field == (0..(Day - 1)) \cup {Absent, Malformed}
Preferences == [quiet : BOOLEAN, start : Field, end : Field, zone : Field, every : Int]

ASSUME AccountsAssumption ==
  /\ None \notin Users \cup Emails \cup Passwords \cup Sessions \cup Tokens \cup Rules
  /\ Drafts \subseteq Preferences /\ None \notin Preferences
  /\ Moments \subseteq 0..(Day - 1)
  /\ First \in [user : Users, email : Emails, password : Passwords,
                session : Sessions, token : Tokens]
  /\ MaxRules \in Nat \ {0}
  /\ SessionTTL \in Nat \ {0} /\ ResetTTL \in Nat \ {0}
  /\ MaxCalls \in Nat /\ MaxClock \in Nat
  /\ IsFiniteSet(Requests) /\ IsFiniteSet(Rules)

VARIABLES
  row,        \* users: one row or None for each id
  session,    \* user_sessions
  token,      \* password_reset_tokens
  rules,      \* alert_rules: keys of the rules of each user
  pc,         \* next statement of each request
  req,        \* its input and local variables
  clock, calls,
  loggedOut,  \* history: sessions whose logout was acknowledged
  spent,      \* history: reset tokens whose confirmation was acknowledged
  resets,     \* history: passwords written with a reset token
  cuts,       \* history: of these, requests that ended before the mark
  shared,     \* history: reset tokens two requests went on with at the same time
  imposed,    \* history: rules of each user that the operator inserted
  crowded     \* history: users two of whose requests were counted and not yet done

tableVars == <<row, session, token, rules>>
timeVars == <<clock, calls>>
quotaVars == <<imposed, crowded>>
historyVars == <<loggedOut, spent, resets, cuts, shared, quotaVars>>
vars == <<tableVars, pc, req, timeVars, historyVars>>

-----------------------------------------------------------------------------
(* Preferences: what the API stores and what the pipeline makes of it.     *)

DefaultPreferences ==
  [quiet |-> FALSE, start |-> 1320, end |-> 480, zone |-> 0, every |-> 60]

Filled(value, default) == IF value = Absent THEN default ELSE value

Normalize(d) ==
  [d EXCEPT !.start = Filled(@, DefaultPreferences.start),
            !.end   = Filled(@, DefaultPreferences.end),
            !.zone  = Filled(@, DefaultPreferences.zone),
            !.every = IF @ <= 0 THEN DefaultPreferences.every ELSE @]

(* The check of the times is missing.                                      *)
FaultyValid(p) == p.zone # Malformed /\ p.every \in 5..Day

Valid(p) ==
  /\ {p.start, p.end} \cap {Absent, Malformed} = {} /\ p.zone # Malformed
  /\ p.every \in 5..Day

(* userQuietHoursActive; zone is the offset of the user's time zone.       *)
QuietHoursActive(p, m) ==
  LET local == (m + Filled(p.zone, 0)) % Day
      after == local >= p.start
      before == local < p.end IN
  /\ p.quiet
  /\ {p.start, p.end} \cap {Absent, Malformed} = {} /\ p.zone # Malformed
  /\ \/ p.start = p.end
     \/ p.start < p.end /\ after /\ before
     \/ p.start > p.end /\ (after \/ before)

-----------------------------------------------------------------------------
(* Rows and requests.                                                      *)

NewRow(e, p) == [email |-> e, password |-> p, active |-> TRUE, delivery |-> TRUE,
                 preferences |-> DefaultPreferences, chat |-> FALSE]

Row == [email : Emails, password : Passwords, active : BOOLEAN, delivery : BOOLEAN,
        preferences : Preferences, chat : BOOLEAN]

ASSUME RowAssumption == None \notin Row

NewSession(u) == [user |-> u, expires |-> clock + SessionTTL, revoked |-> FALSE]

NewToken(u) == [user |-> u, expires |-> clock + ResetTTL, used |-> FALSE]

(* The row of an email: FindByEmail.                                       *)
Registered(e) == {u \in Users : row[u] # None /\ row[u].email = e}

Idle == [kind |-> "none", email |-> None, password |-> None, old |-> None,
         session |-> None, token |-> None, rule |-> None, on |-> FALSE,
         draft |-> None, user |-> None, late |-> FALSE]

Request(k) == [Idle EXCEPT !.kind = k]

(* One operator for each endpoint; a cookie or a token is sent once it was *)
(* handed out.                                                             *)
Credentials(k, e, p) == [Request(k) EXCEPT !.email = e, !.password = p]
Forgot(e) == [Request("forgot") EXCEPT !.email = e]
Confirm(t, p) == [Request("confirm") EXCEPT !.token = t, !.password = p]
Plain(k, s) == [Request(k) EXCEPT !.session = s]
Change(s, p, q) == [Request("change") EXCEPT !.session = s, !.old = p, !.password = q]
Post(s, k) == [Request("rule") EXCEPT !.session = s, !.rule = k]
Delivery(s, b) == [Request("delivery") EXCEPT !.session = s, !.on = b]
PutPreferences(s, d) == [Request("preferences") EXCEPT !.session = s, !.draft = d]
Operate(u, k) == [Request("operator") EXCEPT !.user = u, !.rule = k]

AuthCalls ==
  {Credentials(k, e, p) : k \in {"register", "login"}, e \in Emails, p \in Passwords}
  \cup {Forgot(e) : e \in Emails}
  \cup {Confirm(t, p) : t \in {x \in Tokens : token[x].user # None}, p \in Passwords}

(* The bearer token of the API, no session: a rule for any account.        *)
OperatorCalls == {Operate(u, k) : u \in {x \in Users : row[x] # None}, k \in Rules}

SessionCalls(s) ==
  {Plain(k, s) : k \in {"logout", "list", "unbind"}}
  \cup {Change(s, p, q) : p \in Passwords, q \in Passwords}
  \cup {Post(s, k) : k \in Rules}
  \cup {Delivery(s, b) : b \in BOOLEAN}
  \cup {PutPreferences(s, d) : d \in Drafts}

Calls == AuthCalls \cup OperatorCalls \cup
         UNION {SessionCalls(s) : s \in {x \in Sessions : session[x].user # None}}

Kinds == {"none", "register", "login", "forgot", "confirm", "logout", "list", "unbind",
          "change", "rule", "delivery", "preferences", "operator"}

FirstStatement(k) ==
  CASE k \in {"register", "login", "forgot"} -> "email"
    [] k = "confirm" -> "token"
    [] k = "logout"  -> "revoke"
    [] k = "operator" -> "update"
    [] OTHER         -> "cookie"

LiveSession(s) == ~session[s].revoked /\ clock < session[s].expires
LiveToken(t) == ~token[t].used /\ clock < token[t].expires

(* A request that came too late: its email is taken or disabled, its       *)
(* reset token is spent or expired, its session was ended or its account   *)
(* disabled before it was sent.                                            *)
TooLate(c) ==
  \/ c.kind = "register" /\ Registered(c.email) # {}
  \/ c.kind = "login" /\ \E u \in Registered(c.email) : ~row[u].active
  \/ c.kind = "confirm" /\ (c.token \in spent \/ clock >= token[c.token].expires)
  \/ /\ c.session # None
     /\ \/ c.session \in loggedOut
        \/ clock >= session[c.session].expires
        \/ ~row[session[c.session].user].active

Init ==
  /\ row = [u \in Users |->
       IF u = First.user THEN [NewRow(First.email, First.password) EXCEPT !.chat = TRUE] ELSE None]
  /\ session = [s \in Sessions |->
       [user |-> IF s = First.session THEN First.user ELSE None,
        expires |-> SessionTTL, revoked |-> FALSE]]
  /\ token = [t \in Tokens |->
       [user |-> IF t = First.token THEN First.user ELSE None,
        expires |-> ResetTTL, used |-> FALSE]]
  /\ rules = [u \in Users |-> {}]
  /\ pc = [r \in Requests |-> "idle"] /\ req = [r \in Requests |-> Idle]
  /\ clock = 0 /\ calls = 0
  /\ loggedOut = {} /\ spent = {}
  /\ resets = [t \in Tokens |-> 0] /\ cuts = [t \in Tokens |-> 0]
  /\ shared = {} /\ imposed = [u \in Users |-> {}] /\ crowded = {}

-----------------------------------------------------------------------------
(* A request arrives, goes on, ends.                                       *)

Arrive(r) ==
  /\ pc[r] = "idle" /\ calls < MaxCalls
  /\ calls' = calls + 1
  /\ \E c \in Calls :
       /\ req' = [req EXCEPT ![r] = [c EXCEPT !.late = TooLate(c)]]
       /\ pc' = [pc EXCEPT ![r] = FirstStatement(c.kind)]
  /\ UNCHANGED <<tableVars, clock, historyVars>>

Goto(r, l) == pc' = [pc EXCEPT ![r] = l]

End(r) ==
  /\ Goto(r, "idle")
  /\ req' = [req EXCEPT ![r] = Idle]

(* The statement found user u: it becomes the current user of the request. *)
Found(r, u, l) ==
  /\ Goto(r, l)
  /\ req' = [req EXCEPT ![r].user = u]

At(r, l, k) == pc[r] = l /\ req[r].kind \in k

(* A request ends after a read that refuses it, or with an error: 4xx.     *)
Refuse(r) == End(r) /\ UNCHANGED <<tableVars, timeVars, historyVars>>

Proceed(r, u, l) == Found(r, u, l) /\ UNCHANGED <<tableVars, timeVars, historyVars>>

-----------------------------------------------------------------------------
(* Register, Login, RequestPasswordReset.                                  *)

FindForRegister(r) ==
  /\ At(r, "email", {"register"})
  /\ IF Registered(req[r].email) # {}
     THEN Refuse(r)
     ELSE Goto(r, "insert") /\ UNCHANGED <<req, tableVars, timeVars, historyVars>>

(* The unique index on LOWER(email) decides between two registrations: the *)
(* INSERT of the second one can only fail.                                 *)
CreateWithPassword(r) ==
  /\ pc[r] = "insert"
  /\ Registered(req[r].email) = {}
  /\ \E u \in Users :
       /\ row[u] = None
       /\ row' = [row EXCEPT ![u] = NewRow(req[r].email, req[r].password)]
       /\ req' = [req EXCEPT ![r].user = u]
  /\ Goto(r, "session")
  /\ UNCHANGED <<session, token, rules, timeVars, historyVars>>

FindForLogin(r) ==
  /\ At(r, "email", {"login"})
  /\ LET match == {u \in Registered(req[r].email) :
                     row[u].active /\ row[u].password = req[r].password} IN
       \/ match = {} /\ Refuse(r)
       \/ \E u \in match : Proceed(r, u, "session")

CreateSession(r) ==
  /\ pc[r] = "session"
  /\ \E s \in Sessions :
       /\ session[s].user = None
       /\ session' = [session EXCEPT ![s] = NewSession(req[r].user)]
  /\ End(r)
  /\ UNCHANGED <<row, token, rules, timeVars, historyVars>>

FindForReset(r) ==
  /\ At(r, "email", {"forgot"})
  /\ \/ Registered(req[r].email) = {} /\ Refuse(r)
     \/ \E u \in Registered(req[r].email) : Proceed(r, u, "mint")

(* Earlier tokens of the account stay good.                                *)
CreateToken(r) ==
  /\ pc[r] = "mint"
  /\ \E t \in Tokens :
       /\ token[t].user = None
       /\ token' = [token EXCEPT ![t] = NewToken(req[r].user)]
  /\ End(r)
  /\ UNCHANGED <<row, session, rules, timeVars, historyVars>>

-----------------------------------------------------------------------------
(* ConfirmPasswordReset: look up, write (below), mark.                     *)

(* Requests that found token t good and have not ended.                    *)
Confirming(t) == {r \in Requests : /\ req[r].kind = "confirm" /\ req[r].token = t
                                   /\ pc[r] \in {"write", "mark"}}

LookUp(r, good) ==
  /\ pc[r] = "token"
  /\ LET t == req[r].token IN
       \/ /\ good /\ Found(r, token[t].user, "write")
          /\ shared' = IF Confirming(t) # {} THEN shared \cup {t} ELSE shared
       \/ ~good /\ End(r) /\ UNCHANGED shared
  /\ UNCHANGED <<tableVars, timeVars, loggedOut, spent, resets, cuts, quotaVars>>

(* The query does not look at used_at.                                     *)
FaultyFindToken(r) == LookUp(r, clock < token[req[r].token].expires)

FindToken(r) == LookUp(r, LiveToken(req[r].token))

MarkUsed(r) ==
  /\ pc[r] = "mark"
  /\ token' = [token EXCEPT ![req[r].token].used = TRUE]
  /\ spent' = spent \cup {req[r].token}
  /\ End(r)
  /\ UNCHANGED <<row, session, rules, timeVars, loggedOut, resets, cuts, shared, quotaVars>>

-----------------------------------------------------------------------------
(* Logout, and the session of every other request.                         *)

RevokeByHash(r) ==
  /\ pc[r] = "revoke"
  /\ session' = [session EXCEPT ![req[r].session].revoked = TRUE]
  /\ loggedOut' = loggedOut \cup {req[r].session}
  /\ End(r)
  /\ UNCHANGED <<row, token, rules, timeVars, spent, resets, cuts, shared, quotaVars>>

(* The query does not look at revoked_at.                                  *)
FaultyFindSession(r) ==
  /\ pc[r] = "cookie"
  /\ LET s == req[r].session IN
       IF clock < session[s].expires
       THEN Goto(r, "user") /\ req' = [req EXCEPT ![r].user = session[s].user]
       ELSE End(r)
  /\ UNCHANGED <<tableVars, timeVars, historyVars>>

(* CurrentUser: the session, then the row of its user.                     *)
FindSession(r) ==
  /\ pc[r] = "cookie"
  /\ LET s == req[r].session IN
       IF LiveSession(s)
       THEN Goto(r, "user") /\ req' = [req EXCEPT ![r].user = session[s].user]
       ELSE End(r)
  /\ UNCHANGED <<tableVars, timeVars, historyVars>>

NextStatement(k) ==
  CASE k = "change" -> "check"
    [] k = "rule"   -> "count"
    [] k = "list"   -> "list"
    [] OTHER        -> "write"

(* requireDashboardUser refuses a disabled account; the handler of the     *)
(* preferences then refuses what does not validate.                        *)
FindUser(r) ==
  /\ pc[r] = "user"
  /\ LET u == req[r].user
         k == req[r].kind IN
       IF row[u].active /\ (k = "preferences" => Valid(Normalize(req[r].draft)))
       THEN Proceed(r, u, NextStatement(k))
       ELSE Refuse(r)

(* ChangePassword reads the row again to check the current password.       *)
CheckCurrent(r) ==
  /\ pc[r] = "check"
  /\ IF row[req[r].user].password = req[r].old
     THEN Proceed(r, req[r].user, "write")
     ELSE Refuse(r)

-----------------------------------------------------------------------------
(* Changes of the user's row, each an UPDATE of its own columns.           *)

Columns == [confirm |-> "password", change |-> "password", delivery |-> "delivery",
            preferences |-> "preferences", unbind |-> "chat"]

NewValue(r) ==
  CASE req[r].kind \in {"confirm", "change"} -> req[r].password
    [] req[r].kind = "delivery"    -> req[r].on
    [] req[r].kind = "preferences" -> Normalize(req[r].draft)
    [] OTHER -> FALSE

Updated(r) == [row[req[r].user] EXCEPT ![Columns[req[r].kind]] = NewValue(r)]

Write(r) ==
  /\ pc[r] = "write"
  /\ row' = [row EXCEPT ![req[r].user] = Updated(r)]
  /\ resets' = IF req[r].kind = "confirm"
               THEN [resets EXCEPT ![req[r].token] = @ + 1] ELSE resets
  /\ CASE req[r].kind = "confirm" -> Goto(r, "mark") /\ UNCHANGED req
       [] req[r].kind = "change"  -> End(r)
       [] OTHER -> Goto(r, "profile") /\ UNCHANGED req
  /\ UNCHANGED <<session, token, rules, timeVars, loggedOut, spent, cuts, shared, quotaVars>>

(* Reads that only make the answer.                                        *)
Read(r) ==
  /\ pc[r] \in {"profile", "list"}
  /\ Refuse(r)

-----------------------------------------------------------------------------
(* POST /user/rules: CanCreateRule counts, UpsertUserRule writes.  The     *)
(* operator's POST /api/v1/rules writes without a count.                   *)

(* One more than the limit.                                                *)
FaultyCanCreateRule(r) == Cardinality(rules[req[r].user]) <= MaxRules

CanCreateRule(r) == Cardinality(rules[req[r].user]) < MaxRules

(* Requests of u that were counted and have not written their rule yet.    *)
Posting(u) == {r \in Requests : /\ req[r].kind = "rule" /\ req[r].user = u
                                /\ pc[r] \in {"update", "rule"}}

CountUserRules(r) ==
  /\ pc[r] = "count"
  /\ LET u == req[r].user IN
       IF CanCreateRule(r)
       THEN /\ Goto(r, "update") /\ UNCHANGED req
            /\ crowded' = IF Posting(u) # {} THEN crowded \cup {u} ELSE crowded
       ELSE End(r) /\ UNCHANGED crowded
  /\ UNCHANGED <<tableVars, timeVars, loggedOut, spent, resets, cuts, shared, imposed>>

(* UPDATE of the rule if there is one; no row: INSERT.                     *)
UpdateRule(r) ==
  /\ pc[r] = "update"
  /\ IF req[r].rule \in rules[req[r].user]
     THEN End(r)
     ELSE Goto(r, "rule") /\ UNCHANGED req
  /\ UNCHANGED <<tableVars, timeVars, historyVars>>

(* The unique index refuses a rule that came in between.                   *)
InsertRule(r) ==
  /\ pc[r] = "rule"
  /\ LET u == req[r].user
         new == {req[r].rule} \ rules[u] IN
       /\ rules' = [rules EXCEPT ![u] = @ \cup new]
       /\ imposed' = IF req[r].kind = "operator"
                     THEN [imposed EXCEPT ![u] = @ \cup new] ELSE imposed
  /\ End(r)
  /\ UNCHANGED <<row, session, token, timeVars, loggedOut, spent, resets, cuts, shared, crowded>>

-----------------------------------------------------------------------------
(* A statement fails, or the process ends; a statement that took effect    *)
(* before its answer was lost is that statement and then this.             *)
Fail(r) ==
  /\ pc[r] # "idle"
  /\ cuts' = IF pc[r] = "mark" THEN [cuts EXCEPT ![req[r].token] = @ + 1] ELSE cuts
  /\ End(r)
  /\ UNCHANGED <<tableVars, timeVars, loggedOut, spent, resets, shared, quotaVars>>

(* The operator disables an account.                                       *)
Disable(u) ==
  /\ row[u] # None /\ row[u].active
  /\ row' = [row EXCEPT ![u].active = FALSE]
  /\ UNCHANGED <<session, token, rules, pc, req, timeVars, historyVars>>

Tick ==
  /\ clock < MaxClock
  /\ clock' = clock + 1
  /\ UNCHANGED <<tableVars, pc, req, calls, historyVars>>

-----------------------------------------------------------------------------
Serve(r) ==
  \/ FindForRegister(r) \/ CreateWithPassword(r) \/ FindForLogin(r) \/ CreateSession(r)
  \/ FindForReset(r) \/ CreateToken(r) \/ FindToken(r) \/ MarkUsed(r)
  \/ RevokeByHash(r) \/ FindSession(r) \/ FindUser(r) \/ CheckCurrent(r)
  \/ Write(r) \/ Read(r)
  \/ CountUserRules(r) \/ UpdateRule(r) \/ InsertRule(r)
  \/ Fail(r)

Next ==
  \/ \E r \in Requests : Arrive(r) \/ Serve(r)
  \/ \E u \in Users : Disable(u)
  \/ Tick

Spec == Init /\ [][Next]_vars

-----------------------------------------------------------------------------
Statements == {"idle", "email", "insert", "session", "mint", "token", "mark", "revoke",
               "cookie", "user", "check", "write", "profile", "list", "count", "update", "rule"}

(* Every variable has its type.                                            *)
TypeOK ==
  /\ row \in [Users -> Row \cup {None}]
  /\ session \in [Sessions -> [user : Users \cup {None}, expires : Nat, revoked : BOOLEAN]]
  /\ token \in [Tokens -> [user : Users \cup {None}, expires : Nat, used : BOOLEAN]]
  /\ rules \in [Users -> SUBSET Rules]
  /\ pc \in [Requests -> Statements]
  /\ req \in [Requests ->
       [kind : Kinds, email : Emails \cup {None}, password : Passwords \cup {None},
        old : Passwords \cup {None}, session : Sessions \cup {None},
        token : Tokens \cup {None}, rule : Rules \cup {None}, on : BOOLEAN,
        draft : Drafts \cup {None}, user : Users \cup {None}, late : BOOLEAN]]
  /\ clock \in 0..MaxClock /\ calls \in 0..MaxCalls
  /\ loggedOut \subseteq Sessions /\ spent \subseteq Tokens
  /\ resets \in [Tokens -> Nat] /\ cuts \in [Tokens -> Nat] /\ shared \subseteq Tokens
  /\ imposed \in [Users -> SUBSET Rules] /\ crowded \subseteq Users

(* Where a request stands before anything has accepted it.                 *)
Waiting == {"idle", "email", "token", "cookie", "user", "revoke", "mint"}

(* A request sent after its session was logged out or expired, its account *)
(* disabled, its reset token used or expired or its email taken reads and  *)
(* changes nothing, whatever runs beside it (CurrentUser,                  *)
(* requireDashboardUser, Login, Register, ConfirmPasswordReset).           *)
RefusedWhenLate == \A r \in Requests : req[r].late => pc[r] \in Waiting

(* The rules a customer makes pass the limit of the plan only where two of *)
(* the customer's requests were counted before either was done, and then   *)
(* by less than the requests served at once.  What the operator inserts    *)
(* counts against the customer and is not limited itself                   *)
(* (handleUserRulesPost, CanCreateRule, UpsertUserRule).                   *)
RulesBounded ==
  \A u \in Users :
    Cardinality(rules[u] \ imposed[u]) + Cardinality(Posting(u)) <
      MaxRules + (IF u \in crowded THEN Cardinality(Requests) ELSE 1)

(* A reset token whose confirmations never overlap changes the password    *)
(* once, and once more for each of them that ended before its mark; where  *)
(* they overlap, once for each request served at the same time instead of  *)
(* once (ConfirmPasswordReset).                                            *)
ResetBounded ==
  \A t \in Tokens :
    resets[t] <= cuts[t] + (IF t \in shared THEN Cardinality(Requests) ELSE 1)

(* What the API accepts the pipeline understands: quiet hours are the      *)
(* minutes from start to end, past midnight too, and the digest interval   *)
(* is in its bounds (validateTelegramNotificationPreferences,              *)
(* userQuietHoursActive).                                                  *)
QuietAsAsked ==
  \A u \in {v \in Users : row[v] # None} :
    LET p == row[u].preferences
        length == IF p.start = p.end THEN Day ELSE (p.end - p.start) % Day IN
    /\ p.every \in 5..Day
    /\ p.quiet => \A m \in Moments :
         QuietHoursActive(p, m) <=> (m + p.zone - p.start) % Day < length
=============================================================================
