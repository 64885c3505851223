--------------------------- MODULE Accounts_proofs ---------------------------
(***************************************************************************)
(* Proofs about the requests of the dashboard.                             *)
(*                                                                         *)
(* The argument: rows, sessions and tokens are only added to, and what     *)
(* refuses a request stays (an account is not enabled again, a session not *)
(* revived, a token not unmarked): a request that came too late meets its  *)
(* refusal at the first statement that looks.  The two bounds count the    *)
(* requests between a check and its write: there are at most Requests, and *)
(* one as long as no second one came while it was under way.               *)
(***************************************************************************)
EXTENDS Accounts, FiniteSetTheorems, TLAPS

OwnedKinds == {"list", "unbind", "change", "rule", "delivery", "preferences"}

(* Which requests stand before which statements.                           *)
Staged == \A r \in Requests :
  /\ pc[r] = "email" => req[r].kind \in {"register", "login", "forgot"}
  /\ pc[r] = "insert" => req[r].kind = "register"
  /\ pc[r] \in {"token", "mark"} => req[r].kind = "confirm"
  /\ pc[r] = "revoke" => req[r].kind = "logout"
  /\ pc[r] \in {"cookie", "user"} => req[r].kind \in OwnedKinds
  /\ pc[r] = "check" => req[r].kind = "change"
  /\ pc[r] = "write" => req[r].kind \in DOMAIN Columns
  /\ pc[r] = "count" => req[r].kind = "rule"
  /\ pc[r] \in {"update", "rule"} => req[r].kind \in {"rule", "operator"}

(* What a request brings along.                                            *)
WellFormed(q) ==
  /\ q.kind \in {"register", "login", "forgot"} => q.email \in Emails
  /\ q.kind \in {"register", "login", "confirm", "change"} => q.password \in Passwords
  /\ q.kind = "confirm" => q.token \in Tokens /\ token[q.token].user # None
  /\ q.kind \in OwnedKinds \cup {"logout"} =>
       q.session \in Sessions /\ session[q.session].user # None
  /\ q.kind \notin OwnedKinds \cup {"logout"} => q.session = None
  /\ q.kind \in {"rule", "operator"} => q.rule \in Rules
  /\ q.kind = "preferences" => q.draft \in Drafts

Brought == \A r \in Requests : WellFormed(req[r])

(* Past these statements a request has found its user.                     *)
Known == \A r \in Requests :
  pc[r] \in {"session", "mint", "user", "check", "write", "mark", "profile",
             "list", "count", "update", "rule"} =>
    req[r].user \in Users /\ row[req[r].user] # None

Owned ==
  /\ \A s \in Sessions : session[s].user # None => row[session[s].user] # None
  /\ \A t \in Tokens : token[t].user # None => row[token[t].user] # None

Shape == Staged /\ Brought /\ Known /\ Owned

(* An email is the email of one account.                                   *)
OneAccount == \A u, v \in Users :
  row[u] # None /\ row[v] # None /\ row[u].email = row[v].email => u = v

Ended ==
  /\ \A s \in loggedOut : session[s].user # None /\ session[s].revoked
  /\ \A t \in spent : token[t].user # None /\ token[t].used

(* A late request is still refused: what made it late is still true.       *)
Refusable == \A r \in Requests : req[r].late =>
  \/ pc[r] \in {"idle", "revoke"}
  \/ pc[r] \in {"email", "token", "cookie"} /\ TooLate(req[r])
  \/ pc[r] = "user" /\ ~row[req[r].user].active

(* Stored preferences are valid.                                           *)
Sound(p) == Valid(p) /\ p \in Preferences /\ p.zone # Absent

Stored ==
  /\ \A u \in Users : row[u] # None => Sound(row[u].preferences)
  /\ \A r \in Requests : pc[r] = "write" /\ req[r].kind = "preferences" =>
                           Sound(Normalize(req[r].draft))

(* What the requests that overlap may add to what a lone one may.          *)
Slack(overlap) == IF overlap THEN Cardinality(Requests) ELSE 1

(* A request that is let through found room; the other ones counted with   *)
(* it are still on their way or have inserted.                             *)
Own(u) == rules[u] \ imposed[u]

Room == \A u \in Users :
  /\ Cardinality(Posting(u)) <= Slack(u \in crowded)
  /\ Cardinality(Own(u)) + Cardinality(Posting(u)) < MaxRules + Slack(u \in crowded)

(* Requests with token t before one of its two statements.                 *)
Stage(t, l) ==
  {r \in Requests : pc[r] = l /\ req[r].kind = "confirm" /\ req[r].token = t}

(* Before the mark every password written is about to be marked or was     *)
(* cut; after it, what is added was looked up before.                      *)
Resetting == \A t \in Tokens :
  LET marks == Cardinality(Stage(t, "mark"))
      writes == Cardinality(Stage(t, "write")) IN
  /\ token[t].used => token[t].user # None
  /\ ~token[t].used => resets[t] = cuts[t] + marks
  /\ writes + marks <= Slack(t \in shared)
  /\ resets[t] + writes <= cuts[t] + Slack(t \in shared)

IInv ==
  /\ TypeOK /\ Shape /\ OneAccount /\ Ended /\ Refusable /\ Stored /\ Room /\ Resetting

-----------------------------------------------------------------------------
(* Type correctness, in three groups of variables.                         *)
TypeTables ==
  /\ row \in [Users -> Row \cup {None}]
  /\ session \in [Sessions -> [user : Users \cup {None}, expires : Nat, revoked : BOOLEAN]]
  /\ token \in [Tokens -> [user : Users \cup {None}, expires : Nat, used : BOOLEAN]]
  /\ rules \in [Users -> SUBSET Rules]

Locals == [kind : Kinds, email : Emails \cup {None}, password : Passwords \cup {None},
           old : Passwords \cup {None}, session : Sessions \cup {None},
           token : Tokens \cup {None}, rule : Rules \cup {None}, on : BOOLEAN,
           draft : Drafts \cup {None}, user : Users \cup {None}, late : BOOLEAN]

TypeRequests ==
  /\ pc \in [Requests -> Statements]
  /\ req \in [Requests -> Locals]

TypeHistory ==
  /\ clock \in 0..MaxClock /\ calls \in 0..MaxCalls
  /\ loggedOut \subseteq Sessions /\ spent \subseteq Tokens
  /\ resets \in [Tokens -> Nat] /\ cuts \in [Tokens -> Nat] /\ shared \subseteq Tokens
  /\ imposed \in [Users -> SUBSET Rules] /\ crowded \subseteq Users

LEMMA TypeParts == TypeOK <=> TypeTables /\ TypeRequests /\ TypeHistory
BY DEF TypeOK, TypeTables, TypeRequests, TypeHistory, Locals

LEMMA IdleType == Idle \in Locals /\ WellFormed(Idle) /\ Idle.kind = "none" /\ ~Idle.late
BY AccountsAssumption DEF Idle, Locals, Kinds, WellFormed, OwnedKinds

LEMMA DefaultsSound == Sound(DefaultPreferences)
BY DEF Sound, Valid, DefaultPreferences, Preferences, Field, Absent, Malformed, Day

(* A new row is a row, with preferences that validate.                     *)
LEMMA NewRowType ==
  ASSUME NEW e \in Emails, NEW p \in Passwords
  PROVE  /\ NewRow(e, p) \in Row
         /\ NewRow(e, p).email = e
         /\ NewRow(e, p).preferences = DefaultPreferences
         /\ NewRow(e, p) # None
<1>1. DefaultPreferences \in Preferences
  BY DefaultsSound DEF Sound
<1> HIDE DEF DefaultPreferences, Preferences
<1>2. NewRow(e, p) \in Row
  BY <1>1 DEF NewRow, Row
<1> QED
  BY <1>2, RowAssumption DEF NewRow

LEMMA NormalizeType ==
  ASSUME NEW d \in Drafts
  PROVE  Normalize(d) \in Preferences /\ Normalize(d).zone # Absent
<1>1. d \in Preferences
  BY AccountsAssumption
<1>2. /\ DefaultPreferences.start \in Field /\ DefaultPreferences.end \in Field
      /\ DefaultPreferences.zone \in Field /\ DefaultPreferences.every \in Int
      /\ \A x \in Field : Filled(x, DefaultPreferences.zone) # Absent
  BY DEF DefaultPreferences, Field, Day, Filled, Absent
<1>3. ASSUME NEW x \in Field, NEW y \in Field
      PROVE  Filled(x, y) \in Field
  BY DEF Filled
<1> HIDE DEF Field, Filled, DefaultPreferences
<1> QED
  BY <1>1, <1>2, <1>3 DEF Normalize, Preferences

(* The calls a client can make are well formed.                            *)
LEMMA CallsType ==
  ASSUME NEW c \in Calls, TypeOK
  PROVE  /\ c \in Locals /\ WellFormed(c) /\ ~c.late
         /\ c.kind \in OwnedKinds \cup
                       {"register", "login", "forgot", "confirm", "logout", "operator"}
         /\ c.kind = "operator" => c.user \in Users /\ row[c.user] # None
<1> USE AccountsAssumption DEF Idle, Request, Kinds, Locals, WellFormed, OwnedKinds
<1> DEFINE Good(k) == c \in Locals /\ WellFormed(c) /\ ~c.late /\ c.kind = k
<1>1. ASSUME NEW k \in {"register", "login"}, NEW e \in Emails, NEW p \in Passwords,
             c = Credentials(k, e, p)
      PROVE  Good("register") \/ Good("login")
  BY <1>1 DEF Credentials
<1>2. ASSUME NEW e \in Emails, c = Forgot(e)
      PROVE  Good("forgot")
  BY <1>2 DEF Forgot
<1>3. ASSUME NEW t \in Tokens, token[t].user # None, NEW p \in Passwords,
             c = Confirm(t, p)
      PROVE  Good("confirm")
  BY <1>3 DEF Confirm
<1>4. ASSUME NEW s \in Sessions, session[s].user # None, c \in SessionCalls(s)
      PROVE  \E k \in OwnedKinds \cup {"logout"} : Good(k)
  <2>1. ASSUME NEW k \in {"logout", "list", "unbind"}, c = Plain(k, s)
        PROVE  Good(k)
    BY <1>4, <2>1 DEF Plain
  <2>2. ASSUME NEW p \in Passwords, NEW q \in Passwords,
               c = Change(s, p, q)
        PROVE  Good("change")
    BY <1>4, <2>2 DEF Change
  <2>3. ASSUME NEW k \in Rules, c = Post(s, k)
        PROVE  Good("rule")
    BY <1>4, <2>3 DEF Post
  <2>4. ASSUME NEW b \in BOOLEAN, c = Delivery(s, b)
        PROVE  Good("delivery")
    BY <1>4, <2>4 DEF Delivery
  <2>5. ASSUME NEW d \in Drafts, c = PutPreferences(s, d)
        PROVE  Good("preferences")
    BY <1>4, <2>5 DEF PutPreferences
  <2> HIDE DEF Idle, Request, Kinds, Locals, WellFormed, OwnedKinds, Good
  <2>6. \/ \E k \in {"logout", "list", "unbind"} : c = Plain(k, s)
        \/ \E p \in Passwords, q \in Passwords :
             c = Change(s, p, q)
        \/ \E k \in Rules : c = Post(s, k)
        \/ \E b \in BOOLEAN : c = Delivery(s, b)
        \/ \E d \in Drafts : c = PutPreferences(s, d)
    BY <1>4 DEF SessionCalls
  <2>7. \/ Good("logout") \/ Good("list") \/ Good("unbind") \/ Good("change")
        \/ Good("rule") \/ Good("delivery") \/ Good("preferences")
    BY <2>6, <2>1, <2>2, <2>3, <2>4, <2>5
  <2> QED
    BY <2>7 DEF OwnedKinds
<1>5. CASE c \in AuthCalls
  <2> HIDE DEF Idle, Request, Kinds, Locals, WellFormed, OwnedKinds, Good
  <2>1. \/ \E k \in {"register", "login"}, e \in Emails, p \in Passwords :
             c = Credentials(k, e, p)
        \/ \E e \in Emails : c = Forgot(e)
        \/ \E t \in Tokens, p \in Passwords :
             token[t].user # None /\ c = Confirm(t, p)
    BY <1>5 DEF AuthCalls
  <2>2. Good("register") \/ Good("login") \/ Good("forgot") \/ Good("confirm")
    BY <2>1, <1>1, <1>2, <1>3
  <2> QED
    BY <2>2 DEF Good
<1>6. ASSUME NEW u \in Users, row[u] # None, NEW k \in Rules, c = Operate(u, k)
      PROVE  Good("operator") /\ c.user = u
  BY <1>6 DEF Operate
<1>7. CASE c \in OperatorCalls
  <2> HIDE DEF Idle, Request, Kinds, Locals, WellFormed, OwnedKinds, Good
  <2>1. PICK u \in Users, k \in Rules : row[u] # None /\ c = Operate(u, k)
    BY <1>7 DEF OperatorCalls
  <2>2. Good("operator") /\ c.user = u
    BY <2>1, <1>6
  <2> QED
    BY <2>1, <2>2 DEF Good
<1>8. CASE c \notin AuthCalls \cup OperatorCalls
  <2>1. PICK s \in Sessions : session[s].user # None /\ c \in SessionCalls(s)
    BY <1>8, Zenon DEF Calls
  <2>2. PICK k \in OwnedKinds \cup {"logout"} : Good(k)
    BY <2>1, <1>4
  <2> QED
    BY <2>2
<1> QED
  BY <1>5, <1>7, <1>8

-----------------------------------------------------------------------------
(* Which actions change what.                                              *)
LEMMA Effects ==
  ASSUME [Next]_vars
  PROVE  /\ \/ row' = row \/ \E u \in Users : Disable(u)
            \/ \E r \in Requests : CreateWithPassword(r) \/ Write(r)
         /\ session' = session \/ \E r \in Requests : CreateSession(r) \/ RevokeByHash(r)
         /\ token' = token \/ \E r \in Requests : CreateToken(r) \/ MarkUsed(r)
         /\ rules' = rules \/ \E r \in Requests : InsertRule(r)
         /\ (pc' = pc /\ req' = req) \/ \E r \in Requests : Arrive(r) \/ Serve(r)
         /\ clock' = clock \/ Tick
         /\ calls' = calls \/ \E r \in Requests : Arrive(r)
         /\ loggedOut' = loggedOut \/ \E r \in Requests : RevokeByHash(r)
         /\ spent' = spent \/ \E r \in Requests : MarkUsed(r)
         /\ resets' = resets \/ \E r \in Requests : Write(r)
         /\ cuts' = cuts \/ \E r \in Requests : Fail(r)
         /\ shared' = shared \/ \E r \in Requests : FindToken(r)
         /\ imposed' = imposed \/ \E r \in Requests : InsertRule(r)
         /\ crowded' = crowded \/ \E r \in Requests : CountUserRules(r)
<1> USE DEF tableVars, timeVars, quotaVars, historyVars
<1>1. CASE UNCHANGED vars
  BY <1>1 DEF vars
<1>2. CASE Tick
  BY <1>2 DEF Tick
<1>3. ASSUME NEW u \in Users, Disable(u)
      PROVE  UNCHANGED <<session, token, rules, pc, req, timeVars, historyVars>>
  BY <1>3 DEF Disable
<1>4. ASSUME NEW r \in Requests, Arrive(r)
      PROVE  UNCHANGED <<tableVars, clock, historyVars>>
  BY <1>4 DEF Arrive
<1>5. ASSUME NEW r \in Requests, Serve(r)
      PROVE  /\ UNCHANGED timeVars
             /\ UNCHANGED row \/ CreateWithPassword(r) \/ Write(r)
             /\ UNCHANGED session \/ CreateSession(r) \/ RevokeByHash(r)
             /\ UNCHANGED token \/ CreateToken(r) \/ MarkUsed(r)
             /\ UNCHANGED rules \/ InsertRule(r)
             /\ UNCHANGED loggedOut \/ RevokeByHash(r)
             /\ UNCHANGED spent \/ MarkUsed(r)
             /\ UNCHANGED resets \/ Write(r)
             /\ UNCHANGED cuts \/ Fail(r)
             /\ UNCHANGED shared \/ FindToken(r)
             /\ UNCHANGED imposed \/ InsertRule(r)
             /\ UNCHANGED crowded \/ CountUserRules(r)
  <2> USE DEF Refuse, Proceed
  <2>1. CASE FindForRegister(r) \/ FindForLogin(r) \/ FindForReset(r)
    BY <2>1 DEF FindForRegister, FindForLogin, FindForReset
  <2>2. CASE FindToken(r) \/ FindSession(r) \/ FindUser(r) \/ CheckCurrent(r) \/ Read(r)
    BY <2>2 DEF FindToken, LookUp, FindSession, FindUser, CheckCurrent, Read
  <2>3. CASE CountUserRules(r) \/ UpdateRule(r)
    BY <2>3 DEF CountUserRules, UpdateRule
  <2>4. CASE CreateWithPassword(r) \/ CreateSession(r) \/ CreateToken(r) \/ MarkUsed(r)
    BY <2>4 DEF CreateWithPassword, CreateSession, CreateToken, MarkUsed
  <2>5. CASE RevokeByHash(r) \/ Write(r) \/ InsertRule(r) \/ Fail(r)
    BY <2>5 DEF RevokeByHash, Write, InsertRule, Fail
  <2> QED
    BY <1>5, <2>1, <2>2, <2>3, <2>4, <2>5 DEF Serve
<1>6. CASE \E u \in Users : Disable(u)
  BY <1>3, <1>6
<1>7. CASE \E r \in Requests : Arrive(r)
  BY <1>4, <1>7
<1>8. CASE \E r \in Requests : Serve(r)
  BY <1>5, <1>8
<1> QED
  BY <1>1, <1>2, <1>6, <1>7, <1>8 DEF Next

(* What a request brought along stays what it is until the request ends.   *)
Kept(r) ==
  /\ req'[r].kind = req[r].kind /\ req'[r].late = req[r].late
  /\ req'[r].email = req[r].email /\ req'[r].password = req[r].password
  /\ req'[r].session = req[r].session /\ req'[r].token = req[r].token
  /\ req'[r].rule = req[r].rule /\ req'[r].draft = req[r].draft

(* From statement to statement, with the user that was found on the way.   *)
Advance(r) ==
  LET k == req[r].kind
      u == req'[r].user IN
  \/ pc[r] = "email" /\ k = "register" /\ Registered(req[r].email) = {} /\ pc'[r] = "insert"
  \/ /\ pc[r] = "email" /\ u \in Registered(req[r].email)
     /\ \/ k = "login" /\ row[u].active /\ pc'[r] = "session"
        \/ k = "forgot" /\ pc'[r] = "mint"
  \/ /\ pc[r] = "insert" /\ pc'[r] = "session"
     /\ u \in Users /\ row[u] = None /\ row' = [row EXCEPT ![u] = NewRow(req[r].email, req[r].password)]
  \/ pc[r] = "token" /\ pc'[r] = "write" /\ LiveToken(req[r].token) /\ u = token[req[r].token].user
  \/ pc[r] = "cookie" /\ pc'[r] = "user" /\ LiveSession(req[r].session) /\ u = session[req[r].session].user
  \/ /\ u = req[r].user
     /\ \/ /\ pc[r] = "user" /\ pc'[r] = NextStatement(k) /\ row[u].active
           /\ k = "preferences" => Valid(Normalize(req[r].draft))
        \/ pc[r] = "check" /\ pc'[r] = "write"
        \/ pc[r] = "write" /\ k = "confirm" /\ pc'[r] = "mark"
        \/ pc[r] = "write" /\ k \notin {"confirm", "change"} /\ pc'[r] = "profile"
        \/ pc[r] = "count" /\ CanCreateRule(r) /\ pc'[r] = "update"
        \/ pc[r] = "update" /\ pc'[r] = "rule"

Ends(r) == pc'[r] = "idle" /\ req'[r] = Idle

LEMMA Moves ==
  ASSUME TypeOK, NEW r \in Requests, Serve(r)
  PROVE  /\ \A q \in Requests \ {r} : pc'[q] = pc[q] /\ req'[q] = req[q]
         /\ pc[r] # "idle"
         /\ Ends(r) \/ (Kept(r) /\ Advance(r))
<1>1. /\ pc \in [Requests -> Statements] /\ req \in [Requests -> Locals]
      /\ \A q \in Requests : req[q] \in Locals
  BY TypeParts DEF TypeRequests
<1> DEFINE Goal == /\ \A q \in Requests \ {r} : pc'[q] = pc[q] /\ req'[q] = req[q]
                   /\ pc[r] # "idle"
                   /\ Ends(r) \/ (Kept(r) /\ Advance(r))
<1> SUFFICES Goal
  OBVIOUS
<1>2. ASSUME End(r), pc[r] # "idle" PROVE Goal
  BY <1>1, <1>2 DEF End, Goto, Ends
<1>3. ASSUME NEW l, Goto(r, l), UNCHANGED req
      PROVE  /\ \A q \in Requests \ {r} : pc'[q] = pc[q] /\ req'[q] = req[q]
             /\ pc'[r] = l /\ Kept(r) /\ req'[r].user = req[r].user
  BY <1>1, <1>3 DEF Goto, Kept
<1>4. ASSUME NEW l, NEW u, Found(r, u, l)
      PROVE  /\ \A q \in Requests \ {r} : pc'[q] = pc[q] /\ req'[q] = req[q]
             /\ pc'[r] = l /\ Kept(r) /\ req'[r].user = u
  BY <1>1, <1>4 DEF Found, Goto, Kept, Locals
<1>5. ASSUME NEW l, Goto(r, l), NEW u, req' = [req EXCEPT ![r].user = u]
      PROVE  /\ \A q \in Requests \ {r} : pc'[q] = pc[q] /\ req'[q] = req[q]
             /\ pc'[r] = l /\ Kept(r) /\ req'[r].user = u
  BY <1>1, <1>5 DEF Goto, Kept, Locals
<1>6. ASSUME NEW l, NEW u, Proceed(r, u, l)
      PROVE  /\ \A q \in Requests \ {r} : pc'[q] = pc[q] /\ req'[q] = req[q]
             /\ pc'[r] = l /\ Kept(r) /\ req'[r].user = u
  BY <1>4, <1>6 DEF Proceed
<1>7. CASE FindForRegister(r)
  BY <1>7, <1>2, <1>3 DEF FindForRegister, At, Refuse, Advance
<1>8. CASE CreateWithPassword(r)
  <2>1. PICK u \in Users : /\ row[u] = None
                           /\ row' = [row EXCEPT ![u] = NewRow(req[r].email, req[r].password)]
                           /\ req' = [req EXCEPT ![r].user = u]
    BY <1>8 DEF CreateWithPassword
  <2> QED
    BY <1>8, <2>1, <1>5 DEF CreateWithPassword, Advance
<1>9. CASE FindForLogin(r)
  BY <1>9, <1>2, <1>6 DEF FindForLogin, At, Refuse, Advance
<1>10. CASE FindForReset(r)
  BY <1>10, <1>2, <1>6 DEF FindForReset, At, Refuse, Advance
<1>11. CASE FindToken(r)
  BY <1>11, <1>2, <1>4 DEF FindToken, LookUp, Advance
<1>12. CASE FindSession(r)
  BY <1>12, <1>2, <1>5 DEF FindSession, Advance
<1>13. CASE FindUser(r)
  BY <1>13, <1>2, <1>6 DEF FindUser, Refuse, Advance
<1>14. CASE CheckCurrent(r)
  BY <1>14, <1>2, <1>6 DEF CheckCurrent, Refuse, Advance
<1>15. CASE Write(r)
  BY <1>15, <1>2, <1>3 DEF Write, Advance
<1>16. CASE CountUserRules(r)
  BY <1>16, <1>2, <1>3 DEF CountUserRules, Advance
<1>17. CASE UpdateRule(r)
  BY <1>17, <1>2, <1>3 DEF UpdateRule, Advance
<1>18. CASE \/ CreateSession(r) \/ CreateToken(r) \/ MarkUsed(r) \/ RevokeByHash(r)
            \/ InsertRule(r) \/ Read(r) \/ Fail(r)
  BY <1>18, <1>2 DEF CreateSession, CreateToken, MarkUsed, RevokeByHash, InsertRule, Read, Fail, Refuse
<1> HIDE DEF Goal
<1> QED
  BY <1>7, <1>8, <1>9, <1>10, <1>11, <1>12, <1>13, <1>14, <1>15, <1>16, <1>17, <1>18 DEF Serve

-----------------------------------------------------------------------------
(* An UPDATE makes a row of a row and changes one column of it.            *)
LEMMA Writes ==
  ASSUME TypeOK, Shape, NEW r \in Requests, Write(r)
  PROVE  /\ req[r].user \in Users /\ row[req[r].user] \in Row
         /\ row' = [row EXCEPT ![req[r].user] = Updated(r)]
         /\ Updated(r) \in Row
         /\ Updated(r).email = row[req[r].user].email
         /\ Updated(r).active = row[req[r].user].active
         /\ Updated(r).preferences # row[req[r].user].preferences =>
              req[r].kind = "preferences" /\ Updated(r).preferences = Normalize(req[r].draft)
<1>1. /\ pc[r] = "write" /\ row' = [row EXCEPT ![req[r].user] = Updated(r)]
  BY DEF Write
<1>2. /\ req[r].user \in Users /\ row[req[r].user] \in Row
  <2>1. req[r].user \in Users /\ row[req[r].user] # None
    BY <1>1 DEF Shape, Known
  <2> QED
    BY <2>1, TypeParts DEF TypeTables
<1>3. PICK old : old = row[req[r].user]
  OBVIOUS
<1>4. /\ old = [email |-> old.email, password |-> old.password, active |-> old.active,
               delivery |-> old.delivery, preferences |-> old.preferences, chat |-> old.chat]
      /\ old.email \in Emails /\ old.password \in Passwords /\ old.active \in BOOLEAN
      /\ old.delivery \in BOOLEAN /\ old.preferences \in Preferences /\ old.chat \in BOOLEAN
  BY <1>2, <1>3 DEF Row
<1>5. req[r].kind \in {"confirm", "change", "delivery", "preferences", "unbind"}
  BY <1>1 DEF Shape, Staged, Columns
<1>6. /\ req[r].kind \in {"confirm", "change"} => req[r].password \in Passwords
      /\ req[r].kind = "preferences" => Normalize(req[r].draft) \in Preferences
      /\ req[r].on \in BOOLEAN
  <2>1. WellFormed(req[r])
    BY DEF Shape, Brought
  <2>2. req[r].on \in BOOLEAN
    BY TypeParts DEF TypeRequests, Locals
  <2> QED
    BY <2>1, <2>2, NormalizeType DEF WellFormed
<1>7. CASE req[r].kind \in {"confirm", "change"}
  <2>a. Columns["confirm"] = "password" /\ Columns["change"] = "password"
    BY DEF Columns
  <2>b. NewValue(r) = req[r].password
    BY <1>7 DEF NewValue
  <2>1. Columns[req[r].kind] = "password" /\ NewValue(r) = req[r].password
    BY <1>7, <2>a, <2>b
  <2>2. Updated(r) = [old EXCEPT !.password = req[r].password]
    BY <2>1, <1>3 DEF Updated
  <2> QED
    BY <1>1, <1>2, <1>3, <1>4, <1>6, <1>7, <2>1, <2>2 DEF Row
<1>8. CASE req[r].kind = "delivery"
  <2>1. Columns[req[r].kind] = "delivery" /\ NewValue(r) = req[r].on
    BY <1>8 DEF Columns, NewValue
  <2>2. Updated(r) = [old EXCEPT !.delivery = req[r].on]
    BY <2>1, <1>3 DEF Updated
  <2> QED
    BY <1>1, <1>2, <1>3, <1>4, <1>6, <1>8, <2>1, <2>2 DEF Row
<1>9. CASE req[r].kind = "preferences"
  <2>1. Columns[req[r].kind] = "preferences" /\ NewValue(r) = Normalize(req[r].draft)
    BY <1>9 DEF Columns, NewValue
  <2>2. Updated(r) = [old EXCEPT !.preferences = Normalize(req[r].draft)]
    BY <2>1, <1>3 DEF Updated
  <2> QED
    BY <1>1, <1>2, <1>3, <1>4, <1>6, <1>9, <2>1, <2>2 DEF Row
<1>10. CASE req[r].kind = "unbind"
  <2>1. Columns[req[r].kind] = "chat" /\ NewValue(r) = FALSE
    BY <1>10 DEF Columns, NewValue
  <2>2. Updated(r) = [old EXCEPT !.chat = FALSE]
    BY <2>1, <1>3 DEF Updated
  <2> QED
    BY <1>1, <1>2, <1>3, <1>4, <1>10, <2>1, <2>2 DEF Row
<1> QED
  BY <1>5, <1>7, <1>8, <1>9, <1>10

(* Rows, sessions and tokens stay; what refuses a request stays.           *)
RowsGrow == \A u \in Users : row[u] # None =>
  /\ row'[u] # None /\ row'[u].email = row[u].email
  /\ ~row[u].active => ~row'[u].active

SessionsGrow == \A s \in Sessions : session[s].user # None =>
  /\ session'[s].user = session[s].user /\ session'[s].expires = session[s].expires
  /\ session[s].revoked => session'[s].revoked

TokensGrow == \A t \in Tokens : token[t].user # None =>
  /\ token'[t].user = token[t].user /\ token'[t].expires = token[t].expires
  /\ token[t].used => token'[t].used

RestGrows ==
  /\ clock \in Nat /\ clock' \in Nat /\ clock <= clock'
  /\ loggedOut \subseteq loggedOut' /\ spent \subseteq spent'

LEMMA RowStep ==
  ASSUME TypeOK, Shape, [Next]_vars
  PROVE  row' \in [Users -> Row \cup {None}] /\ RowsGrow
<1>1. row \in [Users -> Row \cup {None}] /\ req \in [Requests -> Locals]
  BY TypeParts DEF TypeTables, TypeRequests
<1>2. CASE row' = row
  BY <1>1, <1>2 DEF RowsGrow
<1>3. ASSUME NEW u \in Users, Disable(u)
      PROVE  row' \in [Users -> Row \cup {None}] /\ RowsGrow
  <2>1. row[u] \in Row /\ row' = [row EXCEPT ![u].active = FALSE]
    BY <1>1, <1>3 DEF Disable
  <2>2. /\ [row[u] EXCEPT !.active = FALSE] \in Row
        /\ [row[u] EXCEPT !.active = FALSE].email = row[u].email
        /\ ~[row[u] EXCEPT !.active = FALSE].active
    BY <2>1 DEF Row
  <2> QED
    BY <1>1, <2>1, <2>2, RowAssumption DEF RowsGrow
<1>4. ASSUME NEW r \in Requests, CreateWithPassword(r)
      PROVE  row' \in [Users -> Row \cup {None}] /\ RowsGrow
  <2>1. PICK u \in Users : row[u] = None /\ row' = [row EXCEPT ![u] = NewRow(req[r].email, req[r].password)]
    BY <1>4 DEF CreateWithPassword
  <2>2. req[r].email \in Emails /\ req[r].password \in Passwords
    BY <1>4 DEF CreateWithPassword, Shape, Staged, Brought, WellFormed
  <2> QED
    BY <1>1, <2>1, <2>2, NewRowType DEF RowsGrow
<1>5. ASSUME NEW r \in Requests, Write(r)
      PROVE  row' \in [Users -> Row \cup {None}] /\ RowsGrow
  BY <1>1, <1>5, Writes, RowAssumption DEF RowsGrow
<1> QED
  BY <1>2, <1>3, <1>4, <1>5, Effects

LEMMA SessionStep ==
  ASSUME TypeOK, Shape, [Next]_vars
  PROVE  /\ session' \in [Sessions -> [user : Users \cup {None}, expires : Nat, revoked : BOOLEAN]]
         /\ SessionsGrow
         /\ \A s \in Sessions : session[s].user = None /\ session'[s].user # None =>
              row[session'[s].user] # None
         /\ \A s \in loggedOut' \ loggedOut : session'[s].user # None /\ session'[s].revoked
<1>1. /\ session \in [Sessions -> [user : Users \cup {None}, expires : Nat, revoked : BOOLEAN]]
      /\ clock \in Nat /\ SessionTTL \in Nat
  BY TypeParts, AccountsAssumption DEF TypeTables, TypeHistory
<1>2. CASE UNCHANGED session /\ UNCHANGED loggedOut
  BY <1>1, <1>2 DEF SessionsGrow
<1>3. ASSUME NEW r \in Requests, CreateSession(r)
      PROVE  /\ session' \in [Sessions -> [user : Users \cup {None}, expires : Nat, revoked : BOOLEAN]]
             /\ SessionsGrow
             /\ \A s \in Sessions : session[s].user = None /\ session'[s].user # None =>
                  row[session'[s].user] # None
             /\ \A s \in loggedOut' \ loggedOut : session'[s].user # None /\ session'[s].revoked
  <2>1. /\ req[r].user \in Users /\ row[req[r].user] # None /\ UNCHANGED loggedOut
    BY <1>3 DEF CreateSession, Shape, Known, historyVars
  <2>2. PICK s \in Sessions : session[s].user = None
                              /\ session' = [session EXCEPT ![s] = NewSession(req[r].user)]
    BY <1>3 DEF CreateSession
  <2>3. /\ NewSession(req[r].user) \in [user : Users \cup {None}, expires : Nat, revoked : BOOLEAN]
        /\ NewSession(req[r].user).user = req[r].user
    BY <1>1, <2>1 DEF NewSession
  <2> QED
    BY <1>1, <2>1, <2>2, <2>3 DEF SessionsGrow
<1>4. ASSUME NEW r \in Requests, RevokeByHash(r)
      PROVE  /\ session' \in [Sessions -> [user : Users \cup {None}, expires : Nat, revoked : BOOLEAN]]
             /\ SessionsGrow
             /\ \A s \in Sessions : session[s].user = None /\ session'[s].user # None =>
                  row[session'[s].user] # None
             /\ \A s \in loggedOut' \ loggedOut : session'[s].user # None /\ session'[s].revoked
  <2>1. req[r].session \in Sessions /\ session[req[r].session].user # None
    BY <1>4 DEF RevokeByHash, Shape, Staged, Brought, WellFormed
  <2>2. /\ session' = [session EXCEPT ![req[r].session].revoked = TRUE]
        /\ loggedOut' = loggedOut \cup {req[r].session}
    BY <1>4 DEF RevokeByHash
  <2> QED
    BY <1>1, <2>1, <2>2 DEF SessionsGrow
<1>5. \/ UNCHANGED session /\ UNCHANGED loggedOut
      \/ \E r \in Requests : CreateSession(r) \/ RevokeByHash(r)
  BY Effects
<1> QED
  BY <1>2, <1>3, <1>4, <1>5

LEMMA TokenStep ==
  ASSUME TypeOK, Shape, [Next]_vars
  PROVE  /\ token' \in [Tokens -> [user : Users \cup {None}, expires : Nat, used : BOOLEAN]]
         /\ TokensGrow
         /\ \A t \in Tokens : token[t].user = None /\ token'[t].user # None =>
              row[token'[t].user] # None
         /\ \A t \in spent' \ spent : token'[t].user # None /\ token'[t].used
<1>1. /\ token \in [Tokens -> [user : Users \cup {None}, expires : Nat, used : BOOLEAN]]
      /\ clock \in Nat /\ ResetTTL \in Nat
  BY TypeParts, AccountsAssumption DEF TypeTables, TypeHistory
<1> DEFINE Goal == /\ token' \in [Tokens -> [user : Users \cup {None}, expires : Nat, used : BOOLEAN]]
                   /\ TokensGrow
                   /\ \A t \in Tokens : token[t].user = None /\ token'[t].user # None =>
                        row[token'[t].user] # None
                   /\ \A t \in spent' \ spent : token'[t].user # None /\ token'[t].used
<1> SUFFICES Goal
  OBVIOUS
<1>2. CASE UNCHANGED token /\ UNCHANGED spent
  BY <1>1, <1>2 DEF TokensGrow
<1>3. ASSUME NEW r \in Requests, CreateToken(r)
      PROVE  Goal
  <2>1. /\ req[r].user \in Users /\ row[req[r].user] # None /\ UNCHANGED spent
    BY <1>3 DEF CreateToken, Shape, Known, historyVars
  <2>2. PICK t \in Tokens : token[t].user = None
                            /\ token' = [token EXCEPT ![t] = NewToken(req[r].user)]
    BY <1>3 DEF CreateToken
  <2>3. /\ NewToken(req[r].user) \in [user : Users \cup {None}, expires : Nat, used : BOOLEAN]
        /\ NewToken(req[r].user).user = req[r].user
    BY <1>1, <2>1 DEF NewToken
  <2> QED
    BY <1>1, <2>1, <2>2, <2>3 DEF TokensGrow
<1>4. ASSUME NEW r \in Requests, MarkUsed(r)
      PROVE  Goal
  <2>1. req[r].token \in Tokens /\ token[req[r].token].user # None
    BY <1>4 DEF MarkUsed, Shape, Staged, Brought, WellFormed
  <2>2. /\ token' = [token EXCEPT ![req[r].token].used = TRUE]
        /\ spent' = spent \cup {req[r].token}
    BY <1>4 DEF MarkUsed
  <2> QED
    BY <1>1, <2>1, <2>2 DEF TokensGrow
<1>5. \/ UNCHANGED token /\ UNCHANGED spent
      \/ \E r \in Requests : CreateToken(r) \/ MarkUsed(r)
  BY Effects
<1> QED
  BY <1>2, <1>3, <1>4, <1>5

LEMMA HistoryStep ==
  ASSUME TypeOK, Shape, [Next]_vars
  PROVE  TypeHistory' /\ RestGrows
<1>1. /\ TypeHistory /\ req \in [Requests -> Locals]
      /\ MaxClock \in Nat /\ MaxCalls \in Nat
  BY TypeParts, AccountsAssumption DEF TypeRequests
<1>2. clock' \in 0..MaxClock /\ clock \in Nat /\ clock' \in Nat /\ clock <= clock'
  BY <1>1, Effects DEF TypeHistory, Tick
<1>3. calls' \in 0..MaxCalls
  <2>1. ASSUME NEW r \in Requests, Arrive(r)
        PROVE  calls < MaxCalls /\ calls' = calls + 1
    BY <2>1 DEF Arrive
  <2> QED
    BY <1>1, <2>1, Effects DEF TypeHistory
<1>4. loggedOut' \subseteq Sessions /\ loggedOut \subseteq loggedOut'
  <2>1. ASSUME NEW r \in Requests, RevokeByHash(r)
        PROVE  req[r].session \in Sessions /\ loggedOut' = loggedOut \cup {req[r].session}
    BY <2>1 DEF RevokeByHash, Shape, Staged, Brought, WellFormed
  <2> QED
    BY <1>1, <2>1, Effects DEF TypeHistory
<1>5. spent' \subseteq Tokens /\ spent \subseteq spent'
  <2>1. ASSUME NEW r \in Requests, MarkUsed(r)
        PROVE  req[r].token \in Tokens /\ spent' = spent \cup {req[r].token}
    BY <2>1 DEF MarkUsed, Shape, Staged, Brought, WellFormed
  <2> QED
    BY <1>1, <2>1, Effects DEF TypeHistory
<1>6. resets' \in [Tokens -> Nat]
  <2>1. ASSUME NEW r \in Requests, Write(r)
        PROVE  resets' = resets \/ resets' = [resets EXCEPT ![req[r].token] = @ + 1]
    BY <2>1 DEF Write
  <2> QED
    BY <1>1, <2>1, Effects DEF TypeHistory
<1>7. cuts' \in [Tokens -> Nat]
  <2>1. ASSUME NEW r \in Requests, Fail(r)
        PROVE  cuts' = cuts \/ cuts' = [cuts EXCEPT ![req[r].token] = @ + 1]
    BY <2>1 DEF Fail
  <2> QED
    BY <1>1, <2>1, Effects DEF TypeHistory
<1>8. shared' \subseteq Tokens /\ crowded' \subseteq Users
  <2>1. ASSUME NEW r \in Requests, FindToken(r)
        PROVE  shared' = shared \/ (req[r].token \in Tokens /\ shared' = shared \cup {req[r].token})
    <3>1. req[r].token \in Tokens
      BY <2>1 DEF FindToken, LookUp, Shape, Staged, Brought, WellFormed
    <3> QED
      BY <2>1, <3>1 DEF FindToken, LookUp
  <2>2. ASSUME NEW r \in Requests, CountUserRules(r)
        PROVE  crowded' = crowded \/ (req[r].user \in Users /\ crowded' = crowded \cup {req[r].user})
    <3>1. req[r].user \in Users
      BY <2>2 DEF CountUserRules, Shape, Known
    <3> QED
      BY <2>2, <3>1 DEF CountUserRules
  <2> QED
    BY <1>1, <2>1, <2>2, Effects DEF TypeHistory
<1>9. imposed' \in [Users -> SUBSET Rules]
  <2>1. ASSUME NEW r \in Requests, InsertRule(r)
        PROVE  imposed' \in [Users -> SUBSET Rules]
    <3>1. req[r].rule \in Rules
      BY <2>1 DEF InsertRule, Shape, Staged, Brought, WellFormed
    <3>2. \/ imposed' = imposed
          \/ imposed' = [imposed EXCEPT ![req[r].user] = @ \cup ({req[r].rule} \ rules[req[r].user])]
      BY <2>1 DEF InsertRule
    <3> QED
      BY <1>1, <3>1, <3>2 DEF TypeHistory
  <2> QED
    BY <1>1, <2>1, Effects DEF TypeHistory
<1> QED
  BY <1>2, <1>3, <1>4, <1>5, <1>6, <1>7, <1>8, <1>9 DEF TypeHistory, RestGrows

LEMMA RequestStep ==
  ASSUME TypeOK, Shape, [Next]_vars
  PROVE  TypeRequests'
<1>1. /\ pc \in [Requests -> Statements] /\ req \in [Requests -> Locals]
      /\ row \in [Users -> Row \cup {None}]
      /\ session \in [Sessions -> [user : Users \cup {None}, expires : Nat, revoked : BOOLEAN]]
      /\ token \in [Tokens -> [user : Users \cup {None}, expires : Nat, used : BOOLEAN]]
  BY TypeParts DEF TypeRequests, TypeTables
<1> SUFFICES pc' \in [Requests -> Statements] /\ req' \in [Requests -> Locals]
  BY DEF TypeRequests
<1>2. ASSUME NEW r \in Requests, NEW l \in Statements, Goto(r, l)
      PROVE  pc' \in [Requests -> Statements]
  BY <1>1, <1>2 DEF Goto
<1>3. ASSUME NEW r \in Requests, NEW u \in Users \cup {None},
             req' = [req EXCEPT ![r].user = u] \/ UNCHANGED req
      PROVE  req' \in [Requests -> Locals]
  <2>1. PICK q : q = req[r]
    OBVIOUS
  <2>2. q \in Locals
    BY <1>1, <2>1
  <2>3. [q EXCEPT !.user = u] \in Locals
    BY <2>2 DEF Locals
  <2> HIDE DEF Locals
  <2> QED
    BY <1>1, <1>3, <2>1, <2>3
<1>4. ASSUME NEW r \in Requests, End(r)
      PROVE  pc' \in [Requests -> Statements] /\ req' \in [Requests -> Locals]
  BY <1>1, <1>2, <1>4, IdleType DEF End, Goto, Statements
<1>5. ASSUME NEW r \in Requests, NEW u \in Users, NEW l \in Statements, Found(r, u, l)
      PROVE  pc' \in [Requests -> Statements] /\ req' \in [Requests -> Locals]
  BY <1>2, <1>3, <1>5 DEF Found
<1>6. ASSUME NEW r \in Requests, Arrive(r)
      PROVE  pc' \in [Requests -> Statements] /\ req' \in [Requests -> Locals]
  <2>1. PICK c \in Calls : /\ req' = [req EXCEPT ![r] = [c EXCEPT !.late = TooLate(c)]]
                           /\ pc' = [pc EXCEPT ![r] = FirstStatement(c.kind)]
    BY <1>6 DEF Arrive
  <2>2. c \in Locals /\ FirstStatement(c.kind) \in Statements
    BY CallsType DEF FirstStatement, Statements
  <2>3. TooLate(c) \in BOOLEAN
    BY DEF TooLate
  <2>4. [c EXCEPT !.late = TooLate(c)] \in Locals
    BY <2>2, <2>3 DEF Locals
  <2> QED
    BY <1>1, <2>1, <2>2, <2>4
<1>7. ASSUME NEW r \in Requests, Serve(r)
      PROVE  pc' \in [Requests -> Statements] /\ req' \in [Requests -> Locals]
  <2> DEFINE Goal == pc' \in [Requests -> Statements] /\ req' \in [Requests -> Locals]
  <2> SUFFICES Goal
    OBVIOUS
  <2>a. /\ {"session", "insert", "mint", "write", "user", "update", "rule", "mark", "profile",
            "check", "count", "list"} \subseteq Statements
        /\ req[r].user \in Users \cup {None}
    BY <1>1 DEF Statements, Locals
  <2>b. \A l \in Statements : UNCHANGED req /\ Goto(r, l) => Goal
    BY <1>1, <1>2
  <2>c. \A u \in Users, l \in Statements : Found(r, u, l) => Goal
    BY <1>5
  <2>d. End(r) => Goal
    BY <1>4
  <2>e. pc[r] \in {"token", "user", "check", "count"} => req[r].kind = "confirm" \/ req[r].user \in Users
    BY DEF Shape, Staged, Known
  <2> HIDE DEF Goal
  <2>1. CASE FindForRegister(r)
    BY <2>1, <2>a, <2>b, <2>d DEF FindForRegister, Refuse
  <2>2. CASE CreateWithPassword(r)
    <3>1. PICK u \in Users : /\ row[u] = None
                             /\ row' = [row EXCEPT ![u] = NewRow(req[r].email, req[r].password)]
                             /\ req' = [req EXCEPT ![r].user = u]
      BY <2>2 DEF CreateWithPassword
    <3>2. Goto(r, "session")
      BY <2>2 DEF CreateWithPassword
    <3> QED
      BY <3>1, <3>2, <1>2, <1>3, <2>a DEF Goal
  <2>3. CASE FindForLogin(r)
    BY <2>3, <2>a, <2>c, <2>d DEF FindForLogin, Refuse, Proceed, Registered
  <2>4. CASE FindForReset(r)
    BY <2>4, <2>a, <2>c, <2>d DEF FindForReset, Refuse, Proceed, Registered
  <2>5. CASE FindToken(r)
    <3>1. token[req[r].token].user \in Users
      BY <2>5, <1>1 DEF FindToken, LookUp, Shape, Staged, Brought, WellFormed
    <3> QED
      BY <2>5, <3>1, <2>a, <2>c, <2>d DEF FindToken, LookUp
  <2>6. CASE FindSession(r)
    <3>1. session[req[r].session].user \in Users
      BY <2>6, <1>1 DEF FindSession, Shape, Staged, Brought, WellFormed
    <3> QED
      BY <2>6, <3>1, <1>2, <1>3, <2>a, <2>d DEF FindSession, Goal
  <2>7. CASE FindUser(r)
    <3>1. req[r].user \in Users /\ NextStatement(req[r].kind) \in Statements
      BY <2>7, <2>a DEF FindUser, NextStatement, Shape, Known
    <3> QED
      BY <2>7, <3>1, <2>c, <2>d DEF FindUser, Refuse, Proceed
  <2>8. CASE CheckCurrent(r)
    <3>1. req[r].user \in Users
      BY <2>8 DEF CheckCurrent, Shape, Known
    <3> QED
      BY <2>8, <3>1, <2>a, <2>c, <2>d DEF CheckCurrent, Refuse, Proceed
  <2>9. CASE Write(r) \/ CountUserRules(r) \/ UpdateRule(r)
    BY <2>9, <2>a, <2>b, <2>d DEF Write, CountUserRules, UpdateRule
  <2>10. CASE \/ CreateSession(r) \/ CreateToken(r) \/ MarkUsed(r) \/ RevokeByHash(r)
              \/ InsertRule(r) \/ Read(r) \/ Fail(r)
    BY <2>10, <2>d DEF CreateSession, CreateToken, MarkUsed, RevokeByHash, InsertRule, Read, Fail, Refuse
  <2> QED
    BY <1>7, <2>1, <2>2, <2>3, <2>4, <2>5, <2>6, <2>7, <2>8, <2>9, <2>10 DEF Serve
<1> QED
  BY <1>1, <1>6, <1>7, Effects

LEMMA TypeStep ==
  ASSUME TypeOK, Shape, [Next]_vars
  PROVE  TypeOK'
<1>1. rules' \in [Users -> SUBSET Rules]
  <2>1. ASSUME NEW r \in Requests, InsertRule(r)
        PROVE  /\ req[r].rule \in Rules
               /\ rules' = [rules EXCEPT ![req[r].user] = @ \cup ({req[r].rule} \ rules[req[r].user])]
    BY <2>1 DEF InsertRule, Shape, Staged, Brought, WellFormed
  <2> QED
    BY <2>1, Effects, TypeParts DEF TypeTables
<1>2. TypeTables'
  BY <1>1, RowStep, SessionStep, TokenStep DEF TypeTables
<1> QED
  BY <1>2, RequestStep, HistoryStep DEF TypeOK, TypeTables, TypeRequests, TypeHistory, Locals

-----------------------------------------------------------------------------
(* The shape of the requests.                                              *)
LEMMA WellFormedStays ==
  ASSUME NEW q, WellFormed(q), SessionsGrow, TokensGrow
  PROVE  WellFormed(q)'
BY AccountsAssumption DEF WellFormed, SessionsGrow, TokensGrow

(* A request that arrives.                                                 *)
LEMMA Arrival ==
  ASSUME TypeOK, NEW r \in Requests, Arrive(r)
  PROVE  /\ \A q \in Requests \ {r} : pc'[q] = pc[q] /\ req'[q] = req[q]
         /\ pc[r] = "idle" /\ pc'[r] = FirstStatement(req'[r].kind)
         /\ req'[r].kind \in OwnedKinds \cup
                             {"register", "login", "forgot", "confirm", "logout", "operator"}
         /\ req'[r].kind = "operator" => req'[r].user \in Users /\ row[req'[r].user] # None
         /\ row' = row
         /\ WellFormed(req'[r]) /\ req'[r].late = TooLate(req'[r])
<1>1. PICK c \in Calls : /\ req' = [req EXCEPT ![r] = [c EXCEPT !.late = TooLate(c)]]
                         /\ pc' = [pc EXCEPT ![r] = FirstStatement(c.kind)]
  BY DEF Arrive
<1>2. /\ c \in Locals /\ WellFormed(c)
      /\ c.kind \in OwnedKinds \cup
                    {"register", "login", "forgot", "confirm", "logout", "operator"}
      /\ c.kind = "operator" => c.user \in Users /\ row[c.user] # None
  BY CallsType
<1>3. pc \in [Requests -> Statements] /\ req \in [Requests -> Locals]
  BY TypeParts DEF TypeRequests
<1>4. PICK q : q = req'[r]
  OBVIOUS
<1>5. /\ q = [c EXCEPT !.late = TooLate(c)]
      /\ pc'[r] = FirstStatement(c.kind)
      /\ \A x \in Requests \ {r} : pc'[x] = pc[x] /\ req'[x] = req[x]
  BY <1>1, <1>3, <1>4
<1>6. /\ q.kind = c.kind /\ q.email = c.email /\ q.password = c.password /\ q.session = c.session
      /\ q.token = c.token /\ q.rule = c.rule /\ q.draft = c.draft /\ q.user = c.user
      /\ q.late = TooLate(c)
  BY <1>2, <1>5 DEF Locals
<1>7. WellFormed(q) /\ TooLate(q) = TooLate(c)
  BY <1>2, <1>6 DEF WellFormed, TooLate
<1>8. WellFormed(req'[r]) /\ TooLate(q) = TooLate(req'[r])
  BY <1>4, <1>7 DEF WellFormed, TooLate
<1> QED
  BY <1>2, <1>4, <1>5, <1>6, <1>7, <1>8 DEF Arrive, tableVars

LEMMA BroughtStep ==
  ASSUME TypeOK, Shape, [Next]_vars
  PROVE  Brought'
<1> SUFFICES ASSUME NEW r \in Requests PROVE WellFormed(req[r])'
  BY DEF Brought
<1>1. SessionsGrow /\ TokensGrow
  BY SessionStep, TokenStep
<1>2. PICK q : q = req'[r]
  OBVIOUS
<1>3. WellFormed(q)
  <2>1. WellFormed(req[r])
    BY DEF Shape, Brought
  <2>2. CASE req'[r] = req[r]
    BY <2>1, <2>2, <1>2 DEF WellFormed
  <2>3. ASSUME Serve(r) PROVE WellFormed(q)
    <3>1. CASE Ends(r)
      BY <3>1, <1>2, IdleType DEF Ends
    <3>2. CASE Kept(r)
      BY <2>1, <3>2, <1>2 DEF Kept, WellFormed
    <3> QED
      BY <2>3, <3>1, <3>2, Moves
  <2>4. ASSUME Arrive(r) PROVE WellFormed(q)
    <3>1. WellFormed(req'[r])
      BY <2>4, Arrival
    <3> QED
      BY <3>1, <1>2 DEF WellFormed
  <2>5. req'[r] = req[r] \/ Serve(r) \/ Arrive(r)
    <3>1. ASSUME NEW x \in Requests, x # r, Serve(x) \/ Arrive(x)
          PROVE  req'[r] = req[r]
      BY <3>1, Moves, Arrival
    <3> QED
      BY <3>1, Effects
  <2> QED
    BY <2>2, <2>3, <2>4, <2>5
<1>4. WellFormed(q)'
  BY <1>1, <1>3, WellFormedStays
<1> QED
  BY <1>2, <1>4 DEF WellFormed

LEMMA StagedStep ==
  ASSUME TypeOK, Shape, [Next]_vars
  PROVE  Staged'
<1> DEFINE S(l, k) ==
      /\ l = "email" => k \in {"register", "login", "forgot"}
      /\ l = "insert" => k = "register"
      /\ l \in {"token", "mark"} => k = "confirm"
      /\ l = "revoke" => k = "logout"
      /\ l \in {"cookie", "user"} => k \in OwnedKinds
      /\ l = "check" => k = "change"
      /\ l = "write" => k \in DOMAIN Columns
      /\ l = "count" => k = "rule"
      /\ l \in {"update", "rule"} => k \in {"rule", "operator"}
<1>1. \A r \in Requests : S(pc[r], req[r].kind)
  BY DEF Shape, Staged
<1>2. \A r \in Requests : S(pc'[r], req'[r].kind)
  <2>1. ASSUME NEW r \in Requests, Serve(r)
        PROVE  S(pc'[r], req'[r].kind)
    <3>1. CASE Ends(r)
      BY <3>1 DEF Ends
    <3>2. CASE Kept(r) /\ Advance(r)
      BY <1>1, <3>2 DEF Kept, Advance, NextStatement, OwnedKinds, Columns
    <3> QED
      BY <2>1, <3>1, <3>2, Moves
  <2>2. ASSUME NEW r \in Requests, Arrive(r)
        PROVE  S(pc'[r], req'[r].kind)
    BY <2>2, Arrival DEF FirstStatement, OwnedKinds
  <2> HIDE DEF S
  <2> QED
    BY <1>1, <2>1, <2>2, Effects, Moves, Arrival
<1> QED
  BY <1>2 DEF Staged

LEMMA KnownStep ==
  ASSUME TypeOK, Shape, [Next]_vars
  PROVE  Known'
<1> DEFINE Late == {"session", "mint", "user", "check", "write", "mark", "profile",
                    "list", "count", "update", "rule"}
           K(l, u) == l \in Late => u \in Users /\ row'[u] # None
<1>1. ASSUME NEW u \in Users, row[u] # None
      PROVE  row'[u] # None
  BY <1>1, RowStep DEF RowsGrow
<1>2. \A r \in Requests : K(pc[r], req[r].user)
  BY <1>1 DEF Shape, Known
<1>3. \A r \in Requests : K(pc'[r], req'[r].user)
  <2>1. ASSUME NEW r \in Requests, Serve(r)
        PROVE  K(pc'[r], req'[r].user)
    <3>1. CASE Ends(r)
      BY <3>1 DEF Ends
    <3>2. CASE Kept(r) /\ Advance(r)
      <4>1. pc[r] \in Late => req[r].user \in Users /\ row'[req[r].user] # None
        BY <1>2
      <4>2. \A u \in Registered(req[r].email) : u \in Users /\ row'[u] # None
        BY <1>1 DEF Registered
      <4>3. pc[r] = "insert" => \A u \in Users :
              row' = [row EXCEPT ![u] = NewRow(req[r].email, req[r].password)] => row'[u] # None
        BY NewRowType, TypeParts DEF Shape, Staged, Brought, WellFormed, TypeTables
      <4>4. pc[r] = "token" => token[req[r].token].user \in Users /\ row'[token[req[r].token].user] # None
        BY <1>1, TypeParts DEF Shape, Staged, Brought, WellFormed, Owned, TypeTables
      <4>5. pc[r] = "cookie" =>
              session[req[r].session].user \in Users /\ row'[session[req[r].session].user] # None
        BY <1>1, TypeParts DEF Shape, Staged, Brought, WellFormed, Owned, TypeTables
      <4> QED
        BY <3>2, <4>1, <4>2, <4>3, <4>4, <4>5 DEF Advance
    <3> QED
      BY <2>1, <3>1, <3>2, Moves
  <2>2. ASSUME NEW r \in Requests, Arrive(r)
        PROVE  K(pc'[r], req'[r].user)
    <3>1. /\ pc'[r] = FirstStatement(req'[r].kind)
          /\ req'[r].kind = "operator" => req'[r].user \in Users /\ row'[req'[r].user] # None
      BY <2>2, Arrival
    <3>2. pc'[r] \in Late => req'[r].kind = "operator"
      BY <2>2, <3>1, Arrival DEF FirstStatement, OwnedKinds
    <3> QED
      BY <3>1, <3>2
  <2> HIDE DEF K
  <2> QED
    BY <1>2, <2>1, <2>2, Effects, Moves, Arrival
<1> QED
  BY <1>3 DEF Known

LEMMA OwnedStep ==
  ASSUME TypeOK, Shape, [Next]_vars
  PROVE  Owned'
<1>1. /\ SessionsGrow /\ TokensGrow /\ RowsGrow
      /\ \A s \in Sessions : session[s].user = None /\ session'[s].user # None =>
           row[session'[s].user] # None
      /\ \A t \in Tokens : token[t].user = None /\ token'[t].user # None =>
           row[token'[t].user] # None
      /\ \A s \in Sessions : session'[s].user \in Users \cup {None}
      /\ \A t \in Tokens : token'[t].user \in Users \cup {None}
  BY RowStep, SessionStep, TokenStep
<1> QED
  BY <1>1 DEF Shape, Owned, SessionsGrow, TokensGrow, RowsGrow

LEMMA ShapeStep ==
  ASSUME TypeOK, Shape, [Next]_vars
  PROVE  Shape'
BY BroughtStep, StagedStep, KnownStep, OwnedStep DEF Shape

-----------------------------------------------------------------------------
(* Emails keep to one account: the index refuses the second row.           *)
LEMMA OneAccountStep ==
  ASSUME TypeOK, Shape, OneAccount, [Next]_vars
  PROVE  OneAccount'
<1>1. row \in [Users -> Row \cup {None}]
  BY TypeParts DEF TypeTables
<1>2. CASE row' = row
  BY <1>2 DEF OneAccount
<1>3. ASSUME NEW w \in Users, Disable(w)
      PROVE  OneAccount'
  <2>1. row[w] \in Row /\ row' = [row EXCEPT ![w].active = FALSE]
    BY <1>1, <1>3 DEF Disable
  <2>2. row'[w].email = row[w].email /\ \A u \in Users \ {w} : row'[u] = row[u]
    BY <1>1, <2>1 DEF Row
  <2> QED
    BY <2>1, <2>2, RowAssumption DEF OneAccount
<1>4. ASSUME NEW r \in Requests, CreateWithPassword(r)
      PROVE  OneAccount'
  <2>1. PICK w \in Users : row[w] = None /\ row' = [row EXCEPT ![w] = NewRow(req[r].email, req[r].password)]
    BY <1>4 DEF CreateWithPassword
  <2>2. /\ req[r].email \in Emails /\ req[r].password \in Passwords
        /\ Registered(req[r].email) = {}
    BY <1>4 DEF CreateWithPassword, Shape, Staged, Brought, WellFormed
  <2>3. row'[w].email = req[r].email /\ \A u \in Users \ {w} : row'[u] = row[u]
    BY <1>1, <2>1, <2>2, NewRowType
  <2> QED
    BY <2>2, <2>3 DEF OneAccount, Registered
<1>5. ASSUME NEW r \in Requests, Write(r)
      PROVE  OneAccount'
  <2>1. /\ req[r].user \in Users /\ row[req[r].user] \in Row
        /\ row'[req[r].user].email = row[req[r].user].email
        /\ \A u \in Users \ {req[r].user} : row'[u] = row[u]
    BY <1>1, <1>5, Writes
  <2> QED
    BY <2>1, RowAssumption DEF OneAccount
<1> QED
  BY <1>2, <1>3, <1>4, <1>5, Effects

LEMMA EndedStep ==
  ASSUME TypeOK, Shape, Ended, [Next]_vars
  PROVE  Ended'
<1>1. loggedOut \subseteq Sessions /\ spent \subseteq Tokens
  BY TypeParts DEF TypeHistory
<1> QED
  BY <1>1, SessionStep, TokenStep DEF Ended, SessionsGrow, TokensGrow

-----------------------------------------------------------------------------
(* What makes a request late stays true.                                   *)
LEMMA LateStays ==
  ASSUME NEW c, WellFormed(c), TooLate(c), TypeOK, Owned,
         RowsGrow, SessionsGrow, TokensGrow, RestGrows
  PROVE  TooLate(c)'
<1>1. /\ \A u \in Users : row[u] \in Row \cup {None}
      /\ \A s \in Sessions : session[s].user \in Users \cup {None} /\ session[s].expires \in Nat
      /\ \A t \in Tokens : token[t].expires \in Nat
  BY TypeParts DEF TypeTables
<1>2. CASE c.kind = "register" /\ Registered(c.email) # {}
  BY <1>2 DEF Registered, RowsGrow, TooLate
<1>3. CASE c.kind = "login" /\ \E u \in Registered(c.email) : ~row[u].active
  BY <1>3 DEF Registered, RowsGrow, TooLate
<1>4. CASE c.kind = "confirm" /\ (c.token \in spent \/ clock >= token[c.token].expires)
  <2>1. c.token \in Tokens /\ token'[c.token].expires = token[c.token].expires
    BY <1>4 DEF WellFormed, TokensGrow
  <2>2. c.token \in spent' \/ clock' >= token'[c.token].expires
    BY <1>1, <1>4, <2>1 DEF RestGrows
  <2> QED
    BY <1>4, <2>2 DEF TooLate
<1>5. CASE /\ c.session # None
           /\ \/ c.session \in loggedOut
              \/ clock >= session[c.session].expires
              \/ ~row[session[c.session].user].active
  <2>1. /\ c.session \in Sessions /\ session[c.session].user \in Users
        /\ row[session[c.session].user] # None
        /\ session'[c.session].expires = session[c.session].expires
        /\ session'[c.session].user = session[c.session].user
    BY <1>1, <1>5 DEF WellFormed, Owned, SessionsGrow
  <2>2. \/ c.session \in loggedOut'
        \/ clock' >= session'[c.session].expires
        \/ ~row'[session'[c.session].user].active
    BY <1>1, <1>5, <2>1 DEF RestGrows, RowsGrow
  <2> QED
    BY <1>5, <2>2 DEF TooLate
<1> QED
  BY <1>2, <1>3, <1>4, <1>5 DEF TooLate

LEMMA RefusableStep ==
  ASSUME TypeOK, Shape, OneAccount, Ended, Refusable, [Next]_vars
  PROVE  Refusable'
<1>1. /\ RowsGrow /\ SessionsGrow /\ TokensGrow /\ RestGrows /\ Owned
  BY RowStep, SessionStep, TokenStep, HistoryStep DEF Shape
<1> SUFFICES ASSUME NEW r \in Requests, req'[r].late
             PROVE  \/ pc'[r] \in {"idle", "revoke"}
                    \/ pc'[r] \in {"email", "token", "cookie"} /\ TooLate(req[r])'
                    \/ pc'[r] = "user" /\ ~row'[req'[r].user].active
  BY DEF Refusable
<1>2. WellFormed(req[r])
  BY DEF Shape, Brought
<1>3. PICK c : c = req'[r]
  OBVIOUS
<1>4. CASE pc'[r] = pc[r] /\ req'[r] = req[r]
  <2>1. CASE pc[r] \in {"idle", "revoke"}
    BY <1>4, <2>1
  <2>2. CASE pc[r] \in {"email", "token", "cookie"} /\ TooLate(req[r])
    <3>1. WellFormed(c) /\ TooLate(c)
      BY <1>2, <1>3, <1>4, <2>2 DEF WellFormed, TooLate
    <3>2. TooLate(c)'
      BY <1>1, <3>1, LateStays
    <3>3. TooLate(req[r])'
      BY <1>3, <3>2 DEF TooLate
    <3> QED
      BY <1>4, <2>2, <3>3
  <2>3. CASE pc[r] = "user" /\ ~row[req[r].user].active
    BY <1>1, <1>4, <2>3 DEF Shape, Known, RowsGrow
  <2> QED
    BY <1>4, <2>1, <2>2, <2>3 DEF Refusable
<1>5. ASSUME Arrive(r)
      PROVE  \/ pc'[r] \in {"idle", "revoke"}
             \/ pc'[r] \in {"email", "token", "cookie"} /\ TooLate(req[r])'
  <2>1. WellFormed(c) /\ TooLate(c)
    <3>1. WellFormed(req'[r]) /\ TooLate(req'[r])
      BY <1>5, Arrival
    <3> QED
      BY <1>3, <3>1 DEF WellFormed, TooLate
  <2>2. TooLate(c)'
    BY <1>1, <2>1, LateStays
  <2>3. TooLate(req[r])'
    BY <1>3, <2>2 DEF TooLate
  <2>a. req'[r].kind # "operator"
    BY <1>3, <2>1 DEF WellFormed, TooLate, OwnedKinds
  <2>4. pc'[r] \in {"email", "token", "cookie", "revoke"}
    BY <1>5, <2>a, Arrival DEF FirstStatement, OwnedKinds
  <2> QED
    BY <2>3, <2>4
<1>6. ASSUME Serve(r)
      PROVE  \/ pc'[r] = "idle"
             \/ pc'[r] = "user" /\ ~row'[req'[r].user].active
  <2>1. CASE Ends(r)
    BY <2>1 DEF Ends
  <2>2. CASE Kept(r) /\ Advance(r)
    <3>1. req[r].late
      BY <2>2 DEF Kept
    <3>2. pc[r] = "email" => /\ req[r].kind = "register" => Registered(req[r].email) # {}
                             /\ req[r].kind = "login" => \A u \in Registered(req[r].email) : ~row[u].active
                             /\ req[r].kind # "forgot"
      BY <3>1, <1>2 DEF Refusable, TooLate, WellFormed, OwnedKinds, Shape, Staged, OneAccount, Registered
    <3>4. CASE pc[r] = "email"
      BY <2>2, <3>2, <3>4 DEF Advance
    <3>5. CASE pc[r] = "token"
      <4>1. req[r].token \in Tokens /\ req[r].kind = "confirm" /\ token[req[r].token].expires \in Nat
        BY <1>2, <3>5, TypeParts DEF Shape, Staged, WellFormed, TypeTables
      <4>2. req[r].token \in spent \/ clock >= token[req[r].token].expires
        BY <3>1, <3>5, <4>1, <1>2 DEF Refusable, TooLate, WellFormed, OwnedKinds
      <4>3. ~LiveToken(req[r].token)
        BY <4>1, <4>2, <1>1 DEF Ended, LiveToken, RestGrows
      <4> QED
        BY <2>2, <3>5, <4>3 DEF Advance
    <3>6. CASE pc[r] = "cookie"
      <4>1. /\ req[r].session \in Sessions /\ session[req[r].session].expires \in Nat
            /\ req[r].kind \in OwnedKinds
            /\ session[req[r].session].user \in Users /\ row[session[req[r].session].user] # None
        BY <1>2, <3>6, TypeParts DEF Shape, Staged, WellFormed, TypeTables, Owned
      <4>2. \/ req[r].session \in loggedOut
            \/ clock >= session[req[r].session].expires
            \/ ~row[session[req[r].session].user].active
        BY <3>1, <3>6, <4>1 DEF Refusable, TooLate, OwnedKinds
      <4>3. LiveSession(req[r].session) => ~row[session[req[r].session].user].active
        BY <4>1, <4>2, <1>1 DEF Ended, LiveSession, RestGrows
      <4> QED
        BY <2>2, <3>6, <4>1, <4>3, <1>1 DEF Advance, RowsGrow
    <3>7. CASE pc[r] = "user"
      BY <2>2, <3>1, <3>7 DEF Refusable, Advance
    <3>8. pc[r] \in {"idle", "revoke", "email", "token", "cookie", "user"}
      BY <3>1 DEF Refusable
    <3> QED
      BY <2>2, <3>4, <3>5, <3>6, <3>7, <3>8 DEF Advance
  <2> QED
    BY <1>6, <2>1, <2>2, Moves
<1>7. (pc'[r] = pc[r] /\ req'[r] = req[r]) \/ Serve(r) \/ Arrive(r)
  <2>1. ASSUME NEW x \in Requests, x # r, Serve(x) \/ Arrive(x)
        PROVE  pc'[r] = pc[r] /\ req'[r] = req[r]
    BY <2>1, Moves, Arrival
  <2> QED
    BY <2>1, Effects
<1> QED
  BY <1>4, <1>5, <1>6, <1>7

-----------------------------------------------------------------------------
(* Stored preferences are ones that were validated, or the defaults.       *)
LEMMA StoredStep ==
  ASSUME TypeOK, Shape, Stored, [Next]_vars
  PROVE  Stored'
<1>1. row \in [Users -> Row \cup {None}]
  BY TypeParts DEF TypeTables
<1> DEFINE Fine == \A u \in Users : row'[u] # None => Sound(row'[u].preferences)
<1>2. Fine
  <2>1. CASE row' = row
    BY <2>1 DEF Stored
  <2>2. ASSUME NEW w \in Users, Disable(w)
        PROVE  Fine
    <3>1. row[w] \in Row /\ row' = [row EXCEPT ![w].active = FALSE]
      BY <1>1, <2>2 DEF Disable
    <3>2. row'[w].preferences = row[w].preferences /\ \A u \in Users \ {w} : row'[u] = row[u]
      BY <1>1, <3>1 DEF Row
    <3> QED
      BY <3>1, <3>2, RowAssumption DEF Stored
  <2>3. ASSUME NEW r \in Requests, CreateWithPassword(r)
        PROVE  Fine
    <3>1. PICK w \in Users : row[w] = None /\ row' = [row EXCEPT ![w] = NewRow(req[r].email, req[r].password)]
      BY <2>3 DEF CreateWithPassword
    <3>2. req[r].email \in Emails /\ req[r].password \in Passwords
      BY <2>3 DEF CreateWithPassword, Shape, Staged, Brought, WellFormed
    <3>3. /\ Sound(row'[w].preferences)
          /\ \A u \in Users \ {w} : row'[u] = row[u]
      BY <1>1, <3>1, <3>2, NewRowType, DefaultsSound
    <3> QED
      BY <3>3 DEF Stored
  <2>4. ASSUME NEW r \in Requests, Write(r)
        PROVE  Fine
    <3>1. /\ req[r].user \in Users /\ row[req[r].user] # None
          /\ \A u \in Users \ {req[r].user} : row'[u] = row[u]
          /\ row'[req[r].user].preferences = Updated(r).preferences
          /\ \/ Updated(r).preferences = row[req[r].user].preferences
             \/ req[r].kind = "preferences" /\ Updated(r).preferences = Normalize(req[r].draft)
          /\ pc[r] = "write"
      BY <1>1, <2>4, Writes, RowAssumption DEF Write
    <3> QED
      BY <3>1 DEF Stored
  <2> QED
    BY <2>1, <2>2, <2>3, <2>4, Effects
<1>3. ASSUME NEW r \in Requests, pc'[r] = "write", req'[r].kind = "preferences"
      PROVE  Sound(Normalize(req'[r].draft))
  <2>1. CASE pc'[r] = pc[r] /\ req'[r] = req[r]
    BY <1>3, <2>1 DEF Stored
  <2>2. ASSUME Serve(r) PROVE Sound(Normalize(req'[r].draft))
    <3>1. Kept(r) /\ Advance(r)
      BY <1>3, <2>2, Moves DEF Ends
    <3>2. req[r].kind = "preferences" /\ req'[r].draft = req[r].draft
      BY <1>3, <3>1 DEF Kept
    <3>3. req[r].draft \in Drafts /\ pc[r] \notin {"token", "check"}
      BY <3>2 DEF Shape, Staged, Brought, WellFormed
    <3>4. Valid(Normalize(req[r].draft))
      BY <1>3, <3>1, <3>2, <3>3 DEF Advance, NextStatement
    <3> QED
      BY <3>2, <3>3, <3>4, NormalizeType DEF Sound
  <2>3. ~Arrive(r)
    BY <1>3, Arrival DEF FirstStatement, OwnedKinds
  <2>4. (pc'[r] = pc[r] /\ req'[r] = req[r]) \/ Serve(r) \/ Arrive(r)
    <3>1. ASSUME NEW x \in Requests, x # r, Serve(x) \/ Arrive(x)
          PROVE  pc'[r] = pc[r] /\ req'[r] = req[r]
      BY <3>1, Moves, Arrival
    <3> QED
      BY <3>1, Effects
  <2> QED
    BY <2>1, <2>2, <2>3, <2>4
<1>4. ASSUME NEW u \in Users, row'[u] # None
      PROVE  Sound(row[u].preferences)'
  <2>1. Sound(row'[u].preferences)
    BY <1>2, <1>4
  <2> QED
    BY <2>1 DEF Sound, Valid
<1>5. ASSUME NEW r \in Requests, pc'[r] = "write", req'[r].kind = "preferences"
      PROVE  Sound(Normalize(req[r].draft))'
  <2>1. Sound(Normalize(req'[r].draft))
    BY <1>3, <1>5
  <2> QED
    BY <2>1 DEF Sound, Valid, Normalize, Filled
<1> QED
  BY <1>4, <1>5 DEF Stored

(* Minutes of the day from a to b, past midnight too, as the pipeline      *)
(* compares them.                                                          *)
Between(a, b, l) ==
  \/ a = b
  \/ a < b /\ l >= a /\ l < b
  \/ a > b /\ (l >= a \/ l < b)

Minutes == 0..(Day - 1)

LEMMA Interval ==
  ASSUME NEW a \in Minutes, NEW b \in Minutes, NEW k \in Minutes, NEW z \in Minutes
  PROVE  Between(a, b, (k + z) % Day) <=> (k + z - a) % Day < (IF a = b THEN Day ELSE (b - a) % Day)
<1> DEFINE n == k + z
<1> USE DEF Minutes, Day
<1>1. n % 1440 = IF n < 1440 THEN n ELSE n - 1440
  OBVIOUS
<1>2. (n - a) % 1440 = IF n < a THEN n - a + 1440
                       ELSE IF n - a < 1440 THEN n - a ELSE n - a - 1440
  OBVIOUS
<1>3. (b - a) % 1440 = IF b >= a THEN b - a ELSE b - a + 1440
  OBVIOUS
<1> QED
  BY <1>1, <1>2, <1>3 DEF Between

LEMMA QuietHours ==
  ASSUME NEW p, Sound(p), NEW m \in Moments
  PROVE  p.quiet => (QuietHoursActive(p, m) <=>
           (m + p.zone - p.start) % Day < IF p.start = p.end THEN Day ELSE (p.end - p.start) % Day)
<1>1. p.start \in Field /\ p.end \in Field /\ p.zone \in Field
  BY DEF Sound, Preferences
<1>2. /\ p.start \notin {Absent, Malformed} /\ p.end \notin {Absent, Malformed}
      /\ p.zone \notin {Absent, Malformed}
  BY DEF Sound, Valid
<1>3. p.start \in Minutes /\ p.end \in Minutes /\ p.zone \in Minutes /\ m \in Minutes
  BY <1>1, <1>2, AccountsAssumption DEF Field, Absent, Malformed, Day, Minutes
<1>4. QuietHoursActive(p, m) <=> p.quiet /\ Between(p.start, p.end, (m + p.zone) % Day)
  <2>1. Filled(p.zone, 0) = p.zone
    BY <1>2 DEF Filled
  <2> QED
    BY <1>2, <2>1 DEF QuietHoursActive, Between
<1>5. Between(p.start, p.end, (m + p.zone) % Day) <=>
        (m + p.zone - p.start) % Day < (IF p.start = p.end THEN Day ELSE (p.end - p.start) % Day)
  BY <1>3, Interval, Zenon
<1> QED
  BY <1>4, <1>5

LEMMA InForceQuiet ==
  ASSUME Stored
  PROVE  QuietAsAsked
<1> SUFFICES ASSUME NEW u \in Users, row[u] # None
             PROVE  /\ row[u].preferences.every \in 5..Day
                    /\ row[u].preferences.quiet => \A m \in Moments :
                         QuietHoursActive(row[u].preferences, m) <=>
                           (m + row[u].preferences.zone - row[u].preferences.start) % Day <
                             IF row[u].preferences.start = row[u].preferences.end THEN Day
                             ELSE (row[u].preferences.end - row[u].preferences.start) % Day
  BY DEF QuietAsAsked
<1>1. PICK p : p = row[u].preferences
  OBVIOUS
<1>2. Sound(p)
  BY <1>1 DEF Stored
<1>3. p.every \in 5..Day
  BY <1>2 DEF Sound, Valid
<1>4. p.quiet => \A m \in Moments :
        QuietHoursActive(p, m) <=>
          (m + p.zone - p.start) % Day < IF p.start = p.end THEN Day ELSE (p.end - p.start) % Day
  BY <1>2, QuietHours
<1> QED
  BY <1>1, <1>3, <1>4

-----------------------------------------------------------------------------
(* Counting requests.                                                      *)
LEMMA SomeRequests ==
  ASSUME NEW S \in SUBSET Requests
  PROVE  IsFiniteSet(S) /\ Cardinality(S) \in Nat /\ Cardinality(S) <= Cardinality(Requests)
BY AccountsAssumption, FS_Subset, FS_CardinalityType

LEMMA SlackType ==
  ASSUME NEW a \in BOOLEAN, NEW b \in BOOLEAN, a => b, b => a \/ Requests # {}
  PROVE  Slack(a) \in Nat /\ Slack(b) \in Nat /\ Slack(a) <= Slack(b) /\ (a \/ 1 <= Slack(b))
<1>1. Cardinality(Requests) \in Nat
  BY SomeRequests
<1>2. Requests # {} => Cardinality(Requests) # 0
  BY AccountsAssumption, FS_EmptySet
<1> QED
  BY <1>1, <1>2 DEF Slack

(* What a request does that stands before these statements.                *)
LEMMA Doing ==
  ASSUME NEW r, Serve(r), pc[r] \in {"write", "mark", "count", "token"}
  PROVE  /\ pc[r] = "write" => Write(r) \/ Fail(r)
         /\ pc[r] = "mark" => MarkUsed(r) \/ Fail(r)
         /\ pc[r] = "count" => CountUserRules(r) \/ Fail(r)
         /\ pc[r] = "token" => FindToken(r) \/ Fail(r)
<1>1. ~FindForRegister(r) /\ ~FindForLogin(r) /\ ~FindForReset(r)
  BY DEF FindForRegister, FindForLogin, FindForReset, At
<1>2. ~CreateWithPassword(r) /\ ~CreateSession(r) /\ ~CreateToken(r)
  BY DEF CreateWithPassword, CreateSession, CreateToken
<1>3. ~RevokeByHash(r) /\ ~FindSession(r) /\ ~FindUser(r) /\ ~CheckCurrent(r) /\ ~Read(r)
  BY DEF RevokeByHash, FindSession, FindUser, CheckCurrent, Read
<1>4. ~UpdateRule(r) /\ ~InsertRule(r)
  BY DEF UpdateRule, InsertRule
<1>5. /\ pc[r] # "mark" => ~MarkUsed(r)
      /\ pc[r] # "write" => ~Write(r)
      /\ pc[r] # "count" => ~CountUserRules(r)
      /\ pc[r] # "token" => ~FindToken(r)
  BY DEF MarkUsed, Write, CountUserRules, FindToken, LookUp
<1> QED
  BY <1>1, <1>2, <1>3, <1>4, <1>5 DEF Serve

LEMMA RoomStep ==
  ASSUME TypeOK, Shape, Room, [Next]_vars
  PROVE  Room'
<1> SUFFICES ASSUME NEW u \in Users
             PROVE  /\ Cardinality(Posting(u)') <= Slack(u \in crowded')
                    /\ Cardinality(Own(u)') + Cardinality(Posting(u)')
                         < MaxRules + Slack(u \in crowded')
  BY DEF Room, Slack
<1> DEFINE O == Own(u)
           P == Posting(u)
           Goal == /\ Cardinality(P') <= Slack(u \in crowded')
                   /\ Cardinality(O') + Cardinality(P') < MaxRules + Slack(u \in crowded')
<1> SUFFICES Goal
  OBVIOUS
<1>1. /\ P \in SUBSET Requests /\ P' \in SUBSET Requests
      /\ O \in SUBSET Rules /\ O' \in SUBSET Rules /\ rules[u] \in SUBSET Rules
      /\ MaxRules \in Nat /\ IsFiniteSet(Rules)
      /\ rules \in [Users -> SUBSET Rules] /\ imposed \in [Users -> SUBSET Rules]
      /\ pc \in [Requests -> Statements] /\ req \in [Requests -> Locals]
  BY AccountsAssumption, TypeStep, TypeParts
     DEF Posting, Own, TypeOK, TypeTables, TypeRequests, TypeHistory
<1>2. /\ IsFiniteSet(O) /\ Cardinality(O) \in Nat
      /\ IsFiniteSet(O') /\ Cardinality(O') \in Nat
      /\ IsFiniteSet(rules[u]) /\ Cardinality(rules[u]) \in Nat
      /\ IsFiniteSet(P) /\ Cardinality(P) \in Nat
      /\ IsFiniteSet(P') /\ Cardinality(P') \in Nat /\ Cardinality(P') <= Cardinality(Requests)
  <2> HIDE DEF O, P
  <2> QED
    BY <1>1, SomeRequests, FS_Subset, FS_CardinalityType
<1>3. /\ Cardinality(P) <= Slack(u \in crowded)
      /\ Cardinality(O) + Cardinality(P) < MaxRules + Slack(u \in crowded)
  BY DEF Room
<1>4. /\ Slack(u \in crowded) \in Nat /\ Slack(u \in crowded') \in Nat
      /\ Slack(u \in crowded) <= Slack(u \in crowded')
  <2>1. ASSUME NEW r \in Requests, CountUserRules(r)
        PROVE  crowded \subseteq crowded' /\ Requests # {}
    BY <2>1 DEF CountUserRules
  <2>2. (crowded' = crowded) \/ (crowded \subseteq crowded' /\ Requests # {})
    BY <2>1, Effects
  <2>3. /\ (u \in crowded) \in BOOLEAN /\ (u \in crowded') \in BOOLEAN
        /\ (u \in crowded) => (u \in crowded')
        /\ (u \in crowded') => (u \in crowded) \/ Requests # {}
    BY <2>2
  <2> QED
    BY <2>3, SlackType
<1>5. ASSUME O' \subseteq O, P' \subseteq P
      PROVE  Goal
  <2> HIDE DEF O, P
  <2>1. Cardinality(O') <= Cardinality(O) /\ Cardinality(P') <= Cardinality(P)
    BY <1>2, <1>5, FS_Subset
  <2> QED
    BY <1>1, <1>2, <1>3, <1>4, <2>1
<1>6. ASSUME NEW r \in Requests, InsertRule(r)
      PROVE  Goal
  <2>1. /\ pc[r] = "rule" /\ req[r].user \in Users /\ req[r].kind \in {"rule", "operator"}
        /\ rules' = [rules EXCEPT ![req[r].user] = @ \cup ({req[r].rule} \ rules[req[r].user])]
        /\ imposed' = IF req[r].kind = "operator"
             THEN [imposed EXCEPT ![req[r].user] = @ \cup ({req[r].rule} \ rules[req[r].user])]
             ELSE imposed
    BY <1>6 DEF InsertRule, Shape, Staged, Known
  <2>2. P' = P \ {r}
    <3>1. pc'[r] = "idle" /\ \A q \in Requests \ {r} : pc'[q] = pc[q] /\ req'[q] = req[q]
      BY <1>1, <1>6, Moves DEF InsertRule, End, Goto, Serve
    <3> QED
      BY <3>1 DEF Posting
  <2>3. CASE req[r].user = u /\ req[r].kind = "rule"
    <3>1. r \in P
      BY <2>1, <2>3 DEF Posting
    <3>2. O' \subseteq O \cup {req[r].rule}
      BY <1>1, <2>1, <2>3 DEF Own
    <3> HIDE DEF O, P
    <3>3. Cardinality(P') = Cardinality(P) - 1
      BY <1>2, <2>2, <3>1, FS_RemoveElement
    <3>4. /\ IsFiniteSet(O \cup {req[r].rule})
          /\ Cardinality(O \cup {req[r].rule}) \in Nat
          /\ Cardinality(O \cup {req[r].rule}) <= Cardinality(O) + 1
      <4>1. /\ IsFiniteSet(O \cup {req[r].rule})
            /\ \/ Cardinality(O \cup {req[r].rule}) = Cardinality(O)
               \/ Cardinality(O \cup {req[r].rule}) = Cardinality(O) + 1
        BY <1>2, FS_AddElement
      <4> QED
        BY <1>2, <4>1
    <3>5. Cardinality(O') <= Cardinality(O \cup {req[r].rule})
      BY <3>2, <3>4, FS_Subset
    <3> QED
      BY <1>1, <1>2, <1>3, <1>4, <3>3, <3>4, <3>5
  <2>4. CASE req[r].user # u \/ req[r].kind = "operator"
    <3>1. O' \subseteq O
      BY <1>1, <2>1, <2>4 DEF Own
    <3> HIDE DEF O, P, Goal
    <3> QED
      BY <1>5, <2>2, <3>1
  <2> QED
    BY <2>1, <2>3, <2>4
<1>7. ASSUME NEW r \in Requests, CountUserRules(r)
      PROVE  Goal
  <2>1. O' = O
    BY <1>7 DEF CountUserRules, tableVars, Own
  <2>2. /\ pc[r] = "count" /\ req[r].kind = "rule"
        /\ \A q \in Requests \ {r} : pc'[q] = pc[q] /\ req'[q] = req[q]
    BY <1>7, Moves DEF CountUserRules, Serve, Shape, Staged
  <2>3. CASE CanCreateRule(r) /\ req[r].user = u
    <3>1. /\ P' = P \cup {r}
          /\ crowded' = IF P # {} THEN crowded \cup {u} ELSE crowded
      <4>1. /\ pc'[r] = "update" /\ req'[r] = req[r]
            /\ crowded' = IF P # {} THEN crowded \cup {u} ELSE crowded
        BY <1>1, <1>7, <2>3 DEF CountUserRules, Goto
      <4> QED
        BY <2>2, <2>3, <4>1 DEF Posting
    <3>2. O \subseteq rules[u] /\ Cardinality(rules[u]) < MaxRules
      BY <2>3 DEF Own, CanCreateRule
    <3> HIDE DEF O, P
    <3>3. Cardinality(O) < MaxRules
      <4>1. Cardinality(O) <= Cardinality(rules[u])
        BY <1>2, <3>2, FS_Subset
      <4> QED
        BY <1>1, <1>2, <3>2, <4>1
    <3>4. Cardinality(P') <= Slack(u \in crowded')
      <4>1. CASE P = {}
        <5>1. Cardinality(P') = 1
          BY <3>1, <4>1, FS_Singleton
        <5>2. Cardinality(Requests) \in Nat
          BY SomeRequests
        <5> QED
          BY <1>2, <5>1, <5>2 DEF Slack
      <4>2. CASE P # {}
        <5>1. u \in crowded'
          BY <3>1, <4>2
        <5> QED
          BY <1>2, <5>1 DEF Slack
      <4> QED
        BY <4>1, <4>2
    <3> QED
      BY <1>1, <1>2, <1>4, <2>1, <3>3, <3>4
  <2>4. CASE ~(CanCreateRule(r) /\ req[r].user = u)
    <3>1. r \notin P'
      <4>1. pc'[r] = "idle" \/ (req'[r] = req[r] /\ req[r].user # u)
        BY <1>1, <1>7, <2>4 DEF CountUserRules, Goto, End
      <4> QED
        BY <4>1 DEF Posting
    <3>2. P' \subseteq P
      BY <2>2, <3>1 DEF Posting
    <3> HIDE DEF O, P, Goal
    <3> QED
      BY <1>5, <2>1, <3>2
  <2> QED
    BY <2>3, <2>4
<1>8. ASSUME \A r \in Requests : ~InsertRule(r) /\ ~CountUserRules(r)
      PROVE  Goal
  <2>1. rules' = rules /\ imposed' = imposed
    BY <1>8, Effects
  <2>2. ASSUME NEW r \in P'
        PROVE  r \in P
    <3>1. /\ r \in Requests /\ req'[r].kind = "rule" /\ req'[r].user = u
          /\ pc'[r] \in {"update", "rule"}
      BY <2>2 DEF Posting
    <3>2. CASE pc'[r] = pc[r] /\ req'[r] = req[r]
      BY <3>1, <3>2 DEF Posting
    <3>3. CASE Serve(r)
      <4>1. Kept(r) /\ Advance(r)
        BY <3>1, <3>3, Moves DEF Ends
      <4>2. CASE pc[r] = "count"
        <5>1. Fail(r)
          BY <1>8, <3>1, <3>3, <4>2, Doing
        <5>2. pc'[r] = "idle"
          BY <1>1, <3>1, <5>1 DEF Fail, End, Goto
        <5> QED
          BY <3>1, <5>2
      <4>3. CASE pc[r] # "count"
        <5>1. pc[r] = "update" /\ req'[r].user = req[r].user
          BY <3>1, <4>1, <4>3 DEF Advance, NextStatement
        <5> QED
          BY <3>1, <4>1, <5>1 DEF Posting, Kept
      <4> QED
        BY <4>2, <4>3
    <3>4. ~Arrive(r)
      BY <3>1, Arrival DEF FirstStatement, OwnedKinds
    <3>5. (pc'[r] = pc[r] /\ req'[r] = req[r]) \/ Serve(r) \/ Arrive(r)
      <4>1. ASSUME NEW x \in Requests, x # r, Serve(x) \/ Arrive(x)
            PROVE  pc'[r] = pc[r] /\ req'[r] = req[r]
        BY <3>1, <4>1, Moves, Arrival
      <4> QED
        BY <3>1, <4>1, Effects
    <3> QED
      BY <3>2, <3>3, <3>4, <3>5
  <2>3. O' = O
    BY <2>1 DEF Own
  <2> HIDE DEF O, P, Goal
  <2> QED
    BY <1>5, <2>2, <2>3
<1> QED
  BY <1>6, <1>7, <1>8

-----------------------------------------------------------------------------
(* Counting the passwords a token has written: only a write adds one, only *)
(* the mark or a failure takes a request out of the count.                 *)
LEMMA ResettingStep ==
  ASSUME TypeOK, Shape, Resetting, [Next]_vars
  PROVE  Resetting'
<1> SUFFICES ASSUME NEW t \in Tokens
             PROVE  /\ token'[t].used => token'[t].user # None
                    /\ ~token'[t].used =>
                         resets'[t] = cuts'[t] + Cardinality(Stage(t, "mark")')
                    /\ Cardinality(Stage(t, "write")') + Cardinality(Stage(t, "mark")')
                         <= Slack(t \in shared')
                    /\ resets'[t] + Cardinality(Stage(t, "write")')
                         <= cuts'[t] + Slack(t \in shared')
  BY DEF Resetting, Slack
<1> DEFINE M == Stage(t, "mark")
           W == Stage(t, "write")
           S == Slack(t \in shared)
           Goal == /\ token'[t].used => token'[t].user # None
                   /\ ~token'[t].used => resets'[t] = cuts'[t] + Cardinality(M')
                   /\ Cardinality(W') + Cardinality(M') <= S'
                   /\ resets'[t] + Cardinality(W') <= cuts'[t] + S'
<1> SUFFICES Goal
  OBVIOUS
<1>1. /\ M \in SUBSET Requests /\ W \in SUBSET Requests
      /\ M' \in SUBSET Requests /\ W' \in SUBSET Requests
      /\ M \cap W = {} /\ M' \cap W' = {}
  BY DEF Stage
<1>2. /\ IsFiniteSet(M) /\ IsFiniteSet(W) /\ IsFiniteSet(M') /\ IsFiniteSet(W')
      /\ Cardinality(M) \in Nat /\ Cardinality(W) \in Nat
      /\ Cardinality(M') \in Nat /\ Cardinality(W') \in Nat
  <2> HIDE DEF M, W, S
  <2> QED
    BY <1>1, SomeRequests
<1>3. /\ token[t].used => token[t].user # None
      /\ ~token[t].used => resets[t] = cuts[t] + Cardinality(M)
      /\ Cardinality(W) + Cardinality(M) <= S
      /\ resets[t] + Cardinality(W) <= cuts[t] + S
  BY DEF Resetting
<1>4. /\ token \in [Tokens -> [user : Users \cup {None}, expires : Nat, used : BOOLEAN]]
      /\ pc \in [Requests -> Statements] /\ req \in [Requests -> Locals]
      /\ resets \in [Tokens -> Nat] /\ cuts \in [Tokens -> Nat]
      /\ Cardinality(Requests) \in Nat
  BY TypeParts, SomeRequests DEF TypeTables, TypeRequests, TypeHistory
<1>a. /\ S \in Nat /\ S' \in Nat
      /\ S <= S'
  <2>1. ASSUME NEW r \in Requests, FindToken(r)
        PROVE  shared \subseteq shared' /\ Requests # {}
    BY <2>1 DEF FindToken, LookUp
  <2>2. (shared' = shared) \/ (shared \subseteq shared' /\ Requests # {})
    BY <2>1, Effects
  <2>3. /\ (t \in shared) \in BOOLEAN /\ (t \in shared') \in BOOLEAN
        /\ (t \in shared) => (t \in shared')
        /\ (t \in shared') => (t \in shared) \/ Requests # {}
    BY <2>2
  <2> QED
    BY <2>3, SlackType
<1>5. ASSUME NEW r \in Requests, Serve(r)
      PROVE  /\ M' \ {r} = M \ {r} /\ W' \ {r} = W \ {r}
             /\ r \in M' \cup W' => Kept(r) /\ Advance(r)
  <2>1. /\ \A q \in Requests \ {r} : pc'[q] = pc[q] /\ req'[q] = req[q]
        /\ Ends(r) \/ (Kept(r) /\ Advance(r))
    BY <1>5, Moves
  <2>2. r \in M' \cup W' => Kept(r) /\ Advance(r)
    BY <2>1 DEF Ends, Stage
  <2> QED
    BY <2>1, <2>2 DEF Stage
<1>6. ASSUME NEW r \in Requests, Write(r)
      PROVE  Goal
  <2>1. /\ pc[r] = "write" /\ token' = token /\ cuts' = cuts /\ Serve(r)
        /\ resets' = IF req[r].kind = "confirm"
                     THEN [resets EXCEPT ![req[r].token] = @ + 1] ELSE resets
        /\ req[r].kind = "confirm" => pc'[r] = "mark" /\ req' = req
    BY <1>4, <1>6 DEF Write, Goto, Serve
  <2>2. r \notin M /\ r \notin W'
    <3>1. pc'[r] # "write"
      BY <1>4, <1>6, Moves DEF Write, Goto, End, Serve, Ends
    <3> QED
      BY <2>1, <3>1 DEF Stage
  <2>3. CASE r \in W
    <3>1. /\ req[r].kind = "confirm" /\ req[r].token = t
      BY <2>3 DEF Stage
    <3>2. resets'[t] = resets[t] + 1
      BY <1>4, <2>1, <3>1
    <3>3. r \in M'
      BY <2>1, <3>1 DEF Stage
    <3> HIDE DEF M, W, S
    <3>4. M' = M \cup {r} /\ W' = W \ {r}
      BY <1>5, <2>1, <2>2, <2>3, <3>3
    <3>5. Cardinality(M') = Cardinality(M) + 1 /\ Cardinality(W') = Cardinality(W) - 1
      BY <1>2, <2>2, <2>3, <3>4, FS_AddElement, FS_RemoveElement
    <3>6. /\ token'[t] = token[t] /\ cuts'[t] = cuts[t]
          /\ resets[t] \in Nat /\ cuts[t] \in Nat
      BY <1>4, <2>1
    <3> QED
      BY <1>2, <1>3, <1>a, <3>2, <3>5, <3>6
  <2>4. CASE r \notin W
    <3>1. ~(req[r].kind = "confirm" /\ req[r].token = t)
      BY <2>1, <2>4 DEF Stage
    <3>2. resets'[t] = resets[t]
      BY <1>4, <2>1, <3>1
    <3>3. r \notin M'
      <4>1. r \in M' => Kept(r)
        BY <1>5, <2>1
      <4> QED
        BY <3>1, <4>1 DEF Stage, Kept
    <3> HIDE DEF M, W, S
    <3>4. M' = M /\ W' = W
      BY <1>5, <2>1, <2>2, <2>4, <3>3
    <3> QED
      BY <1>2, <1>3, <1>4, <1>a, <2>1, <3>2, <3>4
  <2> QED
    BY <2>3, <2>4
<1>7. ASSUME NEW r \in Requests, Fail(r)
      PROVE  Goal
  <2>1. /\ token' = token /\ resets' = resets /\ Serve(r)
        /\ cuts' = IF pc[r] = "mark" THEN [cuts EXCEPT ![req[r].token] = @ + 1] ELSE cuts
    BY <1>7 DEF Fail, Serve, tableVars
  <2>2. r \notin M' /\ r \notin W'
    BY <1>4, <1>7 DEF Fail, End, Goto, Stage
  <2>3. CASE r \in M
    <3>1. pc[r] = "mark" /\ req[r].token = t
      BY <2>3 DEF Stage
    <3>2. cuts'[t] = cuts[t] + 1
      BY <1>4, <2>1, <3>1
    <3> HIDE DEF M, W, S
    <3>3. M' = M \ {r} /\ W' = W
      BY <1>1, <1>5, <2>1, <2>2, <2>3
    <3>4. Cardinality(M') = Cardinality(M) - 1
      BY <1>2, <2>3, <3>3, FS_RemoveElement
    <3>5. /\ token'[t] = token[t] /\ resets'[t] = resets[t]
          /\ resets[t] \in Nat /\ cuts[t] \in Nat
      BY <1>4, <2>1
    <3> QED
      BY <1>2, <1>3, <1>a, <3>2, <3>3, <3>4, <3>5
  <2>4. CASE r \notin M
    <3>1. pc[r] = "mark" => req[r].token # t
      BY <2>4 DEF Stage, Shape, Staged
    <3>2. cuts'[t] = cuts[t]
      BY <1>4, <2>1, <3>1
    <3> HIDE DEF M, W, S
    <3>3. M' = M /\ W' = W \ {r}
      BY <1>5, <2>1, <2>2, <2>4
    <3>4. Cardinality(W') <= Cardinality(W)
      BY <1>2, <3>3, FS_Subset
    <3> QED
      BY <1>2, <1>3, <1>4, <1>a, <2>1, <3>2, <3>3, <3>4
  <2> QED
    BY <2>3, <2>4
<1>8. ASSUME NEW r \in Requests, MarkUsed(r)
      PROVE  Goal
  <2>1. /\ pc[r] = "mark" /\ resets' = resets /\ cuts' = cuts /\ Serve(r)
        /\ token' = [token EXCEPT ![req[r].token].used = TRUE]
    BY <1>8 DEF MarkUsed, Serve
  <2>2. r \notin M' /\ r \notin W'
    BY <1>4, <1>8 DEF MarkUsed, End, Goto, Stage
  <2>3. req[r].token \in Tokens /\ token[req[r].token].user # None /\ req[r].kind = "confirm"
    BY <2>1 DEF Shape, Staged, Brought, WellFormed
  <2>4. /\ token'[t].user = token[t].user
        /\ IF r \in M THEN token'[t].used ELSE token'[t] = token[t]
        /\ r \in M => token[t].user # None
    BY <1>4, <2>1, <2>3 DEF Stage
  <2> HIDE DEF M, W, S
  <2>5. M' = M \ {r} /\ W' = W \ {r}
    BY <1>5, <2>1, <2>2
  <2>6. Cardinality(W') <= Cardinality(W)
    BY <1>2, <2>5, FS_Subset
  <2>7. (r \notin M => M' = M) /\ Cardinality(M') <= Cardinality(M)
    BY <1>2, <2>5, FS_Subset
  <2> QED
    BY <1>2, <1>3, <1>4, <1>a, <2>1, <2>4, <2>6, <2>7
<1>9. ASSUME \A r \in Requests : ~Write(r) /\ ~Fail(r) /\ ~MarkUsed(r)
      PROVE  Goal
  <2>1. resets' = resets /\ cuts' = cuts
    BY <1>9, Effects
  <2>2. /\ token'[t].used <=> token[t].used
        /\ token'[t].used => token'[t].user # None
    <3>1. ASSUME NEW r \in Requests, CreateToken(r)
          PROVE  /\ token'[t].used <=> token[t].used
                 /\ token'[t].used => token'[t].user # None
      <4>1. PICK x \in Tokens : token[x].user = None
                                /\ token' = [token EXCEPT ![x] = NewToken(req[r].user)]
        BY <3>1 DEF CreateToken
      <4>2. ~NewToken(req[r].user).used
        BY DEF NewToken
      <4> QED
        BY <1>3, <1>4, <4>1, <4>2
    <3> QED
      BY <1>3, <1>9, <3>1, Effects
  <2>3. ASSUME NEW r \in Requests
        PROVE  /\ r \in M' <=> r \in M
               /\ r \in W => r \in W'
               /\ r \in W' /\ r \notin W =>
                    /\ ~token[t].used /\ W' \ {r} = W \ {r}
                    /\ M \cup W # {} => t \in shared'
    <3>1. CASE Serve(r)
      <4>1. pc[r] \notin {"write", "mark"}
        BY <1>9, <3>1, Doing
      <4>2. r \notin M /\ r \notin W
        BY <4>1 DEF Stage
      <4>3. r \in M' \cup W' => Kept(r) /\ Advance(r) /\ req[r].kind = "confirm" /\ req[r].token = t
        BY <1>5, <3>1 DEF Stage, Kept
      <4>4. r \notin M'
        BY <4>1, <4>3 DEF Stage, Advance, NextStatement
      <4>5. r \in W' => pc[r] = "token" /\ LiveToken(req[r].token)
        BY <4>1, <4>3 DEF Stage, Advance, Shape, Staged, OwnedKinds
      <4>6. r \in W' /\ M \cup W # {} => t \in shared'
        <5>1. r \in W' => FindToken(r)
          BY <1>9, <3>1, <4>5, Doing
        <5>2. Confirming(t) = M \cup W
          BY DEF Confirming, Stage
        <5>3. r \in W' => req[r].token = t /\ LiveToken(req[r].token)
          BY <4>3, <4>5
        <5>4. FindToken(r) /\ req[r].token = t /\ LiveToken(req[r].token) /\ Confirming(t) # {}
                => t \in shared'
          BY DEF FindToken, LookUp
        <5> QED
          BY <5>1, <5>2, <5>3, <5>4
      <4>7. W' \ {r} = W \ {r}
        BY <1>5, <3>1
      <4> QED
        BY <4>2, <4>3, <4>4, <4>5, <4>6, <4>7 DEF LiveToken
    <3>2. CASE Arrive(r)
      BY <3>2, Arrival DEF Stage, FirstStatement, OwnedKinds
    <3>3. CASE ~Serve(r) /\ ~Arrive(r)
      <4>1. pc'[r] = pc[r] /\ req'[r] = req[r]
        <5>1. ASSUME NEW x \in Requests, x # r, Serve(x) \/ Arrive(x)
              PROVE  pc'[r] = pc[r] /\ req'[r] = req[r]
          BY <5>1, Moves, Arrival
        <5> QED
          BY <3>3, <5>1, Effects
      <4> QED
        BY <4>1 DEF Stage
    <3> QED
      BY <3>1, <3>2, <3>3
  <2>4. Cardinality(W') + Cardinality(M') <= Cardinality(Requests)
    <3> HIDE DEF M, W, S
    <3>1. /\ W' \cup M' \in SUBSET Requests
          /\ Cardinality(W' \cup M') = Cardinality(W') + Cardinality(M') - Cardinality(W' \cap M')
      BY <1>1, <1>2, FS_Union
    <3>2. W' \cap M' = {}
      BY <1>1
    <3>3. Cardinality(W' \cap M') = 0
      BY <3>2, FS_EmptySet
    <3> QED
      BY <1>2, <3>1, <3>3, SomeRequests
  <2>b. W' # W => /\ ~token[t].used
                  /\ t \in shared' \/ (M \cup W = {} /\ \E r \in Requests : W' = {r})
    <3> SUFFICES ASSUME W' # W
                 PROVE  /\ ~token[t].used
                        /\ t \in shared' \/ (M \cup W = {} /\ \E r \in Requests : W' = {r})
      OBVIOUS
    <3> HIDE DEF M, W, S
    <3>1. PICK r \in Requests : r \in W' /\ r \notin W
      BY <1>1, <2>3
    <3>2. /\ ~token[t].used /\ W' \ {r} = W \ {r}
          /\ M \cup W # {} => t \in shared'
      BY <2>3, <3>1
    <3>3. M \cup W = {} => W' = {r}
      BY <3>1, <3>2
    <3> QED
      BY <3>2, <3>3
  <2> HIDE DEF M, W, S
  <2>5. M' = M
    BY <1>1, <2>3
  <2>6. CASE W' = W
    BY <1>2, <1>3, <1>4, <1>a, <2>1, <2>2, <2>5, <2>6
  <2>7. CASE W' # W
    <3>1. ~token[t].used
      BY <2>b, <2>7
    <3>2. Cardinality(W') + Cardinality(M') <= S'
      <4>1. CASE t \in shared'
        BY <2>4, <4>1 DEF Slack, S
      <4>2. CASE t \notin shared'
        <5>1. M' = {} /\ \E r \in Requests : W' = {r}
          BY <2>b, <2>5, <2>7, <4>2
        <5>2. Cardinality(M') = 0 /\ Cardinality(W') = 1
          BY <5>1, FS_EmptySet, FS_Singleton
        <5> QED
          BY <4>2, <5>2 DEF Slack, S
      <4> QED
        BY <4>1, <4>2
    <3> QED
      BY <1>2, <1>3, <1>4, <1>a, <2>1, <2>2, <2>5, <3>1, <3>2
  <2> QED
    BY <2>6, <2>7
<1> QED
  BY <1>6, <1>7, <1>8, <1>9

-----------------------------------------------------------------------------
(* The invariant.                                                          *)
LEMMA Initially == Init => IInv
<1> SUFFICES ASSUME Init PROVE IInv
  OBVIOUS
<1> DEFINE new == [NewRow(First.email, First.password) EXCEPT !.chat = TRUE]
<1>1. /\ First.user \in Users /\ First.email \in Emails /\ First.password \in Passwords
      /\ First.session \in Sessions /\ First.token \in Tokens
      /\ SessionTTL \in Nat /\ ResetTTL \in Nat /\ MaxClock \in Nat /\ MaxCalls \in Nat
      /\ MaxRules \in Nat \ {0} /\ None \notin Users
  BY AccountsAssumption
<1>2. new \in Row /\ new.preferences = DefaultPreferences /\ new # None
  <2>1. NewRow(First.email, First.password) \in Row
        /\ NewRow(First.email, First.password).preferences = DefaultPreferences
    BY <1>1, NewRowType
  <2>2. PICK x : x = NewRow(First.email, First.password)
    OBVIOUS
  <2>3. x \in Row /\ x.preferences = DefaultPreferences /\ new = [x EXCEPT !.chat = TRUE]
    BY <2>1, <2>2
  <2> HIDE DEF new
  <2>4. new \in Row /\ new.preferences = DefaultPreferences
    BY <2>3 DEF Row
  <2> QED
    BY <2>4, RowAssumption
<1> HIDE DEF new
<1>3. /\ row = [u \in Users |-> IF u = First.user THEN new ELSE None]
      /\ pc = [r \in Requests |-> "idle"] /\ req = [r \in Requests |-> Idle]
      /\ session = [s \in Sessions |->
           [user |-> IF s = First.session THEN First.user ELSE None,
            expires |-> SessionTTL, revoked |-> FALSE]]
      /\ token = [t \in Tokens |->
           [user |-> IF t = First.token THEN First.user ELSE None,
            expires |-> ResetTTL, used |-> FALSE]]
      /\ rules = [u \in Users |-> {}] /\ clock = 0 /\ calls = 0
      /\ loggedOut = {} /\ spent = {}
      /\ resets = [t \in Tokens |-> 0] /\ cuts = [t \in Tokens |-> 0]
      /\ shared = {} /\ imposed = [u \in Users |-> {}] /\ crowded = {}
  BY DEF Init, new
<1>4. TypeTables
  BY <1>1, <1>2, <1>3 DEF TypeTables
<1>5. TypeRequests
  BY <1>3, IdleType DEF TypeRequests, Statements
<1>6. TypeHistory
  BY <1>1, <1>3 DEF TypeHistory
<1>7. Shape
  <2>1. Staged
    BY <1>3 DEF Staged
  <2>2. Brought
    BY <1>3, IdleType DEF Brought
  <2>3. Known
    BY <1>3 DEF Known
  <2>4. Owned
    BY <1>1, <1>2, <1>3 DEF Owned
  <2> QED
    BY <2>1, <2>2, <2>3, <2>4 DEF Shape
<1>8. OneAccount
  BY <1>3 DEF OneAccount
<1>9. Ended
  BY <1>3 DEF Ended
<1>10. Refusable
  BY <1>3, IdleType DEF Refusable
<1>11. Stored
  <2>1. ASSUME NEW u \in Users, row[u] # None
        PROVE  Sound(row[u].preferences)
    <3>1. row[u].preferences = DefaultPreferences
      BY <1>2, <1>3, <2>1
    <3> QED
      BY <3>1, DefaultsSound
  <2>2. ASSUME NEW r \in Requests
        PROVE  pc[r] # "write"
    BY <1>3
  <2> QED
    BY <2>1, <2>2 DEF Stored
<1>12. Room
  <2>1. ASSUME NEW u \in Users
        PROVE  /\ Cardinality(Posting(u)) <= Slack(u \in crowded)
               /\ Cardinality(Own(u)) + Cardinality(Posting(u)) < MaxRules + Slack(u \in crowded)
    <3>1. Own(u) = {} /\ Posting(u) = {} /\ u \notin crowded
      BY <1>3 DEF Own, Posting
    <3>2. Cardinality(Own(u)) = 0 /\ Cardinality(Posting(u)) = 0
      BY <3>1, FS_EmptySet
    <3> QED
      BY <1>1, <3>1, <3>2 DEF Slack
  <2> QED
    BY <2>1 DEF Room
<1>13. Resetting
  <2>1. ASSUME NEW t \in Tokens
        PROVE  /\ Stage(t, "mark") = {} /\ Stage(t, "write") = {}
               /\ resets[t] = 0 /\ cuts[t] = 0 /\ ~token[t].used /\ t \notin shared
    BY <1>3 DEF Stage
  <2>2. Cardinality({}) = 0
    BY FS_EmptySet
  <2>3. ASSUME NEW t \in Tokens
        PROVE  Slack(t \in shared) = 1
    BY <2>1 DEF Slack
  <2> QED
    BY <2>1, <2>2, <2>3 DEF Resetting
<1> QED
  BY <1>4, <1>5, <1>6, <1>7, <1>8, <1>9, <1>10, <1>11, <1>12, <1>13, TypeParts DEF IInv

(* Every part of the invariant is kept by every step.                      *)
LEMMA Inductive == IInv /\ [Next]_vars => IInv'
<1> SUFFICES ASSUME IInv, [Next]_vars PROVE IInv'
  OBVIOUS
<1>1. TypeOK' /\ Shape'
  BY TypeStep, ShapeStep DEF IInv
<1>2. OneAccount' /\ Ended' /\ Refusable'
  BY OneAccountStep, EndedStep, RefusableStep DEF IInv
<1>3. Stored' /\ Room' /\ Resetting'
  BY StoredStep, RoomStep, ResettingStep DEF IInv
<1> QED
  BY <1>1, <1>2, <1>3 DEF IInv

(* The rows, the requests under way and the histories fit together.        *)
THEOREM Invariance == Spec => []IInv
BY Initially, Inductive, PTL DEF Spec

(* Every variable has its type.                                            *)
THEOREM TypeCorrect == Spec => []TypeOK
<1>1. IInv => TypeOK
  BY DEF IInv
<1> QED
  BY <1>1, Invariance, PTL

(* No two accounts have one email, whatever registrations run at once      *)
(* (the unique index behind CreateWithPassword).                           *)
THEOREM OneAccountHolds == Spec => []OneAccount
<1>1. IInv => OneAccount
  BY DEF IInv
<1> QED
  BY <1>1, Invariance, PTL

(* A request that came too late gets no further than the statement that    *)
(* refuses it (CurrentUser, requireDashboardUser, Login, Register,         *)
(* ConfirmPasswordReset).                                                  *)
THEOREM RefusedWhenLateHolds == Spec => []RefusedWhenLate
<1>1. IInv => RefusedWhenLate
  BY DEF IInv, Refusable, RefusedWhenLate, Waiting
<1> QED
  BY <1>1, Invariance, PTL

(* The rules a customer makes pass the limit of the plan only where        *)
(* requests of that customer were counted together, and by less than the   *)
(* requests served at once (handleUserRulesPost, CanCreateRule).           *)
THEOREM RulesBoundedHolds == Spec => []RulesBounded
<1>1. IInv => RulesBounded
  BY DEF IInv, Room, Own, Slack, RulesBounded
<1> QED
  BY <1>1, Invariance, PTL

(* A reset token whose confirmations do not overlap writes one password,   *)
(* and one more for each that ended before its mark; overlapping ones      *)
(* write one each at most (ConfirmPasswordReset).                          *)
THEOREM ResetBoundedHolds == Spec => []ResetBounded
<1>1. IInv => ResetBounded
  <2> SUFFICES ASSUME IInv, NEW t \in Tokens
               PROVE  resets[t] <= cuts[t] + Slack(t \in shared)
    BY DEF ResetBounded, Slack
  <2>1. resets[t] + Cardinality(Stage(t, "write")) <= cuts[t] + Slack(t \in shared)
    BY DEF IInv, Resetting
  <2>2. Stage(t, "write") \in SUBSET Requests
    BY DEF Stage
  <2>3. /\ Cardinality(Stage(t, "write")) \in Nat /\ Cardinality(Requests) \in Nat
        /\ Slack(t \in shared) \in Nat
    BY <2>2, SomeRequests DEF Slack
  <2>4. resets[t] \in Nat /\ cuts[t] \in Nat
    BY TypeParts DEF IInv, TypeHistory
  <2> QED
    BY <2>1, <2>3, <2>4
<1> QED
  BY <1>1, Invariance, PTL

(* What the API stores the pipeline reads as the user meant it, for every  *)
(* start, end and time zone (validateTelegramNotificationPreferences,      *)
(* userQuietHoursActive).                                                  *)
THEOREM QuietAsAskedHolds == Spec => []QuietAsAsked
<1>1. IInv => QuietAsAsked
  BY InForceQuiet DEF IInv
<1> QED
  BY <1>1, Invariance, PTL
=============================================================================
