---------------------------- MODULE AccessProofs ----------------------------
(***************************************************************************)
(* Theorems about Access, for any accounts, commands, requests, session    *)
(* lifetime and length of the clock; and about RateLimiter, for any keys,  *)
(* limits, windows, processes, requests and bounds.                        *)
(***************************************************************************)
EXTENDS Access, RateLimiter, FiniteSetTheorems, TLAPS

VisitRow ==
  [pc : {"idle", "login", "verified", "inserted", "guard", "admitted", "revoked"},
   kind : {"none", "login", "request", "logout"}, email : Emails \cup {NOBODY},
   snapshot : Creators \cup {NOBODY}, token : Visits \cup {NOBODY}]

\* What a visit stands on, when it is about to take its next step.
Standing(row, v) ==
  /\ row.pc \in {"login", "verified"} => v \notin DOMAIN sessions
  /\ row.pc = "verified" => row.snapshot \in DOMAIN principals
  /\ row.pc = "inserted" => v \in DOMAIN sessions
  /\ row.pc \in {"guard", "admitted", "revoked"} => row.token \in DOMAIN sessions
  /\ row.pc = "revoked" => sessions[row.token].revoked

AccountsHold ==
  /\ DOMAIN principals \subseteq Creators
  /\ \A c \in DOMAIN principals : /\ principals[c] \in PrincipalRow
                                  /\ principals[c].email = EmailOf[c]
  /\ OneAccountPerEmail
  /\ creator \in [Creators -> {"new", "insert", "created", "refused"}]
  /\ \A c \in Creators : creator[c] = "insert" => BusinessOf[c] \in Existing

SessionsHold ==
  /\ DOMAIN sessions \subseteq Visits
  /\ \A s \in DOMAIN sessions :
       /\ sessions[s] \in SessionRow /\ sessions[s].principal \in DOMAIN principals
       /\ sessions[s].expiresAt = sessions[s].createdAt + TTL

EndsHold ==
  /\ cookies \subseteq DOMAIN sessions /\ ended \subseteq DOMAIN sessions
  /\ \A s \in ended : sessions[s].revoked

IInv ==
  /\ hour \in Nat
  /\ AccountsHold /\ SessionsHold /\ EndsHold
  /\ visit \in [Visits -> VisitRow] /\ \A v \in Visits : Standing(visit[v], v)

LEMMA InitInv == AccessInit => IInv
<1> SUFFICES ASSUME AccessInit PROVE IInv
  OBVIOUS
<1>1. DOMAIN principals = {} /\ DOMAIN sessions = {}
  BY DEF AccessInit
<1>2. AccountsHold
  BY <1>1 DEF AccessInit, AccountsHold, OneAccountPerEmail
<1>3. Idle \in VisitRow /\ Idle.pc = "idle"
  BY DEF Idle, VisitRow
<1>4. visit \in [Visits -> VisitRow] /\ \A v \in Visits : Standing(visit[v], v)
  BY <1>3 DEF AccessInit, Standing
<1> QED BY <1>1, <1>2, <1>4 DEF AccessInit, IInv, SessionsHold, EndsHold

-----------------------------------------------------------------------------
(* Visits.                                                                 *)

\* A visit moves, the tables stay.
LEMMA VisitMoves ==
  ASSUME IInv, NEW v \in Visits, NEW row \in VisitRow, visit' = [visit EXCEPT ![v] = row],
         UNCHANGED <<hour, principals, creator, sessions>>,
         Standing(row, v), EndsHold'
  PROVE  IInv'
<1>1. AccountsHold' /\ SessionsHold'
  BY DEF IInv, AccountsHold, SessionsHold, OneAccountPerEmail
<1>2. visit' \in [Visits -> VisitRow]
  BY DEF IInv
<1>3. ASSUME NEW w \in Visits
      PROVE  Standing(visit[w], w)'
  <2>1. CASE w = v
    <3>1. visit'[w] = row
      BY <2>1 DEF IInv
    <3> QED BY <2>1, <3>1 DEF Standing
  <2>2. CASE w # v
    <3>1. visit'[w] = visit[w]
      BY <2>2 DEF IInv
    <3> QED BY <3>1 DEF IInv, Standing
  <2> QED BY <2>1, <2>2
<1> QED BY <1>1, <1>2, <1>3 DEF IInv

LEMMA GotoRow ==
  ASSUME NEW row \in VisitRow,
         NEW pc \in {"idle", "login", "verified", "inserted", "guard", "admitted", "revoked"}
  PROVE  /\ [row EXCEPT !.pc = pc] \in VisitRow
         /\ [row EXCEPT !.pc = pc].pc = pc
         /\ [row EXCEPT !.pc = pc].token = row.token
         /\ [row EXCEPT !.pc = pc].snapshot = row.snapshot
  BY DEF VisitRow

LEMMA VisitIn == ASSUME IInv, NEW v \in Visits PROVE visit[v] \in VisitRow /\ Standing(visit[v], v)
  BY DEF IInv

LEMMA Goes ==
  ASSUME IInv, NEW v \in Visits,
         NEW pc \in {"idle", "login", "verified", "inserted", "guard", "admitted", "revoked"},
         Goto(v, pc), UNCHANGED <<hour, principals, creator, sessions>>, EndsHold',
         Standing([visit[v] EXCEPT !.pc = pc], v)
  PROVE  IInv'
<1>1. PICK row : row = [visit[v] EXCEPT !.pc = pc]
  OBVIOUS
<1>2. row \in VisitRow
  BY <1>1, VisitIn, GotoRow
<1>3. visit' = [visit EXCEPT ![v] = row]
  BY <1>1 DEF Goto
<1> QED BY <1>1, <1>2, <1>3, VisitMoves

LEMMA Leaves ==
  ASSUME IInv, NEW v \in Visits, Done(v), UNCHANGED <<hour, principals, creator, sessions>>,
         EndsHold'
  PROVE  IInv'
<1>1. Idle \in VisitRow /\ Idle.pc = "idle"
  BY DEF Idle, VisitRow
<1>2. Standing(Idle, v)
  BY <1>1 DEF Standing
<1> QED BY <1>1, <1>2, VisitMoves DEF Done

LEMMA EndsKept ==
  ASSUME IInv, UNCHANGED <<sessions, ended, cookies>> PROVE EndsHold'
  BY DEF IInv, EndsHold

LEMMA StartLoginInv ==
  ASSUME IInv, NEW v \in Visits, NEW email \in Emails, StartLogin(v, email) PROVE IInv'
<1> DEFINE row == [Idle EXCEPT !.pc = "login", !.kind = "login", !.email = email]
<1>1. row \in VisitRow /\ row.pc = "login"
  BY DEF Idle, VisitRow
<1>2. /\ v \notin DOMAIN sessions /\ visit' = [visit EXCEPT ![v] = row]
      /\ UNCHANGED <<hour, principals, creator, sessions, ended, cookies>>
  BY DEF StartLogin
<1>3. Standing(row, v)
  BY <1>1, <1>2 DEF Standing
<1> HIDE DEF row
<1> QED BY <1>1, <1>2, <1>3, EndsKept, VisitMoves

LEMMA ReadPrincipalInv == ASSUME IInv, NEW v \in Visits, ReadPrincipal(v) PROVE IInv'
<1>1. PICK d \in DOMAIN principals :
        visit' = [visit EXCEPT ![v] = [visit[v] EXCEPT !.pc = "verified", !.snapshot = d]]
  BY DEF ReadPrincipal
<1>2. On(v, "login") /\ UNCHANGED <<hour, principals, creator, sessions, ended, cookies>>
  BY DEF ReadPrincipal
<1> DEFINE row == [visit[v] EXCEPT !.pc = "verified", !.snapshot = d]
<1>3. row \in VisitRow /\ row.pc = "verified" /\ row.snapshot = d
  <2>1. d \in Creators /\ visit[v] \in VisitRow
    BY VisitIn DEF IInv, AccountsHold
  <2> QED BY <2>1 DEF VisitRow
<1>4. v \notin DOMAIN sessions
  BY <1>2, VisitIn DEF On, Standing
<1>5. Standing(row, v)
  BY <1>3, <1>4 DEF Standing
<1>6. visit' = [visit EXCEPT ![v] = row]
  BY <1>1
<1> HIDE DEF row
<1> QED BY <1>2, <1>3, <1>5, <1>6, EndsKept, VisitMoves

LEMMA AnswerLoginInv == ASSUME IInv, NEW v \in Visits, AnswerLogin(v) PROVE IInv'
<1>1. On(v, "inserted") /\ Done(v) /\ cookies' = cookies \cup {v}
      /\ UNCHANGED <<hour, principals, creator, sessions, ended>>
  BY DEF AnswerLogin
<1>2. EndsHold'
  BY <1>1, VisitIn DEF On, Standing, IInv, EndsHold
<1> QED BY <1>1, <1>2, Leaves

LEMMA StartRequestInv ==
  ASSUME IInv, NEW v \in Visits, NEW s \in cookies, NEW kind \in {"request", "logout"},
         StartRequest(v, s, kind)
  PROVE  IInv'
<1> DEFINE row == [Idle EXCEPT !.pc = "guard", !.kind = kind, !.token = s]
<1>1. s \in DOMAIN sessions /\ s \in Visits
  BY DEF IInv, EndsHold, SessionsHold
<1>2. row \in VisitRow /\ row.pc = "guard" /\ row.token = s
  BY <1>1 DEF Idle, VisitRow
<1>3. /\ visit' = [visit EXCEPT ![v] = row]
      /\ UNCHANGED <<hour, principals, creator, sessions, ended, cookies>>
  BY DEF StartRequest
<1>4. Standing(row, v)
  BY <1>1, <1>2 DEF Standing
<1> HIDE DEF row
<1> QED BY <1>2, <1>3, <1>4, EndsKept, VisitMoves

LEMMA GuardInv == ASSUME IInv, NEW v \in Visits, Guard(v) PROVE IInv'
<1>1. On(v, "guard") /\ Goto(v, "admitted")
      /\ UNCHANGED <<hour, principals, creator, sessions, ended, cookies>>
  BY DEF Guard
<1>2. Standing([visit[v] EXCEPT !.pc = "admitted"], v)
  BY <1>1, VisitIn, GotoRow DEF On, Standing
<1> QED BY <1>1, <1>2, EndsKept, Goes

LEMMA AnswerLogoutInv == ASSUME IInv, NEW v \in Visits, AnswerLogout(v) PROVE IInv'
<1>1. On(v, "revoked") /\ Done(v) /\ ended' = ended \cup {visit[v].token}
      /\ UNCHANGED <<hour, principals, creator, sessions, cookies>>
  BY DEF AnswerLogout
<1>2. EndsHold'
  BY <1>1, VisitIn DEF On, Standing, IInv, EndsHold
<1> QED BY <1>1, <1>2, Leaves

LEMMA DoneInv == ASSUME IInv, NEW v \in Visits, Work(v) \/ Refuse(v) PROVE IInv'
<1>1. Done(v) /\ UNCHANGED <<hour, principals, creator, sessions, ended, cookies>>
  BY DEF Work, Refuse
<1> QED BY <1>1, EndsKept, Leaves

-----------------------------------------------------------------------------
(* Tables.                                                                 *)

LEMMA InsertSessionInv == ASSUME IInv, NEW v \in Visits, InsertSession(v) PROVE IInv'
<1>1. PICK row : row = [principal |-> visit[v].snapshot, createdAt |-> hour,
                        expiresAt |-> hour + TTL, revoked |-> FALSE]
  OBVIOUS
<1>2. /\ On(v, "verified") /\ Goto(v, "inserted") /\ sessions' = Plus(sessions, v, row)
      /\ UNCHANGED <<hour, principals, creator, ended, cookies>>
  BY <1>1 DEF InsertSession
<1>3. /\ v \notin DOMAIN sessions /\ visit[v].snapshot \in DOMAIN principals
      /\ visit[v] \in VisitRow
  BY <1>2, VisitIn DEF On, Standing
<1>4. /\ DOMAIN sessions' = DOMAIN sessions \cup {v} /\ sessions'[v] = row
      /\ \A s \in DOMAIN sessions : sessions'[s] = sessions[s]
  BY <1>2, <1>3 DEF Plus
<1>5. row \in SessionRow /\ row.principal \in DOMAIN principals /\ row.expiresAt = row.createdAt + TTL
  BY <1>1, <1>3, AccountAssumption DEF SessionRow, IInv, AccountsHold
<1>6. SessionsHold'
  BY <1>2, <1>4, <1>5 DEF IInv, SessionsHold
<1>7. AccountsHold' /\ EndsHold'
  BY <1>2, <1>4 DEF IInv, AccountsHold, OneAccountPerEmail, EndsHold
<1>8. PICK new : new = [visit[v] EXCEPT !.pc = "inserted"]
  OBVIOUS
<1>9. new \in VisitRow /\ new.pc = "inserted"
  BY <1>3, <1>8, GotoRow
<1>10. visit' = [visit EXCEPT ![v] = new]
  BY <1>2, <1>8 DEF Goto
<1>11. visit' \in [Visits -> VisitRow]
  BY <1>9, <1>10 DEF IInv
<1>12. ASSUME NEW w \in Visits
       PROVE  Standing(visit[w], w)'
  <2>1. CASE w = v
    <3>1. visit'[w] = new
      BY <1>10, <2>1 DEF IInv
    <3> QED BY <1>4, <1>9, <2>1, <3>1 DEF Standing
  <2>2. CASE w # v
    <3>1. visit'[w] = visit[w]
      BY <1>10, <2>2 DEF IInv
    <3> QED BY <1>2, <1>4, <2>2, <3>1, VisitIn DEF Standing
  <2> QED BY <2>1, <2>2
<1> QED BY <1>2, <1>6, <1>7, <1>11, <1>12 DEF IInv

LEMMA RevokeInv == ASSUME IInv, NEW v \in Visits, Revoke(v) PROVE IInv'
<1>1. PICK t : t = visit[v].token
  OBVIOUS
<1>2. /\ On(v, "admitted") /\ Goto(v, "revoked")
      /\ sessions' = [sessions EXCEPT ![t].revoked = TRUE]
      /\ UNCHANGED <<hour, principals, creator, ended, cookies>>
  BY <1>1 DEF Revoke
<1>3. t \in DOMAIN sessions /\ visit[v] \in VisitRow
  BY <1>1, <1>2, VisitIn DEF On, Standing
<1>4. PICK row : row = [sessions[t] EXCEPT !.revoked = TRUE]
  OBVIOUS
<1>5. /\ DOMAIN sessions' = DOMAIN sessions /\ sessions'[t] = row
      /\ \A s \in DOMAIN sessions : s # t => sessions'[s] = sessions[s]
  BY <1>2, <1>3, <1>4
<1>6. /\ row \in SessionRow /\ row.revoked /\ row.principal \in DOMAIN principals
      /\ row.expiresAt = row.createdAt + TTL
  <2>1. /\ sessions[t] \in SessionRow /\ sessions[t].principal \in DOMAIN principals
        /\ sessions[t].expiresAt = sessions[t].createdAt + TTL
    BY <1>3 DEF IInv, SessionsHold
  <2> QED BY <1>4, <2>1 DEF SessionRow
<1>7. SessionsHold'
  BY <1>2, <1>5, <1>6 DEF IInv, SessionsHold
<1>8. AccountsHold' /\ EndsHold'
  BY <1>2, <1>5, <1>6 DEF IInv, AccountsHold, OneAccountPerEmail, EndsHold
<1>9. PICK new : new = [visit[v] EXCEPT !.pc = "revoked"]
  OBVIOUS
<1>10. new \in VisitRow /\ new.pc = "revoked" /\ new.token = t
  BY <1>1, <1>3, <1>9, GotoRow
<1>11. visit' = [visit EXCEPT ![v] = new]
  BY <1>2, <1>9 DEF Goto
<1>12. visit' \in [Visits -> VisitRow]
  BY <1>10, <1>11 DEF IInv
<1>13. ASSUME NEW w \in Visits
       PROVE  Standing(visit[w], w)'
  <2>1. CASE w = v
    <3>1. visit'[w] = new
      BY <1>11, <2>1 DEF IInv
    <3> QED BY <1>3, <1>5, <1>6, <1>10, <2>1, <3>1 DEF Standing
  <2>2. CASE w # v
    <3>1. visit'[w] = visit[w]
      BY <1>11, <2>2 DEF IInv
    <3> QED BY <1>2, <1>5, <1>6, <2>2, <3>1, VisitIn DEF Standing
  <2> QED BY <2>1, <2>2
<1> QED BY <1>2, <1>7, <1>8, <1>12, <1>13 DEF IInv

\* The accounts change, and none goes.
LEMMA AccountsChange ==
  ASSUME IInv, AccountsHold', DOMAIN principals \subseteq DOMAIN principals', hour' \in Nat,
         UNCHANGED <<sessions, visit, ended, cookies>>
  PROVE  IInv'
<1>1. SessionsHold' /\ EndsHold'
  BY DEF IInv, SessionsHold, EndsHold
<1>2. \A v \in Visits : Standing(visit[v], v)'
  BY DEF IInv, Standing
<1> QED BY <1>1, <1>2 DEF IInv

LEMMA LookInv == ASSUME IInv, NEW c \in Creators, LookBeforeCreating(c) PROVE IInv'
<1>1. /\ creator' = [creator EXCEPT ![c] =
           IF BusinessOf[c] \in Existing /\ \A d \in DOMAIN principals : principals[d].email # EmailOf[c]
           THEN "insert" ELSE "refused"]
      /\ UNCHANGED <<hour, principals, sessions, visit, ended, cookies>>
  BY DEF LookBeforeCreating
<1>2. AccountsHold'
  BY <1>1 DEF IInv, AccountsHold, OneAccountPerEmail
<1> QED BY <1>1, <1>2, AccountsChange DEF IInv

LEMMA CreateInv == ASSUME IInv, NEW c \in Creators, CreatePrincipal(c) PROVE IInv'
<1>1. creator[c] = "insert" /\ BusinessOf[c] \in Existing
  BY DEF CreatePrincipal, IInv, AccountsHold
<1>2. CASE EmailTaken(c)
  <2>1. /\ creator' = [creator EXCEPT ![c] = "refused"]
        /\ UNCHANGED <<hour, principals, sessions, visit, ended, cookies>>
    BY <1>2 DEF CreatePrincipal
  <2>2. AccountsHold'
    BY <2>1 DEF IInv, AccountsHold, OneAccountPerEmail
  <2> QED BY <2>1, <2>2, AccountsChange DEF IInv
<1>3. CASE ~EmailTaken(c)
  <2>1. PICK row : row = [email |-> EmailOf[c], business |-> BusinessOf[c], status |-> "ACTIVE"]
    OBVIOUS
  <2>2. /\ creator' = [creator EXCEPT ![c] = "created"] /\ principals' = Plus(principals, c, row)
        /\ UNCHANGED <<hour, sessions, visit, ended, cookies>>
    BY <1>3, <2>1 DEF CreatePrincipal
  <2>3. row \in PrincipalRow /\ row.email = EmailOf[c] /\ row.business = BusinessOf[c]
    BY <2>1, AccountAssumption DEF PrincipalRow
  <2>4. c \notin DOMAIN principals
    BY <1>3 DEF IInv, AccountsHold, EmailTaken
  <2>5. /\ DOMAIN principals' = DOMAIN principals \cup {c} /\ principals'[c] = row
        /\ \A d \in DOMAIN principals : principals'[d] = principals[d]
    BY <2>2, <2>4 DEF Plus
  <2>6. OneAccountPerEmail'
    BY <1>1, <1>3, <2>3, <2>5 DEF IInv, AccountsHold, OneAccountPerEmail, EmailTaken
  <2>7. creator' \in [Creators -> {"new", "insert", "created", "refused"}]
    BY <2>2 DEF IInv, AccountsHold
  <2>8. \A d \in Creators : creator'[d] = "insert" => creator[d] = "insert"
    BY <2>2 DEF IInv, AccountsHold
  <2>9. AccountsHold'
    BY <2>3, <2>5, <2>6, <2>7, <2>8 DEF IInv, AccountsHold
  <2> QED BY <2>2, <2>5, <2>9, AccountsChange DEF IInv
<1> QED BY <1>2, <1>3

LEMMA SetStatusInv ==
  ASSUME IInv, NEW c \in Creators, NEW status \in {"ACTIVE", "DISABLED"}, SetStatus(c, status)
  PROVE  IInv'
<1>1. /\ c \in DOMAIN principals /\ principals' = [principals EXCEPT ![c].status = status]
      /\ UNCHANGED <<hour, creator, sessions, visit, ended, cookies>>
  BY DEF SetStatus
<1>2. PICK row : row = [principals[c] EXCEPT !.status = status]
  OBVIOUS
<1>3. /\ row \in PrincipalRow /\ row.email = principals[c].email
      /\ row.business = principals[c].business
  <2>1. principals[c] \in PrincipalRow
    BY <1>1 DEF IInv, AccountsHold
  <2> QED BY <1>2, <2>1 DEF PrincipalRow
<1>4. /\ DOMAIN principals' = DOMAIN principals /\ principals'[c] = row
      /\ \A d \in DOMAIN principals : d # c => principals'[d] = principals[d]
  BY <1>1, <1>2
<1>5. \A d \in DOMAIN principals : /\ principals'[d].email = principals[d].email
                                   /\ principals'[d].business = principals[d].business
  BY <1>3, <1>4
<1>6. OneAccountPerEmail'
  BY <1>4, <1>5 DEF IInv, AccountsHold, OneAccountPerEmail
<1>7. AccountsHold'
  BY <1>1, <1>3, <1>4, <1>5, <1>6 DEF IInv, AccountsHold
<1> QED BY <1>1, <1>4, <1>7, AccountsChange DEF IInv

LEMMA HourInv == ASSUME IInv, HourPasses PROVE IInv'
<1>1. hour' \in Nat /\ UNCHANGED <<principals, creator, sessions, visit, ended, cookies>>
  BY DEF IInv, HourPasses
<1>2. AccountsHold'
  BY <1>1 DEF IInv, AccountsHold, OneAccountPerEmail
<1> QED BY <1>1, <1>2, AccountsChange

LEMMA NextInv == IInv /\ [AccessNext]_accessVars => IInv'
<1> SUFFICES ASSUME IInv, [AccessNext]_accessVars PROVE IInv'
  OBVIOUS
<1>1. CASE \E c \in Creators : \/ LookBeforeCreating(c) \/ CreatePrincipal(c)
                               \/ \E status \in {"ACTIVE", "DISABLED"} : SetStatus(c, status)
  BY <1>1, LookInv, CreateInv, SetStatusInv
<1>2. ASSUME NEW v \in Visits,
             \/ ReadPrincipal(v) \/ InsertSession(v) \/ AnswerLogin(v)
             \/ Guard(v) \/ Work(v) \/ Revoke(v) \/ AnswerLogout(v) \/ Refuse(v)
             \/ \E email \in Emails : StartLogin(v, email)
             \/ \E s \in cookies, kind \in {"request", "logout"} : StartRequest(v, s, kind)
      PROVE  IInv'
  BY <1>2, ReadPrincipalInv, InsertSessionInv, AnswerLoginInv, GuardInv, RevokeInv,
     AnswerLogoutInv, DoneInv, StartLoginInv, StartRequestInv
<1>3. CASE HourPasses
  BY <1>3, HourInv
<1>4. CASE UNCHANGED accessVars
  <2>1. AccountsHold' /\ hour' \in Nat /\ UNCHANGED <<principals, sessions, visit, ended, cookies>>
    BY <1>4 DEF IInv, AccountsHold, OneAccountPerEmail, accessVars
  <2> QED BY <2>1, AccountsChange
<1> QED BY <1>1, <1>2, <1>3, <1>4 DEF AccessNext

-----------------------------------------------------------------------------
(* Theorems.                                                               *)

\* Accounts, sessions and visits are of their tables, and a session is one of an
\* account on record (auth_principals, auth_sessions).
THEOREM AccessTypesTheorem == AccessSpec => []AccessTypes
<1>1. IInv => AccessTypes
  BY DEF IInv, AccountsHold, SessionsHold, EndsHold, AccessTypes, Standing
<1> QED BY <1>1, InitInv, NextInv, PTL DEF AccessSpec

\* However many commands race for an email, it has one account, of a business that
\* exists, for good (create-auth-principal.cli, UQ_auth_principals_email_normalized).
THEOREM OneAccountTheorem == AccessSpec => []OneAccountPerEmail
<1>1. IInv => OneAccountPerEmail
  BY DEF IInv, AccountsHold
<1> QED BY <1>1, InitInv, NextInv, PTL DEF AccessSpec

Entry(v) ==
  ~On(v, "admitted") /\ visit'[v].pc = "admitted" =>
    LET s == visit[v].token IN
    /\ s \notin ended /\ hour < sessions[s].createdAt + TTL
    /\ principals[sessions[s].principal].status = "ACTIVE"

\* A guard lets a visit in only with a session in force.
LEMMA GuardEntry == ASSUME IInv, NEW v \in Visits, Guard(v) PROVE Entry(v)
<1>1. On(v, "guard") /\ SessionValid(visit[v].token)
  BY DEF Guard
<1>2. visit[v].token \in DOMAIN sessions
  BY <1>1, VisitIn DEF On, Standing
<1>3. /\ sessions[visit[v].token].expiresAt = sessions[visit[v].token].createdAt + TTL
      /\ visit[v].token \in ended => sessions[visit[v].token].revoked
  BY <1>2 DEF IInv, SessionsHold, EndsHold
<1>4. hour \in Nat /\ sessions[visit[v].token].expiresAt \in Nat
  BY <1>2 DEF IInv, SessionsHold, SessionRow
<1> QED BY <1>1, <1>3, <1>4 DEF SessionValid, Entry

LEMMA NextEntry ==
  IInv /\ [AccessNext]_accessVars => \A v \in Visits : Entry(v)
<1> SUFFICES ASSUME IInv, [AccessNext]_accessVars, NEW v \in Visits,
                    visit[v].pc # "admitted", visit'[v].pc = "admitted"
             PROVE  Entry(v)
  BY DEF Entry, On
<1>1. DOMAIN visit = Visits /\ \A w \in Visits : visit[w] \in VisitRow
  BY DEF IInv
<1>2. Guard(v)
  <2>1. ASSUME NEW w \in Visits, Done(w) PROVE FALSE
    BY <1>1, <2>1 DEF Done, Idle
  <2>2. ASSUME NEW w \in Visits, NEW pc \in {"inserted", "revoked"}, Goto(w, pc) PROVE FALSE
    BY <1>1, <2>2 DEF Goto, VisitRow
  <2>3. ASSUME NEW w \in Visits, Goto(w, "admitted") PROVE w = v
    BY <1>1, <2>3 DEF Goto
  <2>4. ASSUME NEW w \in Visits, ReadPrincipal(w) PROVE FALSE
    BY <1>1, <2>4 DEF ReadPrincipal, VisitRow
  <2>5. ASSUME NEW w \in Visits, NEW email \in Emails, StartLogin(w, email) PROVE FALSE
    BY <1>1, <2>5 DEF StartLogin, Idle
  <2>6. ASSUME NEW w \in Visits, NEW s, NEW kind, StartRequest(w, s, kind) PROVE FALSE
    BY <1>1, <2>6 DEF StartRequest, Idle
  <2>7. visit' # visit
    OBVIOUS
  <2>8. ~HourPasses /\ ~UNCHANGED accessVars
    BY <2>7 DEF HourPasses, accessVars
  <2>9. \A c \in Creators : /\ ~LookBeforeCreating(c) /\ ~CreatePrincipal(c)
                            /\ \A status : ~SetStatus(c, status)
    BY <2>7 DEF LookBeforeCreating, CreatePrincipal, SetStatus
  <2>10. PICK w \in Visits :
           \/ ReadPrincipal(w) \/ InsertSession(w) \/ AnswerLogin(w)
           \/ Guard(w) \/ Work(w) \/ Revoke(w) \/ AnswerLogout(w) \/ Refuse(w)
           \/ \E email \in Emails : StartLogin(w, email)
           \/ \E s \in cookies, kind \in {"request", "logout"} : StartRequest(w, s, kind)
    BY <2>8, <2>9 DEF AccessNext
  <2>11. Guard(w)
    BY <2>1, <2>2, <2>4, <2>5, <2>6, <2>10
    DEF InsertSession, AnswerLogin, Work, Revoke, AnswerLogout, Refuse
  <2> QED BY <2>3, <2>11 DEF Guard
<1> QED BY <1>2, GuardEntry

\* No request enters with a session whose logout was answered, that is past its time
\* or whose account is disabled (AuthGuard, authenticateToken).
THEOREM EntryTheorem == AccessSpec => NoEntryAfterEnd
<1>1. IInv /\ [AccessNext]_accessVars => [\A v \in Visits : Entry(v)]_accessVars
  BY NextEntry
<1>2. (\A v \in Visits : Entry(v)) <=>
        \A v \in Visits :
          ~On(v, "admitted") /\ visit'[v].pc = "admitted" =>
            LET s == visit[v].token IN
            /\ s \notin ended /\ hour < sessions[s].createdAt + TTL
            /\ principals[sessions[s].principal].status = "ACTIVE"
  BY DEF Entry
<1> QED BY <1>1, <1>2, InitInv, NextInv, PTL DEF AccessSpec, NoEntryAfterEnd

-----------------------------------------------------------------------------
(* The rate limiter.                                                       *)

CallRow == [pc : {"idle", "limit", "clean", "through", "refused"}, keys : Seq(Keys), count : Nat]

\* What is accounted for depends on the running window of the key only.
LEMMA SameWindow ==
  ASSUME NEW old, NEW table, NEW k, NEW log, Accounted(old, k, log),
         (k \in DOMAIN table /\ table[k].expires > now) <=> (k \in DOMAIN old /\ old[k].expires > now),
         k \in DOMAIN table /\ table[k].expires > now => table[k] = old[k]
  PROVE  Accounted(table, k, log)
  BY DEF Accounted

LEMMA LiveTable ==
  ASSUME NEW table
  PROVE  /\ DOMAIN Live(table) = {j \in DOMAIN table : table[j].expires > now}
         /\ \A j \in DOMAIN Live(table) : Live(table)[j] = table[j]
         /\ \A k, log : Accounted(table, k, log) => Accounted(Live(table), k, log)
<1>1. /\ DOMAIN Live(table) = {j \in DOMAIN table : table[j].expires > now}
      /\ \A j \in DOMAIN Live(table) : Live(table)[j] = table[j]
  BY DEF Live
<1>2. ASSUME NEW k, NEW log, Accounted(table, k, log)
      PROVE  Accounted(Live(table), k, log)
  BY <1>1, <1>2, SameWindow
<1> QED BY <1>1, <1>2

LEMMA WithTable ==
  ASSUME NEW table, NEW k, NEW row
  PROVE  /\ DOMAIN With(table, k, row) = DOMAIN table \cup {k}
         /\ With(table, k, row)[k] = row
         /\ \A j \in DOMAIN table \ {k} : With(table, k, row)[j] = table[j]
  BY DEF With

LEMMA CountedRow ==
  ASSUME NEW k \in Keys, NEW table, now \in Nat, k \in DOMAIN table => table[k] \in RateRow
  PROVE  /\ Counted(table, k) \in RateRow
         /\ k \in DOMAIN table /\ table[k].expires > now =>
              /\ Counted(table, k).count = table[k].count + 1
              /\ Counted(table, k).expires = table[k].expires
         /\ ~(k \in DOMAIN table /\ table[k].expires > now) =>
              /\ Counted(table, k).count = 1
              /\ Counted(table, k).expires = now + Window[k]
<1>1. Window[k] \in Nat \ {0}
  BY LimiterAssumption
<1>2. CASE k \in DOMAIN table /\ table[k].expires > now
  BY <1>2 DEF Counted, RateRow
<1>3. CASE ~(k \in DOMAIN table /\ table[k].expires > now)
  BY <1>1, <1>3 DEF Counted, RateRow
<1> QED BY <1>2, <1>3

\* A request is counted, and admitted or not.
LEMMA CountedAccounts ==
  ASSUME NEW k \in Keys, NEW table, NEW log \in Seq(Nat), now \in Nat,
         k \in DOMAIN table => table[k] \in RateRow,
         Accounted(table, k, log)
  PROVE  LET row == Counted(table, k) IN
         /\ Accounted(With(table, k, row), k, log)
         /\ row.count <= Limit[k] => Accounted(With(table, k, row), k, Append(log, now))
         /\ row.count <= Limit[k] =>
              \A i \in DOMAIN log : i + 2 * Limit[k] = Len(log) + 1 => log[i] + Window[k] <= now
<1>0. PICK row, next, L, W, N :
        /\ row = Counted(table, k) /\ next = With(table, k, row)
        /\ L = Limit[k] /\ W = Window[k] /\ N = Len(log)
  OBVIOUS
<1> DEFINE Held(c) == IF c < L THEN c ELSE L
<1>1. L \in Nat \ {0} /\ W \in Nat \ {0} /\ N \in Nat /\ now \in Nat
  BY <1>0, LimiterAssumption
<1>2. DOMAIN log = 1..N /\ \A i \in DOMAIN log : log[i] \in Nat /\ i \in Nat /\ log[i] <= now
  BY <1>0 DEF Accounted
<1>3. k \in DOMAIN next /\ next[k] = row /\ row \in RateRow
  <2>1. row \in RateRow
    BY <1>0, CountedRow
  <2>2. k \in DOMAIN With(table, k, row) /\ With(table, k, row)[k] = row
    BY DEF With
  <2> QED BY <1>0, <2>1, <2>2
<1>4. /\ Len(Append(log, now)) = N + 1 /\ DOMAIN Append(log, now) = 1..(N + 1)
      /\ Append(log, now)[N + 1] = now /\ \A i \in DOMAIN log : Append(log, now)[i] = log[i]
  BY <1>0, <1>2
<1> DEFINE longer == Append(log, now)
<1>5. CASE k \in DOMAIN table /\ table[k].expires > now
  <2>1. /\ row.count = table[k].count + 1 /\ row.expires = table[k].expires
        /\ table[k].count \in Nat \ {0} /\ table[k].expires \in Nat
    BY <1>0, <1>5, CountedRow DEF RateRow
  <2> DEFINE c == table[k].count
             e == table[k].expires
  <2>2. /\ e <= now + W /\ e > now
        /\ \A i \in DOMAIN log : /\ i + Held(c) <= N => log[i] + W <= e
                                 /\ i + L + Held(c) <= N => log[i] + 2 * W <= e
    BY <1>0, <1>5 DEF Accounted
  <2>3. Held(c + 1) \in Nat /\ Held(c) \in Nat /\ Held(c) <= Held(c + 1) /\ Held(c) <= L
    BY <1>1, <2>1
  <2> HIDE DEF Held, c, e
  <2>4. \A i \in DOMAIN log : /\ i + Held(c + 1) <= N => log[i] + W <= e
                              /\ i + L + Held(c + 1) <= N => log[i] + 2 * W <= e
    <3> SUFFICES ASSUME NEW i \in DOMAIN log
                 PROVE  /\ i + Held(c + 1) <= N => log[i] + W <= e
                        /\ i + L + Held(c + 1) <= N => log[i] + 2 * W <= e
      OBVIOUS
    <3>1. i \in Nat
      BY <1>2
    <3>2. i + Held(c + 1) <= N => i + Held(c) <= N
      BY <1>1, <2>3, <3>1
    <3>3. i + L + Held(c + 1) <= N => i + L + Held(c) <= N
      BY <1>1, <2>3, <3>1
    <3> QED BY <2>2, <3>2, <3>3
  <2>5. Accounted(next, k, log)
    BY <1>0, <1>2, <1>3, <2>1, <2>2, <2>4 DEF Accounted, Held, c, e
  <2>6. ASSUME row.count <= L
        PROVE  Accounted(next, k, longer)
    <3>1. Held(c) = c /\ Held(c + 1) = c + 1 /\ c \in Nat /\ c + 1 <= L
      BY <1>1, <2>1, <2>6 DEF Held, c
    <3>2. ASSUME NEW i \in DOMAIN longer
          PROVE  /\ longer[i] <= now
                 /\ i + Held(c + 1) <= N + 1 => longer[i] + W <= e
                 /\ i + L + Held(c + 1) <= N + 1 => longer[i] + 2 * W <= e
      <4>1. CASE i \in DOMAIN log
        <5>1. longer[i] = log[i] /\ i \in Nat /\ log[i] \in Nat /\ log[i] <= now
          BY <1>2, <1>4, <4>1
        <5>2. i + Held(c + 1) <= N + 1 => i + Held(c) <= N
          BY <1>1, <3>1, <5>1
        <5>3. i + L + Held(c + 1) <= N + 1 => i + L + Held(c) <= N
          BY <1>1, <3>1, <5>1
        <5> QED BY <2>2, <4>1, <5>1, <5>2, <5>3
      <4>2. CASE i = N + 1
        <5>1. longer[i] = now /\ i \in Nat
          BY <1>1, <1>4, <4>2
        <5>2. ~(i + Held(c + 1) <= N + 1) /\ ~(i + L + Held(c + 1) <= N + 1)
          BY <1>1, <3>1, <4>2
        <5>3. longer[i] <= now
          BY <1>1, <5>1
        <5> QED BY <5>2, <5>3
      <4>3. i \in DOMAIN log \/ i = N + 1
        BY <1>1, <1>2, <1>4
      <4> QED BY <4>1, <4>2, <4>3
    <3> HIDE DEF longer
    <3>3. Len(longer) = N + 1
      BY <1>4 DEF longer
    <3> QED BY <1>0, <1>3, <2>1, <2>2, <3>2, <3>3 DEF Accounted, Held, c, e
  <2>7. ASSUME row.count <= L, NEW i \in DOMAIN log, i + 2 * L = N + 1
        PROVE  log[i] + W <= now
    <3>1. Held(c) = c /\ c \in Nat /\ c + 1 <= L
      BY <1>1, <2>1, <2>7 DEF Held, c
    <3>2. i \in Nat
      BY <1>2, <2>7
    <3>4. i + L + Held(c) <= N
      BY <1>1, <2>7, <3>1, <3>2
    <3>3. log[i] + 2 * W <= e
      BY <2>2, <2>7, <3>4
    <3>5. log[i] \in Nat
      BY <1>2, <2>7
    <3> QED BY <1>1, <2>1, <2>2, <3>3, <3>5 DEF e
  <2> QED BY <1>0, <2>5, <2>6, <2>7
<1>6. CASE ~(k \in DOMAIN table /\ table[k].expires > now)
  <2>1. row.count = 1 /\ row.expires = now + W
    BY <1>0, <1>6, CountedRow
  <2>2. \A i \in DOMAIN log : i + L <= N => log[i] + W <= now
    BY <1>0, <1>6 DEF Accounted
  <2>3. Held(1) = 1
    BY <1>1
  <2>4. row.expires > now
    BY <1>1, <2>1
  <2>5. Accounted(next, k, log)
    <3>1. ASSUME NEW i \in DOMAIN log
          PROVE  /\ i + Held(1) <= N => log[i] + W <= now + W
                 /\ i + L + Held(1) <= N => log[i] + 2 * W <= now + W
      <4>1. i \in Nat /\ log[i] \in Nat /\ log[i] <= now
        BY <1>2
      <4>2. i + L + Held(1) <= N => i + L <= N
        BY <1>1, <2>3, <4>1
      <4> QED BY <1>1, <2>2, <4>1, <4>2
    <3> QED BY <1>0, <1>1, <1>2, <1>3, <2>1, <2>4, <3>1 DEF Accounted
  <2>6. Accounted(next, k, longer)
    <3>1. ASSUME NEW i \in DOMAIN longer
          PROVE  /\ longer[i] <= now
                 /\ i + Held(1) <= N + 1 => longer[i] + W <= now + W
                 /\ i + L + Held(1) <= N + 1 => longer[i] + 2 * W <= now + W
      <4>1. CASE i \in DOMAIN log
        <5>1. longer[i] = log[i] /\ i \in Nat /\ log[i] \in Nat /\ log[i] <= now
          BY <1>2, <1>4, <4>1
        <5>2. i + L + Held(1) <= N + 1 => i + L <= N
          BY <1>1, <2>3, <5>1
        <5> QED BY <1>1, <2>2, <4>1, <5>1, <5>2
      <4>2. CASE i = N + 1
        <5>1. longer[i] = now /\ i \in Nat
          BY <1>1, <1>4, <4>2
        <5>2. ~(i + Held(1) <= N + 1) /\ ~(i + L + Held(1) <= N + 1)
          BY <1>1, <2>3, <4>2
        <5>3. longer[i] <= now
          BY <1>1, <5>1
        <5> QED BY <5>2, <5>3
      <4>3. i \in DOMAIN log \/ i = N + 1
        BY <1>1, <1>2, <1>4
      <4> QED BY <4>1, <4>2, <4>3
    <3> HIDE DEF longer
    <3>2. Len(longer) = N + 1
      BY <1>4 DEF longer
    <3> QED BY <1>0, <1>1, <1>3, <2>1, <2>4, <3>1, <3>2 DEF Accounted
  <2>7. ASSUME NEW i \in DOMAIN log, i + 2 * L = N + 1
        PROVE  log[i] + W <= now
    <3>1. i \in Nat /\ i + L <= N
      BY <1>1, <1>2, <2>7
    <3> QED BY <2>2, <3>1
  <2> QED BY <1>0, <2>5, <2>6, <2>7
<1> QED BY <1>5, <1>6

\* What the admissions of a key are to be: told by the table, and never too dense.
Spread(k, log) ==
  \A i \in DOMAIN log : i + 2 * Limit[k] <= Len(log) => log[i] + Window[k] <= log[i + 2 * Limit[k]]
Tells(table, k, log) == Accounted(table, k, log) /\ Spread(k, log)
Rows(table) == DOMAIN table \subseteq Keys /\ \A k \in DOMAIN table : table[k] \in RateRow

LEMMA HitTells ==
  ASSUME NEW k \in Keys, NEW table, NEW log \in Seq(Nat), now \in Nat,
         k \in DOMAIN table => table[k] \in RateRow, Tells(table, k, log)
  PROVE  LET row == Counted(table, k) IN
         /\ Tells(With(table, k, row), k, log)
         /\ row.count <= Limit[k] => Tells(With(table, k, row), k, Append(log, now))
<1> DEFINE row == Counted(table, k)
<1>1. /\ Accounted(With(table, k, row), k, log)
      /\ row.count <= Limit[k] => Accounted(With(table, k, row), k, Append(log, now))
      /\ row.count <= Limit[k] =>
           \A i \in DOMAIN log : i + 2 * Limit[k] = Len(log) + 1 => log[i] + Window[k] <= now
  BY CountedAccounts DEF Tells
<1> HIDE DEF row
<1>2. ASSUME row.count <= Limit[k]
      PROVE  Spread(k, Append(log, now))
  <2>0. PICK longer, L, W, N : /\ longer = Append(log, now)
                               /\ L = Limit[k] /\ W = Window[k] /\ N = Len(log)
    OBVIOUS
  <2>1. L \in Nat \ {0} /\ W \in Nat \ {0} /\ N \in Nat /\ DOMAIN log = 1..N
    BY <2>0, LimiterAssumption
  <2>2. /\ Len(longer) = N + 1 /\ DOMAIN longer = 1..(N + 1)
        /\ longer[N + 1] = now /\ \A i \in DOMAIN log : longer[i] = log[i]
    BY <2>0, <2>1
  <2>3. ASSUME NEW i \in DOMAIN longer, i + 2 * L <= N + 1
        PROVE  longer[i] + W <= longer[i + 2 * L]
    <3>1. i \in Nat /\ i \in DOMAIN log
      BY <2>1, <2>2, <2>3
    <3>2. CASE i + 2 * L = N + 1
      <4>1. log[i] + W <= now
        BY <1>1, <1>2, <2>0, <3>1, <3>2
      <4> QED BY <2>2, <3>1, <3>2, <4>1
    <3>3. CASE i + 2 * L # N + 1
      <4>1. i + 2 * L <= N /\ i + 2 * L \in DOMAIN log
        BY <2>1, <2>3, <3>1, <3>3
      <4>2. log[i] + W <= log[i + 2 * L]
        BY <2>0, <3>1, <4>1 DEF Tells, Spread
      <4> QED BY <2>2, <3>1, <4>1, <4>2
    <3> QED BY <3>2, <3>3
  <2> QED BY <2>0, <2>2, <2>3 DEF Spread
<1> QED BY <1>1, <1>2 DEF Tells, row

\* The other keys of the table.
LEMMA OtherKey ==
  ASSUME NEW k, NEW j, j # k, NEW table, NEW row, NEW log, Accounted(table, j, log)
  PROVE  Accounted(With(table, k, row), j, log)
<1>1. PICK next : next = With(table, k, row)
  OBVIOUS
<1>2. /\ j \in DOMAIN next <=> j \in DOMAIN table
      /\ j \in DOMAIN next => next[j] = table[j]
  BY <1>1 DEF With
<1>3. Accounted(next, j, log)
  BY <1>2, SameWindow
<1> QED BY <1>1, <1>3

LEMMA TableTypes ==
  ASSUME LimiterTypes, NEW s \in Stores
  PROVE  /\ now \in Nat /\ Rows(Table(s)) /\ \A k \in Keys : passed[s][k] \in Seq(Nat)
         /\ s \in Processes => Table(s) = windows[s]
         /\ s = DATABASE => Table(s) = limits
<1>1. now \in Nat /\ \A k \in Keys : passed[s][k] \in Seq(Nat)
  BY LimiterAssumption DEF LimiterTypes
<1>2. s \in Processes => s # DATABASE
  BY LimiterAssumption
<1>3. Rows(Table(s))
  BY <1>2 DEF LimiterTypes, Rows, Table, Stores
<1> QED BY <1>1, <1>2, <1>3 DEF Table

LEMMA TableRows ==
  ASSUME NEW table, Rows(table), now \in Nat
  PROVE  Rows(Live(table)) /\ \A k \in Keys : Rows(With(table, k, Counted(table, k)))
<1>1. Rows(Live(table))
  BY LiveTable DEF Rows
<1>2. ASSUME NEW k \in Keys
      PROVE  Rows(With(table, k, Counted(table, k)))
  <2>1. Counted(table, k) \in RateRow
    BY CountedRow DEF Rows
  <2>2. PICK row : row = Counted(table, k)
    OBVIOUS
  <2>3. Rows(With(table, k, row))
    BY <2>1, <2>2 DEF With, Rows
  <2> QED BY <2>2, <2>3
<1> QED BY <1>1, <1>2

\* A store counts a request, or sweeps, and the other stores are as they were.
LEMMA HitStep ==
  ASSUME LimiterInv, NEW st \in Stores, NEW k \in Keys, NEW t, t \in {Table(st), Live(Table(st))},
         NEW next, next = With(t, k, Counted(t, k)),
         NEW logs, logs \in {passed, Recorded(st, k, Counted(t, k).count)},
         NEW s \in Stores, NEW j \in Keys
  PROVE  Tells(IF s = st THEN next ELSE Table(s), j, logs[s][j])
<1>1. /\ now \in Nat /\ passed \in [Stores -> [Keys -> Seq(Nat)]]
      /\ Tells(Table(s), j, passed[s][j])
  BY LimiterAssumption DEF LimiterInv, LimiterTypes, Tells, Spread, TwicePerWindow
<1>2. Rows(t)
  BY TableTypes, TableRows DEF LimiterInv
<1>3. s = st => Tells(t, j, passed[s][j])
  BY <1>1, LiveTable DEF Tells
<1>4. logs[s][j] = passed[s][j] \/ /\ s = st /\ j = k /\ Counted(t, k).count <= Limit[k]
                                   /\ logs[s][j] = Append(passed[s][j], now)
  <2>1. CASE logs = passed
    BY <2>1
  <2>2. CASE logs = Recorded(st, k, Counted(t, k).count)
    <3>0. PICK count : count = Counted(t, k).count
      OBVIOUS
    <3>1. count \in Nat /\ Limit[k] \in Nat
      BY <1>1, <1>2, <3>0, CountedRow, LimiterAssumption DEF Rows, RateRow
    <3>2. CASE count > Limit[k]
      BY <2>2, <3>0, <3>2 DEF Recorded
    <3>3. CASE count <= Limit[k]
      <4>1. logs = [passed EXCEPT ![st][k] = Append(@, now)]
        BY <2>2, <3>0, <3>1, <3>3 DEF Recorded
      <4>2. logs[s][j] = IF s = st /\ j = k THEN Append(passed[s][j], now) ELSE passed[s][j]
        BY <1>1, <4>1
      <4> QED BY <3>0, <3>3, <4>2
    <3> QED BY <3>1, <3>2, <3>3
  <2> QED BY <2>1, <2>2
<1>5. CASE s # st
  BY <1>1, <1>4, <1>5
<1>6. CASE s = st /\ j # k
  BY <1>3, <1>4, <1>6, OtherKey DEF Tells
<1>7. CASE s = st /\ j = k
  <2>1. passed[s][j] \in Seq(Nat) /\ (k \in DOMAIN t => t[k] \in RateRow)
    BY <1>1, <1>2 DEF Rows
  <2>2. /\ Tells(next, k, passed[s][j])
        /\ Counted(t, k).count <= Limit[k] => Tells(next, k, Append(passed[s][j], now))
    BY <1>1, <1>3, <1>7, <2>1, HitTells
  <2> QED BY <1>4, <1>7, <2>2
<1> QED BY <1>5, <1>6, <1>7

LEMMA SweepStep ==
  ASSUME LimiterInv, NEW st \in Stores, NEW next, next = Live(Table(st)),
         NEW s \in Stores, NEW j \in Keys
  PROVE  Tells(IF s = st THEN next ELSE Table(s), j, passed[s][j])
<1>1. Tells(Table(s), j, passed[s][j])
  BY DEF LimiterInv, Tells, Spread, TwicePerWindow
<1> QED BY <1>1, LiveTable DEF Tells

LEMMA AllTell ==
  ASSUME LimiterTypes', now' = now,
         \A s \in Stores, j \in Keys : Tells(Table(s)', j, passed'[s][j])
  PROVE  LimiterInv'
<1>1. ASSUME NEW s \in Stores, NEW j \in Keys
      PROVE  Accounted(Table(s), j, passed[s][j])' /\ Spread(j, passed'[s][j])
  BY <1>1 DEF Tells, Accounted
<1>2. TwicePerWindow'
  BY <1>1 DEF TwicePerWindow, Spread
<1> QED BY <1>1, <1>2 DEF LimiterInv

\* A call that waits for a limit has one to pass.
Waiting(row) == row \in CallRow /\ (row.pc \in {"limit", "clean"} => row.keys # <<>>)

LEMMA CallWaits ==
  ASSUME LimiterTypes, NEW c \in Calls
  PROVE  /\ Waiting(call[c]) /\ HostOf[c] \in Processes /\ HostOf[c] \in Stores
         /\ call[c].pc \in {"limit", "clean"} => Key(c) \in Keys
<1>1. Waiting(call[c])
  BY DEF LimiterTypes, Waiting, CallRow
<1>2. HostOf[c] \in Processes
  BY LimiterAssumption
<1>3. ASSUME call[c].pc \in {"limit", "clean"}
      PROVE  Key(c) \in Keys
  BY <1>1, <1>3 DEF Waiting, CallRow, Key
<1> QED BY <1>1, <1>2, <1>3 DEF Stores

LEMMA EmptyKeys == <<>> \in Seq(Keys)
OBVIOUS

LEMMA IdleWaits ==
  /\ Waiting(IdleCall) /\ Waiting([IdleCall EXCEPT !.pc = "refused"])
  /\ \A route \in Routes : Waiting([IdleCall EXCEPT !.pc = "limit", !.keys = route])
<1>1. \A route \in Routes : route \in Seq(Keys) /\ route # <<>>
  BY LimiterAssumption
<1>2. IdleCall \in CallRow /\ IdleCall.pc = "idle"
  BY EmptyKeys DEF IdleCall, CallRow
<1>3. PICK idle : idle = IdleCall
  OBVIOUS
<1>4. Waiting(idle) /\ Waiting([idle EXCEPT !.pc = "refused"])
  BY <1>2, <1>3 DEF Waiting, CallRow
<1>5. ASSUME NEW route \in Routes
      PROVE  Waiting([idle EXCEPT !.pc = "limit", !.keys = route])
  BY <1>1, <1>2, <1>3 DEF Waiting, CallRow
<1> QED BY <1>3, <1>4, <1>5

LEMMA DecidedWaits ==
  ASSUME NEW c \in Calls, Waiting(call[c]), call[c].keys # <<>>, NEW count \in Nat
  PROVE  Waiting(Decided(c, count))
<1>0. PICK row : row = call[c]
  OBVIOUS
<1>1. row \in CallRow /\ row.keys \in Seq(Keys) /\ row.keys # <<>>
  BY <1>0 DEF Waiting, CallRow
<1>2. Waiting([row EXCEPT !.pc = "refused", !.keys = <<>>])
  BY <1>1, EmptyKeys DEF Waiting, CallRow
<1>3. /\ Tail(row.keys) \in Seq(Keys)
      /\ Len(row.keys) # 1 => Tail(row.keys) # <<>>
  <2>1. PICK keys : keys = row.keys
    OBVIOUS
  <2>2. keys \in Seq(Keys) /\ Len(keys) \in Nat /\ Len(keys) # 0
    BY <1>1, <2>1
  <2>3. Tail(keys) \in Seq(Keys) /\ Len(Tail(keys)) = Len(keys) - 1
    BY <2>2
  <2>4. PICK rest : rest = Tail(keys)
    OBVIOUS
  <2>5. rest = <<>> => Len(keys) = 1
    <3>1. Len(rest) = Len(keys) - 1
      BY <2>3, <2>4
    <3> QED BY <2>2, <3>1
  <2> QED BY <2>1, <2>3, <2>4, <2>5
<1>4. Waiting([pc |-> IF Len(row.keys) = 1 THEN "through" ELSE "limit",
               keys |-> Tail(row.keys), count |-> count])
  BY <1>3 DEF Waiting, CallRow
<1> QED BY <1>0, <1>2, <1>4 DEF Decided

LEMMA CallStep ==
  ASSUME LimiterTypes, NEW c \in Calls, NEW row, Waiting(row), call' = [call EXCEPT ![c] = row]
  PROVE  /\ call' \in [Calls -> CallRow]
         /\ \A d \in Calls : call'[d].pc \in {"limit", "clean"} => call'[d].keys # <<>>
BY DEF LimiterTypes, Waiting, CallRow

\* A map in memory, with its expired windows gone and room for one more.
LEMMA MemoryBound ==
  ASSUME LimiterTypes, NEW p \in Processes, NEW k, NEW row
  PROVE  LET live == Live(windows[p]) IN
         /\ IsFiniteSet(DOMAIN live) /\ Cardinality(DOMAIN live) <= MaxMemoryKeys
         /\ ~MemoryFull(live, k) => /\ IsFiniteSet(DOMAIN With(live, k, row))
                                    /\ Cardinality(DOMAIN With(live, k, row)) <= MaxMemoryKeys
<1>0. PICK D, E : D = DOMAIN windows[p] /\ E = DOMAIN Live(windows[p])
  OBVIOUS
<1>1. IsFiniteSet(D) /\ Cardinality(D) <= MaxMemoryKeys /\ E \subseteq D
  BY <1>0, LiveTable DEF LimiterTypes
<1>2. IsFiniteSet(E) /\ Cardinality(E) <= Cardinality(D)
  BY <1>1, FS_Subset
<1>3. Cardinality(D) \in Nat /\ Cardinality(E) \in Nat /\ MaxMemoryKeys \in Nat
  BY <1>1, <1>2, FS_CardinalityType, LimiterAssumption
<1>4. /\ IsFiniteSet(E \cup {k})
      /\ Cardinality(E \cup {k}) = IF k \in E THEN Cardinality(E) ELSE Cardinality(E) + 1
  BY <1>2, FS_AddElement
<1>5. DOMAIN With(Live(windows[p]), k, row) = E \cup {k}
  BY <1>0 DEF With
<1>6. k \in E \/ ~(Cardinality(E) >= MaxMemoryKeys) => Cardinality(E \cup {k}) <= MaxMemoryKeys
  BY <1>1, <1>2, <1>3, <1>4
<1>7. Cardinality(E) <= MaxMemoryKeys
  BY <1>1, <1>2, <1>3
<1> QED BY <1>0, <1>2, <1>4, <1>5, <1>6, <1>7 DEF MemoryFull

\* The logs of the admissions.
LEMMA RecordedTypes ==
  ASSUME LimiterTypes, NEW s \in Stores, NEW k \in Keys, NEW count
  PROVE  Recorded(s, k, count) \in [Stores -> [Keys -> Seq(Nat)]]
<1>1. now \in Nat /\ passed \in [Stores -> [Keys -> Seq(Nat)]]
  BY LimiterAssumption DEF LimiterTypes
<1>2. Append(passed[s][k], now) \in Seq(Nat)
  BY <1>1
<1>3. [passed EXCEPT ![s][k] = Append(@, now)] \in [Stores -> [Keys -> Seq(Nat)]]
  BY <1>1, <1>2
<1> QED BY <1>1, <1>3 DEF Recorded

LEMMA LimiterStarts == LimiterInit => LimiterInv
<1> SUFFICES ASSUME LimiterInit PROVE LimiterInv
  OBVIOUS
<1>1. \A k \in Keys, s \in Stores : passed[s][k] = <<>> /\ k \notin DOMAIN Table(s)
  BY DEF LimiterInit, Table, Stores
<1>2. LimiterTypes
  <2>1. now \in 0..MaxTime /\ arrivals \in 0..MaxArrivals /\ online \in [Processes -> BOOLEAN]
    BY LimiterAssumption DEF LimiterInit
  <2>2. DOMAIN limits \subseteq Keys /\ \A k \in DOMAIN limits : limits[k] \in RateRow
    BY DEF LimiterInit
  <2>3. /\ DOMAIN windows = Processes
        /\ \A p \in Processes : DOMAIN windows[p] = {}
    BY DEF LimiterInit
  <2>4. IsFiniteSet({}) /\ Cardinality({}) <= MaxMemoryKeys
    BY FS_EmptySet, LimiterAssumption
  <2>5. operations \in [Processes -> 0..(CleanupEvery - 1)]
    BY LimiterAssumption DEF LimiterInit
  <2>6. /\ call \in [Calls -> CallRow]
        /\ \A c \in Calls : call[c].pc \in {"limit", "clean"} => call[c].keys # <<>>
    BY IdleWaits DEF LimiterInit, Waiting
  <2>7. passed \in [Stores -> [Keys -> Seq(Nat)]]
    <3>1. <<>> \in Seq(Nat)
      OBVIOUS
    <3> QED BY <3>1 DEF LimiterInit
  <2> QED BY <2>1, <2>2, <2>3, <2>4, <2>5, <2>6, <2>7 DEF LimiterTypes, CallRow
<1>3. \A s \in Stores, k \in Keys : Accounted(Table(s), k, passed[s][k])
  BY <1>1 DEF Accounted
<1>4. TwicePerWindow
  BY <1>1 DEF TwicePerWindow
<1> QED BY <1>2, <1>3, <1>4 DEF LimiterInv

\* The table of the database, and the maps of the processes.
LEMMA DatabaseTable ==
  ASSUME windows' = windows, NEW s \in Stores
  PROVE  Table(s)' = IF s = DATABASE THEN limits' ELSE Table(s)
BY DEF Table

LEMMA MemoryTable ==
  ASSUME LimiterTypes, limits' = limits, NEW p \in Processes, NEW next,
         windows' = [windows EXCEPT ![p] = next], NEW s \in Stores
  PROVE  Table(s)' = IF s = p THEN next ELSE Table(s)
BY LimiterAssumption DEF Table, Stores, LimiterTypes

LEMMA DatabaseHitKeeps ==
  ASSUME LimiterInv, NEW c \in Calls, DatabaseHit(c)
  PROVE  LimiterInv'
<1>0. PICK k, row, next, p : /\ k = Key(c) /\ p = HostOf[c] /\ row = Counted(limits, k)
                             /\ next = With(limits, k, row)
  OBVIOUS
<1>1. LimiterTypes /\ k \in Keys /\ p \in Processes /\ Waiting(call[c]) /\ call[c].keys # <<>>
  BY <1>0, CallWaits DEF LimiterInv, DatabaseHit, AtStep, Waiting
<1>2. DATABASE \in Stores /\ Table(DATABASE) = limits /\ Rows(limits) /\ now \in Nat
  BY <1>1, TableTypes DEF Stores, Table
<1>3. /\ limits' = next /\ passed' = Recorded(DATABASE, k, row.count)
      /\ operations' = [operations EXCEPT ![p] = (@ + 1) % CleanupEvery]
      /\ UNCHANGED <<now, online, windows, arrivals>>
  BY <1>0 DEF DatabaseHit
<1>4. row \in RateRow /\ row.count \in Nat
  BY <1>0, <1>1, <1>2, CountedRow DEF Rows, RateRow
<1>5. LimiterTypes'
  <2>1. now' \in 0..MaxTime /\ arrivals' \in 0..MaxArrivals /\ online' \in [Processes -> BOOLEAN]
    BY <1>1, <1>3 DEF LimiterTypes
  <2>2. Rows(limits')
    BY <1>0, <1>1, <1>2, <1>3, TableRows
  <2>3. operations' \in [Processes -> 0..(CleanupEvery - 1)]
    <3>1. CleanupEvery \in Nat \ {0} /\ operations[p] \in Nat
      BY <1>1, LimiterAssumption DEF LimiterTypes
    <3>2. (operations[p] + 1) % CleanupEvery \in 0..(CleanupEvery - 1)
      BY <3>1
    <3> QED BY <1>1, <1>3, <3>2 DEF LimiterTypes
  <2>4. /\ call' \in [Calls -> CallRow]
        /\ \A d \in Calls : call'[d].pc \in {"limit", "clean"} => call'[d].keys # <<>>
    <3>1. PICK old : old = call[c]
      OBVIOUS
    <3>2. Waiting([old EXCEPT !.pc = "clean", !.count = row.count])
      BY <1>1, <1>4, <3>1 DEF Waiting, CallRow
    <3>3. Waiting(Decided(c, row.count))
      BY <1>1, <1>4, DecidedWaits
    <3>4. \/ call' = [call EXCEPT ![c] = [old EXCEPT !.pc = "clean", !.count = row.count]]
          \/ call' = [call EXCEPT ![c] = Decided(c, row.count)]
      BY <1>0, <3>1 DEF DatabaseHit
    <3>5. CASE call' = [call EXCEPT ![c] = [old EXCEPT !.pc = "clean", !.count = row.count]]
      BY <1>1, <3>2, <3>5, CallStep
    <3>6. CASE call' = [call EXCEPT ![c] = Decided(c, row.count)]
      <4>1. PICK new : new = Decided(c, row.count)
        OBVIOUS
      <4> QED BY <1>1, <3>3, <3>6, <4>1, CallStep
    <3> QED BY <3>4, <3>5, <3>6
  <2>5. passed' \in [Stores -> [Keys -> Seq(Nat)]]
    BY <1>1, <1>2, <1>3, RecordedTypes
  <2>6. windows' = windows
    BY <1>3
  <2> QED BY <1>1, <2>1, <2>2, <2>3, <2>4, <2>5, <2>6 DEF LimiterTypes, Rows, CallRow
<1>6. ASSUME NEW s \in Stores, NEW j \in Keys
      PROVE  Tells(Table(s)', j, passed'[s][j])
  <2>1. PICK logs : logs = passed'
    OBVIOUS
  <2>2. Tells(IF s = DATABASE THEN next ELSE Table(s), j, logs[s][j])
    <3>1. logs \in {passed, Recorded(DATABASE, k, Counted(limits, k).count)}
      BY <1>0, <1>3, <2>1
    <3>2. next = With(limits, k, Counted(limits, k))
      BY <1>0
    <3>3. limits \in {Table(DATABASE), Live(Table(DATABASE))}
      BY <1>2
    <3> QED BY <1>1, <1>2, <3>1, <3>2, <3>3, HitStep
  <2>3. Table(s)' = IF s = DATABASE THEN next ELSE Table(s)
    BY <1>3, DatabaseTable
  <2> QED BY <2>1, <2>2, <2>3
<1> QED BY <1>3, <1>5, <1>6, AllTell

\* A step of a call that leaves the logs: the limits' rows are kept, counted or swept.
LEMMA RowsMove ==
  ASSUME LimiterInv, NEW c \in Calls, NEW row, Waiting(row), call' = [call EXCEPT ![c] = row],
         \/ limits' = limits
         \/ limits' = Live(limits)
         \/ \E k \in Keys : limits' = With(limits, k, Counted(limits, k)),
         arrivals' \in 0..MaxArrivals, UNCHANGED <<now, online, windows, operations, passed>>
  PROVE  LimiterInv'
<1>1. LimiterTypes
  BY DEF LimiterInv
<1>2. DATABASE \in Stores /\ Table(DATABASE) = limits /\ Rows(limits) /\ now \in Nat
  BY <1>1, TableTypes DEF Stores, Table
<1>3. Rows(limits')
  BY <1>2, TableRows
<1>4. /\ call' \in [Calls -> CallRow]
      /\ \A d \in Calls : call'[d].pc \in {"limit", "clean"} => call'[d].keys # <<>>
  BY <1>1, CallStep
<1>5. LimiterTypes'
  BY <1>1, <1>3, <1>4 DEF LimiterTypes, Rows, CallRow
<1>6. ASSUME NEW s \in Stores, NEW j \in Keys
      PROVE  Tells(Table(s)', j, passed'[s][j])
  <2>0. PICK next : next = limits'
    OBVIOUS
  <2>1. Tells(IF s = DATABASE THEN next ELSE Table(s), j, passed[s][j])
    <3>1. CASE next = limits
      <4>1. Tells(Table(s), j, passed[s][j])
        BY DEF LimiterInv, Tells, Spread, TwicePerWindow
      <4> QED BY <1>2, <3>1, <4>1
    <3>2. CASE next = Live(limits)
      BY <1>2, <3>2, SweepStep
    <3>3. ASSUME NEW k \in Keys, next = With(limits, k, Counted(limits, k))
          PROVE  Tells(IF s = DATABASE THEN next ELSE Table(s), j, passed[s][j])
      BY <1>2, <3>3, HitStep
    <3> QED BY <2>0, <3>1, <3>2, <3>3
  <2>2. Table(s)' = IF s = DATABASE THEN next ELSE Table(s)
    BY <2>0, DatabaseTable
  <2> QED BY <2>1, <2>2
<1> QED BY <1>5, <1>6, AllTell

LEMMA CleanUpKeeps ==
  ASSUME LimiterInv, NEW c \in Calls, CleanUp(c)
  PROVE  LimiterInv'
<1>1. LimiterTypes /\ Waiting(call[c]) /\ call[c].keys # <<>> /\ call[c].count \in Nat
  BY CallWaits DEF LimiterInv, CleanUp, AtStep, Waiting, CallRow
<1>2. PICK row : row = Decided(c, call[c].count)
  OBVIOUS
<1>3. Waiting(row)
  BY <1>1, <1>2, DecidedWaits
<1>4. call' = [call EXCEPT ![c] = row] /\ limits' = Live(limits)
  BY <1>2 DEF CleanUp
<1>5. arrivals' \in 0..MaxArrivals /\ UNCHANGED <<now, online, windows, operations, passed>>
  BY <1>1 DEF CleanUp, LimiterTypes
<1> QED BY <1>3, <1>4, <1>5, RowsMove

LEMMA LimiterFailsKeeps ==
  ASSUME LimiterInv, NEW c \in Calls, LimiterFails(c)
  PROVE  LimiterInv'
<1>1. LimiterTypes /\ Key(c) \in Keys
  BY CallWaits DEF LimiterInv, LimiterFails
<1>2. PICK row : row = [IdleCall EXCEPT !.pc = "refused"]
  OBVIOUS
<1>3. Waiting(row)
  BY <1>2, IdleWaits
<1>4. /\ call' = [call EXCEPT ![c] = row]
      /\ \/ limits' = limits
         \/ limits' = Live(limits)
         \/ \E k \in Keys : limits' = With(limits, k, Counted(limits, k))
  BY <1>1, <1>2 DEF LimiterFails
<1>5. arrivals' \in 0..MaxArrivals /\ UNCHANGED <<now, online, windows, operations, passed>>
  BY <1>1 DEF LimiterFails, LimiterTypes
<1> QED BY <1>3, <1>4, <1>5, RowsMove

LEMMA CallKeeps ==
  ASSUME LimiterInv, NEW c \in Calls, Arrive(c) \/ Leave(c)
  PROVE  LimiterInv'
<1>1. LimiterTypes
  BY DEF LimiterInv
<1>2. arrivals' \in 0..MaxArrivals
  <2>1. arrivals \in 0..MaxArrivals /\ MaxArrivals \in Nat
    BY <1>1, LimiterAssumption DEF LimiterTypes
  <2>2. arrivals' = arrivals \/ (arrivals < MaxArrivals /\ arrivals' = arrivals + 1)
    BY DEF Arrive, Leave
  <2> QED BY <2>1, <2>2
<1>3. PICK row : Waiting(row) /\ call' = [call EXCEPT ![c] = row]
  BY IdleWaits DEF Arrive, Leave
<1>4. limits' = limits /\ UNCHANGED <<now, online, windows, operations, passed>>
  BY DEF Arrive, Leave
<1> QED BY <1>2, <1>3, <1>4, RowsMove

LEMMA MemoryHitKeeps ==
  ASSUME LimiterInv, NEW c \in Calls, MemoryHit(c)
  PROVE  LimiterInv'
<1>0. PICK k, p, live, row : /\ k = Key(c) /\ p = HostOf[c] /\ live = Live(windows[p])
                             /\ row = Counted(live, k)
  OBVIOUS
<1>1. LimiterTypes /\ k \in Keys /\ p \in Processes /\ Waiting(call[c]) /\ call[c].keys # <<>>
  BY <1>0, CallWaits DEF LimiterInv, MemoryHit, AtStep, Waiting
<1>2. p \in Stores /\ Table(p) = windows[p] /\ Rows(windows[p]) /\ now \in Nat
  BY <1>1, TableTypes DEF Stores
<1>3. Rows(live) /\ Rows(With(live, k, row)) /\ row.count \in Nat
  <2>1. Rows(live)
    BY <1>0, <1>2, TableRows
  <2>2. Rows(With(live, k, row))
    BY <1>0, <1>1, <1>2, <2>1, TableRows
  <2>3. row \in RateRow
    BY <1>0, <1>1, <1>2, <2>1, CountedRow DEF Rows
  <2> QED BY <2>1, <2>2, <2>3 DEF RateRow
<1>4. PICK next, new, logs :
        /\ windows' = [windows EXCEPT ![p] = next]
        /\ call' = [call EXCEPT ![c] = new]
        /\ passed' = logs
        /\ \/ /\ next = live /\ new = [IdleCall EXCEPT !.pc = "refused"] /\ logs = passed
           \/ /\ ~MemoryFull(live, k) /\ next = With(live, k, row)
              /\ new = Decided(c, row.count) /\ logs = Recorded(p, k, row.count)
  BY <1>0 DEF MemoryHit
<1>5. UNCHANGED <<now, online, limits, operations, arrivals>>
  BY DEF MemoryHit
<1>6. LimiterTypes'
  <2>1. /\ Rows(next) /\ IsFiniteSet(DOMAIN next) /\ Cardinality(DOMAIN next) <= MaxMemoryKeys
    BY <1>0, <1>1, <1>3, <1>4, MemoryBound
  <2>2. /\ DOMAIN windows' = Processes
        /\ \A q \in Processes : windows'[q] = IF q = p THEN next ELSE windows[q]
    BY <1>1, <1>4 DEF LimiterTypes
  <2>3. \A q \in Processes :
          /\ DOMAIN windows'[q] \subseteq Keys
          /\ IsFiniteSet(DOMAIN windows'[q]) /\ Cardinality(DOMAIN windows'[q]) <= MaxMemoryKeys
          /\ \A j \in DOMAIN windows'[q] : windows'[q][j] \in RateRow
    BY <1>1, <2>1, <2>2 DEF LimiterTypes, Rows
  <2>4. Waiting(new)
    BY <1>1, <1>3, <1>4, IdleWaits, DecidedWaits
  <2>5. /\ call' \in [Calls -> CallRow]
        /\ \A d \in Calls : call'[d].pc \in {"limit", "clean"} => call'[d].keys # <<>>
    BY <1>1, <1>4, <2>4, CallStep
  <2>6. passed' \in [Stores -> [Keys -> Seq(Nat)]]
    <3>1. passed \in [Stores -> [Keys -> Seq(Nat)]]
      BY <1>1 DEF LimiterTypes
    <3> QED BY <1>1, <1>2, <1>4, <3>1, RecordedTypes
  <2> QED BY <1>1, <1>5, <2>2, <2>3, <2>5, <2>6 DEF LimiterTypes, CallRow
<1>7. ASSUME NEW s \in Stores, NEW j \in Keys
      PROVE  Tells(Table(s)', j, passed'[s][j])
  <2>1. Tells(IF s = p THEN next ELSE Table(s), j, logs[s][j])
    <3>1. CASE next = live /\ logs = passed
      BY <1>0, <1>2, <3>1, SweepStep
    <3>2. CASE next = With(live, k, row) /\ logs = Recorded(p, k, row.count)
      BY <1>0, <1>1, <1>2, <3>2, HitStep
    <3> QED BY <1>4, <3>1, <3>2
  <2>2. Table(s)' = IF s = p THEN next ELSE Table(s)
    BY <1>1, <1>4, <1>5, MemoryTable
  <2> QED BY <1>4, <2>1, <2>2
<1> QED BY <1>5, <1>6, <1>7, AllTell

LEMMA DisconnectKeeps ==
  ASSUME LimiterInv, NEW p \in Processes, Disconnect(p)
  PROVE  LimiterInv'
<1>1. LimiterTypes
  BY DEF LimiterInv
<1>2. /\ call' \in [Calls -> CallRow]
      /\ \A c \in Calls : call'[c].pc \in {"limit", "clean"} => call'[c].keys # <<>>
  <2>1. PICK refused : refused = [IdleCall EXCEPT !.pc = "refused"]
    OBVIOUS
  <2>2. Waiting(refused)
    BY <2>1, IdleWaits
  <2>3. call' = [c \in Calls |-> IF HostOf[c] = p /\ AtStep(c, "clean") THEN refused ELSE call[c]]
    BY <2>1 DEF Disconnect
  <2>4. \A c \in Calls : Waiting(call[c])
    BY <1>1, CallWaits
  <2> QED BY <2>2, <2>3, <2>4 DEF Waiting
<1>3. LimiterTypes'
  <2>1. online' \in [Processes -> BOOLEAN]
    BY <1>1 DEF Disconnect, LimiterTypes
  <2>2. UNCHANGED <<now, limits, windows, operations, passed, arrivals>>
    BY DEF Disconnect
  <2> QED BY <1>1, <1>2, <2>1, <2>2 DEF LimiterTypes, CallRow
<1>4. UNCHANGED <<now, limits, windows, passed>>
  BY DEF Disconnect
<1>5. ASSUME NEW s \in Stores, NEW j \in Keys
      PROVE  Tells(Table(s)', j, passed'[s][j])
  <2>1. Table(s)' = Table(s)
    BY <1>4 DEF Table
  <2> QED BY <1>4, <2>1 DEF LimiterInv, Tells, Spread, TwicePerWindow
<1> QED BY <1>3, <1>4, <1>5, AllTell

\* Time passes; when a window has run out, what it did not account for is a window
\* before its end.
LEMMA TickKeeps ==
  ASSUME LimiterInv, Tick
  PROVE  LimiterInv'
<1>1. /\ now \in Nat /\ now' = now + 1 /\ LimiterTypes
      /\ UNCHANGED <<online, limits, windows, operations, call, passed, arrivals>>
  BY LimiterAssumption DEF Tick, LimiterInv, LimiterTypes
<1>2. LimiterTypes'
  BY <1>1, LimiterAssumption DEF Tick, LimiterTypes
<1>3. TwicePerWindow'
  BY <1>1 DEF LimiterInv, TwicePerWindow
<1>4. ASSUME NEW s \in Stores, NEW k \in Keys
      PROVE  Accounted(Table(s), k, passed[s][k])'
  <2>0. PICK table, log, L, W, N : /\ table = Table(s) /\ log = passed[s][k]
                                   /\ L = Limit[k] /\ W = Window[k] /\ N = Len(log)
    OBVIOUS
  <2>1. Table(s)' = table /\ passed'[s][k] = log
    BY <1>1, <2>0 DEF Table
  <2>2. log \in Seq(Nat) /\ Rows(table) /\ Accounted(table, k, log)
    BY <1>1, <2>0, TableTypes DEF LimiterInv
  <2>3. /\ L \in Nat \ {0} /\ W \in Nat \ {0} /\ N \in Nat /\ DOMAIN log = 1..N
        /\ \A i \in DOMAIN log : i \in Nat /\ log[i] \in Nat /\ log[i] <= now
    BY <2>0, <2>2, LimiterAssumption DEF Accounted
  <2>4. \A i \in DOMAIN log : log[i] <= now'
    BY <1>1, <2>3
  <2>5. k \in DOMAIN table => table[k].expires \in Nat /\ table[k].count \in Nat
    BY <2>2 DEF Rows, RateRow
  <2>6. CASE k \in DOMAIN table /\ table[k].expires > now'
    <3>1. table[k].expires > now
      BY <1>1, <2>5, <2>6
    <3>2. table[k].expires <= now + W
      BY <2>0, <2>2, <2>6, <3>1 DEF Accounted
    <3>3. table[k].expires <= now' + W
      BY <1>1, <2>3, <2>5, <2>6, <3>2
    <3>4. Accounted(table, k, log)'
      BY <2>0, <2>2, <2>4, <2>6, <3>1, <3>3 DEF Accounted
    <3> QED BY <2>1, <3>4
  <2>7. CASE ~(k \in DOMAIN table /\ table[k].expires > now')
    <3>1. ASSUME NEW i \in DOMAIN log, i + L <= N
          PROVE  log[i] + W <= now'
      <4>1. CASE k \in DOMAIN table /\ table[k].expires > now
        <5> DEFINE held == IF table[k].count < L THEN table[k].count ELSE L
        <5>1. held \in Nat /\ held <= L
          BY <2>3, <2>5, <4>1
        <5>2. i + held <= N => log[i] + W <= table[k].expires
          BY <2>0, <2>2, <4>1 DEF Accounted
        <5> HIDE DEF held
        <5>3. i + held <= N
          BY <2>3, <3>1, <5>1
        <5>4. log[i] + W <= table[k].expires /\ table[k].expires <= now'
          BY <1>1, <2>5, <2>7, <4>1, <5>2, <5>3
        <5> QED BY <1>1, <2>3, <2>5, <4>1, <5>4
      <4>2. CASE ~(k \in DOMAIN table /\ table[k].expires > now)
        <5>1. log[i] + W <= now
          BY <2>0, <2>2, <3>1, <4>2 DEF Accounted
        <5> QED BY <1>1, <2>3, <5>1
      <4> QED BY <4>1, <4>2
    <3>2. Accounted(table, k, log)'
      BY <2>0, <2>4, <2>7, <3>1 DEF Accounted
    <3> QED BY <2>1, <3>2
  <2> QED BY <2>6, <2>7
<1> QED BY <1>2, <1>3, <1>4 DEF LimiterInv

\* Every step keeps what the rate limiter's rows account for.
THEOREM LimiterInvariant == LimiterSpec => []LimiterInv
<1>1. LimiterInv /\ [LimiterNext]_limiterVars => LimiterInv'
  <2> SUFFICES ASSUME LimiterInv, [LimiterNext]_limiterVars PROVE LimiterInv'
    OBVIOUS
  <2>1. ASSUME NEW c \in Calls,
               DatabaseHit(c) \/ CleanUp(c) \/ LimiterFails(c) \/ MemoryHit(c) \/ Arrive(c) \/ Leave(c)
        PROVE  LimiterInv'
    BY <2>1, DatabaseHitKeeps, CleanUpKeeps, LimiterFailsKeeps, MemoryHitKeeps, CallKeeps
  <2>2. ASSUME NEW p \in Processes, Disconnect(p)
        PROVE  LimiterInv'
    BY <2>2, DisconnectKeeps
  <2>3. CASE Tick
    BY <2>3, TickKeeps
  <2>4. CASE UNCHANGED limiterVars
    <3>1. LimiterTypes'
      BY <2>4 DEF LimiterInv, limiterVars, LimiterTypes
    <3>2. TwicePerWindow'
      BY <2>4 DEF LimiterInv, limiterVars, TwicePerWindow
    <3> QED BY <2>4, <3>1, <3>2 DEF LimiterInv, limiterVars, Table, Accounted
  <2> QED BY <2>1, <2>2, <2>3, <2>4 DEF LimiterNext
<1> QED BY <1>1, LimiterStarts, PTL DEF LimiterSpec

\* Around the end of a window a store admits a key at most twice its limit in any
\* stretch shorter than a window, in the database and in memory, whatever requests
\* arrive, fail and time out, and whenever its rows are swept (SecurityRateLimiterService).
THEOREM LimitsHold == LimiterSpec => []TwicePerWindow
<1>1. LimiterInv => TwicePerWindow
  BY DEF LimiterInv
<1> QED BY <1>1, LimiterInvariant, PTL

\* A process remembers at most maxMemoryKeys keys, however its requests interleave.
THEOREM LimiterTypesHold == LimiterSpec => []LimiterTypes
<1>1. LimiterInv => LimiterTypes
  BY DEF LimiterInv
<1> QED BY <1>1, LimiterInvariant, PTL
=============================================================================
