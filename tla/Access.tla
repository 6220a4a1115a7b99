------------------------------- MODULE Access -------------------------------
(***************************************************************************)
(* Accounts, logins and sessions (create-auth-principal.cli, AuthService,  *)
(* AuthController, AuthGuard).  A visit is an HTTP request: a login, which *)
(* passes the rate limits, reads the account, checks the password against  *)
(* what it read and inserts a session; or a request with a session token,  *)
(* which the guard admits once, at its start, and whose work follows.      *)
(*                                                                         *)
(* A session is named after the login that created it: tokens are random.  *)
(* Accounts are disabled and enabled by an operator, outside the program.  *)
(* The limits are RateLimiter's; here they let a login through or not.     *)
(***************************************************************************)
EXTENDS Naturals, FiniteSets

CONSTANTS
  Visits,           \* requests in progress at a time; each may log in once
  Creators,         \* invocations of the command that creates an account
  EmailOf, BusinessOf,  \* the email and business each is given
  Emails, Businesses,
  Existing,         \* the businesses that exist
  TTL,              \* KASICASH_AUTH_SESSION_TTL_MINUTES
  LastHour,         \* bound: the last instant of a behaviour
  NOBODY

ASSUME AccountAssumption ==
  /\ EmailOf \in [Creators -> Emails] /\ BusinessOf \in [Creators -> Businesses]
  /\ NOBODY \notin Creators \cup Visits \cup Emails
  /\ TTL \in Nat \ {0} /\ LastHour \in Nat /\ Existing \subseteq Businesses

VARIABLES
  hour,        \* the clock
  principals,  \* rows of auth_principals, by creator: email, business, status
  creator,     \* per creator: where the command is
  sessions,    \* rows of auth_sessions, by login: principal, times, revoked
  visit,       \* per visit: where it is and what it is about
  ended,       \* sessions whose logout was answered
  cookies      \* sessions whose login was answered

accessVars == <<hour, principals, creator, sessions, visit, ended, cookies>>

Idle == [pc |-> "idle", kind |-> "none", email |-> NOBODY, snapshot |-> NOBODY,
         token |-> NOBODY]

AccessInit ==
  /\ hour = 0
  /\ principals = [c \in {} |-> NOBODY]
  /\ creator = [c \in Creators |-> "new"]
  /\ sessions = [s \in {} |-> NOBODY]
  /\ visit = [v \in Visits |-> Idle]
  /\ ended = {} /\ cookies = {}

On(v, pc) == visit[v].pc = pc
Goto(v, pc) == visit' = [visit EXCEPT ![v].pc = pc]
Done(v) == visit' = [visit EXCEPT ![v] = Idle]
Plus(table, k, row) == [j \in DOMAIN table \cup {k} |-> IF j = k THEN row ELSE table[j]]

-----------------------------------------------------------------------------
(* Creating an account.                                                    *)

\* Mutant: only the lookup keeps emails apart.
EmailTaken_Never(c) == FALSE

\* UQ_auth_principals_email_normalized.
EmailTaken(c) == \E d \in DOMAIN principals : principals[d].email = EmailOf[c]

\* Both lookups; the password is hashed after them.
LookBeforeCreating(c) ==
  /\ creator[c] = "new"
  /\ creator' = [creator EXCEPT ![c] =
       IF BusinessOf[c] \in Existing /\ \A d \in DOMAIN principals : principals[d].email # EmailOf[c]
       THEN "insert" ELSE "refused"]
  /\ UNCHANGED <<hour, principals, sessions, visit, ended, cookies>>

CreatePrincipal(c) ==
  /\ creator[c] = "insert"
  /\ IF EmailTaken(c)
     THEN creator' = [creator EXCEPT ![c] = "refused"] /\ principals' = principals
     ELSE /\ creator' = [creator EXCEPT ![c] = "created"]
          /\ principals' = Plus(principals, c,
               [email |-> EmailOf[c], business |-> BusinessOf[c], status |-> "ACTIVE"])
  /\ UNCHANGED <<hour, sessions, visit, ended, cookies>>

\* External: an operator changes the status.
SetStatus(c, status) ==
  /\ c \in DOMAIN principals /\ principals[c].status # status
  /\ principals' = [principals EXCEPT ![c].status = status]
  /\ UNCHANGED <<hour, creator, sessions, visit, ended, cookies>>

-----------------------------------------------------------------------------
(* Login.                                                                  *)

StartLogin(v, email) ==
  /\ On(v, "idle") /\ v \notin DOMAIN sessions
  /\ visit' = [visit EXCEPT ![v] = [Idle EXCEPT !.pc = "login", !.kind = "login", !.email = email]]
  /\ UNCHANGED <<hour, principals, creator, sessions, ended, cookies>>

\* Past the limits: the account as it is now, against which the password is verified.
\* A visit that finds no account, a disabled one or another password is refused.
ReadPrincipal(v) ==
  /\ On(v, "login")
  /\ \E d \in DOMAIN principals :
       /\ principals[d].email = visit[v].email /\ principals[d].status = "ACTIVE"
       /\ visit' = [visit EXCEPT ![v] = [@ EXCEPT !.pc = "verified", !.snapshot = d]]
  /\ UNCHANGED <<hour, principals, creator, sessions, ended, cookies>>

\* The session, whatever became of the account while the password was hashed.
InsertSession(v) ==
  /\ On(v, "verified") /\ Goto(v, "inserted")
  /\ sessions' = Plus(sessions, v, [principal |-> visit[v].snapshot, createdAt |-> hour,
                                   expiresAt |-> hour + TTL, revoked |-> FALSE])
  /\ UNCHANGED <<hour, principals, creator, ended, cookies>>

\* The token reaches the client.
AnswerLogin(v) ==
  /\ On(v, "inserted") /\ Done(v)
  /\ cookies' = cookies \cup {v}
  /\ UNCHANGED <<hour, principals, creator, sessions, ended>>

-----------------------------------------------------------------------------
(* Requests with a session.                                                *)

StartRequest(v, s, kind) ==
  /\ On(v, "idle") /\ s \in cookies
  /\ visit' = [visit EXCEPT ![v] = [Idle EXCEPT !.pc = "guard", !.kind = kind, !.token = s]]
  /\ UNCHANGED <<hour, principals, creator, sessions, ended, cookies>>

\* Mutant: the account is looked at when it logs in, not when its session is used.
SessionValid_AnyStatus(s) == ~sessions[s].revoked /\ sessions[s].expiresAt > hour

\* The WHERE clause of authenticateToken.
SessionValid(s) ==
  /\ ~sessions[s].revoked /\ sessions[s].expiresAt > hour
  /\ principals[sessions[s].principal].status = "ACTIVE"

\* AuthGuard.canActivate: the one check of the request.
Guard(v) ==
  /\ On(v, "guard")
  /\ SessionValid(visit[v].token) /\ Goto(v, "admitted")
  /\ UNCHANGED <<hour, principals, creator, sessions, ended, cookies>>

\* The work of an admitted request, which does not look at the session again.
Work(v) ==
  /\ On(v, "admitted") /\ visit[v].kind = "request" /\ Done(v)
  /\ UNCHANGED <<hour, principals, creator, sessions, ended, cookies>>

\* revokeToken, which spares a session that another logout has revoked.
Revoke(v) ==
  /\ On(v, "admitted") /\ visit[v].kind = "logout" /\ Goto(v, "revoked")
  /\ sessions' = [sessions EXCEPT ![visit[v].token].revoked = TRUE]
  /\ UNCHANGED <<hour, principals, creator, ended, cookies>>

AnswerLogout(v) ==
  /\ On(v, "revoked") /\ Done(v)
  /\ ended' = ended \cup {visit[v].token}
  /\ UNCHANGED <<hour, principals, creator, sessions, cookies>>

\* Any visit may end without success: over a limit, not let in, or because a statement
\* failed or its answer was lost.
Refuse(v) ==
  /\ ~On(v, "idle") /\ Done(v)
  /\ UNCHANGED <<hour, principals, creator, sessions, ended, cookies>>

HourPasses ==
  /\ hour < LastHour /\ hour' = hour + 1
  /\ UNCHANGED <<principals, creator, sessions, visit, ended, cookies>>

AccessNext ==
  \/ \E c \in Creators : \/ LookBeforeCreating(c) \/ CreatePrincipal(c)
                         \/ \E status \in {"ACTIVE", "DISABLED"} : SetStatus(c, status)
  \/ \E v \in Visits :
       \/ ReadPrincipal(v) \/ InsertSession(v) \/ AnswerLogin(v)
       \/ Guard(v) \/ Work(v) \/ Revoke(v) \/ AnswerLogout(v) \/ Refuse(v)
       \/ \E email \in Emails : StartLogin(v, email)
       \/ \E s \in cookies, kind \in {"request", "logout"} : StartRequest(v, s, kind)
  \/ HourPasses

AccessSpec == AccessInit /\ [][AccessNext]_accessVars

-----------------------------------------------------------------------------
(* Properties.                                                             *)

PrincipalRow == [email : Emails, business : Businesses, status : {"ACTIVE", "DISABLED"}]
SessionRow == [principal : Creators, createdAt : Nat, expiresAt : Nat, revoked : BOOLEAN]

\* Accounts, sessions and visits are of their tables, and every session is one of
\* an account on record (auth_principals, auth_sessions).
AccessTypes ==
  /\ hour \in Nat
  /\ DOMAIN principals \subseteq Creators
  /\ \A c \in DOMAIN principals : principals[c] \in PrincipalRow
  /\ creator \in [Creators -> {"new", "insert", "created", "refused"}]
  /\ DOMAIN sessions \subseteq Visits
  /\ \A s \in DOMAIN sessions : /\ sessions[s] \in SessionRow
                              /\ sessions[s].principal \in DOMAIN principals
  /\ \A v \in Visits :
       /\ visit[v].pc \in {"verified"} => visit[v].snapshot \in DOMAIN principals
       /\ visit[v].pc \in {"guard", "admitted", "revoked"} => visit[v].token \in DOMAIN sessions
  /\ cookies \subseteq DOMAIN sessions /\ ended \subseteq DOMAIN sessions

\* An email has one account, of a business that exists and for good, however many
\* commands race to create it (create-auth-principal.cli): a login can only ever
\* reach that one business.
OneAccountPerEmail ==
  \A c, d \in DOMAIN principals :
    /\ principals[c].email = principals[d].email => c = d
    /\ principals[c].business = BusinessOf[c] /\ BusinessOf[c] \in Existing

\* No request is let in with a session whose logout was answered, that has outlived
\* its time since the login, or whose account is disabled at the moment, in whatever
\* order logins, logouts, checks and the operator interleave (AuthGuard).
NoEntryAfterEnd ==
  [][\A v \in Visits :
       ~On(v, "admitted") /\ visit'[v].pc = "admitted" =>
         LET s == visit[v].token IN
         /\ s \notin ended /\ hour < sessions[s].createdAt + TTL
         /\ principals[sessions[s].principal].status = "ACTIVE"]_accessVars
=============================================================================
