---------------------------- MODULE FrontendAuth ----------------------------
(***************************************************************************)
(* Names, passwords and sessions of the browser frontend                   *)
(* (service/frontend_auth.py over the auth_ tables).  Requests run in the  *)
(* threads of the API server, `user provision` in a process of its own;    *)
(* each statement is a transaction, and hashing a password leaves time     *)
(* between the statement before it and the one after.                      *)
(*                                                                         *)
(* One name is modelled: every table is keyed by it.  Registration is      *)
(* enabled and the name allowed.  Login attempts that succeed are recorded *)
(* and deleted by the same request, and never counted: they are left out.  *)
(***************************************************************************)
EXTENDS Naturals, Sequences, FiniteSets

CONSTANTS
    Clients,          \* requests under way at once
    Passwords,
    NoPassword,
    MaxFailures,      \* login_attempt_max_failures
    AttemptWindow,    \* login_attempt_window_seconds, in ticks
    IdleTimeout,      \* session_idle_timeout_seconds, in ticks
    SessionLife,      \* session_days, in ticks
    MaxNow,           \* bound: ticks
    MaxRequests       \* bound: requests

ASSUME AuthAssumption ==
    /\ IsFiniteSet(Clients) /\ Clients # {} /\ NoPassword \notin Passwords
    /\ MaxFailures \in Nat \ {0} /\ AttemptWindow \in Nat
    /\ IdleTimeout \in Nat /\ SessionLife \in Nat
    /\ MaxNow \in Nat \ {0} /\ MaxRequests \in Nat

VARIABLES
    now,
    user,             \* whether auth_users has the name
    credential,       \* auth_local_credentials: its password
    attempts,         \* auth_login_attempts: when each failure was
    sessions,         \* auth_sessions: opened, last seen, revoked
    request,          \* what each client is at
    requests,         \* bound
    chosen,           \* history: the password last reported as set
    overlapped        \* history: two settings of the password at once, or one cut

authVars == <<now, user, credential, attempts, sessions, request, requests,
              chosen, overlapped>>

Idle == [phase |-> "idle", kind |-> "none", password |-> NoPassword, reset |-> FALSE,
         session |-> 0]

Setting(c) == request[c].phase \in {"create", "check", "set", "issue"}
              /\ request[c].kind # "login"

AuthInit ==
    /\ now = 1
    /\ user = FALSE
    /\ credential = NoPassword
    /\ attempts = <<>>
    /\ sessions = <<>>
    /\ request = [c \in Clients |-> Idle]
    /\ requests = 0
    /\ chosen = NoPassword
    /\ overlapped = FALSE

Begin(c, r) ==
    /\ request[c].phase = "idle"
    /\ requests < MaxRequests
    /\ requests' = requests + 1
    /\ request' = [request EXCEPT ![c] = r]
    /\ overlapped' = (overlapped \/ (r.kind # "login" /\ r.phase \in {"create", "check"}
                                      /\ \E d \in Clients : Setting(d)))
    /\ UNCHANGED <<now, user, credential, attempts, sessions, chosen>>

Goes(c, phase) == request' = [request EXCEPT ![c].phase = phase]

Ends(c) == request' = [request EXCEPT ![c] = Idle]

-----------------------------------------------------------------------------
(* Registration and provisioning *)

(* A taken name is refused.                                                *)
Register(c, p) ==
    /\ ~user
    /\ Begin(c, [Idle EXCEPT !.phase = "create", !.kind = "register", !.password = p])

Provision(c, p, reset) ==
    Begin(c, [Idle EXCEPT !.phase = IF user THEN "check" ELSE "create",
                          !.kind = "provision", !.password = p, !.reset = reset])

(* The name is unique: a second insert raises.                             *)
CreateUser(c) ==
    /\ request[c].phase = "create"
    /\ user' = TRUE
    /\ IF user THEN Ends(c)
       ELSE Goes(c, IF request[c].kind = "register" THEN "set" ELSE "check")
    /\ UNCHANGED <<now, credential, attempts, sessions, requests, chosen, overlapped>>

(* Provisioning does not overwrite a password unless it is told to.        *)
Refused(c) == credential # NoPassword /\ ~request[c].reset

CheckCredential(c) ==
    /\ request[c].phase = "check"
    /\ IF Refused(c) THEN Ends(c) ELSE Goes(c, "set")
    /\ UNCHANGED <<now, user, credential, attempts, sessions, requests, chosen, overlapped>>

Upserted_keepFirst(old, new) == IF old = NoPassword THEN new ELSE old

Upserted(old, new) == new

SetCredential(c) ==
    /\ request[c].phase = "set"
    /\ credential' = Upserted(credential, request[c].password)
    /\ IF request[c].kind = "register"
       THEN Goes(c, "issue") /\ UNCHANGED chosen
       ELSE Ends(c) /\ chosen' = request[c].password
    /\ UNCHANGED <<now, user, attempts, sessions, requests, overlapped>>

(* A session is opened and the request answered.                           *)
Issue(c) ==
    /\ request[c].phase = "issue"
    /\ sessions' = Append(sessions, [opened |-> now, seen |-> now, revoked |-> FALSE])
    /\ chosen' = IF request[c].kind = "register" THEN request[c].password ELSE chosen
    /\ Ends(c)
    /\ UNCHANGED <<now, user, credential, attempts, requests, overlapped>>

-----------------------------------------------------------------------------
(* Login *)

Failures == Cardinality({i \in DOMAIN attempts : attempts[i] + AttemptWindow >= now})

Blocked_above == Failures > MaxFailures

(* Too many failures in the window.                                        *)
Blocked == Failures >= MaxFailures

Login(c, p) ==
    /\ ~Blocked
    /\ Begin(c, [Idle EXCEPT !.phase = "verify", !.kind = "login", !.password = p])

Verify(c) ==
    /\ request[c].phase = "verify"
    /\ Goes(c, IF user /\ credential = request[c].password THEN "clear" ELSE "fail")
    /\ UNCHANGED <<now, user, credential, attempts, sessions, requests, chosen, overlapped>>

(* The failure is counted; what the client is told depends on the count.   *)
RecordFailure(c) ==
    /\ request[c].phase = "fail"
    /\ attempts' = Append(attempts, now)
    /\ Ends(c)
    /\ UNCHANGED <<now, user, credential, sessions, requests, chosen, overlapped>>

ClearAttempts(c) ==
    /\ request[c].phase = "clear"
    /\ attempts' = <<>>
    /\ Goes(c, "issue")
    /\ UNCHANGED <<now, user, credential, sessions, requests, chosen, overlapped>>

-----------------------------------------------------------------------------
(* Sessions *)

IdleExpired(s) == sessions[s].seen + IdleTimeout <= now

Live(s) == /\ ~sessions[s].revoked
           /\ sessions[s].opened + SessionLife > now
           /\ ~IdleExpired(s)

(* A cookie is looked up.  A live session is touched, one that has run out *)
(* revoked, each by a statement of its own.                                *)
Resolve(c, s) ==
    /\ ~sessions[s].revoked
    /\ Begin(c, [Idle EXCEPT !.phase = IF Live(s) THEN "touch" ELSE "revoke",
                             !.kind = "login", !.session = s])

Touch(c) ==
    LET s == request[c].session IN
    /\ request[c].phase = "touch"
    /\ sessions' = IF sessions[s].revoked THEN sessions
                   ELSE [sessions EXCEPT ![s].seen = now]
    /\ Ends(c)
    /\ UNCHANGED <<now, user, credential, attempts, requests, chosen, overlapped>>

(* Logout, and the revocation of one session from another.                 *)
Logout(c, s) ==
    /\ ~sessions[s].revoked
    /\ Begin(c, [Idle EXCEPT !.phase = "revoke", !.kind = "login", !.session = s])

Revoke(c) ==
    /\ request[c].phase = "revoke"
    /\ sessions' = [sessions EXCEPT ![request[c].session].revoked = TRUE]
    /\ Ends(c)
    /\ UNCHANGED <<now, user, credential, attempts, requests, chosen, overlapped>>

-----------------------------------------------------------------------------
Tick ==
    /\ now < MaxNow
    /\ now' = now + 1
    /\ UNCHANGED <<user, credential, attempts, sessions, request, requests,
                   chosen, overlapped>>

(* A request dies between two statements, or finds the database locked.    *)
Die(c) ==
    /\ request[c].phase # "idle"
    /\ Ends(c)
    /\ overlapped' = (overlapped \/ Setting(c))
    /\ UNCHANGED <<now, user, credential, attempts, sessions, requests, chosen>>

AuthNext ==
    \/ Tick
    \/ \E c \in Clients :
         \/ \E p \in Passwords :
              \/ Register(c, p) \/ Login(c, p)
              \/ \E reset \in BOOLEAN : Provision(c, p, reset)
         \/ \E s \in DOMAIN sessions : Resolve(c, s) \/ Logout(c, s)
         \/ CreateUser(c) \/ CheckCredential(c) \/ SetCredential(c) \/ Issue(c)
         \/ Verify(c) \/ RecordFailure(c) \/ ClearAttempts(c)
         \/ Touch(c) \/ Revoke(c) \/ Die(c)

AuthSpec == AuthInit /\ [][AuthNext]_authVars

-----------------------------------------------------------------------------
(* Properties *)

AuthTypeOK ==
    /\ now \in 1 .. MaxNow
    /\ user \in BOOLEAN
    /\ credential \in Passwords \union {NoPassword}
    /\ attempts \in Seq(1 .. MaxNow)
    /\ sessions \in Seq([opened : 1 .. MaxNow, seen : 1 .. MaxNow, revoked : BOOLEAN])
    /\ request \in [Clients ->
         [phase : {"idle", "create", "check", "set", "issue", "verify", "fail", "clear",
                   "touch", "revoke"},
          kind : {"none", "register", "provision", "login"},
          password : Passwords \union {NoPassword}, reset : BOOLEAN, session : Nat]]
    /\ requests \in 0 .. MaxRequests
    /\ chosen \in Passwords \union {NoPassword}
    /\ overlapped \in BOOLEAN

(* Requests that verify at once can take the failures of a window beyond   *)
(* the limit, but by no more than one each, less the last that was allowed *)
(* (login_frontend_user checks before it verifies and records after).      *)
FailuresBounded == Failures <= MaxFailures - 1 + Cardinality(Clients)

(* A name without a password cannot log in and cannot be registered, and a *)
(* password in force that nobody was told of lets no one in: the first     *)
(* happens only while a request is under way or to one that was cut, and   *)
(* the password is the last one reported as set, unless two were set at    *)
(* once, or a request that set one was cut or has yet to answer            *)
(* (register_frontend_user and provision_frontend_user write in steps).    *)
CredentialsStand ==
    \/ overlapped
    \/ /\ user /\ credential = NoPassword =>
             \E c \in Clients : request[c].phase \in {"check", "set"}
       /\ credential = chosen
          \/ \E c \in Clients : request[c].phase = "issue" /\ request[c].kind = "register"
=============================================================================
