----------------------------- MODULE PortalAccess -----------------------------
(***************************************************************************)
(* The miner portal's account routes (wcash-pool-portal web.rs) over the   *)
(* PostgreSQL repository (wcash-pool-store portal.rs, postgres.rs):        *)
(* registration, login, browser sessions, the enrollment of a second       *)
(* factor, and the provisioning of workers.  A route reads the account,    *)
(* hashes a password in a blocking task, decides on what it read, and      *)
(* writes with further statements, while other routes run; its future can  *)
(* be dropped at any await.                                                *)
(*                                                                         *)
(* One account name.  Times are left out: a session, a lock or a pending   *)
(* enrollment may expire at any moment.  A second factor is numbered in    *)
(* the order in which the secrets were made, 0 being none.                 *)
(***************************************************************************)
EXTENDS Naturals, FiniteSets

CONSTANTS
    Requests,     \* HTTP requests in progress
    Tokens,       \* session tokens
    Slots,        \* AppState::argon2_slots
    MaxAttempts,  \* max_login_attempts
    MaxWorkers,   \* MAXIMUM_WORKERS_PER_ACCOUNT
    MaxSecrets    \* bound on the enrollments begun

ASSUME AccessAssumption == MaxWorkers \in Nat

VARIABLES
    account,   \* the row: version 0 stands for no row
    sessions,  \* portal_sessions: <<>> or the one row of each token
    secrets,   \* second factors made so far
    request,   \* kind, next step and what it has read, of each request
    hashing,   \* Argon2 operations running, whoever waits for them
    rowLock,   \* the request whose transaction holds the account's row: {} or {r}
    workers    \* rows of the account in the table of workers

vars == <<account, sessions, secrets, request, hashing, rowLock, workers>>

NoRequest == [kind |-> "none", step |-> "none", token |-> {}, version |-> 0, factor |-> 0, locked |-> FALSE]

Init ==
    /\ account = [version |-> 0, factor |-> 0, pending |-> 0, failed |-> 0, locked |-> FALSE]
    /\ sessions = [t \in Tokens |-> <<>>]
    /\ secrets = 0
    /\ request = [r \in Requests |-> NoRequest]
    /\ hashing = 0 /\ rowLock = {} /\ workers = 0

At(r, kinds, step) == request[r].kind \in kinds /\ request[r].step = step
GoTo(r, step) == request' = [request EXCEPT ![r].step = step]
Answered(r) == request' = [request EXCEPT ![r] = NoRequest]
RowIsFree == rowLock = {}

(***************************************************************************)
(* A request begins: a session token is looked up for all but two routes   *)
(***************************************************************************)
\* authenticate_portal_session: the row, bound to the account's version.
Accepted(t) == sessions[t] # <<>> /\ sessions[t][1].version = account.version

Arrive(r, kind) ==
    /\ request[r] = NoRequest
    /\ request' = [request EXCEPT ![r] = [NoRequest EXCEPT !.kind = kind,
                     !.step = IF kind = "register" THEN "slot" ELSE "read"]]
    /\ UNCHANGED <<account, sessions, secrets, hashing, rowLock, workers>>

FirstStep ==
    [begin_totp |-> "read", confirm_totp |-> "read", payout_setting |-> "read",
     create_worker |-> "slot", logout |-> "delete"]

ArriveAuthenticated(r, kind, t) ==
    /\ request[r] = NoRequest /\ Accepted(t)
    /\ request' = [request EXCEPT ![r] = [NoRequest EXCEPT !.kind = kind,
                     !.step = FirstStep[kind], !.token = {t}]]
    /\ UNCHANGED <<account, sessions, secrets, hashing, rowLock, workers>>

(***************************************************************************)
(* Passwords                                                               *)
(***************************************************************************)
Hashes == {"login", "begin_totp", "payout_setting"}

\* The account is read, and a slot taken at once or the answer is "busy".
ReadAccount(r) ==
    /\ At(r, Hashes, "read")
    /\ IF hashing < Slots
       THEN /\ request' = [request EXCEPT ![r].version = account.version, ![r].factor = account.factor,
                                          ![r].locked = account.locked, ![r].step = "hash"]
            /\ hashing' = hashing + 1
       ELSE Answered(r) /\ UNCHANGED hashing
    /\ UNCHANGED <<account, sessions, secrets, rowLock, workers>>

\* argon2_operation_slot for a new password or a new mining token.
TakeSlot(r) ==
    /\ At(r, {"register", "create_worker"}, "slot")
    /\ IF hashing < Slots
       THEN GoTo(r, "hash") /\ hashing' = hashing + 1
       ELSE Answered(r) /\ UNCHANGED hashing
    /\ UNCHANGED <<account, sessions, secrets, rowLock, workers>>

\* The password and the code are judged on the account as it was read; a lock
\* that it had may have lapsed.  A locked account is not counted against.
Judge(r) ==
    \/ request[r].version = 0 /\ Answered(r)
    \/ request[r].locked /\ Answered(r)
    \/ request[r].version # 0 /\ GoTo(r, "fail")
    \/ request[r].version # 0 /\ GoTo(r, "clear")

HashDone(r) ==
    /\ request[r].step = "hash"
    /\ hashing' = hashing - 1
    /\ CASE request[r].kind = "register" -> GoTo(r, "insert")
         [] request[r].kind = "create_worker" -> GoTo(r, "lock")
         [] OTHER -> Judge(r)
    /\ UNCHANGED <<account, sessions, secrets, rowLock, workers>>

RecordFailedLogin(r) ==
    /\ request[r].step = "fail" /\ RowIsFree
    /\ LET attempts == account.failed + 1
       IN  account' = [account EXCEPT !.failed = IF attempts < MaxAttempts THEN attempts ELSE MaxAttempts,
                                      !.locked = @ \/ attempts >= MaxAttempts]
    /\ Answered(r)
    /\ UNCHANGED <<sessions, secrets, hashing, rowLock, workers>>

ClearFailedLogin(r) ==
    /\ request[r].step = "clear" /\ RowIsFree
    /\ account' = [account EXCEPT !.failed = 0, !.locked = FALSE]
    /\ CASE request[r].kind = "login" -> GoTo(r, "session")
         [] request[r].kind = "begin_totp" -> GoTo(r, "save")
         [] OTHER -> Answered(r)
    /\ UNCHANGED <<sessions, secrets, hashing, rowLock, workers>>

\* register: the insertion, which a row of that name refuses.
CreateAccount(r) ==
    /\ At(r, {"register"}, "insert")
    /\ account' = IF account.version = 0 THEN [account EXCEPT !.version = 1] ELSE account
    /\ Answered(r)
    /\ UNCHANGED <<sessions, secrets, hashing, rowLock, workers>>

(***************************************************************************)
(* Sessions and second factors                                             *)
(***************************************************************************)
\* The session is bound to the account as it is when the row is inserted.
SessionRowNow(r) == [version |-> account.version, factor |-> request[r].factor]

\* The session is bound to the account as the login read it.
SessionRow(r) == [version |-> request[r].version, factor |-> request[r].factor]

\* The token is new; "factor" is the second factor that the login was given.
CreateSession(r) ==
    /\ At(r, {"login"}, "session")
    /\ \E t \in Tokens :
          /\ sessions[t] = <<>>
          /\ sessions' = [sessions EXCEPT ![t] = <<SessionRow(r)>>]
    /\ Answered(r)
    /\ UNCHANGED <<account, secrets, hashing, rowLock, workers>>

Logout(r) ==
    /\ At(r, {"logout"}, "delete")
    /\ sessions' = [t \in Tokens |-> IF t \in request[r].token THEN <<>> ELSE sessions[t]]
    /\ Answered(r)
    /\ UNCHANGED <<account, secrets, hashing, rowLock, workers>>

SavePendingTotp(r) ==
    /\ At(r, {"begin_totp"}, "save") /\ RowIsFree
    /\ secrets < MaxSecrets
    /\ secrets' = secrets + 1
    /\ account' = [account EXCEPT !.pending = secrets + 1]
    /\ Answered(r)
    /\ UNCHANGED <<sessions, hashing, rowLock, workers>>

\* confirm_totp checks the code against the enrollment that it reads ...
CheckCode(r) ==
    /\ At(r, {"confirm_totp"}, "read")
    /\ \/ account.pending # 0 /\ GoTo(r, "activate")
       \/ Answered(r)
    /\ UNCHANGED <<account, sessions, secrets, hashing, rowLock, workers>>

\* ... and one transaction makes the enrollment that is pending by then the
\* factor, moves the version on and deletes the sessions.
ActivatePendingTotp(r) ==
    /\ At(r, {"confirm_totp"}, "activate") /\ RowIsFree
    /\ IF account.pending = 0
       THEN Answered(r) /\ UNCHANGED <<account, sessions>>
       ELSE /\ account' = [account EXCEPT !.factor = account.pending, !.pending = 0, !.version = @ + 1]
            /\ sessions' = [t \in Tokens |-> <<>>]
            /\ GoTo(r, "sweep")
    /\ UNCHANGED <<secrets, hashing, rowLock, workers>>

DeleteAccountSessions(r) ==
    /\ At(r, {"confirm_totp"}, "sweep")
    /\ sessions' = [t \in Tokens |-> <<>>]
    /\ Answered(r)
    /\ UNCHANGED <<account, secrets, hashing, rowLock, workers>>

(***************************************************************************)
(* provision_worker_at: a transaction over the account's row               *)
(***************************************************************************)
\* The row is read and not locked.
RowSeen(r) == RowIsFree /\ UNCHANGED rowLock

\* SELECT ... FOR UPDATE
RowTaken(r) == RowIsFree /\ rowLock' = {r}

LockAccount(r) ==
    /\ At(r, {"create_worker"}, "lock")
    /\ RowTaken(r)
    /\ GoTo(r, "count")
    /\ UNCHANGED <<account, sessions, secrets, hashing, workers>>

CountWorkers(r) ==
    /\ At(r, {"create_worker"}, "count")
    /\ IF workers >= MaxWorkers
       THEN Answered(r) /\ rowLock' = rowLock \ {r}
       ELSE GoTo(r, "add") /\ UNCHANGED rowLock
    /\ UNCHANGED <<account, sessions, secrets, hashing, workers>>

InsertWorker(r) ==
    /\ At(r, {"create_worker"}, "add")
    /\ workers' = workers + 1
    /\ rowLock' = rowLock \ {r}
    /\ Answered(r)
    /\ UNCHANGED <<account, sessions, secrets, hashing>>

\* list_workers answers, or finds the table in a state it calls invalid.
Listable == workers <= MaxWorkers

(***************************************************************************)
(* What may happen at any time                                             *)
(***************************************************************************)
\* The future is dropped: an open transaction rolls back, a hash runs on.
Cancel(r) ==
    /\ request[r] # NoRequest
    /\ Answered(r)
    /\ rowLock' = rowLock \ {r}
    /\ UNCHANGED <<account, sessions, secrets, hashing, workers>>

AbandonedHashDone ==
    /\ hashing > Cardinality({r \in Requests : request[r].step = "hash"})
    /\ hashing' = hashing - 1
    /\ UNCHANGED <<account, sessions, secrets, request, rowLock, workers>>

SessionExpires(t) ==
    /\ sessions[t] # <<>>
    /\ sessions' = [sessions EXCEPT ![t] = <<>>]
    /\ UNCHANGED <<account, secrets, request, hashing, rowLock, workers>>

LockLapses ==
    /\ account.locked
    /\ account' = [account EXCEPT !.locked = FALSE]
    /\ UNCHANGED <<sessions, secrets, request, hashing, rowLock, workers>>

EnrollmentLapses ==
    /\ account.pending # 0
    /\ account' = [account EXCEPT !.pending = 0]
    /\ UNCHANGED <<sessions, secrets, request, hashing, rowLock, workers>>

Next ==
    \/ \E r \in Requests :
          \/ \E kind \in {"register", "login"} : Arrive(r, kind)
          \/ \E kind \in DOMAIN FirstStep, t \in Tokens : ArriveAuthenticated(r, kind, t)
          \/ ReadAccount(r) \/ TakeSlot(r) \/ HashDone(r)
          \/ RecordFailedLogin(r) \/ ClearFailedLogin(r) \/ CreateAccount(r)
          \/ CreateSession(r) \/ Logout(r)
          \/ SavePendingTotp(r) \/ CheckCode(r)
          \/ ActivatePendingTotp(r) \/ DeleteAccountSessions(r)
          \/ LockAccount(r) \/ CountWorkers(r) \/ InsertWorker(r)
          \/ Cancel(r)
    \/ AbandonedHashDone
    \/ \E t \in Tokens : SessionExpires(t)
    \/ LockLapses \/ EnrollmentLapses

Spec == Init /\ [][Next]_vars

(***************************************************************************)
(* Properties                                                              *)
(***************************************************************************)

\* A session that the portal accepts was opened by a login that gave the
\* account's present second factor: neither a session opened before the factor
\* was enrolled, nor a login that read the account before and inserts its
\* session after, gets past the enrollment (web.rs login, confirm_totp;
\* postgres.rs activate_pending_totp, authenticate_portal_session).
SessionsHaveTheFactor ==
    \A t \in Tokens : Accepted(t) => sessions[t][1].factor = account.factor

\* However many requests provision workers at once, and wherever they are cut
\* off, the account never has more workers than list_workers agrees to list
\* (portal.rs provision_worker_at, list_workers).
WorkersStayListable == Listable
===============================================================================
