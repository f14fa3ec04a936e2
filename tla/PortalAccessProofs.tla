------------------------- MODULE PortalAccessProofs -------------------------
(***************************************************************************)
(* Proofs about PortalAccess, for any number of requests, sessions and     *)
(* enrollments: a session that the portal accepts was opened with the      *)
(* account's present second factor, and the account never has more workers *)
(* than the portal lists.                                                  *)
(***************************************************************************)
EXTENDS PortalAccess, TLAPS

\* What the argument needs of the types.
Typed ==
    /\ {"version", "factor"} \subseteq DOMAIN account
    /\ account.version \in Nat
    /\ DOMAIN sessions = Tokens
    /\ DOMAIN request = Requests
    /\ \A r \in Requests :
        {"kind", "step", "version", "factor"} \subseteq DOMAIN request[r]
    /\ workers \in Nat

\* A version and a factor that belong together, as of now or of earlier: with
\* the present version goes the present factor.
Known(version, factor) ==
    /\ version \in Nat /\ version <= account.version
    /\ version = account.version => factor = account.factor

\* So it is with what a request has read and what a session is bound to.  An
\* account that does not exist has no factor.
FactorsFit ==
    /\ account.version = 0 => account.factor = 0
    /\ \A r \in Requests : Known(request[r].version, request[r].factor)
    /\ \A t \in Tokens :
        sessions[t] # <<>> =>
            Known(sessions[t][1].version, sessions[t][1].factor)

\* A request between its count and its insertion holds the account's row, so
\* that its count still holds.
CountsHold ==
    /\ \A r \in Requests :
        /\ request[r].step \in {"count", "add"} => rowLock = {r}
        /\ request[r].step = "add" => workers < MaxWorkers
    /\ workers <= MaxWorkers

Inv == Typed /\ FactorsFit /\ CountsHold
-----------------------------------------------------------------------------
(* What steps have in common *)

\* A request that is not being handled knows nothing and holds nothing.
LEMMA NoRequestShape ==
    /\ {"kind", "step", "version", "factor"} \subseteq DOMAIN NoRequest
    /\ NoRequest.version = 0 /\ NoRequest.factor = 0
    /\ NoRequest.step = "none"
  BY DEF NoRequest

\* What is needed of the next value of one request.
Fits(r) ==
    /\ DOMAIN request' = Requests
    /\ {"kind", "step", "version", "factor"} \subseteq DOMAIN request'[r]
    /\ \A q \in Requests \ {r} : request'[q] = request[q]

\* A request is answered.
LEMMA AnsweredFits ==
    ASSUME Inv, NEW r \in Requests, Answered(r)
    PROVE  /\ Fits(r)
           /\ request'[r].version = 0 /\ request'[r].factor = 0
           /\ request'[r].step = "none"
  BY NoRequestShape DEF Inv, Typed, Answered, Fits

\* A request goes on and knows what it knew.
LEMMA GoToFits ==
    ASSUME Inv, NEW r \in Requests, NEW step, GoTo(r, step)
    PROVE  /\ Fits(r)
           /\ request'[r].version = request[r].version
           /\ request'[r].factor = request[r].factor
           /\ request'[r].step = step
  BY DEF Inv, Typed, GoTo, Fits

\* A step of one request that leaves the account's version and factor, the
\* sessions, the others' lock and the workers alone, and ends where it needs no
\* lock.
LEMMA QuietStep ==
    ASSUME Inv, NEW r \in Requests, Fits(r),
           {"version", "factor"} \subseteq DOMAIN account',
           account'.version = account.version,
           account'.factor = account.factor,
           Known(request'[r].version, request'[r].factor),
           request'[r].step \notin {"count", "add"},
           UNCHANGED sessions, rowLock' = rowLock \/ rowLock' = rowLock \ {r},
           UNCHANGED workers
    PROVE  Inv'
<1>1. Typed'
  BY DEF Inv, Typed, Fits
<1>2. FactorsFit'
  BY DEF Inv, Typed, FactorsFit, Known, Fits
<1>3. CountsHold'
  BY DEF Inv, Typed, CountsHold, Fits
<1> QED
  BY <1>1, <1>2, <1>3 DEF Inv

\* A step that only changes the sessions, and the request that takes it.
LEMMA SessionStep ==
    ASSUME Inv, NEW r \in Requests, Answered(r), DOMAIN sessions' = Tokens,
           \A t \in Tokens :
               sessions'[t] = <<>> \/ sessions'[t] = sessions[t]
                   \/ sessions'[t] = <<SessionRow(r)>>,
           UNCHANGED <<account, rowLock, workers>>
    PROVE  Inv'
<1>1. Fits(r) /\ request'[r].version = 0 /\ request'[r].factor = 0
      /\ request'[r].step = "none"
  BY AnsweredFits
<1>2. Typed'
  BY <1>1 DEF Inv, Typed, Fits
<1>3. ASSUME NEW q \in Requests
      PROVE  Known(request[q].version, request[q].factor)'
  BY <1>1 DEF Inv, Typed, FactorsFit, Known, Fits
<1>4. ASSUME NEW t \in Tokens, sessions'[t] # <<>>
      PROVE  Known(sessions[t][1].version, sessions[t][1].factor)'
  <2>1. CASE sessions'[t] = sessions[t]
    BY <1>4, <2>1 DEF Inv, FactorsFit, Known
  <2>2. CASE sessions'[t] = <<SessionRow(r)>>
    BY <2>2 DEF Inv, FactorsFit, Known, SessionRow
  <2> QED
    BY <1>4, <2>1, <2>2
<1>5. FactorsFit'
  BY <1>3, <1>4 DEF Inv, FactorsFit
<1>6. CountsHold'
  BY <1>1 DEF Inv, CountsHold, Fits
<1> QED
  BY <1>2, <1>5, <1>6 DEF Inv

\* A step of nobody's request that leaves the account's version and factor
\* alone.
LEMMA AsideStep ==
    ASSUME Inv, {"version", "factor"} \subseteq DOMAIN account',
           account'.version = account.version,
           account'.factor = account.factor,
           DOMAIN sessions' = Tokens,
           \A t \in Tokens : sessions'[t] \in {<<>>, sessions[t]},
           UNCHANGED <<request, rowLock, workers>>
    PROVE  Inv'
<1>1. Typed'
  BY DEF Inv, Typed
<1>2. FactorsFit'
  BY DEF Inv, FactorsFit, Known
<1>3. CountsHold'
  BY DEF Inv, CountsHold
<1> QED
  BY <1>1, <1>2, <1>3 DEF Inv
-----------------------------------------------------------------------------
(* Requests *)

\* A request that arrives has read nothing yet.
LEMMA ArriveKeeps ==
    ASSUME Inv, NEW r \in Requests,
           \/ \E kind \in {"register", "login"} : Arrive(r, kind)
           \/ \E kind \in DOMAIN FirstStep, t \in Tokens :
                ArriveAuthenticated(r, kind, t)
    PROVE  Inv'
<1>1. Fits(r) /\ request'[r].version = 0 /\ request'[r].factor = 0
      /\ request'[r].step \in {"slot", "read", "delete"}
  <2>1. ASSUME NEW kind \in {"register", "login"}, Arrive(r, kind)
        PROVE  Fits(r) /\ request'[r].version = 0 /\ request'[r].factor = 0
               /\ request'[r].step \in {"slot", "read"}
    BY <2>1 DEF Inv, Typed, Fits, NoRequest, Arrive
  <2>2. ASSUME NEW kind \in DOMAIN FirstStep, NEW t \in Tokens,
               ArriveAuthenticated(r, kind, t)
        PROVE  Fits(r) /\ request'[r].version = 0 /\ request'[r].factor = 0
               /\ request'[r].step \in {"slot", "read", "delete"}
    <3> DEFINE step == FirstStep[kind]
    <3>1. step \in {"slot", "read", "delete"}
      BY DEF FirstStep
    <3>2. request' = [request EXCEPT ![r] = [NoRequest EXCEPT
              !.kind = kind, !.step = step, !.token = {t}]]
      BY <2>2 DEF ArriveAuthenticated
    <3> HIDE DEF step
    <3> QED
      BY <3>1, <3>2 DEF Inv, Typed, Fits, NoRequest
  <2> QED
    BY <2>1, <2>2
<1>2. Known(0, 0)
  BY DEF Inv, Typed, FactorsFit, Known
<1>3. UNCHANGED <<account, sessions, rowLock, workers>>
  BY DEF Arrive, ArriveAuthenticated
<1> QED
  BY <1>1, <1>2, <1>3, QuietStep DEF Inv, Typed

\* A request that reads the account has its present version and factor.
LEMMA ReadAccountKeeps ==
    ASSUME Inv, NEW r \in Requests, ReadAccount(r)
    PROVE  Inv'
<1>1. UNCHANGED <<account, sessions, rowLock, workers>>
  BY DEF ReadAccount
<1>2. Known(0, 0) /\ Known(account.version, account.factor)
  BY DEF Inv, Typed, FactorsFit, Known
<1>3. CASE Answered(r)
  BY <1>1, <1>2, <1>3, AnsweredFits, QuietStep DEF Inv, Typed
<1>4. CASE hashing < Slots
  <2>1. Fits(r) /\ request'[r].version = account.version
        /\ request'[r].factor = account.factor /\ request'[r].step = "hash"
    BY <1>4 DEF Inv, Typed, ReadAccount, Fits
  <2> QED
    BY <1>1, <1>2, <2>1, QuietStep DEF Inv, Typed
<1> QED
  BY <1>3, <1>4 DEF ReadAccount

\* Steps that go on with what the request has read, or answer it.
LEMMA OnwardsKeeps ==
    ASSUME Inv, NEW r \in Requests,
           \/ TakeSlot(r) \/ HashDone(r) \/ RecordFailedLogin(r)
           \/ ClearFailedLogin(r) \/ SavePendingTotp(r) \/ CheckCode(r)
           \/ Cancel(r)
    PROVE  Inv'
<1>1. /\ {"version", "factor"} \subseteq DOMAIN account'
      /\ account'.version = account.version
      /\ account'.factor = account.factor
      /\ UNCHANGED <<sessions, workers>>
      /\ rowLock' = rowLock \/ rowLock' = rowLock \ {r}
  BY DEF Inv, Typed, TakeSlot, HashDone, RecordFailedLogin, ClearFailedLogin,
         SavePendingTotp, CheckCode, Cancel
<1>2. Known(0, 0) /\ Known(request[r].version, request[r].factor)
  BY DEF Inv, Typed, FactorsFit, Known
<1>3. CASE Answered(r)
  BY <1>1, <1>2, <1>3, AnsweredFits, QuietStep
<1>4. CASE \E step \in {"hash", "insert", "lock", "fail", "clear", "session",
                        "save", "activate"} : GoTo(r, step)
  BY <1>1, <1>2, <1>4, GoToFits, QuietStep
<1> QED
  BY <1>3, <1>4 DEF TakeSlot, HashDone, Judge, RecordFailedLogin,
     ClearFailedLogin, SavePendingTotp, CheckCode, Cancel

\* Registration makes the first version; nobody has read it yet.
LEMMA CreateAccountKeeps ==
    ASSUME Inv, NEW r \in Requests, CreateAccount(r)
    PROVE  Inv'
<1>1. Fits(r) /\ request'[r].version = 0 /\ request'[r].factor = 0
      /\ request'[r].step = "none"
  BY AnsweredFits DEF CreateAccount
<1>2. CASE account' = account
  BY <1>1, <1>2, QuietStep DEF Inv, Typed, FactorsFit, Known, CreateAccount
<1>3. CASE account.version = 0
  <2>1. {"version", "factor"} \subseteq DOMAIN account' /\ account'.version = 1
    BY <1>3 DEF Inv, Typed, CreateAccount
  <2>2. Typed'
    BY <1>1, <2>1 DEF Inv, Typed, Fits, CreateAccount
  <2>3. FactorsFit'
    BY <1>1, <1>3, <2>1 DEF Inv, Typed, FactorsFit, Known, Fits, CreateAccount
  <2>4. CountsHold'
    BY <1>1 DEF Inv, CountsHold, Fits, CreateAccount
  <2> QED
    BY <2>2, <2>3, <2>4 DEF Inv
<1> QED
  BY <1>2, <1>3 DEF CreateAccount

\* A session is bound to what its login has read.
LEMMA SessionsKeep ==
    ASSUME Inv, NEW r \in Requests,
           CreateSession(r) \/ Logout(r) \/ DeleteAccountSessions(r)
    PROVE  Inv'
<1>1. Answered(r) /\ UNCHANGED <<account, rowLock, workers>>
  BY DEF CreateSession, Logout, DeleteAccountSessions
<1>2. DOMAIN sessions' = Tokens
  BY DEF Inv, Typed, CreateSession, Logout, DeleteAccountSessions
<1>3. \A t \in Tokens :
        sessions'[t] = <<>> \/ sessions'[t] = sessions[t]
            \/ sessions'[t] = <<SessionRow(r)>>
  BY DEF Inv, Typed, CreateSession, Logout, DeleteAccountSessions
<1> QED
  BY <1>1, <1>2, <1>3, SessionStep

\* A new factor comes with a new version, which nothing was read of yet.
LEMMA ActivateKeeps ==
    ASSUME Inv, NEW r \in Requests, ActivatePendingTotp(r)
    PROVE  Inv'
<1>1. CASE account.pending = 0
  BY <1>1, AnsweredFits, QuietStep
  DEF Inv, Typed, FactorsFit, Known, ActivatePendingTotp
<1>2. CASE account.pending # 0
  <2>1. Fits(r) /\ request'[r].version = request[r].version
        /\ request'[r].factor = request[r].factor /\ request'[r].step = "sweep"
    BY <1>2, GoToFits DEF ActivatePendingTotp
  <2>2. {"version", "factor"} \subseteq DOMAIN account'
        /\ account'.version = account.version + 1
    BY <1>2 DEF Inv, Typed, ActivatePendingTotp
  <2>3. DOMAIN sessions' = Tokens /\ \A t \in Tokens : sessions'[t] = <<>>
    BY <1>2 DEF ActivatePendingTotp
  <2>4. Typed'
    BY <2>1, <2>2, <2>3 DEF Inv, Typed, Fits, ActivatePendingTotp
  <2>5. FactorsFit'
    BY <2>1, <2>2, <2>3 DEF Inv, Typed, FactorsFit, Known, Fits
  <2>6. CountsHold'
    BY <2>1 DEF Inv, CountsHold, Fits, ActivatePendingTotp
  <2> QED
    BY <2>4, <2>5, <2>6 DEF Inv
<1> QED
  BY <1>1, <1>2

\* A worker is provisioned under the lock of the account's row.
LEMMA ProvisionKeeps ==
    ASSUME Inv, NEW r \in Requests,
           LockAccount(r) \/ CountWorkers(r) \/ InsertWorker(r)
    PROVE  Inv'
<1>1. UNCHANGED <<account, sessions>>
  BY DEF LockAccount, CountWorkers, InsertWorker
<1>2. Known(0, 0) /\ Known(request[r].version, request[r].factor)
  BY DEF Inv, Typed, FactorsFit, Known
<1>3. ASSUME Fits(r), Known(request'[r].version, request'[r].factor),
             workers' \in Nat, CountsHold'
      PROVE  Inv'
  <2>1. Typed'
    BY <1>1, <1>3 DEF Inv, Typed, Fits
  <2>2. FactorsFit'
    BY <1>1, <1>3 DEF Inv, FactorsFit, Known, Fits
  <2> QED
    BY <1>3, <2>1, <2>2 DEF Inv
<1>4. CASE LockAccount(r)
  <2>1. Fits(r) /\ request'[r].version = request[r].version
        /\ request'[r].factor = request[r].factor /\ request'[r].step = "count"
    BY <1>4, GoToFits DEF LockAccount
  <2>2. rowLock = {} /\ rowLock' = {r} /\ UNCHANGED workers
    BY <1>4 DEF LockAccount, RowTaken, RowIsFree
  <2>3. CountsHold'
    BY <2>1, <2>2 DEF Inv, CountsHold, Fits
  <2> QED
    BY <1>2, <1>3, <2>1, <2>2, <2>3 DEF Inv, Typed
<1>5. CASE CountWorkers(r)
  <2>1. request[r].step = "count" /\ rowLock = {r} /\ UNCHANGED workers
    BY <1>5 DEF Inv, CountsHold, CountWorkers, At
  <2>2. CASE workers >= MaxWorkers
    BY <1>1, <1>2, <1>5, <2>1, <2>2, AnsweredFits, QuietStep
    DEF Inv, Typed, CountWorkers
  <2>3. CASE ~(workers >= MaxWorkers)
    <3>1. Fits(r) /\ request'[r].version = request[r].version
          /\ request'[r].factor = request[r].factor /\ request'[r].step = "add"
      BY <1>5, <2>3, GoToFits DEF CountWorkers
    <3>2. rowLock' = {r} /\ workers < MaxWorkers
      BY <1>5, <2>1, <2>3, AccessAssumption DEF Inv, Typed, CountWorkers
    <3>3. CountsHold'
      BY <2>1, <3>1, <3>2 DEF Inv, CountsHold, Fits
    <3> QED
      BY <1>2, <1>3, <2>1, <3>1, <3>3 DEF Inv, Typed
  <2> QED
    BY <2>2, <2>3
<1>6. CASE InsertWorker(r)
  <2>1. rowLock = {r} /\ workers < MaxWorkers /\ workers' = workers + 1
    BY <1>6 DEF Inv, CountsHold, InsertWorker, At
  <2>2. Fits(r) /\ request'[r].version = 0 /\ request'[r].factor = 0
        /\ request'[r].step = "none"
    BY <1>6, AnsweredFits DEF InsertWorker
  <2>3. workers' \in Nat /\ workers' <= MaxWorkers
    BY <2>1, AccessAssumption DEF Inv, Typed
  <2>4. CountsHold'
    BY <2>1, <2>2, <2>3 DEF Inv, CountsHold, Fits
  <2> QED
    BY <1>2, <1>3, <2>2, <2>3, <2>4
<1> QED
  BY <1>4, <1>5, <1>6

\* What happens at any time takes sessions away and leaves the factor alone.
LEMMA AsideKeeps ==
    ASSUME Inv,
           \/ AbandonedHashDone \/ LockLapses \/ EnrollmentLapses
           \/ \E t \in Tokens : SessionExpires(t)
    PROVE  Inv'
<1>1. UNCHANGED <<request, rowLock, workers>>
  BY DEF AbandonedHashDone, LockLapses, EnrollmentLapses, SessionExpires
<1>2. {"version", "factor"} \subseteq DOMAIN account'
      /\ account'.version = account.version
      /\ account'.factor = account.factor
  BY DEF Inv, Typed, AbandonedHashDone, LockLapses, EnrollmentLapses,
         SessionExpires
<1>3. DOMAIN sessions' = Tokens
      /\ \A t \in Tokens : sessions'[t] \in {<<>>, sessions[t]}
  BY DEF Inv, Typed, AbandonedHashDone, LockLapses, EnrollmentLapses,
         SessionExpires
<1> QED
  BY <1>1, <1>2, <1>3, AsideStep
-----------------------------------------------------------------------------
\* The invariant holds of every behaviour of the portal.
LEMMA InvHolds == Spec => []Inv
<1>1. Init => Inv
  BY AccessAssumption, NoRequestShape
  DEF Init, Inv, Typed, FactorsFit, Known, CountsHold
<1>2. Inv /\ [Next]_vars => Inv'
  <2> SUFFICES ASSUME Inv, [Next]_vars PROVE Inv'
    OBVIOUS
  <2>1. CASE UNCHANGED vars
    BY <2>1 DEF vars, Inv, Typed, FactorsFit, Known, CountsHold
  <2>2. CASE Next
    BY <2>2, ArriveKeeps, ReadAccountKeeps, OnwardsKeeps, CreateAccountKeeps,
       SessionsKeep, ActivateKeeps, ProvisionKeeps, AsideKeeps
    DEF Next
  <2> QED
    BY <2>1, <2>2
<1> QED
  BY <1>1, <1>2, PTL DEF Spec

\* However logins, enrollments and expiries interleave, and wherever requests
\* are cut off, a session that the portal accepts was opened by a login that
\* gave the account's present second factor.
THEOREM SessionsAlwaysHaveTheFactor == Spec => []SessionsHaveTheFactor
<1>1. Inv => SessionsHaveTheFactor
  BY DEF Inv, FactorsFit, Known, SessionsHaveTheFactor, Accepted
<1> QED
  BY <1>1, InvHolds, PTL

\* However many requests provision workers at once, the account never has more
\* workers than list_workers agrees to list.
THEOREM WorkersAlwaysListable == Spec => []WorkersStayListable
<1>1. Inv => WorkersStayListable
  BY DEF Inv, CountsHold, WorkersStayListable, Listable
<1> QED
  BY <1>1, InvHolds, PTL
=============================================================================
