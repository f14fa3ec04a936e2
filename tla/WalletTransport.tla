--------------------------- MODULE WalletTransport ---------------------------
(***************************************************************************)
(* The boundary to Wolf's payout command: each call of the wallet is a     *)
(* child process, run under one lock and a deadline, and what became of it *)
(* is told from its exit status and its output.  Two threads call.  The    *)
(* payer signs one batch (identity, recover, sign, inspect, broadcast) and *)
(* starts over when a call fails.  The observer syncs the wallet and reads *)
(* its balance.                                                            *)
(*                                                                         *)
(* A refusal ends the batch: a rejected signing is cancelled and its debts *)
(* are paid by another batch.  Every other failure is retried.             *)
(*                                                                         *)
(* The wallet is external: it may hang, die or answer anything, but says   *)
(* "rejected" or "conflict" only of a batch that it has not signed, and of *)
(* a transaction that it has not sent.                                     *)
(***************************************************************************)
EXTENDS Naturals

VARIABLES
    pinned,   \* the executable still has the digest that was reviewed
    lock,     \* invocation_lock: who holds it
    at,       \* where each caller is
    op,       \* the command that it runs, or runs next
    child,    \* the wallet processes
    signed,   \* the wallet has bound the batch to a transaction
    sent,     \* the node has that transaction
    behind,   \* the wallet has not scanned up to the tip
    batch     \* "open", or how it ended

vars == <<pinned, lock, at, op, child, signed, sent, behind, batch>>
wallet == <<signed, sent, behind>>

Callers == {"payer", "observer"}
Free == "nobody"

NoChild == [alive |-> FALSE, fed |-> FALSE, good |-> FALSE, out |-> "", err |-> ""]
Started == [NoChild EXCEPT !.alive = TRUE]

\* Where a caller begins.
First(c) == IF c = "payer" THEN "identity" ELSE "sync"

Init ==
    /\ pinned = TRUE /\ lock = Free
    /\ at = [c \in Callers |-> "idle"]
    /\ op = [c \in Callers |-> First(c)]
    /\ child = [c \in Callers |-> NoChild]
    /\ signed = FALSE /\ sent = FALSE /\ behind = TRUE
    /\ batch = "open"

-----------------------------------------------------------------------------
(* What a failed call is taken for *)

\* InvokeError
BeforeSpawn == {"Preflight", "Busy", "Spawn"}

\* map_readonly_invoke_error: of an exit, the code that the wallet gave.
Readonly(e) ==
    CASE e = "TimedOut" -> "Timeout"
      [] e \in BeforeSpawn \union {"InputOutput", "unavailable"} -> "Unavailable"
      [] e = "conflict" -> "Conflict"
      [] e = "ambiguous" -> "Ambiguous"
      [] e = "rejected" -> "Rejected"
      [] OTHER -> "ProtocolViolation"

\* map_recovery_invoke_error
Recovery(e) == IF e \in {"Exited", "ResponseLimit"} THEN "Ambiguous" ELSE Readonly(e)

\* map_sign_invoke_error: once the child ran, only its own word is final.
Signing(e) ==
    CASE e \in BeforeSpawn -> "Unavailable"
      [] e = "conflict" -> "Conflict"
      [] e = "rejected" -> "Rejected"
      [] OTHER -> "Ambiguous"

\* map_broadcast_invoke_error
Broadcasting(e) ==
    CASE e = "TimedOut" -> "Timeout"
      [] e \in BeforeSpawn -> "Unavailable"
      [] e = "rejected" -> "Rejected"
      [] e = "Protocol" -> "ProtocolViolation"
      [] OTHER -> "Ambiguous"

Failure(command, e) ==
    CASE command = "recover" -> Recovery(e)
      [] command = "sign" -> Signing(e)
      [] command = "broadcast" -> Broadcasting(e)
      [] OTHER -> Readonly(e)

\* The signer and the settlement make of it: only a refused signing cancels
\* the batch, only a refused broadcast ends it as rejected, ...
Ended(command, failure) ==
    CASE command = "sign" /\ failure = "Rejected" -> "cancelled"
      [] command = "broadcast" /\ failure = "Rejected" -> "rejected"
      [] OTHER -> batch

\* ... and anything else starts over.
Fail(c, failure) ==
    /\ at' = [at EXCEPT ![c] = "idle"]
    /\ op' = [op EXCEPT ![c] = First(c)]
    /\ batch' = Ended(op[c], failure)
    /\ child' = [child EXCEPT ![c] = NoChild]
    /\ lock' = IF lock = c THEN Free ELSE lock
    /\ UNCHANGED <<pinned, wallet>>

Broken(c, e) == Fail(c, Failure(op[c], e))

-----------------------------------------------------------------------------
(* invoke_wallet *)

\* The batch is still worked on.
Open == op["payer"] # "done" /\ batch = "open"

\* sign_exact refuses a request that it cannot frame, before anything else.
Unframed(c) ==
    /\ at[c] = "idle" /\ c = "payer" /\ Open /\ op[c] = "sign"
    /\ Fail(c, "ProtocolViolation")

\* acquire_invocation: a caller that finds the lock taken does not wait.
AcquireInvocation(c) ==
    /\ at[c] = "idle" /\ op[c] # "record" /\ (c = "payer" => Open)
    /\ \/ /\ lock = Free
          /\ lock' = c
          /\ at' = [at EXCEPT ![c] = "verify"]
          /\ UNCHANGED <<pinned, op, child, wallet, batch>>
       \/ lock # Free /\ Broken(c, "Busy")

\* verify_now: the executable is compared with its pin before every command.
VerifyNow(c) ==
    /\ at[c] = "verify"
    /\ \/ /\ pinned /\ at' = [at EXCEPT ![c] = "spawn"]
          /\ UNCHANGED <<pinned, lock, op, child, wallet, batch>>
       \/ ~pinned /\ Broken(c, "Preflight")

SpawnChild(c) ==
    /\ at[c] = "spawn"
    /\ \/ Broken(c, "Spawn")
       \/ /\ child' = [child EXCEPT ![c] = Started]
          /\ at' = [at EXCEPT ![c] = "wait"]
          /\ UNCHANGED <<pinned, lock, op, wallet, batch>>

\* write_private_input and the child's reading of it.
Feed(c) ==
    /\ child[c].alive /\ ~child[c].fed
    /\ child' = [child EXCEPT ![c].fed = TRUE]
    /\ UNCHANGED <<pinned, lock, at, op, wallet, batch>>

\* A pipe, a helper thread or try_wait fails: terminate_child.
HelperFails(c) == at[c] = "wait" /\ Broken(c, "InputOutput")

\* A plausible bug: the time starts to run when the child has read its input.
DeadlineOnceFed(c) ==
    at[c] = "wait" /\ child[c].alive /\ child[c].fed /\ Broken(c, "TimedOut")

\* wait_with_deadline: a child that is not done by then is killed and reaped
\* before the lock goes.
Deadline(c) == at[c] = "wait" /\ child[c].alive /\ Broken(c, "TimedOut")

\* run_child, once the child has exited and the three threads are joined.
Outcome(ch) ==
    CASE ch.out = "long" -> "ResponseLimit"
      [] ch.out # "long" /\ ~ch.good /\ ch.err # "text" -> ch.err
      [] ch.out # "long" /\ ~ch.good /\ ch.err = "text" -> "Exited"
      [] ch.out # "long" /\ ch.good /\ ch.err # "" -> "Protocol"
      [] ch.out # "long" /\ ch.good /\ ch.err = "" /\ ~ch.fed -> "InputOutput"
      [] ch.out = "" /\ ch.good /\ ch.err = "" /\ ch.fed -> "Protocol"
      [] OTHER -> "Ok"

\* The command that follows a good answer.
Following(command, out) ==
    CASE command = "identity" -> "recover"
      [] command = "recover" /\ out = "absent" -> "sign"
      [] command = "recover" /\ out # "absent" -> "inspect"
      [] command = "sign" -> "inspect"
      [] command = "inspect" -> "broadcast"
      [] command = "broadcast" -> "done"
      [] command = "sync" -> "observe"
      [] command = "observe" -> "record"

\* invoke_observation keeps the lock from the sync to the reading.
KeepsLock(command) == command = "sync"

Succeed(c) ==
    /\ op' = [op EXCEPT ![c] = Following(op[c], child[c].out)]
    /\ at' = [at EXCEPT ![c] = IF KeepsLock(op[c]) THEN "verify" ELSE "idle"]
    /\ lock' = IF KeepsLock(op[c]) THEN lock ELSE Free
    /\ child' = [child EXCEPT ![c] = NoChild]
    /\ UNCHANGED <<pinned, wallet, batch>>

\* parse_observation: the balance of the configured account, by a wallet that
\* is at the tip, valid for the agreed time.
ParseObservation(out) == out = "match"

\* The replies that each command's parser accepts: parse_signed_payout and
\* the comparison with the call, ...
Matches(command, out) ==
    CASE command = "recover" -> out \in {"match", "absent"}
      [] command = "sync" -> TRUE  \* its output is dropped
      [] command = "observe" -> ParseObservation(out)
      [] OTHER -> out = "match"

\* ... and for a broadcast the outcome named in it.
Verdict(command, out) ==
    CASE command = "broadcast" /\ out = "refused" -> "Rejected"
      [] command = "broadcast" /\ out = "unsure" -> "Ambiguous"
      [] OTHER -> "ProtocolViolation"

Collect(c) ==
    /\ at[c] = "wait" /\ ~child[c].alive
    /\ LET e == Outcome(child[c])
           out == child[c].out
       IN  \/ e # "Ok" /\ Broken(c, e)
           \/ e = "Ok" /\ Matches(op[c], out) /\ Succeed(c)
           \/ e = "Ok" /\ ~Matches(op[c], out) /\ Fail(c, Verdict(op[c], out))

\* reconcile: the store is given what was read, with the lock released.
Reconcile(c) ==
    /\ at[c] = "idle" /\ op[c] = "record"
    /\ op' = [op EXCEPT ![c] = First(c)]
    /\ UNCHANGED <<pinned, lock, at, child, wallet, batch>>

-----------------------------------------------------------------------------
(* The wallet, and the rest of the world *)

\* The child acts on its input.
Acts(c) ==
    /\ child[c].alive /\ child[c].fed
    /\ \/ op[c] = "sign" /\ signed' = TRUE /\ UNCHANGED <<sent, behind>>
       \/ op[c] = "broadcast" /\ sent' = TRUE /\ UNCHANGED <<signed, behind>>
       \/ op[c] = "sync" /\ behind' = FALSE /\ UNCHANGED <<signed, sent>>
    /\ UNCHANGED <<pinned, lock, at, op, child, batch>>

\* It exits with a status, on stdout ...
Outputs(command) ==
    CASE command = "recover" -> IF signed THEN {"match"} ELSE {"absent"}
      [] command = "sign" -> IF signed THEN {"match"} ELSE {}
      [] command = "broadcast" ->
            {"unsure"} \union (IF sent THEN {"match"} ELSE {"refused"})
      [] command = "observe" -> IF behind THEN {} ELSE {"match"}
      [] OTHER -> {"match"}

\* ... and, when it fails, a code on stderr.
Codes(command) ==
    {"unavailable", "ambiguous", "text"} \union
        (IF (command = "sign" /\ signed) \/ (command = "broadcast" /\ sent)
         THEN {} ELSE {"rejected", "conflict"})

Exits(c) ==
    /\ child[c].alive /\ at[c] = "wait"
    /\ \E good \in BOOLEAN, out \in Outputs(op[c]) \union {"", "long", "wrong"},
          err \in Codes(op[c]) \union {""} :
        /\ good => err \in {"", "text"}
        /\ ~good => err # ""
        /\ child' = [child EXCEPT ![c] = [@ EXCEPT !.alive = FALSE, !.good = good,
                                                   !.out = out, !.err = err]]
    /\ UNCHANGED <<pinned, lock, at, op, wallet, batch>>

\* An operator replaces the executable, or restores it.
Replace == pinned' = ~pinned /\ UNCHANGED <<lock, at, op, child, wallet, batch>>

NewBlock == ~behind /\ behind' = TRUE
    /\ UNCHANGED <<pinned, lock, at, op, child, signed, sent, batch>>

-----------------------------------------------------------------------------

\* What the transport's own thread does of a call that has begun.
Runs(c) == VerifyNow(c) \/ SpawnChild(c) \/ Deadline(c) \/ Collect(c)

Next ==
    \/ \E c \in Callers : \/ AcquireInvocation(c) \/ Runs(c) \/ Unframed(c) \/ HelperFails(c)
                          \/ Reconcile(c) \/ Feed(c) \/ Acts(c) \/ Exits(c)
    \/ Replace \/ NewBlock

Spec == Init /\ [][Next]_vars

-----------------------------------------------------------------------------

\* A batch whose signing was answered "rejected", so that it is cancelled and
\* its debts are paid again, is not signed by the wallet then or later; one
\* whose broadcast was answered "rejected" is not at the node.  The answer is
\* put together from a deadline, an exit status, two pipes and a parser.
RefusalIsFinal ==
    /\ batch = "cancelled" => ~signed
    /\ batch = "rejected" => ~sent

\* A call of the wallet ends, with an answer or without one, even when the
\* child never reads, never writes or never exits; so does the hold on the
\* invocation lock.
CallReturns == \A c \in Callers : at[c] # "idle" ~> at[c] = "idle"

\* Every call of the wallet ends, and none ends with a refusal that the wallet
\* may yet belie.
CallsEndInTheTruth == []RefusalIsFinal /\ CallReturns
=============================================================================
