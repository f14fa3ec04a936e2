---------------------------- MODULE SignerJournal ----------------------------
(***************************************************************************)
(* The file in which a payout signer keeps one batch, and the lock that    *)
(* its users share.  A record is written to a temporary file, renamed over *)
(* the old one and made durable by syncing the directory; a process that   *)
(* dies loses its lock and its memory, and a power failure may also undo a *)
(* rename that was not synced yet.  Batches have files of their own, so    *)
(* one file is modelled.                                                   *)
(***************************************************************************)
EXTENDS Naturals, FiniteSets

CONSTANTS
    Process,     \* users of the journal directory
    MaxCrashes   \* bound: process and power failures

VARIABLES
    disk,     \* the record that a reader of the file sees
    synced,   \* the record that survives a power failure
    holder,   \* who holds .signer.lock
    pc,       \* the next step of each process
    rec,      \* the record each process holds in memory
    crashes,
    torn      \* a store was interrupted between its rename and its sync

journal == <<disk, synced, holder>>
failures == <<crashes, torn>>

NoRecord == [stage |-> "none"]

JournalInit(record) ==
    /\ disk = record /\ synced = record
    /\ holder = {}
    /\ pc = [p \in Process |-> "idle"]
    /\ rec = [p \in Process |-> NoRecord]
    /\ crashes = 0 /\ torn = FALSE

\* p stops, with a record renamed and not synced when it was about to sync.
Tear(p) == torn' = (torn \/ pc[p] \in {"sync", "sync and leave"})

Goto(p, step) == pc' = [pc EXCEPT ![p] = step]

Hold(p, record) == rec' = [rec EXCEPT ![p] = record]

\* The process lock, then with_exclusive_lock.
Lock(p) ==
    /\ pc[p] = "lock" /\ holder = {}
    /\ holder' = {p}
    /\ Goto(p, "load")
    /\ UNCHANGED <<disk, synced, rec, failures>>

\* The call returns and the lock is released.
Leave(p) ==
    /\ Goto(p, "idle") /\ Hold(p, NoRecord)
    /\ holder' = holder \ {p}
    /\ Tear(p)
    /\ UNCHANGED <<disk, synced, crashes>>

\* Journal::store up to the rename; the temporary file is complete by then.
Rename(p) ==
    /\ pc[p] \in {"store", "store and leave"}
    /\ disk' = rec[p]
    /\ Goto(p, IF pc[p] = "store" THEN "sync" ELSE "sync and leave")
    /\ UNCHANGED <<synced, holder, rec, failures>>

\* Journal::store, the sync of the directory.
Sync(p) ==
    /\ pc[p] \in {"sync", "sync and leave"}
    /\ synced' = disk /\ torn' = FALSE
    /\ Goto(p, IF pc[p] = "sync" THEN "stage" ELSE "done")
    /\ UNCHANGED <<disk, holder, rec, crashes>>

\* open_lock or the lock itself fails: the call ends before it starts.
CannotLock(p) == pc[p] = "lock" /\ Leave(p)

\* Journal::load fails: the file cannot be read, or its checksum, its batch or
\* its stage is not what was written.
CannotRead(p) == pc[p] = "load" /\ Leave(p)

\* Journal::store fails, before the rename or between it and the sync; the
\* call ends either way, and a renamed record stays without being durable.
CannotStore(p) ==
    /\ pc[p] \in {"store", "store and leave", "sync", "sync and leave"}
    /\ Leave(p)

Die(p) ==
    /\ pc[p] # "idle" /\ crashes < MaxCrashes
    /\ crashes' = crashes + 1
    /\ Goto(p, "idle") /\ Hold(p, NoRecord)
    /\ holder' = holder \ {p}
    /\ Tear(p)
    /\ UNCHANGED <<disk, synced>>

PowerFails ==
    /\ crashes < MaxCrashes
    /\ crashes' = crashes + 1 /\ torn' = FALSE
    /\ pc' = [p \in Process |-> "idle"]
    /\ rec' = [p \in Process |-> NoRecord]
    /\ holder' = {}
    /\ disk' \in {disk, synced} /\ synced' = disk'
=============================================================================
