------------------------------ MODULE RunLock ------------------------------
(***************************************************************************)
(* The lock that keeps runs of `altitest` apart: acquire_run_lock and      *)
(* release_run_lock around the body of main.                               *)
(*                                                                         *)
(* Exclusion rests on flock(2), which the kernel drops with the process.   *)
(* The text of the lock file names the holder, but only for the message a  *)
(* second run prints; the two are updated in separate steps, and a killed  *)
(* run leaves its text behind.                                             *)
(***************************************************************************)
EXTENDS Integers, FiniteSets

CONSTANTS
    Runs,       \* the runs started in a behaviour, each started once
    Nobody,     \* no lock owner; an empty lock file
    MaxFaults   \* how many processes may be killed, or meet an I/O error

ASSUME NobodyAssumption == Nobody \notin Runs

ASSUME FaultsAssumption == MaxFaults \in Nat

VARIABLES
    pc,         \* where each run is
    owner,      \* who holds the flock
    content,    \* whom the lock file names
    reported,   \* whom a refused run has named to its user
    faults,     \* how many faults there have been
    seen        \* history: who held the flock during a run's attempt

lockVars == <<pc, owner, content, reported, faults, seen>>

\* Between open and the end of the report of a failed attempt.
Attempting == {"opened", "blocked"}

\* Between flock(LOCK_EX) and flock(LOCK_UN).
Holding == {"locked", "truncated", "running", "cleared"}

PcType == {"idle", "refused", "over"} \cup Attempting \cup Holding

Goto(p, state) == pc' = [pc EXCEPT ![p] = state]

\* The owner changes; every run in the middle of an attempt lives through it.
SetOwner(o) ==
    /\ owner' = o
    /\ seen' = [q \in Runs |->
                  IF pc[q] \in Attempting /\ o # Nobody
                  THEN seen[q] \cup {o} ELSE seen[q]]

Fault == faults < MaxFaults /\ faults' = faults + 1

(***************************************************************************)
(* acquire_run_lock.                                                       *)
(***************************************************************************)
\* Mutant: opened with "w+", which truncates the file before the lock is asked.
OpenTruncating(p) ==
    /\ pc[p] = "idle"
    /\ Goto(p, "opened")
    /\ seen' = [seen EXCEPT ![p] = {owner} \ {Nobody}]
    /\ content' = Nobody
    /\ UNCHANGED <<owner, reported, faults>>

Open(p) ==
    /\ pc[p] = "idle"
    /\ Goto(p, "opened")
    /\ seen' = [seen EXCEPT ![p] = {owner} \ {Nobody}]
    /\ UNCHANGED <<owner, content, reported, faults>>

\* Mutant: LOCK_SH, which others may hold as well.
LockShared(p) ==
    /\ pc[p] = "opened"
    /\ Goto(p, "locked")
    /\ SetOwner(p)
    /\ UNCHANGED <<content, reported, faults>>

Lock(p) ==
    /\ pc[p] = "opened"
    /\ owner = Nobody
    /\ Goto(p, "locked")
    /\ SetOwner(p)
    /\ UNCHANGED <<content, reported, faults>>

\* Mutant: without LOCK_NB the call does not come back.
WouldBlockWaits(p) ==
    /\ FALSE
    /\ UNCHANGED lockVars

\* Mutant: the text of the file is taken for the lock.
WouldBlockOnText(p) ==
    /\ pc[p] = "opened"
    /\ content # Nobody
    /\ Goto(p, "blocked")
    /\ UNCHANGED <<owner, content, reported, faults, seen>>

WouldBlock(p) ==
    /\ pc[p] = "opened"
    /\ owner # Nobody
    /\ Goto(p, "blocked")
    /\ UNCHANGED <<owner, content, reported, faults, seen>>

ReportHolder(p) ==
    /\ pc[p] = "blocked"
    /\ reported' = [reported EXCEPT ![p] = content]
    /\ Goto(p, "refused")
    /\ UNCHANGED <<owner, content, faults, seen>>

Truncate(p) ==
    /\ pc[p] = "locked"
    /\ content' = Nobody
    /\ Goto(p, "truncated")
    /\ UNCHANGED <<owner, reported, faults, seen>>

WriteHolder(p) ==
    /\ pc[p] = "truncated"
    /\ content' = p
    /\ Goto(p, "running")
    /\ UNCHANGED <<owner, reported, faults, seen>>

\* Any other failure of flock, or one of truncate or write: the file is
\* closed, which releases the lock, and the exception ends the run.
AcquireFails(p) ==
    /\ pc[p] \in {"opened", "locked", "truncated"}
    /\ Fault
    /\ Goto(p, "over")
    /\ IF owner = p THEN SetOwner(Nobody) ELSE UNCHANGED <<owner, seen>>
    /\ UNCHANGED <<content, reported>>

(***************************************************************************)
(* release_run_lock, in the finally clause of main.                        *)
(***************************************************************************)
\* Mutant: the lock is released with the name left in the file.
ClearHolderKeepsName(p) ==
    /\ pc[p] = "running"
    /\ Goto(p, "cleared")
    /\ UNCHANGED <<owner, content, reported, faults, seen>>

ClearHolder(p) ==
    /\ pc[p] = "running"
    /\ content' = Nobody
    /\ Goto(p, "cleared")
    /\ UNCHANGED <<owner, reported, faults, seen>>

\* The error is swallowed and the lock released all the same.
ClearFails(p) ==
    /\ pc[p] = "running"
    /\ Fault
    /\ Goto(p, "cleared")
    /\ UNCHANGED <<owner, content, reported, seen>>

Unlock(p) ==
    /\ pc[p] = "cleared"
    /\ Goto(p, "over")
    /\ SetOwner(Nobody)
    /\ UNCHANGED <<content, reported, faults>>

(***************************************************************************)
(* The kernel closes the files of a process that is killed.                *)
(***************************************************************************)
Kill(p) ==
    /\ pc[p] \in Attempting \cup Holding
    /\ Fault
    /\ Goto(p, "over")
    /\ IF owner = p THEN SetOwner(Nobody) ELSE UNCHANGED <<owner, seen>>
    /\ UNCHANGED <<content, reported>>

Init ==
    /\ pc = [p \in Runs |-> "idle"]
    /\ owner = Nobody
    /\ content = Nobody
    /\ reported = [p \in Runs |-> Nobody]
    /\ faults = 0
    /\ seen = [p \in Runs |-> {}]

\* What a run does by itself to take the lock, to report that it is taken, or
\* to give it back.
Proceed(p) ==
    \/ Lock(p) \/ WouldBlock(p) \/ ReportHolder(p)
    \/ Truncate(p) \/ WriteHolder(p)
    \/ Unlock(p)

Next ==
    \E p \in Runs :
        \/ Open(p) \/ Proceed(p) \/ ClearHolder(p)
        \/ AcquireFails(p) \/ ClearFails(p) \/ Kill(p)

Spec == Init /\ [][Next]_lockVars

\* The steps of the protocol are system calls that return.  The body of main
\* need not end: it may wait at a prompt, or for a viewdiff it has opened.
FairSpec == Spec /\ \A p \in Runs : WF_lockVars(Proceed(p))

(***************************************************************************)
(* Properties.                                                             *)
(***************************************************************************)
\* Type invariant.
TypeOK ==
    /\ pc \in [Runs -> PcType]
    /\ owner \in Runs \cup {Nobody}
    /\ content \in Runs \cup {Nobody}
    /\ reported \in [Runs -> Runs \cup {Nobody}]
    /\ faults \in 0..MaxFaults
    /\ seen \in [Runs -> SUBSET Runs]

\* No two runs are between taking and releasing the lock, so that only one
\* writes out/actual, last_run.json and the server's state (main).
MutualExclusion ==
    \A p, q \in Runs :
        pc[p] \in Holding /\ pc[q] \in Holding => p = q

\* While a run's body executes the lock file names it: no other run, ending
\* or starting, wipes or overwrites the name.
HolderIsNamed == \A p \in Runs : pc[p] = "running" => content = p

\* A run is refused only because some other run did hold the lock while it
\* tried: what a dead run left in the file never locks anyone out.
RefusalIsJustified ==
    \A p \in Runs :
        pc[p] \in {"blocked", "refused"} => seen[p] \ {p} # {}

\* The holder a refused run names did hold the lock during its attempt.
HolderHeld ==
    \A p \in Runs :
        pc[p] = "refused" /\ reported[p] # Nobody => reported[p] \in seen[p]

\* It is so as long as no run is killed and no write fails.
HolderHeldWithoutFault == faults = 0 => HolderHeld

\* No run waits for another one: it gets the lock, is refused, or gives it
\* back without anybody else's help (LOCK_NB).
NobodyWaits ==
    \A p \in Runs : []<>(pc[p] \in {"idle", "running", "refused", "over"})
=============================================================================
