---------------------------- MODULE RunContract ----------------------------
(***************************************************************************)
(* What a run of a suite promises, one step per case: the cases run in     *)
(* order and stop where the options say; after a lost server no case runs  *)
(* until a recovery has succeeded; the exit code says how the run ended.   *)
(* Runner is shown to implement it.                                        *)
(***************************************************************************)
EXTENDS Integers, Sequences

VARIABLES
    job,     \* [cases, issues, continue, recover, orderIsPass], constant
    done,    \* the statuses of the cases that have run
    mode,    \* "running", "recovering", "stopped", "exited" or "aborted"
    code     \* why it stopped, then the exit code

contractVars == <<job, done, mode, code>>

Some(statuses) == \E i \in DOMAIN done : done[i] \in statuses

Init ==
    /\ done = <<>>
    /\ mode = "running"
    /\ code = 0

FinishCase(status) ==
    /\ mode = "running"
    /\ Len(done) < job.cases
    /\ done' = Append(done, status)
    /\ \/ /\ status = "FATAL" /\ job.recover
          /\ mode' = "recovering" /\ UNCHANGED code
       \/ /\ status = "FATAL" /\ ~job.recover
          /\ mode' = "stopped" /\ code' = 2
       \/ /\ status = "ERROR" /\ ~job.continue
          /\ mode' = "stopped" /\ code' = 1
       \/ /\ status # "FATAL" /\ (status = "ERROR" => job.continue)
          /\ UNCHANGED <<mode, code>>
    /\ UNCHANGED job

Recover ==
    /\ mode = "recovering"
    /\ mode' = "running"
    /\ UNCHANGED <<job, done, code>>

GiveUp ==
    /\ mode = "recovering"
    /\ mode' = "stopped"
    /\ code' = 3
    /\ UNCHANGED <<job, done>>

AllRun ==
    /\ mode = "running"
    /\ Len(done) = job.cases
    /\ mode' = "stopped"
    /\ UNCHANGED <<job, done, code>>

ExitCode ==
    IF code >= 2 THEN code
    ELSE IF job.issues > 0 \/ Some({"FATAL", "ERROR", "FAIL"}) THEN 1
    ELSE IF Some({"ORDER"}) /\ ~job.orderIsPass THEN 1
    ELSE 0

\* 0 tells that every case ran and none needs attention.
Exit ==
    /\ mode = "stopped"
    /\ mode' = "exited"
    /\ code' = ExitCode
    /\ UNCHANGED <<job, done>>

\* Refused, or broken off by an exception or the user: 0 is never told.
BreakOff ==
    /\ mode \notin {"exited", "aborted"}
    /\ mode' = "aborted"
    /\ code' \in {1, 130}
    /\ UNCHANGED <<job, done>>

Next ==
    \/ \E s \in {"PASS", "ORDER", "FAIL", "ERROR", "FATAL"} : FinishCase(s)
    \/ Recover \/ GiveUp \/ AllRun \/ Exit \/ BreakOff

Spec == Init /\ [][Next]_contractVars
=============================================================================
