------------------------------ MODULE Verdict ------------------------------
(***************************************************************************)
(* The pure decisions of the runner: what a command's output says of the   *)
(* server, what a comparison says of a case, how the verdicts of a case's  *)
(* phases combine, and what the results of a run say to the shell.         *)
(*                                                                         *)
(* Texts are abstracted to what these decisions read in them: an output is *)
(* the set of config.FATAL_PATTERNS that occur in it.                      *)
(***************************************************************************)
EXTENDS Integers, Sequences, FiniteSets

Statuses == {"PASS", "ORDER", "FAIL", "ERROR", "FATAL"}

NoReason == ""

Reasons ==
    {NoReason, "ordering_mismatch", "content_mismatch", "missing_lst",
     "exec_failed", "server_disconnected", "server_port_closed",
     "fatal_recovery_failed", "timeout", "parse_error", "unknown_directive",
     "cycle_include", "path_outside_root"}

\* The statuses _run_case tests for before it goes on with a case.
Broken == {"ERROR", "FATAL"}

Verdicts == [status : Statuses, reason : Reasons]

Pass == [status |-> "PASS", reason |-> NoReason]
Error(why) == [status |-> "ERROR", reason |-> why]
Fatal(why) == [status |-> "FATAL", reason |-> why]

(***************************************************************************)
(* Command results.  "rc" is a command that ended with a nonzero code,     *)
(* "timeout" one that was killed, "error" one that could not be started    *)
(* and so printed nothing.                                                 *)
(***************************************************************************)
Banner == "ISQL_CONNECTION = TCP"

FatalPatterns ==
    {"ERR-50032", "Client unable to establish connection",
     "Failed to invoke the connect() system function", Banner}

StrongMarkers == FatalPatterns \ {Banner}

CommandResult ==
    {r \in [kind : {"ok", "rc", "timeout", "error"},
            found : SUBSET FatalPatterns] :
        r.kind = "error" => r.found = {}}

\* Mutant: any known pattern is taken for a lost connection.
IsFatalOnBanner(found) == found # {}

\* The banner is printed by every healthy session: it never tells on its own.
IsFatal(found) ==
    /\ found # {}
    /\ \/ found \cap StrongMarkers # {}
       \/ \E m \in found : m # Banner

\* A SYSTEM action that did not succeed.
SystemVerdict(r) ==
    IF r.kind = "timeout" THEN Error("timeout")
    ELSE IF IsFatal(r.found) THEN Fatal("server_disconnected")
    ELSE Error("exec_failed")

\* A baseline that does not exist fails even an empty, equal output.
ClassifyCompare(strictSame, orderOnly, lstExists) ==
    IF ~lstExists THEN [status |-> "FAIL", reason |-> "missing_lst"]
    ELSE IF strictSame THEN Pass
    ELSE IF orderOnly THEN [status |-> "ORDER", reason |-> "ordering_mismatch"]
    ELSE [status |-> "FAIL", reason |-> "content_mismatch"]

\* Lower is worse.
Priority(status) ==
    CASE status = "FATAL" -> 0
      [] status = "ERROR" -> 1
      [] status = "ORDER" -> 2
      [] status = "FAIL"  -> 3
      [] OTHER            -> 4

\* Mutant: a verdict as bad as the current one does not replace it.
ApplyStatusStrict(current, new) ==
    IF Priority(new.status) < Priority(current.status) THEN new ELSE current

ApplyStatus(current, new) ==
    IF Priority(new.status) <= Priority(current.status) THEN new ELSE current

(***************************************************************************)
(* The end of a run.  results is a sequence of records with a status.      *)
(***************************************************************************)
Count(results, status) ==
    Cardinality({i \in DOMAIN results : results[i].status = status})

Has(results, status) == \E i \in DOMAIN results : results[i].status = status

\* Mutant: a FATAL that was recovered from is forgotten.
DeriveExitCodeForgetsFatal(results, orderIsPass, stopCode) ==
    IF stopCode \in {2, 3} THEN stopCode
    ELSE IF Has(results, "ERROR") \/ Has(results, "FAIL") THEN 1
    ELSE IF Has(results, "ORDER") /\ ~orderIsPass THEN 1
    ELSE 0

DeriveExitCode(results, orderIsPass, stopCode) ==
    IF stopCode \in {2, 3} THEN stopCode
    ELSE IF Has(results, "FATAL") THEN 1
    ELSE IF Has(results, "ERROR") \/ Has(results, "FAIL") THEN 1
    ELSE IF Has(results, "ORDER") /\ ~orderIsPass THEN 1
    ELSE 0

Summarize(results, total) ==
    [total    |-> total,
     executed |-> Len(results),
     not_run  |-> IF total > Len(results) THEN total - Len(results) ELSE 0,
     count    |-> [s \in Statuses |-> Count(results, s)]]
=============================================================================
