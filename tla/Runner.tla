------------------------------- MODULE Runner -------------------------------
(***************************************************************************)
(* One process of `altitest`, from the parsed command line to its exit     *)
(* code: main, _run_case and everything they call, on one server.  The run *)
(* lock is in RunLock, the making of the plans in CasePlans.               *)
(***************************************************************************)
EXTENDS PhaseRun

CONSTANTS
    Suites,      \* parsed and filtered suites
    OptionSets   \* command lines

Phases == {"init", "test", "destroy"}

PlanType ==
    [index   : Nat \ {0},
     init    : Scripts \cup {NoScript},
     test    : Scripts,
     destroy : Scripts \cup {NoScript},
     lst     : BOOLEAN]

\* The parse issues of a suite are counted; each becomes one ERROR result.
SuiteType == [plans : Seq(PlanType), issues : Nat]

OptionType ==
    [serverMode : {"start-once", "restart-once", "per-case", "none"},
     cleanMode  : {"none", "before-suite", "before-each"},
     allowClean : BOOLEAN, continueOnError : BOOLEAN,
     orderCheck : BOOLEAN, orderIsPass : BOOLEAN,
     fatalRecover : BOOLEAN, fatalRecoverMax : Nat \ {0},
     acceptOut : BOOLEAN, acceptMissingOnly : BOOLEAN, openViewdiff : BOOLEAN,
     yes : BOOLEAN, nonInteractive : BOOLEAN]

\* CasePlans!RerunSelectsIt: the indexes of a run grow.
ASSUME SuitesAssumption ==
    /\ Suites \subseteq SuiteType
    /\ \A s \in Suites : \A i, j \in DOMAIN s.plans :
          i < j => s.plans[i].index < s.plans[j].index

ASSUME OptionsAssumption == OptionSets \subseteq OptionType

VARIABLES
    opts, suite,   \* the run's input, constant
    pc,            \* where main is
    cmds,          \* the pre-suite or pre-case commands still to run
    ci,            \* the position of the current case in suite.plans
    verdict,       \* status and reason of the current case
    blame,         \* the phase its analysis_hint names
    log,           \* history: what each phase of the current case returned
    results,       \* the case results so far
    stop,          \* stop_code and the stop fields of run_state
    tries,         \* recovery attempts made for the current FATAL
    fresh,         \* the positions whose .out this run has written
    todo,          \* results still to be accepted, as positions in results
    lst,           \* position -> the baseline: "absent", the one "found",
                   \* one "created" from the actual output, or the actual
                   \* output that "replaced" the found one (kept as a backup)
    saved,         \* which of run.json and last_run.json this run has written
    exit           \* the exit code, -1 while running

inputVars == <<opts, suite>>
caseVars == <<verdict, blame, log>>
loopVars == <<ci, results, stop, tries>>
fileVars == <<fresh, todo, lst, saved>>
mainVars == <<inputVars, pc, cmds, caseVars, loopVars, fileVars, exit>>
allVars == <<mainVars, vars>>

Plans == suite.plans
Case == Plans[ci]

\* What a phase of the log holds when it did not run.
NotRun == NoVerdict

EmptyLog == [p \in Phases \cup {"compare"} |-> NotRun]

Goto(next) == pc' = next /\ UNCHANGED inputVars

(***************************************************************************)
(* main, up to the first case.                                             *)
(***************************************************************************)
CleanIn(mode) ==
    IF opts.cleanMode = mode /\ opts.allowClean THEN <<"clean">> ELSE <<>>

PreSuiteCommands ==
    CleanIn("before-suite")
    \o (CASE opts.serverMode = "start-once"   -> <<"server start">>
          [] opts.serverMode = "restart-once" -> <<"server stop", "server start">>
          [] OTHER                            -> <<>>)

PreCaseCommands ==
    CleanIn("before-each")
    \o (IF opts.serverMode = "per-case" THEN <<"server start">> ELSE <<>>)

\* Refused: `is`, the suite or the lock is not to be had, or clean-mode comes
\* without --allow-clean.
Reject ==
    /\ pc = "start"
    /\ exit' = 1
    /\ Goto("left")
    /\ UNCHANGED <<cmds, caseVars, loopVars, fileVars, vars>>

BeginRun ==
    /\ pc = "start"
    /\ opts.cleanMode = "none" \/ opts.allowClean
    /\ cmds' = PreSuiteCommands
    /\ Goto("preSuite")
    /\ UNCHANGED <<caseVars, loopVars, fileVars, exit, vars>>

\* The results of the pre-suite and pre-case commands are not looked at.
RunCommand ==
    /\ pc \in {"preSuite", "preCase"}
    /\ cmds # <<>>
    /\ \E r \in Outcomes : server' \in Effect(Head(cmds), r.kind)
    /\ cmds' = Tail(cmds)
    /\ UNCHANGED <<inputVars, pc, caseVars, loopVars, fileVars, exit, crashes, phaseVars>>

BeginCases ==
    /\ pc = "preSuite"
    /\ cmds = <<>>
    /\ Goto("next")
    /\ UNCHANGED <<cmds, caseVars, loopVars, fileVars, exit, vars>>

NextCase ==
    /\ pc = "next"
    /\ ci <= Len(Plans)
    /\ cmds' = PreCaseCommands
    /\ Goto("preCase")
    /\ UNCHANGED <<caseVars, loopVars, fileVars, exit, vars>>

(***************************************************************************)
(* _run_case.                                                              *)
(***************************************************************************)
StartCase ==
    /\ pc = "preCase"
    /\ cmds = <<>>
    /\ verdict' = Pass
    /\ blame' = "none"
    /\ log' = EmptyLog
    /\ Goto("init")
    /\ UNCHANGED <<cmds, loopVars, fileVars, exit, vars>>

After(phase) ==
    CASE phase = "init" -> "test"
      [] phase = "test" -> "destroy"
      [] phase = "destroy" -> "endCase"

\* Mutant: a broken case is not cleaned up.
WantedIfSound(phase) ==
    /\ Case[phase] # NoScript
    /\ phase # "init" => verdict.status \notin Broken

\* The test is skipped after a broken init; destroy runs unless the server
\* is lost, so that a failed case is still cleaned up.
Wanted(phase) ==
    /\ Case[phase] # NoScript
    /\ CASE phase = "init" -> TRUE
         [] phase = "test" -> verdict.status \notin Broken
         [] phase = "destroy" -> verdict.status # "FATAL"

EnterPhase(phase) ==
    /\ pc = phase
    /\ Wanted(phase)
    /\ Call(Case[phase])
    /\ UNCHANGED mainVars

SkipPhase(phase) ==
    /\ pc = phase
    /\ step = "idle"
    /\ ~Wanted(phase)
    /\ Goto(After(phase))
    /\ UNCHANGED <<cmds, caseVars, loopVars, fileVars, exit, vars>>

InPhase ==
    /\ PhaseStep
    /\ UNCHANGED mainVars

\* _apply_status and the analysis_hint that is set next to it.
Apply(phase, new) ==
    /\ verdict' = ApplyStatus(verdict, new)
    /\ blame' = phase

BrokenPhase(phase) ==
    /\ ret.status \in Broken
    /\ Apply(phase, ret)
    /\ log' = [log EXCEPT ![phase] = ret]

PassedSetup(phase) ==
    /\ phase # "test"
    /\ ret.status \notin Broken
    /\ log' = [log EXCEPT ![phase] = ret]
    /\ UNCHANGED <<verdict, blame>>

\* The comparison of .out and .lst: whether they are equal, or equal up to
\* row order, is any pair of answers; order is asked only under --order-check.
CompareTest(phase) ==
    /\ phase = "test"
    /\ ret.status \notin Broken
    /\ \E same, rowsSame \in BOOLEAN :
        LET orderOnly == ~same /\ opts.orderCheck /\ lst[ci] # "absent" /\ rowsSame
            cmp == ClassifyCompare(same, orderOnly, lst[ci] # "absent")
        IN /\ Apply("test", cmp)
           /\ log' = [log EXCEPT !["test"] = ret, !["compare"] = cmp]

\* The visible output of the test phase has replaced the case's .out file.
WriteOut(phase) ==
    fresh' = IF phase = "test" /\ \E i \in DOMAIN trace : trace[i].op = "visible"
             THEN fresh \cup {ci} ELSE fresh

EndPhase(phase) ==
    /\ pc = phase
    /\ step = "returned"
    /\ BrokenPhase(phase) \/ PassedSetup(phase) \/ CompareTest(phase)
    /\ WriteOut(phase)
    /\ Goto(After(phase))
    /\ Forget
    /\ UNCHANGED <<cmds, loopVars, todo, lst, saved, exit, serverVars>>

(***************************************************************************)
(* main, after each case.                                                  *)
(***************************************************************************)
CaseResult ==
    [index |-> Case.index, status |-> verdict.status, reason |-> verdict.reason,
     blame |-> blame, log |-> log]

AddResult ==
    /\ pc = "endCase"
    /\ results' = Append(results, CaseResult)
    /\ UNCHANGED <<cmds, caseVars, fileVars, exit, vars>>

\* Mutant: the position in the filtered list, not the number of the case.
StopAtPosition(code, field) ==
    stop' = [stop EXCEPT !.code = code, ![field] = TRUE, !.at = ci]

Stop(code, field) ==
    stop' = [stop EXCEPT !.code = code, ![field] = TRUE, !.at = Case.index]

Continue == ci' = ci + 1 /\ Goto("next")

EndCase ==
    /\ AddResult
    /\ verdict.status # "FATAL"
    /\ verdict.status = "ERROR" => opts.continueOnError
    /\ Continue
    /\ UNCHANGED <<stop, tries>>

StopOnError ==
    /\ AddResult
    /\ verdict.status = "ERROR" /\ ~opts.continueOnError
    /\ Stop(1, "byError")
    /\ Goto("report")
    /\ UNCHANGED <<ci, tries>>

StopOnFatal ==
    /\ AddResult
    /\ verdict.status = "FATAL" /\ ~opts.fatalRecover
    /\ Stop(2, "byFatal")
    /\ Goto("report")
    /\ UNCHANGED <<ci, tries>>

BeginRecovery ==
    /\ AddResult
    /\ verdict.status = "FATAL" /\ opts.fatalRecover
    /\ Stop(stop.code, "byFatal")
    /\ tries' = 1
    /\ Goto("recoverClean")
    /\ UNCHANGED ci

(***************************************************************************)
(* recover_with_clean_and_start, up to fatal_recover_max times.            *)
(***************************************************************************)
FailAttempt(max) ==
    IF tries < max
    THEN /\ tries' = tries + 1
         /\ Goto("recoverClean")
         /\ UNCHANGED <<results, stop>>
    ELSE /\ results' = [results EXCEPT ![Len(results)].reason = "fatal_recovery_failed"]
         /\ stop' = [stop EXCEPT !.code = 3]
         /\ Goto("report")
         /\ UNCHANGED tries

\* Mutant: one attempt too many.
AttemptFailedOnceMore == FailAttempt(opts.fatalRecoverMax + 1)

\* Mutant: the attempts are not counted.
AttemptFailedUncounted == Goto("recoverClean") /\ UNCHANGED <<results, stop, tries>>

AttemptFailed == FailAttempt(opts.fatalRecoverMax)

RecoveryStep(command) ==
    /\ UNCHANGED <<cmds, caseVars, fileVars, exit, crashes, phaseVars>>
    /\ \E r \in Outcomes :
        /\ server' \in Effect(command, r.kind)
        /\ IF r.kind # "ok" THEN AttemptFailed /\ UNCHANGED ci
           ELSE /\ IF command = "clean" THEN Goto("recoverStart") /\ UNCHANGED ci
                   ELSE Continue
                /\ UNCHANGED <<results, stop, tries>>

RecoverClean == pc = "recoverClean" /\ RecoveryStep("clean")

\* The recovery has succeeded when the command has: the port is not checked.
RecoverStart == pc = "recoverStart" /\ RecoveryStep("server start")

(***************************************************************************)
(* main, after the last case.                                              *)
(***************************************************************************)
NoMoreCases ==
    /\ pc = "next"
    /\ ci > Len(Plans)
    /\ Goto("report")
    /\ UNCHANGED <<cmds, caseVars, loopVars, fileVars, exit, vars>>

\* Mutant: the number of plans instead of their highest index.
NextIndexAfterCount == Len(Plans) + 1

\* Plan indexes grow, so the highest of them is the last one.
NextIndex == IF Plans = <<>> THEN 1 ELSE Plans[Len(Plans)].index + 1

IssueResult(n) ==
    [index |-> NextIndex + n - 1, status |-> "ERROR", reason |-> "parse_error",
     blame |-> "none", log |-> EmptyLog]

ReportIssues ==
    /\ pc = "report"
    /\ results' = results \o [n \in 1..suite.issues |-> IssueResult(n)]
    /\ Goto("accept")
    /\ UNCHANGED <<cmds, caseVars, ci, stop, tries, fileVars, exit, vars>>

(***************************************************************************)
(* _accept_results.                                                        *)
(***************************************************************************)
\* Mutant: --accept-missing-only selects every FAIL.
SelectedAnyFail ==
    {i \in DOMAIN results :
        /\ results[i].status = "FAIL"
        /\ opts.acceptOut \/ opts.acceptMissingOnly}

Selected ==
    {i \in DOMAIN results :
        /\ results[i].status = "FAIL"
        /\ \/ opts.acceptOut
           \/ opts.acceptMissingOnly /\ results[i].reason = "missing_lst"}

MayAccept == opts.nonInteractive => opts.yes

Accept(chosen, next) ==
    /\ todo' = chosen
    /\ Goto(next)
    /\ UNCHANGED <<cmds, caseVars, loopVars, fresh, lst, saved, exit, vars>>

AcceptNothing ==
    /\ pc = "accept"
    /\ Selected = {} \/ ~MayAccept
    /\ Accept({}, "save")

AcceptAll ==
    /\ pc = "accept"
    /\ Selected # {} /\ opts.yes
    /\ Accept(Selected, "copy")

AskUser ==
    /\ pc = "accept"
    /\ Selected # {} /\ MayAccept /\ ~opts.yes
    /\ Accept({}, "prompt")

AnswerYes == pc = "prompt" /\ Accept(Selected, "copy")

AnswerNo == pc = "prompt" /\ Accept({}, "save")

\* One file after the other, by case number.
CopyOut ==
    /\ pc = "copy"
    /\ \E i \in todo :
        /\ \A j \in todo : results[i].index <= results[j].index
        /\ lst' = [lst EXCEPT ![i] = IF @ = "absent" THEN "created" ELSE "replaced"]
        /\ todo' = todo \ {i}
    /\ UNCHANGED <<inputVars, pc, cmds, caseVars, loopVars, fresh, saved, exit, vars>>

CopyDone ==
    /\ pc = "copy"
    /\ todo = {}
    /\ Goto("save")
    /\ UNCHANGED <<cmds, caseVars, loopVars, fileVars, exit, vars>>

(***************************************************************************)
(* The report and the exit.                                                *)
(***************************************************************************)
Summary == Summarize(results, Len(Plans) + suite.issues)

Save(file, next) ==
    /\ saved' = saved \cup {file}
    /\ Goto(next)
    /\ UNCHANGED <<cmds, caseVars, loopVars, fresh, todo, lst, exit, vars>>

SaveRun == pc = "save" /\ Save("run.json", "saveLast")

\* Then viewdiff may be opened on run.json; it runs until the user quits.
SaveLast ==
    /\ pc = "saveLast"
    /\ Save("last_run.json",
            IF opts.openViewdiff /\ \E i \in DOMAIN results : results[i].status # "PASS"
            THEN "viewdiff" ELSE "exit")

CloseViewdiff ==
    /\ pc = "viewdiff"
    /\ Goto("exit")
    /\ UNCHANGED <<cmds, caseVars, loopVars, fileVars, exit, vars>>

Exit ==
    /\ pc = "exit"
    /\ exit' = DeriveExitCode(results, opts.orderIsPass, stop.code)
    /\ Goto("done")
    /\ UNCHANGED <<cmds, caseVars, loopVars, fileVars, vars>>

\* An exception (end of input at the prompt, a file that cannot be written)
\* or Ctrl-C takes main through its finally and out; the locals of _run_phase
\* and _run_case go with their calls.
Abort ==
    /\ pc \notin {"done", "left"}
    /\ exit' \in {1, 130}
    /\ Goto("left")
    /\ verdict' = Pass /\ blame' = "none" /\ log' = EmptyLog
    /\ Forget
    /\ UNCHANGED <<cmds, loopVars, fileVars, serverVars>>

(***************************************************************************)
(* The specification.                                                      *)
(***************************************************************************)
RunnerInit ==
    /\ Init
    /\ opts \in OptionSets
    /\ suite \in Suites
    /\ pc = "start"
    /\ cmds = <<>>
    /\ verdict = Pass /\ blame = "none" /\ log = EmptyLog
    /\ ci = 1
    /\ results = <<>>
    /\ stop = [code |-> 0, byFatal |-> FALSE, byError |-> FALSE, at |-> 0]
    /\ tries = 0
    /\ fresh = {}
    /\ todo = {}
    /\ lst = [i \in DOMAIN Plans |-> IF Plans[i].lst THEN "found" ELSE "absent"]
    /\ saved = {}
    /\ exit = -1

RunCase ==
    \/ StartCase
    \/ \E phase \in Phases : EnterPhase(phase) \/ SkipPhase(phase) \/ EndPhase(phase)
    \/ InPhase

Main ==
    \/ Reject \/ BeginRun \/ RunCommand \/ BeginCases \/ NextCase
    \/ EndCase \/ StopOnError \/ StopOnFatal \/ BeginRecovery
    \/ RecoverClean \/ RecoverStart
    \/ NoMoreCases \/ ReportIssues
    \/ AcceptNothing \/ AcceptAll \/ AskUser \/ CopyOut \/ CopyDone
    \/ SaveRun \/ SaveLast \/ Exit

\* The person at the terminal.
User == AnswerYes \/ AnswerNo \/ CloseViewdiff

\* What the server may do by itself while the run lasts.
Server ==
    /\ pc \notin {"done", "left"}
    /\ Crash \/ Boot
    /\ UNCHANGED mainVars

RunnerNext == RunCase \/ Main \/ User \/ Abort \/ Server

RunnerSpec == RunnerInit /\ [][RunnerNext]_allVars

\* Every command has a timeout (subprocess.run(timeout=...)), so the process
\* itself always takes its next step; the user and the server need not.
FairRunnerSpec == RunnerSpec /\ WF_allVars(RunCase \/ Main)

(***************************************************************************)
(* Properties.                                                             *)
(***************************************************************************)
MainStates ==
    Phases \cup
    {"start", "preSuite", "next", "preCase", "endCase", "recoverClean",
     "recoverStart", "report", "accept", "prompt", "copy", "save", "saveLast",
     "viewdiff", "exit", "done", "left"}

LogType == [Phases \cup {"compare"} -> Verdicts \cup {NotRun}]

ResultType ==
    [index : Nat \ {0}, status : Statuses, reason : Reasons,
     blame : Phases \cup {"none"}, log : LogType]

\* Type invariant of main and _run_case.
RunnerTypeOK ==
    /\ TypeOK
    /\ opts \in OptionSets
    /\ suite \in Suites
    /\ pc \in MainStates
    /\ cmds \in Seq(Commands)
    /\ ci \in 1..(Len(Plans) + 1)
    /\ verdict \in Verdicts
    /\ blame \in Phases \cup {"none"}
    /\ log \in LogType
    /\ results \in Seq(ResultType)
    /\ stop \in [code : 0..3, byFatal : BOOLEAN, byError : BOOLEAN, at : Nat]
    /\ tries \in 0..opts.fatalRecoverMax
    /\ fresh \subseteq DOMAIN Plans
    /\ todo \subseteq DOMAIN results
    /\ lst \in [DOMAIN Plans -> {"absent", "found", "created", "replaced"}]
    /\ saved \subseteq {"run.json", "last_run.json"}
    /\ exit \in {-1, 0, 1, 2, 3, 130}

\* How many results are results of cases: the others are parse issues.
NumDone == Cardinality({i \in DOMAIN results : results[i].blame # "none"})

\* The phases in the order in which they write the status of a case.
Voices == <<"init", "test", "compare", "destroy">>

\* The verdict that a case's phases call for: the worst status any of them
\* has, in the words of the last phase that has it.
Worst(l) ==
    LET votes == {i \in DOMAIN Voices : l[Voices[i]] # NotRun}
        worst == {i \in votes : \A j \in votes :
                    Priority(l[Voices[i]].status) <= Priority(l[Voices[j]].status)}
    IN CHOOSE i \in worst : \A j \in worst : j <= i

\* Status, reason and hint of a result all come from the same, worst, phase;
\* PASS is given only if every phase of the case ran and passed, and the
\* output was compared equal to a baseline (_run_case, _apply_status).
VerdictIsWorstPhase ==
    \A i \in 1..NumDone :
        LET l == results[i].log
            w == Voices[Worst(l)]
        IN /\ results[i].status = l[w].status
           /\ results[i].reason \in {l[w].reason, "fatal_recovery_failed"}
           /\ results[i].status \in Broken => results[i].blame = w
           /\ results[i].status = "PASS" =>
                 /\ l["test"] = Pass /\ l["compare"] = Pass
                 /\ Plans[i].init # NoScript => l["init"] = Pass
                 /\ Plans[i].destroy # NoScript => l["destroy"] = Pass

\* Whatever goes wrong in a case, its destroy script runs, unless the server
\* was lost; the test script runs only after an init that passed.
CleanupRuns ==
    \A i \in 1..NumDone :
        LET l == results[i].log IN
        /\ l["destroy"] # NotRun <=>
              /\ Plans[i].destroy # NoScript
              /\ l["init"].status # "FATAL" /\ l["test"].status # "FATAL"
        /\ l["test"] # NotRun <=>
              (Plans[i].init # NoScript => l["init"] = Pass)
        /\ l["compare"] # NotRun <=> l["test"] = Pass

\* A result is found again by its index (viewdiff, --case): no two share one,
\* the parse issues of a filtered suite included.
UniqueIndexes ==
    \A i, j \in DOMAIN results :
        results[i].index = results[j].index => i = j

\* A baseline is only ever written from an output of this very run, of a case
\* that failed its comparison, and over an old one only for content.
AcceptedIsThisRunsFailure ==
    \A i \in DOMAIN lst :
        lst[i] \in {"created", "replaced"} =>
            /\ i \in fresh
            /\ i \in DOMAIN results
            /\ results[i].status = "FAIL"
            /\ opts.acceptOut \/ (opts.acceptMissingOnly /\ lst[i] = "created")
            /\ results[i].reason = (IF lst[i] = "created" THEN "missing_lst"
                                    ELSE "content_mismatch")

\* What run.json says of the run adds up: the summary counts every case and
\* issue once, the stop fields name the case and the way the loop was left, and
\* 0 is told to the shell only by a run that has run and reported everything.
ReportAddsUp ==
    /\ saved # {} =>
          /\ Summary.executed + Summary.not_run = Summary.total
          /\ Summary.not_run = Len(Plans) - NumDone
          /\ stop.code # 0 =>
                /\ NumDone > 0
                /\ stop.at = results[NumDone].index
                /\ results[NumDone].status = (IF stop.byError THEN "ERROR" ELSE "FATAL")
          /\ stop.code = 3 <=>
                \E i \in 1..NumDone : results[i].reason = "fatal_recovery_failed"
          /\ stop.code = 3 => tries = opts.fatalRecoverMax
          /\ stop.byFatal <=> Has(results, "FATAL")
          /\ todo = {}
    /\ exit = 0 => saved = {"run.json", "last_run.json"} /\ Summary.not_run = 0

\* README 4: to run clean automatically, --allow-clean must be given.
CleanNeedsPermission ==
    \/ pc = "recoverClean"
    \/ pc \in {"preSuite", "preCase"} /\ cmds # <<>> /\ Head(cmds) = "clean"
    => opts.allowClean

\* The process ends, or waits for an answer it has asked for or for the user
\* to quit the viewdiff it has opened.
Termination == <>(pc \in {"done", "left", "prompt", "viewdiff"})

(***************************************************************************)
(* The abstract run.                                                       *)
(***************************************************************************)
ContractJob ==
    [cases       |-> Len(Plans),
     issues      |-> suite.issues,
     continue    |-> opts.continueOnError,
     recover     |-> opts.fatalRecover,
     orderIsPass |-> opts.orderIsPass]

ContractDone == [i \in 1..NumDone |-> results[i].status]

ContractMode ==
    CASE pc \in {"recoverClean", "recoverStart"} -> "recovering"
      [] pc \in {"report", "accept", "prompt", "copy", "save", "saveLast",
                 "viewdiff", "exit"} -> "stopped"
      [] pc = "done" -> "exited"
      [] pc = "left" -> "aborted"
      [] OTHER -> "running"

ContractCode == IF exit = -1 THEN stop.code ELSE exit

Contract == INSTANCE RunContract WITH
    job <- ContractJob, done <- ContractDone, mode <- ContractMode, code <- ContractCode

ImplementsContract == Contract!Spec
=============================================================================
