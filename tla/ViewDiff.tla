------------------------------ MODULE ViewDiff ------------------------------
(***************************************************************************)
(* Browsers of results beside a run.  A run of altitest writes outputs     *)
(* under out/actual, judges them and, at its end, replaces last_run.json.  *)
(* The browsers read that file and accept outputs as baselines, without    *)
(* the run's lock: the command line interface from the results it read     *)
(* when it was started, the Java window through a process that reads the   *)
(* file again and looks for the index of the row.  A run may itself open a *)
(* browser, on the run.json of its own directory, and wait for it.         *)
(*                                                                         *)
(* The run is that of Runner, reduced to the files it shares with the      *)
(* browsers; a case that is broken is an ERROR, as FATAL plays the same    *)
(* part here.  What only shows something (open, view) is left out.         *)
(***************************************************************************)
EXTENDS Baseline, Verdict

CONSTANTS
    Clis, Uis,      \* browsers: command line, Java window
    Own,            \* those of them that a run opens (--open-viewdiff)
    Altitest,       \* the run, as one that accepts
    PlanLists,      \* what a run may execute: sequences of [index, case]
    MaxRuns,        \* how many runs are started
    MaxOpen,        \* how many browsers are open at a time
    NoRow

Browsers == Clis \cup Uis

ASSUME ActorsAssumption ==
    /\ Actors = Browsers \cup {Altitest}
    /\ Own \subseteq Browsers /\ Altitest \notin Browsers /\ Clis \cap Uis = {}
    /\ NoRow \notin Actors

\* Each case of a suite is there once, and its index is its own.
ASSUME PlansAssumption ==
    \A plans \in PlanLists :
        /\ plans \in Seq([index : Nat \ {0}, case : Cases])
        /\ \A i, j \in DOMAIN plans : i # j =>
              plans[i].index # plans[j].index /\ plans[i].case # plans[j].case

VARIABLES
    run,        \* the run in progress, and its local variables
    json,       \* last_run.json: [gen, results], torn, or missing
    view,       \* what each browser shows
    ask,        \* the row an acceptance was asked for and the item found
    log         \* history: the acceptance that the last step completed

viewVars == <<run, json, view, ask>>

allVars == <<baseVars, viewVars, log>>

(***************************************************************************)
(* A result, of which gen and judged are history: the run it is of, and    *)
(* the output that was compared.                                           *)
(***************************************************************************)
Result ==
    [index : Nat \ {0}, case : Cases, status : Statuses, gen : Nat, judged : File]

ASSUME NoRowAssumption == NoRow \notin Result

Issues(results) == {r \in results : r.status # "PASS"}

Failures(results) == {r \in results : r.status = "FAIL"}

NoResults == [gen |-> 0, results |-> {}]

IsComplete(j) == j # Missing /\ j # Torn

ResultsIn(j) == IF IsComplete(j) THEN j.results ELSE {}

\* A process sets about accepting item, where the user pointed at row.
Order(a, row, item) ==
    /\ BeginAccept(a, item.case)
    /\ ask' = [ask EXCEPT ![a] = [row |-> row, item |-> item]]

(***************************************************************************)
(* The run.                                                                *)
(***************************************************************************)
Plan == run.plans[run.at]

AddResult(status, judged) ==
    run' = [run EXCEPT !.pc = "case", !.at = @ + 1,
                       !.results = @ \cup {[index |-> Plan.index, case |-> Plan.case,
                                            status |-> status, gen |-> run.gen,
                                            judged |-> judged]}]

MoreCases == run.pc = "case" /\ run.at <= Len(run.plans)

NoRun(gen) ==
    [pc |-> "idle", gen |-> gen, plans |-> <<>>, at |-> 1,
     results |-> {}, todo |-> {}, child |-> NoRow]

StartRun ==
    /\ run.pc = "idle"
    /\ run.gen < MaxRuns
    /\ \E plans \in PlanLists :
        run' = [NoRun(run.gen + 1) EXCEPT !.pc = "case", !.plans = plans]
    /\ UNCHANGED <<baseVars, json, view, ask>>

\* Init, or what comes before the visible SQL, went wrong: the .out file of an
\* earlier run stays.
BreakEarly ==
    /\ MoreCases
    /\ AddResult("ERROR", Missing)
    /\ UNCHANGED <<baseVars, json, view, ask>>

\* The .out file is opened for writing, which empties it, ...
OpenOut ==
    /\ MoreCases
    /\ WriteText(Plan.case, Torn)
    /\ run' = [run EXCEPT !.pc = "write"]
    /\ UNCHANGED <<json, view, ask>>

\* ... and written.
WriteOut ==
    /\ run.pc = "write"
    /\ \E text \in Texts : WriteText(Plan.case, text)
    /\ run' = [run EXCEPT !.pc = "judge"]
    /\ UNCHANGED <<json, view, ask>>

\* What follows the visible SQL, or the destroy phase, went wrong.
BreakLate ==
    /\ run.pc = "judge"
    /\ AddResult("ERROR", Missing)
    /\ UNCHANGED <<baseVars, json, view, ask>>

Judge ==
    LET c == Plan.case IN
    /\ run.pc = "judge"
    /\ \E orderOnly \in BOOLEAN :
        AddResult(ClassifyCompare(lst[c] = out[c], orderOnly,
                                  lst[c] # Missing).status, out[c])
    /\ UNCHANGED <<baseVars, json, view, ask>>

\* A run stops at its end, or after a case that is broken.  It then accepts its
\* failures, if its options and the user say so.
EndCases ==
    /\ run.pc = "case"
    /\ \/ run.at > Len(run.plans)
       \/ \E r \in run.results : r.status \in Broken
    /\ \/ run' = [run EXCEPT !.pc = "accept", !.todo = Failures(run.results)]
       \/ run' = [run EXCEPT !.pc = "save"]
    /\ UNCHANGED <<baseVars, json, view, ask>>

\* _accept_results: one after the other, by index.
AcceptNext ==
    /\ run.pc = "accept"
    /\ \E item \in run.todo :
        /\ \A other \in run.todo : item.index <= other.index
        /\ Order(Altitest, item, item)
        /\ run' = [run EXCEPT !.todo = @ \ {item}]
    /\ UNCHANGED <<json, view>>

AcceptDone ==
    /\ run.pc = "accept"
    /\ run.todo = {}
    /\ Idle(Altitest)
    /\ run' = [run EXCEPT !.pc = "save"]
    /\ UNCHANGED <<baseVars, json, view, ask>>

\* last_run.json is opened for writing, which empties it, ...
OpenJson ==
    /\ run.pc = "save"
    /\ json' = Torn
    /\ run' = [run EXCEPT !.pc = "dump"]
    /\ UNCHANGED <<baseVars, view, ask>>

\* ... and written.
DumpJson ==
    /\ run.pc = "dump"
    /\ json' = [gen |-> run.gen, results |-> run.results]
    /\ run' = NoRun(run.gen)
    /\ UNCHANGED <<baseVars, view, ask>>

(***************************************************************************)
(* What is common to the browsers.                                         *)
(***************************************************************************)
Closed == [pc |-> "closed", file |-> NoResults, list |-> NoResults, window |-> NoRow]

Show(b, list) == view' = [view EXCEPT ![b].pc = "open", ![b].list = list]

\* A bound on the browsers that are open at a time.
MayOpen(b) ==
    /\ view[b].pc = "closed"
    /\ Cardinality({c \in Browsers : view[c].pc # "closed"}) < MaxOpen

MayStart(b) == b \notin Own /\ MayOpen(b) /\ IsComplete(json)

\* The file that a browser, and the processes it starts, read.
Source(b) == IF b \in Own THEN view[b].file ELSE json

\* Mutant: any result can be accepted.
AnyStatusAcceptable(item) == out[item.case] # Missing

\* The checks of accept_out_to_lst.
Acceptable(item) == item.status = "FAIL" /\ out[item.case] # Missing

(***************************************************************************)
(* The command line interface keeps the results it was started with; the   *)
(* command r lists them once more.                                         *)
(***************************************************************************)
OpenCli(b) ==
    /\ MayStart(b)
    /\ Issues(json.results) # {}
    /\ Show(b, json)
    /\ UNCHANGED <<baseVars, run, json, ask>>

\* The command a, confirmed.
AcceptCli(b) ==
    /\ view[b].pc = "open"
    /\ \E row \in view[b].list.results :
        Acceptable(row) /\ Order(b, row, row)
    /\ UNCHANGED <<run, json, view>>

(***************************************************************************)
(* The Java window starts a process for everything it does.                *)
(***************************************************************************)
OpenUi(b) ==
    /\ MayStart(b)
    /\ view' = [view EXCEPT ![b].pc = "refresh"]
    /\ UNCHANGED <<baseVars, run, json, ask>>

\* A process that cannot read the file prints no row.
RefreshList(b) ==
    /\ view[b].pc \in {"refresh", "open"}
    /\ Show(b, IF IsComplete(Source(b)) THEN [Source(b) EXCEPT !.results = Issues(@)]
               ELSE NoResults)
    /\ UNCHANGED <<baseVars, run, json, ask>>

\* The window of an output; it outlives the list it was opened from.  Only that
\* of a FAIL row has its button enabled; of several, the last is modelled.
ViewOut(b) ==
    /\ view[b].pc = "open"
    /\ \E row \in Failures(view[b].list.results) : view' = [view EXCEPT ![b].window = row]
    /\ UNCHANGED <<baseVars, run, json, ask>>

\* Mutant: the first failure, whatever the index.
FoundAnyFail(b, row) == Failures(ResultsIn(Source(b)))

\* find_result_by_index, in a process that has read the file just now.
Found(b, row) == {item \in ResultsIn(Source(b)) : item.index = row.index}

\* The row is the selected one, or that of the window; only a row shown as
\* FAIL has the button enabled.
AcceptUi(b) ==
    /\ view[b].pc = "open"
    /\ \E row \in Failures(view[b].list.results) \cup ({view[b].window} \ {NoRow}) :
        LET items == {item \in Found(b, row) : Acceptable(item)} IN
        \/ /\ \E item \in items : Order(b, row, item)
           /\ view' = [view EXCEPT ![b].pc = "busy"]
        \/ /\ items = {}
           /\ view' = [view EXCEPT ![b].pc = "refresh"]
           /\ UNCHANGED <<baseVars, ask>>
    /\ UNCHANGED <<run, json>>

Quit(b) ==
    /\ view[b].pc = "open"
    /\ Idle(b)
    /\ view' = [view EXCEPT ![b] = Closed]
    /\ UNCHANGED <<baseVars, run, json, ask>>

(***************************************************************************)
(* The browser that a run opens on its own results, once they are written, *)
(* and waits for.                                                          *)
(***************************************************************************)
OpenOwn(b) ==
    LET own == [gen |-> run.gen, results |-> run.results] IN
    /\ run.pc = "dump"
    /\ MayOpen(b)
    /\ Issues(run.results) # {}
    /\ json' = own
    /\ run' = [NoRun(run.gen) EXCEPT !.pc = "wait", !.child = b]
    /\ view' = [view EXCEPT ![b].file = own,
                            ![b].pc = IF b \in Uis THEN "refresh" ELSE "open",
                            ![b].list = IF b \in Uis THEN NoResults ELSE own]
    /\ UNCHANGED <<baseVars, ask>>

CloseOwn ==
    /\ run.pc = "wait"
    /\ view[run.child].pc = "closed"
    /\ run' = NoRun(run.gen)
    /\ UNCHANGED <<baseVars, json, view, ask>>

(***************************************************************************)
(* The copying, and what comes after it.                                   *)
(***************************************************************************)
Forget(a) == ask' = [ask EXCEPT ![a] = NoRow]

\* A window whose process has ended reads the list anew.
AfterProcess(a) ==
    view' = IF a \in Uis THEN [view EXCEPT ![a].pc = "refresh"] ELSE view

Copy(a) ==
    /\ Backup(a) \/ OpenLst(a)
    /\ UNCHANGED viewVars

FinishCopy(a) ==
    /\ CopyOut(a)
    /\ log' = [by |-> a, row |-> ask[a].row, item |-> ask[a].item,
               text |-> out[job[a].case], since |-> run.gen]
    /\ Forget(a)
    /\ AfterProcess(a)
    /\ UNCHANGED <<run, json>>

KillBrowser(b) ==
    /\ Interrupt(b)
    /\ Forget(b)
    /\ view' = [view EXCEPT ![b] =
                    IF b \in Uis THEN [@ EXCEPT !.pc = "refresh"] ELSE Closed]
    /\ UNCHANGED <<run, json>>

\* A run that is killed leaves its files as they are.
KillRun ==
    /\ run.pc # "idle"
    /\ run' = NoRun(run.gen)
    /\ IF Idle(Altitest) THEN UNCHANGED baseVars ELSE Interrupt(Altitest)
    /\ Forget(Altitest)
    /\ UNCHANGED <<json, view>>

Init ==
    /\ BaseInit
    /\ run = NoRun(0)
    /\ json = Missing
    /\ view = [b \in Browsers |-> Closed]
    /\ ask = [a \in Actors |-> NoRow]
    /\ log = NoRow

Run ==
    \/ StartRun \/ BreakEarly \/ OpenOut \/ WriteOut \/ BreakLate \/ Judge
    \/ EndCases \/ AcceptNext \/ AcceptDone \/ OpenJson \/ DumpJson \/ CloseOwn

Cli(b) == OpenCli(b) \/ AcceptCli(b) \/ Quit(b)

Ui(b) == OpenUi(b) \/ RefreshList(b) \/ ViewOut(b) \/ AcceptUi(b) \/ Quit(b)

Silent ==
    \/ Run \/ KillRun
    \/ \E b \in Own : OpenOwn(b)
    \/ \E b \in Clis : Cli(b)
    \/ \E b \in Uis : Ui(b)
    \/ \E a \in Actors : Copy(a)
    \/ \E b \in Browsers : KillBrowser(b)
    \/ Tick /\ UNCHANGED viewVars

Next ==
    \/ Silent /\ log' = NoRow
    \/ \E a \in Actors : FinishCopy(a)

Spec == Init /\ [][Next]_allVars

(***************************************************************************)
(* Properties.                                                             *)
(***************************************************************************)
\* As long as no other run has been started, and so for as long as the run
\* waits for the browser it has opened, what becomes the baseline is the output
\* that was judged FAIL: not one an earlier run left behind, nor one of a case
\* that was broken (accept_out_to_lst, _accept_results, _run_open_viewdiff).
AcceptedIsWhatWasJudged ==
    log # NoRow /\ (log.since = log.item.gen \/ log.by = run.child) =>
        log.item.status = "FAIL" /\ log.text = log.item.judged

\* The case that is accepted is the one the user chose, unless the results
\* were replaced between the two, which a browser that a run has opened never
\* sees (find_result_by_index).
OnlyARerunShiftsIndexes ==
    log # NoRow /\ log.item.case # log.row.case =>
        log.item.gen # log.row.gen /\ log.by \notin Own

(***************************************************************************)
(* What the repository says and the code does not do.                      *)
(***************************************************************************)
\* "Overwrite OUT -> LST of the selected FAIL case?" (dialog of ViewDiffUI).
SelectedCaseIsAccepted ==
    log # NoRow /\ log.by \in Uis => log.item.case = log.row.case

(***************************************************************************)
(* The inductive invariant of the two properties above.                    *)
(***************************************************************************)
Snapshot == [gen : Nat, results : SUBSET Result]

RunType ==
    [pc : {"idle", "case", "write", "judge", "accept", "save", "dump", "wait"},
     gen : Nat, plans : PlanLists \cup {<<>>}, at : Nat \ {0},
     results : SUBSET Result, todo : SUBSET Result, child : Own \cup {NoRow}]

ViewType ==
    [pc : {"closed", "refresh", "open", "busy"}, file : Snapshot, list : Snapshot,
     window : Result \cup {NoRow}]

AskType == {NoRow} \cup [row : Result, item : Result]

\* Type invariant.
ViewTypeOK ==
    /\ run \in RunType
    /\ json \in {Missing, Torn} \cup Snapshot
    /\ view \in [Browsers -> ViewType]
    /\ ask \in [Actors -> AskType]

\* The results that the processes know of.
Asked(a) == IF Idle(a) THEN {} ELSE {ask[a].row, ask[a].item}

Known(b) ==
    view[b].file.results \cup view[b].list.results
    \cup ({view[b].window} \ {NoRow}) \cup Asked(b)

Items ==
    run.results \cup ResultsIn(json) \cup Asked(Altitest)
    \cup UNION {Known(b) : b \in Browsers}

\* An index tells the cases of one run apart, ...
IndexesTell ==
    \A r, s \in Items : r.gen = s.gen /\ r.index = s.index => r.case = s.case

\* ... as a run goes through its plans once, ...
Running == run.pc \in {"case", "write", "judge"}

PlansInOrder ==
    /\ run.pc \in {"write", "judge"} => run.at <= Len(run.plans)
    /\ \A r \in Items :
        /\ r.gen <= run.gen
        /\ Running /\ r.gen = run.gen =>
              \E n \in DOMAIN run.plans :
                  n < run.at /\ r.index = run.plans[n].index /\ r.case = run.plans[n].case

\* ... and so writes the output of a case once.
JudgedStays ==
    \A r \in Items : r.gen = run.gen /\ r.status = "FAIL" => out[r.case] = r.judged

\* What is asked for is a failure of the index that was pointed at.
AskedIsFailure ==
    \A a \in Actors : ~Idle(a) =>
        /\ ask[a] \in [row : Result, item : Result]
        /\ ask[a].item.case = job[a].case
        /\ ask[a].item.index = ask[a].row.index
        /\ ask[a].item.status = "FAIL"

RunOwnsResults ==
    /\ \A r \in run.results : r.gen = run.gen
    /\ run.todo \subseteq Failures(run.results)

\* A browser that a run has opened knows the results of that run only.
OwnKnowsOne ==
    /\ \A b \in Browsers : view[b].pc = "closed" => Idle(b) /\ view[b] = Closed
    /\ \A b \in Own : \A r \in Known(b) : r.gen = view[b].file.gen
    /\ \A b \in Own : b = run.child /\ view[b].pc # "closed" => view[b].file.gen = run.gen

ViewInv ==
    /\ ViewTypeOK /\ IndexesTell /\ PlansInOrder /\ JudgedStays
    /\ AskedIsFailure /\ RunOwnsResults /\ OwnKnowsOne
=============================================================================
