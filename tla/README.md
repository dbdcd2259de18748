# TLA+ models of `altitest`

`altitest` runs SQL scripts against an Altibase server through the client `is`,
compares each output with a baseline (`.lst`) and judges every case
PASS / ORDER / FAIL / ERROR / FATAL. `viewdiff` shows the results of a run and
accepts outputs as new baselines. This directory holds TLA+ modules of the parts
that decide something, TLC configurations that check them, and TLAPS proofs.
File names below without a directory are under `src/altitest/` of the repository.

## 1. Inventory

| Component | State | Operations | Interacts with | Hard behaviour | What makes it right |
|---|---|---|---|---|---|
| Run lock (`utils.py` 44-78, `cli_altitest.py` 630-643, 829) | flock on `out/.altitest.lock`, the text in it | acquire, report the holder, release | every process of `altitest`; the kernel | races, a killed holder, text and lock changed in different steps | exclusion; nobody waits; a refusal has a cause and names the right run |
| Phase (`_run_phase`, `executor.py`, `healthcheck.py`) | artifacts of the phase, result of the last command | SYSTEM actions, hidden SQL, visible SQL, port checks | server, `is`, shell | the server dies or comes up between any two steps; timeouts that do not stop what they killed | runs the script's plan, stops at trouble, verdict tells what happened |
| Case (`_run_case`) | status, reason, hint | init, test, compare, destroy | phase, comparator, baseline | verdicts of three phases and a comparison combine; cleanup after failure | worst phase wins, in one voice; destroy runs unless the server is lost |
| Run loop (`main`, `recovery.py`) | results, stop code and stop fields, `out/actual`, `run.json` | pre-suite and pre-case commands, cases, recovery, acceptance, report | all of the above, the user | retries of recovery, stops, parse issues counted on, prompt, exceptions and Ctrl-C anywhere | every case accounted for, exit code tells the story, baselines change only by consent and from this run |
| Verdicts (`classifier.py`, `config.py`, `reporter.summarize`, `_apply_status`, `_derive_exit_code`) | none | pure | phase, case, run loop | order of tests, weak and strong patterns | see the users above |
| Suite parser (`suite_parser.py`, `_build_ts_chain`) | active stack, seen files, parent map, timeouts, issues | walk over `.ts` files | `main` | cycles, files shared by several suites, repeated cases, conflicting timeouts | first-mention order, cycle issue iff cycle, parent map leads to the suite, nothing dropped silently |
| Directive parser (`directive_parser.py`, `build_env`) | environment so far, SKIP state, snapshots, line of the last statement | one pass over the script | phase | snapshots of a changing environment, SKIP lines in any order | last word of the directives above; hidden/visible split; SYSTEM keeps its side |
| Case plans (`case_builder.py`, `_filter_case_plans`, the headings of `main`) | none | path to plan, filter, heading | suite parser, `main` | numbering before or after the filter, chains of includes with a common prefix | an index means the same case in the next run; a case is shown under the suites that include it |
| Comparator (`comparator.py`) | none | normalise, strict compare, row multisets | case | what is ignored; lines split at blanks, with empty cells and cells that hold blanks | ORDER for the permutations of the rows and for nothing else, as far as lines can be told apart |
| Include rewriting (`executor.py` 68-212) | cache, active set, echo map, mirror files | rewrite, restore | phase | cycles, OSError after the cache is filled, two commands with one image | the mirror exists; the restored output is the original's |
| Result browser (`viewdiff_backend.py`, `cli_viewdiff.py`, `ViewDiffUI.java`) | the loaded `run.json`, `.lst`, `.out`, backups | list, open, show, accept, refresh | `last_run.json`, the `run.json` of the run that opened it, `out/actual`, a run in progress | stale lists, shared outputs, no lock | an accepted baseline is the failure that was shown |
| Triage (`triage.py`) | none | writes `triage.json`, `summary.txt` | `main` | none | a formatting of the results |
| Smoke test (`tools/altitest_smoke`), SQL suites and TDE scripts (`tests`) | - | - | inputs and tests of the runner | - | not part of the program |

## 2. Modules

| Module | Models | State and actions |
|---|---|---|
| `Verdict` | the pure decisions | an output is the set of fatal patterns in it; `IsFatal`, `ClassifyCompare`, `ApplyStatus`, `DeriveExitCode`, `Summarize` carry the names of their functions |
| `PhaseRun` | `_run_phase` | `step` is the place in the function, `trace` what it has done, `ret` its result; one action per command or port check. `server` belongs to the environment: `Crash`, `Boot`, and `Effect` of a command |
| `Runner` | `main`, `_run_case`, recovery, acceptance, viewdiff opened at the end | extends `PhaseRun`; `pc` is the place in `main`/`_run_case`, `results`, `stop`, `lst`, `saved` and `exit` are its variables and files; `Abort` is an exception or Ctrl-C at any of these places |
| `RunContract` | what a run promises | cases are finished in order, a run stops only for an allowed reason or is broken off, the exit code follows from the statuses |
| `RunLock` | acquire/release of the lock by several processes | one action per system call, kills and I/O errors bounded by `MaxFaults` |
| `SuiteParser` | `parse_suite` | the recursion of `parse_ts` as the explicit `stack`; one action per way a call or a line ends |
| `SuiteMeaning` | what a suite means | the expanded suite and the include graph, against which the walk is checked |
| `CasePlans` | `build_case_plans`, `_filter_case_plans`, `_build_ts_chain`, the headings printed by `main` | extends `SuiteMeaning`; once the suite is parsed, `MakePlans` numbers and filters, then `ReportCase` prints one case after the other under what `shown`, the chain of the last one, leaves to print |
| `DirectiveParser` | `parse_sql_file`, `build_env`, split of the actions | one action per kind of line, snapshots as values |
| `Baseline` | `accept_out_to_lst`, the loop of `_accept_results` | one action per step of the copying (backup, emptying, writing) by any number of processes; a file is its text, `Missing` or `Torn`; `now` is the clock the backup names are made of |
| `ViewDiff` | `viewdiff` (command line and Java) beside runs | extends `Baseline`; a run writes `out`, judges, accepts and replaces `json` (`last_run.json`) in two steps; `view` is what a browser shows, `ask` the row the user pointed at and the item found for it; `OpenOwn` is the browser that a run opens on its own `run.json` and waits for |
| `IncludeRewrite` | `rewrite_script_includes`, `_ensure_rewritten_child_script`, `restore_rewritten_include_output` | the mutual recursion as the explicit `stack`; `cache`, `mirror` and `echo` are the code's |
| `Comparator` | `normalize_text`, `strict_compare`, `order_only_mismatch`, the comparison in `_run_case` | a text is a sequence of lines, each of a kind and with words in columns; `SplitRow` makes cells of the words as the code does, `Cell` tells them from the columns; one action, `Compare` |
| `Selection` | the list comprehensions of the code | `Kept(s, I)`, the elements of `s` at the places in `I`; used by `CasePlans` and `Comparator` |
| `RunnerProofs`, `RunLockProofs`, `SuiteProofs`, `DirectiveParserProofs`, `IncludeRewriteProofs`, `ComparatorProofs`, `ViewDiffProofs` | theorems about the modules of these names; `RunnerProofs` also about `PhaseRun`, `SuiteProofs` about `SuiteParser`, `SuiteMeaning` and `CasePlans`, `ViewDiffProofs` about `Baseline` | see section 5 |
| `SelectionProofs` | what `Kept` keeps | lemmas of three of them |
| `MC*` | instances for TLC | see section 3 |

`Runner` extends `PhaseRun`, which extends `Verdict`: a phase is run inside a case
step by step, so that the server can die anywhere in a run. `Runner` implements
`RunContract` under the mapping at its end. `CasePlans`, which composes the walk of
`SuiteParser` with what `main` makes of it, and `DirectiveParser` stand before
them: the first gives `Runner` its `Suites` (plans with growing indexes, a number
of issues), the second gives `PhaseRun` its `Scripts`
(an issue, actions before and after the SQL, whether there is hidden SQL).
`IncludeRewrite` is what a phase does before its first command; `Comparator`
gives the two answers (`same`, `orderOnly`) that `Runner` leaves open. `ViewDiff`
has a run of its own, which is that of `Runner` reduced to the files it shares
with the browsers: `Runner` has no other processes, `ViewDiff` has no server.
`ViewDiff` implements `Baseline`, which is proved in `ViewDiffProofs`.

Abstractions: paths, keys, values and commands are members of small sets; an
output is the set of patterns found in it; whether `.out` and `.lst` are equal, or
equal up to order, is any pair of answers in `Runner` and computed in
`Comparator`; time is not modelled but in `Baseline`, a timeout is one
of the results a command may have. In `Comparator` a line is its words, of which
`|` is one, and the columns of the table they stand in: the code has only the
former, the properties are about the latter. Two words in one column are a cell
that holds a blank, a column without a word is an empty cell; the blanks at the
ends of a line and between the words of one cell are left out, as they only make
two texts differ in the strict comparison. `server`, `clean`, `is`, flock and the kernel
are external and modelled by what the code relies on (`"external"` in the map).

## 3. Runs

| Run | Question | Bounds, and why they are enough |
|---|---|---|
| `phase_run` | what a phase does and returns | five lists of at most two actions on either side of the SQL (every position a failure can have: first, last, only, absent), every kind of result with and without a pattern, `MaxCrashes` 2 (a death before and after a restart) |
| `runner` | what a run does, promises and ends with | suites of none, one and two cases, with and without init/destroy/baseline, with issues and with a filtered index; the command lines that lead to different control, with and without `--open-viewdiff`; one crash of the server; an exception or Ctrl-C at any step |
| `run_lock` | exclusion, what a refused run is told, nobody waits | four runs: a dead holder whose name is in the file, a new holder, and two that contend; two faults; no symmetry, as liveness needs |
| `suite_parser` | the walk, the selected plans and the headings against the meaning of the suite | all graphs of three files with at most two lines of nine kinds: self-includes, cycles of two and three, entered from either side, a file included twice, a case mentioned twice with other timeouts, missing, outside and unreadable files; a case given alone; no filter, filters by index and by path |
| `directive_parser` | the pass against the meaning of the lines | all scripts of up to three lines of twelve kinds and of five lines of six kinds: set, unset and set again around a command, SQL on every side of a block |
| `baseline` | is a baseline ever lost | three processes (two that meet and a third), one baseline as cases do not interact, two texts, three seconds (the same second, the next, and after a crash) |
| `viewdiff` | what is accepted for what is shown | two runs (the one shown and the one that replaces it) of a suite of two cases or of the second alone, so that indexes shift; two texts; a browser of either kind, opened by the user or by a run, one open at a time (`MaxOpen`), as browsers meet only in the copying, which `baseline` checks; any process may be killed at any step |
| `include_rewrite` | the copies, the echo, the end of the recursion | two scripts of at most two lines of four kinds (self-includes, cycles, one script twice or by either command), a visible part of two lines and a hidden one of one; any script may be unreadable, any copy may fail |
| `comparator` | PASS, ORDER and FAIL, got from split lines, against the cells the words stand in | every pair of texts from tables of two columns: one to three plain rows with rules, notes, banners and timing lines that have the width of a row around them; every two rows with empty cells, a blank or a bar in a cell, or bars between the cells; a header of one word per column, one with bars, and one with a blank in a name |
| `clean_permission`, `lock_holder_named`, `ui_selected` | three statements of the repository that the code contradicts | see section 4 |

The runs of `MCViewDiff` leave the backups, their history and the clock out of the
fingerprint (VIEW `WithoutBackups`): no guard, no property of these runs and no
other variable depends on them. Texts and processes are interchangeable wherever
SYMMETRY is used, and only invariants are checked there.

Fairness. `runner` assumes weak fairness of the process itself: every command is
run by `subprocess.run(timeout=...)`, so each step of the process ends. Nothing is
assumed of the user at the prompt or in the viewdiff the run has opened (hence the
run ends *or waits for a person*) nor of the server, nor that an exception occurs. `run_lock` assumes it of the steps of acquire and release,
which are system calls that return (LOCK_NB), and not of the body of `main`, which
may wait for a person. `suite_parser` assumes that `main` runs on, from the walk to
the last heading.
Deadlock is checked wherever the modelled program does not stop by itself
(`phase_run`, `baseline`); the others end, and say so in their configuration.
`include_rewrite` assumes, like `suite_parser`, that a function call runs on; that
the recursion ends is then a property of the cache. Type invariants are checked
in `phase_run` and `runner`; those of `RunLock`, `Baseline` and `ViewDiff` are proved
as parts of their inductive invariants.

What the run `comparator` says precisely. A line without `|` is split at every
blank, so that an empty cell vanishes and a cell that holds a blank becomes two. A
row with one of these is narrower or wider than the header and makes the output no
table: a permutation with such a row is FAIL, not ORDER (`John Smith 30` and
`Mary Jane 40` under `NAME AGE` are three cells under two), and
`PermutationIsOrder` is about the other tables. A row with both can have the right
width and look like a different row: `a b` beside an empty cell is split like `a`
beside `b`, so that two outputs can be ORDER that are no permutation of each other.
`OrderIsPermutation` excepts texts with such a row, and a header with a blank
in a name, which lets full rows through whose blanks are in different cells. With
bars between the cells a blank in one does no harm, and an empty one still vanishes. Each of these exceptions is needed: TLC
finds a counterexample in the instance if it is dropped.

What the runs on `viewdiff` say precisely. An acceptance takes the text that was
judged FAIL as long as no later run has been *started*: the outputs under
`out/actual` are shared, and nothing in `viewdiff` asks for the run's lock. The
Java window accepts the case it showed as long as `last_run.json` is that of the
same run. Both hold without these conditions for a browser that a run opened, as
long as that run waits for it: it reads the run's own file, and the run keeps the
lock. If the run is killed and the browser stays, the outputs may change under it,
but not the indexes. A text of a baseline is lost only when two acceptances of that baseline
meet, by interleaving or by a backup name of the same second.

## 4. Findings

* `CleanNeedsPermission`: the README asks for `--allow-clean` for every automatic
  `clean`; recovery runs `clean` without it.
* `HolderHeld`: the message of a refused run names the text of the lock file as the
  holder; after a crash this can be a run that is dead.
* `SelectedCaseIsAccepted`: the Java window asks whether to accept the selected case
  and then accepts whatever case has its index in the file by that time.

Noticed and not stated as properties:

* README line 246 calls the command `r` of the command line `viewdiff` a refresh;
  the code lists the results it loaded at the start once more (`cli_viewdiff.py`
  97). The model has no action for it, as nothing changes.
* README line 273 gives exit code 1 to ORDER, FAIL and ERROR; a run that recovered
  from a FATAL and passed everything else exits with 1 too, as the smoke test expects.
* README line 239 says that `viewdiff` cleans the environment of the diff tool, for
  which there is no code, and its chain of diff tools (line 233) differs from
  `config.DEFAULT_DIFF_TOOL_CHAIN`.
* README line 154 and the help text (`cli_altitest.py` 92) give `--case` a path; the
  code also takes any ending of one (line 505), so that `1.sql` selects `11.sql` too.
* Under `--case` the parse issues are counted on from the highest index that was
  kept (line 744), so that an issue can have the index of a case that was not.
* A `.sql` outside the repository given alone writes its output outside
  `out/actual`, as the path relative to the root then begins with `..`.
* An exception in the loop leaves `main` with exit code 1 and without a report; so
  does a failed case, but with one. `last_run.json` stays that of an earlier run.
* The lock, like `out`, is that of one working directory; two runs from different
  ones exclude each other neither from the server nor from the baselines.
* The order-only comparison looks at the rows alone: outputs that differ in their
  order and also in the header, an error line or a row count are ORDER
  (`comparator.py` 76, 89).
* An include is copied before the SYSTEM actions of its script have run
  (`cli_altitest.py` 248): a script they make is not found, one they change is
  included as it was.

## 5. Proofs

`RunLockProofs`: for any set of runs and any number of faults, the lock excludes,
names its holder, refuses only with a cause, and tells the truth without faults.
From `NobodyAssumption` and `FaultsAssumption`. The inductive invariant `LockInv`
adds to these that the owner is exactly the run in the section between flock and
release, and what the history `seen` must contain while an attempt lasts: mutual
exclusion alone does not say that the owner variable agrees with the places of the
processes, and a contender's report is about a past moment.

`RunnerProofs`, phases: for any scripts, any command results and any number of deaths,
a phase follows its plan, stops at trouble, and returns what its trace calls for. From
the assumptions of `PhaseRun`. The inductive invariant `PhaseInv` conjoins the three
properties with `Progress`, which ties `step` and `k` to the length and contents
of `trace`; without it a step could not be known to append the next entry of the
plan.

`RunnerProofs`, runs: for any suites, command lines, scripts and results, and whatever
breaks a run off, all five safety properties of the run `runner` and its type invariant
hold (`VerdictsAreWorst`, `CasesAreCleanedUp`, `IndexesAreUnique`,
`OnlyFailuresAreAccepted`, `TheReportAddsUp`, `RunnerTypes`). From the assumptions of
`PhaseRun` and of `Runner`: `SuitesAssumption` (the indexes of a suite's plans grow, as
`RerunSelectsIt` shows of `CasePlans`) and `OptionsAssumption`. The inductive invariant
`RunInv` has a part for each thing a later step relies on: `CallTells`, what a returned
phase may have returned (it contains `PhaseInv`, as the server is hit in the middle of
a phase); `Located`, which of `pc`, `step`, `ci` and `cmds` go together; `CaseInv`, that
status, blame and log of the case in progress agree, so that the status is already the
worst of what has been logged; `ResultsInv`, that the finished cases have the indexes of
their plans and are followed by the parse issues only; `StopInv`, which result a stop
code and its stop field come from; `FilesInv`, that only baselines of selected failures are
touched, and not before the report is made.
`RunsKeepTheContract` is the refinement: with the mapping `ContractJob`, `ContractDone`,
`ContractMode` and `ContractCode`, each step of `Runner` is one of `RunContract` or
leaves what the contract sees as it is. `ResultsInv` and `StopInv` are what make the
exit code of the code the one of the contract.

`SelectionProofs`: for a sequence of any length, `Kept` is described by a numbering of
the places it keeps, which is increasing and complete, and the numbering is unique; so
keeping is monotone, keeps all if the set is full, loses nothing if the length stays,
and two selections one after the other are one. The library's induction theorems take
an operator as a parameter, so these inductions are made by the least number
for which the claim fails (`LeastNumber`, from the well-foundedness of `<` on `Nat`).

`DirectiveParserProofs`: for scripts of any length and with any mixture of lines, the
four properties of `directive_parser`. From the assumptions of `DirectiveParser`. The
inductive invariant `DirectiveInv` says of each thing the pass has collected what it is
in terms of the lines read so far: `EnvFollows` (the environment is the last word of each
key), `SplitFollows` (whether a block is open, and which SQL it has hidden),
`ActionsFollow` (the actions and their snapshots, in order; this part rests on
`SelectionProofs`) and `IssuesFollow`. The properties are about the finished pass.

`SuiteProofs`: for any files, however they include each other: `parse_suite` records a
forest that grows from the suite (`ParentsGrowFromTheSuite`), a cycle is reported if and only if a file includes itself at some distance
(`CyclesAreReported`), `--case <index>` selects what the run it was printed by had
under that index (`RerunsSelectTheirCase`), each wrong line and each unreadable file
is reported once (`WrongLinesAreReported`), and the plans are the cases of the expanded
suite in the order of their first mention, with their first timeouts (`CasesInOrder`), and the
report shows above each case the files of its first mention (`ReportsShowChains`).
From the assumptions of `SuiteParser` and `CasePlans`, and, for the last two of these, from
`FiniteAssumption` (a file tree is finite, so that the way to a mention is no longer than
there are files). The parents need `OpenFiles` (the files on the stack are of the trace, once
each, and the file to be opened is included by the innermost of them). The plans need
`PlansFollow`: they are those of the finished walk, kept by one filter. Cycles need one
invariant for each direction: `OpenFilesLead`, that the files on the stack include one
another, so that a report means a cycle, and `DoneIsSettled`, that until there is a report a
file that the walk has left includes only files it has left before, or unreadable ones, so
that no cycle can have been passed over. `Reaches` and `IncludedThrough` are stated by closed
sets and not by recursion, which makes them fit both for TLC and for the proof. The issues are
counted by `IssuesAddUp`: one for each wrong line among those behind the walk (`LinesRead`, to
which each step adds one line or none) and one for each visited file that cannot be read.
What is wrong with a line that was read does not change later, which is not obvious of two lines
of the same case with different timeouts: it holds as `LinesLead` keeps every timeout that was
read in the map, and as the files a file was included through are the open ones while it is read
and the same ones ever after (`OpenAreThrough`, `ThroughStays`). The cases
are about what the walk leaves out: it reads each file once, where the expanded suite has it as
often as it is included. `Here` is the way to the line the walk is at, and `Behind` says that a
mention is above that line. `CasesFound` and `TimeoutsFound` state the theorem of the mentions
behind the walk; no step takes one of them back, and the mentions that a step adds all go
through `Here`, so that they come after the others (`BehindAfter`). Where a file is included again, these are
many at once, and none may be news: that is `LinesCovered` (what the lines that were
read name is known) with the absence of files that are open from a mention (`SteppedOver`).
`StackLeads` makes `Here` a mention where a case is added (`HereIsMention`).
The headings need both halves of the report. `OwnersFound` says that the source recorded for a
case is the file of its first mention, and that each file of that mention is recorded to be
included by the one before (`IsAncestry`: true of `Here`, as the open files are each other's
parents, and never undone); from that, the chain which goes back from the owner by the parent map
is the way of the mention (`ChainOfAncestry`; `Chain` is what satisfies `IsChain`, and is the only
one that does, by induction from the owner's end). `ReportFollows` says what `shown` promises: a reader of the lines printed
so far takes the next one to be under exactly the files that are shown. `CasePrinted` is the step
of it: the part of the chain in common with the last case stands, as everything printed since is
deeper, and the rest is printed anew. That the headings are printed after the walk has ended is part of the
invariant, as the parent map is read only then.

`IncludeRewriteProofs`: for any scripts and any failing reads and writes, a rewritten
include leads to a copy unless its script failed; where nothing failed, what is run is the
source with each include replaced by its image, and each command the client may echo is given
back as one with the same image. From the assumptions of `IncludeRewrite`. The
inductive invariant `RewriteInv`: the calls on the stack lead from one to the next
(`CallsNest`); a script in `cache` is copied, failed, or being copied (`VisitedOnce`); a line
that points to a copy points to that of a script in `cache` (`NewIncludesAreVisited`); and each
call has turned the lines behind it into their images, with their echo
(`CopiesFollow`, `EchoFollows`), while those before it are the source's.

`ComparatorProofs`: for texts of any lines, words and columns, ORDER is said only of
permutations (`OrderMeansPermutation`) and permutations are not called FAIL
(`PermutationsAreOrder`), each for the tables section 3 names. From
`TextsAssumption` and `NotRowsAssumption`. The invariant is small, as the comparison is one
step; the work is in the operators. Normalising, dropping what is ignorable and
dropping rules leave the same rows as looking for rows in the first place
(`NormalizedTable`, `RowsAreLeft`). Where cells stand out, the pieces of a line stand in
different columns, from left to right (`PiecesEnumerate`); if there are as many as columns,
or a word in each column, the pieces are the cells (`SplitIsRow`). A line without bars that
has a word in each column and yet only as many pieces as columns has no blank in a cell, as a
surjection between sets of one size is injective (`NoBlankLeft`). So rows that pass for a
table are the data rows (`RowsAreData`), and equal counts mean equally many rows. One hypothesis was found in the
attempt: under `--raw-diff` a timing line of the width of the header is taken for a row,
so `OrderIsPermutation` speaks of raw texts without timing lines only. The instance has such lines.

`ViewDiffProofs`, baselines: for any number of processes, cases, texts and seconds, and
whatever is killed or fails, a text that a baseline has had is still in it or in a
backup, unless two acceptances of it met. From `FileAssumption` and
`TimeAssumption`. `NoBaselineLost` alone is not inductive: the step that empties
the file destroys a text, and only `SavedFirst` says that it was saved; the step
that writes it would add a text another process is about to destroy, and only
`OneReplaces` says there is no such process.

`ViewDiffProofs`, browsers: for any set of browsers, plans, texts and runs, and whatever is
killed, every step of `ViewDiff` is one of `Baseline` or none (`Implements`), so that
`NoBaselineLost` carries over (`ViewLossless`); what is accepted is what was judged
(`AcceptsWhatWasJudged`); only a rerun shifts indexes (`RerunShifts`). From the
assumptions of `Baseline` and, of `ViewDiff`, that `Altitest`, the browsers and
`NoRow` are different and that a suite has each case and each index once
(`PlansAssumption`, which is what `SuiteParser` and `CasePlans` establish). The
properties are about the step that ends an acceptance, and the result it is about
may have been read long before. The inductive invariant `ViewInv` therefore speaks
of `Items`, all results any process or file still knows: an index tells those of one
run apart (`IndexesTell`), the output of a failure of the latest run is still the one
it was judged by (`JudgedStays`), and, as the reason for both, that a run goes
through its plans once (`PlansInOrder`). `AskedIsFailure`, `RunOwnsResults` and
`OwnKnowsOne` say which of these a process may know. Nearly all steps only let
`Items` shrink, which is `KeepsItems`; the proof is about the steps that add a
result or write an output. `MCViewDiff` satisfies the invariant, as TLC finds when
it is given as one.

Each of these inductive invariants was given to TLC as an invariant of the run of its
component before it was proved.

Only model-checked: all liveness (`Termination`, `NobodyWaits`, `WalkEnds`,
`RewritingEnds`), as fairness and ENABLED are beyond the prover.

## 6. Not modelled, and the plan

Left to do: the run of `ViewDiff` as an abstraction of that of `Runner`, for which `Runner`
would need the outputs of the other cases.

Left out for good: argument parsing, printing, the triage report (a formatting of
the results of a finished run), diff tools and their fallbacks (they only show
something), JSON layout, the window layout of the Java UI, the smoke test and the
SQL suites, which are inputs of the program.
