----------------------------- MODULE CasePlans -----------------------------
(***************************************************************************)
(* What main makes of the parsed suite: a plan for each case               *)
(* (build_case_plans), those of them that --case selects                   *)
(* (_filter_case_plans), and, as the cases run, the headings under which   *)
(* their results are printed.  Runner starts from the plans.               *)
(*                                                                         *)
(* The baseline and the outputs of a case are named after its .sql file    *)
(* and are left out.                                                       *)
(***************************************************************************)
EXTENDS SuiteMeaning, Selection

S == INSTANCE SequencesExt

CONSTANTS
    Triples,    \* for each file called test.sql, the init and destroy beside it
    Filters     \* what --case may say

\* A path is what it resolves to and the cases whose paths end with its text.
FilterType ==
    [by : {"nothing"}]
    \cup [by : {"index"}, index : Nat]
    \cup [by : {"path"}, file : SqlFiles \cup {NoFile}, endsOf : SUBSET SqlFiles]

ASSUME TriplesAssumption ==
    /\ DOMAIN Triples \subseteq SqlFiles
    /\ \A s \in DOMAIN Triples : Triples[s] \in [init : SqlFiles, destroy : SqlFiles]

ASSUME FiltersAssumption == Filters \subseteq FilterType

VARIABLES
    plans,      \* the selected plans, <<>> before they are made
    loop,       \* the plan whose case is next, 0 before the plans are made
    shown,      \* current_ts_chain
    printed     \* the headings and case lines printed so far

planVars == <<plans, loop, shown, printed>>

allVars == <<vars, planVars>>

(***************************************************************************)
(* build_case_plans.                                                       *)
(***************************************************************************)
IsSingle == tree.root \in SqlFiles

SqlPaths == IF IsSingle THEN <<tree.root>> ELSE sqls

Owner(sql) ==
    IF IsSingle THEN NoFile
    ELSE sources[CHOOSE i \in DOMAIN sqls : sqls[i] = sql]

IfExists(file) == IF file \in tree.missing THEN NoFile ELSE file

PlanOf(i) ==
    LET sql == SqlPaths[i] IN
    [index   |-> i,
     test    |-> sql,
     init    |-> IF sql \in DOMAIN Triples THEN IfExists(Triples[sql].init) ELSE NoFile,
     destroy |-> IF sql \in DOMAIN Triples THEN IfExists(Triples[sql].destroy) ELSE NoFile,
     timeout |-> IF sql \in DOMAIN timeouts THEN timeouts[sql] ELSE 0]

AllPlans == [i \in DOMAIN SqlPaths |-> PlanOf(i)]

(***************************************************************************)
(* _filter_case_plans.                                                     *)
(***************************************************************************)
Selects(filter, plan) ==
    CASE filter.by = "nothing" -> TRUE
      [] filter.by = "index"   -> plan.index = filter.index
      [] filter.by = "path"    -> plan.test \in filter.endsOf \cup {filter.file}

\* Mutant: the cases are numbered after they have been selected.
FilteredThenNumbered(filter) ==
    LET kept == Kept(AllPlans, {i \in DOMAIN AllPlans : Selects(filter, AllPlans[i])})
    IN [i \in DOMAIN kept |-> [kept[i] EXCEPT !.index = i]]

Filtered(filter) ==
    Kept(AllPlans, {i \in DOMAIN AllPlans : Selects(filter, AllPlans[i])})

MakePlans ==
    /\ Finished
    /\ loop = 0
    /\ \E filter \in Filters : plans' = Filtered(filter)
    /\ loop' = 1
    /\ UNCHANGED <<vars, shown, printed>>

(***************************************************************************)
(* _build_ts_chain: the include chain shown over the cases of a file.      *)
(***************************************************************************)
ParentOf(ts) == IF ts \in DOMAIN parent THEN parent[ts] ELSE NoFile

\* The chain goes back from the file, parent by parent, until there is none that
\* is not in the chain.
IsChain(chain, ts) ==
    LET Cur(i) == IF i = Len(chain) THEN ts ELSE ParentOf(chain[i + 1])
    IN  /\ \A i, j \in DOMAIN chain : chain[i] = chain[j] => i = j
        /\ \A i \in DOMAIN chain : chain[i] = Cur(i)
        /\ Cur(0) \notin TsFiles \ Range(chain)

Chain(ts) ==
    CHOOSE chain \in UNION {[1..n -> TsFiles] : n \in 0..Cardinality(TsFiles)} :
        IsChain(chain, ts)

(***************************************************************************)
(* The run loop, as far as it prints.                                      *)
(***************************************************************************)
OwnerChain == Chain(Owner(plans[loop].test))

\* Mutant: only the file of the case is announced.
NewHeadingsOfOwner ==
    IF OwnerChain \in {<<>>, shown} THEN <<>>
    ELSE <<[depth |-> Len(OwnerChain) - 1, file |-> OwnerChain[Len(OwnerChain)]]>>

\* The files of the chain from the first one on that is not shown.
NewHeadings ==
    LET common == Len(S!LongestCommonPrefix({shown, OwnerChain}))
    IN [n \in 1..(Len(OwnerChain) - common) |->
          [depth |-> common + n - 1, file |-> OwnerChain[common + n]]]

ReportCase ==
    /\ loop \in DOMAIN plans
    /\ printed' = printed \o NewHeadings
                  \o <<[depth |-> Len(OwnerChain), file |-> plans[loop].test]>>
    /\ shown' = OwnerChain
    /\ loop' = loop + 1
    /\ UNCHANGED <<vars, plans>>

PlansInit ==
    /\ Init
    /\ plans = <<>>
    /\ loop = 0
    /\ shown = <<>>
    /\ printed = <<>>

Parse == Next /\ UNCHANGED planVars

PlansNext == Parse \/ MakePlans \/ ReportCase

PlansSpec == PlansInit /\ [][PlansNext]_allVars

\* A program that computes goes on.
FairPlansSpec == PlansSpec /\ WF_allVars(PlansNext)

(***************************************************************************)
(* Properties.                                                             *)
(***************************************************************************)
\* The cases, numbered from 1, are the .sql files that the expanded suite
\* mentions, in the order of their first mention and with the first timeout it
\* gives them, although the walk opens each file once (parse_suite,
\* build_case_plans).
CasesAreFirstMentions ==
    Parsed =>
        LET mentions == Mentions
            Of(plan) == {m \in mentions : Said(m).target = plan.test}
            TimedOf(plan) == {m \in Of(plan) : Said(m).timeout # 0}
        IN /\ {AllPlans[i].test : i \in DOMAIN AllPlans} = {Said(m).target : m \in mentions}
           /\ \A j \in DOMAIN AllPlans : \A i \in 1..(j - 1) :
                 /\ AllPlans[i].test # AllPlans[j].test
                 /\ \A o \in Of(AllPlans[j]) : \E m \in Of(AllPlans[i]) : Before(m, o)
           /\ \A i \in DOMAIN AllPlans :
                 IF TimedOf(AllPlans[i]) = {} THEN AllPlans[i].timeout = 0
                 ELSE \E m \in TimedOf(AllPlans[i]) :
                         /\ IsFirst(m, TimedOf(AllPlans[i]))
                         /\ Said(m).timeout = AllPlans[i].timeout

\* The command for running a case again (rerun_cmd) runs that case with the
\* same phases and timeout and no other, whatever --case the run had that
\* reported it; and the indexes of a run grow.
RerunSelectsIt ==
    \A i \in DOMAIN plans :
        /\ Filtered([by |-> "index", index |-> plans[i].index]) = <<plans[i]>>
        /\ \A j \in 1..(i - 1) : plans[j].index < plans[i].index

\* A reader takes line k to be under the last heading of this depth or less.
IsUnder(k, depth, file) ==
    LET above == {j \in 1..(k - 1) : printed[j].file \in TsFiles /\ printed[j].depth <= depth}
    IN \E j \in above : (\A l \in above : l <= j) /\ printed[j] = [depth |-> depth, file |-> file]

\* Read by its indentation, the report shows for each case the files through
\* which the suite mentions it first, from the suite itself down to the file
\* of the case; a case that is run alone stands alone (main, _build_ts_chain).
ReportShowsChain ==
    LET mentions == Mentions
        Of(sql) == {m \in mentions : Said(m).target = sql}
    IN \A k \in DOMAIN printed :
        printed[k].file \in SqlFiles =>
            IF IsSingle THEN printed[k] = [depth |-> 0, file |-> tree.root]
            ELSE \E m \in Of(printed[k].file) :
                    /\ IsFirst(m, Of(printed[k].file))
                    /\ Len(m) = printed[k].depth
                    /\ \A d \in DOMAIN m : IsUnder(k, d - 1, m[d][1])
=============================================================================
