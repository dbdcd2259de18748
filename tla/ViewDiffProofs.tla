--------------------------- MODULE ViewDiffProofs ---------------------------
(***************************************************************************)
(* Proofs about Baseline and ViewDiff, for any number of browsers, cases   *)
(* and runs, and whatever is killed.                                       *)
(***************************************************************************)
EXTENDS ViewDiff, TLAPS

(***************************************************************************)
(* Baseline: for any number of processes and cases, and whatever the runs  *)
(* write, a baseline is lost only where two acceptances of it meet.        *)
(***************************************************************************)
USE DEF File, Seconds

\* A process that is accepting works on a case.
LEMMA Typing ==
    ASSUME BaseTypeOK, NEW a \in Actors, job[a].step \in {"backup", "open", "copy"}
    PROVE  /\ job[a].case \in Cases
           /\ job[a] = [step |-> job[a].step, case |-> job[a].case]
BY DEF BaseTypeOK, Jobs, NoJob

\* In the initial states nothing is being replaced and nothing is lost.
LEMMA InitInv == BaseInit => BaseInv
<1> SUFFICES ASSUME BaseInit PROVE BaseInv
    OBVIOUS
<1> USE DEF BaseInit
<1>1. BaseTypeOK
    BY TimeAssumption DEF BaseTypeOK, Jobs, NoJob
<1>2. OneReplaces /\ SavedFirst
    BY DEF OneReplaces, SavedFirst, Replacing, NoJob
<1>3. NoBaselineLost
    BY DEF NoBaselineLost
<1> QED  BY <1>1, <1>2, <1>3 DEF BaseInv

\* Every step keeps the types.
LEMMA TypeStep == BaseTypeOK /\ [BaseNext]_baseVars => BaseTypeOK'
<1> SUFFICES ASSUME BaseTypeOK, [BaseNext]_baseVars PROVE BaseTypeOK'
    OBVIOUS
<1> USE DEF BaseTypeOK, Jobs, NoJob
<1>1. ASSUME NEW a \in Actors, NEW c \in Cases, BeginAccept(a, c) PROVE BaseTypeOK'
    BY <1>1 DEF BeginAccept
<1>2. ASSUME NEW a \in Actors, Backup(a) PROVE BaseTypeOK'
    BY <1>2, Typing DEF Backup, Goto
<1>3. ASSUME NEW a \in Actors, OpenLst(a) PROVE BaseTypeOK'
    BY <1>3, Typing DEF OpenLst, Goto
<1>4. ASSUME NEW a \in Actors, CopyOut(a) PROVE BaseTypeOK'
    BY <1>4, Typing DEF CopyOut, Leave
<1>5. ASSUME NEW a \in Actors, Interrupt(a) PROVE BaseTypeOK'
    BY <1>5 DEF Interrupt, Leave
<1>6. ASSUME NEW c \in Cases, NEW text \in Texts \cup {Torn}, WriteText(c, text)
      PROVE  BaseTypeOK'
    BY <1>6 DEF WriteText
<1>7. ASSUME Tick PROVE BaseTypeOK'
    BY <1>7, TimeAssumption DEF Tick
<1>8. CASE UNCHANGED baseVars
    BY <1>8 DEF baseVars
<1> QED  BY <1>1, <1>2, <1>3, <1>4, <1>5, <1>6, <1>7, <1>8 DEF BaseNext, Accept

\* What a step must respect to keep the three other parts: it adds nothing to
\* the baselines' history, takes nothing out of their backups, and lets no
\* process begin to replace one.
LEMMA QuietStep ==
    ASSUME BaseInv, raced' = raced, held' = held, baks' = baks,
           \A b \in Actors, c \in Cases : Replacing(b, c)' => Replacing(b, c)
    PROVE  /\ OneReplaces' /\ SavedFirst'
           /\ lst' = lst => NoBaselineLost'
BY DEF BaseInv, OneReplaces, SavedFirst, NoBaselineLost, Saved

\* A process that sets about accepting replaces nothing yet.
LEMMA BeginStep ==
    ASSUME BaseInv, NEW a \in Actors, NEW c \in Cases, BeginAccept(a, c)
    PROVE  OneReplaces' /\ SavedFirst' /\ NoBaselineLost'
<1>1. \A b \in Actors, d \in Cases : Replacing(b, d)' => Replacing(b, d)
    BY DEF BaseInv, BaseTypeOK, BeginAccept, Replacing
<1> QED  BY <1>1, QuietStep DEF BeginAccept

\* The backup holds the old baseline and, unless it meets another one, takes
\* the place of no text.
LEMMA BackupSaves ==
    ASSUME BaseInv, NEW a \in Actors, Backup(a),
           NEW c \in Cases, c = job[a].case, c \notin raced'
    PROVE  held[c] \subseteq Saved(c)'
<1>1. c \notin raced /\ ~Meets(a, c)
    BY DEF Backup
<1>2. held[c] \subseteq {lst[c]} \cup Saved(c) /\ held[c] \subseteq Texts
    BY <1>1 DEF BaseInv, BaseTypeOK, NoBaselineLost
<1>3. SUFFICES ASSUME NEW text \in held[c] PROVE text \in Saved(c)'
    OBVIOUS
<1>4. text # Missing
    BY <1>2, <1>3, FileAssumption
<1>5. now \in Seconds
    BY DEF BaseInv, BaseTypeOK
<1>6. CASE lst[c] = Missing
    BY <1>2, <1>3, <1>4, <1>6 DEF Backup, Saved
<1>7. CASE lst[c] # Missing
    <2>1. baks[c][now] = Missing
        BY <1>1, <1>7 DEF Meets
    <2>2. /\ baks' = [baks EXCEPT ![c][now] = lst[c]]
          /\ baks \in [Cases -> [Seconds -> File]]
        BY <1>7 DEF Backup, BaseInv, BaseTypeOK
    <2>3. CASE text = lst[c]
        BY <1>1, <1>5, <2>2, <2>3 DEF Saved
    <2>4. CASE text \in Saved(c)
        <3>1. PICK t \in Seconds : text = baks[c][t]
            BY <2>4 DEF Saved
        <3>2. t # now
            BY <1>4, <2>1, <3>1
        <3> QED  BY <1>1, <1>5, <2>2, <3>1, <3>2 DEF Saved
    <2> QED  BY <1>2, <1>3, <2>3, <2>4
<1> QED  BY <1>6, <1>7

\* After the backup the process replaces the baseline, whose texts are saved.
LEMMA BackupStep ==
    ASSUME BaseInv, NEW a \in Actors, Backup(a)
    PROVE  OneReplaces' /\ SavedFirst' /\ NoBaselineLost'
<1>0. PICK c \in Cases : c = job[a].case
    BY Typing DEF BaseInv, Backup
<1>1. raced \subseteq raced' /\ held' = held /\ lst' = lst
    BY DEF Backup
<1>2. \A b \in Actors, d \in Cases :
        Replacing(b, d)' => Replacing(b, d) \/ (b = a /\ d = c)
    BY <1>0 DEF BaseInv, BaseTypeOK, Backup, Goto, Replacing
<1>3. \A d \in Cases \ {c} : Saved(d)' = Saved(d)
    BY <1>0 DEF BaseInv, BaseTypeOK, Backup, Saved
<1>4. c \notin raced' => \A b \in Actors \ {a} : ~Replacing(b, c)
    BY <1>0 DEF Backup, Meets
<1>5. OneReplaces'
    BY <1>1, <1>2, <1>4 DEF BaseInv, OneReplaces
<1>6. SavedFirst'
    <2> SUFFICES ASSUME NEW d \in Cases \ raced', NEW b \in Actors, Replacing(b, d)'
                 PROVE  held[d] \subseteq Saved(d)'
        BY <1>1 DEF SavedFirst
    <2>1. CASE d = c
        BY <1>0, <2>1, BackupSaves
    <2>2. CASE d # c
        BY <1>1, <1>2, <1>3, <2>2 DEF BaseInv, SavedFirst
    <2> QED  BY <2>1, <2>2
<1>7. NoBaselineLost'
    <2> SUFFICES ASSUME NEW d \in Cases \ raced'
                 PROVE  held[d] \subseteq {lst[d]} \cup Saved(d)'
        BY <1>1 DEF NoBaselineLost
    <2>1. CASE d = c
        BY <1>0, <2>1, BackupSaves
    <2>2. CASE d # c
        BY <1>1, <1>3, <2>2 DEF BaseInv, NoBaselineLost
    <2> QED  BY <2>1, <2>2
<1> QED  BY <1>5, <1>6, <1>7

\* What the opening destroys has been saved.
LEMMA OpenStep ==
    ASSUME BaseInv, NEW a \in Actors, OpenLst(a)
    PROVE  OneReplaces' /\ SavedFirst' /\ NoBaselineLost'
<1>1. \A b \in Actors, d \in Cases : Replacing(b, d)' => Replacing(b, d)
    BY DEF BaseInv, BaseTypeOK, OpenLst, Goto, Replacing
<1>2. PICK c \in Cases : c = job[a].case /\ Replacing(a, c)
    BY Typing DEF BaseInv, OpenLst, Replacing
<1>3. NoBaselineLost'
    <2> SUFFICES ASSUME NEW d \in Cases \ raced
                 PROVE  held[d] \subseteq {lst'[d]} \cup Saved(d)
        BY DEF NoBaselineLost, OpenLst, Saved
    <2>1. CASE d = c
        BY <1>2, <2>1 DEF BaseInv, SavedFirst
    <2>2. CASE d # c
        BY <1>2, <2>2 DEF BaseInv, BaseTypeOK, NoBaselineLost, OpenLst
    <2> QED  BY <2>1, <2>2
<1> QED  BY <1>1, <1>3, QuietStep DEF OpenLst

\* The new baseline joins the history as it becomes the current text.
LEMMA CopyStep ==
    ASSUME BaseInv, NEW a \in Actors, CopyOut(a)
    PROVE  OneReplaces' /\ SavedFirst' /\ NoBaselineLost'
<1>1. PICK c \in Cases : c = job[a].case /\ Replacing(a, c)
    BY Typing DEF BaseInv, CopyOut, Replacing
<1>2. \A b \in Actors, d \in Cases : Replacing(b, d)' => Replacing(b, d) /\ b # a
    BY DEF BaseInv, BaseTypeOK, CopyOut, Leave, NoJob, Replacing
<1>3. /\ \A d \in Cases \ {c} : lst'[d] = lst[d] /\ held'[d] = held[d]
      /\ lst'[c] = out[c] /\ held'[c] \subseteq held[c] \cup {out[c]}
    BY <1>1 DEF BaseInv, BaseTypeOK, CopyOut
<1>4. raced' = raced /\ \A d \in Cases : Saved(d)' = Saved(d)
    BY DEF CopyOut, Saved
<1>5. OneReplaces'
    BY <1>2, <1>4 DEF BaseInv, OneReplaces
<1>6. SavedFirst'
    <2> SUFFICES ASSUME NEW d \in Cases \ raced, NEW b \in Actors, Replacing(b, d)'
                 PROVE  held'[d] \subseteq Saved(d)
        BY <1>4 DEF SavedFirst
    <2>1. d # c
        BY <1>1, <1>2 DEF BaseInv, OneReplaces
    <2> QED  BY <1>2, <1>3, <2>1 DEF BaseInv, SavedFirst
<1>7. NoBaselineLost'
    <2> SUFFICES ASSUME NEW d \in Cases \ raced
                 PROVE  held'[d] \subseteq {lst'[d]} \cup Saved(d)
        BY <1>4 DEF NoBaselineLost
    <2>1. CASE d = c
        <3>1. held[c] \subseteq Saved(c)
            BY <1>1, <2>1 DEF BaseInv, SavedFirst
        <3> QED  BY <1>3, <2>1, <3>1
    <2>2. CASE d # c
        BY <1>3, <2>2 DEF BaseInv, NoBaselineLost
    <2> QED  BY <2>1, <2>2
<1> QED  BY <1>5, <1>6, <1>7

\* A process that ends early destroys nothing further.
LEMMA InterruptStep ==
    ASSUME BaseInv, NEW a \in Actors, Interrupt(a)
    PROVE  OneReplaces' /\ SavedFirst' /\ NoBaselineLost'
<1>1. \A b \in Actors, c \in Cases : Replacing(b, c)' => Replacing(b, c)
    BY DEF BaseInv, BaseTypeOK, Interrupt, Leave, NoJob, Replacing
<1> QED  BY <1>1, QuietStep DEF Interrupt

\* The invariant is inductive.
LEMMA StepInv == BaseInv /\ [BaseNext]_baseVars => BaseInv'
<1> SUFFICES ASSUME BaseInv, [BaseNext]_baseVars PROVE BaseInv'
    OBVIOUS
<1>1. BaseTypeOK'
    BY TypeStep DEF BaseInv
<1> DEFINE Rest == OneReplaces /\ SavedFirst /\ NoBaselineLost
<1>2. ASSUME NEW a \in Actors, Accept(a) PROVE Rest'
    BY <1>2, BeginStep, BackupStep, OpenStep, CopyStep, InterruptStep DEF Accept
<1>3. ASSUME UNCHANGED <<lst, baks, job, held, raced>> PROVE Rest'
    <2>1. \A b \in Actors, c \in Cases : Replacing(b, c)' => Replacing(b, c)
        BY <1>3 DEF Replacing
    <2> QED  BY <1>3, <2>1, QuietStep
<1>4. ASSUME NEW c \in Cases, NEW text \in Texts \cup {Torn}, WriteText(c, text)
      PROVE  Rest'
    BY <1>3, <1>4 DEF WriteText
<1>5. ASSUME Tick PROVE Rest'
    BY <1>3, <1>5 DEF Tick
<1>6. ASSUME UNCHANGED baseVars PROVE Rest'
    BY <1>3, <1>6 DEF baseVars
<1>7. Rest'
    BY <1>2, <1>4, <1>5, <1>6 DEF BaseNext
<1> QED  BY <1>1, <1>7 DEF BaseInv

\* The inductive invariant holds throughout.
THEOREM Invariance == BaseSpec => []BaseInv
BY InitInv, StepInv, PTL DEF BaseSpec

\* Every text a baseline has had is still there or in a backup, unless two
\* acceptances of it met (accept_out_to_lst, _accept_results).
THEOREM Lossless == BaseSpec => []NoBaselineLost
<1>1. BaseInv => NoBaselineLost
    BY DEF BaseInv
<1> QED  BY <1>1, Invariance, PTL

(***************************************************************************)
(* ViewDiff: the browsers and the runs accept baselines as Baseline        *)
(* describes, and what they accept is what was judged.                     *)
(***************************************************************************)
\* The elements of a sequence.
LEMMA Element ==
    ASSUME NEW S, NEW s \in Seq(S), NEW n \in 1..Len(s)
    PROVE  n \in DOMAIN s /\ s[n] \in S
OBVIOUS

\* The plan of a case that has begun is one of the suite's.
LEMMA PlanIsOne ==
    ASSUME ViewTypeOK, run.at <= Len(run.plans)
    PROVE  /\ run.at \in DOMAIN run.plans
           /\ Plan \in [index : Nat \ {0}, case : Cases]
<1>1. run.plans \in PlanLists
    <2>1. Len(<<>>) = 0
        OBVIOUS
    <2> QED  BY <2>1 DEF ViewTypeOK, RunType
<1>2. run.plans \in Seq([index : Nat \ {0}, case : Cases])
    BY <1>1, PlansAssumption
<1>3. run.at \in Nat \ {0}
    BY DEF ViewTypeOK, RunType
<1>4. run.at \in 1..Len(run.plans)
    BY <1>2, <1>3
<1> QED  BY <1>2, <1>4, Element DEF Plan

\* Who accepts is one of the processes of Baseline.
LEMMA BrowsersAct == Browsers \subseteq Actors /\ Altitest \in Actors
BY ActorsAssumption

\* A step of the composition is one of Baseline, or none.
LEMMA OrderIsAccept ==
    ASSUME NEW a \in Actors, NEW row, NEW item \in Result, Order(a, row, item)
    PROVE  BaseNext
BY DEF Order, Result, Accept, BaseNext

\* The steps of the run.
LEMMA RunRefines ==
    ASSUME BaseTypeOK, ViewInv, Run
    PROVE  [BaseNext]_baseVars
<1>1. ASSUME OpenOut PROVE BaseNext
    BY <1>1, PlanIsOne DEF OpenOut, MoreCases, ViewInv, BaseNext
<1>2. ASSUME WriteOut PROVE BaseNext
    BY <1>2, PlanIsOne DEF WriteOut, ViewInv, PlansInOrder, BaseNext
<1>3. ASSUME AcceptNext PROVE BaseNext
    BY <1>3, OrderIsAccept, BrowsersAct DEF AcceptNext, ViewInv, ViewTypeOK, RunType
<1>4. ASSUME StartRun \/ BreakEarly \/ BreakLate \/ Judge \/ EndCases
             \/ AcceptDone \/ OpenJson \/ DumpJson \/ CloseOwn
      PROVE  UNCHANGED baseVars
    BY <1>4 DEF StartRun, BreakEarly, BreakLate, Judge, EndCases, AcceptDone,
                OpenJson, DumpJson, CloseOwn
<1> QED  BY <1>1, <1>2, <1>3, <1>4 DEF Run

\* The steps of a browser.
LEMMA BrowserRefines ==
    ASSUME BaseTypeOK, ViewInv, NEW b \in Browsers,
           Cli(b) \/ Ui(b) \/ KillBrowser(b) \/ (b \in Own /\ OpenOwn(b))
    PROVE  [BaseNext]_baseVars
<1>0. b \in Actors
    BY BrowsersAct
<1>1. ASSUME AcceptCli(b) PROVE BaseNext
    <2>1. view[b].list.results \subseteq Result
        BY DEF ViewInv, ViewTypeOK, ViewType, Snapshot
    <2> QED  BY <1>0, <1>1, <2>1, OrderIsAccept DEF AcceptCli
<1>2. ASSUME AcceptUi(b) PROVE [BaseNext]_baseVars
    <2>1. \A row : Found(b, row) \subseteq Result
        BY DEF Found, ResultsIn, Source, IsComplete, ViewInv, ViewTypeOK, ViewType, Snapshot
    <2> QED  BY <1>0, <1>2, <2>1, OrderIsAccept DEF AcceptUi
<1>3. ASSUME KillBrowser(b) PROVE BaseNext
    BY <1>0, <1>3 DEF KillBrowser, Accept, BaseNext
<1>4. ASSUME OpenCli(b) \/ OpenUi(b) \/ RefreshList(b) \/ ViewOut(b) \/ Quit(b) \/ OpenOwn(b)
      PROVE  UNCHANGED baseVars
    BY <1>4 DEF OpenCli, OpenUi, RefreshList, ViewOut, Quit, OpenOwn
<1> QED  BY <1>1, <1>2, <1>3, <1>4 DEF Cli, Ui

\* Any step.
LEMMA Refines == BaseTypeOK /\ ViewInv /\ [Next]_allVars => [BaseNext]_baseVars
<1> SUFFICES ASSUME BaseTypeOK, ViewInv, [Next]_allVars PROVE [BaseNext]_baseVars
    OBVIOUS
<1>1. ASSUME KillRun PROVE [BaseNext]_baseVars
    BY <1>1, BrowsersAct DEF KillRun, Accept, BaseNext
<1>2. ASSUME NEW a \in Actors, Copy(a) \/ FinishCopy(a) PROVE BaseNext
    BY <1>2 DEF Copy, FinishCopy, Accept, BaseNext
<1>3. ASSUME Tick PROVE BaseNext
    BY <1>3 DEF BaseNext
<1>4. CASE UNCHANGED allVars
    BY <1>4 DEF allVars
<1>5. Own \subseteq Browsers /\ Clis \subseteq Browsers /\ Uis \subseteq Browsers
    BY ActorsAssumption DEF Browsers
<1> QED  BY <1>1, <1>2, <1>3, <1>4, <1>5, RunRefines, BrowserRefines DEF Next, Silent

(***************************************************************************)
(* Types.                                                                  *)
(***************************************************************************)
\* The file a browser reads, if it can be read.
LEMMA SourceTypes ==
    ASSUME ViewTypeOK, NEW b \in Browsers, IsComplete(Source(b))
    PROVE  Source(b) \in Snapshot
BY DEF ViewTypeOK, ViewType, IsComplete, Source

\* No run is a run.
LEMMA NoRunType == \A gen \in Nat : NoRun(gen) \in RunType
BY DEF NoRun, RunType

\* The fields of a run that a step may change.
LEMMA RunFields ==
    ASSUME run \in RunType
    PROVE  /\ run.gen \in Nat /\ run.results \in SUBSET Result
           /\ \A pc \in {"case", "write", "judge", "accept", "save", "dump"} :
                [run EXCEPT !.pc = pc] \in RunType
           /\ \A todo \in SUBSET Result :
                /\ [run EXCEPT !.pc = "accept", !.todo = todo] \in RunType
                /\ [run EXCEPT !.todo = todo] \in RunType
           /\ \A r \in Result :
                [run EXCEPT !.pc = "case", !.at = @ + 1, !.results = @ \cup {r}] \in RunType
<1> USE DEF RunType
<1>1. run.gen \in Nat /\ run.results \in SUBSET Result
    OBVIOUS
<1>2. ASSUME NEW pc \in {"case", "write", "judge", "accept", "save", "dump"}
      PROVE  [run EXCEPT !.pc = pc] \in RunType
    OBVIOUS
<1>3. ASSUME NEW todo \in SUBSET Result
      PROVE  /\ [run EXCEPT !.pc = "accept", !.todo = todo] \in RunType
             /\ [run EXCEPT !.todo = todo] \in RunType
    OBVIOUS
<1>4. ASSUME NEW r \in Result
      PROVE  [run EXCEPT !.pc = "case", !.at = @ + 1, !.results = @ \cup {r}] \in RunType
    <2>1. run.at + 1 \in Nat \ {0} /\ run.results \cup {r} \in SUBSET Result
        OBVIOUS
    <2> QED  BY <2>1
<1> QED  BY <1>1, <1>2, <1>3, <1>4

\* The fields of a browser that a step may change.
LEMMA ViewFields ==
    ASSUME view \in [Browsers -> ViewType], NEW b \in Browsers
    PROVE  /\ view[b].list.results \subseteq Result
           /\ view[b].window # NoRow => view[b].window \in Result
           /\ \A pc \in {"closed", "refresh", "open", "busy"} :
                [view EXCEPT ![b].pc = pc] \in [Browsers -> ViewType]
           /\ \A list \in Snapshot :
                [view EXCEPT ![b].pc = "open", ![b].list = list] \in [Browsers -> ViewType]
           /\ \A row \in Result : [view EXCEPT ![b].window = row] \in [Browsers -> ViewType]
           /\ [view EXCEPT ![b] = Closed] \in [Browsers -> ViewType]
<1> DEFINE v == view[b]
<1>1. v \in ViewType
    OBVIOUS
<1>2. \A w \in ViewType : [view EXCEPT ![b] = w] \in [Browsers -> ViewType]
    OBVIOUS
<1>3. v.list.results \subseteq Result /\ (v.window # NoRow => v.window \in Result)
    BY <1>1 DEF ViewType, Snapshot
<1>4. ASSUME NEW pc \in {"closed", "refresh", "open", "busy"}
      PROVE  [view EXCEPT ![b].pc = pc] \in [Browsers -> ViewType]
    <2>1. [v EXCEPT !.pc = pc] \in ViewType
        BY <1>1 DEF ViewType
    <2> QED  BY <1>2, <2>1
<1>5. ASSUME NEW list \in Snapshot
      PROVE  [view EXCEPT ![b].pc = "open", ![b].list = list] \in [Browsers -> ViewType]
    <2>1. [v EXCEPT !.pc = "open", !.list = list] \in ViewType
        BY <1>1 DEF ViewType
    <2>2. [view EXCEPT ![b].pc = "open", ![b].list = list]
            = [view EXCEPT ![b] = [v EXCEPT !.pc = "open", !.list = list]]
        BY <1>1 DEF ViewType
    <2> QED  BY <1>2, <2>1, <2>2
<1>6. ASSUME NEW row \in Result
      PROVE  [view EXCEPT ![b].window = row] \in [Browsers -> ViewType]
    <2>1. [v EXCEPT !.window = row] \in ViewType
        BY <1>1 DEF ViewType
    <2> QED  BY <1>2, <2>1
<1>7. [view EXCEPT ![b] = Closed] \in [Browsers -> ViewType]
    <2>1. Closed \in ViewType
        BY DEF ViewType, Closed, Snapshot, NoResults
    <2> QED  BY <1>2, <2>1
<1> QED  BY <1>3, <1>4, <1>5, <1>6, <1>7

\* What is asked for stays a row and an item.
LEMMA AskTypes ==
    ASSUME ViewTypeOK, NEW a \in Actors
    PROVE  /\ [ask EXCEPT ![a] = NoRow] \in [Actors -> AskType]
           /\ \A row, item \in Result :
                [ask EXCEPT ![a] = [row |-> row, item |-> item]] \in [Actors -> AskType]
BY DEF ViewTypeOK, AskType

\* The result of the case at hand.
LEMMA NewResult ==
    ASSUME ViewTypeOK, run.at <= Len(run.plans), NEW status \in Statuses, NEW judged \in File
    PROVE  [index |-> Plan.index, case |-> Plan.case, status |-> status,
            gen |-> run.gen, judged |-> judged] \in Result
<1>1. run.gen \in Nat
    BY DEF ViewTypeOK, RunType
<1> QED  BY <1>1, PlanIsOne DEF Result

\* The run keeps the types.
LEMMA RunTypes ==
    ASSUME BaseTypeOK, ViewInv, Run \/ KillRun
    PROVE  ViewTypeOK'
<1> USE DEF ViewInv
<1>0. run \in RunType
    BY DEF ViewTypeOK
<1>1. ASSUME NEW status \in Statuses, NEW judged \in File, run.at <= Len(run.plans),
             AddResult(status, judged)
      PROVE  run' \in RunType
    BY <1>0, <1>1, NewResult, RunFields DEF AddResult
<1>2. ASSUME BreakEarly \/ BreakLate PROVE ViewTypeOK'
    <2>1. "ERROR" \in Statuses /\ Missing \in File
        BY DEF Statuses, File
    <2>2. run.at <= Len(run.plans) /\ AddResult("ERROR", Missing)
        BY <1>2 DEF BreakEarly, BreakLate, MoreCases, PlansInOrder
    <2>3. run' \in RunType
        BY <1>1, <2>1, <2>2
    <2> QED  BY <1>2, <2>3 DEF BreakEarly, BreakLate, ViewTypeOK
<1>4. ASSUME Judge PROVE ViewTypeOK'
    <2>1. run.at <= Len(run.plans)
        BY <1>4 DEF Judge, PlansInOrder
    <2>2. out[Plan.case] \in File
        BY <2>1, PlanIsOne DEF BaseTypeOK
    <2>3. \A same, orderOnly, exists : ClassifyCompare(same, orderOnly, exists).status \in Statuses
        BY DEF ClassifyCompare, Pass, Statuses
    <2>4. run' \in RunType
        BY <1>1, <1>4, <2>1, <2>2, <2>3 DEF Judge
    <2> QED  BY <1>4, <2>4 DEF Judge, ViewTypeOK
<1>5. ASSUME StartRun PROVE ViewTypeOK'
    <2>1. PICK plans \in PlanLists :
            run' = [NoRun(run.gen + 1) EXCEPT !.pc = "case", !.plans = plans]
        BY <1>5 DEF StartRun
    <2>2. run.gen + 1 \in Nat
        BY <1>0 DEF RunType
    <2>3. NoRun(run.gen + 1) \in RunType
        BY <2>2, NoRunType
    <2>4. run' \in RunType
        BY <2>1, <2>3 DEF RunType
    <2> QED  BY <1>5, <2>4 DEF StartRun, ViewTypeOK
<1>6. ASSUME OpenOut \/ WriteOut \/ AcceptDone PROVE ViewTypeOK'
    BY <1>0, <1>6, RunFields DEF OpenOut, WriteOut, AcceptDone, ViewTypeOK
<1>7. ASSUME EndCases PROVE ViewTypeOK'
    BY <1>0, <1>7, RunFields DEF EndCases, Failures, ViewTypeOK
<1>8. ASSUME AcceptNext PROVE ViewTypeOK'
    <2>1. PICK item \in run.todo : Order(Altitest, item, item)
                                   /\ run' = [run EXCEPT !.todo = @ \ {item}]
        BY <1>8 DEF AcceptNext
    <2>2. run.todo \in SUBSET Result /\ run.todo \ {item} \in SUBSET Result
        BY <1>0 DEF RunType
    <2>3. run' \in RunType
        BY <1>0, <2>1, <2>2, RunFields
    <2>4. ask' \in [Actors -> AskType]
        BY <2>1, <2>2, AskTypes, BrowsersAct DEF Order
    <2> QED  BY <1>8, <2>3, <2>4 DEF AcceptNext, ViewTypeOK
<1>9. ASSUME OpenJson PROVE ViewTypeOK'
    BY <1>0, <1>9, RunFields DEF OpenJson, ViewTypeOK
<1>10. ASSUME DumpJson \/ CloseOwn PROVE ViewTypeOK'
    <2>1. run' \in RunType
        BY <1>0, <1>10, RunFields, NoRunType DEF DumpJson, CloseOwn
    <2>2. [gen |-> run.gen, results |-> run.results] \in Snapshot
        BY <1>0, RunFields DEF Snapshot
    <2> QED  BY <1>10, <2>1, <2>2 DEF DumpJson, CloseOwn, ViewTypeOK
<1>11. ASSUME KillRun PROVE ViewTypeOK'
    BY <1>0, <1>11, RunFields, NoRunType, AskTypes, BrowsersAct DEF KillRun, Forget, ViewTypeOK
<1> QED  BY <1>2, <1>4, <1>5, <1>6, <1>7, <1>8, <1>9, <1>10, <1>11 DEF Run

\* A browser keeps the types.
LEMMA BrowserTypes ==
    ASSUME BaseTypeOK, ViewInv, NEW b \in Browsers,
           Cli(b) \/ Ui(b) \/ KillBrowser(b) \/ (b \in Own /\ OpenOwn(b))
    PROVE  ViewTypeOK'
<1> USE DEF ViewInv
<1>0. b \in Actors /\ view \in [Browsers -> ViewType]
    BY BrowsersAct DEF ViewTypeOK
<1>1. ASSUME OpenCli(b) PROVE ViewTypeOK'
    BY <1>0, <1>1, ViewFields DEF OpenCli, MayStart, IsComplete, Show, ViewTypeOK
<1>2. ASSUME AcceptCli(b) PROVE ViewTypeOK'
    <2>1. PICK row \in Result : Order(b, row, row)
        BY <1>0, <1>2, ViewFields DEF AcceptCli
    <2>2. ask' \in [Actors -> AskType]
        BY <1>0, <2>1, AskTypes DEF Order
    <2> QED  BY <1>2, <2>2 DEF AcceptCli, ViewTypeOK
<1>3. ASSUME OpenUi(b) PROVE ViewTypeOK'
    BY <1>0, <1>3, ViewFields DEF OpenUi, ViewTypeOK
<1>4. ASSUME RefreshList(b) PROVE ViewTypeOK'
    <2>1. NoResults \in Snapshot
        BY DEF NoResults, Snapshot
    <2>2. \A s \in Snapshot : [s EXCEPT !.results = Issues(@)] \in Snapshot
        BY DEF Issues, Snapshot
    <2> QED  BY <1>0, <1>4, <2>1, <2>2, SourceTypes, ViewFields DEF RefreshList, Show, ViewTypeOK
<1>5. ASSUME ViewOut(b) PROVE ViewTypeOK'
    <2>1. PICK row \in Result : view' = [view EXCEPT ![b].window = row]
        BY <1>0, <1>5, ViewFields DEF ViewOut, Failures
    <2>2. view' \in [Browsers -> ViewType]
        BY <1>0, <2>1, ViewFields
    <2> QED  BY <1>5, <2>2 DEF ViewOut, ViewTypeOK
<1>6. ASSUME AcceptUi(b) PROVE ViewTypeOK'
    <2>1. \A row : Found(b, row) \subseteq Result
        BY SourceTypes DEF Found, ResultsIn, Snapshot
    <2>2. Failures(view[b].list.results) \cup ({view[b].window} \ {NoRow}) \subseteq Result
        BY <1>0, ViewFields DEF Failures
    <2>3. ask' \in [Actors -> AskType]
        BY <1>0, <1>6, <2>1, <2>2, AskTypes DEF AcceptUi, Order, ViewTypeOK
    <2> QED  BY <1>0, <1>6, <2>3, ViewFields DEF AcceptUi, ViewTypeOK
<1>7. ASSUME Quit(b) PROVE ViewTypeOK'
    BY <1>0, <1>7, ViewFields DEF Quit, ViewTypeOK
<1>8. ASSUME OpenOwn(b), b \in Own PROVE ViewTypeOK'
    <2>1. run.gen \in Nat /\ run.results \subseteq Result
        BY RunFields DEF ViewTypeOK
    <2>2. [gen |-> run.gen, results |-> run.results] \in Snapshot
        BY <2>1 DEF Snapshot
    <2>3. run' \in RunType
        <3>1. NoRun(run.gen) \in RunType
            BY <2>1, NoRunType
        <3>2. run' = [NoRun(run.gen) EXCEPT !.pc = "wait", !.child = b]
            BY <1>8 DEF OpenOwn
        <3> QED  BY <1>8, <3>1, <3>2 DEF RunType
    <2>4. view' \in [Browsers -> ViewType]
        <3>1. PICK own \in Snapshot, pc \in {"refresh", "open"}, list \in Snapshot :
                view' = [view EXCEPT ![b].file = own, ![b].pc = pc, ![b].list = list]
            <4>1. NoResults \in Snapshot
                BY DEF NoResults, Snapshot
            <4>2. CASE b \in Uis
                BY <1>8, <2>2, <4>1, <4>2 DEF OpenOwn
            <4>3. CASE b \notin Uis
                BY <1>8, <2>2, <4>3 DEF OpenOwn
            <4> QED  BY <4>2, <4>3
        <3> QED  BY <1>0, <3>1 DEF ViewType
    <2> QED  BY <1>8, <2>2, <2>3, <2>4 DEF OpenOwn, ViewTypeOK
<1>9. ASSUME KillBrowser(b) PROVE ViewTypeOK'
    <2>1. view' \in [Browsers -> ViewType]
        BY <1>0, <1>9, ViewFields DEF KillBrowser
    <2> QED  BY <1>0, <1>9, <2>1, AskTypes DEF KillBrowser, Forget, ViewTypeOK
<1> QED  BY <1>1, <1>2, <1>3, <1>4, <1>5, <1>6, <1>7, <1>8, <1>9 DEF Cli, Ui

\* Copying keeps the types.
LEMMA CopyTypes ==
    ASSUME BaseTypeOK, ViewInv, NEW a \in Actors, Copy(a) \/ FinishCopy(a)
    PROVE  ViewTypeOK'
<1> USE DEF ViewInv
<1>1. ASSUME Copy(a) PROVE ViewTypeOK'
    BY <1>1 DEF Copy, viewVars, ViewTypeOK
<1>2. ASSUME FinishCopy(a) PROVE ViewTypeOK'
    <2>1. view' \in [Browsers -> ViewType]
        <3>1. a \in Uis => a \in Browsers
            BY DEF Browsers
        <3> QED  BY <1>2, <3>1, ViewFields DEF FinishCopy, AfterProcess, ViewTypeOK
    <2> QED  BY <1>2, <2>1, AskTypes DEF FinishCopy, Forget, ViewTypeOK
<1> QED  BY <1>1, <1>2

\* Every step of the composition keeps the types.
LEMMA ViewTypes == BaseTypeOK /\ ViewInv /\ [Next]_allVars => ViewTypeOK'
<1> SUFFICES ASSUME BaseTypeOK, ViewInv, [Next]_allVars PROVE ViewTypeOK'
    OBVIOUS
<1>1. ASSUME Tick, UNCHANGED viewVars PROVE ViewTypeOK'
    BY <1>1 DEF viewVars, ViewInv, ViewTypeOK
<1>2. CASE UNCHANGED allVars
    BY <1>2 DEF allVars, viewVars, ViewInv, ViewTypeOK
<1>3. Own \subseteq Browsers /\ Clis \subseteq Browsers /\ Uis \subseteq Browsers
    BY ActorsAssumption DEF Browsers
<1> QED  BY <1>1, <1>2, <1>3, RunTypes, BrowserTypes, CopyTypes DEF Next, Silent

(***************************************************************************)
(* The results that are known.                                             *)
(***************************************************************************)
\* The known results, one kind at a time.
LEMMA Belongs ==
    \A r :
        /\ r \in Items <=> \/ r \in run.results \/ r \in ResultsIn(json)
                           \/ r \in Asked(Altitest)
                           \/ \E b \in Browsers : r \in Known(b)
        /\ r \in Items' <=> \/ r \in run'.results \/ r \in ResultsIn(json)'
                            \/ r \in Asked(Altitest)'
                            \/ \E b \in Browsers : r \in Known(b)'
BY DEF Items

\* The known results are results.
LEMMA ItemsAreResults == ViewTypeOK /\ AskedIsFailure => Items \subseteq Result
<1> SUFFICES ASSUME ViewTypeOK, AskedIsFailure, NEW r \in Items PROVE r \in Result
    OBVIOUS
<1>1. run.results \subseteq Result /\ ResultsIn(json) \subseteq Result
    BY DEF ViewTypeOK, RunType, Snapshot, ResultsIn, IsComplete
<1>2. ASSUME NEW a \in Actors PROVE Asked(a) \subseteq Result
    <2>1. CASE Idle(a)
        BY <2>1 DEF Asked
    <2>2. CASE ~Idle(a)
        <3>1. ask[a] \in [row : Result, item : Result]
            BY <2>2 DEF AskedIsFailure
        <3> QED  BY <2>2, <3>1 DEF Asked
    <2> QED  BY <2>1, <2>2
<1>3. \A b \in Browsers : Known(b) \subseteq Result
    BY <1>2, BrowsersAct DEF ViewTypeOK, ViewType, Snapshot, Known
<1> QED  BY <1>1, <1>2, <1>3, Belongs, BrowsersAct

\* As long as no output is written and no result added, what is said of the
\* known results stays true.
LEMMA KeepsItems ==
    ASSUME ViewInv, ViewTypeOK', Items' \subseteq Items, out' = out, run'.gen = run.gen,
           Running' => Running /\ run'.plans = run.plans /\ run.at <= run'.at,
           run'.pc \in {"write", "judge"} => run'.at <= Len(run'.plans)
    PROVE  IndexesTell' /\ PlansInOrder' /\ JudgedStays'
<1>1. IndexesTell'
    BY DEF ViewInv, IndexesTell
<1>2. JudgedStays'
    BY DEF ViewInv, JudgedStays
<1>3. ASSUME NEW r \in Items', Running', r.gen = run.gen
      PROVE  \E n \in DOMAIN run'.plans :
                n < run'.at /\ r.index = run'.plans[n].index /\ r.case = run'.plans[n].case
    <2>1. PICK n \in DOMAIN run.plans :
            n < run.at /\ r.index = run.plans[n].index /\ r.case = run.plans[n].case
        BY <1>3 DEF ViewInv, PlansInOrder
    <2>2. run.at \in Nat /\ run'.at \in Nat
        BY DEF ViewInv, ViewTypeOK, RunType
    <2>3. n \in Nat
        <3>1. run.plans \in PlanLists \cup {<<>>}
            BY DEF ViewInv, ViewTypeOK, RunType
        <3> QED  BY <3>1, PlansAssumption
    <2> QED  BY <1>3, <2>1, <2>2, <2>3
<1>4. PlansInOrder'
    BY <1>3 DEF ViewInv, PlansInOrder
<1> QED  BY <1>1, <1>2, <1>4

(***************************************************************************)
(* The steps of the run.                                                   *)
(***************************************************************************)
\* A browser does not notice the steps of the run.
LEMMA BrowsersUnaware ==
    ASSUME ViewInv, view' = view,
           \A b \in Browsers : job'[b] = job[b] /\ ask'[b] = ask[b],
           run'.child = NoRow \/ (run'.child = run.child /\ run'.gen = run.gen)
    PROVE  OwnKnowsOne' /\ \A b \in Browsers : Known(b)' = Known(b)
<1>1. \A b \in Browsers : (Idle(b)' <=> Idle(b)) /\ Known(b)' = Known(b)
    BY DEF Idle, Known, Asked
<1>2. \A b \in Browsers : b = run'.child => b = run.child /\ run'.gen = run.gen
    BY ActorsAssumption
<1>3. Own \subseteq Browsers
    BY ActorsAssumption
<1> QED  BY <1>1, <1>2, <1>3 DEF ViewInv, OwnKnowsOne

\* The steps that touch neither the acceptances nor the known results.
LEMMA RunQuiet ==
    ASSUME ViewInv, ViewTypeOK', UNCHANGED <<job, ask, view, out>>, run'.gen = run.gen,
           run'.child = NoRow \/ run'.child = run.child,
           Running' => Running /\ run'.plans = run.plans /\ run.at <= run'.at,
           run'.pc \in {"write", "judge"} => run'.at <= Len(run'.plans),
           run'.results \subseteq run.results,
           run'.todo \subseteq Failures(run'.results),
           ResultsIn(json)' \subseteq run.results \cup ResultsIn(json)
    PROVE  ViewInv'
<1>1. OwnKnowsOne' /\ \A b \in Browsers : Known(b)' = Known(b)
    BY BrowsersUnaware
<1>2. Asked(Altitest)' = Asked(Altitest)
    BY DEF Asked, Idle
<1>3. Items' \subseteq Items
    BY <1>1, <1>2, Belongs
<1>4. IndexesTell' /\ PlansInOrder' /\ JudgedStays'
    BY <1>3, KeepsItems
<1>5. AskedIsFailure'
    BY DEF ViewInv, AskedIsFailure, Idle
<1>6. RunOwnsResults'
    BY DEF ViewInv, RunOwnsResults
<1> QED  BY <1>1, <1>4, <1>5, <1>6 DEF ViewInv

\* The steps after the last case.
LEMMA SaveStep ==
    ASSUME ViewInv, ViewTypeOK', EndCases \/ AcceptDone \/ OpenJson \/ DumpJson \/ CloseOwn
    PROVE  ViewInv'
<1>0. run \in RunType
    BY DEF ViewInv, ViewTypeOK
<1>1. run.todo \subseteq Failures(run.results)
    BY DEF ViewInv, RunOwnsResults
<1>2. /\ run'.gen = run.gen /\ run'.pc \notin {"case", "write", "judge"}
      /\ run'.child = NoRow \/ run'.child = run.child
      /\ run'.results \subseteq run.results /\ run'.todo \subseteq Failures(run'.results)
    <2>1. CASE EndCases
        <3>1. CASE run' = [run EXCEPT !.pc = "accept", !.todo = Failures(run.results)]
            BY <1>0, <3>1 DEF RunType
        <3>2. CASE run' = [run EXCEPT !.pc = "save"]
            BY <1>0, <1>1, <3>2 DEF RunType
        <3> QED  BY <2>1, <3>1, <3>2 DEF EndCases
    <2>2. CASE AcceptDone
        BY <1>0, <1>1, <2>2 DEF AcceptDone, RunType
    <2>3. CASE OpenJson
        BY <1>0, <1>1, <2>3 DEF OpenJson, RunType
    <2>4. CASE DumpJson \/ CloseOwn
        BY <2>4 DEF DumpJson, CloseOwn, NoRun
    <2> QED  BY <2>1, <2>2, <2>3, <2>4
<1>3. ResultsIn(json)' \subseteq run.results \cup ResultsIn(json)
    <2>1. CASE OpenJson
        BY <2>1 DEF OpenJson, ResultsIn, IsComplete
    <2>2. CASE DumpJson
        BY <2>2 DEF DumpJson, ResultsIn
    <2>3. CASE EndCases \/ AcceptDone \/ CloseOwn
        BY <2>3 DEF EndCases, AcceptDone, CloseOwn, ResultsIn, IsComplete
    <2> QED  BY <2>1, <2>2, <2>3
<1>4. UNCHANGED <<job, ask, view, out>>
    BY DEF EndCases, AcceptDone, OpenJson, DumpJson, CloseOwn, baseVars
<1> QED  BY <1>2, <1>3, <1>4, RunQuiet DEF Running

\* The results of a new run are of a new generation.
LEMMA StartStep ==
    ASSUME ViewInv, ViewTypeOK', StartRun
    PROVE  ViewInv'
<1>0. run.gen \in Nat /\ UNCHANGED <<job, ask, view, out, json>>
    BY DEF ViewInv, ViewTypeOK, RunType, StartRun, baseVars
<1>1. /\ run'.gen = run.gen + 1 /\ run'.results = {} /\ run'.todo = {}
      /\ run'.child = NoRow /\ run'.pc = "case"
    BY DEF StartRun, NoRun
<1>2. OwnKnowsOne' /\ \A b \in Browsers : Known(b)' = Known(b)
    BY <1>0, <1>1, BrowsersUnaware
<1>3. Items' \subseteq Items
    BY <1>0, <1>1, <1>2, Belongs DEF Asked, Idle, ResultsIn, IsComplete
<1>4. \A r \in Items' : r.gen \in Nat /\ r.gen <= run.gen
    BY <1>3, ItemsAreResults DEF ViewInv, PlansInOrder, Result
<1>5. IndexesTell'
    BY <1>3 DEF ViewInv, IndexesTell
<1>6. PlansInOrder' /\ JudgedStays'
    BY <1>0, <1>1, <1>4 DEF PlansInOrder, JudgedStays
<1>7. AskedIsFailure' /\ RunOwnsResults'
    BY <1>0, <1>1 DEF ViewInv, AskedIsFailure, RunOwnsResults, Idle, Failures
<1> QED  BY <1>2, <1>5, <1>6, <1>7 DEF ViewInv

\* The case of a plan, once it has begun, is not that of a known result of
\* the same run.
LEMMA PlanIsNew ==
    ASSUME ViewInv, Running, run.at <= Len(run.plans), NEW r \in Items, r.gen = run.gen
    PROVE  r.index # Plan.index /\ r.case # Plan.case
<1>1. PICK n \in DOMAIN run.plans :
        n < run.at /\ r.index = run.plans[n].index /\ r.case = run.plans[n].case
    BY DEF ViewInv, PlansInOrder
<1>2. run.at \in DOMAIN run.plans /\ run.at \in Nat
    BY PlanIsOne DEF ViewInv, ViewTypeOK, RunType
<1>3. n # run.at
    BY <1>1, <1>2
<1>4. run.plans \in PlanLists
    BY <1>1 DEF ViewInv, ViewTypeOK, RunType
<1> QED  BY <1>1, <1>2, <1>3, <1>4, PlansAssumption DEF Plan

\* A result is added, whose index and case are new in this run.
LEMMA AddStep ==
    ASSUME ViewInv, ViewTypeOK', run.pc \in {"case", "judge"}, run.at <= Len(run.plans),
           NEW status \in Statuses, NEW judged \in File, AddResult(status, judged),
           UNCHANGED <<baseVars, json, view, ask>>,
           status = "FAIL" => out[Plan.case] = judged
    PROVE  ViewInv'
<1> DEFINE new == [index |-> Plan.index, case |-> Plan.case, status |-> status,
                   gen |-> run.gen, judged |-> judged]
<1>0. run \in RunType
    BY DEF ViewInv, ViewTypeOK
<1>1. /\ run'.gen = run.gen /\ run'.results = run.results \cup {new}
      /\ run'.todo = run.todo /\ run'.child = run.child /\ run'.pc = "case"
      /\ run'.plans = run.plans /\ run'.at = run.at + 1
    BY <1>0 DEF AddResult, RunType
<1>2. UNCHANGED <<job, ask, out, json, view>>
    BY DEF baseVars
<1>3. OwnKnowsOne' /\ \A b \in Browsers : Known(b)' = Known(b)
    BY <1>1, <1>2, BrowsersUnaware
<1>4. Items' \subseteq Items \cup {new}
    BY <1>1, <1>2, <1>3, Belongs DEF Asked, Idle, ResultsIn, IsComplete
<1>5. Running
    BY DEF Running
<1>6. IndexesTell'
    <2>1. \A r \in Items : r.gen = new.gen => r.index # new.index
        BY <1>5, PlanIsNew
    <2> QED  BY <1>4, <2>1 DEF ViewInv, IndexesTell
<1>7. PlansInOrder'
    <2>1. run.at \in Nat /\ run.at \in DOMAIN run.plans /\ run.gen \in Nat
        BY <1>0, PlanIsOne DEF ViewInv, RunType
    <2>2. run.at < run'.at
        BY <1>1, <2>1
    <2>3. ASSUME NEW r \in Items, r.gen = run.gen
          PROVE  \E n \in DOMAIN run.plans :
                    n < run'.at /\ r.index = run.plans[n].index /\ r.case = run.plans[n].case
        <3>1. PICK n \in DOMAIN run.plans :
                n < run.at /\ r.index = run.plans[n].index /\ r.case = run.plans[n].case
            BY <1>5, <2>3 DEF ViewInv, PlansInOrder
        <3>2. n \in Nat
            <4>1. run.plans \in PlanLists
                BY <3>1 DEF ViewInv, ViewTypeOK, RunType
            <4> QED  BY <4>1, PlansAssumption
        <3> QED  BY <2>1, <2>2, <3>1, <3>2, <1>1
    <2>4. \E n \in DOMAIN run.plans :
            n < run'.at /\ new.index = run.plans[n].index /\ new.case = run.plans[n].case
        BY <2>1, <2>2 DEF Plan
    <2>5. \A r \in Items \cup {new} : r.gen <= run.gen
        BY <2>1 DEF ViewInv, PlansInOrder
    <2> QED  BY <1>1, <1>4, <2>3, <2>4, <2>5 DEF PlansInOrder
<1>8. JudgedStays'
    BY <1>1, <1>2, <1>4 DEF ViewInv, JudgedStays
<1>9. AskedIsFailure'
    BY <1>2 DEF ViewInv, AskedIsFailure, Idle
<1>10. RunOwnsResults'
    BY <1>1 DEF ViewInv, RunOwnsResults, Failures
<1> QED  BY <1>3, <1>6, <1>7, <1>8, <1>9, <1>10 DEF ViewInv

\* The steps that add a result.
LEMMA ResultStep ==
    ASSUME BaseTypeOK, ViewInv, ViewTypeOK', BreakEarly \/ BreakLate \/ Judge
    PROVE  ViewInv'
<1>1. run.at <= Len(run.plans)
    BY DEF BreakEarly, MoreCases, BreakLate, Judge, ViewInv, PlansInOrder
<1>2. CASE BreakEarly \/ BreakLate
    <2>1. "ERROR" \in Statuses /\ Missing \in File
        BY DEF Statuses, File
    <2>2. /\ AddResult("ERROR", Missing) /\ UNCHANGED <<baseVars, json, view, ask>>
          /\ run.pc \in {"case", "judge"}
        BY <1>2 DEF BreakEarly, MoreCases, BreakLate
    <2> QED  BY <1>1, <2>1, <2>2, AddStep
<1>3. CASE Judge
    <2>1. PICK orderOnly \in BOOLEAN :
            AddResult(ClassifyCompare(lst[Plan.case] = out[Plan.case], orderOnly,
                                      lst[Plan.case] # Missing).status, out[Plan.case])
        BY <1>3 DEF Judge
    <2>2. ClassifyCompare(lst[Plan.case] = out[Plan.case], orderOnly,
                          lst[Plan.case] # Missing).status \in Statuses
        BY DEF ClassifyCompare, Pass, Statuses
    <2>3. out[Plan.case] \in File
        BY <1>1, PlanIsOne DEF BaseTypeOK, ViewInv
    <2> QED  BY <1>1, <1>3, <2>1, <2>2, <2>3, AddStep DEF Judge
<1> QED  BY <1>2, <1>3

\* The output that is written is that of a case with no result of this run.
LEMMA OutStep ==
    ASSUME BaseTypeOK, ViewInv, ViewTypeOK', OpenOut \/ WriteOut
    PROVE  ViewInv'
<1>0. run \in RunType
    BY DEF ViewInv, ViewTypeOK
<1>1. run.pc \in {"case", "write"} /\ run.at <= Len(run.plans)
    BY DEF OpenOut, MoreCases, WriteOut, ViewInv, PlansInOrder
<1>2. /\ run'.gen = run.gen /\ run'.results = run.results /\ run'.todo = run.todo
      /\ run'.child = run.child /\ run'.plans = run.plans /\ run'.at = run.at
    BY <1>0 DEF OpenOut, WriteOut, RunType
<1>3. UNCHANGED <<job, ask, json, view>>
    BY DEF OpenOut, WriteOut, WriteText
<1>4. \A c \in Cases : c # Plan.case => out'[c] = out[c]
    BY DEF OpenOut, WriteOut, WriteText, BaseTypeOK
<1>5. OwnKnowsOne' /\ \A b \in Browsers : Known(b)' = Known(b)
    BY <1>2, <1>3, BrowsersUnaware
<1>6. Items' \subseteq Items
    BY <1>2, <1>3, <1>5, Belongs DEF Asked, Idle, ResultsIn, IsComplete
<1>7. IndexesTell'
    BY <1>6 DEF ViewInv, IndexesTell
<1>8. PlansInOrder'
    BY <1>1, <1>2, <1>6 DEF ViewInv, PlansInOrder, Running
<1>9. JudgedStays'
    <2>1. \A r \in Items : r.case \in Cases /\ (r.gen = run.gen => r.case # Plan.case)
        BY <1>1, PlanIsNew, ItemsAreResults DEF Running, Result, ViewInv
    <2> QED  BY <1>2, <1>4, <1>6, <2>1 DEF ViewInv, JudgedStays
<1>10. AskedIsFailure' /\ RunOwnsResults'
    BY <1>2, <1>3 DEF ViewInv, AskedIsFailure, RunOwnsResults, Idle
<1> QED  BY <1>5, <1>7, <1>8, <1>9, <1>10 DEF ViewInv

\* What the run accepts is one of its failures.
LEMMA AcceptStep ==
    ASSUME BaseTypeOK, ViewInv, ViewTypeOK', AcceptNext
    PROVE  ViewInv'
<1>0. run \in RunType
    BY DEF ViewInv, ViewTypeOK
<1>1. PICK item \in run.todo : Order(Altitest, item, item)
                               /\ run' = [run EXCEPT !.todo = @ \ {item}]
    BY DEF AcceptNext
<1>2. item \in run.results /\ item.status = "FAIL"
    BY DEF ViewInv, RunOwnsResults, Failures
<1>3. /\ run'.gen = run.gen /\ run'.results = run.results
      /\ run'.todo \subseteq run.todo /\ run'.child = run.child /\ run'.pc = run.pc
    BY <1>0, <1>1 DEF RunType
<1>4. run.pc = "accept" /\ UNCHANGED <<json, view, out>>
    BY <1>1 DEF AcceptNext, Order, BeginAccept
<1>5. /\ job'[Altitest] = [step |-> "backup", case |-> item.case]
      /\ ask'[Altitest] = [row |-> item, item |-> item]
      /\ \A a \in Actors : a # Altitest => job'[a] = job[a] /\ ask'[a] = ask[a]
    BY <1>1, BrowsersAct DEF Order, BeginAccept, BaseTypeOK, ViewInv, ViewTypeOK
<1>6. OwnKnowsOne' /\ \A b \in Browsers : Known(b)' = Known(b)
    BY <1>3, <1>4, <1>5, BrowsersUnaware, ActorsAssumption
<1>7. Items' \subseteq Items
    <2>1. Asked(Altitest)' \subseteq {item}
        BY <1>5 DEF Asked
    <2> QED  BY <1>2, <1>3, <1>4, <1>6, <2>1, Belongs DEF ResultsIn, IsComplete
<1>8. IndexesTell' /\ PlansInOrder' /\ JudgedStays'
    BY <1>3, <1>4, <1>7, KeepsItems DEF Running
<1>9. AskedIsFailure'
    <2>1. ask'[Altitest] \in [row : Result, item : Result]
        BY <1>0, <1>2, <1>5 DEF RunType
    <2> QED  BY <1>2, <1>5, <2>1 DEF ViewInv, AskedIsFailure, Idle
<1>10. RunOwnsResults'
    BY <1>3 DEF ViewInv, RunOwnsResults
<1> QED  BY <1>6, <1>8, <1>9, <1>10 DEF ViewInv

\* A run that is killed takes its local variables with it.
LEMMA KillRunStep ==
    ASSUME BaseTypeOK, ViewInv, ViewTypeOK', KillRun
    PROVE  ViewInv'
<1>1. /\ run'.gen = run.gen /\ run'.results = {} /\ run'.todo = {}
      /\ run'.child = NoRow /\ run'.pc = "idle"
    BY DEF KillRun, NoRun
<1>2. UNCHANGED <<json, view, out>>
    BY DEF KillRun, Interrupt, baseVars
<1>3. /\ job'[Altitest] = NoJob
      /\ \A a \in Actors : a # Altitest => job'[a] = job[a] /\ ask'[a] = ask[a]
    <2>1. ask' = [ask EXCEPT ![Altitest] = NoRow]
        BY DEF KillRun, Forget
    <2>2. job' = [job EXCEPT ![Altitest] = NoJob] \/ (job' = job /\ job[Altitest] = NoJob)
        BY DEF KillRun, Interrupt, Leave, Idle, baseVars
    <2> QED  BY <2>1, <2>2, BrowsersAct DEF BaseTypeOK, ViewInv, ViewTypeOK
<1>4. OwnKnowsOne' /\ \A b \in Browsers : Known(b)' = Known(b)
    BY <1>1, <1>2, <1>3, BrowsersUnaware, ActorsAssumption
<1>5. Items' \subseteq Items
    <2>1. Asked(Altitest)' = {}
        BY <1>3 DEF Asked, Idle
    <2> QED  BY <1>1, <1>2, <1>4, <2>1, Belongs DEF ResultsIn, IsComplete
<1>6. IndexesTell' /\ PlansInOrder' /\ JudgedStays'
    BY <1>1, <1>2, <1>5, KeepsItems DEF Running
<1>7. AskedIsFailure' /\ RunOwnsResults'
    BY <1>1, <1>3 DEF ViewInv, AskedIsFailure, RunOwnsResults, Idle, Failures
<1> QED  BY <1>4, <1>6, <1>7 DEF ViewInv

\* Any step of the run.
LEMMA RunStep ==
    ASSUME BaseTypeOK, ViewInv, ViewTypeOK', Run \/ KillRun
    PROVE  ViewInv'
BY SaveStep, StartStep, ResultStep, OutStep, AcceptStep, KillRunStep DEF Run

(***************************************************************************)
(* The steps of a browser.                                                 *)
(***************************************************************************)
\* A browser that was closed knows nothing; one that is open learns what is in
\* the file it reads.
LEMMA BrowserQuiet ==
    ASSUME ViewInv, ViewTypeOK', NEW b \in Browsers, UNCHANGED <<run, json, out>>,
           \A a \in Actors \ {b} : job'[a] = job[a] /\ ask'[a] = ask[a],
           \A c \in Browsers \ {b} : view'[c] = view[c],
           \/ view'[b] = Closed /\ Idle(b)'
           \/ /\ view'[b].pc # "closed" /\ view'[b].file = view[b].file
              /\ b \in Own => view[b].pc # "closed"
              /\ Known(b)' \subseteq Known(b) \cup ResultsIn(Source(b)),
           ~Idle(b)' => /\ ask'[b] \in [row : Result, item : Result]
                        /\ ask'[b].item.case = job'[b].case
                        /\ ask'[b].item.index = ask'[b].row.index
                        /\ ask'[b].item.status = "FAIL"
    PROVE  ViewInv'
<1>1. \A c \in Browsers \ {b} : Known(c)' = Known(c) /\ (Idle(c)' <=> Idle(c))
    BY BrowsersAct DEF Known, Asked, Idle
<1>2. Asked(Altitest)' = Asked(Altitest)
    BY ActorsAssumption DEF Asked, Idle
<1>3. Known(b)' \subseteq Known(b) \cup ResultsIn(Source(b))
    <2>1. view'[b] = Closed /\ Idle(b)' => Known(b)' = {}
        BY DEF Known, Asked, Closed, NoResults
    <2> QED  BY <2>1
<1>4. b \in Own => Known(b)' \subseteq Known(b)
    BY <1>3 DEF Source, ResultsIn, Known
<1>5. b \notin Own => Known(b)' \subseteq Known(b) \cup ResultsIn(json)
    BY <1>3 DEF Source
<1>6. Items' \subseteq Items
    BY <1>1, <1>2, <1>4, <1>5, Belongs DEF ResultsIn, IsComplete
<1>7. IndexesTell' /\ PlansInOrder' /\ JudgedStays'
    <2>1. run.at \in Nat
        BY DEF ViewInv, ViewTypeOK, RunType
    <2> QED  BY <1>6, <2>1, KeepsItems DEF ViewInv, PlansInOrder, Running
<1>8. AskedIsFailure'
    BY DEF ViewInv, AskedIsFailure, Idle
<1>9. RunOwnsResults'
    BY DEF ViewInv, RunOwnsResults
<1>10. OwnKnowsOne'
    <2>1. Own \subseteq Browsers
        BY ActorsAssumption
    <2>2. \A c \in Browsers : view'[c].pc = "closed" => Idle(c)' /\ view'[c] = Closed
        BY <1>1 DEF ViewInv, OwnKnowsOne
    <2>3. view'[b] = Closed /\ Idle(b)' => Known(b)' = {} /\ view'[b].pc = "closed"
        BY DEF Known, Asked, Closed, NoResults
    <2>4. \A c \in Own : \A r \in Known(c)' : r.gen = view'[c].file.gen
        BY <1>1, <1>4, <2>1, <2>3 DEF ViewInv, OwnKnowsOne
    <2>5. \A c \in Own : c = run'.child /\ view'[c].pc # "closed" => view'[c].file.gen = run'.gen
        BY <2>1, <2>3 DEF ViewInv, OwnKnowsOne
    <2> QED  BY <2>2, <2>4, <2>5 DEF OwnKnowsOne
<1> QED  BY <1>7, <1>8, <1>9, <1>10 DEF ViewInv

\* A browser shows something else.
LEMMA ShowStep ==
    ASSUME ViewInv, ViewTypeOK', NEW b \in Browsers, UNCHANGED <<baseVars, run, json, ask>>,
           \A c \in Browsers \ {b} : view'[c] = view[c],
           view'[b].pc # "closed", view'[b].file = view[b].file,
           b \in Own => view[b].pc # "closed",
           view'[b].list.results \subseteq view[b].list.results \cup ResultsIn(Source(b)),
           view'[b].window \in {view[b].window} \cup view[b].list.results
    PROVE  ViewInv'
<1>1. UNCHANGED <<out, job>>
    BY DEF baseVars
<1>2. Known(b)' \subseteq Known(b) \cup ResultsIn(Source(b))
    BY <1>1 DEF Known, Asked, Idle
<1>3. ~Idle(b)' => /\ ask'[b] \in [row : Result, item : Result]
                   /\ ask'[b].item.case = job'[b].case
                   /\ ask'[b].item.index = ask'[b].row.index
                   /\ ask'[b].item.status = "FAIL"
    BY <1>1, BrowsersAct DEF ViewInv, AskedIsFailure, Idle
<1> QED  BY <1>1, <1>2, <1>3, BrowserQuiet

\* A browser asks for an acceptance.
LEMMA AskStep ==
    ASSUME BaseTypeOK, ViewInv, ViewTypeOK', NEW b \in Browsers, UNCHANGED <<run, json>>,
           \A c \in Browsers \ {b} : view'[c] = view[c],
           view[b].pc = "open", view'[b].pc # "closed", view'[b].file = view[b].file,
           view'[b].list = view[b].list, view'[b].window = view[b].window,
           NEW row \in Known(b), NEW item \in Known(b) \cup ResultsIn(Source(b)),
           row \in Result, item \in Result,
           item.index = row.index, item.status = "FAIL", Order(b, row, item)
    PROVE  ViewInv'
<1>1. /\ job'[b] = [step |-> "backup", case |-> item.case]
      /\ ask'[b] = [row |-> row, item |-> item]
      /\ \A a \in Actors \ {b} : job'[a] = job[a] /\ ask'[a] = ask[a]
      /\ out' = out
    BY BrowsersAct DEF Order, BeginAccept, BaseTypeOK, ViewInv, ViewTypeOK
<1>2. Known(b)' \subseteq Known(b) \cup ResultsIn(Source(b))
    <2>1. Asked(b)' \subseteq {row, item}
        BY <1>1 DEF Asked
    <2> QED  BY <2>1 DEF Known
<1> QED  BY <1>1, <1>2, BrowserQuiet

\* The steps of the command line interface.
LEMMA CliStep ==
    ASSUME BaseTypeOK, ViewInv, ViewTypeOK', NEW b \in Browsers, OpenCli(b) \/ AcceptCli(b)
    PROVE  ViewInv'
<1>0. view \in [Browsers -> ViewType]
    BY DEF ViewInv, ViewTypeOK
<1>1. CASE OpenCli(b)
    <2>1. /\ view'[b].pc = "open" /\ view'[b].file = view[b].file
          /\ view'[b].list = json /\ view'[b].window = view[b].window
          /\ \A c \in Browsers \ {b} : view'[c] = view[c]
        BY <1>0, <1>1 DEF OpenCli, Show, ViewType
    <2>2. b \notin Own /\ IsComplete(json)
        BY <1>1 DEF OpenCli, MayStart
    <2>3. json.results \subseteq ResultsIn(Source(b))
        BY <2>2 DEF Source, ResultsIn
    <2> QED  BY <1>1, <2>1, <2>2, <2>3, ShowStep DEF OpenCli
<1>2. CASE AcceptCli(b)
    <2>1. PICK row \in view[b].list.results : Acceptable(row) /\ Order(b, row, row)
        BY <1>2 DEF AcceptCli
    <2>2. row \in Known(b) /\ row \in Result
        BY <1>0 DEF Known, ViewType, Snapshot
    <2>3. view[b].pc = "open" /\ UNCHANGED <<run, json, view>>
        BY <1>2 DEF AcceptCli
    <2> QED  BY <2>1, <2>2, <2>3, AskStep DEF Acceptable
<1> QED  BY <1>1, <1>2

\* The steps of the window.
LEMMA UiStep ==
    ASSUME BaseTypeOK, ViewInv, ViewTypeOK', NEW b \in Browsers,
           OpenUi(b) \/ RefreshList(b) \/ ViewOut(b) \/ AcceptUi(b)
    PROVE  ViewInv'
<1>0. view \in [Browsers -> ViewType]
    BY DEF ViewInv, ViewTypeOK
<1>1. \A pc : view' = [view EXCEPT ![b].pc = pc] =>
        /\ view'[b].pc = pc /\ view'[b].file = view[b].file
        /\ view'[b].list = view[b].list /\ view'[b].window = view[b].window
        /\ \A c \in Browsers \ {b} : view'[c] = view[c]
    BY <1>0 DEF ViewType
<1>2. CASE OpenUi(b)
    <2>1. /\ view' = [view EXCEPT ![b].pc = "refresh"] /\ b \notin Own
          /\ UNCHANGED <<baseVars, run, json, ask>>
        BY <1>2 DEF OpenUi, MayStart
    <2>2. /\ view'[b].pc = "refresh" /\ view'[b].file = view[b].file
          /\ view'[b].list = view[b].list /\ view'[b].window = view[b].window
          /\ \A c \in Browsers \ {b} : view'[c] = view[c]
        BY <1>1, <2>1
    <2> QED  BY <2>1, <2>2, ShowStep
<1>3. CASE RefreshList(b)
    <2> DEFINE list == IF IsComplete(Source(b)) THEN [Source(b) EXCEPT !.results = Issues(@)]
                       ELSE NoResults
    <2>1. list.results \subseteq ResultsIn(Source(b))
        <3>1. IsComplete(Source(b)) =>
                [Source(b) EXCEPT !.results = Issues(@)].results = Issues(Source(b).results)
            BY SourceTypes DEF Snapshot, ViewInv
        <3> QED  BY <3>1 DEF ResultsIn, Issues, NoResults
    <2>2. /\ view'[b].pc = "open" /\ view'[b].file = view[b].file
          /\ view'[b].list = list /\ view'[b].window = view[b].window
          /\ \A c \in Browsers \ {b} : view'[c] = view[c]
        BY <1>0, <1>3 DEF RefreshList, Show, ViewType
    <2>3. view[b].pc # "closed" /\ UNCHANGED <<baseVars, run, json, ask>>
        BY <1>3 DEF RefreshList
    <2> HIDE DEF list
    <2> QED  BY <2>1, <2>2, <2>3, ShowStep
<1>4. CASE ViewOut(b)
    <2>1. PICK row \in view[b].list.results : view' = [view EXCEPT ![b].window = row]
        BY <1>4 DEF ViewOut, Failures
    <2>2. /\ view'[b].pc = view[b].pc /\ view'[b].file = view[b].file
          /\ view'[b].list = view[b].list /\ view'[b].window = row
          /\ \A c \in Browsers \ {b} : view'[c] = view[c]
        BY <1>0, <2>1 DEF ViewType
    <2> QED  BY <1>4, <2>2, ShowStep DEF ViewOut
<1>5. CASE AcceptUi(b)
    <2>1. PICK row \in Failures(view[b].list.results) \cup ({view[b].window} \ {NoRow}) :
            LET items == {item \in Found(b, row) : Acceptable(item)} IN
            \/ /\ \E item \in items : Order(b, row, item)
               /\ view' = [view EXCEPT ![b].pc = "busy"]
            \/ /\ view' = [view EXCEPT ![b].pc = "refresh"]
               /\ UNCHANGED <<baseVars, ask>>
        BY <1>5 DEF AcceptUi
    <2>2. row \in Known(b) /\ row \in Result
        BY <1>0 DEF Known, Failures, ViewType, Snapshot
    <2>3. view[b].pc = "open" /\ UNCHANGED <<run, json>>
        BY <1>5 DEF AcceptUi
    <2>4. ASSUME NEW item \in Found(b, row), Acceptable(item), Order(b, row, item),
                 view' = [view EXCEPT ![b].pc = "busy"]
          PROVE  ViewInv'
        <3>1. item \in ResultsIn(Source(b)) /\ item.index = row.index /\ item.status = "FAIL"
            BY <2>4 DEF Found, Acceptable
        <3>2. item \in Result
            BY SourceTypes DEF Found, ResultsIn, Snapshot, ViewInv
        <3> QED  BY <1>1, <2>2, <2>3, <2>4, <3>1, <3>2, AskStep
    <2>5. ASSUME view' = [view EXCEPT ![b].pc = "refresh"], UNCHANGED <<baseVars, ask>>
          PROVE  ViewInv'
        BY <1>1, <2>3, <2>5, ShowStep
    <2> QED  BY <2>1, <2>4, <2>5
<1> QED  BY <1>2, <1>3, <1>4, <1>5

\* The browser that a run opens knows the results of that run.
LEMMA OpenOwnStep ==
    ASSUME BaseTypeOK, ViewInv, ViewTypeOK', NEW b \in Own, OpenOwn(b)
    PROVE  ViewInv'
<1> DEFINE own == [gen |-> run.gen, results |-> run.results]
<1>0. b \in Browsers /\ view \in [Browsers -> ViewType]
    BY ActorsAssumption DEF ViewInv, ViewTypeOK
<1>1. /\ run'.gen = run.gen /\ run'.results = {} /\ run'.todo = {}
      /\ run'.child = b /\ run'.pc = "wait"
    BY DEF OpenOwn, NoRun
<1>2. UNCHANGED <<job, ask, out>> /\ json' = own
    BY DEF OpenOwn, baseVars
<1>3. view[b] = Closed /\ Idle(b)
    BY <1>0 DEF OpenOwn, MayOpen, ViewInv, OwnKnowsOne
<1>4. /\ \A c \in Browsers \ {b} : view'[c] = view[c]
      /\ view'[b].pc # "closed" /\ view'[b].file = own
      /\ view'[b].list = own \/ view'[b].list = NoResults
      /\ view'[b].window = NoRow
    BY <1>0, <1>3 DEF OpenOwn, ViewType, Closed
<1>5. \A c \in Browsers \ {b} : Known(c)' = Known(c) /\ (Idle(c)' <=> Idle(c))
    BY <1>2, <1>4 DEF Known, Asked, Idle
<1>6. Known(b)' \subseteq run.results
    BY <1>2, <1>3, <1>4 DEF Known, Asked, Idle, NoResults
<1>7. Items' \subseteq Items
    <2>1. ResultsIn(json)' \subseteq run.results
        BY <1>2 DEF ResultsIn
    <2>2. Asked(Altitest)' = Asked(Altitest)
        BY <1>2 DEF Asked, Idle
    <2> QED  BY <1>1, <1>5, <1>6, <2>1, <2>2, Belongs
<1>8. IndexesTell' /\ PlansInOrder' /\ JudgedStays'
    BY <1>1, <1>2, <1>7, KeepsItems DEF Running
<1>9. AskedIsFailure' /\ RunOwnsResults'
    BY <1>1, <1>2 DEF ViewInv, AskedIsFailure, RunOwnsResults, Idle, Failures
<1>10. OwnKnowsOne'
    <2>1. Own \subseteq Browsers
        BY ActorsAssumption
    <2>2. \A r \in Known(b)' : r.gen = view'[b].file.gen
        BY <1>4, <1>6 DEF ViewInv, RunOwnsResults
    <2> QED  BY <1>1, <1>4, <1>5, <2>1, <2>2 DEF ViewInv, OwnKnowsOne
<1> QED  BY <1>8, <1>9, <1>10 DEF ViewInv

(***************************************************************************)
(* The end of an acceptance or of a browser.                               *)
(***************************************************************************)
\* The steps of an acceptance before its last.
LEMMA CopyingStep ==
    ASSUME BaseTypeOK, ViewInv, ViewTypeOK', NEW a \in Actors, Copy(a)
    PROVE  ViewInv'
<1>1. /\ UNCHANGED <<run, json, view, ask, out>>
      /\ job[a].step \in {"backup", "open"}
      /\ \E step \in {"open", "copy"} : job' = [job EXCEPT ![a].step = step]
    BY DEF Copy, Backup, OpenLst, Goto, viewVars
<1>2. \A c \in Actors : job'[c].case = job[c].case /\ (Idle(c)' <=> Idle(c))
    BY <1>1, Typing DEF BaseTypeOK, Jobs, NoJob, Idle
<1>3. \A c \in Actors : Asked(c)' = Asked(c)
    BY <1>1, <1>2 DEF Asked
<1>4. \A b \in Browsers : Known(b)' = Known(b)
    BY <1>1, <1>3, BrowsersAct DEF Known
<1>5. Items' \subseteq Items
    BY <1>1, <1>3, <1>4, Belongs, BrowsersAct DEF ResultsIn, IsComplete
<1>6. IndexesTell' /\ PlansInOrder' /\ JudgedStays'
    <2>1. run.at \in Nat
        BY DEF ViewInv, ViewTypeOK, RunType
    <2> QED  BY <1>1, <1>5, <2>1, KeepsItems DEF ViewInv, PlansInOrder, Running
<1>7. AskedIsFailure' /\ RunOwnsResults'
    BY <1>1, <1>2 DEF ViewInv, AskedIsFailure, RunOwnsResults
<1>8. OwnKnowsOne'
    <2>1. Own \subseteq Browsers
        BY ActorsAssumption
    <2> QED  BY <1>1, <1>2, <1>4, <2>1, BrowsersAct DEF ViewInv, OwnKnowsOne
<1> QED  BY <1>6, <1>7, <1>8 DEF ViewInv

\* A browser leaves its acceptance, done or not, or is closed.
LEMMA LeaveStep ==
    ASSUME BaseTypeOK, ViewInv, ViewTypeOK', NEW b \in Browsers,
           UNCHANGED <<run, json, out>>, job' = [job EXCEPT ![b] = NoJob],
           \A a \in Actors \ {b} : ask'[a] = ask[a],
           \/ view' = view /\ view[b].pc # "closed"
           \/ view' = [view EXCEPT ![b].pc = "refresh"] /\ view[b].pc # "closed"
           \/ view' = [view EXCEPT ![b] = Closed]
    PROVE  ViewInv'
<1>0. view \in [Browsers -> ViewType]
    BY DEF ViewInv, ViewTypeOK
<1>1. Idle(b)' /\ \A a \in Actors \ {b} : job'[a] = job[a]
    BY BrowsersAct DEF Idle, BaseTypeOK
<1>2. \A c \in Browsers \ {b} : view'[c] = view[c]
    BY <1>0
<1>3. \/ view'[b] = Closed
      \/ /\ view'[b].pc # "closed" /\ view[b].pc # "closed"
         /\ view'[b].file = view[b].file /\ view'[b].list = view[b].list
         /\ view'[b].window = view[b].window
    BY <1>0 DEF ViewType
<1>4. view'[b] # Closed => Known(b)' \subseteq Known(b)
    BY <1>1, <1>3 DEF Known, Asked
<1> QED  BY <1>1, <1>2, <1>3, <1>4, BrowserQuiet

\* A browser is closed or killed.
LEMMA CloseStep ==
    ASSUME BaseTypeOK, ViewInv, ViewTypeOK', NEW b \in Browsers, Quit(b) \/ KillBrowser(b)
    PROVE  ViewInv'
<1>0. /\ view \in [Browsers -> ViewType] /\ ask \in [Actors -> AskType]
      /\ b \in Actors /\ job \in [Actors -> Jobs]
    BY BrowsersAct DEF ViewInv, ViewTypeOK, BaseTypeOK
<1>1. CASE Quit(b)
    <2>1. job = [job EXCEPT ![b] = NoJob]
        BY <1>0, <1>1 DEF Quit, Idle
    <2>2. UNCHANGED <<run, json, out, job, ask>> /\ view' = [view EXCEPT ![b] = Closed]
        BY <1>1 DEF Quit, baseVars
    <2> QED  BY <2>1, <2>2, LeaveStep
<1>2. CASE KillBrowser(b)
    <2>1. view[b].pc # "closed"
        BY <1>2 DEF KillBrowser, Interrupt, ViewInv, OwnKnowsOne
    <2>2. /\ UNCHANGED <<run, json, out>> /\ job' = [job EXCEPT ![b] = NoJob]
          /\ ask' = [ask EXCEPT ![b] = NoRow]
        BY <1>2 DEF KillBrowser, Interrupt, Leave, Forget
    <2>3. \/ view' = [view EXCEPT ![b].pc = "refresh"]
          \/ view' = [view EXCEPT ![b] = Closed]
        BY <1>2 DEF KillBrowser
    <2> QED  BY <1>0, <2>1, <2>2, <2>3, LeaveStep
<1> QED  BY <1>1, <1>2

\* The last step of an acceptance.
LEMMA FinishStep ==
    ASSUME BaseTypeOK, ViewInv, ViewTypeOK', NEW a \in Actors, FinishCopy(a)
    PROVE  ViewInv'
<1>0. ask \in [Actors -> AskType] /\ job \in [Actors -> Jobs]
    BY DEF ViewInv, ViewTypeOK, BaseTypeOK
<1>1. /\ UNCHANGED <<run, json, out>> /\ job' = [job EXCEPT ![a] = NoJob]
      /\ ask' = [ask EXCEPT ![a] = NoRow] /\ job[a].step = "copy"
    BY DEF FinishCopy, CopyOut, Leave, Forget
<1>2. CASE a \in Browsers
    <2>1. ~Idle(a) /\ view[a].pc # "closed"
        BY <1>1, <1>2 DEF Idle, NoJob, ViewInv, OwnKnowsOne
    <2>2. view' = view \/ view' = [view EXCEPT ![a].pc = "refresh"]
        BY DEF FinishCopy, AfterProcess
    <2> QED  BY <1>0, <1>1, <1>2, <2>1, <2>2, LeaveStep
<1>3. CASE a = Altitest
    <2>1. view' = view
        BY <1>3, ActorsAssumption DEF FinishCopy, AfterProcess, Browsers
    <2>2. /\ job'[Altitest] = NoJob
          /\ \A c \in Actors \ {Altitest} : job'[c] = job[c] /\ ask'[c] = ask[c]
        BY <1>0, <1>1, <1>3, BrowsersAct
    <2>3. OwnKnowsOne' /\ \A b \in Browsers : Known(b)' = Known(b)
        BY <1>1, <2>1, <2>2, BrowsersUnaware, ActorsAssumption
    <2>4. Items' \subseteq Items
        <3>1. Asked(Altitest)' = {}
            BY <2>2 DEF Asked, Idle
        <3> QED  BY <1>1, <2>3, <3>1, Belongs DEF ResultsIn, IsComplete
    <2>5. IndexesTell' /\ PlansInOrder' /\ JudgedStays'
        <3>1. run.at \in Nat
            BY DEF ViewInv, ViewTypeOK, RunType
        <3> QED  BY <1>1, <2>4, <3>1, KeepsItems DEF ViewInv, PlansInOrder, Running
    <2>6. AskedIsFailure' /\ RunOwnsResults'
        BY <1>1, <2>2 DEF ViewInv, AskedIsFailure, RunOwnsResults, Idle
    <2> QED  BY <2>3, <2>5, <2>6 DEF ViewInv
<1> QED  BY <1>2, <1>3, ActorsAssumption

(***************************************************************************)
(* The theorems.                                                           *)
(***************************************************************************)
\* A step that leaves alone what the invariant is about.
LEMMA StillStep ==
    ASSUME ViewInv, UNCHANGED <<viewVars, out, job>>
    PROVE  ViewInv'
<1>1. UNCHANGED <<run, json, view, ask, out, job>>
    BY DEF viewVars
<1>2. /\ Items' = Items /\ (Running' <=> Running)
      /\ \A a \in Actors : Idle(a)' <=> Idle(a)
      /\ \A b \in Browsers : Known(b)' = Known(b) /\ (Idle(b)' <=> Idle(b))
    BY <1>1 DEF Items, Running, Known, Asked, Idle, ResultsIn, IsComplete
<1>3. ViewTypeOK' /\ RunOwnsResults'
    BY <1>1 DEF ViewInv, ViewTypeOK, RunOwnsResults
<1>4. IndexesTell' /\ PlansInOrder' /\ JudgedStays'
    BY <1>1, <1>2 DEF ViewInv, IndexesTell, PlansInOrder, JudgedStays
<1>5. AskedIsFailure' /\ OwnKnowsOne'
    <2>1. Own \subseteq Browsers
        BY ActorsAssumption
    <2> QED  BY <1>1, <1>2, <2>1 DEF ViewInv, AskedIsFailure, OwnKnowsOne
<1> QED  BY <1>3, <1>4, <1>5 DEF ViewInv

\* The invariant is inductive.
LEMMA ViewStep == BaseTypeOK /\ ViewInv /\ [Next]_allVars => ViewInv'
<1> SUFFICES ASSUME BaseTypeOK, ViewInv, [Next]_allVars PROVE ViewInv'
    OBVIOUS
<1>1. ViewTypeOK'
    BY ViewTypes
<1>2. ASSUME UNCHANGED allVars \/ (Tick /\ UNCHANGED viewVars) PROVE ViewInv'
    BY <1>2, StillStep DEF allVars, baseVars, Tick
<1>3. Own \subseteq Browsers /\ Clis \subseteq Browsers /\ Uis \subseteq Browsers
    BY ActorsAssumption DEF Browsers
<1> QED  BY <1>1, <1>2, <1>3, RunStep, CliStep, UiStep, OpenOwnStep, CopyingStep, CloseStep,
            FinishStep DEF Next, Silent, Cli, Ui

\* Initially nothing is known.
LEMMA ViewStart == Init => ViewInv
<1> SUFFICES ASSUME Init PROVE ViewInv
    OBVIOUS
<1>0. /\ run = NoRun(0) /\ json = Missing /\ view = [b \in Browsers |-> Closed]
      /\ ask = [a \in Actors |-> NoRow] /\ job = [a \in Actors |-> NoJob]
    BY DEF Init, BaseInit
<1>1. ViewTypeOK
    <2>1. Closed \in ViewType
        BY DEF Closed, NoResults, ViewType, Snapshot
    <2>2. NoRun(0) \in RunType
        BY NoRunType
    <2> QED  BY <1>0, <2>1, <2>2 DEF ViewTypeOK, AskType
<1>2. \A a \in Actors : Idle(a) /\ Asked(a) = {}
    BY <1>0 DEF Idle, Asked
<1>3. \A b \in Browsers : Known(b) = {} /\ view[b] = Closed
    BY <1>0, <1>2, BrowsersAct DEF Known, Closed, NoResults
<1>4. Items = {}
    BY <1>0, <1>2, <1>3, Belongs, BrowsersAct DEF ResultsIn, IsComplete, NoRun
<1>5. IndexesTell /\ PlansInOrder /\ JudgedStays
    BY <1>0, <1>4 DEF IndexesTell, PlansInOrder, JudgedStays, NoRun
<1>6. AskedIsFailure /\ RunOwnsResults
    BY <1>0, <1>2 DEF AskedIsFailure, RunOwnsResults, NoRun
<1>7. OwnKnowsOne
    <2>1. Own \subseteq Browsers
        BY ActorsAssumption
    <2> QED  BY <1>2, <1>3, <2>1, BrowsersAct DEF OwnKnowsOne, Closed
<1> QED  BY <1>1, <1>5, <1>6, <1>7 DEF ViewInv

\* What the history of a step says of the acceptance it completes.
Accepted == AcceptedIsWhatWasJudged /\ OnlyARerunShiftsIndexes

\* The acceptance that is completed is of a known failure.
LEMMA AcceptedStep ==
    ASSUME BaseTypeOK, ViewInv, NEW a \in Actors, FinishCopy(a)
    PROVE  Accepted'
<1>1. /\ log'.by = a /\ log'.row = ask[a].row /\ log'.item = ask[a].item
      /\ log'.text = out[job[a].case] /\ log'.since = run.gen /\ run' = run
    BY DEF FinishCopy
<1>2. ~Idle(a)
    BY DEF FinishCopy, CopyOut, Idle, NoJob
<1>3. /\ ask[a].item.case = job[a].case /\ ask[a].item.index = ask[a].row.index
      /\ ask[a].item.status = "FAIL"
    BY <1>2 DEF ViewInv, AskedIsFailure
<1>4. ask[a].row \in Asked(a) /\ ask[a].item \in Asked(a)
    BY <1>2 DEF Asked
<1>5. \A b \in Browsers : Asked(b) \subseteq Known(b)
    BY DEF Known
<1>6. ask[a].row \in Items /\ ask[a].item \in Items
    BY <1>4, <1>5, Belongs, ActorsAssumption
<1>7. a \in Own => ask[a].row.gen = view[a].file.gen /\ ask[a].item.gen = view[a].file.gen
    BY <1>4, <1>5, ActorsAssumption DEF ViewInv, OwnKnowsOne
<1>8. a = run.child => ask[a].item.gen = run.gen
    <2>1. a = run.child => a \in Own
        BY ActorsAssumption DEF ViewInv, ViewTypeOK, RunType
    <2>2. a \in Own => view[a].pc # "closed"
        BY <1>2, ActorsAssumption DEF ViewInv, OwnKnowsOne
    <2> QED  BY <1>7, <2>1, <2>2, ActorsAssumption DEF ViewInv, OwnKnowsOne
<1>9. AcceptedIsWhatWasJudged'
    BY <1>1, <1>3, <1>6, <1>8 DEF AcceptedIsWhatWasJudged, ViewInv, JudgedStays
<1>10. OnlyARerunShiftsIndexes'
    BY <1>1, <1>3, <1>6, <1>7 DEF OnlyARerunShiftsIndexes, ViewInv, IndexesTell
<1> QED  BY <1>9, <1>10 DEF Accepted

\* Any step.
LEMMA AcceptedStays == BaseTypeOK /\ ViewInv /\ Accepted /\ [Next]_allVars => Accepted'
<1> SUFFICES ASSUME BaseTypeOK, ViewInv, Accepted, [Next]_allVars PROVE Accepted'
    OBVIOUS
<1>1. ASSUME log' = NoRow PROVE Accepted'
    BY <1>1 DEF Accepted, AcceptedIsWhatWasJudged, OnlyARerunShiftsIndexes
<1>2. CASE UNCHANGED allVars
    BY <1>2 DEF allVars, viewVars, Accepted, AcceptedIsWhatWasJudged, OnlyARerunShiftsIndexes
<1> QED  BY <1>1, <1>2, AcceptedStep DEF Next

\* The inductive invariant holds throughout.
THEOREM ViewInvariance == Spec => [](BaseTypeOK /\ ViewInv)
<1>1. Init => BaseTypeOK /\ ViewInv
    BY InitInv, ViewStart DEF Init, BaseInv
<1>2. BaseTypeOK /\ ViewInv /\ [Next]_allVars => (BaseTypeOK /\ ViewInv)'
    BY Refines, TypeStep, ViewStep
<1> QED  BY <1>1, <1>2, PTL DEF Spec

\* What the runs and the browsers do to the baselines is what Baseline allows.
THEOREM Implements == Spec => BaseSpec
<1>1. Init => BaseInit
    BY DEF Init
<1> QED  BY <1>1, Refines, ViewInvariance, PTL DEF Spec, BaseSpec

\* So the runs and the browsers lose a baseline only where two of them accept
\* one at a time (accept_out_to_lst, _accept_results).
THEOREM ViewLossless == Spec => []NoBaselineLost
BY Implements, Lossless, PTL

\* Both properties of what is accepted (accept_out_to_lst, _accept_results,
\* find_result_by_index).
THEOREM AcceptedHolds == Spec => []Accepted
<1>1. Init => Accepted
    BY DEF Init, Accepted, AcceptedIsWhatWasJudged, OnlyARerunShiftsIndexes
<1> QED  BY <1>1, AcceptedStays, ViewInvariance, PTL DEF Spec

\* As long as no other run has been started, and so for as long as the run
\* waits for the browser it has opened, what becomes the baseline is the output
\* that was judged FAIL (accept_out_to_lst, _accept_results,
\* _run_open_viewdiff).
THEOREM AcceptsWhatWasJudged == Spec => []AcceptedIsWhatWasJudged
<1>1. Accepted => AcceptedIsWhatWasJudged
    BY DEF Accepted
<1> QED  BY <1>1, AcceptedHolds, PTL

\* The case that is accepted is the one the user chose, unless the results were
\* replaced between the two (find_result_by_index).
THEOREM RerunShifts == Spec => []OnlyARerunShiftsIndexes
<1>1. Accepted => OnlyARerunShiftsIndexes
    BY DEF Accepted
<1> QED  BY <1>1, AcceptedHolds, PTL
=============================================================================
