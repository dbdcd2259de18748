------------------------------ MODULE Baseline ------------------------------
(***************************************************************************)
(* The acceptance of outputs as baselines, by any number of processes: the *)
(* copying of accept_out_to_lst (viewdiff) and of _accept_results          *)
(* (altitest), which is the same in both.                                  *)
(*                                                                         *)
(* Nothing keeps the processes apart.  Each saves the old baseline under a *)
(* name with a resolution of one second, then overwrites the baseline in   *)
(* place; each may be killed in between.                                   *)
(*                                                                         *)
(* A file is abstracted to its text: Missing if there is no file, Torn     *)
(* if it has been emptied and not completely written.                      *)
(***************************************************************************)
EXTENDS Integers

CONSTANTS
    Actors,     \* the processes that accept
    Cases,
    Texts,      \* the complete texts of an output or a baseline
    Missing,
    Torn,
    MaxTime     \* the last second of a behaviour

ASSUME FileAssumption == Missing \notin Texts /\ Torn \notin Texts /\ Missing # Torn

ASSUME TimeAssumption == MaxTime \in Nat

VARIABLES
    now,        \* the clock, in seconds
    lst,        \* the baseline of each case
    out,        \* the output of each case under out/actual
    baks,       \* the backups of each baseline, by their stamp
    job,        \* what each process is doing
    held,       \* history: the complete texts each baseline has had
    raced       \* history: the baselines that were accepted twice at a time

baseVars == <<now, lst, out, baks, job, held, raced>>

File == Texts \cup {Missing, Torn}

Seconds == 0..MaxTime

NoJob == [step |-> "idle", case |-> Missing]

Jobs == {NoJob} \cup [step : {"backup", "open", "copy"}, case : Cases]

Goto(a, step) == job' = [job EXCEPT ![a].step = step]

Idle(a) == job[a] = NoJob

Leave(a) == job' = [job EXCEPT ![a] = NoJob]

\* Between saving the old baseline and having written the new one.
Replacing(a, c) == job[a].case = c /\ job[a].step \in {"open", "copy"}

\* The checks of the handlers have been passed; the output exists.
BeginAccept(a, c) ==
    /\ Idle(a)
    /\ out[c] # Missing
    /\ job' = [job EXCEPT ![a] = [step |-> "backup", case |-> c]]
    /\ UNCHANGED <<now, lst, out, baks, held, raced>>

\* Two acceptances meet if another one is replacing the baseline, or if this
\* one's backup takes the place of another's.
Meets(a, c) ==
    \/ \E b \in Actors \ {a} : Replacing(b, c)
    \/ lst[c] # Missing /\ baks[c][now] # Missing

\* Mutant: the baseline is overwritten without a copy of it.
BackupSkipped(a) ==
    /\ job[a].step = "backup"
    /\ Goto(a, "open")
    /\ raced' = IF Meets(a, job[a].case) THEN raced \cup {job[a].case} ELSE raced
    /\ UNCHANGED <<now, lst, out, baks, held>>

Backup(a) ==
    LET c == job[a].case IN
    /\ job[a].step = "backup"
    /\ Goto(a, "open")
    /\ baks' = IF lst[c] = Missing THEN baks
               ELSE [baks EXCEPT ![c][now] = lst[c]]
    /\ raced' = IF Meets(a, c) THEN raced \cup {c} ELSE raced
    /\ UNCHANGED <<now, lst, out, held>>

\* copy2 opens the baseline for writing, which empties it.
OpenLst(a) ==
    /\ job[a].step = "open"
    /\ Goto(a, "copy")
    /\ lst' = [lst EXCEPT ![job[a].case] = Torn]
    /\ UNCHANGED <<now, out, baks, held, raced>>

\* It copies the output as it then is.
CopyOut(a) ==
    LET c == job[a].case IN
    /\ job[a].step = "copy"
    /\ Leave(a)
    /\ lst' = [lst EXCEPT ![c] = out[c]]
    /\ held' = [held EXCEPT ![c] = @ \cup ({out[c]} \cap Texts)]
    /\ UNCHANGED <<now, out, baks, raced>>

\* The process is killed, or a copy fails and the exception ends it.
Interrupt(a) ==
    /\ ~Idle(a)
    /\ Leave(a)
    /\ UNCHANGED <<now, lst, out, baks, held, raced>>

(***************************************************************************)
(* The surroundings: a run writes outputs, time passes.                    *)
(***************************************************************************)
WriteText(c, text) ==
    /\ out' = [out EXCEPT ![c] = text]
    /\ UNCHANGED <<now, lst, baks, job, held, raced>>

Tick ==
    /\ now < MaxTime
    /\ now' = now + 1
    /\ UNCHANGED <<lst, out, baks, job, held, raced>>

BaseInit ==
    /\ now = 0
    /\ lst \in [Cases -> Texts \cup {Missing}]
    /\ out = [c \in Cases |-> Missing]
    /\ baks = [c \in Cases |-> [t \in Seconds |-> Missing]]
    /\ job = [a \in Actors |-> NoJob]
    /\ held = [c \in Cases |-> {lst[c]} \cap Texts]
    /\ raced = {}

Accept(a) ==
    \/ \E c \in Cases : BeginAccept(a, c)
    \/ Backup(a) \/ OpenLst(a) \/ CopyOut(a) \/ Interrupt(a)

BaseNext ==
    \/ \E a \in Actors : Accept(a)
    \/ \E c \in Cases, text \in Texts \cup {Torn} : WriteText(c, text)
    \/ Tick

BaseSpec == BaseInit /\ [][BaseNext]_baseVars

(***************************************************************************)
(* Properties.                                                             *)
(***************************************************************************)
\* Type invariant.
BaseTypeOK ==
    /\ now \in Seconds
    /\ lst \in [Cases -> File]
    /\ out \in [Cases -> File]
    /\ baks \in [Cases -> [Seconds -> File]]
    /\ job \in [Actors -> Jobs]
    /\ held \in [Cases -> SUBSET Texts]
    /\ raced \in SUBSET Cases

Saved(c) == {baks[c][t] : t \in Seconds}

\* Whatever is accepted, and whoever is killed at it, each text a baseline
\* has had is still there or in a backup, unless two acceptances of that
\* baseline met (accept_out_to_lst, _accept_results).
NoBaselineLost == \A c \in Cases \ raced : held[c] \subseteq {lst[c]} \cup Saved(c)

(***************************************************************************)
(* The inductive invariant: a baseline that was never accepted twice at a  *)
(* time is being replaced by one process at most, and that one has saved   *)
(* every text it has had.                                                  *)
(***************************************************************************)
OneReplaces ==
    \A c \in Cases \ raced : \A a, b \in Actors :
        Replacing(a, c) /\ Replacing(b, c) => a = b

SavedFirst ==
    \A c \in Cases \ raced : \A a \in Actors :
        Replacing(a, c) => held[c] \subseteq Saved(c)

BaseInv == BaseTypeOK /\ OneReplaces /\ SavedFirst /\ NoBaselineLost
=============================================================================
