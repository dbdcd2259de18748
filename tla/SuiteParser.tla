---------------------------- MODULE SuiteParser ----------------------------
(***************************************************************************)
(* parse_suite: the depth-first walk over the .ts files that a suite       *)
(* includes.  It collects the .sql cases in the order of their first       *)
(* mention, and for each file the file that included it first.             *)
(*                                                                         *)
(* A path is a member of TsFiles or SqlFiles: the resolved, canonical path *)
(* of a file whose entry ends in .ts or .sql.  Blank lines and comments    *)
(* are left out of a file's lines.                                         *)
(***************************************************************************)
EXTENDS Integers, Sequences, FiniteSets, Functions

CONSTANTS
    TsFiles, SqlFiles,   \* canonical paths
    Malformed,           \* a line without a usable entry: empty, a bad
                         \* option, an absolute path, another extension
    NoFile,              \* the parent of the suite itself
    Trees                \* the file trees that may be parsed

LineType == [target : TsFiles \cup SqlFiles \cup {Malformed}, timeout : Nat]

\* A file tree: the lines of every .ts file, the suite or the one case that
\* altitest is given, and the files that are missing, outside the repository
\* root, or unreadable.
TreeType ==
    [root : TsFiles \cup SqlFiles, lines : [TsFiles -> Seq(LineType)],
     missing : SUBSET (TsFiles \cup SqlFiles),
     outside : SUBSET (TsFiles \cup SqlFiles),
     unreadable : SUBSET TsFiles]

ASSUME FilesAssumption ==
    /\ TsFiles \cap SqlFiles = {}
    /\ Malformed \notin TsFiles \cup SqlFiles
    /\ NoFile \notin TsFiles \cup SqlFiles

ASSUME TreesAssumption == Trees \subseteq TreeType

VARIABLES
    tree,       \* what is parsed, constant
    call,       \* the call of parse_ts that is to be made, or NoCall
    stack,      \* active_stack: each file with the number of its next line
    trace,      \* ts_trace, in which the files of seen_ts are
    parent,     \* ts_parent_map
    sqls,       \* sql_paths, in which the files of seen_sql are
    sources,    \* sql_sources
    timeouts,   \* sql_timeout_map
    issues

vars == <<tree, call, stack, trace, parent, sqls, sources, timeouts, issues>>

found == <<sqls, sources, timeouts>>
visited == <<trace, parent>>

NoCall == [ts |-> NoFile, parent |-> NoFile]

AddIssue(path, reason) == issues' = Append(issues, [path |-> path, reason |-> reason])

\* Mutant: only a file that includes itself is seen to be a cycle.
ActiveIsCaller == IF stack = <<>> THEN {} ELSE {stack[Len(stack)].ts}

Active == {stack[i].ts : i \in DOMAIN stack}

SeenTs == Range(trace)

(***************************************************************************)
(* parse_ts, up to its loop over the lines.                                *)
(***************************************************************************)
CycleInclude ==
    /\ call # NoCall
    /\ call.ts \in Active
    /\ AddIssue(call.ts, "cycle_include")
    /\ call' = NoCall
    /\ UNCHANGED <<tree, stack, visited, found>>

\* Mutant: the latest file that includes a file is recorded as its parent.
SeenBeforeReparents ==
    /\ call # NoCall
    /\ call.ts \in SeenTs \ Active
    /\ call' = NoCall
    /\ parent' = [parent EXCEPT ![call.ts] = call.parent]
    /\ UNCHANGED <<tree, stack, trace, found, issues>>

SeenBefore ==
    /\ call # NoCall
    /\ call.ts \in SeenTs \ Active
    /\ call' = NoCall
    /\ UNCHANGED <<tree, stack, visited, found, issues>>

IsNew == call # NoCall /\ call.ts \notin Active \cup SeenTs

\* Mutant: a missing file is remembered as seen.
NotFoundOnce ==
    /\ IsNew
    /\ call.ts \in tree.missing
    /\ AddIssue(call.ts, "parse_error")
    /\ call' = NoCall
    /\ trace' = Append(trace, call.ts)
    /\ parent' = [f \in DOMAIN parent \cup {call.ts} |->
                    IF f = call.ts THEN call.parent ELSE parent[f]]
    /\ UNCHANGED <<tree, stack, found>>

\* Mutant: a missing file is waited for.
NotFoundWaits ==
    /\ IsNew
    /\ call.ts \in tree.missing
    /\ UNCHANGED vars

\* A file that is not there is reported each time it is included.
NotFound ==
    /\ IsNew
    /\ call.ts \in tree.missing
    /\ AddIssue(call.ts, "parse_error")
    /\ call' = NoCall
    /\ UNCHANGED <<tree, stack, visited, found>>

OutsideRoot ==
    /\ IsNew
    /\ call.ts \in tree.outside \ tree.missing
    /\ AddIssue(call.ts, "path_outside_root")
    /\ call' = NoCall
    /\ UNCHANGED <<tree, stack, visited, found>>

Visit ==
    /\ IsNew
    /\ call.ts \notin tree.missing \cup tree.outside
    /\ trace' = Append(trace, call.ts)
    /\ parent' = [f \in DOMAIN parent \cup {call.ts} |->
                    IF f = call.ts THEN call.parent ELSE parent[f]]
    /\ call' = NoCall

Unreadable ==
    /\ Visit
    /\ call.ts \in tree.unreadable
    /\ AddIssue(call.ts, "parse_error")
    /\ UNCHANGED <<tree, stack, found>>

Open ==
    /\ Visit
    /\ call.ts \notin tree.unreadable
    /\ stack' = Append(stack, [ts |-> call.ts, at |-> 1])
    /\ UNCHANGED <<tree, found, issues>>

(***************************************************************************)
(* The loop over the lines.                                                *)
(***************************************************************************)
Top == stack[Len(stack)]
Lines(ts) == tree.lines[ts]
Line == Lines(Top.ts)[Top.at]

TakeLine ==
    /\ call = NoCall
    /\ stack # <<>> /\ Top.at <= Len(Lines(Top.ts))
    /\ stack' = [stack EXCEPT ![Len(stack)].at = @ + 1]
    /\ UNCHANGED <<tree, visited>>

\* What is wrong with a line, in the order in which it is looked for.
Problem(line) ==
    CASE line.target = Malformed -> "parse_error"
      [] line.target \in tree.outside -> "path_outside_root"
      [] line.target \in TsFiles /\ line.timeout # 0 -> "parse_error"
      [] line.target \in SqlFiles \cap tree.missing -> "parse_error"
      [] OTHER -> "none"

\* A case that was given another timeout before.
Conflict(line) ==
    /\ line.target \in DOMAIN timeouts
    /\ line.timeout \notin {0, timeouts[line.target]}

RejectLine ==
    /\ TakeLine
    /\ \/ Problem(Line) # "none" /\ AddIssue(Top.ts, Problem(Line))
       \/ Problem(Line) = "none" /\ Conflict(Line) /\ AddIssue(Top.ts, "parse_error")
    /\ UNCHANGED <<call, found>>

IncludeTs ==
    /\ TakeLine
    /\ Problem(Line) = "none"
    /\ Line.target \in TsFiles
    /\ call' = [ts |-> Line.target, parent |-> Top.ts]
    /\ UNCHANGED <<found, issues>>

SetTimeout ==
    timeouts' = IF Line.timeout = 0 THEN timeouts
                ELSE [s \in DOMAIN timeouts \cup {Line.target} |->
                        IF s = Line.target THEN Line.timeout ELSE timeouts[s]]

\* Mutant: a case moves to its last mention.
AppendSqlLast ==
    LET Others(seq) == [n \in 1..Cardinality({i \in DOMAIN sqls : sqls[i] # Line.target}) |->
                            seq[CHOOSE i \in DOMAIN sqls :
                                    /\ sqls[i] # Line.target
                                    /\ n = Cardinality({j \in 1..i : sqls[j] # Line.target})]]
    IN  /\ sqls' = Append(Others(sqls), Line.target)
        /\ sources' = Append(Others(sources), Top.ts)

AppendSql ==
    IF Line.target \in Range(sqls)
    THEN UNCHANGED <<sqls, sources>>
    ELSE /\ sqls' = Append(sqls, Line.target)
         /\ sources' = Append(sources, Top.ts)

AddSql ==
    /\ TakeLine
    /\ Problem(Line) = "none" /\ ~Conflict(Line)
    /\ Line.target \in SqlFiles
    /\ SetTimeout
    /\ AppendSql
    /\ UNCHANGED <<call, issues>>

Return ==
    /\ call = NoCall
    /\ stack # <<>> /\ Top.at > Len(Lines(Top.ts))
    /\ stack' = SubSeq(stack, 1, Len(stack) - 1)
    /\ UNCHANGED <<tree, call, visited, found, issues>>

(***************************************************************************)
(* The specification.                                                      *)
(***************************************************************************)
\* main calls parse_suite for a .ts file only.
Init ==
    /\ tree \in Trees
    /\ call = IF tree.root \in TsFiles THEN [ts |-> tree.root, parent |-> NoFile]
              ELSE NoCall
    /\ stack = <<>>
    /\ trace = <<>>
    /\ parent = [f \in {} |-> NoFile]
    /\ sqls = <<>>
    /\ sources = <<>>
    /\ timeouts = [s \in {} |-> 0]
    /\ issues = <<>>

EnterTs ==
    \/ CycleInclude \/ SeenBefore \/ NotFound \/ OutsideRoot
    \/ Unreadable \/ Open

ReadTs == RejectLine \/ IncludeTs \/ AddSql \/ Return

Next == EnterTs \/ ReadTs

Spec == Init /\ [][Next]_vars

\* A function call runs to its end.
FairSpec == Spec /\ WF_vars(Next)

Finished == call = NoCall /\ stack = <<>>

(***************************************************************************)
(* Properties.                                                             *)
(***************************************************************************)
\* The parent map is a forest that grows from the suite: every file is opened
\* once, and its parent before it, and the open files are each other's
\* parents, so that _build_ts_chain ends at the suite, for the owner of every
\* case.
ParentsComeFirst ==
    /\ \A i, j \in DOMAIN trace : trace[i] = trace[j] => i = j
    /\ \A i \in DOMAIN trace :
          IF i = 1 THEN parent[trace[i]] = NoFile
          ELSE \E j \in 1..(i - 1) : parent[trace[i]] = trace[j]
    /\ \A i \in DOMAIN stack :
          parent[stack[i].ts] = (IF i = 1 THEN NoFile ELSE stack[i - 1].ts)
    /\ \A i \in DOMAIN sources : sources[i] \in Range(trace)
=============================================================================
