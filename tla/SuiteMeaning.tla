---------------------------- MODULE SuiteMeaning ----------------------------
(***************************************************************************)
(* What a suite means, said without the walk that parse_suite makes: the   *)
(* text of the suite with every include replaced by the text of the        *)
(* included file, and the graph of the includes.                           *)
(***************************************************************************)
EXTENDS SuiteParser

\* A file tree is finite, and so is what it can say.
ASSUME FiniteAssumption == IsFiniteSet(TsFiles)

Parsed == tree.root \in TsFiles /\ Finished

(***************************************************************************)
(* The expanded suite.                                                     *)
(***************************************************************************)
IsReadable(ts) == ts \notin tree.missing \cup tree.outside \cup tree.unreadable

\* A line of the suite: its file and its number.
AllLines == UNION {{ts} \X DOMAIN Lines(ts) : ts \in TsFiles}
LineOf(e) == Lines(e[1])[e[2]]

\* The way to a mention of a case: a line of the suite, a line of the file that
\* it includes, and so on, down to the line of the case.  No file is expanded
\* where it is being expanded already.
IsMention(m) ==
    /\ m[1][1] = tree.root
    /\ \A i \in DOMAIN m : IsReadable(m[i][1]) /\ Problem(LineOf(m[i])) = "none"
    /\ \A i, j \in DOMAIN m : m[i][1] = m[j][1] => i = j
    /\ \A i \in 1..(Len(m) - 1) : LineOf(m[i]).target = m[i + 1][1]
    /\ LineOf(m[Len(m)]).target \in SqlFiles

Mentions ==
    {m \in UNION {[1..n -> AllLines] : n \in 1..Cardinality(TsFiles)} : IsMention(m)}

\* What the last line of the way says.
Said(m) == LineOf(m[Len(m)])

\* In the expanded suite, the one line is above the other.
Before(m, o) ==
    \E i \in DOMAIN m \cap DOMAIN o :
        m[i][2] < o[i][2] /\ \A j \in 1..(i - 1) : m[j] = o[j]

\* The one mention in the set that is above all others.
IsFirst(m, mentions) == m \in mentions /\ \A o \in mentions : o = m \/ Before(m, o)

(***************************************************************************)
(* The graph of the includes.                                              *)
(***************************************************************************)
IncludeEdges ==
    {e \in TsFiles \X TsFiles :
        /\ e[1] \in Range(trace) /\ IsReadable(e[1])
        /\ \E n \in DOMAIN Lines(e[1]) :
              Lines(e[1])[n].target = e[2] /\ Problem(Lines(e[1])[n]) = "none"}

\* The pairs of files of which the first includes the second at some depth: the
\* second is in every set that holds what the first and the set's own members
\* include.
Reaches ==
    {e \in TsFiles \X TsFiles :
        \A C \in SUBSET TsFiles :
            (\A d \in IncludeEdges : d[1] \in C \cup {e[1]} => d[2] \in C) => e[2] \in C}

\* A cycle is reported if and only if some file of the suite includes itself,
\* at whatever distance and wherever the walk enters the cycle.
CycleIssueIffCycle ==
    Parsed =>
        ((\E i \in DOMAIN issues : issues[i].reason = "cycle_include")
            <=> (\E f \in TsFiles : <<f, f>> \in Reaches))

(***************************************************************************)
(* The issues.                                                             *)
(***************************************************************************)
\* The file and those through which it was included first: what is in every
\* set that holds the file and the parents of its own members.
IncludedThrough(ts) ==
    {f \in TsFiles :
        \A C \in SUBSET TsFiles :
            /\ ts \in C
            /\ \A g \in C \cap DOMAIN parent : parent[g] \in C \cup {NoFile}
            => f \in C}

\* A line that adds neither a case nor a file to the suite, for another reason
\* than that it is there already.
IsWrongLine(ts, line) ==
    \/ Problem(line) # "none"
    \/ line.target \in tree.missing
    \/ line.target \in IncludedThrough(ts)
    \/ Conflict(line)

WrongLines(ts) == {n \in DOMAIN Lines(ts) : IsWrongLine(ts, Lines(ts)[n])}

Read == {f \in Range(trace) : IsReadable(f)}

\* Every wrong line of every file that was read is reported, and reported
\* once; so is a file that cannot be read, and a suite that is not there.
NothingDroppedSilently ==
    Parsed =>
        IF trace = <<>>
        THEN Len(issues) = 1
        ELSE Len(issues) = Cardinality(UNION {{f} \X WrongLines(f) : f \in Read})
                           + Cardinality(Range(trace) \ Read)

\* The walk comes to an end, whatever includes what.
WalkEnds == <>Finished
=============================================================================
