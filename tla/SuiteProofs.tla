----------------------------- MODULE SuiteProofs -----------------------------
(***************************************************************************)
(* Proofs about SuiteParser, SuiteMeaning and CasePlans: for any tree of   *)
(* files, however they include each other.                                 *)
(***************************************************************************)
EXTENDS CasePlans, SelectionProofs, FiniteSetTheorems

(***************************************************************************)
(* The invariant of the walk.                                              *)
(***************************************************************************)
Frames == [ts : TsFiles, at : Nat \ {0}]

Reasons == {"cycle_include", "parse_error", "path_outside_root"}

WalkTypes ==
    /\ tree \in Trees
    /\ call = NoCall \/ call \in [ts : TsFiles, parent : TsFiles \cup {NoFile}]
    /\ stack \in Seq(Frames)
    /\ trace \in Seq(TsFiles)
    /\ parent \in [Range(trace) -> TsFiles \cup {NoFile}]
    /\ sqls \in Seq(SqlFiles)
    /\ sources \in Seq(TsFiles) /\ Len(sources) = Len(sqls)
    /\ DOMAIN timeouts \in SUBSET SqlFiles
    /\ timeouts \in [DOMAIN timeouts -> Nat]
    /\ issues \in Seq([path : TsFiles, reason : Reasons])

\* The open files are those of the trace, each once and from the suite on, and
\* the file that is to be opened is included by the innermost of them.
OpenFiles ==
    /\ \A i \in DOMAIN stack : stack[i].ts \in Range(trace)
    /\ \A i, j \in DOMAIN stack : stack[i].ts = stack[j].ts => i = j
    /\ call # NoCall =>
          call.parent = IF stack = <<>> THEN NoFile ELSE stack[Len(stack)].ts
    /\ call # NoCall /\ stack = <<>> => trace = <<>>

WalkInv == WalkTypes /\ OpenFiles /\ ParentsComeFirst

(***************************************************************************)
(* Sequences.                                                              *)
(***************************************************************************)
LEMMA Appended ==
  ASSUME NEW T, NEW s \in Seq(T), NEW e \in T
  PROVE  /\ Append(s, e) \in Seq(T) /\ Len(Append(s, e)) = Len(s) + 1
         /\ DOMAIN Append(s, e) = DOMAIN s \cup {Len(s) + 1}
         /\ DOMAIN s = 1..Len(s) /\ Len(s) \in Nat /\ Len(s) + 1 \notin DOMAIN s
         /\ \A i \in DOMAIN s : Append(s, e)[i] = s[i]
         /\ Append(s, e)[Len(s) + 1] = e
OBVIOUS

LEMMA RangeGrows ==
  ASSUME NEW T, NEW s \in Seq(T), NEW e \in T
  PROVE  Range(Append(s, e)) = Range(s) \cup {e}
<1> DEFINE t == Append(s, e)
<1>1. /\ DOMAIN t = DOMAIN s \cup {Len(s) + 1}
      /\ \A i \in DOMAIN s : t[i] = s[i]
      /\ t[Len(s) + 1] = e
      BY Appended
<1> HIDE DEF t
<1>2. Range(t) = Range(s) \cup {e}
      BY <1>1 DEF Range
<1>3. QED
      BY <1>2 DEF t

LEMMA Popped ==
  ASSUME NEW T, NEW s \in Seq(T), s # <<>>
  PROVE  LET t == SubSeq(s, 1, Len(s) - 1) IN
         /\ t \in Seq(T) /\ Len(t) = Len(s) - 1 /\ Len(s) \in Nat \ {0}
         /\ DOMAIN t = 1..(Len(s) - 1) /\ DOMAIN s = 1..Len(s)
         /\ \A i \in DOMAIN t : t[i] = s[i]
<1>1. Len(s) \in Nat \ {0} /\ DOMAIN s = 1..Len(s)
      BY EmptySeq
<1> DEFINE n == Len(s) - 1
           t == SubSeq(s, 1, n)
<1>2. n \in Nat /\ n <= Len(s)
      BY <1>1
<1> HIDE DEF n
<1>3. t \in Seq(T) /\ Len(t) = n /\ \A i \in 1..n : t[i] = s[i]
      BY <1>1, <1>2
<1>4. DOMAIN t = 1..n
      BY <1>3
<1> HIDE DEF t
<1>5. QED
      BY <1>1, <1>3, <1>4 DEF t, n

\* The innermost open file, its lines and the next of them.
LEMMA TopFacts ==
  ASSUME WalkTypes, stack # <<>>
  PROVE  /\ Len(stack) \in Nat \ {0} /\ Len(stack) \in DOMAIN stack
         /\ DOMAIN stack = 1..Len(stack)
         /\ Top = stack[Len(stack)] /\ Top \in Frames /\ Top.ts \in TsFiles
         /\ Top.at \in Nat \ {0}
         /\ Lines(Top.ts) \in Seq(LineType)
<1>1. /\ Len(stack) \in Nat \ {0} /\ Len(stack) \in DOMAIN stack
      /\ DOMAIN stack = 1..Len(stack) /\ stack[Len(stack)] \in Frames
      BY DEF WalkTypes
<1>2. tree \in TreeType
      BY TreesAssumption DEF WalkTypes
<1>3. Top.ts \in TsFiles /\ Top.at \in Nat \ {0}
      BY <1>1 DEF Top, Frames
<1>4. Lines(Top.ts) \in Seq(LineType)
      BY <1>2, <1>3 DEF Lines, TreeType
<1>5. QED
      BY <1>1, <1>3, <1>4 DEF Top

LEMMA LineFacts ==
  ASSUME WalkTypes, TakeLine
  PROVE  /\ Line \in LineType /\ stack # <<>>
         /\ stack' = [stack EXCEPT ![Len(stack)].at = @ + 1]
         /\ stack' \in Seq(Frames) /\ Len(stack') = Len(stack)
         /\ DOMAIN stack' = DOMAIN stack /\ stack' # <<>>
         /\ \A i \in DOMAIN stack : stack'[i].ts = stack[i].ts
<1>1. /\ Len(stack) \in DOMAIN stack /\ DOMAIN stack = 1..Len(stack) /\ Len(stack) \in Nat \ {0}
      /\ Top = stack[Len(stack)] /\ Top \in Frames /\ Top.at \in Nat \ {0}
      /\ Lines(Top.ts) \in Seq(LineType)
      BY TopFacts DEF TakeLine
<1>2. Line \in LineType
      BY <1>1 DEF Line, TakeLine
<1> DEFINE n == Len(stack)
<1>3. stack' = [stack EXCEPT ![n] = [stack[n] EXCEPT !.at = stack[n].at + 1]]
      BY DEF TakeLine
<1>4. [stack[n] EXCEPT !.at = stack[n].at + 1] \in Frames
      BY <1>1 DEF Frames
<1>5. \A i \in DOMAIN stack : stack[i] \in Frames
      BY DEF WalkTypes
<1>6. stack' \in [1..n -> Frames]
      BY <1>1, <1>3, <1>4, <1>5
<1>7. stack' \in Seq(Frames) /\ Len(stack') = n /\ DOMAIN stack' = 1..n
      BY <1>1, <1>6, SeqDef, LenProperties
<1>8. \A i \in DOMAIN stack : stack'[i].ts = stack[i].ts
      BY <1>1, <1>3, <1>5 DEF Frames
<1>9. QED
      BY <1>1, <1>2, <1>7, <1>8 DEF TakeLine

(***************************************************************************)
(* Types.                                                                  *)
(***************************************************************************)
LEMMA IssueAdded ==
  ASSUME WalkTypes, NEW path \in TsFiles, NEW reason \in Reasons, AddIssue(path, reason)
  PROVE  issues' \in Seq([path : TsFiles, reason : Reasons])
<1>1. [path |-> path, reason |-> reason] \in [path : TsFiles, reason : Reasons]
      OBVIOUS
<1>2. QED
      BY <1>1, Appended DEF AddIssue, WalkTypes

LEMMA CallFacts ==
  ASSUME WalkTypes, call # NoCall
  PROVE  call.ts \in TsFiles /\ call.parent \in TsFiles \cup {NoFile}
BY DEF WalkTypes

\* A file that is visited is the last of the trace.
LEMMA VisitFacts ==
  ASSUME WalkTypes, Visit
  PROVE  /\ call.ts \in TsFiles /\ call.parent \in TsFiles \cup {NoFile}
         /\ call.ts \notin Active /\ call.ts \notin Range(trace) /\ call # NoCall
         /\ call' = NoCall
         /\ trace' = Append(trace, call.ts) /\ trace' \in Seq(TsFiles)
         /\ Range(trace') = Range(trace) \cup {call.ts}
         /\ parent' \in [Range(trace') -> TsFiles \cup {NoFile}]
         /\ parent'[call.ts] = call.parent
         /\ \A f \in Range(trace) : parent'[f] = parent[f]
<1>1. /\ call.ts \in TsFiles /\ call.parent \in TsFiles \cup {NoFile}
      /\ call.ts \notin Active /\ call.ts \notin Range(trace) /\ call # NoCall
      BY CallFacts DEF Visit, IsNew, SeenTs
<1>2. trace' = Append(trace, call.ts) /\ trace' \in Seq(TsFiles)
      BY <1>1, Appended DEF Visit, WalkTypes
<1>3. Range(trace') = Range(trace) \cup {call.ts}
      BY <1>1, <1>2, RangeGrows DEF WalkTypes
<1>4. parent' = [f \in Range(trace') |-> IF f = call.ts THEN call.parent ELSE parent[f]]
      BY <1>3 DEF Visit, WalkTypes
<1>5. QED
      BY <1>1, <1>2, <1>3, <1>4 DEF WalkTypes, Visit

LEMMA ProblemTypes ==
  ASSUME NEW line \in LineType
  PROVE  /\ Problem(line) \in Reasons \cup {"none"}
         /\ Problem(line) = "none" => line.target \in TsFiles \cup SqlFiles
BY DEF Problem, Reasons, LineType

LEMMA WalkTypesStep ==
  ASSUME WalkTypes, [Next]_vars
  PROVE  WalkTypes'
<1>1. CASE CycleInclude
      BY <1>1, CallFacts, IssueAdded DEF CycleInclude, visited, found, WalkTypes, Reasons
<1>2. CASE SeenBefore
      BY <1>2 DEF SeenBefore, visited, found, WalkTypes
<1>3. CASE NotFound
      BY <1>3, CallFacts, IssueAdded DEF NotFound, visited, found, WalkTypes, Reasons, IsNew
<1>4. CASE OutsideRoot
      BY <1>4, CallFacts, IssueAdded DEF OutsideRoot, visited, found, WalkTypes, Reasons, IsNew
<1>5. CASE Unreadable
  <2>1. Visit /\ UNCHANGED <<tree, stack, found>>
        BY <1>5 DEF Unreadable
  <2>2. issues' \in Seq([path : TsFiles, reason : Reasons])
        BY <1>5, <2>1, VisitFacts, IssueAdded DEF Unreadable, Reasons
  <2>3. QED
        BY <2>1, <2>2, VisitFacts DEF found, WalkTypes
<1>6. CASE Open
  <2>1. Visit /\ UNCHANGED <<tree, found, issues>>
        BY <1>6 DEF Open
  <2>2. stack' \in Seq(Frames)
    <3>1. [ts |-> call.ts, at |-> 1] \in Frames
          BY <2>1, VisitFacts DEF Frames
    <3>2. QED
          BY <1>6, <3>1, Appended DEF Open, WalkTypes
  <2>3. QED
        BY <2>1, <2>2, VisitFacts DEF found, WalkTypes
<1>7. CASE RejectLine
  <2>1. /\ TakeLine /\ UNCHANGED <<call, found, tree, visited>>
        /\ \E reason \in Reasons : AddIssue(Top.ts, reason)
        BY <1>7, LineFacts, ProblemTypes DEF RejectLine, TakeLine, Reasons
  <2>2. issues' \in Seq([path : TsFiles, reason : Reasons])
        BY <2>1, TopFacts, LineFacts, IssueAdded
  <2>3. QED
        BY <2>1, <2>2, LineFacts DEF found, visited, WalkTypes
<1>8. CASE IncludeTs
  <2>1. /\ TakeLine /\ UNCHANGED <<found, tree, visited, issues>>
        /\ Line.target \in TsFiles
        /\ call' = [ts |-> Line.target, parent |-> Top.ts]
        BY <1>8 DEF IncludeTs, TakeLine
  <2>2. call' \in [ts : TsFiles, parent : TsFiles \cup {NoFile}]
        BY <2>1, TopFacts, LineFacts
  <2>3. QED
        BY <2>1, <2>2, LineFacts DEF found, visited, WalkTypes
<1>9. CASE AddSql
  <2>1. /\ TakeLine /\ UNCHANGED <<call, tree, visited, issues>>
        /\ Line.target \in SqlFiles /\ Line \in LineType /\ Top.ts \in TsFiles
        BY <1>9, LineFacts, TopFacts DEF AddSql, TakeLine
  <2>2. /\ sqls' \in Seq(SqlFiles) /\ sources' \in Seq(TsFiles)
        /\ Len(sources') = Len(sqls')
    <3>1. sqls \in Seq(SqlFiles) /\ sources \in Seq(TsFiles) /\ Len(sources) = Len(sqls)
          BY DEF WalkTypes
    <3>2. /\ Append(sqls, Line.target) \in Seq(SqlFiles)
          /\ Append(sources, Top.ts) \in Seq(TsFiles)
          /\ Len(Append(sqls, Line.target)) = Len(Append(sources, Top.ts))
          BY <2>1, <3>1, Appended
    <3>3. \/ UNCHANGED <<sqls, sources>>
          \/ sqls' = Append(sqls, Line.target) /\ sources' = Append(sources, Top.ts)
          BY <1>9 DEF AddSql, AppendSql
    <3>4. QED
          BY <3>1, <3>2, <3>3
  <2>3. DOMAIN timeouts' \in SUBSET SqlFiles /\ timeouts' \in [DOMAIN timeouts' -> Nat]
    <3>1. Line.timeout \in Nat
          BY <2>1 DEF LineType
    <3>2. CASE Line.timeout = 0
          BY <1>9, <3>2 DEF AddSql, SetTimeout, WalkTypes
    <3>3. CASE Line.timeout # 0
      <4> DEFINE D == DOMAIN timeouts \cup {Line.target}
      <4>1. timeouts' = [s \in D |-> IF s = Line.target THEN Line.timeout ELSE timeouts[s]]
            BY <1>9, <3>3 DEF AddSql, SetTimeout
      <4>2. \A s \in DOMAIN timeouts : timeouts[s] \in Nat
            BY DEF WalkTypes
      <4>3. D \in SUBSET SqlFiles
            BY <2>1 DEF WalkTypes
      <4>4. DOMAIN timeouts' = D
            BY <4>1
      <4>5. timeouts' \in [D -> Nat]
            BY <3>1, <4>1, <4>2
      <4>6. QED
            BY <4>3, <4>4, <4>5
    <3>4. QED
          BY <3>2, <3>3
  <2>4. QED
        BY <2>1, <2>2, <2>3, LineFacts DEF visited, WalkTypes
<1>10. CASE Return
  <2>1. stack' \in Seq(Frames)
        BY <1>10, Popped DEF Return, WalkTypes
  <2>2. QED
        BY <1>10, <2>1 DEF Return, visited, found, WalkTypes
<1>11. CASE UNCHANGED vars
       BY <1>11 DEF vars, WalkTypes
<1>12. QED
       BY <1>1, <1>2, <1>3, <1>4, <1>5, <1>6, <1>7, <1>8, <1>9, <1>10, <1>11
          DEF Next, EnterTs, ReadTs

(***************************************************************************)
(* The open files and the parents.                                         *)
(***************************************************************************)
LEMMA WalkInit ==
  ASSUME Init
  PROVE  WalkInv
<1>1. WalkTypes
  <2>1. \A T : <<>> \in Seq(T)
        OBVIOUS
  <2>2. Range(<<>>) = {} /\ Len(<<>>) = 0
        BY DEF Range
  <2>3. call = NoCall \/ call \in [ts : TsFiles, parent : TsFiles \cup {NoFile}]
        BY DEF Init
  <2>4. /\ sqls = <<>> /\ sources = <<>> /\ trace = <<>> /\ stack = <<>> /\ issues = <<>>
        /\ tree \in Trees
        BY DEF Init
  <2>5. parent \in [Range(<<>>) -> TsFiles \cup {NoFile}]
        BY <2>2 DEF Init
  <2>6. DOMAIN timeouts \in SUBSET SqlFiles /\ timeouts \in [DOMAIN timeouts -> Nat]
        BY DEF Init
  <2>7. QED
        BY <2>1, <2>3, <2>4, <2>5, <2>6, Zenon DEF WalkTypes
<1>2. OpenFiles
      BY FilesAssumption DEF OpenFiles, Init, NoCall
<1>3. ParentsComeFirst
      BY DEF ParentsComeFirst, Init
<1>4. QED
      BY <1>1, <1>2, <1>3 DEF WalkInv

\* The parents are as they were in every step that visits no file.
LEMMA ParentsStay ==
  ASSUME ParentsComeFirst, UNCHANGED visited,
         \A i \in DOMAIN stack' : i \in DOMAIN stack /\ stack'[i].ts = stack[i].ts,
         \A i \in DOMAIN stack' : i # 1 => stack'[i - 1].ts = stack[i - 1].ts,
         \A i \in DOMAIN sources' : sources'[i] \in Range(trace)
  PROVE  ParentsComeFirst'
BY DEF ParentsComeFirst, visited

LEMMA OpenStay ==
  ASSUME OpenFiles, UNCHANGED visited, call' = NoCall,
         \A i \in DOMAIN stack' : i \in DOMAIN stack /\ stack'[i].ts = stack[i].ts
  PROVE  OpenFiles'
BY DEF OpenFiles, visited

\* A visited file is the first of the trace, or has a parent there.
LEMMA VisitParents ==
  ASSUME WalkInv, Visit
  PROVE  /\ \A i, j \in DOMAIN trace' : trace'[i] = trace'[j] => i = j
         /\ \A i \in DOMAIN trace' :
               IF i = 1 THEN parent'[trace'[i]] = NoFile
               ELSE \E j \in 1..(i - 1) : parent'[trace'[i]] = trace'[j]
<1>1. /\ DOMAIN trace' = DOMAIN trace \cup {Len(trace) + 1}
      /\ DOMAIN trace = 1..Len(trace) /\ Len(trace) \in Nat
      /\ \A i \in DOMAIN trace : trace'[i] = trace[i]
      /\ trace'[Len(trace) + 1] = call.ts
  <2>1. trace \in Seq(TsFiles) /\ call.ts \in TsFiles /\ trace' = Append(trace, call.ts)
        BY VisitFacts DEF WalkInv, WalkTypes
  <2>2. QED
        BY <2>1, Appended
<1>2. /\ call.ts \notin Range(trace) /\ parent'[call.ts] = call.parent /\ call # NoCall
      /\ \A f \in Range(trace) : parent'[f] = parent[f]
      BY VisitFacts DEF WalkInv
<1>3. \A i \in DOMAIN trace : trace[i] \in Range(trace)
      BY DEF Range
<1>4. \A i, j \in DOMAIN trace' : trace'[i] = trace'[j] => i = j
      BY <1>1, <1>2, <1>3 DEF WalkInv, ParentsComeFirst
<1>5. ASSUME NEW i \in DOMAIN trace
      PROVE  IF i = 1 THEN parent'[trace'[i]] = NoFile
             ELSE \E j \in 1..(i - 1) : parent'[trace'[i]] = trace'[j]
  <2>1. IF i = 1 THEN parent[trace[i]] = NoFile
        ELSE \E j \in 1..(i - 1) : parent[trace[i]] = trace[j]
        BY <1>5 DEF WalkInv, ParentsComeFirst
  <2>2. parent'[trace'[i]] = parent[trace[i]]
        BY <1>1, <1>2, <1>3, <1>5
  <2>3. \A j \in 1..(i - 1) : trace'[j] = trace[j]
        BY <1>1, <1>5
  <2>4. QED
        BY <2>1, <2>2, <2>3
<1>6. CASE stack = <<>>
  <2>1. trace = <<>> /\ call.parent = NoFile
        BY <1>2, <1>6 DEF WalkInv, OpenFiles
  <2>2. Len(trace) + 1 = 1
        BY <2>1
  <2>3. QED
        BY <1>1, <1>2, <1>4, <1>5, <2>1, <2>2
<1>7. CASE stack # <<>>
  <2>1. call.parent = stack[Len(stack)].ts /\ Len(stack) \in DOMAIN stack
        BY <1>2, <1>7, TopFacts DEF WalkInv, OpenFiles
  <2>2. call.parent \in Range(trace)
        BY <2>1 DEF WalkInv, OpenFiles
  <2>3. PICK j \in DOMAIN trace : call.parent = trace[j]
        BY <2>2 DEF Range
  <2>4. Len(trace) + 1 # 1 /\ j \in 1..(Len(trace) + 1 - 1)
        BY <1>1, <2>3
  <2>5. parent'[trace'[Len(trace) + 1]] = trace'[j]
        BY <1>1, <1>2, <2>3
  <2>6. QED
        BY <1>1, <1>4, <1>5, <2>4, <2>5
<1>8. QED
      BY <1>6, <1>7

LEMMA UnreadableWalk ==
  ASSUME WalkInv, Unreadable
  PROVE  OpenFiles' /\ ParentsComeFirst'
<1>1. Visit /\ stack' = stack /\ sources' = sources /\ call' = NoCall
      BY VisitFacts DEF Unreadable, found, WalkInv
<1>2. /\ Range(trace') = Range(trace) \cup {call.ts}
      /\ \A f \in Range(trace) : parent'[f] = parent[f]
      BY <1>1, VisitFacts DEF WalkInv
<1>3. \A i \in DOMAIN stack : stack[i].ts \in Range(trace)
      BY DEF WalkInv, OpenFiles
<1>4. (\A i \in DOMAIN stack : stack[i].ts \in Range(trace))'
      BY <1>1, <1>2, <1>3
<1>5. OpenFiles'
      BY <1>1, <1>4 DEF WalkInv, OpenFiles
<1>6. (\A i \in DOMAIN stack :
          parent[stack[i].ts] = (IF i = 1 THEN NoFile ELSE stack[i - 1].ts))'
      BY <1>1, <1>2, <1>3 DEF WalkInv, ParentsComeFirst
<1>7. (\A i \in DOMAIN sources : sources[i] \in Range(trace))'
      BY <1>1, <1>2 DEF WalkInv, ParentsComeFirst
<1>8. QED
      BY <1>1, <1>5, <1>6, <1>7, VisitParents DEF ParentsComeFirst

LEMMA OpenWalk ==
  ASSUME WalkInv, Open
  PROVE  OpenFiles' /\ ParentsComeFirst'
<1>1. Visit /\ sources' = sources /\ call' = NoCall /\ call # NoCall
      BY VisitFacts DEF Open, found, WalkInv
<1>2. /\ Range(trace') = Range(trace) \cup {call.ts} /\ call.ts \notin Active
      /\ call.ts \in TsFiles
      /\ \A f \in Range(trace) : parent'[f] = parent[f]
      /\ parent'[call.ts] = call.parent
      BY <1>1, VisitFacts DEF WalkInv
<1> DEFINE new == [ts |-> call.ts, at |-> 1]
           n == Len(stack)
<1>3. new \in Frames /\ new.ts = call.ts /\ stack \in Seq(Frames)
      BY <1>2 DEF Frames, WalkInv, WalkTypes
<1>4. stack' = Append(stack, new)
      BY DEF Open
<1> HIDE DEF new
<1>5. /\ DOMAIN stack' = DOMAIN stack \cup {n + 1} /\ n \in Nat
      /\ DOMAIN stack = 1..n /\ n + 1 \notin DOMAIN stack
      /\ \A i \in DOMAIN stack : stack'[i] = stack[i]
      /\ stack'[n + 1].ts = call.ts
      BY <1>3, <1>4, Appended
<1>6. \A i \in DOMAIN stack : stack[i].ts \in Range(trace) /\ stack[i].ts # call.ts
      BY <1>2 DEF WalkInv, OpenFiles, Active
<1>7. \A i \in DOMAIN stack' : stack'[i].ts \in Range(trace')
      BY <1>2, <1>5, <1>6
<1>8. \A i, j \in DOMAIN stack' : stack'[i].ts = stack'[j].ts => i = j
      BY <1>5, <1>6 DEF WalkInv, OpenFiles
<1>9. OpenFiles'
      BY <1>1, <1>7, <1>8 DEF OpenFiles
<1>10. ASSUME NEW i \in DOMAIN stack'
       PROVE  parent'[stack'[i].ts] = (IF i = 1 THEN NoFile ELSE stack'[i - 1].ts)
  <2>1. CASE i \in DOMAIN stack
    <3>1. parent[stack[i].ts] = (IF i = 1 THEN NoFile ELSE stack[i - 1].ts)
          BY <2>1 DEF WalkInv, ParentsComeFirst
    <3>2. i # 1 => i - 1 \in DOMAIN stack
          BY <1>5, <2>1
    <3>3. QED
          BY <1>2, <1>5, <1>6, <2>1, <3>1, <3>2
  <2>2. CASE i = n + 1
    <3>1. call.parent = IF stack = <<>> THEN NoFile ELSE stack[n].ts
          BY <1>1 DEF WalkInv, OpenFiles
    <3>2. stack = <<>> <=> n = 0
          BY <1>3, EmptySeq
    <3>3. stack'[i].ts = call.ts
          BY <1>5, <2>2
    <3>4. CASE n = 0
          BY <1>2, <2>2, <3>1, <3>2, <3>3, <3>4
    <3>5. CASE n # 0
      <4>1. n \in DOMAIN stack /\ i # 1 /\ i - 1 = n
            BY <1>5, <2>2, <3>5
      <4>2. stack'[i - 1] = stack[n]
            BY <1>5, <4>1
      <4>3. QED
            BY <1>2, <3>1, <3>2, <3>3, <3>5, <4>1, <4>2
    <3>6. QED
          BY <3>4, <3>5
  <2>3. QED
        BY <1>5, <2>1, <2>2
<1>11. (\A i \in DOMAIN sources : sources[i] \in Range(trace))'
       BY <1>1, <1>2 DEF WalkInv, ParentsComeFirst
<1>12. QED
       BY <1>1, <1>9, <1>10, <1>11, VisitParents DEF ParentsComeFirst

\* A line is read: the files stay, and the sources are open files.
LEMMA LineWalk ==
  ASSUME WalkInv, TakeLine,
         \/ sources' = sources
         \/ sources' = Append(sources, Top.ts)
  PROVE  /\ ParentsComeFirst'
         /\ \A i \in DOMAIN stack' : i \in DOMAIN stack /\ stack'[i].ts = stack[i].ts
<1>1. /\ DOMAIN stack' = DOMAIN stack /\ UNCHANGED visited
      /\ \A i \in DOMAIN stack : stack'[i].ts = stack[i].ts
      BY LineFacts DEF WalkInv, TakeLine
<1>2. Top.ts \in Range(trace) /\ DOMAIN stack = 1..Len(stack) /\ Top.ts \in TsFiles
  <2>1. /\ Top = stack[Len(stack)] /\ Len(stack) \in DOMAIN stack
        /\ DOMAIN stack = 1..Len(stack) /\ Top.ts \in TsFiles
        BY TopFacts DEF WalkInv, TakeLine
  <2>2. QED
        BY <2>1 DEF WalkInv, OpenFiles
<1>3. \A i \in DOMAIN sources' : sources'[i] \in Range(trace)
  <2>1. \A i \in DOMAIN sources : sources[i] \in Range(trace)
        BY DEF WalkInv, ParentsComeFirst
  <2>2. CASE sources' = Append(sources, Top.ts)
    <3>1. sources \in Seq(TsFiles)
          BY DEF WalkInv, WalkTypes
    <3>2. QED
          BY <1>2, <2>1, <2>2, <3>1, Appended
  <2>3. QED
        BY <2>1, <2>2
<1>4. \A i \in DOMAIN stack' : i # 1 => stack'[i - 1].ts = stack[i - 1].ts
      BY <1>1, <1>2
<1>5. QED
      BY <1>1, <1>3, <1>4, ParentsStay DEF WalkInv

LEMMA IncludeWalk ==
  ASSUME WalkInv, IncludeTs
  PROVE  OpenFiles' /\ ParentsComeFirst'
<1>1. /\ TakeLine /\ sources' = sources /\ UNCHANGED visited
      /\ call' = [ts |-> Line.target, parent |-> Top.ts]
      BY DEF IncludeTs, found, TakeLine
<1>2. ParentsComeFirst'
      BY <1>1, LineWalk
<1>3. /\ stack' # <<>> /\ Len(stack') = Len(stack) /\ DOMAIN stack' = DOMAIN stack
      /\ \A i \in DOMAIN stack : stack'[i].ts = stack[i].ts
      BY <1>1, LineFacts DEF WalkInv
<1>4. Top = stack[Len(stack)] /\ Len(stack) \in DOMAIN stack
      BY <1>1, TopFacts DEF WalkInv, TakeLine
<1>5. OpenFiles'
      BY <1>1, <1>3, <1>4 DEF WalkInv, OpenFiles, visited
<1>6. QED
      BY <1>2, <1>5

LEMMA ReturnWalk ==
  ASSUME WalkInv, Return
  PROVE  OpenFiles' /\ ParentsComeFirst'
<1>1. /\ stack' = SubSeq(stack, 1, Len(stack) - 1) /\ stack # <<>> /\ stack \in Seq(Frames)
      /\ call' = NoCall /\ UNCHANGED visited /\ sources' = sources /\ trace' = trace
      BY DEF Return, WalkInv, WalkTypes, visited, found
<1>2. /\ DOMAIN stack' = 1..(Len(stack) - 1) /\ DOMAIN stack = 1..Len(stack)
      /\ Len(stack) \in Nat \ {0}
      /\ \A i \in DOMAIN stack' : stack'[i] = stack[i]
      BY <1>1, Popped
<1>3. \A i \in DOMAIN stack' : /\ i \in DOMAIN stack /\ stack'[i].ts = stack[i].ts
                               /\ i # 1 => stack'[i - 1].ts = stack[i - 1].ts
      BY <1>2
<1>4. OpenFiles'
      BY <1>1, <1>3, OpenStay DEF WalkInv
<1>5. QED
      BY <1>1, <1>3, <1>4, ParentsStay DEF WalkInv, ParentsComeFirst

LEMMA WalkStep ==
  ASSUME WalkInv, [Next]_vars
  PROVE  WalkInv'
<1>1. WalkTypes'
      BY WalkTypesStep DEF WalkInv
<1>2. CASE CycleInclude \/ SeenBefore \/ NotFound \/ OutsideRoot
  <2>1. call' = NoCall /\ stack' = stack /\ UNCHANGED visited /\ UNCHANGED found
        BY <1>2 DEF CycleInclude, SeenBefore, NotFound, OutsideRoot
  <2>2. OpenFiles'
        BY <2>1, OpenStay DEF WalkInv
  <2>3. ParentsComeFirst'
        BY <2>1, ParentsStay DEF WalkInv, found, visited, ParentsComeFirst
  <2>4. QED
        BY <1>1, <2>2, <2>3 DEF WalkInv
<1>3. CASE Unreadable
      BY <1>1, <1>3, UnreadableWalk DEF WalkInv
<1>4. CASE Open
      BY <1>1, <1>4, OpenWalk DEF WalkInv
<1>5. CASE RejectLine \/ AddSql
  <2>1. /\ TakeLine /\ call' = NoCall /\ UNCHANGED visited
        /\ sources' = sources \/ sources' = Append(sources, Top.ts)
        BY <1>5 DEF RejectLine, AddSql, AppendSql, TakeLine, found
  <2>2. /\ ParentsComeFirst'
        /\ \A i \in DOMAIN stack' : i \in DOMAIN stack /\ stack'[i].ts = stack[i].ts
        BY <2>1, LineWalk
  <2>3. OpenFiles'
        BY <2>1, <2>2, OpenStay DEF WalkInv
  <2>4. QED
        BY <1>1, <2>2, <2>3 DEF WalkInv
<1>6. CASE IncludeTs
      BY <1>1, <1>6, IncludeWalk DEF WalkInv
<1>7. CASE Return
      BY <1>1, <1>7, ReturnWalk DEF WalkInv
<1>8. CASE UNCHANGED vars
  <2>1. UNCHANGED <<call, stack, visited, sources>>
        BY <1>8 DEF vars, visited
  <2>2. OpenFiles'
        BY <2>1 DEF visited, WalkInv, OpenFiles
  <2>3. ParentsComeFirst'
        BY <2>1, ParentsStay DEF WalkInv, ParentsComeFirst, visited
  <2>4. QED
        BY <1>1, <2>2, <2>3 DEF WalkInv
<1>9. QED
  <2>1. \/ CycleInclude \/ SeenBefore \/ NotFound \/ OutsideRoot \/ Unreadable
        \/ Open \/ RejectLine \/ IncludeTs \/ AddSql \/ Return \/ UNCHANGED vars
        BY DEF Next, EnterTs, ReadTs
  <2>2. QED
        BY <1>2, <1>3, <1>4, <1>5, <1>6, <1>7, <1>8, <2>1, Zenon

\* Every reachable state of the walk satisfies the invariant.
THEOREM WalkInvariance ==
  Spec => []WalkInv
<1>1. Init => WalkInv
      BY WalkInit
<1>2. WalkInv /\ [Next]_vars => WalkInv'
      BY WalkStep
<1>3. QED
      BY <1>1, <1>2, PTL DEF Spec

\* While main makes plans and runs the cases, the walk stands still.
LEMMA WalkUnderPlans ==
  PlansSpec => Spec
<1>1. PlansInit => Init
      BY DEF PlansInit
<1>2. [PlansNext]_allVars => [Next]_vars
  <2>1. CASE Parse
        BY <2>1 DEF Parse
  <2>2. CASE MakePlans \/ ReportCase
        BY <2>2 DEF MakePlans, ReportCase
  <2>3. CASE UNCHANGED allVars
        BY <2>3 DEF allVars
  <2>4. QED
        BY <2>1, <2>2, <2>3 DEF PlansNext
<1>3. QED
      BY <1>1, <1>2, PTL DEF PlansSpec, Spec

\* The parents recorded by parse_suite form a forest that grows from the
\* suite, in the walk and in what main makes of it.
THEOREM ParentsGrowFromTheSuite ==
  PlansSpec => []ParentsComeFirst
<1>1. WalkInv => ParentsComeFirst
      BY DEF WalkInv
<1>2. QED
      BY <1>1, WalkUnderPlans, WalkInvariance, PTL

(***************************************************************************)
(* The plans.                                                              *)
(***************************************************************************)
\* The plans are made of the finished walk, by one filter.
PlansFollow ==
    plans # <<>> => Finished /\ \E filter \in Filters : plans = Filtered(filter)

LEMMA PlansStep ==
  ASSUME PlansFollow, [PlansNext]_allVars
  PROVE  PlansFollow'
<1>1. CASE plans' = plans /\ UNCHANGED vars
  <2>1. UNCHANGED <<tree, call, stack, trace, parent, sqls, sources, timeouts, issues, plans>>
        BY <1>1 DEF vars
  <2>2. \A filter : Filtered(filter)' = Filtered(filter)
        BY <2>1 DEF Filtered, AllPlans, PlanOf, SqlPaths, IsSingle, IfExists
  <2>3. Finished => Finished'
        BY <2>1 DEF Finished
  <2>4. QED
        BY <2>1, <2>2, <2>3 DEF PlansFollow
<1>2. CASE Parse
  <2>1. ~Finished
        BY <1>2 DEF Parse, Next, EnterTs, ReadTs, Finished, CycleInclude, SeenBefore,
           NotFound, OutsideRoot, Unreadable, Open, Visit, IsNew, RejectLine, IncludeTs,
           AddSql, TakeLine, Return
  <2>2. plans = <<>> /\ plans' = plans
        BY <1>2, <2>1 DEF PlansFollow, Parse, planVars
  <2>3. QED
        BY <2>2 DEF PlansFollow
<1>3. CASE MakePlans
  <2>1. UNCHANGED <<tree, call, stack, trace, parent, sqls, sources, timeouts, issues>>
        BY <1>3 DEF MakePlans, vars
  <2>2. Finished /\ \E filter \in Filters : plans' = Filtered(filter)
        BY <1>3 DEF MakePlans
  <2>3. \A filter : Filtered(filter)' = Filtered(filter)
        BY <2>1 DEF Filtered, AllPlans, PlanOf, SqlPaths, IsSingle, IfExists
  <2>4. Finished'
        BY <2>1, <2>2 DEF Finished
  <2>5. QED
        BY <2>2, <2>3, <2>4 DEF PlansFollow
<1>4. CASE ReportCase
      BY <1>1, <1>4 DEF ReportCase
<1>5. CASE UNCHANGED allVars
      BY <1>1, <1>5 DEF allVars, planVars
<1>6. QED
      BY <1>2, <1>3, <1>4, <1>5 DEF PlansNext

Plans == {PlanOf(i) : i \in DOMAIN SqlPaths}

LEMMA AllPlansFacts ==
  ASSUME WalkTypes
  PROVE  /\ AllPlans \in Seq(Plans)
         /\ \A i \in DOMAIN AllPlans : AllPlans[i].index = i
<1>1. \E n \in Nat : DOMAIN SqlPaths = 1..n
  <2>1. CASE IsSingle
    <3>1. SqlPaths = <<tree.root>>
          BY <2>1 DEF SqlPaths
    <3>2. DOMAIN SqlPaths = 1..1
          BY <3>1
    <3>3. QED
          BY <3>2
  <2>2. CASE ~IsSingle
    <3>1. SqlPaths = sqls /\ sqls \in Seq(SqlFiles)
          BY <2>2 DEF SqlPaths, WalkTypes
    <3>2. QED
          BY <3>1
  <2>3. QED
        BY <2>1, <2>2
<1>2. PICK n \in Nat : DOMAIN SqlPaths = 1..n
      BY <1>1
<1>3. AllPlans \in [1..n -> Plans]
      BY <1>2 DEF AllPlans, Plans
<1>4. AllPlans \in Seq(Plans)
      BY <1>2, <1>3, SeqDef
<1>5. \A i : PlanOf(i).index = i
      BY DEF PlanOf
<1>6. \A i \in DOMAIN AllPlans : AllPlans[i].index = i
      BY <1>5 DEF AllPlans
<1>7. QED
      BY <1>4, <1>6

\* The plans that a filter keeps have the indexes that they had among all.
LEMMA KeptIndexes ==
  ASSUME WalkTypes, NEW filter, NEW i \in DOMAIN Filtered(filter)
  PROVE  /\ Filtered(filter)[i].index \in DOMAIN AllPlans
         /\ Filtered(filter)[i] = AllPlans[Filtered(filter)[i].index]
         /\ \A j \in 1..(i - 1) : Filtered(filter)[j].index < Filtered(filter)[i].index
<1> DEFINE I == {p \in DOMAIN AllPlans : Selects(filter, AllPlans[p])}
           k == Kept(AllPlans, I)
<1>1. Filtered(filter) = k
      BY DEF Filtered
<1>2. AllPlans \in Seq(Plans) /\ \A p \in DOMAIN AllPlans : AllPlans[p].index = p
      BY AllPlansFacts
<1> HIDE DEF I
<1>3. k \in Seq(Plans)
      BY <1>2, KeptPlaces
<1>4. PICK place : Places(k, AllPlans, I, Len(AllPlans), place)
      BY <1>2, KeptPlaces
<1> HIDE DEF k
<1>5. /\ DOMAIN k = 1..Len(k) /\ Len(k) \in Nat
      /\ DOMAIN AllPlans = 1..Len(AllPlans) /\ Len(AllPlans) \in Nat
      BY <1>2, <1>3
<1>6. \A j \in DOMAIN k : /\ place[j] \in DOMAIN AllPlans /\ k[j] = AllPlans[place[j]]
                          /\ k[j].index = place[j]
      BY <1>2, <1>4, <1>5 DEF Places
<1>7. i \in DOMAIN k /\ i \in 1..Len(k)
      BY <1>1, <1>5
<1>8. \A j \in 1..(i - 1) : j \in DOMAIN k /\ place[j] < place[i]
      BY <1>4, <1>5, <1>7 DEF Places
<1>9. QED
      BY <1>1, <1>6, <1>7, <1>8

LEMMA PlansAreRerun ==
  ASSUME WalkTypes, PlansFollow
  PROVE  RerunSelectsIt
<1>1. SUFFICES ASSUME NEW i \in DOMAIN plans
               PROVE  /\ Filtered([by |-> "index", index |-> plans[i].index]) = <<plans[i]>>
                      /\ \A j \in 1..(i - 1) : plans[j].index < plans[i].index
      BY DEF RerunSelectsIt
<1>2. PICK filter \in Filters : plans = Filtered(filter)
      BY <1>1 DEF PlansFollow
<1> DEFINE x == plans[i].index
           one == [by |-> "index", index |-> x]
           I == {p \in DOMAIN AllPlans : Selects(one, AllPlans[p])}
<1>3. /\ x \in DOMAIN AllPlans /\ plans[i] = AllPlans[x]
      /\ \A j \in 1..(i - 1) : plans[j].index < x
  <2>1. i \in DOMAIN Filtered(filter)
        BY <1>1, <1>2
  <2>2. QED
        BY <1>2, <2>1, KeptIndexes
<1>4. AllPlans \in Seq(Plans) /\ \A p \in DOMAIN AllPlans : AllPlans[p].index = p
      BY AllPlansFacts
<1> HIDE DEF x
<1>5. \A plan : Selects(one, plan) <=> plan.index = x
      BY DEF Selects
<1>6. I = {x}
      BY <1>3, <1>4, <1>5
<1>7. Filtered(one) = Kept(AllPlans, I)
      BY DEF Filtered
<1> HIDE DEF I, one
<1>8. Kept(AllPlans, I) = <<AllPlans[x]>>
  <2>1. I \cap DOMAIN AllPlans = {x}
        BY <1>3, <1>6
  <2>2. QED
        BY <1>3, <1>4, <2>1, KeptOne
<1>9. QED
      BY <1>3, <1>7, <1>8 DEF one, x

\* The command that reports how to run a case again selects that case, with
\* its phases and its timeout, and no other, whatever the run was told to
\* select (rerun_cmd, _filter_case_plans).
THEOREM RerunsSelectTheirCase ==
  PlansSpec => []RerunSelectsIt
<1>1. PlansInit => PlansFollow
      BY DEF PlansInit, PlansFollow
<1>2. PlansFollow /\ [PlansNext]_allVars => PlansFollow'
      BY PlansStep
<1>3. PlansSpec => []PlansFollow
      BY <1>1, <1>2, PTL DEF PlansSpec
<1>4. WalkInv /\ PlansFollow => RerunSelectsIt
      BY PlansAreRerun DEF WalkInv
<1>5. QED
      BY <1>3, <1>4, WalkUnderPlans, WalkInvariance, PTL

(***************************************************************************)
(* Cycles.  A file is done when the walk has left it; it is dead when it   *)
(* cannot be read.  Until a cycle is reported, everything that a file      *)
(* includes is done or dead before the file is done, so that no file comes *)
(* to include itself; and a cycle is reported where the open files lead    *)
(* from a file to itself.                                                  *)
(***************************************************************************)
Done == Range(trace) \ Active
Dead == {f \in TsFiles : ~IsReadable(f)}

Reported == \E i \in DOMAIN issues : issues[i].reason = "cycle_include"

\* What the i-th open file includes in a line that has been read.
Included(i) ==
    {f \in TsFiles : \E n \in DOMAIN Lines(stack[i].ts) :
        /\ n < stack[i].at
        /\ Lines(stack[i].ts)[n].target = f
        /\ Problem(Lines(stack[i].ts)[n]) = "none"}

\* What the i-th open file includes in the line that is being worked on.
InWork(i) ==
    IF i < Len(stack) THEN {stack[i + 1].ts}
    ELSE IF call # NoCall THEN {call.ts} ELSE {}

Closed(C, f) == \A d \in IncludeEdges : d[1] \in C \cup {f} => d[2] \in C

OpenFilesLead ==
    /\ \A i \in DOMAIN stack : IsReadable(stack[i].ts)
    /\ \A i \in DOMAIN stack :
          i + 1 \in DOMAIN stack => <<stack[i].ts, stack[i + 1].ts>> \in IncludeEdges
    /\ call # NoCall /\ stack # <<>> => <<stack[Len(stack)].ts, call.ts>> \in IncludeEdges
    /\ Reported => \E f \in TsFiles : <<f, f>> \in Reaches

DoneIsSettled ==
    ~Reported =>
        /\ \A d \in IncludeEdges : d[1] \in Done => d[2] \in Done \cup Dead
        /\ \A f \in Done : \E C \in SUBSET (Done \cup Dead) : f \notin C /\ Closed(C, f)
        /\ \A i \in DOMAIN stack : Included(i) \subseteq Done \cup Dead \cup InWork(i)

LEMMA EdgesOf ==
  ASSUME WalkTypes, NEW f \in Range(trace), IsReadable(f),
         NEW n \in DOMAIN Lines(f), Lines(f)[n].target \in TsFiles,
         Problem(Lines(f)[n]) = "none"
  PROVE  <<f, Lines(f)[n].target>> \in IncludeEdges
<1>1. f \in TsFiles
      BY DEF WalkTypes, Range
<1>2. QED
      BY <1>1 DEF IncludeEdges

LEMMA EdgesStay ==
  ASSUME UNCHANGED <<tree, trace>>
  PROVE  /\ IncludeEdges' = IncludeEdges /\ Dead' = Dead
         /\ \A f : IsReadable(f)' <=> IsReadable(f)
         /\ \A C, f : Closed(C, f)' <=> Closed(C, f)
         /\ \A f : <<f, f>> \in Reaches => (<<f, f>> \in Reaches)'
<1>1. IncludeEdges' = IncludeEdges
      BY DEF IncludeEdges, IsReadable, Lines, Problem
<1>2. QED
      BY <1>1 DEF Dead, IsReadable, Closed, Reaches

\* A visited file adds what it includes.
LEMMA EdgesGrow ==
  ASSUME WalkTypes, Visit, tree' = tree
  PROVE  /\ \A d \in IncludeEdges : d \in IncludeEdges'
         /\ \A d \in IncludeEdges' : d \in IncludeEdges \/ d[1] = call.ts
         /\ \A d \in IncludeEdges' : IsReadable(d[1])
         /\ Dead' = Dead /\ \A f : IsReadable(f)' <=> IsReadable(f)
         /\ \A f : <<f, f>> \in Reaches => (<<f, f>> \in Reaches)'
<1>1. Range(trace') = Range(trace) \cup {call.ts}
      BY VisitFacts
<1>2. \A f : IsReadable(f)' <=> IsReadable(f)
      BY DEF IsReadable
<1>3. \A d \in IncludeEdges : d \in IncludeEdges'
      BY <1>1, <1>2 DEF IncludeEdges, Lines, Problem
<1>4. /\ \A d \in IncludeEdges' : d \in IncludeEdges \/ d[1] = call.ts
      /\ \A d \in IncludeEdges' : IsReadable(d[1])
      BY <1>1, <1>2 DEF IncludeEdges, Lines, Problem
<1>5. \A f : <<f, f>> \in Reaches => (<<f, f>> \in Reaches)'
      BY <1>3 DEF Reaches
<1>6. QED
      BY <1>2, <1>3, <1>4, <1>5 DEF Dead

\* The files that are open from j on are each included by the one before, so
\* that the last of them is j's or one that j's leads to.
LEMMA OpenFilesReach ==
  ASSUME WalkTypes, NEW j \in DOMAIN stack, NEW C,
         \A i \in DOMAIN stack :
            i + 1 \in DOMAIN stack => <<stack[i].ts, stack[i + 1].ts>> \in IncludeEdges,
         Closed(C, stack[j].ts)
  PROVE  \A i \in DOMAIN stack : j < i => stack[i].ts \in C
<1> DEFINE T == {i \in DOMAIN stack : j < i /\ stack[i].ts \notin C}
<1>1. DOMAIN stack = 1..Len(stack) /\ Len(stack) \in Nat
      BY DEF WalkTypes
<1>2. SUFFICES ASSUME T # {} PROVE FALSE
      OBVIOUS
<1>3. T \in SUBSET Nat
      BY <1>1
<1>4. PICK i \in T : \A k \in T : ~(k < i)
      BY <1>2, <1>3, LeastNumber
<1>5. /\ i - 1 \in DOMAIN stack /\ j \in Nat /\ i \in Nat /\ i - 1 + 1 = i
      /\ i \in DOMAIN stack /\ stack[i].ts \notin C
      /\ i - 1 = j \/ j < i - 1
      BY <1>1, <1>4
<1>6. <<stack[i - 1].ts, stack[i].ts>> \in IncludeEdges
      BY <1>5
<1>7. stack[i - 1].ts \in C \cup {stack[j].ts}
      BY <1>1, <1>4, <1>5
<1>8. QED
      BY <1>5, <1>6, <1>7 DEF Closed

\* Where a file is included that is open, it leads to itself.
LEMMA CycleCloses ==
  ASSUME WalkInv, OpenFilesLead, call # NoCall, call.ts \in Active
  PROVE  <<call.ts, call.ts>> \in Reaches
<1>1. PICK j \in DOMAIN stack : call.ts = stack[j].ts
      BY DEF Active
<1>2. DOMAIN stack = 1..Len(stack) /\ Len(stack) \in Nat /\ stack # <<>> /\ call.ts \in TsFiles
      BY <1>1, CallFacts DEF WalkInv, WalkTypes
<1>3. SUFFICES ASSUME NEW C \in SUBSET TsFiles, Closed(C, call.ts) PROVE call.ts \in C
      BY <1>2 DEF Reaches, Closed
<1> DEFINE n == Len(stack)
<1>4. <<stack[n].ts, call.ts>> \in IncludeEdges
      BY <1>2 DEF OpenFilesLead
<1>5. \A i \in DOMAIN stack : j < i => stack[i].ts \in C
      BY <1>1, <1>3, OpenFilesReach DEF WalkInv, OpenFilesLead
<1>6. n = j \/ j < n
      BY <1>1, <1>2
<1>7. stack[n].ts \in C \cup {call.ts}
      BY <1>1, <1>2, <1>5, <1>6
<1>8. QED
      BY <1>3, <1>4, <1>7 DEF Closed

LEMMA OtherReason ==
  ASSUME WalkTypes, NEW path \in TsFiles, NEW reason \in Reasons,
         reason # "cycle_include", AddIssue(path, reason)
  PROVE  Reported' <=> Reported
<1> DEFINE new == [path |-> path, reason |-> reason]
<1>1. /\ new \in [path : TsFiles, reason : Reasons] /\ new.reason # "cycle_include"
      /\ issues \in Seq([path : TsFiles, reason : Reasons]) /\ issues' = Append(issues, new)
      BY DEF AddIssue, WalkTypes
<1> HIDE DEF new
<1>2. /\ DOMAIN issues' = DOMAIN issues \cup {Len(issues) + 1}
      /\ \A i \in DOMAIN issues : issues'[i] = issues[i]
      /\ issues'[Len(issues) + 1] = new
      BY <1>1, Appended
<1>3. QED
      BY <1>1, <1>2 DEF Reported

\* A step that opens no file and leaves a call made or refused.
LEMMA LeadStays ==
  ASSUME OpenFilesLead, call' = NoCall, Reported' => Reported,
         \A d \in IncludeEdges : d \in IncludeEdges',
         \A f : IsReadable(f)' <=> IsReadable(f),
         \A f : <<f, f>> \in Reaches => (<<f, f>> \in Reaches)',
         \A i \in DOMAIN stack' : i \in DOMAIN stack /\ stack'[i].ts = stack[i].ts
  PROVE  OpenFilesLead'
BY DEF OpenFilesLead

LEMMA OpenLead ==
  ASSUME WalkInv, OpenFilesLead, Open
  PROVE  OpenFilesLead'
<1>1. /\ Visit /\ tree' = tree /\ issues' = issues /\ call # NoCall /\ call' = NoCall
      /\ call.ts \notin tree.missing \cup tree.outside \cup tree.unreadable
      BY DEF Open, Visit, IsNew
<1>2. /\ \A d \in IncludeEdges : d \in IncludeEdges'
      /\ \A f : IsReadable(f)' <=> IsReadable(f)
      /\ \A f : <<f, f>> \in Reaches => (<<f, f>> \in Reaches)'
      BY <1>1, EdgesGrow DEF WalkInv
<1> DEFINE new == [ts |-> call.ts, at |-> 1]
           n == Len(stack)
<1>3. new \in Frames /\ new.ts = call.ts /\ stack \in Seq(Frames)
      BY <1>1, VisitFacts DEF Frames, WalkInv, WalkTypes
<1>4. stack' = Append(stack, new)
      BY DEF Open
<1> HIDE DEF new
<1>5. /\ DOMAIN stack' = DOMAIN stack \cup {n + 1} /\ n \in Nat
      /\ DOMAIN stack = 1..n /\ n + 1 \notin DOMAIN stack
      /\ \A i \in DOMAIN stack : stack'[i] = stack[i]
      /\ stack'[n + 1].ts = call.ts
      BY <1>3, <1>4, Appended
<1>6. IsReadable(call.ts)
      BY <1>1 DEF IsReadable
<1>7. (\A i \in DOMAIN stack : IsReadable(stack[i].ts))'
      BY <1>2, <1>5, <1>6 DEF OpenFilesLead
<1>8. ASSUME NEW i \in DOMAIN stack', i + 1 \in DOMAIN stack'
      PROVE  <<stack'[i].ts, stack'[i + 1].ts>> \in IncludeEdges'
  <2>1. CASE i + 1 \in DOMAIN stack
    <3>1. i \in DOMAIN stack
          BY <1>5, <1>8, <2>1
    <3>2. <<stack[i].ts, stack[i + 1].ts>> \in IncludeEdges
          BY <2>1, <3>1 DEF OpenFilesLead
    <3>3. stack'[i] = stack[i] /\ stack'[i + 1] = stack[i + 1]
          BY <1>5, <2>1, <3>1
    <3>4. <<stack[i].ts, stack[i + 1].ts>> \in IncludeEdges'
          BY <1>2, <3>2
    <3>5. QED
          BY <3>3, <3>4
  <2>2. CASE i = n
    <3>1. n \in DOMAIN stack /\ stack # <<>>
      <4>1. stack # <<>> <=> n # 0
            BY <1>3, EmptySeq
      <4> HIDE DEF n
      <4>2. n \in DOMAIN stack /\ n # 0
            BY <1>5, <1>8, <2>2
      <4>3. QED
            BY <4>1, <4>2
    <3>2. <<stack[n].ts, call.ts>> \in IncludeEdges
          BY <1>1, <3>1 DEF OpenFilesLead
    <3>3. QED
          BY <1>2, <1>5, <2>2, <3>1, <3>2
  <2>3. QED
        BY <1>5, <1>8, <2>1, <2>2
<1>9. Reported' => \E f \in TsFiles : (<<f, f>> \in Reaches)'
      BY <1>1, <1>2 DEF OpenFilesLead, Reported
<1>10. QED
       BY <1>1, <1>7, <1>8, <1>9 DEF OpenFilesLead

LEMMA IncludeLead ==
  ASSUME WalkInv, OpenFilesLead, IncludeTs
  PROVE  OpenFilesLead'
<1>1. /\ TakeLine /\ UNCHANGED <<tree, trace, issues>>
      /\ call' = [ts |-> Line.target, parent |-> Top.ts]
      /\ Problem(Line) = "none" /\ Line.target \in TsFiles
      BY DEF IncludeTs, TakeLine, visited
<1>2. /\ Len(stack') = Len(stack) /\ DOMAIN stack' = DOMAIN stack
      /\ \A i \in DOMAIN stack : stack'[i].ts = stack[i].ts
      BY <1>1, LineFacts DEF WalkInv
<1>3. Top = stack[Len(stack)] /\ Len(stack) \in DOMAIN stack /\ Top.at \in Nat \ {0}
      /\ Lines(Top.ts) \in Seq(LineType)
      BY <1>1, TopFacts DEF WalkInv, TakeLine
<1>4. Line = Lines(Top.ts)[Top.at] /\ Top.at \in DOMAIN Lines(Top.ts)
      BY <1>1, <1>3 DEF Line, TakeLine
<1>5. Top.ts \in Range(trace) /\ IsReadable(Top.ts)
      BY <1>3 DEF WalkInv, OpenFiles, OpenFilesLead
<1>6. <<Top.ts, Line.target>> \in IncludeEdges
      BY <1>1, <1>4, <1>5, EdgesOf DEF WalkInv
<1>7. /\ IncludeEdges' = IncludeEdges
      /\ \A f : IsReadable(f)' <=> IsReadable(f)
      /\ \A f : <<f, f>> \in Reaches => (<<f, f>> \in Reaches)'
      BY <1>1, EdgesStay
<1>8. Reported' => Reported
      BY <1>1 DEF Reported
<1>9. (\A i \in DOMAIN stack : IsReadable(stack[i].ts))'
      BY <1>2, <1>7 DEF OpenFilesLead
<1>10. (\A i \in DOMAIN stack :
           i + 1 \in DOMAIN stack => <<stack[i].ts, stack[i + 1].ts>> \in IncludeEdges)'
       BY <1>2, <1>7 DEF OpenFilesLead
<1>11. (call # NoCall /\ stack # <<>> => <<stack[Len(stack)].ts, call.ts>> \in IncludeEdges)'
  <2>1. call'.ts = Line.target /\ stack'[Len(stack')].ts = Top.ts
        BY <1>1, <1>2, <1>3
  <2>2. QED
        BY <1>6, <1>7, <2>1
<1>12. (Reported => \E f \in TsFiles : <<f, f>> \in Reaches)'
       BY <1>7, <1>8 DEF OpenFilesLead
<1>13. QED
       BY <1>9, <1>10, <1>11, <1>12 DEF OpenFilesLead

LEMMA LeadStep ==
  ASSUME WalkInv, OpenFilesLead, [Next]_vars
  PROVE  OpenFilesLead'
<1>1. CASE CycleInclude
  <2>1. /\ call # NoCall /\ call.ts \in Active /\ call' = NoCall
        /\ UNCHANGED <<tree, trace, stack>> /\ call.ts \in TsFiles
        BY <1>1, CallFacts DEF CycleInclude, visited, WalkInv
  <2>2. <<call.ts, call.ts>> \in Reaches
        BY <2>1, CycleCloses
  <2>3. /\ IncludeEdges' = IncludeEdges
        /\ \A f : IsReadable(f)' <=> IsReadable(f)
        /\ \A f : <<f, f>> \in Reaches => (<<f, f>> \in Reaches)'
        BY <2>1, EdgesStay
  <2>4. \E f \in TsFiles : (<<f, f>> \in Reaches)'
        BY <2>1, <2>2, <2>3
  <2>5. QED
        BY <2>1, <2>3, <2>4 DEF OpenFilesLead
<1>2. CASE SeenBefore \/ NotFound \/ OutsideRoot
  <2>1. call' = NoCall /\ UNCHANGED <<tree, trace, stack>>
        BY <1>2 DEF SeenBefore, NotFound, OutsideRoot, visited
  <2>2. Reported' => Reported
    <3>1. CASE SeenBefore
          BY <3>1 DEF SeenBefore, Reported
    <3>2. CASE NotFound
          BY <3>2, CallFacts, OtherReason DEF NotFound, IsNew, Reasons, WalkInv
    <3>3. CASE OutsideRoot
          BY <3>3, CallFacts, OtherReason DEF OutsideRoot, IsNew, Reasons, WalkInv
    <3>4. QED
          BY <1>2, <3>1, <3>2, <3>3
  <2>3. QED
        BY <2>1, <2>2, EdgesStay, LeadStays
<1>3. CASE Unreadable
  <2>1. Visit /\ tree' = tree /\ stack' = stack /\ call' = NoCall
        BY <1>3 DEF Unreadable, Visit
  <2>2. Reported' => Reported
        BY <1>3, <2>1, VisitFacts, OtherReason DEF Unreadable, Reasons, WalkInv
  <2>3. QED
        BY <2>1, <2>2, EdgesGrow, LeadStays DEF WalkInv
<1>4. CASE Open
      BY <1>4, OpenLead
<1>5. CASE RejectLine \/ AddSql
  <2>1. TakeLine /\ call' = NoCall /\ UNCHANGED <<tree, trace>>
        BY <1>5 DEF RejectLine, AddSql, TakeLine, visited
  <2>2. \A i \in DOMAIN stack' : i \in DOMAIN stack /\ stack'[i].ts = stack[i].ts
        BY <2>1, LineFacts DEF WalkInv
  <2>3. Reported' => Reported
    <3>1. CASE AddSql
          BY <3>1 DEF AddSql, Reported
    <3>2. CASE RejectLine
      <4>1. \E reason \in Reasons \ {"cycle_include"} : AddIssue(Top.ts, reason)
            BY <3>2, LineFacts DEF RejectLine, Problem, Reasons, WalkInv
      <4>2. Top.ts \in TsFiles
            BY <2>1, TopFacts DEF WalkInv, TakeLine
      <4>3. QED
            BY <4>1, <4>2, OtherReason DEF WalkInv
    <3>3. QED
          BY <1>5, <3>1, <3>2
  <2>4. QED
        BY <2>1, <2>2, <2>3, EdgesStay, LeadStays
<1>6. CASE IncludeTs
      BY <1>6, IncludeLead
<1>7. CASE Return
  <2>1. /\ stack' = SubSeq(stack, 1, Len(stack) - 1) /\ stack # <<>> /\ stack \in Seq(Frames)
        /\ call' = NoCall /\ UNCHANGED <<tree, trace>> /\ issues' = issues
        BY <1>7 DEF Return, WalkInv, WalkTypes, visited
  <2>2. /\ DOMAIN stack' = 1..(Len(stack) - 1) /\ DOMAIN stack = 1..Len(stack)
        /\ Len(stack) \in Nat \ {0}
        /\ \A i \in DOMAIN stack' : stack'[i] = stack[i]
        BY <2>1, Popped
  <2>3. \A i \in DOMAIN stack' : i \in DOMAIN stack /\ stack'[i].ts = stack[i].ts
        BY <2>2
  <2>4. Reported' => Reported
        BY <2>1 DEF Reported
  <2>5. QED
        BY <2>1, <2>3, <2>4, EdgesStay, LeadStays
<1>8. CASE UNCHANGED vars
  <2>1. UNCHANGED <<tree, trace, stack, call, issues>>
        BY <1>8 DEF vars
  <2>2. Reported' => Reported
        BY <2>1 DEF Reported
  <2>3. /\ IncludeEdges' = IncludeEdges
        /\ \A f : IsReadable(f)' <=> IsReadable(f)
        /\ \A f : <<f, f>> \in Reaches => (<<f, f>> \in Reaches)'
        BY <2>1, EdgesStay
  <2>4. QED
        BY <2>1, <2>2, <2>3 DEF OpenFilesLead
<1>9. QED
  <2>1. \/ CycleInclude \/ SeenBefore \/ NotFound \/ OutsideRoot \/ Unreadable
        \/ Open \/ RejectLine \/ IncludeTs \/ AddSql \/ Return \/ UNCHANGED vars
        BY DEF Next, EnterTs, ReadTs
  <2>2. QED
        BY <1>1, <1>2, <1>3, <1>4, <1>5, <1>6, <1>7, <1>8, <2>1, Zenon

LEMMA ReportStays ==
  ASSUME WalkTypes, NEW path \in TsFiles, NEW reason \in Reasons, AddIssue(path, reason)
  PROVE  /\ Reported => Reported'
         /\ reason = "cycle_include" => Reported'
<1> DEFINE new == [path |-> path, reason |-> reason]
<1>1. /\ new \in [path : TsFiles, reason : Reasons] /\ new.reason = reason
      /\ issues \in Seq([path : TsFiles, reason : Reasons]) /\ issues' = Append(issues, new)
      BY DEF AddIssue, WalkTypes
<1> HIDE DEF new
<1>2. /\ DOMAIN issues' = DOMAIN issues \cup {Len(issues) + 1}
      /\ \A i \in DOMAIN issues : issues'[i] = issues[i]
      /\ issues'[Len(issues) + 1] = new
      BY <1>1, Appended
<1>3. QED
      BY <1>1, <1>2 DEF Reported

\* A step that leaves the same files open and done.
LEMMA SettledStays ==
  ASSUME DoneIsSettled, Reported => Reported', UNCHANGED <<tree, trace>>,
         DOMAIN stack' = DOMAIN stack,
         \A i \in DOMAIN stack : stack'[i].ts = stack[i].ts,
         ~Reported' => \A i \in DOMAIN stack : Included(i)' \subseteq Done \cup Dead \cup InWork(i)'
  PROVE  DoneIsSettled'
<1>1. IncludeEdges' = IncludeEdges /\ Dead' = Dead /\ \A C, f : Closed(C, f)' <=> Closed(C, f)
      BY EdgesStay
<1>2. Done' = Done
      BY DEF Done, Active, Range
<1>3. QED
      BY <1>1, <1>2 DEF DoneIsSettled

LEMMA EdgesReadable ==
  \A d \in IncludeEdges : d \in TsFiles \X TsFiles /\ d[1] \in Range(trace) /\ IsReadable(d[1])
BY DEF IncludeEdges

\* What a line adds to what the innermost file includes.
LEMMA IncludedGrows ==
  ASSUME WalkTypes, TakeLine, NEW i \in DOMAIN stack
  PROVE  /\ i # Len(stack) => Included(i)' = Included(i)
         /\ i = Len(stack) =>
               \A f \in Included(i)' \ Included(i) :
                  f = Line.target /\ Problem(Line) = "none" /\ f \in TsFiles
<1> DEFINE n == Len(stack)
<1>1. /\ n \in Nat \ {0} /\ n \in DOMAIN stack /\ DOMAIN stack = 1..n
      /\ Top = stack[n] /\ Top \in Frames /\ Top.at \in Nat \ {0} /\ Top.ts \in TsFiles
      /\ Lines(Top.ts) \in Seq(LineType)
      BY TopFacts DEF TakeLine
<1>2. stack' = [stack EXCEPT ![n] = [stack[n] EXCEPT !.at = stack[n].at + 1]] /\ tree' = tree
      BY DEF TakeLine
<1>3. i # n => Included(i)' = Included(i)
      BY <1>2 DEF Included, Lines, Problem
<1>4. stack'[n].ts = Top.ts /\ stack'[n].at = Top.at + 1
      BY <1>1, <1>2 DEF Frames
<1>5. Line = Lines(Top.ts)[Top.at]
      BY DEF Line
<1>6. DOMAIN Lines(Top.ts) \subseteq Nat
      BY <1>1
<1>7. ASSUME i = n, NEW f \in Included(i)', f \notin Included(i)
      PROVE  f = Line.target /\ Problem(Line) = "none" /\ f \in TsFiles
  <2>1. f \in TsFiles /\ \E k \in DOMAIN Lines(Top.ts) :
           /\ k < Top.at + 1
           /\ Lines(Top.ts)[k].target = f
           /\ Problem(Lines(Top.ts)[k]) = "none"
    <3>1. /\ \A line : Problem(line)' = Problem(line)
          /\ \A g : Lines(g)' = Lines(g)
          BY <1>2 DEF Problem, Lines
    <3>2. stack'[i].ts = Top.ts /\ stack'[i].at = Top.at + 1
          BY <1>4, <1>7
    <3>3. QED
          BY <1>7, <3>1, <3>2 DEF Included
  <2>2. PICK k \in DOMAIN Lines(Top.ts) :
           /\ k < Top.at + 1
           /\ Lines(Top.ts)[k].target = f
           /\ Problem(Lines(Top.ts)[k]) = "none"
        BY <2>1
  <2>3. ~(k < Top.at)
        BY <1>1, <1>7, <2>1, <2>2 DEF Included
  <2>4. k = Top.at
        BY <1>1, <1>6, <2>2, <2>3
  <2>5. QED
        BY <1>5, <2>1, <2>2, <2>4
<1>8. QED
      BY <1>3, <1>7

\* A file that cannot be read is done as it is visited.
LEMMA UnreadableSettles ==
  ASSUME WalkInv, OpenFilesLead, DoneIsSettled, Unreadable
  PROVE  DoneIsSettled'
<1>1. /\ Visit /\ tree' = tree /\ stack' = stack /\ call' = NoCall /\ call # NoCall
      /\ call.ts \in tree.unreadable
      BY DEF Unreadable, Visit, IsNew
<1>2. Reported => Reported'
      BY <1>1, VisitFacts, ReportStays DEF Unreadable, Reasons, WalkInv
<1>3. /\ Range(trace') = Range(trace) \cup {call.ts} /\ call.ts \in TsFiles
      /\ call.ts \notin Active /\ call.ts \notin Range(trace)
      BY <1>1, VisitFacts DEF WalkInv
<1>4. /\ \A d \in IncludeEdges' : d \in IncludeEdges \/ d[1] = call.ts
      /\ \A d \in IncludeEdges' : IsReadable(d[1])
      /\ Dead' = Dead
      BY <1>1, EdgesGrow DEF WalkInv
<1>5. ~IsReadable(call.ts)
      BY <1>1 DEF IsReadable
<1>6. /\ \A d \in IncludeEdges' : d \in IncludeEdges /\ d[1] # call.ts
      BY <1>4, <1>5
<1>7. Done' = Done \cup {call.ts}
      BY <1>1, <1>3 DEF Done, Active
<1>8. SUFFICES ASSUME ~Reported' PROVE DoneIsSettled'
      BY DEF DoneIsSettled
<1>9. \A d \in IncludeEdges' : d[1] \in Done' => d[2] \in Done' \cup Dead'
      BY <1>2, <1>4, <1>6, <1>7, <1>8 DEF DoneIsSettled
<1>10. ASSUME NEW f \in Done'
       PROVE  \E C \in SUBSET (Done' \cup Dead') : f \notin C /\ Closed(C, f)'
  <2>1. CASE f \in Done
    <3>1. PICK C \in SUBSET (Done \cup Dead) : f \notin C /\ Closed(C, f)
          BY <1>2, <1>8, <2>1 DEF DoneIsSettled
    <3>2. Closed(C, f)'
          BY <1>6, <3>1 DEF Closed
    <3>3. QED
          BY <1>4, <1>7, <3>1, <3>2
  <2>2. CASE f = call.ts
    <3>1. Closed({}, f)'
          BY <1>6, <2>2 DEF Closed
    <3>2. QED
          BY <3>1
  <2>3. QED
        BY <1>7, <1>10, <2>1, <2>2
<1>11. ASSUME NEW i \in DOMAIN stack'
       PROVE  Included(i)' \subseteq Done' \cup Dead' \cup InWork(i)'
  <2>1. Included(i)' = Included(i)
        BY <1>1 DEF Included, Lines, Problem
  <2>2. InWork(i) \subseteq InWork(i)' \cup {call.ts}
        BY <1>1 DEF InWork
  <2>3. Included(i) \subseteq Done \cup Dead \cup InWork(i)
        BY <1>1, <1>2, <1>8, <1>11 DEF DoneIsSettled
  <2>4. QED
        BY <1>4, <1>7, <2>1, <2>2, <2>3
<1>12. QED
       BY <1>9, <1>10, <1>11 DEF DoneIsSettled

LEMMA OpenSettles ==
  ASSUME WalkInv, OpenFilesLead, DoneIsSettled, Open
  PROVE  DoneIsSettled'
<1>1. /\ Visit /\ tree' = tree /\ issues' = issues /\ call' = NoCall /\ call # NoCall
      /\ call.ts \notin tree.missing \cup tree.outside \cup tree.unreadable
      BY DEF Open, Visit, IsNew
<1>2. Reported' <=> Reported
      BY <1>1 DEF Reported
<1>3. /\ Range(trace') = Range(trace) \cup {call.ts} /\ call.ts \in TsFiles
      /\ call.ts \notin Active /\ call.ts \notin Range(trace)
      BY <1>1, VisitFacts DEF WalkInv
<1>4. /\ \A d \in IncludeEdges' : d \in IncludeEdges \/ d[1] = call.ts
      /\ Dead' = Dead
      BY <1>1, EdgesGrow DEF WalkInv
<1> DEFINE new == [ts |-> call.ts, at |-> 1]
           n == Len(stack)
<1>5. /\ DOMAIN stack' = DOMAIN stack \cup {n + 1} /\ n \in Nat /\ Len(stack') = n + 1
      /\ DOMAIN stack = 1..n /\ n + 1 \notin DOMAIN stack
      /\ \A i \in DOMAIN stack : stack'[i] = stack[i]
      /\ stack'[n + 1].ts = call.ts /\ stack'[n + 1].at = 1
  <2>1. /\ new \in Frames /\ new.ts = call.ts /\ new.at = 1 /\ stack \in Seq(Frames)
        /\ stack' = Append(stack, new)
        BY <1>3 DEF Open, Frames, WalkInv, WalkTypes
  <2> HIDE DEF new
  <2>2. QED
        BY <2>1, Appended
<1> HIDE DEF n
<1>6. Done' = Done
  <2>1. Active' = Active \cup {call.ts}
        BY <1>5 DEF Active
  <2>2. QED
        BY <1>3, <2>1 DEF Done
<1>7. call.ts \notin Done \cup Dead
      BY <1>1, <1>3 DEF Done, Dead, IsReadable
<1>8. SUFFICES ASSUME ~Reported' PROVE DoneIsSettled'
      BY DEF DoneIsSettled
<1>9. \A d \in IncludeEdges' : d[1] \in Done' => d[2] \in Done' \cup Dead'
      BY <1>2, <1>4, <1>6, <1>7, <1>8 DEF DoneIsSettled
<1>10. ASSUME NEW f \in Done'
       PROVE  \E C \in SUBSET (Done' \cup Dead') : f \notin C /\ Closed(C, f)'
  <2>1. PICK C \in SUBSET (Done \cup Dead) : f \notin C /\ Closed(C, f)
        BY <1>2, <1>6, <1>8, <1>10 DEF DoneIsSettled
  <2>2. call.ts \notin C \cup {f}
        BY <1>6, <1>7, <1>10, <2>1
  <2>3. Closed(C, f)'
        BY <1>4, <2>1, <2>2 DEF Closed
  <2>4. QED
        BY <1>4, <1>6, <2>1, <2>3
<1>11. ASSUME NEW i \in DOMAIN stack'
       PROVE  Included(i)' \subseteq Done' \cup Dead' \cup InWork(i)'
  <2>1. /\ \A line : Problem(line)' = Problem(line)
        /\ \A g : Lines(g)' = Lines(g)
        BY <1>1 DEF Problem, Lines
  <2>2. CASE i \in DOMAIN stack
    <3>1. Included(i)' = Included(i)
          BY <1>5, <2>1, <2>2 DEF Included
    <3>2. Included(i) \subseteq Done \cup Dead \cup InWork(i)
          BY <1>2, <1>8, <2>2 DEF DoneIsSettled
    <3>3. InWork(i) = InWork(i)'
      <4>1. CASE i < n
        <5>1. i + 1 \in DOMAIN stack
              BY <1>5, <2>2, <4>1
        <5>2. stack'[i + 1] = stack[i + 1] /\ i < Len(stack')
              BY <1>5, <2>2, <4>1, <5>1
        <5>3. InWork(i) = {stack[i + 1].ts}
              BY <4>1 DEF InWork, n
        <5>4. InWork(i)' = {stack'[i + 1].ts}
              BY <5>2 DEF InWork
        <5>5. QED
              BY <5>2, <5>3, <5>4
      <4>2. CASE i = n
        <5>1. i < Len(stack') /\ stack'[i + 1].ts = call.ts
              BY <1>5, <4>2
        <5>2. ~(i < n)
              BY <1>5, <4>2
        <5>3. InWork(i) = {call.ts}
              BY <1>1, <5>2 DEF InWork, n
        <5>4. InWork(i)' = {stack'[i + 1].ts}
              BY <5>1 DEF InWork
        <5>5. QED
              BY <5>1, <5>3, <5>4
      <4>3. QED
            BY <1>5, <2>2, <4>1, <4>2
    <3>4. QED
          BY <1>4, <1>6, <3>1, <3>2, <3>3
  <2>3. CASE i = n + 1
    <3>1. stack'[i].ts = call.ts /\ stack'[i].at = 1
          BY <1>5, <2>3
    <3>2. DOMAIN Lines(call.ts) \subseteq Nat \ {0}
      <4>1. tree \in TreeType
            BY TreesAssumption DEF WalkInv, WalkTypes
      <4>2. Lines(call.ts) \in Seq(LineType)
            BY <1>3, <4>1 DEF Lines, TreeType
      <4>3. QED
            BY <4>2
    <3>3. Included(i)' = {}
          BY <2>1, <3>1, <3>2 DEF Included
    <3>4. QED
          BY <3>3
  <2>4. QED
        BY <1>5, <1>11, <2>2, <2>3
<1>12. QED
       BY <1>9, <1>10, <1>11 DEF DoneIsSettled

\* Everything that a file includes is done or dead when it is left, and the
\* file itself is neither.
LEMMA ReturnSettles ==
  ASSUME WalkInv, OpenFilesLead, DoneIsSettled, Return
  PROVE  DoneIsSettled'
<1> DEFINE n == Len(stack)
<1>1. /\ stack' = SubSeq(stack, 1, n - 1) /\ stack # <<>> /\ stack \in Seq(Frames)
      /\ call' = NoCall /\ call = NoCall /\ UNCHANGED <<tree, trace>> /\ issues' = issues
      /\ Top.at > Len(Lines(Top.ts))
      BY DEF Return, WalkInv, WalkTypes, visited
<1>2. /\ DOMAIN stack' = 1..(n - 1) /\ Len(stack') = n - 1 /\ DOMAIN stack = 1..n
      /\ n \in Nat \ {0}
      /\ \A i \in DOMAIN stack' : stack'[i] = stack[i]
      BY <1>1, Popped
<1>3. /\ Top = stack[n] /\ Top.ts \in TsFiles /\ Lines(Top.ts) \in Seq(LineType)
      /\ Top.at \in Nat
      BY <1>1, TopFacts DEF WalkInv
<1>4. /\ IncludeEdges' = IncludeEdges /\ Dead' = Dead
      /\ \A C, f : Closed(C, f)' <=> Closed(C, f)
      BY <1>1, EdgesStay
<1>5. Top.ts \in Active /\ Top.ts \in Range(trace) /\ IsReadable(Top.ts)
      BY <1>2, <1>3 DEF Active, WalkInv, OpenFiles, OpenFilesLead
<1>6. Done' = Done \cup {Top.ts}
  <2>1. Active' = Active \ {Top.ts}
    <3>1. \A i \in 1..(n - 1) : stack[i].ts # stack[n].ts
      <4>1. \A i \in DOMAIN stack : i # n => stack[i].ts # stack[n].ts
            BY <1>2 DEF WalkInv, OpenFiles
      <4> HIDE DEF n
      <4>2. \A i \in 1..(n - 1) : i \in 1..n /\ i # n
            BY <1>2
      <4>3. QED
            BY <1>2, <4>1, <4>2
    <3>2. Active' = {stack[i].ts : i \in 1..(n - 1)}
          BY <1>2 DEF Active
    <3>3. Active = {stack[i].ts : i \in 1..(n - 1)} \cup {stack[n].ts}
      <4> HIDE DEF n
      <4>1. 1..n = (1..(n - 1)) \cup {n}
            BY <1>2
      <4>2. QED
            BY <1>2, <4>1 DEF Active
    <3> HIDE DEF n
    <3>4. QED
          BY <1>3, <3>1, <3>2, <3>3
  <2>2. Range(trace') = Range(trace)
        BY <1>1
  <2>3. QED
        BY <1>5, <2>1, <2>2 DEF Done
<1>7. Reported' <=> Reported
      BY <1>1 DEF Reported
<1>8. SUFFICES ASSUME ~Reported' PROVE DoneIsSettled'
      BY DEF DoneIsSettled
<1>9. ASSUME NEW d \in IncludeEdges, d[1] = Top.ts
      PROVE  d[2] \in Done \cup Dead
  <2>1. PICK k \in DOMAIN Lines(Top.ts) :
           Lines(Top.ts)[k].target = d[2] /\ Problem(Lines(Top.ts)[k]) = "none"
        BY <1>9 DEF IncludeEdges
  <2>2. k < Top.at
        BY <1>1, <1>3
  <2>3. d[2] \in Included(n)
        BY <1>3, <1>9, <2>1, <2>2, EdgesReadable DEF Included
  <2>4. InWork(n) = {}
        BY <1>1, <1>2 DEF InWork
  <2>5. n \in DOMAIN stack
        BY <1>2
  <2>6. QED
        BY <1>7, <1>8, <2>3, <2>4, <2>5 DEF DoneIsSettled
<1>10. \A d \in IncludeEdges' : d[1] \in Done' => d[2] \in Done' \cup Dead'
       BY <1>4, <1>6, <1>7, <1>8, <1>9 DEF DoneIsSettled
<1>11. ASSUME NEW f \in Done'
       PROVE  \E C \in SUBSET (Done' \cup Dead') : f \notin C /\ Closed(C, f)'
  <2>1. CASE f \in Done
        BY <1>4, <1>6, <1>7, <1>8, <2>1 DEF DoneIsSettled
  <2>2. CASE f = Top.ts
    <3>1. f \notin Done \cup Dead
          BY <1>5, <2>2 DEF Done, Dead
    <3>2. \A d \in IncludeEdges : d[1] \notin Dead
          BY EdgesReadable DEF Dead
    <3>3. Closed(Done \cup Dead, f)
          BY <1>7, <1>8, <1>9, <2>2, <3>2 DEF Closed, DoneIsSettled
    <3>4. PICK C : C = Done \cup Dead
          OBVIOUS
    <3>5. Closed(C, f)'
          BY <1>4, <3>3, <3>4
    <3>6. QED
          BY <1>4, <1>6, <3>1, <3>4, <3>5
  <2>3. QED
        BY <1>6, <1>11, <2>1, <2>2
<1>12. ASSUME NEW i \in DOMAIN stack'
       PROVE  Included(i)' \subseteq Done' \cup Dead' \cup InWork(i)'
  <2>1. stack'[i] = stack[i] /\ i \in DOMAIN stack /\ i < n
        BY <1>2, <1>12
  <2>2. Included(i)' = Included(i)
    <3>1. /\ \A f : Lines(f)' = Lines(f)
          /\ \A line : Problem(line)' = Problem(line)
          BY <1>1 DEF Lines, Problem
    <3>2. QED
          BY <2>1, <3>1 DEF Included
  <2>3. Included(i) \subseteq Done \cup Dead \cup {stack[i + 1].ts}
        BY <1>7, <1>8, <2>1 DEF DoneIsSettled, InWork
  <2>4. stack[i + 1].ts \in InWork(i)' \cup {Top.ts}
    <3>1. CASE i + 1 = n
          BY <1>3, <3>1
    <3>2. CASE i + 1 # n
      <4>1. i + 1 \in DOMAIN stack' /\ i < Len(stack')
            BY <1>2, <2>1, <3>2
      <4>2. QED
            BY <1>2, <4>1 DEF InWork
    <3>3. QED
          BY <3>1, <3>2
  <2>5. QED
        BY <1>4, <1>6, <2>2, <2>3, <2>4
<1>13. QED
       BY <1>10, <1>11, <1>12 DEF DoneIsSettled

LEMMA SettledStep ==
  ASSUME WalkInv, OpenFilesLead, DoneIsSettled, [Next]_vars
  PROVE  DoneIsSettled'
<1>1. CASE CycleInclude
      BY <1>1, CallFacts, ReportStays DEF CycleInclude, Reasons, WalkInv, DoneIsSettled
<1>2. CASE SeenBefore \/ NotFound \/ OutsideRoot
  <2>1. /\ call # NoCall /\ call' = NoCall /\ UNCHANGED <<tree, trace, stack>>
        /\ call.ts \in TsFiles
        BY <1>2, CallFacts DEF SeenBefore, NotFound, OutsideRoot, visited, IsNew, WalkInv
  <2>2. call.ts \in Done \cup Dead
        BY <1>2, <2>1 DEF SeenBefore, NotFound, OutsideRoot, SeenTs, Done, Dead, IsReadable
  <2>3. Reported => Reported'
    <3>1. CASE SeenBefore
          BY <3>1 DEF SeenBefore, Reported
    <3>2. CASE NotFound
          BY <2>1, <3>2, ReportStays DEF NotFound, Reasons, WalkInv
    <3>3. CASE OutsideRoot
          BY <2>1, <3>3, ReportStays DEF OutsideRoot, Reasons, WalkInv
    <3>4. QED
          BY <1>2, <3>1, <3>2, <3>3
  <2>4. ASSUME ~Reported', NEW i \in DOMAIN stack
        PROVE  Included(i)' \subseteq Done \cup Dead \cup InWork(i)'
    <3>1. Included(i)' = Included(i)
          BY <2>1 DEF Included, Lines, Problem
    <3>2. Included(i) \subseteq Done \cup Dead \cup InWork(i)
          BY <2>3, <2>4 DEF DoneIsSettled
    <3>3. InWork(i) \subseteq InWork(i)' \cup {call.ts}
          BY <2>1 DEF InWork
    <3>4. QED
          BY <2>2, <3>1, <3>2, <3>3
  <2>5. QED
        BY <2>1, <2>3, <2>4, SettledStays
<1>3. CASE Unreadable
      BY <1>3, UnreadableSettles
<1>4. CASE Open
      BY <1>4, OpenSettles
<1>5. CASE RejectLine \/ IncludeTs \/ AddSql
  <2>1. /\ TakeLine /\ UNCHANGED <<tree, trace>> /\ call = NoCall
        /\ Top.ts \in TsFiles
        BY <1>5, TopFacts DEF RejectLine, IncludeTs, AddSql, TakeLine, visited, WalkInv
  <2>2. /\ DOMAIN stack' = DOMAIN stack /\ Len(stack') = Len(stack)
        /\ \A i \in DOMAIN stack : stack'[i].ts = stack[i].ts
        /\ Len(stack) \in Nat /\ DOMAIN stack = 1..Len(stack)
        BY <2>1, LineFacts, TopFacts DEF WalkInv, TakeLine
  <2>3. Reported => Reported'
    <3>1. CASE IncludeTs \/ AddSql
          BY <3>1 DEF IncludeTs, AddSql, Reported
    <3>2. CASE RejectLine
      <4>1. \E reason \in Reasons : AddIssue(Top.ts, reason)
            BY <3>2, LineFacts, ProblemTypes DEF RejectLine, Reasons, WalkInv
      <4>2. QED
            BY <2>1, <4>1, ReportStays DEF WalkInv
    <3>3. QED
          BY <1>5, <3>1, <3>2
  <2>4. Problem(Line) = "none" /\ Line.target \in TsFiles =>
           call' # NoCall /\ call'.ts = Line.target
    <3>1. CASE RejectLine
          BY <3>1, FilesAssumption DEF RejectLine, Conflict, WalkInv, WalkTypes
    <3>2. CASE AddSql
          BY <3>2, FilesAssumption DEF AddSql
    <3>3. CASE IncludeTs
          BY <3>3, FilesAssumption DEF IncludeTs, NoCall
    <3>4. QED
          BY <1>5, <3>1, <3>2, <3>3
  <2>5. ASSUME ~Reported', NEW i \in DOMAIN stack
        PROVE  Included(i)' \subseteq Done \cup Dead \cup InWork(i)'
    <3>1. Included(i) \subseteq Done \cup Dead \cup InWork(i)
          BY <2>3, <2>5 DEF DoneIsSettled
    <3>2. CASE i # Len(stack)
      <4>1. Included(i)' = Included(i)
            BY <2>1, <3>2, IncludedGrows DEF WalkInv
      <4>2. i < Len(stack) /\ i + 1 \in DOMAIN stack
            BY <2>2, <2>5, <3>2
      <4>3. InWork(i)' = InWork(i)
            BY <2>2, <4>2 DEF InWork
      <4>4. QED
            BY <3>1, <4>1, <4>3
    <3>3. CASE i = Len(stack)
      <4>1. InWork(i) = {}
            BY <2>1, <2>2, <3>3 DEF InWork
      <4>2. \A f \in Included(i)' \ Included(i) :
               f = Line.target /\ Problem(Line) = "none" /\ f \in TsFiles
            BY <2>1, <3>3, IncludedGrows DEF WalkInv
      <4>3. call' # NoCall => InWork(i)' = {call'.ts}
            BY <2>2, <3>3 DEF InWork
      <4>4. QED
            BY <2>4, <3>1, <4>1, <4>2, <4>3
    <3>4. QED
          BY <3>2, <3>3
  <2>6. QED
        BY <2>1, <2>2, <2>3, <2>5, SettledStays
<1>6. CASE Return
      BY <1>6, ReturnSettles
<1>7. CASE UNCHANGED vars
  <2>1. UNCHANGED <<tree, trace, stack, call, issues>>
        BY <1>7 DEF vars
  <2>2. Reported' <=> Reported
        BY <2>1 DEF Reported
  <2>3. \A i \in DOMAIN stack : Included(i)' = Included(i) /\ InWork(i)' = InWork(i)
        BY <2>1 DEF Included, InWork, Lines, Problem
  <2>4. QED
        BY <2>1, <2>2, <2>3, SettledStays DEF DoneIsSettled
<1>8. QED
  <2>1. \/ CycleInclude \/ SeenBefore \/ NotFound \/ OutsideRoot \/ Unreadable
        \/ Open \/ RejectLine \/ IncludeTs \/ AddSql \/ Return \/ UNCHANGED vars
        BY DEF Next, EnterTs, ReadTs
  <2>2. QED
        BY <1>1, <1>2, <1>3, <1>4, <1>5, <1>6, <1>7, <2>1, Zenon

LEMMA SettledInit ==
  ASSUME Init
  PROVE  OpenFilesLead /\ DoneIsSettled
<1>1. stack = <<>> /\ issues = <<>> /\ trace = <<>>
      BY DEF Init
<1>2. OpenFilesLead
      BY <1>1 DEF OpenFilesLead, Reported
<1>3. Done = {} /\ IncludeEdges = {}
      BY <1>1 DEF Done, IncludeEdges, Range
<1>4. DoneIsSettled
      BY <1>1, <1>3 DEF DoneIsSettled
<1>5. QED
      BY <1>2, <1>4

LEMMA CyclesAreKnown ==
  ASSUME WalkInv, OpenFilesLead, DoneIsSettled
  PROVE  CycleIssueIffCycle
<1>1. SUFFICES ASSUME Finished
               PROVE  Reported <=> \E f \in TsFiles : <<f, f>> \in Reaches
      BY DEF CycleIssueIffCycle, Parsed, Reported
<1>2. Reported => \E f \in TsFiles : <<f, f>> \in Reaches
      BY DEF OpenFilesLead
<1>3. ASSUME ~Reported, NEW f \in TsFiles, <<f, f>> \in Reaches
      PROVE  FALSE
  <2>1. Done = Range(trace) /\ Range(trace) \subseteq TsFiles
        BY <1>1 DEF Done, Active, Finished, WalkInv, WalkTypes, Range
  <2>2. \A C \in SUBSET TsFiles : Closed(C, f) => f \in C
        BY <1>3 DEF Reaches, Closed
  <2>3. CASE f \in Done
    <3>1. PICK C \in SUBSET (Done \cup Dead) : f \notin C /\ Closed(C, f)
          BY <1>3, <2>3 DEF DoneIsSettled
    <3>2. C \in SUBSET TsFiles
          BY <2>1, <3>1 DEF Dead
    <3>3. QED
          BY <2>2, <3>1, <3>2
  <2>4. CASE f \notin Done
    <3>1. Closed({}, f)
          BY <2>1, <2>4, EdgesReadable DEF Closed
    <3>2. QED
          BY <2>2, <3>1
  <2>5. QED
        BY <2>3, <2>4
<1>4. QED
      BY <1>2, <1>3

\* A cycle is reported if and only if a file of the suite includes itself, at
\* whatever distance and wherever the walk enters the cycle (the cycle check
\* of parse_ts).
THEOREM CyclesAreReported ==
  PlansSpec => []CycleIssueIffCycle
<1>1. Init => OpenFilesLead /\ DoneIsSettled
      BY SettledInit
<1>2. WalkInv /\ OpenFilesLead /\ DoneIsSettled /\ [Next]_vars
         => OpenFilesLead' /\ DoneIsSettled'
      BY LeadStep, SettledStep
<1>3. Spec => [](OpenFilesLead /\ DoneIsSettled)
      BY <1>1, <1>2, WalkInvariance, PTL DEF Spec
<1>4. WalkInv /\ OpenFilesLead /\ DoneIsSettled => CycleIssueIffCycle
      BY CyclesAreKnown
<1>5. QED
      BY <1>3, <1>4, WalkUnderPlans, WalkInvariance, PTL

(***************************************************************************)
(* The issues.  The walk has dealt with the lines that LinesRead holds;    *)
(* each wrong one among them has its issue, and so has each visited file   *)
(* that cannot be read.                                                    *)
(***************************************************************************)
\* The line of the i-th open file that is worked on, or that is next.
NextLine(i) ==
    IF call # NoCall /\ i = Len(stack) THEN stack[i].at - 1 ELSE stack[i].at

Wrong(e) == IsWrongLine(e[1], LineOf(e))

LinesRead ==
    {e \in Read \X Nat :
        /\ e[2] \in DOMAIN Lines(e[1])
        /\ \A i \in DOMAIN stack : stack[i].ts = e[1] => e[2] < NextLine(i)}

Accounted == {e \in LinesRead : Wrong(e)}

Unread == Range(trace) \ Read

\* The line gives a case a timeout.
TimesCase(e) ==
    /\ Problem(LineOf(e)) = "none"
    /\ LineOf(e).target \in SqlFiles
    /\ LineOf(e).timeout # 0

\* A file is opened for a sound line, if not for the suite; what is visited is
\* there; and a timeout that was read is known.
LinesLead ==
    /\ call # NoCall /\ stack = <<>> => tree.root \in TsFiles
    /\ call # NoCall /\ stack # <<>> =>
          LET e == <<Top.ts, Top.at - 1>> IN
          /\ e[2] \in DOMAIN Lines(e[1])
          /\ LineOf(e).target = call.ts /\ Problem(LineOf(e)) = "none"
    /\ \A f \in Range(trace) : f \notin tree.missing \cup tree.outside
    /\ \A i \in DOMAIN stack : IsReadable(stack[i].ts)
    /\ \A e \in LinesRead : TimesCase(e) => LineOf(e).target \in DOMAIN timeouts

IssuesAddUp ==
    /\ IsFiniteSet(Accounted) /\ IsFiniteSet(Unread)
    /\ Len(issues) =
          IF trace = <<>>
          THEN IF call = NoCall /\ tree.root \in TsFiles THEN 1 ELSE 0
          ELSE Cardinality(Accounted) + Cardinality(Unread)

\* What the innermost open file was included through are the open files.
LEMMA OpenAreThrough ==
  ASSUME WalkInv, stack # <<>>
  PROVE  IncludedThrough(Top.ts) = Active
<1> DEFINE n == Len(stack)
<1>1. /\ n \in Nat \ {0} /\ n \in DOMAIN stack /\ DOMAIN stack = 1..n
      /\ Top = stack[n] /\ Top.ts \in TsFiles
      BY TopFacts DEF WalkInv
<1>2. /\ \A i \in DOMAIN stack : stack[i].ts \in Range(trace) /\ stack[i].ts \in TsFiles
      /\ DOMAIN parent = Range(trace)
      BY DEF WalkInv, WalkTypes, OpenFiles, Range
<1>3. \A i \in DOMAIN stack : parent[stack[i].ts] = (IF i = 1 THEN NoFile ELSE stack[i - 1].ts)
      BY DEF WalkInv, ParentsComeFirst
<1> HIDE DEF n
<1>4. \A i \in DOMAIN stack : i # 1 => i - 1 \in DOMAIN stack
      BY <1>1
<1>5. ASSUME NEW f \in IncludedThrough(Top.ts)
      PROVE  f \in Active
  <2>1. Active \in SUBSET TsFiles /\ Top.ts \in Active
        BY <1>1, <1>2 DEF Active
  <2>2. \A g \in Active \cap DOMAIN parent : parent[g] \in Active \cup {NoFile}
        BY <1>3, <1>4 DEF Active
  <2>3. QED
        BY <2>1, <2>2 DEF IncludedThrough
<1>6. ASSUME NEW C \in SUBSET TsFiles, Top.ts \in C,
             \A g \in C \cap DOMAIN parent : parent[g] \in C \cup {NoFile},
             NEW m \in DOMAIN stack
      PROVE  stack[m].ts \in C
  <2> DEFINE T == {j \in Nat : j < n /\ stack[n - j].ts \notin C}
  <2>1. SUFFICES T = {}
    <3>1. n - m \in Nat /\ n - m < n /\ n - (n - m) = m
          BY <1>1
    <3>2. QED
          BY <3>1
  <2>2. T \in SUBSET Nat
        OBVIOUS
  <2>3. SUFFICES ASSUME T # {} PROVE FALSE
        OBVIOUS
  <2>4. PICK j \in T : \A y \in T : ~(y < j)
        BY <2>2, <2>3, LeastNumber
  <2>5. j \in Nat /\ j < n /\ stack[n - j].ts \notin C
        BY <2>4
  <2>6. j # 0
        BY <1>1, <1>6, <2>5
  <2>7. /\ j - 1 \in Nat /\ j - 1 < j /\ j - 1 < n
        /\ n - (j - 1) \in DOMAIN stack /\ n - (j - 1) # 1 /\ (n - (j - 1)) - 1 = n - j
        BY <1>1, <2>5, <2>6
  <2>8. stack[n - (j - 1)].ts \in C
        BY <2>4, <2>7
  <2>9. parent[stack[n - (j - 1)].ts] = stack[n - j].ts
        BY <1>3, <2>7
  <2>10. n - j \in DOMAIN stack
        BY <1>1, <2>5
  <2>11. stack[n - j].ts \in C \cup {NoFile} /\ stack[n - j].ts # NoFile
        BY <1>2, <1>6, <2>7, <2>8, <2>9, <2>10, FilesAssumption
  <2>12. QED
        BY <2>5, <2>11
<1>7. \A f \in Active : f \in IncludedThrough(Top.ts)
  <2>1. \A f \in Active : f \in TsFiles /\ \E m \in DOMAIN stack : f = stack[m].ts
        BY <1>2 DEF Active
  <2>2. QED
        BY <1>6, <2>1 DEF IncludedThrough
<1>8. QED
      BY <1>5, <1>7

\* A file that is visited leaves the parents of the others alone.
LEMMA ThroughStays ==
  ASSUME WalkInv, Visit, NEW f \in Range(trace)
  PROVE  IncludedThrough(f)' = IncludedThrough(f)
<1>1. /\ Range(trace') = Range(trace) \cup {call.ts}
      /\ \A g \in Range(trace) : parent'[g] = parent[g]
      /\ parent' \in [Range(trace') -> TsFiles \cup {NoFile}]
      BY VisitFacts DEF WalkInv
<1>2. DOMAIN parent = Range(trace) /\ DOMAIN parent' = Range(trace) \cup {call.ts}
      BY <1>1 DEF WalkInv, WalkTypes
<1>3. \A g \in Range(trace) : parent[g] \in Range(trace) \cup {NoFile}
  <2>1. DOMAIN trace = 1..Len(trace) /\ Len(trace) \in Nat
        BY DEF WalkInv, WalkTypes
  <2>2. \A i \in DOMAIN trace :
           IF i = 1 THEN parent[trace[i]] = NoFile
           ELSE \E j \in 1..(i - 1) : parent[trace[i]] = trace[j]
        BY DEF WalkInv, ParentsComeFirst
  <2>3. \A i \in DOMAIN trace :
           parent[trace[i]] = NoFile \/ \E j \in DOMAIN trace : parent[trace[i]] = trace[j]
        BY <2>1, <2>2
  <2>4. QED
        BY <2>3 DEF Range
<1>4. Range(trace) \in SUBSET TsFiles
      BY DEF WalkInv, WalkTypes, Range
<1> DEFINE Holds(C) == f \in C /\ \A g \in C \cap DOMAIN parent : parent[g] \in C \cup {NoFile}
           HoldsNext(C) == f \in C /\ \A g \in C \cap DOMAIN parent' : parent'[g] \in C \cup {NoFile}
<1>5. ASSUME NEW C \in SUBSET TsFiles, HoldsNext(C)
      PROVE  Holds(C)
      BY <1>1, <1>2, <1>5
<1>6. ASSUME NEW C \in SUBSET TsFiles, Holds(C)
      PROVE  HoldsNext(C \cap Range(trace))
      BY <1>1, <1>2, <1>3, <1>6
<1>7. IncludedThrough(f) = {h \in TsFiles : \A C \in SUBSET TsFiles : Holds(C) => h \in C}
      BY DEF IncludedThrough
<1>8. IncludedThrough(f)' = {h \in TsFiles : \A C \in SUBSET TsFiles : HoldsNext(C) => h \in C}
      BY DEF IncludedThrough
<1> HIDE DEF Holds, HoldsNext
<1>9. \A C \in SUBSET TsFiles : C \cap Range(trace) \in SUBSET TsFiles
      OBVIOUS
<1>10. \A h \in TsFiles :
          (\A C \in SUBSET TsFiles : Holds(C) => h \in C)
             <=> (\A C \in SUBSET TsFiles : HoldsNext(C) => h \in C)
       BY <1>5, <1>6, <1>9
<1>11. QED
       BY <1>7, <1>8, <1>10

(***************************************************************************)
(* Counting.                                                               *)
(***************************************************************************)
LEMMA AccountedStays ==
  ASSUME \A e \in LinesRead' : e \in LinesRead \/ ~Wrong(e)',
         \A e \in LinesRead : e \in LinesRead' /\ (Wrong(e)' <=> Wrong(e))
  PROVE  Accounted' = Accounted
BY DEF Accounted

LEMMA OneMore ==
  ASSUME NEW A, NEW p, IsFiniteSet(A), p \notin A
  PROVE  IsFiniteSet(A \cup {p}) /\ Cardinality(A \cup {p}) = Cardinality(A) + 1
BY FS_AddElement

LEMMA AccountedGrows ==
  ASSUME NEW p, p \notin LinesRead, p \in LinesRead', Wrong(p)', IsFiniteSet(Accounted),
         \A e \in LinesRead' : e \in LinesRead \/ e = p,
         \A e \in LinesRead : e \in LinesRead' /\ (Wrong(e)' <=> Wrong(e))
  PROVE  IsFiniteSet(Accounted') /\ Cardinality(Accounted') = Cardinality(Accounted) + 1
<1>1. Accounted' = Accounted \cup {p} /\ p \notin Accounted
      BY DEF Accounted
<1>2. QED
      BY <1>1, OneMore

LEMMA CountTypes ==
  ASSUME IssuesAddUp
  PROVE  Cardinality(Accounted) \in Nat /\ Cardinality(Unread) \in Nat
BY FS_CardinalityType DEF IssuesAddUp

(***************************************************************************)
(* What each kind of step adds to the lines that were read.                *)
(***************************************************************************)
LEMMA LineBehind ==
  ASSUME NEW e
  PROVE  e \in LinesRead <=>
            /\ e \in Read \X Nat /\ e[2] \in DOMAIN Lines(e[1])
            /\ \A i \in DOMAIN stack : stack[i].ts = e[1] => e[2] < NextLine(i)
BY DEF LinesRead

\* The files of the suite and their lines.
LEMMA FileLines ==
  ASSUME WalkTypes, NEW f \in TsFiles
  PROVE  Lines(f) \in Seq(LineType)
<1>1. tree \in TreeType
      BY TreesAssumption DEF WalkTypes
<1>2. QED
      BY <1>1 DEF Lines, TreeType

LEMMA WrongStays ==
  ASSUME tree' = tree, timeouts' = timeouts, NEW e,
         IncludedThrough(e[1])' = IncludedThrough(e[1])
  PROVE  Wrong(e)' <=> Wrong(e)
BY DEF Wrong, IsWrongLine, LineOf, Lines, Problem, Conflict

LEMMA ThroughSame ==
  ASSUME parent' = parent, NEW f
  PROVE  IncludedThrough(f)' = IncludedThrough(f)
BY DEF IncludedThrough

LEMMA FilesOfLines ==
  ASSUME WalkInv, NEW e \in LinesRead
  PROVE  /\ e[1] \in Range(trace) /\ e[1] \in TsFiles /\ e[2] \in Nat
         /\ e[2] \in DOMAIN Lines(e[1]) /\ LineOf(e) \in LineType
<1>1. e[1] \in Range(trace) /\ e[2] \in Nat /\ e[2] \in DOMAIN Lines(e[1])
      BY DEF LinesRead, Read
<1>2. e[1] \in TsFiles
      BY <1>1 DEF Range, WalkInv, WalkTypes
<1>3. Lines(e[1]) \in Seq(LineType)
      BY <1>2, FileLines DEF WalkInv
<1>4. QED
      BY <1>1, <1>2, <1>3 DEF LineOf

\* The call for the line in work ends; what it opened is at its first line.
LEMMA CallEnds ==
  ASSUME WalkInv, LinesLead, call # NoCall, stack # <<>>, call' = NoCall, tree' = tree,
         \A f \in Read : f \in Read',
         Read' \subseteq TsFiles,
         \A i \in DOMAIN stack : i \in DOMAIN stack' /\ stack'[i] = stack[i],
         \A i \in DOMAIN stack' : i \notin DOMAIN stack => stack'[i].at = 1,
         \A f \in Read' : f \notin Read =>
            \E i \in DOMAIN stack' : i \notin DOMAIN stack /\ stack'[i].ts = f,
         \A i \in DOMAIN stack' : i \notin DOMAIN stack => stack'[i].ts \notin Range(trace)
  PROVE  LET p == <<Top.ts, Top.at - 1>> IN
         /\ p \notin LinesRead
         /\ \A e : e \in LinesRead' <=> e \in LinesRead \/ e = p
<1> DEFINE n == Len(stack)
           k == Top.at - 1
           p == <<Top.ts, k>>
<1>1. /\ n \in DOMAIN stack /\ Top = stack[n] /\ Top.ts \in TsFiles /\ Top.at \in Nat
      BY TopFacts DEF WalkInv
<1>2. Lines(Top.ts) \in Seq(LineType)
      BY <1>1, FileLines DEF WalkInv
<1>3. k \in DOMAIN Lines(Top.ts)
      BY DEF LinesLead
<1>4. k \in Nat /\ Top.at = k + 1
      BY <1>1, <1>2, <1>3
<1>5. Top.ts \in Read
      BY <1>1 DEF LinesLead, Read, WalkInv, OpenFiles
<1>6. /\ \A i \in DOMAIN stack : NextLine(i) = IF i = n THEN k ELSE stack[i].at
      /\ \A i \in DOMAIN stack' : NextLine(i)' = stack'[i].at
      BY <1>1 DEF NextLine
<1>7. \A i \in DOMAIN stack : stack[i].ts = Top.ts => i = n
      BY <1>1 DEF WalkInv, OpenFiles
<1>8. \A f : Lines(f)' = Lines(f)
      BY DEF Lines
<1>9. p \notin LinesRead
  <2>1. NextLine(n) = k /\ ~(k < k) /\ stack[n].ts = p[1] /\ p[2] = k
        BY <1>1, <1>4, <1>6
  <2>2. QED
        BY <1>1, <2>1, LineBehind
<1>10. \A i \in DOMAIN stack : stack[i].at \in Nat
  <2>1. \A i \in DOMAIN stack : stack[i] \in Frames
        BY DEF WalkInv, WalkTypes
  <2>2. QED
        BY <2>1 DEF Frames
<1>11. ASSUME NEW e \in LinesRead
       PROVE  e \in LinesRead'
  <2>1. /\ e \in Read \X Nat /\ e[2] \in DOMAIN Lines(e[1])
        /\ \A i \in DOMAIN stack : stack[i].ts = e[1] => e[2] < NextLine(i)
        BY LineBehind
  <2>2. e[1] \in Range(trace)
        BY <2>1 DEF Read
  <2>3. ASSUME NEW i \in DOMAIN stack', stack'[i].ts = e[1]
        PROVE  e[2] < stack'[i].at
    <3>1. i \in DOMAIN stack /\ stack'[i] = stack[i]
          BY <2>2, <2>3
    <3>2. e[2] < NextLine(i)
          BY <2>1, <2>3, <3>1
    <3>3. QED
          BY <1>1, <1>4, <1>6, <2>1, <3>1, <3>2
  <2>4. QED
        BY <1>6, <1>8, <2>1, <2>3 DEF LinesRead
<1>12. p \in LinesRead'
  <2>1. p \in Read' \X Nat /\ p[2] \in DOMAIN Lines(p[1])
        BY <1>3, <1>4, <1>5
  <2>2. ASSUME NEW i \in DOMAIN stack', stack'[i].ts = Top.ts
        PROVE  k < stack'[i].at
    <3>1. i \in DOMAIN stack
          BY <1>5, <2>2 DEF Read
    <3>2. i = n /\ stack'[i] = Top
          BY <1>1, <1>7, <2>2, <3>1
    <3>3. QED
          BY <1>4, <3>2
  <2>3. QED
        BY <1>6, <1>8, <2>1, <2>2 DEF LinesRead
<1>13. ASSUME NEW e \in LinesRead', e \notin LinesRead
       PROVE  e = p
  <2>1. /\ e \in Read' \X Nat /\ e[2] \in DOMAIN Lines(e[1])
        /\ \A i \in DOMAIN stack' : stack'[i].ts = e[1] => e[2] < stack'[i].at
        BY <1>6, <1>8 DEF LinesRead
  <2>2. e[1] \in Read
    <3>1. SUFFICES ASSUME e[1] \notin Read PROVE FALSE
          OBVIOUS
    <3>2. PICK i \in DOMAIN stack' : i \notin DOMAIN stack /\ stack'[i].ts = e[1]
          BY <2>1, <3>1
    <3>3. e[2] < 1
          BY <2>1, <3>2
    <3>4. Lines(e[1]) \in Seq(LineType)
          BY <2>1, FileLines DEF WalkInv
    <3>5. QED
          BY <2>1, <3>3, <3>4
  <2>3. PICK i \in DOMAIN stack : stack[i].ts = e[1] /\ ~(e[2] < NextLine(i))
        BY <1>13, <2>1, <2>2, LineBehind
  <2>4. e[2] < stack[i].at
        BY <2>1, <2>3
  <2>5. i = n
        BY <1>6, <2>3, <2>4
  <2>6. e[2] = k /\ e[1] = Top.ts
        BY <1>1, <1>4, <1>6, <2>1, <2>3, <2>4, <2>5
  <2>7. QED
        BY <2>1, <2>6
<1>14. QED
       BY <1>9, <1>11, <1>12, <1>13

\* A line is read and is not left in work.
LEMMA LineTaken ==
  ASSUME WalkInv, LinesLead, TakeLine, call' = NoCall
  PROVE  LET p == <<Top.ts, Top.at>> IN
         /\ p \notin LinesRead /\ LineOf(p) = Line
         /\ \A e : e \in LinesRead' <=> e \in LinesRead \/ e = p
<1> DEFINE n == Len(stack)
           k == Top.at
           p == <<Top.ts, k>>
<1>1. /\ n \in DOMAIN stack /\ Top = stack[n] /\ Top.ts \in TsFiles /\ k \in Nat
      /\ Lines(Top.ts) \in Seq(LineType) /\ k \in DOMAIN Lines(Top.ts)
      BY TopFacts DEF WalkInv, TakeLine
<1>2. LineOf(p) = Line
      BY DEF LineOf, Line
<1>3. /\ stack' = [stack EXCEPT ![n] = [stack[n] EXCEPT !.at = stack[n].at + 1]]
      /\ UNCHANGED <<tree, trace>> /\ call = NoCall
      BY DEF TakeLine, visited
<1>4. /\ DOMAIN stack' = DOMAIN stack /\ stack'[n].at = k + 1
      /\ \A i \in DOMAIN stack : stack'[i].ts = stack[i].ts /\ (i # n => stack'[i] = stack[i])
  <2>1. \A i \in DOMAIN stack : stack[i] \in Frames
        BY DEF WalkInv, WalkTypes
  <2>2. QED
        BY <1>1, <1>3, <2>1 DEF Frames
<1>5. Read' = Read /\ \A f : Lines(f)' = Lines(f)
      BY <1>3 DEF Read, IsReadable, Lines
<1>6. /\ \A i \in DOMAIN stack : NextLine(i) = stack[i].at
      /\ \A i \in DOMAIN stack' : NextLine(i)' = stack'[i].at
      BY <1>3 DEF NextLine
<1>7. \A i \in DOMAIN stack : stack[i].ts = Top.ts => i = n
      BY <1>1 DEF WalkInv, OpenFiles
<1>8. Top.ts \in Read
      BY <1>1 DEF LinesLead, Read, WalkInv, OpenFiles
<1>9. \A e : e \in LinesRead <=>
         /\ e \in Read \X Nat /\ e[2] \in DOMAIN Lines(e[1])
         /\ \A i \in DOMAIN stack : stack[i].ts = e[1] => e[2] < stack[i].at
      BY <1>6 DEF LinesRead
<1>10. \A e : e \in LinesRead' <=>
         /\ e \in Read \X Nat /\ e[2] \in DOMAIN Lines(e[1])
         /\ \A i \in DOMAIN stack : stack[i].ts = e[1] => e[2] < stack'[i].at
       BY <1>4, <1>5, <1>6 DEF LinesRead
<1>11. p \notin LinesRead
       BY <1>1, <1>9
<1>12. p \in LinesRead'
  <2>1. \A i \in DOMAIN stack : stack[i].ts = Top.ts => k < stack'[i].at
        BY <1>1, <1>4, <1>7
  <2>2. QED
        BY <1>1, <1>8, <1>10, <2>1
<1>13. ASSUME NEW e \in LinesRead
       PROVE  e \in LinesRead'
  <2>1. ASSUME NEW i \in DOMAIN stack, stack[i].ts = e[1]
        PROVE  e[2] < stack'[i].at
    <3>1. e[2] < stack[i].at /\ e[2] \in Nat
          BY <1>9, <2>1
    <3>2. CASE i = n
          BY <1>1, <1>4, <3>1, <3>2
    <3>3. CASE i # n
          BY <1>4, <3>1, <3>3
    <3>4. QED
          BY <3>2, <3>3
  <2>2. QED
        BY <1>9, <1>10, <2>1
<1>14. ASSUME NEW e \in LinesRead', e \notin LinesRead
       PROVE  e = p
  <2>1. /\ e \in Read \X Nat /\ e[2] \in DOMAIN Lines(e[1])
        /\ \A i \in DOMAIN stack : stack[i].ts = e[1] => e[2] < stack'[i].at
        BY <1>10
  <2>2. PICK i \in DOMAIN stack : stack[i].ts = e[1] /\ ~(e[2] < stack[i].at)
        BY <1>9, <1>14, <2>1
  <2>3. e[2] < stack'[i].at
        BY <2>1, <2>2
  <2>4. i = n
        BY <1>4, <2>2, <2>3
  <2>5. e[2] = k /\ e[1] = Top.ts
        BY <1>1, <1>4, <2>1, <2>2, <2>3, <2>4
  <2>6. QED
        BY <2>1, <2>5
<1>15. QED
       BY <1>2, <1>11, <1>12, <1>13, <1>14

\* The line of an include is in work until its file is opened or refused.
LEMMA LineInWork ==
  ASSUME WalkInv, IncludeTs
  PROVE  \A e : e \in LinesRead' <=> e \in LinesRead
<1> DEFINE n == Len(stack)
<1>1. /\ n \in DOMAIN stack /\ Top = stack[n] /\ Top.at \in Nat
      BY TopFacts DEF WalkInv, IncludeTs, TakeLine
<1>2. /\ stack' = [stack EXCEPT ![n] = [stack[n] EXCEPT !.at = stack[n].at + 1]]
      /\ UNCHANGED <<tree, trace>> /\ call = NoCall /\ call' # NoCall
      BY FilesAssumption DEF IncludeTs, TakeLine, visited, NoCall
<1>3. /\ DOMAIN stack' = DOMAIN stack /\ stack'[n].at = Top.at + 1 /\ Len(stack') = n
      /\ \A i \in DOMAIN stack : stack'[i].ts = stack[i].ts /\ (i # n => stack'[i] = stack[i])
  <2>1. \A i \in DOMAIN stack : stack[i] \in Frames
        BY DEF WalkInv, WalkTypes
  <2>2. Len(stack') = n /\ DOMAIN stack' = DOMAIN stack
        BY LineFacts DEF WalkInv, IncludeTs
  <2>3. QED
        BY <1>1, <1>2, <2>1, <2>2 DEF Frames
<1>4. Read' = Read /\ \A f : Lines(f)' = Lines(f)
      BY <1>2 DEF Read, IsReadable, Lines
<1>5. \A i \in DOMAIN stack : NextLine(i) = stack[i].at
      BY <1>2 DEF NextLine
<1>6. \A i \in DOMAIN stack : NextLine(i)' = stack[i].at
  <2>1. \A i \in DOMAIN stack : NextLine(i)' = IF i = n THEN stack'[i].at - 1 ELSE stack'[i].at
        BY <1>2, <1>3 DEF NextLine
  <2>2. QED
        BY <1>1, <1>3, <2>1
<1>7. QED
      BY <1>3, <1>4, <1>5, <1>6 DEF LinesRead

\* A file is left when all its lines have been read.
LEMMA FileLeft ==
  ASSUME WalkInv, Return
  PROVE  \A e : e \in LinesRead' <=> e \in LinesRead
<1> DEFINE n == Len(stack)
<1>1. /\ n \in DOMAIN stack /\ Top = stack[n] /\ Top.at \in Nat /\ Top.ts \in TsFiles
      /\ Lines(Top.ts) \in Seq(LineType) /\ Top.at > Len(Lines(Top.ts))
      BY TopFacts DEF WalkInv, Return
<1>2. /\ stack' = SubSeq(stack, 1, Len(stack) - 1)
      /\ UNCHANGED <<tree, trace>> /\ call = NoCall /\ call' = NoCall
      BY DEF Return, visited
<1>3. /\ DOMAIN stack' = 1..(n - 1) /\ DOMAIN stack = 1..n /\ n \in Nat \ {0}
      /\ \A i \in DOMAIN stack' : stack'[i] = stack[i]
      BY <1>2, Popped DEF WalkInv, WalkTypes, Return
<1>4. Read' = Read /\ \A f : Lines(f)' = Lines(f)
      BY <1>2 DEF Read, IsReadable, Lines
<1>5. /\ \A i \in DOMAIN stack : NextLine(i) = stack[i].at
      /\ \A i \in DOMAIN stack' : NextLine(i)' = stack'[i].at
      BY <1>2 DEF NextLine
<1>6. \A m \in DOMAIN Lines(Top.ts) : m < stack[n].at
      BY <1>1
<1> HIDE DEF n
<1>7. \A i \in DOMAIN stack : i = n \/ i \in DOMAIN stack'
      BY <1>3
<1>8. \A i \in DOMAIN stack' : i \in DOMAIN stack
      BY <1>3
<1>9. ASSUME NEW e, e[2] \in DOMAIN Lines(e[1])
      PROVE  (\A i \in DOMAIN stack : stack[i].ts = e[1] => e[2] < stack[i].at)
                <=> (\A i \in DOMAIN stack' : stack'[i].ts = e[1] => e[2] < stack'[i].at)
  <2>1. stack[n].ts = e[1] => e[2] < stack[n].at
        BY <1>1, <1>6, <1>9
  <2>2. QED
        BY <1>3, <1>7, <1>8, <2>1
<1>10. QED
       BY <1>4, <1>5, <1>9 DEF LinesRead

\* A file that is not opened leaves the line in work read.
LEMMA CallRefused ==
  ASSUME WalkInv, LinesLead, call # NoCall, stack # <<>>, call' = NoCall,
         UNCHANGED <<tree, stack, visited>>
  PROVE  LET p == <<Top.ts, Top.at - 1>> IN
         /\ p \notin LinesRead
         /\ \A e : e \in LinesRead' <=> e \in LinesRead \/ e = p
<1>1. Read' = Read
      BY DEF Read, IsReadable, visited
<1>2. Read \subseteq TsFiles
      BY DEF Read, Range, WalkInv, WalkTypes
<1>3. QED
      BY <1>1, <1>2, CallEnds

\* So does a file that is visited.
LEMMA CallVisits ==
  ASSUME WalkInv, LinesLead, Unreadable \/ Open, stack # <<>>
  PROVE  LET p == <<Top.ts, Top.at - 1>> IN
         /\ p \notin LinesRead
         /\ \A e : e \in LinesRead' <=> e \in LinesRead \/ e = p
<1>1. Visit /\ tree' = tree
      BY DEF Unreadable, Open
<1>2. /\ call # NoCall /\ call' = NoCall /\ call.ts \notin Range(trace) /\ call.ts \in TsFiles
      /\ Range(trace') = Range(trace) \cup {call.ts} /\ Range(trace) \subseteq TsFiles
  <2>1. Range(trace) \subseteq TsFiles
        BY DEF WalkInv, WalkTypes, Range
  <2>2. QED
        BY <1>1, <2>1, VisitFacts DEF WalkInv
<1>3. \A f : IsReadable(f)' <=> IsReadable(f)
      BY <1>1 DEF IsReadable
<1>4. /\ \A f \in Read : f \in Read'
      /\ Read' \subseteq TsFiles
      /\ \A f \in Read' : f \notin Read => f = call.ts /\ IsReadable(call.ts)
      BY <1>2, <1>3 DEF Read
<1>5. CASE Unreadable
  <2>1. stack' = stack /\ ~IsReadable(call.ts)
        BY <1>5 DEF Unreadable, IsReadable
  <2>2. QED
        BY <1>1, <1>2, <1>4, <2>1, CallEnds
<1>6. CASE Open
  <2>1. stack' = Append(stack, [ts |-> call.ts, at |-> 1]) /\ stack \in Seq(Frames)
        BY <1>6 DEF Open, WalkInv, WalkTypes
  <2>2. [ts |-> call.ts, at |-> 1] \in Frames
        BY <1>2 DEF Frames
  <2>3. /\ DOMAIN stack' = DOMAIN stack \cup {Len(stack) + 1}
        /\ Len(stack) + 1 \notin DOMAIN stack
        /\ \A i \in DOMAIN stack : stack'[i] = stack[i]
        /\ stack'[Len(stack) + 1] = [ts |-> call.ts, at |-> 1]
        BY <2>1, <2>2, Appended
  <2>4. QED
        BY <1>1, <1>2, <1>4, <2>3, CallEnds
<1>7. QED
      BY <1>5, <1>6

\* Before the suite is opened no line has been read.
LEMMA NothingRead ==
  ASSUME trace = <<>>
  PROVE  Range(trace) = {} /\ LinesRead = {} /\ Accounted = {} /\ Unread = {}
<1>1. Range(trace) = {}
      BY DEF Range
<1>2. QED
      BY <1>1 DEF LinesRead, Read, Accounted, Unread

LEMMA FirstLines ==
  ASSUME WalkInv, Unreadable \/ Open, stack = <<>>
  PROVE  LinesRead' = {} /\ trace = <<>> /\ Range(trace') = {call.ts}
<1>1. Visit /\ tree' = tree
      BY DEF Unreadable, Open
<1>2. /\ call # NoCall /\ call' = NoCall /\ call.ts \in TsFiles
      /\ Range(trace') = Range(trace) \cup {call.ts} /\ trace = <<>>
      BY <1>1, VisitFacts DEF WalkInv, OpenFiles
<1>3. Range(trace') = {call.ts}
      BY <1>2, NothingRead
<1>4. CASE Unreadable
  <2>1. Read' = {}
        BY <1>3, <1>4 DEF Read, IsReadable, Unreadable
  <2>2. QED
        BY <1>2, <1>3, <2>1 DEF LinesRead
<1>5. CASE Open
  <2>1. /\ 1 \in DOMAIN stack' /\ stack'[1].ts = call.ts /\ stack'[1].at = 1
        BY <1>5 DEF Open
  <2>2. NextLine(1)' = 1
        BY <1>2, <2>1 DEF NextLine
  <2>3. \A f \in TsFiles : Lines(f)' = Lines(f) /\ Lines(f) \in Seq(LineType)
        BY <1>1, FileLines DEF Lines, WalkInv
  <2>4. \A f \in TsFiles : \A m \in DOMAIN Lines(f)' : ~(m < 1)
        BY <2>3
  <2>5. \A e \in LinesRead' : /\ e[1] = call.ts /\ e[2] \in DOMAIN Lines(e[1])'
                              /\ stack'[1].ts = e[1] => e[2] < 1
        BY <1>3, <2>1, <2>2 DEF LinesRead, Read
  <2>6. \A e \in LinesRead' : FALSE
        BY <1>2, <2>1, <2>4, <2>5
  <2>7. QED
        BY <1>2, <1>3, <2>6
<1>6. QED
      BY <1>4, <1>5

(***************************************************************************)
(* The lines lead the walk.                                                *)
(***************************************************************************)
\* A line that gives a case a timeout is read before the timeout is known.
LEMMA TimeoutsKnown ==
  ASSUME LinesLead, tree' = tree, NEW p, DOMAIN timeouts \subseteq DOMAIN timeouts',
         \A e \in LinesRead' : e \in LinesRead \/ e = p,
         TimesCase(p) => LineOf(p).target \in DOMAIN timeouts'
  PROVE  \A e \in LinesRead' : TimesCase(e)' => LineOf(e)'.target \in DOMAIN timeouts'
<1>1. \A e : LineOf(e)' = LineOf(e) /\ (TimesCase(e)' <=> TimesCase(e))
      BY DEF LineOf, Lines, TimesCase, Problem
<1>2. QED
      BY <1>1 DEF LinesLead

LEMMA CallLead ==
  ASSUME WalkInv, LinesLead, call # NoCall, stack # <<>>
  PROVE  LET p == <<Top.ts, Top.at - 1>> IN
         /\ LineOf(p).target = call.ts /\ Problem(LineOf(p)) = "none"
         /\ call.ts \in TsFiles /\ call.ts \notin tree.outside
         /\ ~TimesCase(p) /\ ~Conflict(LineOf(p))
<1> DEFINE p == <<Top.ts, Top.at - 1>>
<1>1. LineOf(p).target = call.ts /\ Problem(LineOf(p)) = "none"
      BY DEF LinesLead
<1>2. call.ts \in TsFiles
      BY CallFacts DEF WalkInv
<1>3. call.ts \notin SqlFiles
      BY <1>2, FilesAssumption
<1>4. call.ts \notin DOMAIN timeouts
      BY <1>3 DEF WalkInv, WalkTypes
<1>5. call.ts \notin tree.outside
      BY <1>1 DEF Problem
<1> HIDE DEF p
<1>6. ~TimesCase(p) /\ ~Conflict(LineOf(p))
      BY <1>1, <1>3, <1>4 DEF TimesCase, Conflict
<1>7. QED
      BY <1>1, <1>2, <1>5, <1>6 DEF p

LEMMA RefusedLead ==
  ASSUME WalkInv, LinesLead, call # NoCall, call' = NoCall,
         UNCHANGED <<tree, stack, visited, found>>
  PROVE  LinesLead'
<1>1. \A f : IsReadable(f)' <=> IsReadable(f)
      BY DEF IsReadable
<1>2. \A e \in LinesRead' : TimesCase(e)' => LineOf(e)'.target \in DOMAIN timeouts'
  <2>1. CASE stack = <<>>
    <3>1. trace' = <<>>
          BY <2>1 DEF WalkInv, OpenFiles, visited
    <3>2. Range(trace') = {}
          BY <3>1 DEF Range
    <3>3. LinesRead' = {}
          BY <3>2 DEF LinesRead, Read
    <3>4. QED
          BY <3>3
  <2>2. CASE stack # <<>>
        BY <2>2, CallRefused, CallLead, TimeoutsKnown DEF found
  <2>3. QED
        BY <2>1, <2>2
<1>3. QED
      BY <1>1, <1>2 DEF LinesLead, visited

LEMMA VisitLead ==
  ASSUME WalkInv, LinesLead, Unreadable \/ Open
  PROVE  LinesLead'
<1>1. Visit /\ tree' = tree /\ timeouts' = timeouts /\ call # NoCall
      BY DEF Unreadable, Open, found, Visit, IsNew
<1>2. call' = NoCall /\ Range(trace') = Range(trace) \cup {call.ts}
      BY <1>1, VisitFacts DEF WalkInv
<1>3. \A f : IsReadable(f)' <=> IsReadable(f)
      BY <1>1 DEF IsReadable
<1>4. \A e \in LinesRead' : TimesCase(e)' => LineOf(e)'.target \in DOMAIN timeouts'
  <2>1. CASE stack = <<>>
        BY <2>1, FirstLines
  <2>2. CASE stack # <<>>
        BY <1>1, <2>2, CallVisits, CallLead, TimeoutsKnown
  <2>3. QED
        BY <2>1, <2>2
<1>5. \A f \in Range(trace') : f \notin tree'.missing \cup tree'.outside
      BY <1>1, <1>2 DEF Visit, LinesLead
<1>6. (\A i \in DOMAIN stack : IsReadable(stack[i].ts))'
  <2>1. \A i \in DOMAIN stack : IsReadable(stack[i].ts)
        BY DEF LinesLead
  <2>2. CASE Unreadable
        BY <1>1, <2>1, <2>2 DEF Unreadable, IsReadable
  <2>3. CASE Open
    <3>1. stack' = Append(stack, [ts |-> call.ts, at |-> 1]) /\ stack \in Seq(Frames)
          BY <2>3 DEF Open, WalkInv, WalkTypes
    <3>2. [ts |-> call.ts, at |-> 1] \in Frames
          BY <1>1, VisitFacts DEF Frames, WalkInv
    <3>3. /\ DOMAIN stack' = DOMAIN stack \cup {Len(stack) + 1}
          /\ \A i \in DOMAIN stack : stack'[i] = stack[i]
          /\ stack'[Len(stack) + 1].ts = call.ts
          BY <3>1, <3>2, Appended
    <3>4. IsReadable(call.ts)
          BY <1>1, <2>3 DEF Visit, Open, IsReadable
    <3>5. \A i \in DOMAIN stack' : IsReadable(stack'[i].ts)
          BY <2>1, <3>3, <3>4
    <3>6. QED
          BY <1>1, <3>5 DEF IsReadable
  <2>4. QED
        BY <2>2, <2>3
<1>7. QED
      BY <1>2, <1>4, <1>5, <1>6 DEF LinesLead

LEMMA TakenLead ==
  ASSUME WalkInv, LinesLead, RejectLine \/ AddSql
  PROVE  LinesLead'
<1>1. TakeLine /\ call' = NoCall /\ tree' = tree /\ UNCHANGED visited /\ Line \in LineType
  <2>1. TakeLine /\ call' = NoCall /\ tree' = tree /\ UNCHANGED visited
        BY DEF RejectLine, AddSql, TakeLine
  <2>2. QED
        BY <2>1, LineFacts DEF WalkInv
<1> DEFINE p == <<Top.ts, Top.at>>
<1>2. LineOf(p) = Line /\ \A e \in LinesRead' : e \in LinesRead \/ e = p
      BY <1>1, LineTaken
<1> HIDE DEF p
<1>3. /\ DOMAIN timeouts \subseteq DOMAIN timeouts'
      /\ TimesCase(p) => LineOf(p).target \in DOMAIN timeouts'
  <2>1. CASE RejectLine
        BY <1>2, <2>1 DEF RejectLine, TimesCase, Conflict, found
  <2>2. CASE AddSql
    <3>1. SetTimeout
          BY <2>2 DEF AddSql
    <3>2. DOMAIN timeouts' = IF Line.timeout = 0 THEN DOMAIN timeouts
                             ELSE DOMAIN timeouts \cup {Line.target}
          BY <3>1 DEF SetTimeout
    <3>3. QED
          BY <1>2, <3>2 DEF TimesCase
  <2>3. QED
        BY <2>1, <2>2
<1>4. \A e \in LinesRead' : TimesCase(e)' => LineOf(e)'.target \in DOMAIN timeouts'
      BY <1>1, <1>2, <1>3, TimeoutsKnown
<1>5. /\ DOMAIN stack' = DOMAIN stack
      /\ \A i \in DOMAIN stack : stack'[i].ts = stack[i].ts
      BY <1>1, LineFacts DEF WalkInv
<1>6. (\A i \in DOMAIN stack : IsReadable(stack[i].ts))'
      BY <1>1, <1>5 DEF LinesLead, IsReadable
<1>7. QED
      BY <1>1, <1>4, <1>6 DEF LinesLead, visited

LEMMA IncludeTakes ==
  ASSUME WalkInv, LinesLead, IncludeTs
  PROVE  LinesLead'
<1> DEFINE n == Len(stack)
<1>1. /\ TakeLine /\ tree' = tree /\ UNCHANGED visited /\ timeouts' = timeouts
      /\ call' = [ts |-> Line.target, parent |-> Top.ts] /\ Problem(Line) = "none"
      BY DEF IncludeTs, TakeLine, found
<1>2. /\ DOMAIN stack' = DOMAIN stack /\ Len(stack') = n /\ stack' # <<>>
      /\ \A i \in DOMAIN stack : stack'[i].ts = stack[i].ts
      BY <1>1, LineFacts DEF WalkInv
<1>3. /\ n \in DOMAIN stack /\ Top = stack[n] /\ Top \in Frames /\ Top.at \in Nat
      /\ Lines(Top.ts) \in Seq(LineType) /\ Top.at \in DOMAIN Lines(Top.ts)
      BY <1>1, TopFacts DEF WalkInv, TakeLine
<1>4. Top' = stack'[n] /\ Top'.ts = Top.ts
      BY <1>2, <1>3 DEF Top
<1>5. Top'.at = Top.at + 1
  <2>1. stack' = [stack EXCEPT ![n] = [stack[n] EXCEPT !.at = stack[n].at + 1]]
        BY <1>1 DEF TakeLine
  <2>2. stack'[n].at = Top.at + 1
        BY <1>3, <2>1 DEF Frames
  <2>3. QED
        BY <1>4, <2>2
<1>6. Top'.at - 1 = Top.at
      BY <1>3, <1>5
<1>7. \A f : Lines(f)' = Lines(f)
      BY <1>1 DEF Lines
<1>8. \A line : Problem(line)' = Problem(line)
      BY <1>1 DEF Problem
<1>9. \A e \in LinesRead' : TimesCase(e)' => LineOf(e)'.target \in DOMAIN timeouts'
  <2>1. \A e : TimesCase(e)' <=> TimesCase(e)
        BY <1>7, <1>8 DEF TimesCase, LineOf
  <2>2. \A e : LineOf(e)' = LineOf(e)
        BY <1>7 DEF LineOf
  <2>3. \A e \in LinesRead' : e \in LinesRead
        BY LineInWork
  <2>4. QED
        BY <1>1, <2>1, <2>2, <2>3 DEF LinesLead
<1>10. LET e == <<Top'.ts, Top'.at - 1>> IN
       /\ e[2] \in DOMAIN Lines(e[1])
       /\ LineOf(e).target = call'.ts /\ Problem(LineOf(e)) = "none"
       BY <1>1, <1>3, <1>4, <1>6 DEF LineOf, Line
<1>11. (LET e == <<Top.ts, Top.at - 1>> IN
        /\ e[2] \in DOMAIN Lines(e[1])
        /\ LineOf(e).target = call.ts /\ Problem(LineOf(e)) = "none")'
       BY <1>1, <1>10 DEF LineOf, Lines, Problem
<1>12. (\A i \in DOMAIN stack : IsReadable(stack[i].ts))'
       BY <1>1, <1>2 DEF LinesLead, IsReadable
<1>13. QED
       BY <1>1, <1>2, <1>9, <1>11, <1>12 DEF LinesLead, visited

LEMMA ReturnLead ==
  ASSUME WalkInv, LinesLead, Return
  PROVE  LinesLead'
<1>1. call' = NoCall /\ UNCHANGED <<tree, trace, timeouts>>
      BY DEF Return, visited, found
<1>2. \A i \in DOMAIN stack' : i \in DOMAIN stack /\ stack'[i] = stack[i]
      BY Popped DEF Return, WalkInv, WalkTypes
<1>3. (\A i \in DOMAIN stack : IsReadable(stack[i].ts))'
      BY <1>1, <1>2 DEF LinesLead, IsReadable
<1>4. \A e \in LinesRead' : TimesCase(e)' => LineOf(e)'.target \in DOMAIN timeouts'
  <2>1. \A e : (TimesCase(e)' <=> TimesCase(e)) /\ LineOf(e)' = LineOf(e)
        BY <1>1 DEF TimesCase, LineOf, Lines, Problem
  <2>2. \A e \in LinesRead' : e \in LinesRead
        BY FileLeft
  <2>3. QED
        BY <1>1, <2>1, <2>2 DEF LinesLead
<1>5. QED
      BY <1>1, <1>3, <1>4 DEF LinesLead

LEMMA LinesLeadStep ==
  ASSUME WalkInv, LinesLead, [Next]_vars
  PROVE  LinesLead'
<1>1. CASE CycleInclude \/ SeenBefore \/ NotFound \/ OutsideRoot
  <2>1. call # NoCall /\ call' = NoCall /\ UNCHANGED <<tree, stack, visited, found>>
        BY <1>1 DEF CycleInclude, SeenBefore, NotFound, OutsideRoot, IsNew
  <2>2. QED
        BY <2>1, RefusedLead
<1>2. CASE Unreadable \/ Open
      BY <1>2, VisitLead
<1>3. CASE RejectLine \/ AddSql
      BY <1>3, TakenLead
<1>4. CASE IncludeTs
      BY <1>4, IncludeTakes
<1>5. CASE Return
      BY <1>5, ReturnLead
<1>6. CASE UNCHANGED vars
      BY <1>6 DEF vars, LinesLead, Top, LineOf, Lines, Problem, IsReadable, LinesRead,
         Read, NextLine, TimesCase
<1>7. QED
  <2>1. \/ CycleInclude \/ SeenBefore \/ NotFound \/ OutsideRoot \/ Unreadable
        \/ Open \/ RejectLine \/ IncludeTs \/ AddSql \/ Return \/ UNCHANGED vars
        BY DEF Next, EnterTs, ReadTs
  <2>2. QED
        BY <1>1, <1>2, <1>3, <1>4, <1>5, <1>6, <2>1, Zenon

LEMMA LinesLeadInit ==
  ASSUME Init
  PROVE  LinesLead
<1>1. trace = <<>> /\ stack = <<>> /\ (call # NoCall => tree.root \in TsFiles)
      BY DEF Init
<1>2. LinesRead = {} /\ Range(trace) = {} /\ DOMAIN stack = {}
      BY <1>1, NothingRead
<1>3. QED
      BY <1>1, <1>2 DEF LinesLead

(***************************************************************************)
(* The issues add up.                                                      *)
(***************************************************************************)
LEMMA IssueCounts ==
  ASSUME WalkTypes, NEW path \in TsFiles, NEW reason \in Reasons, AddIssue(path, reason)
  PROVE  Len(issues') = Len(issues) + 1 /\ Len(issues) \in Nat
<1>1. [path |-> path, reason |-> reason] \in [path : TsFiles, reason : Reasons]
      OBVIOUS
<1>2. QED
      BY <1>1, Appended DEF AddIssue, WalkTypes

LEMMA UnreadStays ==
  ASSUME UNCHANGED <<tree, trace>>
  PROVE  Unread' = Unread /\ Read' = Read
BY DEF Unread, Read, IsReadable

\* Nothing more is wrong, and nothing more is reported.
LEMMA NothingNew ==
  ASSUME IssuesAddUp, trace # <<>>, UNCHANGED <<tree, trace>>, issues' = issues,
         Accounted' = Accounted
  PROVE  IssuesAddUp'
BY UnreadStays DEF IssuesAddUp

\* One more line is wrong, and one more issue is reported.
LEMMA OneMoreWrong ==
  ASSUME IssuesAddUp, trace # <<>>, UNCHANGED <<tree, trace>>,
         Len(issues') = Len(issues) + 1, IsFiniteSet(Accounted'),
         Cardinality(Accounted') = Cardinality(Accounted) + 1
  PROVE  IssuesAddUp'
<1>1. Cardinality(Accounted) \in Nat /\ Cardinality(Unread) \in Nat
      BY CountTypes
<1>2. Unread' = Unread
      BY UnreadStays
<1>3. Len(issues) = Cardinality(Accounted) + Cardinality(Unread) /\ IsFiniteSet(Unread)
      BY DEF IssuesAddUp
<1>4. Len(issues') = Cardinality(Accounted') + Cardinality(Unread')
      BY <1>1, <1>2, <1>3
<1>5. QED
      BY <1>2, <1>3, <1>4 DEF IssuesAddUp

LEMMA SuiteIsRead ==
  ASSUME WalkInv, stack # <<>>
  PROVE  trace # <<>>
<1>1. stack[Len(stack)].ts \in Range(trace)
      BY TopFacts DEF WalkInv, OpenFiles
<1>2. QED
      BY <1>1 DEF Range

LEMMA RefusedAddsUp ==
  ASSUME WalkInv, LinesLead, IssuesAddUp, stack # <<>>,
         CycleInclude \/ SeenBefore \/ NotFound \/ OutsideRoot
  PROVE  IssuesAddUp'
<1> DEFINE p == <<Top.ts, Top.at - 1>>
<1>1. call # NoCall /\ call' = NoCall /\ UNCHANGED <<tree, stack, visited, found>>
      BY DEF CycleInclude, SeenBefore, NotFound, OutsideRoot, IsNew
<1>2. p \notin LinesRead /\ \A e : e \in LinesRead' <=> e \in LinesRead \/ e = p
      BY <1>1, CallRefused
<1>3. /\ LineOf(p).target = call.ts /\ Problem(LineOf(p)) = "none"
      /\ call.ts \in TsFiles /\ call.ts \notin tree.outside /\ ~Conflict(LineOf(p))
      BY <1>1, CallLead
<1>4. IncludedThrough(p[1]) = Active
      BY OpenAreThrough
<1>5. trace # <<>> /\ UNCHANGED <<tree, trace, timeouts, parent>>
      BY <1>1, SuiteIsRead DEF visited, found
<1>6. \A e : Wrong(e)' <=> Wrong(e)
  <2>1. \A e : IncludedThrough(e[1])' = IncludedThrough(e[1])
        BY <1>5 DEF IncludedThrough
  <2>2. QED
        BY <1>5, <2>1, WrongStays
<1>7. Wrong(p) <=> call.ts \in tree.missing \cup Active
      BY <1>3, <1>4 DEF Wrong, IsWrongLine
<1> HIDE DEF p
<1>8. CASE CycleInclude \/ NotFound
  <2>1. AddIssue(call.ts, "cycle_include") \/ AddIssue(call.ts, "parse_error")
        BY <1>7, <1>8 DEF CycleInclude, NotFound
  <2>2. Wrong(p)
        BY <1>7, <1>8 DEF CycleInclude, NotFound
  <2>3. Len(issues') = Len(issues) + 1
        BY <1>3, <2>1, IssueCounts DEF WalkInv, Reasons
  <2>4. IsFiniteSet(Accounted') /\ Cardinality(Accounted') = Cardinality(Accounted) + 1
        BY <1>2, <1>6, <2>2, AccountedGrows DEF IssuesAddUp
  <2>5. QED
        BY <1>5, <2>3, <2>4, OneMoreWrong
<1>9. CASE SeenBefore
  <2>1. issues' = issues /\ call.ts \in Range(trace) /\ call.ts \notin Active
        BY <1>9 DEF SeenBefore, SeenTs
  <2>2. ~Wrong(p)
        BY <1>7, <2>1 DEF LinesLead
  <2>3. Accounted' = Accounted
        BY <1>2, <1>6, <2>2, AccountedStays
  <2>4. QED
        BY <1>5, <2>1, <2>3, NothingNew
<1>10. CASE OutsideRoot
       BY <1>3, <1>10 DEF OutsideRoot
<1>11. QED
       BY <1>8, <1>9, <1>10

\* The suite itself is not there, or not in the repository.
LEMMA SuiteRefused ==
  ASSUME WalkInv, LinesLead, IssuesAddUp, stack = <<>>,
         CycleInclude \/ SeenBefore \/ NotFound \/ OutsideRoot
  PROVE  IssuesAddUp'
<1>1. /\ call # NoCall /\ call' = NoCall /\ UNCHANGED <<tree, stack, visited, found>>
      /\ call.ts \in TsFiles
      BY CallFacts DEF CycleInclude, SeenBefore, NotFound, OutsideRoot, IsNew, WalkInv
<1>2. trace = <<>> /\ trace' = <<>> /\ Active = {} /\ Range(trace) = {}
      BY <1>1, NothingRead DEF WalkInv, OpenFiles, visited, Active
<1>3. AddIssue(call.ts, "parse_error") \/ AddIssue(call.ts, "path_outside_root")
      BY <1>2 DEF CycleInclude, SeenBefore, NotFound, OutsideRoot, SeenTs
<1>4. Len(issues') = Len(issues) + 1
      BY <1>1, <1>3, IssueCounts DEF WalkInv, Reasons
<1>5. Len(issues) = 0 /\ tree'.root \in TsFiles
      BY <1>1, <1>2 DEF IssuesAddUp, LinesLead
<1>6. LinesRead' = {} /\ Unread' = {}
  <2>1. Range(trace') = {}
        BY <1>2 DEF Range
  <2>2. QED
        BY <2>1 DEF LinesRead, Unread, Read
<1>7. Accounted' = {} /\ IsFiniteSet(Accounted') /\ IsFiniteSet(Unread')
      BY <1>6, FS_EmptySet DEF Accounted
<1>8. QED
      BY <1>1, <1>2, <1>4, <1>5, <1>7 DEF IssuesAddUp

LEMMA VisitAddsUp ==
  ASSUME WalkInv, LinesLead, IssuesAddUp, stack # <<>>, Unreadable \/ Open
  PROVE  IssuesAddUp'
<1> DEFINE p == <<Top.ts, Top.at - 1>>
<1>1. Visit /\ UNCHANGED <<tree, timeouts>> /\ call # NoCall
      BY DEF Unreadable, Open, found, Visit, IsNew
<1>2. p \notin LinesRead /\ \A e : e \in LinesRead' <=> e \in LinesRead \/ e = p
      BY CallVisits
<1>3. /\ LineOf(p).target = call.ts /\ Problem(LineOf(p)) = "none"
      /\ call.ts \in TsFiles /\ ~Conflict(LineOf(p))
      BY <1>1, CallLead
<1>4. IncludedThrough(p[1]) = Active
      BY OpenAreThrough
<1>5. /\ call.ts \notin Active /\ call.ts \notin Range(trace) /\ call.ts \notin tree.missing
      /\ Range(trace') = Range(trace) \cup {call.ts}
      BY <1>1, VisitFacts DEF WalkInv, Visit
<1>6. ~Wrong(p)
      BY <1>3, <1>4, <1>5 DEF Wrong, IsWrongLine
<1>7. p[1] \in Range(trace)
      BY TopFacts DEF WalkInv, OpenFiles
<1>8. \A f \in Range(trace) : IncludedThrough(f)' = IncludedThrough(f)
      BY <1>1, ThroughStays
<1> HIDE DEF p
<1>9. \A e : e[1] \in Range(trace) => (Wrong(e)' <=> Wrong(e))
      BY <1>1, <1>8, WrongStays
<1>10. \A e \in LinesRead : e[1] \in Range(trace)
       BY FilesOfLines
<1>11. Accounted' = Accounted
       BY <1>2, <1>6, <1>7, <1>9, <1>10, AccountedStays
<1>12. trace # <<>> /\ trace' # <<>>
  <2>1. \A s : s = <<>> => Range(s) = {}
        BY DEF Range
  <2>2. QED
        BY <1>5, <2>1, SuiteIsRead
<1>13. \A f : IsReadable(f)' <=> IsReadable(f)
       BY <1>1 DEF IsReadable
<1>14. /\ Len(issues) = Cardinality(Accounted) + Cardinality(Unread)
       /\ IsFiniteSet(Accounted) /\ IsFiniteSet(Unread)
       BY <1>12 DEF IssuesAddUp
<1>15. CASE Unreadable
  <2>1. ~IsReadable(call.ts) /\ AddIssue(call.ts, "parse_error")
        BY <1>15 DEF Unreadable, IsReadable
  <2>2. Unread' = Unread \cup {call.ts} /\ call.ts \notin Unread
        BY <1>5, <1>13, <2>1 DEF Unread, Read
  <2>3. IsFiniteSet(Unread') /\ Cardinality(Unread') = Cardinality(Unread) + 1
        BY <1>14, <2>2, OneMore
  <2>4. Len(issues') = Len(issues) + 1
        BY <1>3, <2>1, IssueCounts DEF WalkInv, Reasons
  <2>5. Cardinality(Accounted) \in Nat /\ Cardinality(Unread) \in Nat
        BY CountTypes
  <2>6. Len(issues') = Cardinality(Accounted') + Cardinality(Unread')
        BY <1>11, <1>14, <2>3, <2>4, <2>5
  <2>7. QED
        BY <1>11, <1>12, <1>14, <2>3, <2>6 DEF IssuesAddUp
<1>16. CASE Open
  <2>1. IsReadable(call.ts) /\ issues' = issues
        BY <1>16 DEF Open, Visit, IsReadable
  <2>2. Unread' = Unread
        BY <1>5, <1>13, <2>1 DEF Unread, Read
  <2>3. QED
        BY <1>11, <1>12, <1>14, <2>1, <2>2 DEF IssuesAddUp
<1>17. QED
       BY <1>15, <1>16

\* The suite itself is visited.
LEMMA SuiteVisited ==
  ASSUME WalkInv, LinesLead, IssuesAddUp, stack = <<>>, Unreadable \/ Open
  PROVE  IssuesAddUp'
<1>1. LinesRead' = {} /\ trace = <<>> /\ Range(trace') = {call.ts}
      BY FirstLines
<1>2. Accounted' = {} /\ IsFiniteSet(Accounted') /\ Cardinality(Accounted') = 0
      BY <1>1, FS_EmptySet DEF Accounted
<1>3. Visit /\ tree' = tree /\ call # NoCall /\ call.ts \in TsFiles
      BY CallFacts DEF Unreadable, Open, Visit, IsNew, WalkInv
<1>4. Len(issues) = 0
      BY <1>1, <1>3 DEF IssuesAddUp
<1>5. trace' # <<>>
  <2>1. \A s : s = <<>> => Range(s) = {}
        BY DEF Range
  <2>2. QED
        BY <1>1, <2>1
<1>6. \A f : IsReadable(f)' <=> IsReadable(f)
      BY <1>3 DEF IsReadable
<1>7. CASE Unreadable
  <2>1. ~IsReadable(call.ts) /\ AddIssue(call.ts, "parse_error")
        BY <1>7 DEF Unreadable, IsReadable
  <2>2. Unread' = {call.ts}
        BY <1>1, <1>6, <2>1 DEF Unread, Read
  <2>3. IsFiniteSet(Unread') /\ Cardinality(Unread') = 1
        BY <2>2, FS_Singleton
  <2>4. Len(issues') = 1
        BY <1>3, <1>4, <2>1, IssueCounts DEF WalkInv, Reasons
  <2>5. QED
        BY <1>2, <1>5, <2>3, <2>4 DEF IssuesAddUp
<1>8. CASE Open
  <2>1. IsReadable(call.ts) /\ issues' = issues
        BY <1>8 DEF Open, Visit, IsReadable
  <2>2. Unread' = {}
        BY <1>1, <1>6, <2>1 DEF Unread, Read
  <2>3. IsFiniteSet(Unread') /\ Cardinality(Unread') = 0
        BY <2>2, FS_EmptySet
  <2>4. QED
        BY <1>2, <1>4, <1>5, <2>1, <2>3 DEF IssuesAddUp
<1>9. QED
      BY <1>7, <1>8

LEMMA RejectAddsUp ==
  ASSUME WalkInv, LinesLead, IssuesAddUp, RejectLine
  PROVE  IssuesAddUp'
<1> DEFINE p == <<Top.ts, Top.at>>
<1>1. /\ TakeLine /\ call' = NoCall /\ UNCHANGED <<tree, trace, timeouts, parent>>
      /\ Problem(Line) # "none" \/ Conflict(Line)
      /\ \E reason \in Reasons : AddIssue(Top.ts, reason)
      BY LineFacts, ProblemTypes DEF RejectLine, TakeLine, visited, found, WalkInv, Reasons
<1>2. /\ p \notin LinesRead /\ LineOf(p) = Line
      /\ \A e : e \in LinesRead' <=> e \in LinesRead \/ e = p
      BY <1>1, LineTaken
<1>3. trace # <<>> /\ Top.ts \in TsFiles
      BY <1>1, SuiteIsRead, TopFacts DEF WalkInv, TakeLine
<1> HIDE DEF p
<1>4. \A e : Wrong(e)' <=> Wrong(e)
  <2>1. \A e : IncludedThrough(e[1])' = IncludedThrough(e[1])
        BY <1>1 DEF IncludedThrough
  <2>2. QED
        BY <1>1, <2>1, WrongStays
<1>5. Wrong(p)
      BY <1>1, <1>2 DEF Wrong, IsWrongLine
<1>6. Len(issues') = Len(issues) + 1
      BY <1>1, <1>3, IssueCounts DEF WalkInv
<1>7. IsFiniteSet(Accounted') /\ Cardinality(Accounted') = Cardinality(Accounted) + 1
      BY <1>2, <1>4, <1>5, AccountedGrows DEF IssuesAddUp
<1>8. QED
      BY <1>1, <1>3, <1>6, <1>7, OneMoreWrong

\* A timeout that a case was given stays.
LEMMA TimeoutsStay ==
  ASSUME WalkInv, AddSql
  PROVE  /\ \A s \in DOMAIN timeouts : s \in DOMAIN timeouts' /\ timeouts'[s] = timeouts[s]
         /\ DOMAIN timeouts' \subseteq SqlFiles
         /\ Line.timeout # 0 => timeouts'[Line.target] = Line.timeout
<1>1. /\ SetTimeout /\ ~Conflict(Line) /\ Line.target \in SqlFiles
      /\ DOMAIN timeouts \subseteq SqlFiles
      BY DEF AddSql, WalkInv, WalkTypes
<1>2. CASE Line.timeout = 0
      BY <1>1, <1>2 DEF SetTimeout
<1>3. CASE Line.timeout # 0
  <2>1. timeouts' = [s \in DOMAIN timeouts \cup {Line.target} |->
                        IF s = Line.target THEN Line.timeout ELSE timeouts[s]]
        BY <1>1, <1>3 DEF SetTimeout
  <2>2. Line.target \in DOMAIN timeouts => Line.timeout = timeouts[Line.target]
        BY <1>1, <1>3 DEF Conflict
  <2>3. QED
        BY <1>1, <2>1, <2>2
<1>4. QED
      BY <1>2, <1>3

LEMMA AddSqlAddsUp ==
  ASSUME WalkInv, LinesLead, IssuesAddUp, AddSql
  PROVE  IssuesAddUp'
<1> DEFINE p == <<Top.ts, Top.at>>
<1>1. /\ TakeLine /\ call' = NoCall /\ UNCHANGED <<tree, trace, parent, issues>>
      /\ Problem(Line) = "none" /\ ~Conflict(Line) /\ Line.target \in SqlFiles
      BY DEF AddSql, TakeLine, visited
<1>2. /\ p \notin LinesRead /\ LineOf(p) = Line
      /\ \A e : e \in LinesRead' <=> e \in LinesRead \/ e = p
      BY <1>1, LineTaken
<1>3. trace # <<>>
      BY <1>1, SuiteIsRead DEF TakeLine
<1> HIDE DEF p
<1>4. /\ \A s \in DOMAIN timeouts : s \in DOMAIN timeouts' /\ timeouts'[s] = timeouts[s]
      /\ DOMAIN timeouts' \subseteq SqlFiles
      /\ Line.timeout # 0 => timeouts'[Line.target] = Line.timeout
      BY TimeoutsStay
<1>5. /\ \A e : LineOf(e)' = LineOf(e)
      /\ \A line : Problem(line)' = Problem(line)
      /\ \A f : IncludedThrough(f)' = IncludedThrough(f)
      BY <1>1 DEF LineOf, Lines, Problem, IncludedThrough
<1>6. ASSUME NEW e \in LinesRead
      PROVE  Wrong(e)' <=> Wrong(e)
  <2>1. Wrong(e)' <=> \/ Problem(LineOf(e)) # "none"
                      \/ LineOf(e).target \in tree.missing
                      \/ LineOf(e).target \in IncludedThrough(e[1])
                      \/ Conflict(LineOf(e))'
        BY <1>1, <1>5 DEF Wrong, IsWrongLine
  <2>2. CASE TimesCase(e)
    <3>1. LineOf(e).target \in DOMAIN timeouts
          BY <2>2 DEF LinesLead
    <3>2. Conflict(LineOf(e))' <=> Conflict(LineOf(e))
          BY <1>4, <1>5, <3>1 DEF Conflict
    <3>3. QED
          BY <2>1, <3>2 DEF Wrong, IsWrongLine
  <2>3. CASE Problem(LineOf(e)) # "none"
        BY <2>1, <2>3 DEF Wrong, IsWrongLine
  <2>4. CASE LineOf(e).timeout = 0 \/ LineOf(e).target \notin SqlFiles
    <3>1. DOMAIN timeouts \subseteq SqlFiles
          BY DEF WalkInv, WalkTypes
    <3>2. ~Conflict(LineOf(e)) /\ ~Conflict(LineOf(e))'
          BY <1>4, <1>5, <2>4, <3>1 DEF Conflict
    <3>3. QED
          BY <2>1, <3>2 DEF Wrong, IsWrongLine
  <2>5. QED
        BY <2>2, <2>3, <2>4 DEF TimesCase
<1>7. ASSUME NEW e, e = p
      PROVE  ~Wrong(e)'
  <2>1. Line.target \notin tree.missing
        BY <1>1 DEF Problem
  <2>2. Line.target \notin IncludedThrough(e[1])
        BY <1>1, FilesAssumption DEF IncludedThrough
  <2>3. LineOf(e) = Line /\ LineOf(e)' = Line
        BY <1>2, <1>5, <1>7
  <2>4. ~Conflict(LineOf(e))'
        BY <1>4, <2>3 DEF Conflict
  <2>5. QED
        BY <1>1, <1>5, <2>1, <2>2, <2>3, <2>4 DEF Wrong, IsWrongLine
<1>8. Accounted' = Accounted
      BY <1>2, <1>6, <1>7, AccountedStays
<1>9. QED
      BY <1>1, <1>3, <1>8, NothingNew

LEMMA ReadingAddsUp ==
  ASSUME WalkInv, IssuesAddUp, IncludeTs \/ Return
  PROVE  IssuesAddUp'
<1>1. UNCHANGED <<tree, trace, timeouts, parent, issues>>
      BY DEF IncludeTs, Return, TakeLine, visited, found
<1>2. trace # <<>>
      BY SuiteIsRead DEF IncludeTs, TakeLine, Return
<1>3. \A e : e \in LinesRead' <=> e \in LinesRead
      BY LineInWork, FileLeft
<1>4. \A e : Wrong(e)' <=> Wrong(e)
  <2>1. \A e : IncludedThrough(e[1])' = IncludedThrough(e[1])
        BY <1>1 DEF IncludedThrough
  <2>2. QED
        BY <1>1, <2>1, WrongStays
<1>5. Accounted' = Accounted
      BY <1>3, <1>4, AccountedStays
<1>6. QED
      BY <1>1, <1>2, <1>5, NothingNew

LEMMA AddsUpStep ==
  ASSUME WalkInv, LinesLead, IssuesAddUp, [Next]_vars
  PROVE  IssuesAddUp'
<1>1. CASE CycleInclude \/ SeenBefore \/ NotFound \/ OutsideRoot
      BY <1>1, RefusedAddsUp, SuiteRefused
<1>2. CASE Unreadable \/ Open
      BY <1>2, VisitAddsUp, SuiteVisited
<1>3. CASE RejectLine
      BY <1>3, RejectAddsUp
<1>4. CASE AddSql
      BY <1>4, AddSqlAddsUp
<1>5. CASE IncludeTs \/ Return
      BY <1>5, ReadingAddsUp
<1>6. CASE UNCHANGED vars
  <2>1. UNCHANGED <<tree, call, stack, trace, parent, sqls, sources, timeouts, issues>>
        BY <1>6 DEF vars
  <2>2. Unread' = Unread
        BY <2>1, UnreadStays
  <2>3. Accounted' = Accounted
        BY <2>1 DEF Accounted, LinesRead, Read, IsReadable, NextLine, Wrong, IsWrongLine,
           LineOf, Lines, Problem, Conflict, IncludedThrough
  <2>4. QED
        BY <2>1, <2>2, <2>3 DEF IssuesAddUp
<1>7. QED
  <2>1. \/ CycleInclude \/ SeenBefore \/ NotFound \/ OutsideRoot \/ Unreadable
        \/ Open \/ RejectLine \/ IncludeTs \/ AddSql \/ Return \/ UNCHANGED vars
        BY DEF Next, EnterTs, ReadTs
  <2>2. QED
        BY <1>1, <1>2, <1>3, <1>4, <1>5, <1>6, <2>1, Zenon

LEMMA AddsUpInit ==
  ASSUME Init
  PROVE  IssuesAddUp
<1>1. trace = <<>> /\ issues = <<>> /\ (call = NoCall => tree.root \notin TsFiles)
      BY FilesAssumption DEF Init, NoCall
<1>2. Accounted = {} /\ Unread = {}
      BY <1>1, NothingRead
<1>3. IsFiniteSet(Accounted) /\ IsFiniteSet(Unread) /\ Len(issues) = 0
      BY <1>1, <1>2, FS_EmptySet
<1>4. QED
      BY <1>1, <1>3 DEF IssuesAddUp

\* When the walk is over, every line of every file has been read.
LEMMA AllIsAccounted ==
  ASSUME WalkInv, IssuesAddUp
  PROVE  NothingDroppedSilently
<1>1. SUFFICES ASSUME Parsed
               PROVE  IF trace = <<>> THEN Len(issues) = 1
                      ELSE Len(issues) = Cardinality(UNION {{f} \X WrongLines(f) : f \in Read})
                                       + Cardinality(Range(trace) \ Read)
      BY DEF NothingDroppedSilently
<1>2. call = NoCall /\ stack = <<>> /\ tree.root \in TsFiles
      BY <1>1 DEF Parsed, Finished
<1>3. \A f \in Read : \A n \in DOMAIN Lines(f) : n \in Nat
  <2>1. Read \subseteq TsFiles
        BY DEF Read, Range, WalkInv, WalkTypes
  <2>2. \A f \in Read : Lines(f) \in Seq(LineType)
        BY <2>1, FileLines DEF WalkInv
  <2>3. QED
        BY <2>2
<1>4. \A e : e \in LinesRead <=> e \in Read \X Nat /\ e[2] \in DOMAIN Lines(e[1])
      BY <1>2 DEF LinesRead
<1>5. \A e : e \in Accounted <=> e \in Read \X Nat /\ e[2] \in WrongLines(e[1])
      BY <1>4 DEF Accounted, Wrong, LineOf, WrongLines
<1>6. \A f \in Read : \A n \in WrongLines(f) : n \in Nat
      BY <1>3 DEF WrongLines
<1>7. Accounted = UNION {{f} \X WrongLines(f) : f \in Read}
  <2>1. ASSUME NEW e \in Accounted
        PROVE  e \in UNION {{f} \X WrongLines(f) : f \in Read}
    <3>1. e[1] \in Read /\ e \in {e[1]} \X WrongLines(e[1])
          BY <1>5
    <3>2. QED
          BY <3>1
  <2>2. ASSUME NEW f \in Read, NEW e \in {f} \X WrongLines(f)
        PROVE  e \in Accounted
    <3>1. e = <<e[1], e[2]>> /\ e[1] = f /\ e[2] \in WrongLines(f) /\ e[2] \in Nat
          BY <1>6
    <3>2. QED
          BY <1>5, <3>1
  <2>3. QED
        BY <2>1, <2>2
<1>8. QED
      BY <1>2, <1>7 DEF IssuesAddUp, Unread

\* Whatever the files of a suite say and include, each wrong line is reported
\* once, and so is each file that cannot be read (the issues of parse_suite).
THEOREM WrongLinesAreReported ==
  PlansSpec => []NothingDroppedSilently
<1>1. Init => LinesLead /\ IssuesAddUp
      BY LinesLeadInit, AddsUpInit
<1>2. WalkInv /\ LinesLead /\ IssuesAddUp /\ [Next]_vars => LinesLead' /\ IssuesAddUp'
      BY LinesLeadStep, AddsUpStep
<1>3. Spec => [](LinesLead /\ IssuesAddUp)
      BY <1>1, <1>2, WalkInvariance, PTL DEF Spec
<1>4. WalkInv /\ IssuesAddUp => NothingDroppedSilently
      BY AllIsAccounted
<1>5. QED
      BY <1>3, <1>4, WalkUnderPlans, WalkInvariance, PTL

(***************************************************************************)
(* The cases.  Here is the way to the line that the walk is at; a mention  *)
(* is behind the walk if it is above that line in the expanded suite.      *)
(* Where a file is included again that was read before, the walk steps     *)
(* over all its mentions at once.                                          *)
(***************************************************************************)
AtLine(i) == IF i < Len(stack) \/ call # NoCall THEN stack[i].at - 1 ELSE stack[i].at

Here == [i \in DOMAIN stack |-> <<stack[i].ts, AtLine(i)>>]

Behind(m) == IF stack = <<>> THEN trace # <<>> ELSE Before(m, Here)

\* The i-th open file has just read the line that includes the next.
LeadsOn(i) ==
    /\ stack[i].at - 1 \in DOMAIN Lines(stack[i].ts)
    /\ Lines(stack[i].ts)[stack[i].at - 1].target = stack[i + 1].ts
    /\ Problem(Lines(stack[i].ts)[stack[i].at - 1]) = "none"

\* The open files are the suite and what each includes.
StackLeads ==
    /\ stack # <<>> => stack[1].ts = tree.root
    /\ call # NoCall /\ stack = <<>> => call.ts = tree.root
    /\ \A i \in DOMAIN stack : i + 1 \in DOMAIN stack => LeadsOn(i)
    /\ tree.root \in TsFiles /\ call = NoCall /\ trace = <<>> => ~IsReadable(tree.root)
    /\ trace # <<>> => tree.root \in Range(trace)

\* What the lines that were read name is known.
IsCovered(line) ==
    /\ line.target \in SqlFiles => line.target \in Range(sqls)
    /\ line.target \in TsFiles /\ IsReadable(line.target) => line.target \in Range(trace)

LinesCovered ==
    /\ DOMAIN timeouts \subseteq Range(sqls)
    /\ \A e \in LinesRead : Problem(LineOf(e)) = "none" => IsCovered(LineOf(e))

IsTimed(m) == Said(m).timeout # 0

\* The cases and timeouts are those of the mentions behind the walk.
CasesFound ==
    /\ \A m \in Mentions : Behind(m) => Said(m).target \in Range(sqls)
    /\ \A i \in DOMAIN sqls : \E m \in Mentions : Behind(m) /\ Said(m).target = sqls[i]
    /\ \A j \in DOMAIN sqls : \A i \in 1..(j - 1) :
          /\ sqls[i] # sqls[j]
          /\ \A o \in Mentions : Behind(o) /\ Said(o).target = sqls[j] =>
                \E m \in Mentions : Said(m).target = sqls[i] /\ Before(m, o)

TimeoutsFound ==
    /\ \A m \in Mentions : Behind(m) /\ IsTimed(m) => Said(m).target \in DOMAIN timeouts
    /\ \A s \in DOMAIN timeouts : \E m \in Mentions :
          /\ Behind(m) /\ IsTimed(m)
          /\ Said(m).target = s /\ Said(m).timeout = timeouts[s]
          /\ \A o \in Mentions :
                Behind(o) /\ IsTimed(o) /\ Said(o).target = s => o = m \/ Before(m, o)

LEMMA LinesOfSuite ==
  ASSUME WalkTypes, NEW e \in AllLines
  PROVE  /\ e = <<e[1], e[2]>> /\ e[1] \in TsFiles /\ e[2] \in DOMAIN Lines(e[1])
         /\ e[2] \in Nat \ {0} /\ e[2] <= Len(Lines(e[1])) /\ LineOf(e) \in LineType
<1>1. e = <<e[1], e[2]>> /\ e[1] \in TsFiles /\ e[2] \in DOMAIN Lines(e[1])
      BY DEF AllLines
<1>2. Lines(e[1]) \in Seq(LineType)
      BY <1>1, FileLines
<1>3. QED
      BY <1>1, <1>2 DEF LineOf

LEMMA MentionFacts ==
  ASSUME WalkTypes, NEW m \in Mentions
  PROVE  /\ Len(m) \in Nat \ {0} /\ DOMAIN m = 1..Len(m) /\ Len(m) \in DOMAIN m
         /\ \A i \in DOMAIN m : m[i] \in AllLines
         /\ m[1][1] = tree.root
         /\ \A i \in DOMAIN m : IsReadable(m[i][1]) /\ Problem(LineOf(m[i])) = "none"
         /\ \A i, j \in DOMAIN m : m[i][1] = m[j][1] => i = j
         /\ \A i \in DOMAIN m : i # Len(m) =>
               i + 1 \in DOMAIN m /\ LineOf(m[i]).target = m[i + 1][1]
         /\ Said(m).target \in SqlFiles
<1>1. PICK n \in 1..Cardinality(TsFiles) : m \in [1..n -> AllLines]
      BY DEF Mentions
<1>2. Cardinality(TsFiles) \in Nat
      BY FiniteAssumption, FS_CardinalityType
<1>3. n \in Nat \ {0}
      BY <1>2
<1>4. Len(m) = n /\ DOMAIN m = 1..n
      BY <1>1, <1>3, SeqDef, LenProperties
<1>5. IsMention(m)
      BY DEF Mentions
<1>6. \A i \in 1..n : i # n => i \in 1..(n - 1) /\ i + 1 \in 1..n
      BY <1>3
<1>7. QED
      BY <1>1, <1>3, <1>4, <1>5, <1>6 DEF IsMention, Said

\* A sound line of a mention that includes a file is followed by one of that
\* file.
LEMMA MentionGoesOn ==
  ASSUME WalkTypes, NEW m \in Mentions, NEW i \in DOMAIN m,
         LineOf(m[i]).target \in TsFiles
  PROVE  /\ i + 1 \in DOMAIN m /\ m[i + 1][1] = LineOf(m[i]).target
         /\ IsReadable(LineOf(m[i]).target) /\ m[i + 1] \in AllLines
<1>1. i # Len(m)
      BY MentionFacts, FilesAssumption DEF Said
<1>2. QED
      BY <1>1, MentionFacts

LEMMA MentionEnds ==
  ASSUME WalkTypes, NEW m \in Mentions, NEW i \in DOMAIN m,
         LineOf(m[i]).target \in SqlFiles
  PROVE  i = Len(m)
<1>1. ASSUME i # Len(m)
      PROVE  FALSE
  <2>1. i + 1 \in DOMAIN m /\ LineOf(m[i]).target = m[i + 1][1] /\ m[i + 1] \in AllLines
        BY <1>1, MentionFacts
  <2>2. m[i + 1][1] \in TsFiles
        BY <2>1, LinesOfSuite
  <2>3. QED
        BY <2>1, <2>2, FilesAssumption
<1>2. QED
      BY <1>1

LEMMA TreeSame ==
  ASSUME tree' = tree
  PROVE  /\ Mentions' = Mentions
         /\ \A m : Said(m)' = Said(m) /\ (IsTimed(m)' <=> IsTimed(m))
         /\ \A e : LineOf(e)' = LineOf(e)
         /\ \A f : Lines(f)' = Lines(f) /\ (IsReadable(f)' <=> IsReadable(f))
         /\ \A line : Problem(line)' = Problem(line)
<1>1. \A f : Lines(f)' = Lines(f) /\ (IsReadable(f)' <=> IsReadable(f))
      BY DEF Lines, IsReadable
<1>2. \A line : Problem(line)' = Problem(line)
      BY DEF Problem
<1>3. \A e : LineOf(e)' = LineOf(e)
      BY <1>1 DEF LineOf
<1>4. \A m : Said(m)' = Said(m) /\ (IsTimed(m)' <=> IsTimed(m))
      BY <1>3 DEF Said, IsTimed
<1>5. \A m : IsMention(m)' <=> IsMention(m)
      BY <1>1, <1>2, <1>3 DEF IsMention
<1>6. AllLines' = AllLines
      BY <1>1 DEF AllLines
<1>7. Mentions' = Mentions
      BY <1>5, <1>6 DEF Mentions
<1>8. QED
      BY <1>1, <1>2, <1>3, <1>4, <1>7

(***************************************************************************)
(* How the mentions behind the walk change.                                *)
(***************************************************************************)
\* The mention goes through the line the walk is at.
Through(m) == \A i \in DOMAIN stack : i \in DOMAIN m /\ m[i] = Here[i]

LEMMA HereFacts ==
  ASSUME WalkTypes
  PROVE  /\ DOMAIN Here = DOMAIN stack /\ DOMAIN stack = 1..Len(stack) /\ Len(stack) \in Nat
         /\ \A i \in DOMAIN stack :
               /\ Here[i] = <<stack[i].ts, AtLine(i)>> /\ Here[i][1] = stack[i].ts
               /\ Here[i][2] = AtLine(i) /\ AtLine(i) \in Nat /\ stack[i].ts \in TsFiles
<1>1. \A i \in DOMAIN stack : stack[i] \in Frames
      BY DEF WalkTypes
<1>2. \A i \in DOMAIN stack : stack[i].ts \in TsFiles /\ stack[i].at \in Nat \ {0}
      BY <1>1 DEF Frames
<1>3. \A i \in DOMAIN stack : AtLine(i) \in Nat
      BY <1>2 DEF AtLine
<1>4. DOMAIN stack = 1..Len(stack) /\ Len(stack) \in Nat
      BY DEF WalkTypes
<1>5. QED
      BY <1>2, <1>3, <1>4 DEF Here

LEMMA BehindAfter ==
  ASSUME WalkTypes, stack # <<>>, NEW u, Behind(u), NEW m, Through(m)
  PROVE  Before(u, m)
<1>1. PICK i \in DOMAIN u \cap DOMAIN Here :
         u[i][2] < Here[i][2] /\ \A j \in 1..(i - 1) : u[j] = Here[j]
      BY DEF Behind, Before
<1>2. DOMAIN Here = DOMAIN stack /\ DOMAIN stack = 1..Len(stack) /\ Len(stack) \in Nat
      BY HereFacts
<1>3. i \in DOMAIN stack /\ \A j \in 1..(i - 1) : j \in DOMAIN stack
      BY <1>1, <1>2
<1>4. QED
      BY <1>1, <1>3 DEF Before, Through

\* A mention that goes with the walk is at the k-th open file in its k-th line.
LEMMA MentionInFile ==
  ASSUME WalkTypes, StackLeads, NEW m \in Mentions, NEW k \in DOMAIN stack, k \in DOMAIN m,
         \A j \in 1..(k - 1) : m[j] = Here[j]
  PROVE  m[k][1] = stack[k].ts
<1>1. stack # <<>> /\ DOMAIN stack = 1..Len(stack) /\ Len(stack) \in Nat /\ DOMAIN m = 1..Len(m)
      /\ Len(m) \in Nat
      BY HereFacts, MentionFacts
<1>2. CASE k = 1
      BY <1>1, <1>2, MentionFacts DEF StackLeads
<1>3. CASE k # 1
  <2> DEFINE i == k - 1
  <2>1. /\ i \in DOMAIN stack /\ i + 1 = k /\ i \in DOMAIN m /\ i \in 1..(k - 1) /\ i < Len(stack)
        BY <1>1, <1>3
  <2> HIDE DEF i
  <2>2. m[i] = <<stack[i].ts, stack[i].at - 1>>
        BY <2>1, HereFacts DEF AtLine
  <2>3. LineOf(m[i]).target = stack[k].ts
        BY <2>1, <2>2 DEF StackLeads, LeadsOn, LineOf
  <2>4. stack[k].ts \in TsFiles
        BY HereFacts
  <2>5. QED
        BY <2>1, <2>3, <2>4, MentionGoesOn
<1>4. QED
      BY <1>2, <1>3

\* Where the walk goes on by one line of the innermost file, it leaves behind
\* the mentions through the line it was at.
LEMMA LineMoves ==
  ASSUME WalkTypes, StackLeads, stack # <<>>, stack' # <<>>, DOMAIN Here' = DOMAIN Here,
         \A i \in DOMAIN stack : i # Len(stack) => Here'[i] = Here[i],
         Here'[Len(stack)][2] = Here[Len(stack)][2] + 1,
         NEW m \in Mentions
  PROVE  /\ Behind(m) => Behind(m)'
         /\ Behind(m)' /\ ~Behind(m) => Through(m)
<1> DEFINE n == Len(stack)
<1>1. /\ DOMAIN Here = 1..n /\ DOMAIN stack = 1..n /\ n \in Nat \ {0}
      /\ \A i \in DOMAIN stack : Here[i][2] \in Nat /\ Here[i] = <<stack[i].ts, Here[i][2]>>
      BY HereFacts, TopFacts
<1>2. Behind(m) <=> \E i \in DOMAIN m \cap DOMAIN Here :
                       m[i][2] < Here[i][2] /\ \A j \in 1..(i - 1) : m[j] = Here[j]
      BY DEF Behind, Before
<1>3. Behind(m)' <=> \E i \in DOMAIN m \cap DOMAIN Here :
                       m[i][2] < Here'[i][2] /\ \A j \in 1..(i - 1) : m[j] = Here'[j]
      BY DEF Behind, Before
<1>4. \A i \in DOMAIN m : m[i] = <<m[i][1], m[i][2]>> /\ m[i][2] \in Nat
  <2>1. \A i \in DOMAIN m : m[i] \in AllLines
        BY MentionFacts
  <2>2. QED
        BY <2>1, LinesOfSuite
<1>5. DOMAIN m = 1..Len(m) /\ Len(m) \in Nat
      BY MentionFacts
<1> HIDE DEF n
<1>6. \A i \in DOMAIN Here : i # n => Here'[i] = Here[i]
  <2>1. DOMAIN Here = DOMAIN stack
        BY HereFacts
  <2>2. QED
        BY <2>1, Zenon DEF n
<1>7. \A i \in DOMAIN Here : \A j \in 1..(i - 1) :
         j \in DOMAIN Here /\ Here'[j] = Here[j]
  <2>1. \A i \in 1..n : \A j \in 1..(i - 1) : j \in 1..n /\ j # n
        BY <1>1
  <2>2. QED
        BY <1>1, <1>6, <2>1
<1>8. Here'[n][2] = Here[n][2] + 1
      BY DEF n
<1>9. Behind(m) => Behind(m)'
  <2>1. SUFFICES ASSUME NEW i \in DOMAIN m \cap DOMAIN Here, m[i][2] < Here[i][2],
                        \A j \in 1..(i - 1) : m[j] = Here[j]
                 PROVE  Behind(m)'
        BY <1>2
  <2>2. m[i][2] < Here'[i][2]
        BY <1>1, <1>4, <1>6, <1>8, <2>1
  <2>3. \A j \in 1..(i - 1) : m[j] = Here'[j]
        BY <1>7, <2>1
  <2>4. QED
        BY <1>3, <2>2, <2>3
<1>10. ASSUME Behind(m)', ~Behind(m)
       PROVE  Through(m)
  <2>1. PICK i \in DOMAIN m \cap DOMAIN Here :
           m[i][2] < Here'[i][2] /\ \A j \in 1..(i - 1) : m[j] = Here'[j]
        BY <1>3, <1>10
  <2>2. \A j \in 1..(i - 1) : m[j] = Here[j]
        BY <1>7, <2>1
  <2>3. ~(m[i][2] < Here[i][2])
        BY <1>2, <1>10, <2>2
  <2>4. i = n
        BY <1>6, <2>1, <2>3
  <2>5. m[n][2] = Here[n][2]
        BY <1>1, <1>4, <1>8, <2>1, <2>3, <2>4
  <2>6. m[n][1] = stack[n].ts
        BY <1>1, <2>1, <2>2, <2>4, MentionInFile
  <2>7. m[n] = Here[n]
        BY <1>1, <1>4, <2>1, <2>4, <2>5, <2>6
  <2>8. \A j \in 1..n : j = n \/ j \in 1..(n - 1)
        BY <1>1
  <2>9. \A j \in 1..n : j \in DOMAIN m /\ m[j] = Here[j]
    <3>1. n <= Len(m)
          BY <1>5, <2>1, <2>4
    <3>2. \A j \in 1..n : j \in DOMAIN m
          BY <1>1, <1>5, <3>1
    <3>3. QED
          BY <2>2, <2>4, <2>7, <2>8, <3>2
  <2>10. QED
         BY <1>1, <2>9 DEF Through
<1>11. QED
       BY <1>9, <1>10

LEMMA CallMoves ==
  ASSUME WalkTypes, StackLeads, stack # <<>>, call # NoCall, call' = NoCall, stack' = stack,
         NEW m \in Mentions
  PROVE  /\ Behind(m) => Behind(m)'
         /\ Behind(m)' /\ ~Behind(m) => Through(m)
<1>1. DOMAIN Here = DOMAIN stack /\ DOMAIN Here' = DOMAIN stack
      BY DEF Here
<1>2. Len(stack) \in Nat \ {0} /\ Len(stack) \in DOMAIN stack /\ DOMAIN stack = 1..Len(stack)
      BY TopFacts
<1>3. \A i \in DOMAIN stack : Here[i] = <<stack[i].ts, stack[i].at - 1>>
      BY <1>2 DEF Here, AtLine
<1>4. \A i \in DOMAIN stack :
         Here'[i] = <<stack[i].ts, IF i < Len(stack) THEN stack[i].at - 1 ELSE stack[i].at>>
      BY DEF Here, AtLine
<1>5. \A i \in DOMAIN stack : i # Len(stack) => Here'[i] = Here[i]
      BY <1>2, <1>3, <1>4
<1>6. Here'[Len(stack)][2] = Here[Len(stack)][2] + 1
  <2>1. stack[Len(stack)].at \in Nat
        BY TopFacts
  <2>2. QED
        BY <1>2, <1>3, <1>4, <2>1
<1>7. QED
      BY <1>1, <1>5, <1>6, LineMoves

\* The stack as TakeLine leaves it.
LEMMA TakenStack ==
  ASSUME WalkTypes, TakeLine
  PROVE  /\ stack # <<>> /\ stack' # <<>> /\ call = NoCall
         /\ DOMAIN stack' = DOMAIN stack /\ Len(stack') = Len(stack)
         /\ Len(stack) \in Nat \ {0} /\ Len(stack) \in DOMAIN stack /\ DOMAIN stack = 1..Len(stack)
         /\ \A i \in DOMAIN stack : i # Len(stack) => stack'[i] = stack[i]
         /\ \A i \in DOMAIN stack : stack'[i].ts = stack[i].ts
         /\ stack'[Len(stack)].at = stack[Len(stack)].at + 1
         /\ stack[Len(stack)].at \in Nat \ {0} /\ Top = stack[Len(stack)]
         /\ Top.at \in DOMAIN Lines(Top.ts)
<1> DEFINE n == Len(stack)
<1>1. /\ stack' # <<>> /\ DOMAIN stack' = DOMAIN stack /\ Len(stack') = n
      /\ \A i \in DOMAIN stack : stack'[i].ts = stack[i].ts
      BY LineFacts
<1>2. /\ n \in Nat \ {0} /\ n \in DOMAIN stack /\ DOMAIN stack = 1..n /\ Top = stack[n]
      /\ Top \in Frames /\ Top.at \in Nat \ {0} /\ Lines(Top.ts) \in Seq(LineType)
      BY TopFacts DEF TakeLine
<1>3. /\ stack' = [stack EXCEPT ![n] = [stack[n] EXCEPT !.at = stack[n].at + 1]]
      /\ stack # <<>> /\ call = NoCall /\ Top.at <= Len(Lines(Top.ts))
      BY DEF TakeLine
<1>4. Top.at \in DOMAIN Lines(Top.ts)
      BY <1>2, <1>3
<1>5. stack'[n].at = stack[n].at + 1
      BY <1>2, <1>3 DEF Frames
<1>6. \A i \in DOMAIN stack : i # n => stack'[i] = stack[i]
      BY <1>3
<1> HIDE DEF n
<1>7. QED
      BY <1>1, <1>2, <1>3, <1>4, <1>5, <1>6 DEF n

LEMMA TakeMoves ==
  ASSUME WalkTypes, StackLeads, TakeLine, call' = NoCall, NEW m \in Mentions
  PROVE  /\ Behind(m) => Behind(m)'
         /\ Behind(m)' /\ ~Behind(m) => Through(m)
<1>1. /\ stack # <<>> /\ stack' # <<>> /\ call = NoCall
      /\ DOMAIN stack' = DOMAIN stack /\ Len(stack') = Len(stack)
      /\ Len(stack) \in Nat \ {0} /\ Len(stack) \in DOMAIN stack /\ DOMAIN stack = 1..Len(stack)
      /\ \A i \in DOMAIN stack : i # Len(stack) => stack'[i] = stack[i]
      /\ stack'[Len(stack)].at = stack[Len(stack)].at + 1
      BY TakenStack
<1>2. DOMAIN Here = DOMAIN stack /\ DOMAIN Here' = DOMAIN stack
      BY <1>1 DEF Here
<1>3. \A i \in DOMAIN stack :
         Here[i] = <<stack[i].ts, IF i < Len(stack) THEN stack[i].at - 1 ELSE stack[i].at>>
      BY <1>1 DEF Here, AtLine
<1>4. \A i \in DOMAIN stack :
         Here'[i] = <<stack'[i].ts, IF i < Len(stack) THEN stack'[i].at - 1 ELSE stack'[i].at>>
      BY <1>1 DEF Here, AtLine
<1>5. \A i \in DOMAIN stack : i # Len(stack) => Here'[i] = Here[i]
      BY <1>1, <1>3, <1>4
<1>6. Here'[Len(stack)][2] = Here[Len(stack)][2] + 1
      BY <1>1, <1>3, <1>4
<1>7. QED
      BY <1>1, <1>2, <1>5, <1>6, LineMoves

\* The line of an include stays the one the walk is at.
LEMMA IncludeStays ==
  ASSUME WalkTypes, IncludeTs
  PROVE  Here' = Here /\ \A m : Behind(m)' <=> Behind(m)
<1>1. TakeLine /\ call' # NoCall
      BY FilesAssumption DEF IncludeTs, NoCall
<1>2. /\ stack # <<>> /\ stack' # <<>> /\ call = NoCall
      /\ DOMAIN stack' = DOMAIN stack /\ Len(stack') = Len(stack)
      /\ Len(stack) \in Nat \ {0} /\ Len(stack) \in DOMAIN stack /\ DOMAIN stack = 1..Len(stack)
      /\ \A i \in DOMAIN stack : i # Len(stack) => stack'[i] = stack[i]
      /\ \A i \in DOMAIN stack : stack'[i].ts = stack[i].ts
      /\ stack'[Len(stack)].at = stack[Len(stack)].at + 1
      /\ stack[Len(stack)].at \in Nat
      BY <1>1, TakenStack
<1>3. \A i \in DOMAIN stack :
         Here[i] = <<stack[i].ts, IF i < Len(stack) THEN stack[i].at - 1 ELSE stack[i].at>>
      BY <1>2 DEF Here, AtLine
<1>4. \A i \in DOMAIN stack : Here'[i] = <<stack'[i].ts, stack'[i].at - 1>>
      BY <1>1, <1>2 DEF Here, AtLine
<1>5. \A i \in DOMAIN stack : Here'[i] = Here[i]
  <2>1. ASSUME NEW i \in DOMAIN stack
        PROVE  Here'[i] = Here[i]
    <3>1. Here'[i] = <<stack'[i].ts, stack'[i].at - 1>>
          BY <1>4
    <3>2. CASE i = Len(stack)
      <4>1. ~(i < Len(stack)) /\ stack'[i].at - 1 = stack[i].at
            BY <1>2, <3>2
      <4>2. QED
            BY <1>2, <1>3, <3>1, <4>1
    <3>3. CASE i # Len(stack)
      <4>1. i < Len(stack) /\ stack'[i] = stack[i]
            BY <1>2, <3>3
      <4>2. QED
            BY <1>3, <3>1, <4>1
    <3>4. QED
          BY <3>2, <3>3
  <2>2. QED
        BY <2>1
<1>6. Here' = Here
      BY <1>2, <1>5 DEF Here
<1>7. QED
      BY <1>2, <1>6 DEF Behind

\* No line of the file that was opened is behind the walk.
LEMMA OpenStays ==
  ASSUME WalkInv, Open, NEW m \in Mentions, stack # <<>>
  PROVE  Behind(m)' <=> Behind(m)
<1> DEFINE n == Len(stack)
           frame == [ts |-> call.ts, at |-> 1]
<1>1. /\ stack' = Append(stack, frame) /\ stack \in Seq(Frames)
      /\ call # NoCall /\ call' = NoCall /\ frame \in Frames
      BY VisitFacts DEF Open, WalkInv, WalkTypes, Frames, Visit
<1>2. /\ DOMAIN stack' = DOMAIN stack \cup {n + 1} /\ Len(stack') = n + 1
      /\ DOMAIN stack = 1..n /\ n \in Nat /\ n + 1 \notin DOMAIN stack
      /\ \A i \in DOMAIN stack : stack'[i] = stack[i]
      /\ stack'[n + 1] = frame
      BY <1>1, Appended
<1>3. stack' # <<>>
  <2>1. n + 1 \in DOMAIN stack'
        BY <1>2
  <2>2. QED
        BY <2>1
<1> HIDE DEF n
<1>4. \A i \in DOMAIN stack : AtLine(i) = stack[i].at - 1
      BY <1>1 DEF AtLine
<1>5. \A i \in DOMAIN stack : i < n + 1
      BY <1>2
<1>6. \A i \in DOMAIN stack' : AtLine(i)' = IF i < n + 1 THEN stack'[i].at - 1 ELSE stack'[i].at
      BY <1>1, <1>2 DEF AtLine
<1>7. \A i \in DOMAIN stack : Here'[i] = Here[i]
      BY <1>2, <1>4, <1>5, <1>6 DEF Here
<1>8. Here'[n + 1][2] = 1
  <2>1. n + 1 \in DOMAIN stack' /\ ~(n + 1 < n + 1) /\ stack'[n + 1].at = 1
        BY <1>2
  <2>2. QED
        BY <1>6, <2>1 DEF Here
<1>9. DOMAIN Here = DOMAIN stack /\ DOMAIN Here' = DOMAIN stack \cup {n + 1}
      BY <1>2 DEF Here
<1>10. \A i \in DOMAIN m : ~(m[i][2] < 1)
  <2>1. \A i \in DOMAIN m : m[i] \in AllLines
        BY MentionFacts DEF WalkInv
  <2>2. \A i \in DOMAIN m : m[i][2] \in Nat \ {0}
        BY <2>1, LinesOfSuite DEF WalkInv
  <2>3. QED
        BY <2>2
<1>11. \A i \in DOMAIN stack : \A j \in 1..(i - 1) : j \in DOMAIN stack
       BY <1>2
<1>12. Behind(m) <=> \E i \in DOMAIN m \cap DOMAIN stack :
                        m[i][2] < Here[i][2] /\ \A j \in 1..(i - 1) : m[j] = Here[j]
       BY <1>9 DEF Behind, Before
<1>13. Behind(m)' <=> \E i \in DOMAIN m \cap (DOMAIN stack \cup {n + 1}) :
                        m[i][2] < Here'[i][2] /\ \A j \in 1..(i - 1) : m[j] = Here'[j]
       BY <1>3, <1>9 DEF Behind, Before
<1>14. Behind(m) => Behind(m)'
       BY <1>7, <1>11, <1>12, <1>13
<1>15. Behind(m)' => Behind(m)
       BY <1>7, <1>8, <1>10, <1>11, <1>12, <1>13
<1>16. QED
       BY <1>14, <1>15

LEMMA SuiteOpens ==
  ASSUME WalkInv, Open, NEW m \in Mentions, stack = <<>>
  PROVE  ~Behind(m)'
<1>1. stack' = <<[ts |-> call.ts, at |-> 1]>> /\ call' = NoCall
      BY DEF Open, Visit
<1>2. DOMAIN stack' = {1} /\ Len(stack') = 1 /\ stack' # <<>> /\ stack'[1].at = 1
      BY <1>1
<1>3. AtLine(1)' = 1
      BY <1>1, <1>2 DEF AtLine
<1>4. DOMAIN Here' = {1} /\ Here'[1][2] = 1
      BY <1>2, <1>3 DEF Here
<1>5. 1 \in DOMAIN m => m[1][2] \in Nat \ {0}
  <2>1. 1 \in DOMAIN m => m[1] \in AllLines
        BY MentionFacts DEF WalkInv
  <2>2. QED
        BY <2>1, LinesOfSuite DEF WalkInv
<1>6. Behind(m)' => \E i \in DOMAIN m \cap {1} : m[i][2] < Here'[i][2]
      BY <1>2, <1>4 DEF Behind, Before
<1>7. QED
      BY <1>4, <1>5, <1>6

\* All mentions through a file that the walk leaves are behind it already.
LEMMA ReturnStays ==
  ASSUME WalkInv, StackLeads, Return, NEW m \in Mentions
  PROVE  Behind(m)' <=> Behind(m)
<1> DEFINE n == Len(stack)
<1>1. /\ stack' = SubSeq(stack, 1, Len(stack) - 1) /\ stack # <<>> /\ stack \in Seq(Frames)
      /\ call = NoCall /\ call' = NoCall /\ trace' = trace /\ WalkTypes
      BY DEF Return, WalkInv, WalkTypes, visited
<1>2. /\ DOMAIN stack' = 1..(n - 1) /\ Len(stack') = n - 1 /\ DOMAIN stack = 1..n
      /\ n \in Nat \ {0} /\ n \in DOMAIN stack /\ Top = stack[n]
      /\ \A i \in DOMAIN stack' : stack'[i] = stack[i]
      BY <1>1, Popped, TopFacts
<1>3. /\ Top.ts \in TsFiles /\ Top.at \in Nat /\ Lines(Top.ts) \in Seq(LineType)
      /\ Top.at > Len(Lines(Top.ts))
      BY <1>1, TopFacts DEF Return
<1>4. /\ DOMAIN Here = DOMAIN stack /\ DOMAIN Here' = DOMAIN stack'
      /\ \A i \in DOMAIN stack : Here[i] = <<stack[i].ts, AtLine(i)>> /\ AtLine(i) \in Nat
      BY <1>1, HereFacts DEF Here
<1>5. \A i \in DOMAIN m : m[i] = <<m[i][1], m[i][2]>> /\ m[i] \in AllLines /\ m[i][2] \in Nat
                          /\ m[i][1] \in TsFiles /\ m[i][2] <= Len(Lines(m[i][1]))
  <2>1. \A i \in DOMAIN m : m[i] \in AllLines
        BY <1>1, MentionFacts
  <2>2. QED
        BY <1>1, <2>1, LinesOfSuite
<1>6. \A i \in DOMAIN stack : AtLine(i) = IF i < n THEN stack[i].at - 1 ELSE stack[i].at
      BY <1>1 DEF AtLine
<1>7. \A i \in DOMAIN stack' : AtLine(i)' = IF i < n - 1 THEN stack[i].at - 1 ELSE stack[i].at
      BY <1>1, <1>2 DEF AtLine
<1>8. Behind(m) <=> \E i \in DOMAIN m \cap DOMAIN stack :
                       m[i][2] < Here[i][2] /\ \A j \in 1..(i - 1) : m[j] = Here[j]
      BY <1>1, <1>4 DEF Behind, Before
<1> HIDE DEF n
\* Where the mention gets to the file, it is behind.
<1>9. ASSUME n \in DOMAIN m, \A j \in 1..(n - 1) : m[j] = Here[j]
      PROVE  Behind(m)
  <2>1. m[n][1] = Top.ts
        BY <1>1, <1>2, <1>9, MentionInFile
  <2>2. m[n][2] <= Len(Lines(Top.ts)) /\ m[n][2] \in Nat
        BY <1>5, <1>9, <2>1
  <2>3. Len(Lines(Top.ts)) \in Nat
        BY <1>3
  <2>4. Here[n][2] = Top.at
        BY <1>2, <1>4, <1>6
  <2>5. m[n][2] < Here[n][2]
        BY <1>3, <2>2, <2>3, <2>4
  <2>6. QED
        BY <1>2, <1>8, <1>9, <2>5
<1>10. CASE n = 1
  <2>1. 1 \in DOMAIN m /\ \A j \in 1..(1 - 1) : m[j] = Here[j]
        BY <1>1, MentionFacts
  <2>2. Behind(m)
        BY <1>9, <1>10, <2>1
  <2>3. stack' = <<>>
        BY <1>1, <1>2, <1>10, EmptySeq
  <2>4. trace # <<>>
        BY <1>1, SuiteIsRead
  <2>5. QED
        BY <1>1, <2>2, <2>3, <2>4 DEF Behind
<1>11. CASE n # 1
  <2> DEFINE k == n - 1
  <2>1. k \in Nat \ {0} /\ k + 1 = n /\ k < n /\ DOMAIN stack' = 1..k /\ DOMAIN stack = 1..n
        BY <1>2, <1>11
  <2>2. stack' # <<>>
        BY <2>1
  <2>3. \A i \in DOMAIN stack' : AtLine(i)' = IF i < k THEN stack[i].at - 1 ELSE stack[i].at
        BY <1>7
  <2> HIDE DEF k
  <2>4. /\ \A i \in DOMAIN stack' : i # k => Here'[i] = Here[i]
        /\ Here'[k][2] = stack[k].at /\ Here[k] = <<stack[k].ts, stack[k].at - 1>>
    <3>1. \A i \in 1..k : i # k => i < k /\ i < n
          BY <1>2, <2>1
    <3>2. \A i \in 1..k : i \in DOMAIN stack /\ stack'[i] = stack[i]
          BY <1>2, <2>1
    <3>3. \A i \in DOMAIN stack' : Here'[i] = <<stack'[i].ts, AtLine(i)'>>
          BY DEF Here
    <3>4. k \in 1..k /\ ~(k < k)
          BY <2>1
    <3>5. \A i \in DOMAIN stack' : i # k => Here'[i] = Here[i]
          BY <1>4, <1>6, <2>1, <2>3, <3>1, <3>2, <3>3
    <3>6. QED
          BY <1>4, <1>6, <2>1, <2>3, <3>2, <3>3, <3>4, <3>5
  <2>5. Behind(m)' <=> \E i \in DOMAIN m \cap DOMAIN stack' :
                          m[i][2] < Here'[i][2] /\ \A j \in 1..(i - 1) : m[j] = Here'[j]
        BY <1>4, <2>2 DEF Behind, Before
  <2>6. \A i \in 1..k : \A j \in 1..(i - 1) : j \in 1..k /\ Here'[j] = Here[j]
    <3>1. \A i \in 1..k : \A j \in 1..(i - 1) : j \in 1..k /\ j # k
          BY <2>1
    <3>2. QED
          BY <2>1, <2>4, <3>1
  <2>7. ASSUME Behind(m)'
        PROVE  Behind(m)
    <3>1. PICK i \in DOMAIN m \cap DOMAIN stack' :
             m[i][2] < Here'[i][2] /\ \A j \in 1..(i - 1) : m[j] = Here'[j]
          BY <2>5, <2>7
    <3>2. /\ i \in DOMAIN stack /\ i \in 1..k
          /\ \A j \in 1..(i - 1) : m[j] = Here[j]
          BY <2>1, <2>6, <3>1
    <3>3. SUFFICES ASSUME ~(m[i][2] < Here[i][2]) PROVE Behind(m)
          BY <1>8, <3>1, <3>2
    <3>4. i = k
          BY <2>4, <3>1, <3>3
    <3>5. m[k][2] = Here[k][2]
      <4>1. m[k][2] \in Nat /\ stack[k].at - 1 \in Nat /\ stack[k].at = (stack[k].at - 1) + 1
        <5>1. stack[k] \in Frames
              BY <1>1, <3>2, <3>4
        <5>2. stack[k].at \in Nat \ {0}
              BY <5>1 DEF Frames
        <5>3. QED
              BY <1>5, <3>1, <3>4, <5>2
      <4>2. QED
            BY <2>4, <3>1, <3>3, <3>4, <4>1
    <3>6. m[k][1] = stack[k].ts
          BY <1>1, <3>1, <3>2, <3>4, MentionInFile
    <3>7. m[k] = Here[k]
          BY <1>5, <2>4, <3>1, <3>4, <3>5, <3>6
    <3>8. LineOf(m[k]).target = stack[n].ts /\ stack[n].ts \in TsFiles
      <4>1. k \in DOMAIN stack /\ k + 1 \in DOMAIN stack
            BY <1>2, <2>1
      <4>2. QED
            BY <1>2, <1>3, <2>1, <2>4, <3>7, <4>1 DEF StackLeads, LeadsOn, LineOf
    <3>9. n \in DOMAIN m
          BY <1>1, <2>1, <3>1, <3>4, <3>8, MentionGoesOn
    <3>10. \A j \in 1..(n - 1) : m[j] = Here[j]
      <4>1. \A j \in 1..(n - 1) : j = k \/ j \in 1..(k - 1)
            BY <2>1
      <4>2. QED
            BY <3>2, <3>4, <3>7, <4>1
    <3>11. QED
           BY <1>9, <3>9, <3>10
  <2>8. ASSUME Behind(m)
        PROVE  Behind(m)'
    <3>1. PICK i \in DOMAIN m \cap DOMAIN stack :
             m[i][2] < Here[i][2] /\ \A j \in 1..(i - 1) : m[j] = Here[j]
          BY <1>8, <2>8
    <3>2. CASE i = n
      <4>1. k \in DOMAIN m /\ k \in DOMAIN stack' /\ m[k] = Here[k]
        <5>1. k \in 1..(n - 1) /\ k \in 1..k /\ DOMAIN m = 1..Len(m) /\ Len(m) \in Nat
              BY <1>1, <2>1, MentionFacts
        <5>2. k \in DOMAIN m
              BY <2>1, <3>1, <3>2, <5>1
        <5>3. QED
              BY <2>1, <3>1, <3>2, <5>1, <5>2
      <4>2. m[k][2] < Here'[k][2]
        <5>1. stack[k].at \in Nat
          <6>1. k \in DOMAIN stack
                BY <2>1
          <6>2. stack[k] \in Frames
                BY <1>1, <6>1
          <6>3. QED
                BY <6>2 DEF Frames
        <5>2. QED
              BY <2>4, <4>1, <5>1
      <4>3. \A j \in 1..(k - 1) : m[j] = Here'[j]
        <5>1. \A j \in 1..(k - 1) : j \in 1..(n - 1) /\ k \in 1..k
              BY <2>1
        <5>2. QED
              BY <2>6, <3>1, <3>2, <5>1
      <4>4. QED
            BY <2>5, <4>1, <4>2, <4>3
    <3>3. CASE i # n
      <4>1. i \in 1..k
            BY <2>1, <3>1, <3>3
      <4>2. m[i][2] < Here'[i][2]
        <5>1. CASE i = k
          <6>1. stack[k] \in Frames
                BY <1>1, <3>1, <5>1
          <6>2. stack[k].at \in Nat /\ m[k][2] \in Nat
                BY <1>5, <3>1, <5>1, <6>1 DEF Frames
          <6>3. QED
                BY <2>4, <3>1, <5>1, <6>2
        <5>2. CASE i # k
              BY <2>1, <2>4, <3>1, <4>1, <5>2
        <5>3. QED
              BY <5>1, <5>2
      <4>3. \A j \in 1..(i - 1) : m[j] = Here'[j]
            BY <2>6, <3>1, <4>1
      <4>4. QED
            BY <2>1, <2>5, <3>1, <4>1, <4>2, <4>3
    <3>4. QED
          BY <3>2, <3>3
  <2>9. QED
        BY <2>7, <2>8
<1>12. QED
       BY <1>10, <1>11

(***************************************************************************)
(* The open files lead to the line that the walk is at.                    *)
(***************************************************************************)
LEMMA LeadsOnSame ==
  ASSUME tree' = tree, NEW i, stack'[i] = stack[i], stack'[i + 1].ts = stack[i + 1].ts,
         LeadsOn(i)
  PROVE  LeadsOn(i)'
BY DEF LeadsOn, Lines, Problem

LEMMA RefusedLeads ==
  ASSUME WalkInv, StackLeads, CycleInclude \/ SeenBefore \/ NotFound \/ OutsideRoot
  PROVE  StackLeads'
<1>1. /\ call # NoCall /\ call' = NoCall /\ UNCHANGED <<tree, stack, trace>>
      BY DEF CycleInclude, SeenBefore, NotFound, OutsideRoot, IsNew, visited
<1>2. ASSUME tree'.root \in TsFiles, trace = <<>>
      PROVE  ~IsReadable(tree.root)
  <2>1. stack = <<>>
        BY <1>2, SuiteIsRead
  <2>2. call.ts = tree.root
        BY <1>1, <2>1 DEF StackLeads
  <2>3. Active = {} /\ SeenTs = {}
        BY <1>2, <2>1, NothingRead DEF Active, SeenTs
  <2>4. QED
        BY <2>2, <2>3 DEF CycleInclude, SeenBefore, NotFound, OutsideRoot, IsReadable
<1>3. IsReadable(tree.root)' <=> IsReadable(tree.root)
      BY <1>1 DEF IsReadable
<1>4. QED
      BY <1>1, <1>2, <1>3 DEF StackLeads, LeadsOn, Lines, Problem

LEMMA VisitLeads ==
  ASSUME WalkInv, LinesLead, StackLeads, Unreadable \/ Open
  PROVE  StackLeads'
<1>1. Visit /\ tree' = tree /\ call # NoCall /\ call' = NoCall
      BY DEF Unreadable, Open, Visit, IsNew
<1>2. Range(trace') = Range(trace) \cup {call.ts} /\ call.ts \in TsFiles
      BY <1>1, VisitFacts DEF WalkInv
<1>3. trace' # <<>>
  <2>1. \A s : s = <<>> => Range(s) = {}
        BY DEF Range
  <2>2. QED
        BY <1>2, <2>1
<1>4. tree.root \in Range(trace')
      BY <1>1, <1>2, SuiteIsRead DEF StackLeads
<1>5. CASE Unreadable
  <2>1. stack' = stack
        BY <1>5 DEF Unreadable
  <2>2. QED
        BY <1>1, <1>3, <1>4, <2>1 DEF StackLeads, LeadsOn, Lines, Problem
<1>6. CASE Open
  <2> DEFINE n == Len(stack)
             frame == [ts |-> call.ts, at |-> 1]
  <2>1. stack' = Append(stack, frame) /\ stack \in Seq(Frames) /\ frame \in Frames
        BY <1>2, <1>6 DEF Open, WalkInv, WalkTypes, Frames
  <2>2. /\ DOMAIN stack' = DOMAIN stack \cup {n + 1} /\ DOMAIN stack = 1..n /\ n \in Nat
        /\ \A i \in DOMAIN stack : stack'[i] = stack[i]
        /\ stack'[n + 1] = frame
        BY <2>1, Appended
  <2>3. stack'[1].ts = tree.root
    <3>1. CASE stack = <<>>
      <4>1. n + 1 = 1
            BY <3>1
      <4>2. QED
            BY <1>1, <2>2, <3>1, <4>1 DEF StackLeads
    <3>2. CASE stack # <<>>
      <4>1. 1 \in DOMAIN stack
            BY <2>1, <2>2, <3>2, EmptySeq
      <4>2. QED
            BY <2>2, <3>2, <4>1 DEF StackLeads
    <3>3. QED
          BY <3>1, <3>2
  <2>4. ASSUME NEW i \in DOMAIN stack', i + 1 \in DOMAIN stack'
        PROVE  LeadsOn(i)'
    <3>1. i \in DOMAIN stack
          BY <2>2, <2>4
    <3>2. CASE i + 1 \in DOMAIN stack
          BY <1>1, <2>2, <3>1, <3>2, LeadsOnSame DEF StackLeads
    <3>3. CASE i + 1 \notin DOMAIN stack
      <4>1. i = n /\ stack # <<>> /\ Top = stack[n]
        <5>1. \A k \in Nat : \A j \in 1..k : j + 1 \notin 1..k => j = k
              OBVIOUS
        <5>2. i = n
              BY <2>2, <3>1, <3>3, <5>1
        <5>3. stack # <<>>
              BY <3>1
        <5>4. QED
              BY <5>2, <5>3 DEF Top
      <4>2. stack'[i] = Top /\ stack'[i + 1].ts = call.ts
        <5>1. stack'[i] = Top
              BY <2>2, <3>1, <4>1
        <5>2. i + 1 = n + 1
              BY <4>1
        <5>3. stack'[i + 1].ts = call.ts
              BY <2>2, <5>2
        <5>4. QED
              BY <5>1, <5>3
      <4>3. LET e == <<Top.ts, Top.at - 1>> IN
            /\ e[2] \in DOMAIN Lines(e[1])
            /\ LineOf(e).target = call.ts /\ Problem(LineOf(e)) = "none"
            BY <1>1, <4>1 DEF LinesLead
      <4>4. \A e : LineOf(e) = Lines(e[1])[e[2]]
            BY DEF LineOf
      <4>5. /\ Top.at - 1 \in DOMAIN Lines(Top.ts)
            /\ Lines(Top.ts)[Top.at - 1].target = call.ts
            /\ Problem(Lines(Top.ts)[Top.at - 1]) = "none"
            BY <4>3, <4>4
      <4>6. \A f, line : Lines(f)' = Lines(f) /\ Problem(line)' = Problem(line)
            BY <1>1, TreeSame
      <4>7. QED
            BY <4>2, <4>5, <4>6 DEF LeadsOn, Lines
    <3>4. QED
          BY <3>2, <3>3
  <2>5. QED
        BY <1>1, <1>3, <1>4, <2>3, <2>4 DEF StackLeads
<1>7. QED
      BY <1>5, <1>6

LEMMA TakenLeads ==
  ASSUME WalkInv, StackLeads, TakeLine
  PROVE  StackLeads'
<1>1. /\ stack # <<>> /\ stack' # <<>> /\ call = NoCall
      /\ DOMAIN stack' = DOMAIN stack
      /\ Len(stack) \in Nat \ {0} /\ DOMAIN stack = 1..Len(stack)
      /\ \A i \in DOMAIN stack : i # Len(stack) => stack'[i] = stack[i]
      /\ \A i \in DOMAIN stack : stack'[i].ts = stack[i].ts
      BY TakenStack DEF WalkInv
<1>2. tree' = tree /\ trace' = trace
      BY DEF TakeLine, visited
<1>3. 1 \in DOMAIN stack /\ \A i \in DOMAIN stack : i + 1 \in DOMAIN stack => i # Len(stack)
      BY <1>1
<1>4. \A i \in DOMAIN stack' : i + 1 \in DOMAIN stack' => LeadsOn(i)'
      BY <1>1, <1>2, <1>3, LeadsOnSame DEF StackLeads
<1>5. trace # <<>>
      BY <1>1, SuiteIsRead
<1>6. QED
      BY <1>1, <1>2, <1>3, <1>4, <1>5 DEF StackLeads

LEMMA StackLeadsStep ==
  ASSUME WalkInv, LinesLead, StackLeads, [Next]_vars
  PROVE  StackLeads'
<1>1. CASE CycleInclude \/ SeenBefore \/ NotFound \/ OutsideRoot
      BY <1>1, RefusedLeads
<1>2. CASE Unreadable \/ Open
      BY <1>2, VisitLeads
<1>3. CASE RejectLine \/ AddSql \/ IncludeTs
      BY <1>3, TakenLeads DEF RejectLine, AddSql, IncludeTs
<1>4. CASE Return
  <2>1. /\ \A i \in DOMAIN stack' : i \in DOMAIN stack /\ stack'[i] = stack[i]
        /\ DOMAIN stack' = 1..(Len(stack) - 1) /\ Len(stack) \in Nat
        /\ stack' \in Seq(Frames)
        BY <1>4, Popped DEF Return, WalkInv, WalkTypes
  <2>2. call' = NoCall /\ UNCHANGED <<tree, trace>> /\ trace # <<>> /\ stack # <<>>
        BY <1>4, SuiteIsRead DEF Return, visited
  <2>3. \A i \in DOMAIN stack' : i + 1 \in DOMAIN stack' => LeadsOn(i)'
        BY <2>1, <2>2, LeadsOnSame DEF StackLeads
  <2>4. stack' # <<>> => 1 \in DOMAIN stack'
        BY <2>1, EmptySeq
  <2>5. QED
        BY <2>1, <2>2, <2>3, <2>4 DEF StackLeads
<1>5. CASE UNCHANGED vars
      BY <1>5 DEF vars, StackLeads, LeadsOn, Lines, Problem, IsReadable
<1>6. QED
  <2>1. \/ CycleInclude \/ SeenBefore \/ NotFound \/ OutsideRoot \/ Unreadable
        \/ Open \/ RejectLine \/ IncludeTs \/ AddSql \/ Return \/ UNCHANGED vars
        BY DEF Next, EnterTs, ReadTs
  <2>2. QED
        BY <1>1, <1>2, <1>3, <1>4, <1>5, <2>1, Zenon

LEMMA StackLeadsInit ==
  ASSUME Init
  PROVE  StackLeads
<1>1. stack = <<>> /\ trace = <<>> /\ (tree.root \in TsFiles => call # NoCall)
      /\ (call # NoCall => call.ts = tree.root)
      BY FilesAssumption DEF Init, NoCall
<1>2. DOMAIN stack = {}
      BY <1>1
<1>3. QED
      BY <1>1, <1>2 DEF StackLeads

(***************************************************************************)
(* What the lines name is known.                                           *)
(***************************************************************************)
LEMMA CoverStays ==
  ASSUME LinesCovered, tree' = tree, Range(sqls) \subseteq Range(sqls'),
         Range(trace) \subseteq Range(trace'), DOMAIN timeouts' \subseteq Range(sqls'),
         NEW p, \A e \in LinesRead' : e \in LinesRead \/ e = p,
         Problem(LineOf(p)) = "none" =>
            /\ LineOf(p).target \in SqlFiles => LineOf(p).target \in Range(sqls')
            /\ LineOf(p).target \in TsFiles /\ IsReadable(LineOf(p).target) =>
                  LineOf(p).target \in Range(trace')
  PROVE  LinesCovered'
<1>1. /\ \A e : LineOf(e)' = LineOf(e)
      /\ \A f : IsReadable(f)' <=> IsReadable(f)
      /\ \A line : Problem(line)' = Problem(line)
      BY TreeSame
<1>2. \A line : IsCovered(line)' <=>
         /\ line.target \in SqlFiles => line.target \in Range(sqls')
         /\ line.target \in TsFiles /\ IsReadable(line.target) => line.target \in Range(trace')
      BY <1>1 DEF IsCovered
<1>3. ASSUME NEW e \in LinesRead', Problem(LineOf(e)) = "none"
      PROVE  LET line == LineOf(e) IN
             /\ line.target \in SqlFiles => line.target \in Range(sqls')
             /\ line.target \in TsFiles /\ IsReadable(line.target) => line.target \in Range(trace')
  <2>1. CASE e \in LinesRead
        BY <1>3, <2>1 DEF LinesCovered, IsCovered
  <2>2. CASE e = p
        BY <1>3, <2>2
  <2>3. QED
        BY <2>1, <2>2
<1>4. \A e \in LinesRead' : (Problem(LineOf(e)) = "none" => IsCovered(LineOf(e)))'
      BY <1>1, <1>2, <1>3
<1>5. QED
      BY <1>4 DEF LinesCovered

LEMMA RefusedCovers ==
  ASSUME WalkInv, LinesLead, LinesCovered, CycleInclude \/ SeenBefore \/ NotFound \/ OutsideRoot
  PROVE  LinesCovered'
<1>1. /\ call # NoCall /\ call' = NoCall /\ UNCHANGED <<tree, stack, visited, found>>
      /\ UNCHANGED <<trace, sqls, timeouts>>
      BY DEF CycleInclude, SeenBefore, NotFound, OutsideRoot, IsNew, visited, found
<1>2. DOMAIN timeouts' \subseteq Range(sqls')
      BY <1>1 DEF LinesCovered
<1>3. CASE stack = <<>>
  <2>1. Range(trace') = {}
        BY <1>1, <1>3, NothingRead DEF WalkInv, OpenFiles
  <2>2. LinesRead' = {}
        BY <2>1 DEF LinesRead, Read
  <2>3. QED
        BY <1>2, <2>2 DEF LinesCovered
<1>4. CASE stack # <<>>
  <2> DEFINE p == <<Top.ts, Top.at - 1>>
  <2>1. \A e \in LinesRead' : e \in LinesRead \/ e = p
        BY <1>1, <1>4, CallRefused
  <2>2. LineOf(p).target = call.ts /\ call.ts \in TsFiles /\ call.ts \notin SqlFiles
        BY <1>1, <1>4, CallLead, FilesAssumption
  <2>3. IsReadable(call.ts) => call.ts \in Range(trace)
    <3>1. Active \subseteq Range(trace)
          BY DEF Active, WalkInv, OpenFiles
    <3>2. QED
          BY <3>1 DEF CycleInclude, SeenBefore, NotFound, OutsideRoot, SeenTs, IsReadable
  <2> HIDE DEF p
  <2>4. QED
        BY <1>1, <1>2, <2>1, <2>2, <2>3, CoverStays
<1>5. QED
      BY <1>3, <1>4

LEMMA VisitCovers ==
  ASSUME WalkInv, LinesLead, LinesCovered, Unreadable \/ Open
  PROVE  LinesCovered'
<1>1. Visit /\ UNCHANGED <<tree, sqls, timeouts>> /\ call # NoCall
      BY DEF Unreadable, Open, Visit, IsNew, found
<1>2. Range(trace') = Range(trace) \cup {call.ts}
      BY <1>1, VisitFacts DEF WalkInv
<1>3. DOMAIN timeouts' \subseteq Range(sqls')
      BY <1>1 DEF LinesCovered
<1>4. CASE stack = <<>>
      BY <1>3, <1>4, FirstLines DEF LinesCovered
<1>5. CASE stack # <<>>
  <2> DEFINE p == <<Top.ts, Top.at - 1>>
  <2>1. \A e \in LinesRead' : e \in LinesRead \/ e = p
        BY <1>5, CallVisits
  <2>2. LineOf(p).target = call.ts /\ call.ts \in TsFiles /\ call.ts \notin SqlFiles
        BY <1>1, <1>5, CallLead, FilesAssumption
  <2> HIDE DEF p
  <2>3. QED
        BY <1>1, <1>2, <1>3, <2>1, <2>2, CoverStays
<1>6. QED
      BY <1>4, <1>5

\* The cases after AppendSql.
LEMMA CasesGrow ==
  ASSUME WalkTypes, AddSql
  PROVE  /\ Range(sqls') = Range(sqls) \cup {Line.target}
         /\ \/ Line.target \in Range(sqls) /\ sqls' = sqls
            \/ Line.target \notin Range(sqls) /\ sqls' = Append(sqls, Line.target)
         /\ sqls \in Seq(SqlFiles) /\ Line.target \in SqlFiles
<1>1. AppendSql /\ Line.target \in SqlFiles /\ sqls \in Seq(SqlFiles)
      BY DEF AddSql, WalkTypes
<1>2. Range(Append(sqls, Line.target)) = Range(sqls) \cup {Line.target}
      BY <1>1, RangeGrows
<1>3. \/ Line.target \in Range(sqls) /\ sqls' = sqls
      \/ Line.target \notin Range(sqls) /\ sqls' = Append(sqls, Line.target)
      BY <1>1 DEF AppendSql
<1>4. QED
      BY <1>1, <1>2, <1>3

LEMMA TakenCovers ==
  ASSUME WalkInv, LinesLead, LinesCovered, RejectLine \/ AddSql
  PROVE  LinesCovered'
<1> DEFINE p == <<Top.ts, Top.at>>
<1>1. TakeLine /\ call' = NoCall /\ tree' = tree /\ trace' = trace
      BY DEF RejectLine, AddSql, TakeLine, visited
<1>2. LineOf(p) = Line /\ \A e \in LinesRead' : e \in LinesRead \/ e = p
      BY <1>1, LineTaken
<1> HIDE DEF p
<1>3. CASE RejectLine
  <2>1. sqls' = sqls /\ timeouts' = timeouts
        BY <1>3 DEF RejectLine, found
  <2>2. Problem(Line) # "none" \/ Line.target \in DOMAIN timeouts
        BY <1>3 DEF RejectLine, Conflict
  <2>3. Line.target \in DOMAIN timeouts => Line.target \in Range(sqls) /\ Line.target \notin TsFiles
        BY FilesAssumption DEF LinesCovered, WalkInv, WalkTypes
  <2>4. DOMAIN timeouts' \subseteq Range(sqls')
        BY <2>1 DEF LinesCovered
  <2>5. QED
        BY <1>1, <1>2, <2>1, <2>2, <2>3, <2>4, CoverStays
<1>4. CASE AddSql
  <2>1. Range(sqls') = Range(sqls) \cup {Line.target} /\ Line.target \in SqlFiles
        BY <1>4, CasesGrow DEF WalkInv
  <2>2. Line.target \notin TsFiles
        BY <2>1, FilesAssumption
  <2>3. DOMAIN timeouts' \subseteq DOMAIN timeouts \cup {Line.target}
    <3>1. SetTimeout
          BY <1>4 DEF AddSql
    <3>2. QED
          BY <3>1 DEF SetTimeout
  <2>4. DOMAIN timeouts' \subseteq Range(sqls')
        BY <2>1, <2>3 DEF LinesCovered
  <2>5. QED
        BY <1>1, <1>2, <2>1, <2>2, <2>4, CoverStays
<1>5. QED
      BY <1>3, <1>4

LEMMA LinesCoveredStep ==
  ASSUME WalkInv, LinesLead, LinesCovered, [Next]_vars
  PROVE  LinesCovered'
<1>1. CASE CycleInclude \/ SeenBefore \/ NotFound \/ OutsideRoot
      BY <1>1, RefusedCovers
<1>2. CASE Unreadable \/ Open
      BY <1>2, VisitCovers
<1>3. CASE RejectLine \/ AddSql
      BY <1>3, TakenCovers
<1>4. CASE IncludeTs \/ Return
  <2>1. UNCHANGED <<tree, trace, sqls, timeouts>>
        BY <1>4 DEF IncludeTs, Return, TakeLine, visited, found
  <2>2. \A e \in LinesRead' : e \in LinesRead
        BY <1>4, LineInWork, FileLeft
  <2>3. \A e : LineOf(e)' = LineOf(e)
        BY <2>1, TreeSame
  <2>4. \A line : Problem(line)' = Problem(line) /\ (IsCovered(line)' <=> IsCovered(line))
        BY <2>1 DEF Problem, IsCovered, IsReadable
  <2>5. QED
        BY <2>1, <2>2, <2>3, <2>4 DEF LinesCovered
<1>5. CASE UNCHANGED vars
      BY <1>5 DEF vars, LinesCovered, LinesRead, Read, IsReadable, NextLine, LineOf, Lines,
         Problem, IsCovered
<1>6. QED
  <2>1. \/ CycleInclude \/ SeenBefore \/ NotFound \/ OutsideRoot \/ Unreadable
        \/ Open \/ RejectLine \/ IncludeTs \/ AddSql \/ Return \/ UNCHANGED vars
        BY DEF Next, EnterTs, ReadTs
  <2>2. QED
        BY <1>1, <1>2, <1>3, <1>4, <1>5, <2>1, Zenon

LEMMA LinesCoveredInit ==
  ASSUME Init
  PROVE  LinesCovered
<1>1. trace = <<>> /\ DOMAIN timeouts = {}
      BY DEF Init
<1>2. LinesRead = {}
      BY <1>1, NothingRead
<1>3. QED
      BY <1>1, <1>2 DEF LinesCovered

(***************************************************************************)
(* The mentions that a step puts behind the walk.                          *)
(***************************************************************************)
LEMMA Distinct ==
  ASSUME NEW T, IsFiniteSet(T), NEW n \in Nat, NEW s \in [1..n -> T],
         \A i, j \in 1..n : s[i] = s[j] => i = j
  PROVE  n <= Cardinality(T)
<1>1. IsFiniteSet(1..n) /\ Cardinality(1..n) = IF 1 > n THEN 0 ELSE n - 1 + 1
      BY FS_Interval
<1>2. s \in Injection(1..n, T)
      BY DEF Injection, IsInjective
<1>3. Cardinality(1..n) <= Cardinality(T)
      BY <1>2, FS_Injection
<1>4. Cardinality(1..n) = n
      BY <1>1
<1>5. QED
      BY <1>3, <1>4

\* Which line of a file that is not open is in a mention, has been read.
LEMMA OffStack ==
  ASSUME WalkInv, NEW m \in Mentions, NEW i \in DOMAIN m, m[i][1] \in Range(trace) \ Active
  PROVE  m[i] \in LinesRead
<1>1. m[i] \in AllLines /\ IsReadable(m[i][1])
      BY MentionFacts DEF WalkInv
<1>2. m[i] = <<m[i][1], m[i][2]>> /\ m[i][2] \in DOMAIN Lines(m[i][1]) /\ m[i][2] \in Nat
      BY <1>1, LinesOfSuite DEF WalkInv
<1>3. m[i][1] \in Read
      BY <1>1 DEF Read
<1>4. m[i] \in Read \X Nat
      BY <1>2, <1>3
<1>5. \A j \in DOMAIN stack : stack[j].ts # m[i][1]
      BY DEF Active
<1>6. QED
      BY <1>2, <1>4, <1>5 DEF LinesRead

\* A mention through the line in work goes on in the file that is called.
LEMMA ThroughCall ==
  ASSUME WalkInv, LinesLead, call # NoCall, stack # <<>>, NEW m \in Mentions, Through(m)
  PROVE  /\ Len(stack) + 1 \in DOMAIN m /\ m[Len(stack) + 1][1] = call.ts
         /\ IsReadable(call.ts)
         /\ \A k \in DOMAIN m : k > Len(stack) => m[k][1] \notin Active
<1> DEFINE n == Len(stack)
<1>1. /\ n \in DOMAIN stack /\ DOMAIN stack = 1..n /\ n \in Nat \ {0} /\ Top = stack[n]
      BY TopFacts DEF WalkInv
<1>2. m[n] = <<Top.ts, Top.at - 1>> /\ n \in DOMAIN m
      BY <1>1 DEF Through, Here, AtLine
<1>3. LineOf(m[n]).target = call.ts /\ call.ts \in TsFiles
      BY <1>2, CallLead
<1>4. n + 1 \in DOMAIN m /\ m[n + 1][1] = call.ts /\ IsReadable(call.ts)
      BY <1>2, <1>3, MentionGoesOn DEF WalkInv
<1>5. ASSUME NEW k \in DOMAIN m, k > n, m[k][1] \in Active
      PROVE  FALSE
  <2>1. PICK j \in DOMAIN stack : m[k][1] = stack[j].ts
        BY <1>5 DEF Active
  <2>2. m[j][1] = stack[j].ts /\ j \in DOMAIN m
        BY DEF Through, Here
  <2>3. k = j
        BY <2>1, <2>2, MentionFacts DEF WalkInv
  <2>4. QED
        BY <1>1, <1>5, <2>3
<1>6. QED
      BY <1>4, <1>5

\* All cases of a file that was read before are known, and their timeouts.
LEMMA SteppedOver ==
  ASSUME WalkInv, LinesLead, LinesCovered, SeenBefore, stack # <<>>,
         NEW m \in Mentions, Through(m)
  PROVE  /\ Said(m).target \in Range(sqls)
         /\ IsTimed(m) => Said(m).target \in DOMAIN timeouts
<1> DEFINE n == Len(stack)
<1>1. /\ n + 1 \in DOMAIN m /\ m[n + 1][1] = call.ts
      /\ \A k \in DOMAIN m : k > n => m[k][1] \notin Active
      BY ThroughCall DEF SeenBefore
<1>2. n \in Nat /\ DOMAIN m = 1..Len(m) /\ Len(m) \in Nat
      BY TopFacts, MentionFacts DEF WalkInv
<1>3. call.ts \in Range(trace)
      BY DEF SeenBefore, SeenTs
<1> HIDE DEF n
<1> DEFINE T == {k \in DOMAIN m : k > n /\ m[k][1] \notin Range(trace)}
<1>4. T = {}
  <2>1. SUFFICES ASSUME T # {} PROVE FALSE
        OBVIOUS
  <2>2. T \in SUBSET Nat
        BY <1>2
  <2>3. PICK k \in T : \A j \in T : ~(j < k)
        BY <2>1, <2>2, LeastNumber
  <2>4. k \in DOMAIN m /\ k > n /\ m[k][1] \notin Range(trace)
        BY <2>3
  <2>5. k # n + 1
        BY <1>1, <1>3, <2>4
  <2> DEFINE i == k - 1
  <2>6. i \in DOMAIN m /\ i > n /\ i < k /\ i + 1 = k /\ i # Len(m)
        BY <1>2, <2>4, <2>5
  <2> HIDE DEF i
  <2>7. m[i][1] \in Range(trace) \ Active
        BY <1>1, <2>3, <2>6
  <2>8. m[i] \in LinesRead
        BY <2>6, <2>7, OffStack
  <2>9. Problem(LineOf(m[i])) = "none" /\ LineOf(m[i]).target = m[k][1] /\ IsReadable(m[k][1])
        BY <2>4, <2>6, MentionFacts DEF WalkInv
  <2>10. m[k][1] \in TsFiles
         BY <2>4, MentionFacts, LinesOfSuite DEF WalkInv
  <2>11. QED
         BY <2>4, <2>8, <2>9, <2>10 DEF LinesCovered, IsCovered
<1>5. Len(m) \in DOMAIN m /\ Len(m) > n
      BY <1>1, <1>2
<1>6. m[Len(m)][1] \in Range(trace) \ Active
      BY <1>1, <1>4, <1>5
<1>7. m[Len(m)] \in LinesRead
      BY <1>5, <1>6, OffStack
<1>8. Problem(Said(m)) = "none" /\ Said(m).target \in SqlFiles
      BY <1>5, MentionFacts DEF WalkInv, Said
<1>9. IsCovered(Said(m))
      BY <1>7, <1>8 DEF LinesCovered, Said
<1>10. IsTimed(m) => TimesCase(m[Len(m)])
       BY <1>8 DEF IsTimed, TimesCase, Said
<1>11. QED
       BY <1>7, <1>8, <1>9, <1>10 DEF IsCovered, LinesLead, Said

\* A mention through the line that is taken ends with it.
LEMMA ThroughLine ==
  ASSUME WalkInv, TakeLine, NEW m \in Mentions, Through(m)
  PROVE  /\ Len(stack) \in DOMAIN m /\ m[Len(stack)] = <<Top.ts, Top.at>>
         /\ LineOf(m[Len(stack)]) = Line /\ Problem(Line) = "none"
         /\ Line.target \in SqlFiles => Said(m) = Line /\ m = Here
<1> DEFINE n == Len(stack)
<1>1. /\ n \in DOMAIN stack /\ DOMAIN stack = 1..n /\ n \in Nat \ {0} /\ Top = stack[n]
      BY TakenStack DEF WalkInv
<1>2. m[n] = <<Top.ts, Top.at>> /\ n \in DOMAIN m
      BY <1>1 DEF Through, Here, AtLine, TakeLine
<1>3. LineOf(m[n]) = Line
      BY <1>2 DEF LineOf, Line
<1>4. Problem(Line) = "none"
      BY <1>2, <1>3, MentionFacts DEF WalkInv
<1>5. ASSUME Line.target \in SqlFiles
      PROVE  Said(m) = Line /\ m = Here
  <2>1. n = Len(m)
        BY <1>2, <1>3, <1>5, MentionEnds DEF WalkInv
  <2>2. DOMAIN m = 1..n /\ m \in [1..n -> AllLines]
    <3>1. PICK k \in 1..Cardinality(TsFiles) : m \in [1..k -> AllLines]
          BY DEF Mentions
    <3>2. DOMAIN m = 1..Len(m)
          BY MentionFacts DEF WalkInv
    <3>3. QED
          BY <2>1, <3>1, <3>2
  <2>3. DOMAIN Here = 1..n /\ Here = [i \in 1..n |-> Here[i]]
        BY <1>1 DEF Here
  <2>4. \A i \in 1..n : m[i] = Here[i]
        BY <1>1 DEF Through
  <2>5. m = Here
        BY <2>2, <2>3, <2>4
  <2>6. QED
        BY <1>3, <2>1, <2>5 DEF Said
<1>6. QED
      BY <1>2, <1>3, <1>4, <1>5

(***************************************************************************)
(* The cases and timeouts stay those of the mentions behind the walk.      *)
(***************************************************************************)
LEMMA FoundSame ==
  ASSUME CasesFound, TimeoutsFound, UNCHANGED <<tree, sqls, timeouts>>,
         \A m \in Mentions : Behind(m)' <=> Behind(m)
  PROVE  CasesFound' /\ TimeoutsFound'
<1>1. /\ Mentions' = Mentions /\ sqls' = sqls /\ timeouts' = timeouts
      /\ \A m : Said(m)' = Said(m) /\ (IsTimed(m)' <=> IsTimed(m))
      BY TreeSame
<1>2. CasesFound'
      BY <1>1 DEF CasesFound, Before
<1>3. TimeoutsFound'
      BY <1>1 DEF TimeoutsFound, Before
<1>4. QED
      BY <1>2, <1>3

\* The walk leaves mentions behind that say nothing new.
LEMMA FoundBefore ==
  ASSUME WalkTypes, stack # <<>>, CasesFound, TimeoutsFound, UNCHANGED <<tree, sqls, timeouts>>,
         \A m \in Mentions : Behind(m) => Behind(m)',
         \A m \in Mentions : Behind(m)' /\ ~Behind(m) =>
            /\ Through(m) /\ Said(m).target \in Range(sqls)
            /\ IsTimed(m) => Said(m).target \in DOMAIN timeouts
  PROVE  CasesFound' /\ TimeoutsFound'
<1>1. /\ Mentions' = Mentions /\ sqls' = sqls /\ timeouts' = timeouts
      /\ \A m : Said(m)' = Said(m) /\ (IsTimed(m)' <=> IsTimed(m))
      BY TreeSame
<1>2. \A u, o \in Mentions : Behind(u) /\ Behind(o)' /\ ~Behind(o) => Before(u, o)
      BY BehindAfter
<1>3. \A i \in DOMAIN sqls : \E u \in Mentions : Behind(u) /\ Said(u).target = sqls[i]
      BY DEF CasesFound
<1>4. \A m \in Mentions : Behind(m)' => Said(m).target \in Range(sqls)
      BY DEF CasesFound
<1>5. ASSUME NEW j \in DOMAIN sqls, NEW i \in 1..(j - 1), NEW o \in Mentions,
             Behind(o)', Said(o).target = sqls[j]
      PROVE  \E m \in Mentions : Said(m).target = sqls[i] /\ Before(m, o)
  <2>1. CASE Behind(o)
        BY <1>5, <2>1 DEF CasesFound
  <2>2. CASE ~Behind(o)
    <3>1. i \in DOMAIN sqls
      <4>1. DOMAIN sqls = 1..Len(sqls) /\ Len(sqls) \in Nat
            BY DEF WalkTypes
      <4>2. QED
            BY <4>1
    <3>2. QED
          BY <1>2, <1>3, <1>5, <2>2, <3>1
  <2>3. QED
        BY <2>1, <2>2
<1>6. CasesFound'
  <2>1. \A i \in DOMAIN sqls : \E m \in Mentions : Behind(m)' /\ Said(m).target = sqls[i]
        BY <1>3
  <2>2. \A j \in DOMAIN sqls : \A i \in 1..(j - 1) : sqls[i] # sqls[j]
        BY DEF CasesFound
  <2>3. QED
        BY <1>1, <1>4, <1>5, <2>1, <2>2 DEF CasesFound, Before
<1>7. ASSUME NEW s \in DOMAIN timeouts
      PROVE  \E m \in Mentions :
                /\ Behind(m)' /\ IsTimed(m)
                /\ Said(m).target = s /\ Said(m).timeout = timeouts[s]
                /\ \A o \in Mentions :
                      Behind(o)' /\ IsTimed(o) /\ Said(o).target = s => o = m \/ Before(m, o)
  <2>1. PICK m \in Mentions :
           /\ Behind(m) /\ IsTimed(m)
           /\ Said(m).target = s /\ Said(m).timeout = timeouts[s]
           /\ \A o \in Mentions :
                 Behind(o) /\ IsTimed(o) /\ Said(o).target = s => o = m \/ Before(m, o)
        BY <1>7 DEF TimeoutsFound
  <2>2. QED
        BY <1>2, <2>1
<1>8. \A m \in Mentions : Behind(m)' /\ IsTimed(m) => Said(m).target \in DOMAIN timeouts
      BY DEF TimeoutsFound
<1>9. TimeoutsFound'
  <2>1. (\A m \in Mentions : Behind(m) /\ IsTimed(m) => Said(m).target \in DOMAIN timeouts)'
        BY <1>1, <1>8
  <2>2. ASSUME NEW s \in DOMAIN timeouts'
        PROVE  (\E m \in Mentions :
                  /\ Behind(m) /\ IsTimed(m)
                  /\ Said(m).target = s /\ Said(m).timeout = timeouts[s]
                  /\ \A o \in Mentions :
                        Behind(o) /\ IsTimed(o) /\ Said(o).target = s => o = m \/ Before(m, o))'
    <3>1. PICK m \in Mentions :
             /\ Behind(m)' /\ IsTimed(m)
             /\ Said(m).target = s /\ Said(m).timeout = timeouts[s]
             /\ \A o \in Mentions :
                   Behind(o)' /\ IsTimed(o) /\ Said(o).target = s => o = m \/ Before(m, o)
          BY <1>1, <1>7
    <3>2. /\ m \in Mentions' /\ IsTimed(m)'
          /\ Said(m)'.target = s /\ Said(m)'.timeout = timeouts'[s]
          BY <1>1, <3>1
    <3>3. \A o \in Mentions' :
             Behind(o)' /\ IsTimed(o)' /\ Said(o)'.target = s => o = m \/ Before(m, o)
          BY <1>1, <3>1
    <3>4. QED
          BY <3>1, <3>2, <3>3, Zenon DEF Before
  <2>3. QED
        BY <2>1, <2>2 DEF TimeoutsFound
<1>10. QED
       BY <1>6, <1>9

LEMMA RefusedFinds ==
  ASSUME WalkInv, LinesLead, StackLeads, CasesFound, TimeoutsFound,
         CycleInclude \/ NotFound \/ OutsideRoot
  PROVE  CasesFound' /\ TimeoutsFound'
<1>1. /\ call # NoCall /\ call' = NoCall /\ stack' = stack /\ trace' = trace
      /\ UNCHANGED <<tree, sqls, timeouts>>
      BY DEF CycleInclude, NotFound, OutsideRoot, IsNew, visited, found
<1>2. CASE stack = <<>>
  <2>1. trace = <<>>
        BY <1>1, <1>2 DEF WalkInv, OpenFiles
  <2>2. \A m \in Mentions : Behind(m)' <=> Behind(m)
        BY <1>1, <1>2, <2>1 DEF Behind
  <2>3. QED
        BY <1>1, <2>2, FoundSame
<1>3. CASE stack # <<>>
  <2>1. ASSUME NEW m \in Mentions, Through(m)
        PROVE  FALSE
    <3>1. /\ Len(stack) + 1 \in DOMAIN m /\ m[Len(stack) + 1][1] = call.ts
          /\ IsReadable(call.ts)
          /\ \A k \in DOMAIN m : k > Len(stack) => m[k][1] \notin Active
          BY <1>1, <1>3, <2>1, ThroughCall
    <3>2. Len(stack) + 1 > Len(stack)
      <4>1. Len(stack) \in Nat
            BY <1>3, TopFacts DEF WalkInv
      <4>2. QED
            BY <4>1
    <3>3. call.ts \notin Active /\ IsReadable(call.ts)
          BY <3>1, <3>2
    <3>4. QED
          BY <3>3 DEF CycleInclude, NotFound, OutsideRoot, IsReadable
  <2>2. \A m \in Mentions : Behind(m)' <=> Behind(m)
        BY <1>1, <1>3, <2>1, CallMoves DEF WalkInv
  <2>3. QED
        BY <1>1, <2>2, FoundSame
<1>4. QED
      BY <1>2, <1>3

LEMMA UnreadableFinds ==
  ASSUME WalkInv, LinesLead, StackLeads, CasesFound, TimeoutsFound, Unreadable
  PROVE  CasesFound' /\ TimeoutsFound'
<1>1. /\ call # NoCall /\ call' = NoCall /\ stack' = stack /\ UNCHANGED <<tree, sqls, timeouts>>
      /\ ~IsReadable(call.ts)
      BY DEF Unreadable, Visit, IsNew, found, IsReadable
<1>2. CASE stack = <<>>
  <2>1. call.ts = tree.root
        BY <1>1, <1>2 DEF StackLeads
  <2>2. ASSUME NEW m \in Mentions
        PROVE  FALSE
    <3>1. m[1][1] = tree.root /\ 1 \in DOMAIN m
          BY MentionFacts DEF WalkInv
    <3>2. IsReadable(m[1][1])
          BY <3>1, MentionFacts DEF WalkInv
    <3>3. QED
          BY <1>1, <2>1, <3>1, <3>2
  <2>3. QED
        BY <1>1, <2>2, FoundSame
<1>3. CASE stack # <<>>
  <2>1. \A m \in Mentions : ~Through(m)
        BY <1>1, <1>3, ThroughCall
  <2>2. \A m \in Mentions : Behind(m)' <=> Behind(m)
        BY <1>1, <1>3, <2>1, CallMoves DEF WalkInv
  <2>3. QED
        BY <1>1, <2>2, FoundSame
<1>4. QED
      BY <1>2, <1>3

LEMMA OpenFinds ==
  ASSUME WalkInv, StackLeads, CasesFound, TimeoutsFound, Open
  PROVE  CasesFound' /\ TimeoutsFound'
<1>1. /\ call # NoCall /\ UNCHANGED <<tree, sqls, timeouts>>
      BY DEF Open, Visit, IsNew, found
<1>2. \A m \in Mentions : Behind(m)' <=> Behind(m)
  <2>1. CASE stack = <<>>
    <3>1. trace = <<>>
          BY <1>1, <2>1 DEF WalkInv, OpenFiles
    <3>2. QED
          BY <2>1, <3>1, SuiteOpens DEF Behind
  <2>2. CASE stack # <<>>
        BY <2>2, OpenStays
  <2>3. QED
        BY <2>1, <2>2
<1>3. QED
      BY <1>1, <1>2, FoundSame

LEMMA SeenFinds ==
  ASSUME WalkInv, LinesLead, StackLeads, LinesCovered, CasesFound, TimeoutsFound, SeenBefore
  PROVE  CasesFound' /\ TimeoutsFound'
<1>1. /\ call # NoCall /\ call' = NoCall /\ stack' = stack /\ UNCHANGED <<tree, sqls, timeouts>>
      /\ call.ts \in Range(trace)
      BY DEF SeenBefore, found, SeenTs
<1>2. stack # <<>>
  <2>1. stack = <<>> => trace = <<>>
        BY <1>1 DEF WalkInv, OpenFiles
  <2>2. QED
        BY <1>1, <2>1, NothingRead
<1>3. \A m \in Mentions : (Behind(m) => Behind(m)') /\ (Behind(m)' /\ ~Behind(m) => Through(m))
      BY <1>1, <1>2, CallMoves DEF WalkInv
<1>4. \A m \in Mentions : Through(m) =>
         /\ Said(m).target \in Range(sqls)
         /\ IsTimed(m) => Said(m).target \in DOMAIN timeouts
      BY <1>2, SteppedOver
<1>5. QED
      BY <1>1, <1>2, <1>3, <1>4, FoundBefore DEF WalkInv

LEMMA RejectFinds ==
  ASSUME WalkInv, StackLeads, LinesCovered, CasesFound, TimeoutsFound, RejectLine
  PROVE  CasesFound' /\ TimeoutsFound'
<1>1. /\ TakeLine /\ call' = NoCall /\ stack # <<>> /\ UNCHANGED <<tree, sqls, timeouts>>
      BY DEF RejectLine, TakeLine, found
<1>2. \A m \in Mentions : (Behind(m) => Behind(m)') /\ (Behind(m)' /\ ~Behind(m) => Through(m))
      BY <1>1, TakeMoves DEF WalkInv
<1>3. ASSUME NEW m \in Mentions, Through(m)
      PROVE  /\ Said(m).target \in Range(sqls)
             /\ Said(m).target \in DOMAIN timeouts
  <2>1. Problem(Line) = "none"
        BY <1>1, <1>3, ThroughLine
  <2>2. Line.target \in DOMAIN timeouts
        BY <2>1 DEF RejectLine, Conflict
  <2>3. Line.target \in SqlFiles
        BY <2>2 DEF WalkInv, WalkTypes
  <2>4. Said(m) = Line
        BY <1>1, <1>3, <2>3, ThroughLine
  <2>5. QED
        BY <2>2, <2>4 DEF LinesCovered
<1>4. QED
      BY <1>1, <1>2, <1>3, FoundBefore DEF WalkInv

\* The line that adds a case is the end of a mention, which the step leaves
\* behind.
LEMMA HereIsMention ==
  ASSUME WalkInv, LinesLead, StackLeads, AddSql, NEW h, h = Here
  PROVE  /\ h \in Mentions /\ Said(h) = Line /\ Through(h)
         /\ ~Behind(h) /\ Behind(h)'
<1> DEFINE n == Len(stack)
<1>1. /\ TakeLine /\ call' = NoCall /\ Problem(Line) = "none" /\ Line.target \in SqlFiles
      BY DEF AddSql, TakeLine
<1>2. /\ stack # <<>> /\ stack' # <<>> /\ call = NoCall
      /\ DOMAIN stack' = DOMAIN stack /\ Len(stack') = n
      /\ n \in Nat \ {0} /\ n \in DOMAIN stack /\ DOMAIN stack = 1..n
      /\ \A i \in DOMAIN stack : i # n => stack'[i] = stack[i]
      /\ \A i \in DOMAIN stack : stack'[i].ts = stack[i].ts
      /\ stack'[n].at = stack[n].at + 1
      /\ stack[n].at \in Nat \ {0} /\ Top = stack[n]
      /\ Top.at \in DOMAIN Lines(Top.ts)
      BY <1>1, TakenStack DEF WalkInv
<1> HIDE DEF n
<1>3. \A i \in DOMAIN stack :
         Here[i] = <<stack[i].ts, IF i < n THEN stack[i].at - 1 ELSE stack[i].at>>
      BY <1>1, <1>2 DEF Here, AtLine, n
<1>4. \A i \in DOMAIN stack :
         Here'[i] = <<stack'[i].ts, IF i < n THEN stack'[i].at - 1 ELSE stack'[i].at>>
      BY <1>1, <1>2 DEF Here, AtLine, n
<1>5. \A i \in DOMAIN stack : i # n => i < n /\ i + 1 \in DOMAIN stack
      BY <1>2
<1>6. /\ \A i \in DOMAIN stack : i # n =>
            /\ h[i] = <<stack[i].ts, stack[i].at - 1>>
            /\ h[i][2] \in DOMAIN Lines(h[i][1])
            /\ Problem(LineOf(h[i])) = "none"
            /\ LineOf(h[i]).target = stack[i + 1].ts
  <2>1. ASSUME NEW i \in DOMAIN stack, i # n
        PROVE  /\ h[i] = <<stack[i].ts, stack[i].at - 1>>
               /\ h[i][2] \in DOMAIN Lines(h[i][1])
               /\ Problem(LineOf(h[i])) = "none"
               /\ LineOf(h[i]).target = stack[i + 1].ts
    <3>1. h[i] = <<stack[i].ts, stack[i].at - 1>>
          BY <1>3, <1>5, <2>1
    <3>2. LeadsOn(i)
          BY <1>5, <2>1 DEF StackLeads
    <3>3. QED
          BY <3>1, <3>2 DEF LeadsOn, LineOf
  <2>2. QED
        BY <2>1
<1>7. /\ h[n] = <<Top.ts, Top.at>> /\ LineOf(h[n]) = Line
  <2>1. ~(n < n)
        BY <1>2
  <2>2. h[n] = <<Top.ts, Top.at>>
        BY <1>2, <1>3, <2>1
  <2>3. QED
        BY <2>2 DEF LineOf, Line
<1>8. \A i \in DOMAIN stack :
         /\ h[i][1] = stack[i].ts /\ h[i] = <<h[i][1], h[i][2]>> /\ stack[i].ts \in TsFiles
         /\ h[i][2] \in DOMAIN Lines(h[i][1]) /\ h[i][2] \in Nat
         /\ IsReadable(h[i][1]) /\ Problem(LineOf(h[i])) = "none"
  <2>1. \A i \in DOMAIN stack : h[i][1] = stack[i].ts /\ h[i] = <<h[i][1], h[i][2]>>
        BY <1>3
  <2>2. \A i \in DOMAIN stack : stack[i].ts \in TsFiles /\ h[i][2] \in Nat
        BY HereFacts DEF WalkInv
  <2>3. ASSUME NEW i \in DOMAIN stack
        PROVE  h[i][2] \in DOMAIN Lines(h[i][1]) /\ Problem(LineOf(h[i])) = "none"
    <3>1. h[n][1] = Top.ts /\ h[n][2] = Top.at
          BY <1>7
    <3>2. CASE i = n
          BY <1>1, <1>2, <1>7, <3>1, <3>2
    <3>3. CASE i # n
          BY <1>6, <3>3
    <3>4. QED
          BY <3>2, <3>3
  <2>4. QED
        BY <2>1, <2>2, <2>3 DEF LinesLead
<1>9. /\ DOMAIN h = 1..n /\ h = [i \in 1..n |-> h[i]]
      BY <1>2 DEF Here
<1>10. h \in [1..n -> AllLines]
  <2>1. ASSUME NEW i \in 1..n
        PROVE  h[i] \in AllLines
    <3>1. /\ h[i] = <<h[i][1], h[i][2]>> /\ h[i][1] \in TsFiles
          /\ h[i][2] \in DOMAIN Lines(h[i][1])
          BY <1>2, <1>8
    <3>2. h[i] \in {h[i][1]} \X DOMAIN Lines(h[i][1])
          BY <3>1
    <3>3. QED
          BY <3>1, <3>2 DEF AllLines
  <2>2. QED
        BY <1>9, <2>1
<1>11. n \in 1..Cardinality(TsFiles)
  <2> DEFINE s == [i \in 1..n |-> stack[i].ts]
  <2>1. s \in [1..n -> TsFiles]
        BY <1>2, <1>8
  <2>2. \A i, j \in 1..n : s[i] = s[j] => i = j
        BY <1>2 DEF WalkInv, OpenFiles
  <2> HIDE DEF s
  <2>3. n <= Cardinality(TsFiles)
        BY <1>2, <2>1, <2>2, Distinct, FiniteAssumption
  <2>4. Cardinality(TsFiles) \in Nat
        BY FiniteAssumption, FS_CardinalityType
  <2>5. QED
        BY <1>2, <2>3, <2>4
<1>12. Len(h) = n
       BY <1>2, <1>10, SeqDef, LenProperties
<1>13. IsMention(h)
  <2>1. h[1][1] = tree.root
        BY <1>2, <1>8 DEF StackLeads
  <2>2. \A i, j \in DOMAIN h : h[i][1] = h[j][1] => i = j
        BY <1>2, <1>8, <1>9 DEF WalkInv, OpenFiles
  <2>3. \A i \in 1..(Len(h) - 1) : LineOf(h[i]).target = h[i + 1][1]
    <3>1. \A i \in 1..(Len(h) - 1) : i \in DOMAIN stack /\ i # n
          BY <1>2, <1>12
    <3>2. QED
          BY <1>5, <1>6, <1>8, <3>1
  <2>4. LineOf(h[Len(h)]).target \in SqlFiles
        BY <1>1, <1>7, <1>12
  <2>5. QED
        BY <1>2, <1>8, <1>9, <2>1, <2>2, <2>3, <2>4 DEF IsMention
<1>14. h \in Mentions /\ Said(h) = Line
       BY <1>7, <1>10, <1>11, <1>12, <1>13 DEF Mentions, Said
<1>15. Through(h)
       BY <1>2, <1>9 DEF Through
<1>16. ~Behind(h)
  <2>1. \A i \in DOMAIN h : ~(h[i][2] < h[i][2])
        BY <1>2, <1>8, <1>9
  <2>2. QED
        BY <1>2, <2>1 DEF Behind, Before
<1>17. Behind(h)'
  <2>1. \A i \in 1..(n - 1) : h[i] = Here'[i]
    <3>1. \A i \in 1..(n - 1) : i \in DOMAIN stack /\ i # n /\ i < n
          BY <1>2
    <3>2. \A i \in DOMAIN stack : i # n => h[i] = <<stack[i].ts, stack[i].at - 1>>
          BY <1>6
    <3>3. \A i \in DOMAIN stack : i < n => Here'[i] = <<stack'[i].ts, stack'[i].at - 1>>
          BY <1>4
    <3>4. \A i \in DOMAIN stack : i # n => stack'[i] = stack[i]
          BY <1>2
    <3>5. QED
          BY <3>1, <3>2, <3>3, <3>4
  <2>2. h[n][2] < Here'[n][2]
    <3>1. ~(n < n)
          BY <1>2
    <3>2. QED
          BY <1>2, <1>4, <1>7, <3>1
  <2>3. n \in DOMAIN h /\ n \in DOMAIN Here'
        BY <1>2, <1>9 DEF Here
  <2>4. Before(h, Here')
        BY <2>1, <2>2, <2>3 DEF Before
  <2>5. QED
        BY <1>2, <2>4 DEF Behind, Before
<1>18. QED
       BY <1>14, <1>15, <1>16, <1>17

LEMMA AddSqlFinds ==
  ASSUME WalkInv, LinesLead, StackLeads, CasesFound, TimeoutsFound, AddSql, NEW h, h = Here
  PROVE  CasesFound' /\ TimeoutsFound'
<1>1. /\ TakeLine /\ call' = NoCall /\ tree' = tree /\ stack # <<>> /\ Line.target \in SqlFiles
      BY DEF AddSql, TakeLine
<1>2. /\ h \in Mentions /\ Said(h) = Line /\ Through(h) /\ ~Behind(h) /\ Behind(h)'
      BY HereIsMention
<1>3. \A m \in Mentions : (Behind(m) => Behind(m)') /\ (Behind(m)' /\ ~Behind(m) => m = h)
      BY <1>1, TakeMoves, ThroughLine DEF WalkInv
<1>4. \A u \in Mentions : Behind(u) => Before(u, h)
      BY <1>1, <1>2, BehindAfter DEF WalkInv
<1>5. /\ Mentions' = Mentions
      /\ \A m : Said(m)' = Said(m) /\ (IsTimed(m)' <=> IsTimed(m))
      BY <1>1, TreeSame
<1>6. CasesFound'
  <2>1. /\ Range(sqls') = Range(sqls) \cup {Line.target}
        /\ \/ Line.target \in Range(sqls) /\ sqls' = sqls
           \/ Line.target \notin Range(sqls) /\ sqls' = Append(sqls, Line.target)
        /\ sqls \in Seq(SqlFiles) /\ Line.target \in SqlFiles
        BY CasesGrow DEF WalkInv
  <2>2. /\ DOMAIN sqls = 1..Len(sqls) /\ Len(sqls) \in Nat
        /\ \A i \in DOMAIN sqls : i \in DOMAIN sqls' /\ sqls'[i] = sqls[i]
        BY <2>1
  <2>3. \A i \in DOMAIN sqls' : i \in DOMAIN sqls \/
           (i = Len(sqls) + 1 /\ sqls'[i] = Line.target /\ Line.target \notin Range(sqls))
    <3>1. CASE sqls' = sqls
          BY <3>1
    <3>2. CASE Line.target \notin Range(sqls) /\ sqls' = Append(sqls, Line.target)
          BY <2>1, <3>2, Appended
    <3>3. QED
          BY <2>1, <3>1, <3>2
  <2>4. \A j \in DOMAIN sqls' : \A i \in 1..(j - 1) : i \in DOMAIN sqls
    <3>1. \A n \in Nat : \A j \in 1..n : \A i \in 1..(j - 1) : i \in 1..n
          OBVIOUS
    <3>2. \A n \in Nat : \A i \in 1..(n + 1 - 1) : i \in 1..n
          OBVIOUS
    <3>3. QED
          BY <2>2, <2>3, <3>1, <3>2
  <2>5. \A i \in DOMAIN sqls : sqls[i] \in Range(sqls)
        BY DEF Range
  <2>6. \A m \in Mentions : Behind(m)' => Said(m).target \in Range(sqls')
        BY <1>2, <1>3, <2>1 DEF CasesFound
  <2>7. \A i \in DOMAIN sqls' : \E m \in Mentions : Behind(m)' /\ Said(m).target = sqls'[i]
    <3>1. ASSUME NEW i \in DOMAIN sqls
          PROVE  \E m \in Mentions : Behind(m)' /\ Said(m).target = sqls'[i]
          BY <1>3, <2>2 DEF CasesFound
    <3>2. QED
          BY <1>2, <2>3, <3>1
  <2>8. ASSUME NEW j \in DOMAIN sqls', NEW i \in 1..(j - 1)
        PROVE  sqls'[i] # sqls'[j]
    <3>1. i \in DOMAIN sqls /\ sqls'[i] = sqls[i]
          BY <2>2, <2>4
    <3>2. CASE j \in DOMAIN sqls
          BY <2>2, <3>1, <3>2 DEF CasesFound
    <3>3. CASE j \notin DOMAIN sqls
          BY <2>3, <2>5, <3>1, <3>3
    <3>4. QED
          BY <3>2, <3>3
  <2>9. ASSUME NEW j \in DOMAIN sqls', NEW i \in 1..(j - 1), NEW o \in Mentions,
               Behind(o)', Said(o).target = sqls'[j]
        PROVE  \E m \in Mentions : Said(m).target = sqls'[i] /\ Before(m, o)
    <3>1. i \in DOMAIN sqls /\ sqls'[i] = sqls[i]
          BY <2>2, <2>4
    <3>2. CASE Behind(o)
      <4>1. j \in DOMAIN sqls
            BY <2>3, <2>9, <3>2 DEF CasesFound
      <4>2. sqls'[j] = sqls[j]
            BY <2>2, <4>1
      <4>3. QED
            BY <2>9, <3>1, <3>2, <4>1, <4>2 DEF CasesFound
    <3>3. CASE ~Behind(o)
      <4>1. PICK u \in Mentions : Behind(u) /\ Said(u).target = sqls[i]
            BY <3>1 DEF CasesFound
      <4>2. o = h
            BY <1>3, <2>9, <3>3
      <4>3. QED
            BY <1>4, <3>1, <4>1, <4>2
    <3>4. QED
          BY <3>2, <3>3
  <2>10. QED
         BY <1>5, <2>6, <2>7, <2>8, <2>9 DEF CasesFound, Before
<1>7. TimeoutsFound'
  <2>1. /\ \A s \in DOMAIN timeouts : s \in DOMAIN timeouts' /\ timeouts'[s] = timeouts[s]
        /\ Line.timeout # 0 => timeouts'[Line.target] = Line.timeout
        BY TimeoutsStay
  <2>2. DOMAIN timeouts' = DOMAIN timeouts \cup (IF Line.timeout = 0 THEN {} ELSE {Line.target})
    <3>1. SetTimeout
          BY DEF AddSql
    <3>2. QED
          BY <3>1 DEF SetTimeout
  <2>3. \A m \in Mentions : Behind(m)' /\ IsTimed(m) => Said(m).target \in DOMAIN timeouts'
        BY <1>2, <1>3, <2>2 DEF TimeoutsFound, IsTimed
  <2>4. ASSUME NEW s \in DOMAIN timeouts'
        PROVE  \E m \in Mentions :
                  /\ Behind(m)' /\ IsTimed(m)
                  /\ Said(m).target = s /\ Said(m).timeout = timeouts'[s]
                  /\ \A o \in Mentions :
                        Behind(o)' /\ IsTimed(o) /\ Said(o).target = s => o = m \/ Before(m, o)
    <3>1. CASE s \in DOMAIN timeouts
      <4>1. PICK m \in Mentions :
               /\ Behind(m) /\ IsTimed(m)
               /\ Said(m).target = s /\ Said(m).timeout = timeouts[s]
               /\ \A o \in Mentions :
                     Behind(o) /\ IsTimed(o) /\ Said(o).target = s => o = m \/ Before(m, o)
            BY <3>1 DEF TimeoutsFound
      <4>2. timeouts'[s] = timeouts[s]
            BY <2>1, <3>1
      <4>3. \A o \in Mentions :
               Behind(o)' /\ IsTimed(o) /\ Said(o).target = s => o = m \/ Before(m, o)
            BY <1>3, <1>4, <4>1
      <4>4. QED
            BY <1>3, <4>1, <4>2, <4>3
    <3>2. CASE s \notin DOMAIN timeouts
      <4>1. s = Line.target /\ Line.timeout # 0 /\ timeouts'[s] = Line.timeout
            BY <2>1, <2>2, <3>2
      <4>2. /\ Behind(h)' /\ IsTimed(h)
            /\ Said(h).target = s /\ Said(h).timeout = timeouts'[s]
            BY <1>2, <4>1 DEF IsTimed
      <4>3. \A o \in Mentions : Behind(o) /\ IsTimed(o) => Said(o).target # s
            BY <3>2 DEF TimeoutsFound
      <4>4. \A o \in Mentions : Behind(o)' /\ IsTimed(o) /\ Said(o).target = s => o = h
            BY <1>3, <4>3
      <4>5. QED
            BY <1>2, <4>2, <4>4
    <3>3. QED
          BY <3>1, <3>2
  <2>5. ASSUME NEW s \in DOMAIN timeouts'
        PROVE  (\E m \in Mentions :
                  /\ Behind(m) /\ IsTimed(m)
                  /\ Said(m).target = s /\ Said(m).timeout = timeouts[s]
                  /\ \A o \in Mentions :
                        Behind(o) /\ IsTimed(o) /\ Said(o).target = s => o = m \/ Before(m, o))'
    <3>1. PICK m \in Mentions :
             /\ Behind(m)' /\ IsTimed(m)
             /\ Said(m).target = s /\ Said(m).timeout = timeouts'[s]
             /\ \A o \in Mentions :
                   Behind(o)' /\ IsTimed(o) /\ Said(o).target = s => o = m \/ Before(m, o)
          BY <2>4
    <3>2. /\ m \in Mentions' /\ IsTimed(m)'
          /\ Said(m)'.target = s /\ Said(m)'.timeout = timeouts'[s]
          BY <1>5, <3>1
    <3>3. \A o \in Mentions' :
             Behind(o)' /\ IsTimed(o)' /\ Said(o)'.target = s => o = m \/ Before(m, o)
          BY <1>5, <3>1
    <3>4. QED
          BY <3>1, <3>2, <3>3, Zenon DEF Before
  <2>6. QED
        BY <1>5, <2>3, <2>5 DEF TimeoutsFound
<1>8. QED
      BY <1>6, <1>7

LEMMA FoundStep ==
  ASSUME WalkInv, LinesLead, StackLeads, LinesCovered, CasesFound, TimeoutsFound, [Next]_vars
  PROVE  CasesFound' /\ TimeoutsFound'
<1>1. CASE CycleInclude \/ NotFound \/ OutsideRoot
      BY <1>1, RefusedFinds
<1>2. CASE SeenBefore
      BY <1>2, SeenFinds
<1>3. CASE Unreadable
      BY <1>3, UnreadableFinds
<1>4. CASE Open
      BY <1>4, OpenFinds
<1>5. CASE RejectLine
      BY <1>5, RejectFinds
<1>6. CASE AddSql
      BY <1>6, AddSqlFinds
<1>7. CASE IncludeTs
  <2>1. UNCHANGED <<tree, sqls, timeouts>>
        BY <1>7 DEF IncludeTs, TakeLine, found
  <2>2. \A m : Behind(m)' <=> Behind(m)
        BY <1>7, IncludeStays DEF WalkInv
  <2>3. QED
        BY <2>1, <2>2, FoundSame
<1>8. CASE Return
  <2>1. UNCHANGED <<tree, sqls, timeouts>>
        BY <1>8 DEF Return, found
  <2>2. \A m \in Mentions : Behind(m)' <=> Behind(m)
        BY <1>8, ReturnStays
  <2>3. QED
        BY <2>1, <2>2, FoundSame
<1>9. CASE UNCHANGED vars
  <2>1. UNCHANGED <<tree, call, stack, trace, sqls, timeouts>>
        BY <1>9 DEF vars
  <2>2. \A m : Behind(m)' <=> Behind(m)
        BY <2>1 DEF Behind, Here, AtLine
  <2>3. QED
        BY <2>1, <2>2, FoundSame
<1>10. QED
  <2>1. \/ CycleInclude \/ SeenBefore \/ NotFound \/ OutsideRoot \/ Unreadable
        \/ Open \/ RejectLine \/ IncludeTs \/ AddSql \/ Return \/ UNCHANGED vars
        BY DEF Next, EnterTs, ReadTs
  <2>2. QED
        BY <1>1, <1>2, <1>3, <1>4, <1>5, <1>6, <1>7, <1>8, <1>9, <2>1, Zenon

LEMMA FoundInit ==
  ASSUME Init
  PROVE  CasesFound /\ TimeoutsFound
<1>1. stack = <<>> /\ trace = <<>> /\ DOMAIN sqls = {} /\ DOMAIN timeouts = {}
      BY DEF Init
<1>2. \A m : ~Behind(m)
      BY <1>1 DEF Behind
<1>3. QED
      BY <1>1, <1>2 DEF CasesFound, TimeoutsFound

\* A walk that has ended has left everything behind.
LEMMA AllIsBehind ==
  ASSUME WalkInv, StackLeads, Finished, NEW m \in Mentions
  PROVE  Behind(m)
<1>1. call = NoCall /\ stack = <<>>
      BY DEF Finished
<1>2. m[1][1] = tree.root /\ 1 \in DOMAIN m
      BY MentionFacts DEF WalkInv
<1>3. IsReadable(m[1][1])
      BY <1>2, MentionFacts DEF WalkInv
<1>4. trace # <<>>
  <2>1. m[1][1] \in TsFiles
        BY <1>2, MentionFacts, LinesOfSuite DEF WalkInv
  <2>2. QED
        BY <1>1, <1>2, <1>3, <2>1 DEF StackLeads
<1>5. QED
      BY <1>1, <1>4 DEF Behind

\* When the walk has come to its end, all mentions are behind it.
LEMMA AllIsFound ==
  ASSUME WalkInv, StackLeads, CasesFound, TimeoutsFound
  PROVE  CasesAreFirstMentions
<1> DEFINE Of(plan) == {m \in Mentions : Said(m).target = plan.test}
           TimedOf(plan) == {m \in Of(plan) : Said(m).timeout # 0}
<1>1. SUFFICES ASSUME Parsed
      PROVE  /\ {AllPlans[i].test : i \in DOMAIN AllPlans} = {Said(m).target : m \in Mentions}
             /\ \A j \in DOMAIN AllPlans : \A i \in 1..(j - 1) :
                   /\ AllPlans[i].test # AllPlans[j].test
                   /\ \A o \in Of(AllPlans[j]) : \E m \in Of(AllPlans[i]) : Before(m, o)
             /\ \A i \in DOMAIN AllPlans :
                   IF TimedOf(AllPlans[i]) = {} THEN AllPlans[i].timeout = 0
                   ELSE \E m \in TimedOf(AllPlans[i]) :
                           /\ IsFirst(m, TimedOf(AllPlans[i]))
                           /\ Said(m).timeout = AllPlans[i].timeout
      BY DEF CasesAreFirstMentions
<1>2. call = NoCall /\ stack = <<>> /\ tree.root \in TsFiles
      BY <1>1 DEF Parsed, Finished
<1>3. ASSUME NEW m \in Mentions
      PROVE  Behind(m)
      BY <1>2, AllIsBehind DEF Finished
<1>4. /\ DOMAIN AllPlans = DOMAIN sqls /\ DOMAIN sqls = 1..Len(sqls) /\ Len(sqls) \in Nat
      /\ \A i \in DOMAIN sqls :
            /\ AllPlans[i].test = sqls[i]
            /\ AllPlans[i].timeout = IF sqls[i] \in DOMAIN timeouts THEN timeouts[sqls[i]] ELSE 0
  <2>1. ~IsSingle
        BY <1>2, FilesAssumption DEF IsSingle
  <2>2. SqlPaths = sqls /\ sqls \in Seq(SqlFiles)
        BY <2>1 DEF SqlPaths, WalkInv, WalkTypes
  <2>3. QED
        BY <2>2 DEF AllPlans, PlanOf
<1>5. {AllPlans[i].test : i \in DOMAIN AllPlans} = {Said(m).target : m \in Mentions}
  <2>1. \A m \in Mentions : \E i \in DOMAIN sqls : Said(m).target = sqls[i]
        BY <1>3 DEF CasesFound, Range
  <2>2. \A i \in DOMAIN sqls : \E m \in Mentions : Said(m).target = sqls[i]
        BY DEF CasesFound
  <2>3. QED
        BY <1>4, <2>1, <2>2
<1>6. ASSUME NEW j \in DOMAIN AllPlans, NEW i \in 1..(j - 1)
      PROVE  /\ AllPlans[i].test # AllPlans[j].test
             /\ \A o \in Of(AllPlans[j]) : \E m \in Of(AllPlans[i]) : Before(m, o)
  <2>1. j \in DOMAIN sqls /\ i \in DOMAIN sqls
    <3>1. \A n \in Nat : \A k \in 1..n : \A l \in 1..(k - 1) : l \in 1..n
          OBVIOUS
    <3>2. QED
          BY <1>4, <3>1
  <2>2. AllPlans[i].test = sqls[i] /\ AllPlans[j].test = sqls[j]
        BY <1>4, <2>1
  <2>3. QED
        BY <1>3, <2>1, <2>2 DEF CasesFound
<1>7. ASSUME NEW i \in DOMAIN AllPlans
      PROVE  IF TimedOf(AllPlans[i]) = {} THEN AllPlans[i].timeout = 0
             ELSE \E m \in TimedOf(AllPlans[i]) :
                     /\ IsFirst(m, TimedOf(AllPlans[i]))
                     /\ Said(m).timeout = AllPlans[i].timeout
  <2>1. /\ AllPlans[i].test = sqls[i]
        /\ AllPlans[i].timeout = IF sqls[i] \in DOMAIN timeouts THEN timeouts[sqls[i]] ELSE 0
        BY <1>4
  <2>2. \A m : m \in TimedOf(AllPlans[i]) <=>
                  m \in Mentions /\ Said(m).target = sqls[i] /\ IsTimed(m)
        BY <2>1 DEF IsTimed
  <2>3. CASE sqls[i] \in DOMAIN timeouts
    <3>1. PICK m \in Mentions :
             /\ IsTimed(m) /\ Said(m).target = sqls[i] /\ Said(m).timeout = timeouts[sqls[i]]
             /\ \A o \in Mentions :
                   IsTimed(o) /\ Said(o).target = sqls[i] => o = m \/ Before(m, o)
          BY <1>3, <2>3 DEF TimeoutsFound
    <3>2. IsFirst(m, TimedOf(AllPlans[i])) /\ m \in TimedOf(AllPlans[i])
          BY <2>2, <3>1 DEF IsFirst
    <3>3. QED
          BY <2>1, <2>3, <3>1, <3>2
  <2>4. CASE sqls[i] \notin DOMAIN timeouts
    <3>1. TimedOf(AllPlans[i]) = {}
          BY <1>3, <2>2, <2>4 DEF TimeoutsFound
    <3>2. QED
          BY <2>1, <2>4, <3>1
  <2>5. QED
        BY <2>3, <2>4
<1>8. QED
      BY <1>5, <1>6, <1>7

\* However the files of a suite include each other, the plans are its cases in
\* the order of their first mention in the expanded suite, each with the first
\* timeout that the expanded suite gives it (parse_suite, build_case_plans).
THEOREM CasesInOrder ==
  PlansSpec => []CasesAreFirstMentions
<1>1. Init => LinesLead /\ StackLeads /\ LinesCovered /\ CasesFound /\ TimeoutsFound
      BY LinesLeadInit, StackLeadsInit, LinesCoveredInit, FoundInit
<1>2. WalkInv /\ LinesLead /\ StackLeads /\ LinesCovered /\ CasesFound /\ TimeoutsFound
      /\ [Next]_vars
      => (LinesLead /\ StackLeads /\ LinesCovered /\ CasesFound /\ TimeoutsFound)'
      BY LinesLeadStep, StackLeadsStep, LinesCoveredStep, FoundStep
<1>3. Spec => [](LinesLead /\ StackLeads /\ LinesCovered /\ CasesFound /\ TimeoutsFound)
      BY <1>1, <1>2, WalkInvariance, PTL DEF Spec
<1>4. WalkInv /\ StackLeads /\ CasesFound /\ TimeoutsFound => CasesAreFirstMentions
      BY AllIsFound
<1>5. QED
      BY <1>3, <1>4, WalkUnderPlans, WalkInvariance, PTL

(***************************************************************************)
(* The headings.  The owner of a case is the file of its first mention,    *)
(* and what a reader takes the next line to be under is what is shown.     *)
(***************************************************************************)
\* Each file of the way is recorded to be included by the one before.
IsAncestry(m) ==
    \A d \in DOMAIN m :
        /\ m[d][1] \in Range(trace)
        /\ parent[m[d][1]] = IF d = 1 THEN NoFile ELSE m[d - 1][1]

OwnersFound ==
    \A i \in DOMAIN sqls : \E m \in Mentions :
        /\ Behind(m) /\ Said(m).target = sqls[i]
        /\ \A o \in Mentions : Behind(o) /\ Said(o).target = sqls[i] => o = m \/ Before(m, o)
        /\ m[Len(m)][1] = sources[i] /\ IsAncestry(m)

Printed == [depth : Nat, file : TsFiles \cup SqlFiles]

\* No step takes back a mention that is behind the walk, and those that it
\* leaves behind are below those that were behind.
LEMMA MentionsMove ==
  ASSUME WalkInv, LinesLead, StackLeads, [Next]_vars
  PROVE  \A m \in Mentions :
            /\ Behind(m) => Behind(m)'
            /\ Behind(m)' /\ ~Behind(m) => stack # <<>> /\ Through(m)
<1>1. CASE CycleInclude \/ SeenBefore \/ NotFound \/ OutsideRoot
  <2>1. /\ call # NoCall /\ call' = NoCall /\ stack' = stack /\ trace' = trace
        BY <1>1 DEF CycleInclude, SeenBefore, NotFound, OutsideRoot, IsNew, visited
  <2>2. CASE stack = <<>>
    <3>1. \A m : Behind(m)' <=> Behind(m)
          BY <2>1, <2>2 DEF Behind
    <3>2. QED
          BY <3>1
  <2>3. CASE stack # <<>>
        BY <2>1, <2>3, CallMoves DEF WalkInv
  <2>4. QED
        BY <2>2, <2>3
<1>2. CASE Unreadable
  <2>1. call # NoCall /\ call' = NoCall /\ stack' = stack /\ ~IsReadable(call.ts)
        BY <1>2 DEF Unreadable, Visit, IsNew, IsReadable
  <2>2. CASE stack = <<>>
    <3>1. call.ts = tree.root
          BY <2>1, <2>2 DEF StackLeads
    <3>2. \A m \in Mentions : FALSE
      <4>1. \A m \in Mentions : m[1][1] = tree.root /\ 1 \in DOMAIN m
            BY MentionFacts DEF WalkInv
      <4>2. \A m \in Mentions : IsReadable(m[1][1])
            BY <4>1, MentionFacts DEF WalkInv
      <4>3. QED
            BY <2>1, <3>1, <4>1, <4>2
    <3>3. QED
          BY <3>2
  <2>3. CASE stack # <<>>
        BY <2>1, <2>3, CallMoves DEF WalkInv
  <2>4. QED
        BY <2>2, <2>3
<1>3. CASE Open
  <2>1. CASE stack = <<>>
    <3>1. trace = <<>>
          BY <1>3, <2>1 DEF WalkInv, OpenFiles, Open, Visit, IsNew
    <3>2. \A m : ~Behind(m)
          BY <2>1, <3>1 DEF Behind
    <3>3. QED
          BY <1>3, <2>1, <3>2, SuiteOpens
  <2>2. CASE stack # <<>>
        BY <1>3, <2>2, OpenStays
  <2>3. QED
        BY <2>1, <2>2
<1>4. CASE RejectLine \/ AddSql
  <2>1. TakeLine /\ call' = NoCall /\ stack # <<>>
        BY <1>4 DEF RejectLine, AddSql, TakeLine
  <2>2. QED
        BY <2>1, TakeMoves DEF WalkInv
<1>5. CASE IncludeTs
      BY <1>5, IncludeStays DEF WalkInv
<1>6. CASE Return
      BY <1>6, ReturnStays
<1>7. CASE UNCHANGED vars
  <2>1. UNCHANGED <<call, stack, trace>>
        BY <1>7 DEF vars
  <2>2. \A m : Behind(m)' <=> Behind(m)
        BY <2>1 DEF Behind, Here, AtLine
  <2>3. QED
        BY <2>2
<1>8. QED
  <2>1. \/ CycleInclude \/ SeenBefore \/ NotFound \/ OutsideRoot \/ Unreadable
        \/ Open \/ RejectLine \/ IncludeTs \/ AddSql \/ Return \/ UNCHANGED vars
        BY DEF Next, EnterTs, ReadTs
  <2>2. QED
        BY <1>1, <1>2, <1>3, <1>4, <1>5, <1>6, <1>7, <2>1, Zenon

\* What is recorded of a visited file does not change.
LEMMA ParentsKept ==
  ASSUME WalkInv, [Next]_vars
  PROVE  \A f \in Range(trace) : f \in Range(trace') /\ parent'[f] = parent[f]
<1>1. CASE Unreadable \/ Open
  <2>1. Visit
        BY <1>1 DEF Unreadable, Open
  <2>2. QED
        BY <2>1, VisitFacts DEF WalkInv
<1>2. CASE UNCHANGED <<trace, parent>>
      BY <1>2
<1>3. QED
  <2>1. \/ CycleInclude \/ SeenBefore \/ NotFound \/ OutsideRoot \/ Unreadable
        \/ Open \/ RejectLine \/ IncludeTs \/ AddSql \/ Return \/ UNCHANGED vars
        BY DEF Next, EnterTs, ReadTs
  <2>2. \/ Unreadable \/ Open
        \/ UNCHANGED <<trace, parent>>
        BY <2>1 DEF CycleInclude, SeenBefore, NotFound, OutsideRoot, RejectLine, IncludeTs,
           AddSql, TakeLine, Return, visited, vars
  <2>3. QED
        BY <1>1, <1>2, <2>2

\* The files of the way to the line that the walk is at.
LEMMA HereIsAncestry ==
  ASSUME WalkInv, stack # <<>>
  PROVE  IsAncestry(Here)
<1>1. /\ DOMAIN Here = DOMAIN stack /\ DOMAIN stack = 1..Len(stack) /\ Len(stack) \in Nat
      /\ \A i \in DOMAIN stack : Here[i][1] = stack[i].ts
      BY HereFacts DEF WalkInv
<1>2. \A i \in DOMAIN stack : i # 1 => i - 1 \in DOMAIN stack
      BY <1>1
<1>3. \A i \in DOMAIN stack :
         parent[stack[i].ts] = (IF i = 1 THEN NoFile ELSE stack[i - 1].ts)
      BY DEF WalkInv, ParentsComeFirst
<1>4. \A i \in DOMAIN stack : stack[i].ts \in Range(trace)
      BY DEF WalkInv, OpenFiles
<1>5. QED
      BY <1>1, <1>2, <1>3, <1>4 DEF IsAncestry

\* A case that is added, with the file that is its source.
LEMMA SourcesGrow ==
  ASSUME WalkTypes, AddSql
  PROVE  \/ UNCHANGED <<sqls, sources>>
         \/ /\ Line.target \notin Range(sqls)
            /\ DOMAIN sqls' = DOMAIN sqls \cup {Len(sqls) + 1} /\ Len(sqls) + 1 \notin DOMAIN sqls
            /\ \A i \in DOMAIN sqls : sqls'[i] = sqls[i] /\ sources'[i] = sources[i]
            /\ sqls'[Len(sqls) + 1] = Line.target /\ sources'[Len(sqls) + 1] = Top.ts
<1>1. /\ sqls \in Seq(SqlFiles) /\ sources \in Seq(TsFiles) /\ Len(sources) = Len(sqls)
      /\ Line.target \in SqlFiles /\ Top.ts \in TsFiles
      BY TopFacts DEF WalkTypes, AddSql, TakeLine
<1>2. CASE Line.target \in Range(sqls)
      BY <1>2 DEF AddSql, AppendSql
<1>3. CASE Line.target \notin Range(sqls)
  <2>1. sqls' = Append(sqls, Line.target) /\ sources' = Append(sources, Top.ts)
        BY <1>3 DEF AddSql, AppendSql
  <2>2. /\ DOMAIN sqls' = DOMAIN sqls \cup {Len(sqls) + 1} /\ Len(sqls) + 1 \notin DOMAIN sqls
        /\ \A i \in DOMAIN sqls : sqls'[i] = sqls[i]
        /\ sqls'[Len(sqls) + 1] = Line.target /\ DOMAIN sqls = 1..Len(sqls)
        BY <1>1, <2>1, Appended
  <2>3. /\ \A i \in DOMAIN sources : sources'[i] = sources[i]
        /\ sources'[Len(sources) + 1] = Top.ts /\ DOMAIN sources = 1..Len(sources)
        BY <1>1, <2>1, Appended
  <2>4. QED
        BY <1>1, <1>3, <2>2, <2>3
<1>4. QED
      BY <1>2, <1>3

LEMMA OwnersStep ==
  ASSUME WalkInv, LinesLead, StackLeads, CasesFound, OwnersFound, [Next]_vars
  PROVE  OwnersFound'
<1>1. /\ tree' = tree
      /\ UNCHANGED <<sqls, sources>> \/ AddSql
  <2>1. \/ CycleInclude \/ SeenBefore \/ NotFound \/ OutsideRoot \/ Unreadable
        \/ Open \/ RejectLine \/ IncludeTs \/ AddSql \/ Return \/ UNCHANGED vars
        BY DEF Next, EnterTs, ReadTs
  <2>2. QED
        BY <2>1 DEF CycleInclude, SeenBefore, NotFound, OutsideRoot, Unreadable, Open,
           RejectLine, IncludeTs, AddSql, TakeLine, Return, found, vars
<1>2. /\ Mentions' = Mentions
      /\ \A m : Said(m)' = Said(m)
      BY <1>1, TreeSame
<1>3. \A m \in Mentions :
         /\ Behind(m) => Behind(m)'
         /\ Behind(m)' /\ ~Behind(m) => stack # <<>> /\ Through(m)
      BY MentionsMove
<1>4. \A u, o \in Mentions : Behind(u) /\ Behind(o)' /\ ~Behind(o) => Before(u, o)
      BY <1>3, BehindAfter DEF WalkInv
<1>5. \A m : IsAncestry(m) => IsAncestry(m)'
  <2>1. \A f \in Range(trace) : f \in Range(trace') /\ parent'[f] = parent[f]
        BY ParentsKept
  <2>2. QED
        BY <2>1 DEF IsAncestry
<1> DEFINE Owns(i, m) ==
             /\ Behind(m)' /\ Said(m).target = sqls'[i]
             /\ \A o \in Mentions : Behind(o)' /\ Said(o).target = sqls'[i] => o = m \/ Before(m, o)
             /\ m[Len(m)][1] = sources'[i] /\ IsAncestry(m)'
<1>6. ASSUME NEW i \in DOMAIN sqls, sqls'[i] = sqls[i], sources'[i] = sources[i]
      PROVE  \E m \in Mentions : Owns(i, m)
  <2>1. PICK m \in Mentions :
           /\ Behind(m) /\ Said(m).target = sqls[i]
           /\ \A o \in Mentions : Behind(o) /\ Said(o).target = sqls[i] => o = m \/ Before(m, o)
           /\ m[Len(m)][1] = sources[i] /\ IsAncestry(m)
        BY DEF OwnersFound
  <2>2. \A o \in Mentions : Behind(o)' /\ Said(o).target = sqls'[i] => o = m \/ Before(m, o)
        BY <1>4, <1>6, <2>1
  <2>3. Owns(i, m)
        BY <1>3, <1>5, <1>6, <2>1, <2>2
  <2>4. QED
        BY <2>3
<1>7. ASSUME NEW i, AddSql, Line.target \notin Range(sqls), sqls'[i] = Line.target,
             sources'[i] = Top.ts
      PROVE  \E m \in Mentions : Owns(i, m)
  <2>1. PICK h : h = Here
        OBVIOUS
  <2>2. TakeLine /\ stack # <<>> /\ Line.target \in SqlFiles
        BY <1>7 DEF AddSql, TakeLine
  <2>3. /\ h \in Mentions /\ Said(h) = Line /\ Through(h) /\ Behind(h)'
        BY <1>7, <2>1, HereIsMention
  <2>4. h[Len(h)][1] = Top.ts
    <3>1. /\ Len(stack) \in DOMAIN h /\ h[Len(stack)] = <<Top.ts, Top.at>>
          /\ LineOf(h[Len(stack)]) = Line
          BY <2>2, <2>3, ThroughLine
    <3>2. Len(stack) = Len(h)
          BY <2>2, <2>3, <3>1, MentionEnds DEF WalkInv
    <3>3. QED
          BY <3>1, <3>2
  <2>5. IsAncestry(h)'
        BY <1>5, <2>1, <2>2, HereIsAncestry
  <2>6. ASSUME NEW o \in Mentions, Behind(o)', Said(o).target = sqls'[i]
        PROVE  o = h
    <3>1. ~Behind(o)
          BY <1>7, <2>6 DEF CasesFound
    <3>2. Through(o)
          BY <1>3, <2>6, <3>1
    <3>3. QED
          BY <2>1, <2>2, <3>2, ThroughLine
  <2>7. Owns(i, h)
        BY <1>7, <2>3, <2>4, <2>5, <2>6
  <2>8. QED
        BY <2>3, <2>7
<1>8. \A i \in DOMAIN sqls' : \E m \in Mentions : Owns(i, m)
  <2> HIDE DEF Owns
  <2>1. CASE UNCHANGED <<sqls, sources>>
        BY <1>6, <2>1
  <2>2. CASE AddSql
        BY <1>6, <1>7, <2>2, SourcesGrow DEF WalkInv
  <2>3. QED
        BY <1>1, <2>1, <2>2
<1>9. ASSUME NEW i \in DOMAIN sqls'
      PROVE  (\E m \in Mentions :
                /\ Behind(m) /\ Said(m).target = sqls[i]
                /\ \A o \in Mentions :
                      Behind(o) /\ Said(o).target = sqls[i] => o = m \/ Before(m, o)
                /\ m[Len(m)][1] = sources[i] /\ IsAncestry(m))'
  <2>1. PICK m \in Mentions : Owns(i, m)
        BY <1>8
  <2>2. /\ m \in Mentions' /\ Said(m)'.target = sqls'[i]
        /\ \A o \in Mentions' : Behind(o)' /\ Said(o)'.target = sqls'[i] => o = m \/ Before(m, o)
        BY <1>2, <2>1
  <2>3. QED
        BY <2>1, <2>2, Zenon DEF Before
<1>10. QED
       BY <1>9 DEF OwnersFound

LEMMA OwnersInit ==
  ASSUME Init
  PROVE  OwnersFound
BY DEF Init, OwnersFound

\* The files from the suite to a case, when each is recorded to be included by
\* the one before, are the chain of the last of them.
LEMMA AncestryFacts ==
  ASSUME WalkTypes, NEW m \in Mentions, IsAncestry(m), NEW g, g = [d \in 1..Len(m) |-> m[d][1]]
  PROVE  /\ Len(m) \in Nat \ {0} /\ Len(m) <= Cardinality(TsFiles)
         /\ g \in [1..Len(m) -> TsFiles] /\ Len(g) = Len(m) /\ DOMAIN g = 1..Len(m)
         /\ \A i, j \in 1..Len(m) : g[i] = g[j] => i = j
         /\ ParentOf(g[1]) = NoFile
         /\ \A i \in 1..Len(m) : i # 1 => ParentOf(g[i]) = g[i - 1]
<1> DEFINE n == Len(m)
<1>1. PICK k \in 1..Cardinality(TsFiles) : m \in [1..k -> AllLines]
      BY DEF Mentions
<1>2. /\ n \in Nat \ {0} /\ DOMAIN m = 1..n
      /\ \A i \in DOMAIN m : m[i] \in AllLines
      /\ \A i, j \in DOMAIN m : m[i][1] = m[j][1] => i = j
      BY MentionFacts
<1> HIDE DEF n
<1>3. n <= Cardinality(TsFiles)
  <2>1. Cardinality(TsFiles) \in Nat
        BY FiniteAssumption, FS_CardinalityType
  <2>2. k \in Nat \ {0} /\ k <= Cardinality(TsFiles) /\ DOMAIN m = 1..k
        BY <1>1, <2>1
  <2>3. n = k
    <3>1. n \in 1..n /\ k \in 1..k
          BY <1>2, <2>2
    <3>2. n \in 1..k /\ k \in 1..n
          BY <1>2, <2>2, <3>1
    <3>3. QED
          BY <1>2, <2>2, <3>2
  <2>4. QED
        BY <2>2, <2>3
<1>4. \A i \in 1..n : m[i][1] \in TsFiles
      BY <1>2, LinesOfSuite
<1>5. g = [d \in 1..n |-> m[d][1]]
      BY DEF n
<1>6. g \in [1..n -> TsFiles] /\ DOMAIN g = 1..n /\ \A i \in 1..n : g[i] = m[i][1]
      BY <1>4, <1>5
<1>7. Len(g) = n
      BY <1>2, <1>6, SeqDef, LenProperties
<1>8. \A i \in 1..n : ParentOf(g[i]) = IF i = 1 THEN NoFile ELSE m[i - 1][1]
  <2>1. DOMAIN parent = Range(trace)
        BY DEF WalkTypes
  <2>2. QED
        BY <1>2, <1>6, <2>1 DEF IsAncestry, ParentOf
<1>9. 1 \in 1..n /\ \A i \in 1..n : i # 1 => i - 1 \in 1..n
      BY <1>2
<1>10. QED
       BY <1>2, <1>3, <1>6, <1>7, <1>8, <1>9 DEF n

LEMMA ChainOfAncestry ==
  ASSUME WalkTypes, NEW m \in Mentions, IsAncestry(m)
  PROVE  Chain(m[Len(m)][1]) = [d \in 1..Len(m) |-> m[d][1]]
<1> DEFINE n == Len(m)
           ts == m[n][1]
           g == [d \in 1..n |-> m[d][1]]
           Chains == UNION {[1..k -> TsFiles] : k \in 0..Cardinality(TsFiles)}
<1>1. /\ n \in Nat \ {0} /\ n <= Cardinality(TsFiles)
      /\ g \in [1..n -> TsFiles] /\ Len(g) = n /\ DOMAIN g = 1..n
      /\ \A i, j \in 1..n : g[i] = g[j] => i = j
      /\ ParentOf(g[1]) = NoFile
      /\ \A i \in 1..n : i # 1 => ParentOf(g[i]) = g[i - 1]
  <2>1. PICK f : f = g
        OBVIOUS
  <2>2. QED
        BY <2>1, AncestryFacts
<1>2. g[n] = ts /\ ts \in TsFiles
  <2>1. n \in 1..n
        BY <1>1
  <2>2. QED
        BY <1>1, <2>1
<1> HIDE DEF n, ts, g
<1>3. g \in Chains
  <2>1. Cardinality(TsFiles) \in Nat
        BY FiniteAssumption, FS_CardinalityType
  <2>2. n \in 0..Cardinality(TsFiles)
        BY <1>1, <2>1
  <2>3. QED
        BY <1>1, <2>2
<1>4. IsChain(g, ts)
  <2>1. \A i \in 1..n : i # n => i + 1 \in 1..n /\ i + 1 # 1 /\ i + 1 - 1 = i
        BY <1>1
  <2>2. \A i \in DOMAIN g : g[i] = IF i = n THEN ts ELSE ParentOf(g[i + 1])
        BY <1>1, <1>2, <2>1
  <2>3. 0 # n /\ 0 + 1 = 1
        BY <1>1
  <2>4. NoFile \notin TsFiles
        BY FilesAssumption
  <2>5. QED
        BY <1>1, <2>2, <2>3, <2>4 DEF IsChain
<1>5. ASSUME NEW c \in Chains, IsChain(c, ts)
      PROVE  c = g
  <2>1. PICK k \in 0..Cardinality(TsFiles) : c \in [1..k -> TsFiles]
        OBVIOUS
  <2>2. k \in Nat /\ Len(c) = k /\ DOMAIN c = 1..k
    <3>1. Cardinality(TsFiles) \in Nat
          BY FiniteAssumption, FS_CardinalityType
    <3>2. k \in Nat
          BY <3>1
    <3>3. QED
          BY <2>1, <3>2, SeqDef, LenProperties
  <2>3. /\ \A i \in 1..k : c[i] = IF i = k THEN ts ELSE ParentOf(c[i + 1])
        /\ (IF 0 = k THEN ts ELSE ParentOf(c[0 + 1])) \notin TsFiles \ Range(c)
        BY <1>5, <2>2 DEF IsChain
  <2>4. k # 0
    <3>1. SUFFICES ASSUME k = 0 PROVE FALSE
          OBVIOUS
    <3>2. DOMAIN c = {}
          BY <2>2, <3>1
    <3>3. Range(c) = {}
          BY <3>2 DEF Range
    <3>4. QED
          BY <1>2, <2>3, <3>1, <3>3
  <2> HIDE DEF Chains
  <2> DEFINE Off == {j \in Nat : j < n /\ j < k /\ c[k - j] # g[n - j]}
  <2>5. Off = {}
    <3>1. SUFFICES ASSUME Off # {} PROVE FALSE
          OBVIOUS
    <3>2. PICK j \in Off : \A l \in Off : ~(l < j)
      <4>1. Off \in SUBSET Nat
            OBVIOUS
      <4>2. QED
            BY <3>1, <4>1, LeastNumber
    <3>3. j \in Nat /\ j < n /\ j < k /\ c[k - j] # g[n - j]
          OBVIOUS
    <3>4. j # 0
      <4>1. k \in 1..k /\ k - 0 = k /\ n - 0 = n
            BY <1>1, <2>2, <2>4
      <4>2. QED
            BY <1>2, <2>3, <3>3, <4>1
    <3> DEFINE l == j - 1
               a == k - j
               b == n - j
    <3>5. /\ l \in Nat /\ l < j /\ l < n /\ l < k
          /\ k - l = a + 1 /\ n - l = b + 1
          /\ a \in 1..k /\ a # k /\ b \in 1..n /\ b + 1 \in 1..n /\ b + 1 # 1 /\ b + 1 - 1 = b
          BY <1>1, <2>2, <3>3, <3>4
    <3>6. c[k - l] = g[n - l]
          BY <3>2, <3>5
    <3>7. c[a] # g[b]
          BY <3>3
    <3> HIDE DEF l, a, b
    <3>8. c[a] = ParentOf(c[a + 1]) /\ ParentOf(g[b + 1]) = g[b]
      <4>1. c[a] = ParentOf(c[a + 1])
            BY <2>3, <3>5
      <4>2. \A i \in 1..n : i # 1 => ParentOf(g[i]) = g[i - 1]
            BY <1>1
      <4>3. \A i \in 1..n : i # 1 /\ i - 1 = b => ParentOf(g[i]) = g[b]
            BY <4>2
      <4>4. ParentOf(g[b + 1]) = g[b]
            BY <3>5, <4>3
      <4>5. QED
            BY <4>1, <4>4
    <3>9. QED
          BY <3>5, <3>6, <3>7, <3>8
  <2>6. \A j \in Nat : j < n /\ j < k => c[k - j] = g[n - j]
        BY <2>5
  <2> HIDE DEF Off
  <2>7. ~(k > n)
    <3>1. SUFFICES ASSUME k > n PROVE FALSE
          OBVIOUS
    <3> DEFINE j == n - 1
               a == k - n
    <3>2. /\ j \in Nat /\ j < n /\ j < k /\ k - j = a + 1 /\ n - j = 1
          /\ a \in 1..k /\ a # k
          BY <1>1, <2>2, <3>1
    <3> HIDE DEF j, a
    <3>3. c[a + 1] = g[1]
          BY <2>6, <3>2
    <3>4. c[a] = NoFile
          BY <1>1, <2>3, <3>2, <3>3
    <3>5. c[a] \in TsFiles
          BY <2>1, <3>2
    <3>6. QED
          BY <3>4, <3>5, FilesAssumption
  <2>8. ~(k < n)
    <3>1. SUFFICES ASSUME k < n PROVE FALSE
          OBVIOUS
    <3> DEFINE j == k - 1
               b == n - k
    <3>2. /\ j \in Nat /\ j < n /\ j < k /\ k - j = 1 /\ n - j = b + 1
          /\ b + 1 \in 1..n /\ b + 1 # 1 /\ b + 1 - 1 = b /\ b \in 1..n
          BY <1>1, <2>2, <2>4, <3>1
    <3>3. \A i \in 1..k : LET l == k - i IN
             l \in Nat /\ l < n /\ l < k /\ k - l = i /\ n - l # b /\ n - l \in 1..n
          BY <1>1, <2>2, <3>1
    <3> HIDE DEF j, b
    <3>4. c[1] = g[b + 1]
          BY <2>6, <3>2
    <3>5. ParentOf(c[0 + 1]) = g[b] /\ g[b] \in TsFiles
          BY <1>1, <3>2, <3>4
    <3>6. g[b] \in Range(c)
          BY <2>3, <2>4, <3>5
    <3>7. PICK i \in 1..k : g[b] = c[i]
          BY <2>2, <3>6 DEF Range
    <3> DEFINE l == k - i
    <3>8. l \in Nat /\ l < n /\ l < k /\ k - l = i /\ n - l # b /\ n - l \in 1..n
          BY <3>3
    <3> HIDE DEF l
    <3>9. c[i] = g[n - l]
          BY <2>6, <3>8
    <3>10. QED
           BY <1>1, <3>2, <3>7, <3>8, <3>9
  <2>9. k = n
        BY <1>1, <2>2, <2>7, <2>8
  <2>10. ASSUME NEW i \in 1..n
         PROVE  c[i] = g[i]
    <3>1. n - i \in Nat /\ n - i < n /\ n - (n - i) = i
          BY <1>1
    <3>2. QED
          BY <2>6, <2>9, <3>1
  <2>11. QED
         BY <1>1, <2>1, <2>9, <2>10
<1>6. Chain(ts) = CHOOSE c \in Chains : IsChain(c, ts)
      BY DEF Chain
<1> HIDE DEF Chains
<1>7. Chain(ts) = g
      BY <1>3, <1>4, <1>5, <1>6
<1>8. QED
      BY <1>7 DEF n, ts, g

\* The two begin with the same c files.
BeginAlike(s, t, c) ==
    /\ c \in Nat /\ c <= Len(s) /\ c <= Len(t)
    /\ \A d \in 1..c : s[d] = t[d]

\* What two sequences have in common is the beginning of both.
LEMMA CommonBeginning ==
  ASSUME NEW T, NEW s \in Seq(T), NEW t \in Seq(T),
         NEW n, n = Len(S!LongestCommonPrefix({s, t}))
  PROVE  BeginAlike(s, t, n)
<1> DEFINE P == S!CommonPrefixes({s, t})
           Lens == {l \in Nat : \E p \in P : Len(s) - Len(p) = l}
<1>1. /\ Len(s) \in Nat /\ Len(t) \in Nat
      OBVIOUS
<1>2. \A p \in P : \E u \in {s, t} : \E l \in 0..Len(u) : p = SubSeq(u, 1, l)
      BY DEF S!CommonPrefixes, S!Prefixes
<1>3. ASSUME NEW p \in P
      PROVE  /\ p \in Seq(T) /\ Len(p) \in Nat /\ Len(p) <= Len(s) /\ Len(p) <= Len(t)
             /\ \A d \in 1..Len(p) : s[d] = p[d] /\ t[d] = p[d]
  <2>1. S!IsPrefix(p, s) /\ S!IsPrefix(p, t)
        BY DEF S!CommonPrefixes
  <2>2. p \in Seq(T)
    <3>1. PICK u \in {s, t}, l \in Nat : l <= Len(u) /\ p = SubSeq(u, 1, l)
      <4>1. PICK u \in {s, t} : \E l \in 0..Len(u) : p = SubSeq(u, 1, l)
            BY <1>2
      <4>2. PICK l \in 0..Len(u) : p = SubSeq(u, 1, l)
            BY <4>1
      <4>3. l \in Nat /\ l <= Len(u)
            BY <1>1
      <4>4. QED
            BY <4>2, <4>3
    <3>2. u \in Seq(T)
          OBVIOUS
    <3>3. SubSeq(u, 1, l) \in Seq(T)
          BY <3>1, <3>2
    <3>4. QED
          BY <3>1, <3>3
  <2>3. ASSUME NEW u \in Seq(T), S!IsPrefix(p, u)
        PROVE  Len(p) <= Len(u) /\ \A d \in 1..Len(p) : u[d] = p[d]
    <3>1. Len(p) <= Len(u) /\ SubSeq(p, 1, Len(p)) = SubSeq(u, 1, Len(p))
          BY <2>3 DEF S!IsPrefix
    <3>2. \A d \in 1..Len(p) : SubSeq(p, 1, Len(p))[d] = p[d] /\ SubSeq(u, 1, Len(p))[d] = u[d]
          BY <2>2, <3>1
    <3>3. QED
          BY <3>1, <3>2
  <2>4. QED
        BY <2>1, <2>2, <2>3
<1>4. <<>> \in P
  <2>1. SubSeq(s, 1, 0) = <<>> /\ 0 \in 0..Len(s)
        BY <1>1
  <2>2. \A u \in {s, t} : S!IsPrefix(<<>>, u)
    <3>1. \A u \in {s, t} : SubSeq(u, 1, 0) = <<>> /\ Len(u) >= 0
          OBVIOUS
    <3>2. QED
          BY <3>1 DEF S!IsPrefix
  <2>3. QED
        BY <2>1, <2>2 DEF S!CommonPrefixes, S!Prefixes
<1> HIDE DEF P
<1>5. PICK l \in Lens : \A o \in Lens : ~(o < l)
  <2>1. Lens \in SUBSET Nat
        OBVIOUS
  <2>2. Len(s) - Len(<<>>) = Len(s)
        BY <1>1
  <2>3. Len(s) \in Lens
        BY <1>1, <1>4, <2>2
  <2>4. QED
        BY <2>1, <2>3, LeastNumber
<1>6. PICK p \in P : Len(s) - Len(p) = l
      BY <1>5
<1>7. ASSUME NEW o \in P
      PROVE  Len(o) <= Len(p)
  <2>1. Len(s) - Len(o) \in Lens
        BY <1>1, <1>3
  <2>2. ~(Len(s) - Len(o) < Len(s) - Len(p))
        BY <1>5, <1>6, <2>1
  <2>3. QED
        BY <1>1, <1>3, <2>2
<1>8. S!LongestCommonPrefix({s, t}) \in P
      BY <1>6, <1>7 DEF S!LongestCommonPrefix, P
<1>9. QED
      BY <1>3, <1>8 DEF BeginAlike

\* A case that is run alone has no owner, and so there is nothing above it.
LEMMA NoChain ==
  Chain(NoFile) = <<>>
<1> DEFINE Chains == UNION {[1..k -> TsFiles] : k \in 0..Cardinality(TsFiles)}
<1>1. Cardinality(TsFiles) \in Nat
      BY FiniteAssumption, FS_CardinalityType
<1>2. NoFile \notin TsFiles
      BY FilesAssumption
<1>3. <<>> \in Chains
  <2>1. 0 \in 0..Cardinality(TsFiles)
        BY <1>1
  <2>2. <<>> \in [1..0 -> TsFiles]
        OBVIOUS
  <2>3. QED
        BY <2>1, <2>2
<1>4. IsChain(<<>>, NoFile)
  <2>1. Len(<<>>) = 0 /\ DOMAIN <<>> = {}
        OBVIOUS
  <2>2. QED
        BY <1>2, <2>1 DEF IsChain
<1>5. ASSUME NEW c \in Chains, IsChain(c, NoFile)
      PROVE  c = <<>>
  <2>1. PICK k \in 0..Cardinality(TsFiles) : c \in [1..k -> TsFiles]
        OBVIOUS
  <2>2. k \in Nat
        BY <1>1
  <2>3. c \in Seq(TsFiles) /\ Len(c) = k /\ DOMAIN c = 1..k
        BY <2>1, <2>2, SeqDef, LenProperties
  <2>4. k = 0
    <3>1. SUFFICES ASSUME k # 0 PROVE FALSE
          OBVIOUS
    <3>2. k \in 1..k
          BY <2>2, <3>1
    <3>3. c[k] \in TsFiles /\ c[k] = NoFile
          BY <1>5, <2>1, <2>3, <3>2 DEF IsChain
    <3>4. QED
          BY <1>2, <3>3
  <2>5. QED
        BY <2>3, <2>4, EmptySeq
<1> HIDE DEF Chains
<1>6. Chain(NoFile) = CHOOSE c \in Chains : IsChain(c, NoFile)
      BY DEF Chain, Chains
<1>7. QED
      BY <1>3, <1>4, <1>5, <1>6

\* The case that is reported, its first mention, and the files on the way to it.
LEMMA CaseIsFound ==
  ASSUME WalkInv, StackLeads, OwnersFound, PlansFollow, loop \in DOMAIN plans
  PROVE  /\ Finished /\ plans[loop].test \in SqlFiles
         /\ IsSingle => plans[loop].test = tree.root /\ OwnerChain = <<>>
         /\ ~IsSingle => \E m \in Mentions :
               /\ Said(m).target = plans[loop].test
               /\ \A o \in Mentions : Said(o).target = plans[loop].test => o = m \/ Before(m, o)
               /\ OwnerChain = [d \in 1..Len(m) |-> m[d][1]]
<1> DEFINE sql == plans[loop].test
<1>1. plans # <<>>
  <2>1. DOMAIN <<>> = {}
        OBVIOUS
  <2>2. QED
        BY <2>1
<1>2. Finished /\ \E filter \in Filters : plans = Filtered(filter)
      BY <1>1 DEF PlansFollow
<1>3. PICK x \in DOMAIN AllPlans : plans[loop] = AllPlans[x]
  <2>1. PICK filter \in Filters : plans = Filtered(filter)
        BY <1>2
  <2>2. loop \in DOMAIN Filtered(filter)
        BY <2>1
  <2>3. QED
        BY <2>1, <2>2, KeptIndexes DEF WalkInv
<1>4. x \in DOMAIN SqlPaths /\ sql = SqlPaths[x]
      BY <1>3 DEF AllPlans, PlanOf
<1> HIDE DEF sql
<1>5. CASE IsSingle
  <2>1. SqlPaths = <<tree.root>>
        BY <1>5 DEF SqlPaths
  <2>2. x = 1
        BY <1>4, <2>1
  <2>3. sql = tree.root
        BY <1>4, <2>1, <2>2
  <2>4. Owner(sql) = NoFile
        BY <1>5 DEF Owner
  <2>5. OwnerChain = <<>>
        BY <2>4, NoChain DEF OwnerChain, sql
  <2>6. QED
        BY <1>2, <1>5, <2>3, <2>5 DEF IsSingle, sql
<1>6. CASE ~IsSingle
  <2>1. SqlPaths = sqls /\ sqls \in Seq(SqlFiles)
        BY <1>6 DEF SqlPaths, WalkInv, WalkTypes
  <2>2. x \in DOMAIN sqls /\ sql = sqls[x] /\ sql \in SqlFiles
        BY <1>4, <2>1
  <2>3. PICK i \in DOMAIN sqls : sqls[i] = sql /\ Owner(sql) = sources[i]
    <3>1. Owner(sql) = sources[CHOOSE i \in DOMAIN sqls : sqls[i] = sql]
          BY <1>6 DEF Owner
    <3>2. QED
          BY <2>2, <3>1
  <2>4. PICK m \in Mentions :
           /\ Said(m).target = sqls[i]
           /\ \A o \in Mentions : Behind(o) /\ Said(o).target = sqls[i] => o = m \/ Before(m, o)
           /\ m[Len(m)][1] = sources[i] /\ IsAncestry(m)
        BY DEF OwnersFound
  <2>5. \A o \in Mentions : Said(o).target = sql => o = m \/ Before(m, o)
        BY <1>2, <2>3, <2>4, AllIsBehind
  <2>6. OwnerChain = [d \in 1..Len(m) |-> m[d][1]]
        BY <2>3, <2>4, ChainOfAncestry DEF OwnerChain, sql, WalkInv
  <2>7. QED
        BY <1>2, <1>6, <2>2, <2>3, <2>4, <2>5, <2>6 DEF sql
<1>7. QED
      BY <1>5, <1>6

\* A reader of the first n lines takes the next one to be under this heading.
UnderIn(lines, n, depth, file) ==
    /\ file \in TsFiles
    /\ \E j \in 1..n :
          /\ lines[j] = [depth |-> depth, file |-> file]
          /\ \A l \in 1..n : lines[l].file \in TsFiles /\ lines[l].depth <= depth => l <= j

\* The next line is under the headings of all these files.
IsHeaded(lines, n, files) == \A d \in DOMAIN files : UnderIn(lines, n, d - 1, files[d])

ReportFollows ==
    /\ printed \in Seq(Printed)
    /\ shown \in Seq(TsFiles)
    /\ printed # <<>> \/ shown # <<>> => Finished
    /\ IsHeaded(printed, Len(printed), shown)

LEMMA ReadIn ==
  ASSUME NEW k \in Nat, NEW n, n = k - 1, NEW depth \in Nat, NEW file
  PROVE  IsUnder(k, depth, file) <=> UnderIn(printed, n, depth, file)
<1> DEFINE above == {j \in 1..(k - 1) : printed[j].file \in TsFiles /\ printed[j].depth <= depth}
<1>1. IsUnder(k, depth, file) <=>
         \E j \in above : (\A l \in above : l <= j) /\ printed[j] = [depth |-> depth, file |-> file]
      BY DEF IsUnder
<1>2. ASSUME NEW j \in 1..n, printed[j] = [depth |-> depth, file |-> file]
      PROVE  j \in above <=> file \in TsFiles
  <2>1. printed[j].file = file /\ printed[j].depth = depth /\ depth <= depth
        BY <1>2
  <2>2. QED
        BY <2>1
<1>3. \A l : l \in above <=> l \in 1..n /\ printed[l].file \in TsFiles
                             /\ printed[l].depth <= depth
      OBVIOUS
<1> HIDE DEF above
<1>4. QED
      BY <1>1, <1>2, <1>3 DEF UnderIn

\* What decides under which headings a line is, is above it.
LEMMA LinesAbove ==
  ASSUME NEW lines, NEW more, NEW n, NEW depth, NEW file,
         \A j \in 1..n : more[j] = lines[j],
         UnderIn(lines, n, depth, file)
  PROVE  UnderIn(more, n, depth, file)
BY DEF UnderIn

\* The one is the others, one after the other.
IsJoined(r, p, h, e) ==
    /\ Len(r) = Len(p) + Len(h) + 1
    /\ \A i \in 1..Len(p) : r[i] = p[i]
    /\ \A i \in 1..Len(h) : r[Len(p) + i] = h[i]
    /\ r[Len(p) + Len(h) + 1] = e

LEMMA Joined ==
  ASSUME NEW T, NEW p \in Seq(T), NEW h \in Seq(T), NEW e \in T,
         NEW r, r = p \o h \o <<e>>
  PROVE  r \in Seq(T) /\ IsJoined(r, p, h, e)
<1> DEFINE u == p \o h
           n == Len(p)
           q == Len(h)
<1>1. /\ u \in Seq(T) /\ Len(u) = n + q /\ n \in Nat /\ q \in Nat
      OBVIOUS
<1>2. \A i \in 1..n : u[i] = p[i]
      OBVIOUS
<1>3. \A i \in 1..q : u[n + i] = h[i]
      OBVIOUS
<1>4. u \o <<e>> = Append(u, e)
      BY <1>1
<1> HIDE DEF u
<1>5. /\ Append(u, e) \in Seq(T) /\ Len(Append(u, e)) = Len(u) + 1
      /\ DOMAIN u = 1..Len(u)
      /\ \A i \in DOMAIN u : Append(u, e)[i] = u[i]
      /\ Append(u, e)[Len(u) + 1] = e
  <2>1. u \in Seq(T) /\ e \in T
        BY <1>1
  <2>2. QED
        BY <2>1
<1> HIDE DEF n, q
<1>6. /\ \A i \in 1..n : i \in 1..(n + q)
      /\ \A i \in 1..q : n + i \in 1..(n + q)
      BY <1>1
<1>7. /\ r \in Seq(T) /\ Len(r) = n + q + 1 /\ r[n + q + 1] = e
      /\ \A i \in 1..(n + q) : r[i] = u[i]
  <2>1. r = Append(u, e)
        BY <1>4 DEF u
  <2>2. QED
        BY <1>1, <1>5, <2>1
<1>8. \A i \in 1..n : r[i] = p[i]
      BY <1>2, <1>6, <1>7
<1>9. ASSUME NEW i \in 1..q
      PROVE  r[n + i] = h[i]
      BY <1>3, <1>6, <1>7
<1>10. QED
       BY <1>7, <1>8, <1>9 DEF IsJoined, n, q

\* The lines p, the files of t after the first c as headings, and a case.
Prints(r, p, c, t, sql) ==
    /\ r \in Seq(Printed) /\ Len(r) = Len(p) + (Len(t) - c) + 1
    /\ \A i \in 1..Len(p) : r[i] = p[i]
    /\ \A i \in 1..(Len(t) - c) : r[Len(p) + i] = [depth |-> c + i - 1, file |-> t[c + i]]
    /\ r[Len(p) + (Len(t) - c) + 1] = [depth |-> Len(t), file |-> sql]

LEMMA LinesPrinted ==
  ASSUME NEW p \in Seq(Printed), NEW s \in Seq(TsFiles), NEW t \in Seq(TsFiles),
         NEW c, BeginAlike(s, t, c), NEW sql \in SqlFiles
  PROVE  Prints(p \o [n \in 1..(Len(t) - c) |-> [depth |-> c + n - 1, file |-> t[c + n]]]
                  \o <<[depth |-> Len(t), file |-> sql]>>,
                p, c, t, sql)
<1> DEFINE l == Len(t)
           q == l - c
           h == [n \in 1..q |-> [depth |-> c + n - 1, file |-> t[c + n]]]
           line == [depth |-> l, file |-> sql]
<1>1. c \in Nat /\ c <= l /\ l \in Nat
      BY DEF BeginAlike
<1>2. \A i \in 1..l : t[i] \in TsFiles
      OBVIOUS
<1> HIDE DEF l
<1>3. line \in Printed
      BY <1>1 DEF Printed
<1>4. q \in Nat /\ \A i \in 1..q : c + i \in 1..l /\ c + i - 1 \in Nat
      BY <1>1
<1> HIDE DEF q, line
<1>5. \A i \in 1..q : [depth |-> c + i - 1, file |-> t[c + i]] \in Printed
      BY <1>2, <1>4 DEF Printed
<1>6. h \in [1..q -> Printed] /\ \A i \in 1..q : h[i] = [depth |-> c + i - 1, file |-> t[c + i]]
      BY <1>5
<1> HIDE DEF h
<1>7. h \in Seq(Printed) /\ Len(h) = q
      BY <1>4, <1>6, SeqDef, LenProperties
<1>8. PICK r : r = p \o h \o <<line>>
      OBVIOUS
<1>9. r \in Seq(Printed) /\ IsJoined(r, p, h, line)
      BY <1>3, <1>7, <1>8, Joined
<1>10. Prints(r, p, c, t, sql)
  <2>1. /\ r \in Seq(Printed) /\ Len(r) = Len(p) + q + 1
        /\ \A i \in 1..Len(p) : r[i] = p[i]
        /\ \A i \in 1..q : r[Len(p) + i] = h[i]
        /\ r[Len(p) + q + 1] = line
        BY <1>7, <1>9 DEF IsJoined
  <2>2. \A i \in 1..q : r[Len(p) + i] = [depth |-> c + i - 1, file |-> t[c + i]]
        BY <1>6, <2>1
  <2>3. QED
        BY <2>1, <2>2 DEF Prints, q, l, line
<1>11. QED
       BY <1>8, <1>10 DEF h, q, l, line

\* A case line that is printed with the files of its chain that the last one
\* did not have: it and what comes next are under all the files of its chain.
LEMMA CasePrinted ==
  ASSUME NEW p \in Seq(Printed), NEW s \in Seq(TsFiles), NEW t \in Seq(TsFiles),
         NEW c, BeginAlike(s, t, c), IsHeaded(p, Len(p), s),
         NEW sql \in SqlFiles, NEW r, Prints(r, p, c, t, sql)
  PROVE  /\ r \in Seq(Printed) /\ Len(r) \in Nat /\ DOMAIN r = 1..Len(r) /\ Len(p) < Len(r)
         /\ r[Len(r)] = [depth |-> Len(t), file |-> sql]
         /\ \A i \in 1..Len(p) : r[i] = p[i]
         /\ \A i \in 1..Len(r) : i > Len(p) /\ i # Len(r) => r[i].file \in TsFiles
         /\ IsHeaded(r, Len(r) - 1, t) /\ IsHeaded(r, Len(r), t)
<1> DEFINE n == Len(p)
           l == Len(t)
           m == Len(s)
           q == l - c
           k == n + q + 1
<1>1. /\ c \in Nat /\ c <= m /\ c <= l /\ n \in Nat /\ l \in Nat /\ m \in Nat
      /\ \A d \in 1..c : s[d] = t[d]
      BY DEF BeginAlike
<1>2. /\ r \in Seq(Printed) /\ Len(r) = k
      /\ \A i \in 1..n : r[i] = p[i]
      /\ \A i \in 1..q : r[n + i] = [depth |-> c + i - 1, file |-> t[c + i]]
      /\ r[k] = [depth |-> l, file |-> sql]
      BY DEF Prints
<1>3. /\ DOMAIN s = 1..m /\ DOMAIN t = 1..l
      /\ \A i \in 1..l : t[i] \in TsFiles
      OBVIOUS
<1>4. DOMAIN r = 1..Len(r)
      BY <1>2
<1> HIDE DEF n, l, m
<1>5. q \in Nat /\ l = c + q /\ \A i \in 1..q : c + i \in 1..l
      BY <1>1
<1> HIDE DEF q
<1>6. k \in Nat /\ n < k /\ n + q < k
      BY <1>1, <1>5
<1>7. \A i \in 1..k : i > n /\ i # k => i - n \in 1..q /\ n + (i - n) = i
      BY <1>1, <1>5
<1>8. r[k].file \notin TsFiles
      BY <1>2, FilesAssumption
<1> HIDE DEF k
<1>9. ASSUME NEW i \in 1..q
      PROVE  r[n + i].depth = c + i - 1 /\ r[n + i].file \in TsFiles
  <2>1. r[n + i] = [depth |-> c + i - 1, file |-> t[c + i]]
        BY <1>2
  <2>2. t[c + i] \in TsFiles
        BY <1>3, <1>5
  <2>3. QED
        BY <2>1, <2>2
<1>10. ASSUME NEW i \in 1..k, i > n, i # k
       PROVE  i - n \in 1..q /\ r[i].depth = c + (i - n) - 1 /\ r[i].file \in TsFiles
  <2> DEFINE x == i - n
  <2>1. x \in 1..q /\ n + x = i
        BY <1>7, <1>10
  <2> HIDE DEF x
  <2>2. r[n + x].depth = c + x - 1 /\ r[n + x].file \in TsFiles
        BY <1>9, <2>1
  <2>3. QED
        BY <2>1, <2>2 DEF x
<1>11. ASSUME NEW f \in {k - 1, k}, NEW d \in 1..l
       PROVE  UnderIn(r, f, d - 1, t[d])
  <2>1. /\ f \in Nat /\ n <= f /\ n + q <= f
        /\ \A i \in 1..f : i \in 1..n \/ (i > n /\ i \in 1..k)
        BY <1>1, <1>5, <1>6
  <2>2. d \in Nat /\ t[d] \in TsFiles
        BY <1>1, <1>3
  <2>3. ASSUME NEW i \in 1..f, i > n, r[i].file \in TsFiles, r[i].depth <= d - 1
        PROVE  c + (i - n) <= d /\ i - n \in 1..q
    <3>1. i \in 1..k
          BY <1>1, <2>1, <2>3
    <3>2. i # k
          BY <1>8, <2>3
    <3>3. i - n \in 1..q /\ r[i].depth = c + (i - n) - 1
          BY <1>10, <2>3, <3>1, <3>2
    <3>4. i \in Nat
          BY <3>1
    <3>5. QED
          BY <1>1, <2>2, <2>3, <3>3, <3>4
  <2>4. CASE d <= c
    <3>1. d \in 1..m /\ d \in 1..c
          BY <1>1, <2>2, <2>4
    <3>2. UnderIn(p, n, d - 1, t[d])
          BY <1>1, <1>3, <3>1 DEF IsHeaded, n
    <3>3. PICK j \in 1..n :
             /\ p[j] = [depth |-> d - 1, file |-> t[d]]
             /\ \A i \in 1..n : p[i].file \in TsFiles /\ p[i].depth <= d - 1 => i <= j
          BY <3>2 DEF UnderIn
    <3>4. j \in 1..f /\ j \in Nat /\ j <= n
          BY <1>1, <2>1
    <3>5. r[j] = [depth |-> d - 1, file |-> t[d]]
          BY <1>2, <3>3
    <3>6. ASSUME NEW i \in 1..f, r[i].file \in TsFiles, r[i].depth <= d - 1
          PROVE  i <= j
      <4>1. CASE i \in 1..n
            BY <1>2, <3>3, <3>6, <4>1
      <4>2. CASE i > n
        <5>1. c + (i - n) <= d /\ i - n \in 1..q
              BY <2>3, <3>6, <4>2
        <5>2. QED
              BY <1>1, <1>5, <2>2, <2>4, <5>1
      <4>3. QED
            BY <2>1, <4>1, <4>2
    <3>7. QED
          BY <2>2, <3>4, <3>5, <3>6 DEF UnderIn
  <2>5. CASE ~(d <= c)
    <3> DEFINE x == d - c
               j == n + x
    <3>1. x \in 1..q /\ c + x = d /\ c + x - 1 = d - 1
          BY <1>1, <1>5, <2>2, <2>5
    <3>2. j \in 1..f /\ j \in Nat
          BY <1>1, <1>5, <2>1, <3>1
    <3> HIDE DEF x
    <3>3. r[j] = [depth |-> d - 1, file |-> t[d]]
          BY <1>2, <3>1
    <3>4. ASSUME NEW i \in 1..f, r[i].file \in TsFiles, r[i].depth <= d - 1
          PROVE  i <= j
      <4>1. CASE i \in 1..n
            BY <1>1, <3>1, <4>1
      <4>2. CASE i > n
        <5>1. c + (i - n) <= d /\ i - n \in 1..q
              BY <2>3, <3>4, <4>2
        <5>2. i \in Nat
              BY <2>1
        <5>3. QED
              BY <1>1, <3>1, <5>1, <5>2
      <4>3. QED
            BY <2>1, <4>1, <4>2
    <3> HIDE DEF j
    <3>5. QED
          BY <2>2, <3>2, <3>3, <3>4 DEF UnderIn
  <2>6. QED
        BY <2>4, <2>5
<1>12. IsHeaded(r, k - 1, t) /\ IsHeaded(r, k, t)
       BY <1>3, <1>11 DEF IsHeaded
<1>13. QED
       BY <1>2, <1>4, <1>6, <1>10, <1>12 DEF n, l

\* The line is what ReportShowsChain says of it.
ChainShown(lines, k) ==
    IF IsSingle THEN lines[k] = [depth |-> 0, file |-> tree.root]
    ELSE \E m \in Mentions :
            /\ Said(m).target = lines[k].file
            /\ \A o \in Mentions : Said(o).target = lines[k].file => o = m \/ Before(m, o)
            /\ Len(m) = lines[k].depth
            /\ \A d \in DOMAIN m : UnderIn(lines, k - 1, d - 1, m[d][1])

LEMMA ShownIn ==
  WalkTypes /\ printed \in Seq(Printed) =>
      (ReportShowsChain <=>
          \A k \in DOMAIN printed : printed[k].file \in SqlFiles => ChainShown(printed, k))
<1>1. SUFFICES ASSUME WalkTypes, printed \in Seq(Printed), NEW k \in DOMAIN printed
      PROVE  LET Of(sql) == {m \in Mentions : Said(m).target = sql}
             IN  (IF IsSingle THEN printed[k] = [depth |-> 0, file |-> tree.root]
                  ELSE \E m \in Of(printed[k].file) :
                          /\ IsFirst(m, Of(printed[k].file))
                          /\ Len(m) = printed[k].depth
                          /\ \A d \in DOMAIN m : IsUnder(k, d - 1, m[d][1]))
                 <=> ChainShown(printed, k)
      BY DEF ReportShowsChain
<1> DEFINE Of == {m \in Mentions : Said(m).target = printed[k].file}
<1>2. k \in Nat
      BY <1>1
<1>3. ASSUME NEW m \in Mentions
      PROVE  (\A d \in DOMAIN m : IsUnder(k, d - 1, m[d][1]))
             <=> (\A d \in DOMAIN m : UnderIn(printed, k - 1, d - 1, m[d][1]))
  <2>1. \A d \in DOMAIN m : d - 1 \in Nat
        BY <1>1, MentionFacts
  <2>2. ASSUME NEW d \in DOMAIN m
        PROVE  IsUnder(k, d - 1, m[d][1]) <=> UnderIn(printed, k - 1, d - 1, m[d][1])
        BY <1>2, <2>1, ReadIn
  <2>3. QED
        BY <2>2
<1>4. ASSUME NEW m
      PROVE  /\ m \in Of <=> m \in Mentions /\ Said(m).target = printed[k].file
             /\ m \in Of => (IsFirst(m, Of) <=>
                   \A o \in Mentions : Said(o).target = printed[k].file => o = m \/ Before(m, o))
      BY DEF IsFirst
<1> HIDE DEF Of
<1>5. (\E m \in Of : /\ IsFirst(m, Of) /\ Len(m) = printed[k].depth
                     /\ \A d \in DOMAIN m : IsUnder(k, d - 1, m[d][1]))
      <=> (\E m \in Mentions :
              /\ Said(m).target = printed[k].file
              /\ \A o \in Mentions : Said(o).target = printed[k].file => o = m \/ Before(m, o)
              /\ Len(m) = printed[k].depth
              /\ \A d \in DOMAIN m : UnderIn(printed, k - 1, d - 1, m[d][1]))
      BY <1>3, <1>4
<1>6. QED
      BY <1>5 DEF ChainShown, Of

LEMMA ReportStep ==
  ASSUME WalkInv, StackLeads, OwnersFound, PlansFollow, ReportFollows, ReportShowsChain,
         ReportCase
  PROVE  ReportFollows' /\ ReportShowsChain'
<1> DEFINE sql == plans[loop].test
<1>1. /\ UNCHANGED vars /\ loop \in DOMAIN plans /\ shown' = OwnerChain
      /\ printed' = printed \o NewHeadings \o <<[depth |-> Len(OwnerChain), file |-> sql]>>
      BY DEF ReportCase
<1>2. /\ Finished /\ sql \in SqlFiles
      /\ IsSingle => sql = tree.root /\ OwnerChain = <<>>
      /\ ~IsSingle => \E m \in Mentions :
            /\ Said(m).target = sql
            /\ \A o \in Mentions : Said(o).target = sql => o = m \/ Before(m, o)
            /\ OwnerChain = [d \in 1..Len(m) |-> m[d][1]]
      BY <1>1, CaseIsFound
<1> HIDE DEF sql
<1>3. PICK t : t = OwnerChain
      OBVIOUS
<1>4. ~IsSingle => \E m \in Mentions :
         /\ Said(m).target = sql
         /\ \A o \in Mentions : Said(o).target = sql => o = m \/ Before(m, o)
         /\ t \in Seq(TsFiles) /\ Len(t) = Len(m)
         /\ DOMAIN m = DOMAIN t /\ \A d \in DOMAIN m : m[d][1] = t[d]
  <2>1. SUFFICES ASSUME ~IsSingle
                 PROVE  \E m \in Mentions :
                           /\ Said(m).target = sql
                           /\ \A o \in Mentions :
                                 Said(o).target = sql => o = m \/ Before(m, o)
                           /\ t \in Seq(TsFiles) /\ Len(t) = Len(m)
                           /\ DOMAIN m = DOMAIN t /\ \A d \in DOMAIN m : m[d][1] = t[d]
        OBVIOUS
  <2>2. PICK m \in Mentions :
           /\ Said(m).target = sql
           /\ \A o \in Mentions : Said(o).target = sql => o = m \/ Before(m, o)
           /\ t = [d \in 1..Len(m) |-> m[d][1]]
        BY <1>2, <1>3, <2>1
  <2>3. Len(m) \in Nat /\ DOMAIN m = 1..Len(m) /\ \A d \in DOMAIN m : m[d][1] \in TsFiles
        BY MentionFacts, LinesOfSuite DEF WalkInv
  <2>4. t \in [1..Len(m) -> TsFiles] /\ \A d \in DOMAIN m : m[d][1] = t[d]
        BY <2>2, <2>3
  <2>5. t \in Seq(TsFiles) /\ Len(t) = Len(m) /\ DOMAIN t = 1..Len(m)
        BY <2>3, <2>4, SeqDef, LenProperties
  <2>6. QED
        BY <2>2, <2>3, <2>4, <2>5
<1>5. t \in Seq(TsFiles)
  <2>1. IsSingle => t \in Seq(TsFiles)
        BY <1>2, <1>3
  <2>2. QED
        BY <1>4, <2>1
<1>6. /\ printed \in Seq(Printed) /\ shown \in Seq(TsFiles)
      /\ IsHeaded(printed, Len(printed), shown)
      BY DEF ReportFollows
<1>7. PICK c : c = Len(S!LongestCommonPrefix({shown, t}))
      OBVIOUS
<1>8. BeginAlike(shown, t, c)
      BY <1>5, <1>6, <1>7, CommonBeginning
<1>9. PICK r : r = printed'
      OBVIOUS
<1>10. Prints(r, printed, c, t, sql)
  <2>1. NewHeadings = [i \in 1..(Len(t) - c) |-> [depth |-> c + i - 1, file |-> t[c + i]]]
        BY <1>3, <1>7 DEF NewHeadings
  <2>2. r = printed \o [i \in 1..(Len(t) - c) |-> [depth |-> c + i - 1, file |-> t[c + i]]]
            \o <<[depth |-> Len(t), file |-> sql]>>
        BY <1>1, <1>3, <1>9, <2>1
  <2>3. QED
        BY <1>2, <1>5, <1>6, <1>8, <2>2, LinesPrinted
<1>11. /\ r \in Seq(Printed) /\ Len(r) \in Nat /\ DOMAIN r = 1..Len(r) /\ Len(printed) < Len(r)
       /\ r[Len(r)] = [depth |-> Len(t), file |-> sql]
       /\ \A i \in 1..Len(printed) : r[i] = printed[i]
       /\ \A i \in 1..Len(r) : i > Len(printed) /\ i # Len(r) => r[i].file \in TsFiles
       /\ IsHeaded(r, Len(r) - 1, t) /\ IsHeaded(r, Len(r), t)
       BY <1>2, <1>5, <1>6, <1>8, <1>10, CasePrinted
<1>12. Finished'
       BY <1>1, <1>2 DEF Finished, vars
<1>13. ReportFollows'
  <2>1. IsHeaded(r, Len(r), t) => IsHeaded(printed, Len(printed), shown)'
        BY <1>1, <1>3, <1>9 DEF IsHeaded, UnderIn
  <2>2. QED
        BY <1>1, <1>3, <1>5, <1>9, <1>11, <1>12, <2>1 DEF ReportFollows
<1>14. WalkTypes'
       BY <1>1 DEF WalkInv, WalkTypes, vars
<1>15. /\ Mentions' = Mentions /\ tree' = tree
       /\ \A m : Said(m)' = Said(m)
  <2>1. tree' = tree
        BY <1>1 DEF vars
  <2>2. QED
        BY <2>1, TreeSame
<1>16. \A k \in DOMAIN printed : printed[k].file \in SqlFiles => ChainShown(printed, k)
       BY <1>6, ShownIn DEF WalkInv
<1>17. ASSUME NEW k \in 1..Len(r), r[k].file \in SqlFiles
       PROVE  ChainShown(r, k)
  <2>1. CASE k \in 1..Len(printed)
    <3>1. k \in DOMAIN printed /\ r[k] = printed[k]
      <4>1. DOMAIN printed = 1..Len(printed)
            BY <1>6
      <4>2. QED
            BY <1>11, <2>1, <4>1
    <3>2. ChainShown(printed, k)
          BY <1>16, <1>17, <3>1
    <3>3. ASSUME NEW depth, NEW file, UnderIn(printed, k - 1, depth, file)
          PROVE  UnderIn(r, k - 1, depth, file)
      <4>1. \A j \in 1..(k - 1) : j \in 1..Len(printed)
            BY <1>6, <2>1
      <4>2. \A j \in 1..(k - 1) : r[j] = printed[j]
            BY <1>11, <4>1
      <4>3. QED
            BY <3>3, <4>2, LinesAbove
    <3>4. QED
          BY <3>1, <3>2, <3>3 DEF ChainShown
  <2>2. CASE k \notin 1..Len(printed) /\ k # Len(r)
    <3>1. k > Len(printed)
      <4>1. Len(printed) \in Nat /\ k \in Nat /\ k >= 1
            BY <1>6, <1>17
      <4>2. QED
            BY <2>2, <4>1
    <3>2. r[k].file \in TsFiles
          BY <1>11, <2>2, <3>1
    <3>3. QED
          BY <1>17, <3>2, FilesAssumption
  <2>3. CASE k = Len(r)
    <3>1. r[k] = [depth |-> Len(t), file |-> sql] /\ IsHeaded(r, k - 1, t)
          BY <1>11, <2>3
    <3>2. CASE IsSingle
      <4>1. Len(t) = 0 /\ sql = tree.root
            BY <1>2, <1>3, <3>2
      <4>2. QED
            BY <3>1, <3>2, <4>1 DEF ChainShown
    <3>3. CASE ~IsSingle
      <4>1. PICK m \in Mentions :
               /\ Said(m).target = sql
               /\ \A o \in Mentions : Said(o).target = sql => o = m \/ Before(m, o)
               /\ t \in Seq(TsFiles) /\ Len(t) = Len(m)
               /\ DOMAIN m = DOMAIN t /\ \A d \in DOMAIN m : m[d][1] = t[d]
            BY <1>4, <3>3
      <4>2. r[k].file = sql /\ r[k].depth = Len(m)
            BY <3>1, <4>1
      <4>3. \A d \in DOMAIN m : UnderIn(r, k - 1, d - 1, m[d][1])
            BY <3>1, <4>1 DEF IsHeaded
      <4>4. QED
            BY <3>3, <4>1, <4>2, <4>3 DEF ChainShown
    <3>4. QED
          BY <3>2, <3>3
  <2>4. QED
        BY <2>1, <2>2, <2>3
<1>18. (\A k \in DOMAIN printed : printed[k].file \in SqlFiles => ChainShown(printed, k))'
  <2>1. ASSUME NEW k \in DOMAIN printed', printed'[k].file \in SqlFiles
        PROVE  ChainShown(printed, k)'
    <3>1. ChainShown(r, k)
          BY <1>9, <1>11, <1>17, <2>1
    <3>2. CASE IsSingle
          BY <1>9, <1>15, <3>1, <3>2 DEF ChainShown, IsSingle
    <3>3. CASE ~IsSingle
      <4>1. PICK m \in Mentions :
               /\ Said(m).target = r[k].file
               /\ \A o \in Mentions : Said(o).target = r[k].file => o = m \/ Before(m, o)
               /\ Len(m) = r[k].depth
               /\ \A d \in DOMAIN m : UnderIn(r, k - 1, d - 1, m[d][1])
            BY <3>1, <3>3 DEF ChainShown
      <4>2. ~IsSingle'
            BY <1>15, <3>3 DEF IsSingle
      <4>3. /\ m \in Mentions' /\ Said(m)'.target = printed'[k].file
            /\ \A o \in Mentions' :
                  Said(o)'.target = printed'[k].file => o = m \/ Before(m, o)
            /\ Len(m) = printed'[k].depth
            /\ \A d \in DOMAIN m : UnderIn(printed, k - 1, d - 1, m[d][1])'
            BY <1>9, <1>15, <4>1 DEF UnderIn
      <4>4. QED
            BY <4>2, <4>3 DEF ChainShown, Before
    <3>4. QED
          BY <3>2, <3>3
  <2>2. QED
        BY <2>1
<1>19. (WalkTypes /\ printed \in Seq(Printed) =>
           (ReportShowsChain <=>
               \A k \in DOMAIN printed : printed[k].file \in SqlFiles => ChainShown(printed, k)))'
       BY ShownIn, PTL
<1>20. QED
       BY <1>9, <1>11, <1>13, <1>14, <1>18, <1>19

\* While the suite is parsed nothing is printed, and the plans print nothing.
LEMMA ReportKept ==
  ASSUME WalkTypes, ReportFollows, ReportShowsChain, Parse \/ MakePlans \/ UNCHANGED allVars
  PROVE  ReportFollows' /\ ReportShowsChain'
<1>1. printed' = printed /\ shown' = shown
      BY DEF Parse, MakePlans, allVars, planVars
<1>2. ReportFollows'
  <2>1. Finished' \/ ~Finished
    <3>1. CASE Parse
          BY <3>1 DEF Parse, Next, EnterTs, ReadTs, Finished, CycleInclude, SeenBefore,
             NotFound, OutsideRoot, Unreadable, Open, Visit, IsNew, RejectLine, IncludeTs,
             AddSql, TakeLine, Return
    <3>2. CASE MakePlans \/ UNCHANGED allVars
          BY <3>2 DEF MakePlans, Finished, allVars, vars
    <3>3. QED
          BY <3>1, <3>2
  <2>2. IsHeaded(printed, Len(printed), shown)'
        BY <1>1 DEF ReportFollows, IsHeaded, UnderIn
  <2>3. QED
        BY <1>1, <2>1, <2>2 DEF ReportFollows
<1>3. tree' = tree
  <2>1. CASE Parse
        BY <2>1 DEF Parse, Next, EnterTs, ReadTs, CycleInclude, SeenBefore, NotFound,
           OutsideRoot, Unreadable, Open, RejectLine, IncludeTs, AddSql, TakeLine, Return,
           vars
  <2>2. CASE MakePlans \/ UNCHANGED allVars
        BY <2>2 DEF MakePlans, allVars, vars
  <2>3. QED
        BY <2>1, <2>2
<1>4. Mentions' = Mentions /\ \A m : Said(m)' = Said(m)
      BY <1>3, TreeSame
<1>5. ReportShowsChain'
  <2>1. \A k, depth, file : IsUnder(k, depth, file)' <=> IsUnder(k, depth, file)
        BY <1>1 DEF IsUnder
  <2>2. QED
        BY <1>1, <1>3, <1>4, <2>1 DEF ReportShowsChain, IsSingle, IsFirst, Before
<1>6. QED
      BY <1>2, <1>5

\* However the files of a suite include each other and whichever cases are
\* selected, the report, read by its indentation, shows for each case the files
\* through which the suite mentions it first (main, _build_ts_chain).
THEOREM ReportsShowChains ==
  PlansSpec => []ReportShowsChain
<1>1. Init => LinesLead /\ StackLeads /\ LinesCovered /\ CasesFound /\ TimeoutsFound /\ OwnersFound
      BY LinesLeadInit, StackLeadsInit, LinesCoveredInit, FoundInit, OwnersInit
<1>2. WalkInv /\ LinesLead /\ StackLeads /\ LinesCovered /\ CasesFound /\ TimeoutsFound
      /\ OwnersFound /\ [Next]_vars
      => (LinesLead /\ StackLeads /\ LinesCovered /\ CasesFound /\ TimeoutsFound /\ OwnersFound)'
      BY LinesLeadStep, StackLeadsStep, LinesCoveredStep, FoundStep, OwnersStep
<1>3. Spec => [](StackLeads /\ OwnersFound)
      BY <1>1, <1>2, WalkInvariance, PTL DEF Spec
<1>4. PlansSpec => []PlansFollow
  <2>1. PlansInit => PlansFollow
        BY DEF PlansInit, PlansFollow
  <2>2. PlansFollow /\ [PlansNext]_allVars => PlansFollow'
        BY PlansStep
  <2>3. QED
        BY <2>1, <2>2, PTL DEF PlansSpec
<1>5. PlansInit => ReportFollows /\ ReportShowsChain
  <2>1. SUFFICES ASSUME PlansInit PROVE ReportFollows /\ ReportShowsChain
        OBVIOUS
  <2>2. printed = <<>> /\ shown = <<>> /\ DOMAIN printed = {} /\ DOMAIN shown = {}
        BY <2>1 DEF PlansInit
  <2>3. printed \in Seq(Printed) /\ shown \in Seq(TsFiles)
        BY <2>2
  <2>4. QED
        BY <2>2, <2>3 DEF ReportFollows, ReportShowsChain, IsHeaded
<1>6. WalkInv /\ StackLeads /\ OwnersFound /\ PlansFollow /\ ReportFollows /\ ReportShowsChain
      /\ [PlansNext]_allVars
      => ReportFollows' /\ ReportShowsChain'
  <2>1. WalkInv /\ ReportFollows /\ ReportShowsChain
        /\ (Parse \/ MakePlans \/ UNCHANGED allVars)
        => ReportFollows' /\ ReportShowsChain'
        BY ReportKept DEF WalkInv
  <2>2. WalkInv /\ StackLeads /\ OwnersFound /\ PlansFollow /\ ReportFollows
        /\ ReportShowsChain /\ ReportCase
        => ReportFollows' /\ ReportShowsChain'
        BY ReportStep
  <2>3. QED
        BY <2>1, <2>2 DEF PlansNext
<1>7. QED
      BY <1>3, <1>4, <1>5, <1>6, WalkUnderPlans, WalkInvariance, PTL DEF PlansSpec
=============================================================================
