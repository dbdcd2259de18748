------------------------ MODULE DirectiveParserProofs ------------------------
(***************************************************************************)
(* Proofs about DirectiveParser: for any script, what parse_sql_file has   *)
(* gathered above a line is what the lines above it say.                   *)
(***************************************************************************)
EXTENDS DirectiveParser, SelectionProofs

(***************************************************************************)
(* The invariant.                                                          *)
(***************************************************************************)
Snapshots == [env : [Keys -> Values \cup {NoValue}], unset : SUBSET Keys]

\* An issue, a command, a segment.
Issues == [line : Nat, reason : {"parse_error", "unknown_directive"}]
Actions == [lineno : Nat, env : Snapshots]
Segments == [lines : Seq(Nat), hidden : BOOLEAN]

DirectiveTypes ==
    /\ text \in Texts
    /\ at \in 1..(Len(text) + 1)
    /\ inSkip \in BOOLEAN /\ parsed \in BOOLEAN
    /\ Snapshot \in Snapshots
    /\ visible \in Seq(Nat) /\ hidden \in Seq(Nat)
    /\ visibleEnv \in Seq(Snapshots) /\ hiddenEnv \in Seq(Snapshots)
    /\ current \in Seq(Nat) /\ segments \in Seq(Segments)
    /\ actions \in Seq(Actions)
    /\ timeout \in Nat /\ lastSql \in Nat
    /\ issues \in Seq(Issues)

\* The environment at line n, as the lines above it leave it.
EnvAt(n) == [k \in Keys |-> LastWord(k, n)]

IsFirstSql(lines, n) ==
    /\ \E i \in DOMAIN lines : lines[i] = n
    /\ IsStatement(n)
    /\ \A i \in DOMAIN lines : lines[i] < n => ~IsStatement(lines[i])

\* The snapshot of a part is the one at its first statement.
SnapshotFollows(lines, snapshot) ==
    /\ HasSql(lines) <=> snapshot # <<>>
    /\ HasSql(lines) =>
          \E n \in DOMAIN text : IsFirstSql(lines, n) /\ SqlEnv(snapshot) = EnvAt(n)

EnvFollows ==
    /\ BuildEnv(Snapshot) = EnvAt(at)
    /\ \A i \in DOMAIN actions : BuildEnv(actions[i].env) = EnvAt(actions[i].lineno)
    /\ SnapshotFollows(visible, visibleEnv)
    /\ SnapshotFollows(hidden, hiddenEnv)

SplitFollows ==
    /\ inSkip <=> IsSkippedAt(at)
    /\ Increasing(visible) /\ Increasing(hidden)
    /\ Numbers(hidden) = {n \in SqlLines : n < at /\ IsSkippedAt(n)}
    /\ Numbers(visible) = {n \in SqlLines : n < at /\ ~IsSkippedAt(n)}

\* While the script is read, the lines of the issues grow and are the wrong
\* ones above.
IssuesFollow ==
    /\ ~parsed =>
          /\ \A i, j \in DOMAIN issues : i < j => issues[i].line < issues[j].line
          /\ {issues[i].line : i \in DOMAIN issues}
                = {n \in DOMAIN text : n < at /\ IsWrong(n)}
    /\ EveryWrongLineReported

\* The commands above, and the last statement above, if there is one.
ActionsFollow ==
    /\ \A i, j \in DOMAIN actions : i < j => actions[i].lineno < actions[j].lineno
    /\ {actions[i].lineno : i \in DOMAIN actions}
          = {n \in DOMAIN text : n < at /\ text[n].kind = "system"}
    /\ lastSql # 0 => lastSql \in DOMAIN text /\ lastSql < at /\ IsStatement(lastSql)
    /\ \A n \in DOMAIN text : n < at /\ IsStatement(n) => n <= lastSql

DirectiveInv ==
    DirectiveTypes /\ EnvFollows /\ SplitFollows /\ IssuesFollow /\ ActionsFollow

(***************************************************************************)
(* The script and its lines.                                               *)
(***************************************************************************)
\* A line that is read is one of the script, and the next one is not above it.
LEMMA ReadFacts ==
  ASSUME DirectiveTypes, NEW kind, Read(kind)
  PROVE  /\ text \in Seq(LineType) /\ DOMAIN text = 1..Len(text) /\ Len(text) \in Nat
         /\ at \in DOMAIN text /\ at \in Nat /\ at' = at + 1
         /\ Line \in LineType /\ Line.kind = kind
         /\ text' = text /\ parsed' = parsed /\ ~parsed
         /\ at' \in 1..(Len(text') + 1)
<1>1. text \in Seq(LineType)
      BY TextsAssumption DEF DirectiveTypes
<1>2. at \in 1..Len(text)
      BY <1>1 DEF DirectiveTypes, Read
<1>3. QED
      BY <1>1, <1>2 DEF Read, Line, DirectiveTypes

\* What the lines of the script mean does not change.
LEMMA TextStays ==
  ASSUME UNCHANGED text, NEW n
  PROVE  /\ IsSkippedAt(n)' = IsSkippedAt(n) /\ IsWrong(n)' = IsWrong(n)
         /\ IsStatement(n)' = IsStatement(n)
         /\ EnvAt(n)' = EnvAt(n)
         /\ SqlLines' = SqlLines
<1>1. IsSkippedAt(n)' = IsSkippedAt(n)
      BY DEF IsSkippedAt, SkipLines
<1>2. EnvAt(n)' = EnvAt(n)
      BY DEF EnvAt, LastWord
<1>3. QED
      BY <1>1, <1>2 DEF IsWrong, IsStatement, SqlLines

\* Whether a line is inside a block depends on the last SKIP line above it.
LEMMA SkipStep ==
  ASSUME text \in Seq(LineType), NEW n \in 1..Len(text)
  PROVE  IsSkippedAt(n + 1)
         <=> \/ text[n].kind = "skipBegin"
             \/ text[n].kind # "skipEnd" /\ IsSkippedAt(n)
<1>1. Above(n + 1) = Above(n) \cup {n} /\ n \notin Above(n)
      BY DEF Above
<1>2. CASE n \in SkipLines
  <2>1. \A o \in SkipLines \cap Above(n + 1) : o <= n
        BY <1>1 DEF Above
  <2>2. IsSkippedAt(n + 1) <=> text[n].kind = "skipBegin"
    <3>1. ASSUME IsSkippedAt(n + 1) PROVE text[n].kind = "skipBegin"
      <4>1. PICK m \in SkipLines \cap Above(n + 1) :
                text[m].kind = "skipBegin" /\ \A o \in SkipLines \cap Above(n + 1) : o <= m
            BY <3>1 DEF IsSkippedAt
      <4>2. m = n
            BY <1>1, <1>2, <2>1, <4>1 DEF Above
      <4>3. QED
            BY <4>1, <4>2
    <3>2. ASSUME text[n].kind = "skipBegin" PROVE IsSkippedAt(n + 1)
          BY <1>1, <1>2, <2>1, <3>2 DEF IsSkippedAt
    <3>3. QED
          BY <3>1, <3>2
  <2>3. text[n].kind \in {"skipBegin", "skipEnd"}
        BY <1>2 DEF SkipLines
  <2>4. QED
        BY <2>2, <2>3
<1>3. CASE n \notin SkipLines
  <2>1. SkipLines \cap Above(n + 1) = SkipLines \cap Above(n)
        BY <1>1, <1>3
  <2>2. text[n].kind \notin {"skipBegin", "skipEnd"}
        BY <1>3 DEF SkipLines
  <2>3. QED
        BY <2>1, <2>2 DEF IsSkippedAt
<1>4. QED
      BY <1>2, <1>3

\* The lines above n that say something of k, and what the last of some says.
Said(k, n) ==
    {m \in Above(n) : text[m].kind \in {"setEnv", "unsetEnv"} /\ text[m].key = k}

Word(k, said) ==
    IF said = {} THEN BaseEnv[k]
    ELSE LET m == CHOOSE m \in said : \A o \in said : o <= m
         IN IF text[m].kind = "setEnv" THEN text[m].value ELSE NoValue

LEMMA LastWordIsWord ==
  ASSUME NEW k, NEW n
  PROVE  LastWord(k, n) = Word(k, Said(k, n))
BY DEF LastWord, Word, Said

LEMMA LastOfSaid ==
  ASSUME NEW k, NEW said \in SUBSET Nat, NEW m \in said, \A o \in said : o <= m
  PROVE  Word(k, said) = IF text[m].kind = "setEnv" THEN text[m].value ELSE NoValue
<1> DEFINE last == CHOOSE l \in said : \A o \in said : o <= l
<1>1. last \in said /\ \A o \in said : o <= last
      OBVIOUS
<1>2. Word(k, said) = IF text[last].kind = "setEnv" THEN text[last].value ELSE NoValue
      BY Zenon DEF Word
<1> HIDE DEF last
<1>3. last = m
      BY <1>1
<1>4. QED
      BY <1>2, <1>3

\* A directive has the last word on its variable, and on no other.
LEMMA WordStep ==
  ASSUME text \in Seq(LineType), NEW n \in 1..Len(text), NEW k \in Keys
  PROVE  LastWord(k, n + 1)
         = IF text[n].kind \in {"setEnv", "unsetEnv"} /\ text[n].key = k
           THEN IF text[n].kind = "setEnv" THEN text[n].value ELSE NoValue
           ELSE LastWord(k, n)
<1>1. Above(n + 1) = Above(n) \cup {n} /\ Above(n + 1) \in SUBSET Nat
      BY DEF Above
<1>2. CASE text[n].kind \in {"setEnv", "unsetEnv"} /\ text[n].key = k
  <2>1. /\ Said(k, n + 1) \in SUBSET Nat /\ n \in Said(k, n + 1)
        /\ \A o \in Said(k, n + 1) : o <= n
        BY <1>1, <1>2 DEF Said, Above
  <2>2. QED
        BY <1>2, <2>1, LastOfSaid, LastWordIsWord
<1>3. CASE ~(text[n].kind \in {"setEnv", "unsetEnv"} /\ text[n].key = k)
  <2>1. Said(k, n + 1) = Said(k, n)
        BY <1>1, <1>3 DEF Said
  <2>2. QED
        BY <1>3, <2>1, LastWordIsWord
<1>4. QED
      BY <1>2, <1>3

LEMMA EnvAtStep ==
  ASSUME text \in Seq(LineType), NEW n \in 1..Len(text),
         text[n].kind \notin {"setEnv", "unsetEnv"}
  PROVE  EnvAt(n + 1) = EnvAt(n)
BY WordStep DEF EnvAt

(***************************************************************************)
(* Sequences that grow by one.                                             *)
(***************************************************************************)
LEMMA AppendFacts ==
  ASSUME NEW T, NEW s \in Seq(T), NEW e \in T
  PROVE  /\ Append(s, e) \in Seq(T)
         /\ DOMAIN Append(s, e) = DOMAIN s \cup {Len(s) + 1}
         /\ DOMAIN s = 1..Len(s) /\ Len(s) \in Nat
         /\ \A i \in DOMAIN s : Append(s, e)[i] = s[i]
         /\ Append(s, e)[Len(s) + 1] = e
OBVIOUS

\* The numbers of lines that have been gathered so far.
LEMMA NumbersGrow ==
  ASSUME NEW s \in Seq(Nat), NEW n \in Nat, Increasing(s), \A i \in DOMAIN s : s[i] < n
  PROVE  Increasing(Append(s, n)) /\ Numbers(Append(s, n)) = Numbers(s) \cup {n}
<1> DEFINE t == Append(s, n)
<1>1. /\ DOMAIN t = DOMAIN s \cup {Len(s) + 1} /\ DOMAIN s = 1..Len(s) /\ Len(s) \in Nat
      /\ \A i \in DOMAIN s : t[i] = s[i] /\ s[i] \in Nat
      /\ t[Len(s) + 1] = n
      BY AppendFacts
<1> HIDE DEF t
<1>2. Increasing(t)
      BY <1>1 DEF Increasing
<1>3. Numbers(t) = Numbers(s) \cup {n}
      BY <1>1 DEF Numbers
<1>4. QED
      BY <1>2, <1>3 DEF t

\* A part has a first statement, and only one.
LEMMA SnapshotStays ==
  ASSUME UNCHANGED text, NEW lines, NEW snapshot
  PROVE  SnapshotFollows(lines, snapshot)' = SnapshotFollows(lines, snapshot)
<1>1. \A n : EnvAt(n)' = EnvAt(n) /\ IsStatement(n)' = IsStatement(n)
      BY TextStays
<1>2. HasSql(lines)' = HasSql(lines)
      BY <1>1 DEF HasSql
<1>3. \A n : IsFirstSql(lines, n)' = IsFirstSql(lines, n)
      BY <1>1 DEF IsFirstSql
<1>4. SqlEnv(snapshot)' = SqlEnv(snapshot)
      BY DEF SqlEnv, BuildEnv, NoEnv
<1>5. QED
      BY <1>1, <1>2, <1>3, <1>4 DEF SnapshotFollows

\* Reading line n leaves the snapshot of the part as it is, unless the line is
\* its first statement.
LEMMA SnapshotStep ==
  ASSUME NEW lines \in Seq(Nat), NEW n \in DOMAIN text, n \in Nat,
         \A i \in DOMAIN lines : lines[i] < n,
         NEW snapshot, SnapshotFollows(lines, snapshot),
         NEW now, BuildEnv(now) = EnvAt(n)
  PROVE  SnapshotFollows(Append(lines, n),
             IF snapshot = <<>> /\ IsStatement(n) THEN <<now>> ELSE snapshot)
<1> DEFINE more == Append(lines, n)
           then == IF snapshot = <<>> /\ IsStatement(n) THEN <<now>> ELSE snapshot
<1>1. /\ DOMAIN more = DOMAIN lines \cup {Len(lines) + 1}
      /\ DOMAIN lines = 1..Len(lines) /\ Len(lines) \in Nat
      /\ \A i \in DOMAIN lines : more[i] = lines[i] /\ lines[i] \in Nat
      /\ more[Len(lines) + 1] = n
      BY AppendFacts
<1>2. <<now>> # <<>> /\ <<now>>[1] = now
      OBVIOUS
<1> HIDE DEF more
<1>3. HasSql(more) <=> HasSql(lines) \/ IsStatement(n)
      BY <1>1 DEF HasSql
<1>4. HasSql(more) <=> then # <<>>
      BY <1>2, <1>3 DEF SnapshotFollows
<1>5. ASSUME HasSql(lines)
      PROVE  \E m \in DOMAIN text : IsFirstSql(more, m) /\ SqlEnv(then) = EnvAt(m)
  <2>1. PICK m \in DOMAIN text : IsFirstSql(lines, m) /\ SqlEnv(snapshot) = EnvAt(m)
        BY <1>5 DEF SnapshotFollows
  <2>2. IsFirstSql(more, m)
        BY <1>1, <2>1 DEF IsFirstSql
  <2>3. then = snapshot
        BY <1>5 DEF SnapshotFollows
  <2>4. QED
        BY <2>1, <2>2, <2>3
<1>6. ASSUME ~HasSql(lines), IsStatement(n)
      PROVE  \E m \in DOMAIN text : IsFirstSql(more, m) /\ SqlEnv(then) = EnvAt(m)
  <2>1. IsFirstSql(more, n)
        BY <1>1, <1>6 DEF IsFirstSql, HasSql
  <2>2. then = <<now>>
        BY <1>6 DEF SnapshotFollows
  <2>3. SqlEnv(<<now>>) = BuildEnv(now)
        BY <1>2 DEF SqlEnv
  <2>4. QED
        BY <2>1, <2>2, <2>3
<1>7. QED
      BY <1>3, <1>4, <1>5, <1>6 DEF SnapshotFollows, more

(***************************************************************************)
(* The invariant holds.                                                    *)
(***************************************************************************)
LEMMA DirectiveInit ==
  ASSUME Init
  PROVE  DirectiveInv
<1>1. text \in Seq(LineType)
      BY TextsAssumption DEF Init
<1>2. DirectiveTypes
  <2>1. Snapshot \in Snapshots
        BY DEF Init, Snapshot, Snapshots
  <2>2. at \in 1..(Len(text) + 1)
        BY <1>1 DEF Init
  <2>3. \A T : <<>> \in Seq(T)
        OBVIOUS
  <2>4. text \in Texts /\ inSkip \in BOOLEAN /\ parsed \in BOOLEAN
        BY DEF Init
  <2>5. /\ visible \in Seq(Nat) /\ hidden \in Seq(Nat)
        /\ visibleEnv \in Seq(Snapshots) /\ hiddenEnv \in Seq(Snapshots)
        /\ current \in Seq(Nat) /\ segments \in Seq(Segments)
        /\ actions \in Seq(Actions) /\ issues \in Seq(Issues)
        BY <2>3, Zenon DEF Init
  <2>6. timeout \in Nat /\ lastSql \in Nat
        BY DEF Init
  <2>7. QED
        BY <2>1, <2>2, <2>4, <2>5, <2>6, Zenon DEF DirectiveTypes
<1>3. Above(1) = {}
      BY DEF Above
<1>4. EnvFollows
  <2>1. BuildEnv(Snapshot) = EnvAt(at)
    <3>1. \A k \in Keys : LastWord(k, 1) = BaseEnv[k]
          BY <1>3 DEF LastWord
    <3>2. (\A k \in Keys : env[k] = NoValue) /\ unset = {} /\ at = 1
          BY DEF Init
    <3>3. BuildEnv(Snapshot) = [k \in Keys |-> BaseEnv[k]]
          BY <3>2 DEF BuildEnv, Snapshot
    <3>4. QED
          BY <3>1, <3>2, <3>3 DEF EnvAt
  <2>2. SnapshotFollows(<<>>, <<>>)
        BY DEF SnapshotFollows, HasSql
  <2>3. QED
        BY <2>1, <2>2 DEF EnvFollows, Init
<1>5. SplitFollows
  <2>1. ~IsSkippedAt(1)
        BY <1>3 DEF IsSkippedAt
  <2>2. \A n \in DOMAIN text : ~(n < 1)
        BY <1>1
  <2>3. Increasing(<<>>) /\ Numbers(<<>>) = {}
        BY DEF Increasing, Numbers
  <2>4. \A n \in SqlLines : ~(n < 1)
        BY <2>2 DEF SqlLines
  <2>5. QED
        BY <2>1, <2>3, <2>4 DEF SplitFollows, Init
<1>6. IssuesFollow
  <2>1. \A n \in DOMAIN text : ~(n < 1)
        BY <1>1
  <2>2. ~WasRead
        BY DEF WasRead, Init
  <2>3. QED
        BY <2>1, <2>2 DEF IssuesFollow, EveryWrongLineReported, Init
<1>7. ActionsFollow
  <2>1. \A n \in DOMAIN text : ~(n < 1)
        BY <1>1
  <2>2. QED
        BY <2>1 DEF ActionsFollow, Init
<1>8. QED
      BY <1>2, <1>4, <1>5, <1>6, <1>7 DEF DirectiveInv

\* What a line may be, by its kind.
LEMMA LineFacts ==
  ASSUME DirectiveTypes, NEW kind, Read(kind)
  PROVE  /\ kind \in {"setEnv", "unsetEnv"} => Line.key \in Keys
         /\ kind = "setEnv" => Line.value \in Values /\ Line.value # NoValue
         /\ Line.seconds \in Nat
<1>1. at \in DOMAIN text /\ Line \in LineType /\ Line.kind = kind
      BY ReadFacts
<1>2. text \in Texts
      BY DEF DirectiveTypes
<1>3. QED
      BY <1>1, <1>2, TextsAssumption, EnvAssumption DEF Line, LineType

LEMMA FlushTypes ==
  ASSUME DirectiveTypes, NEW isHidden \in BOOLEAN, Flush(isHidden)
  PROVE  current' \in Seq(Nat) /\ segments' \in Seq(Segments)
<1>1. [lines |-> current, hidden |-> isHidden] \in Segments
      BY DEF DirectiveTypes, Segments
<1>2. Append(segments, [lines |-> current, hidden |-> isHidden]) \in Seq(Segments)
      BY <1>1, AppendFacts DEF DirectiveTypes
<1>3. QED
      BY <1>2 DEF Flush, DirectiveTypes

LEMMA IssueTypes ==
  ASSUME DirectiveTypes, NEW reason \in {"parse_error", "unknown_directive"},
         AddIssue(reason)
  PROVE  issues' \in Seq(Issues)
<1>1. at \in Nat
  <2>1. text \in Seq(LineType)
        BY TextsAssumption DEF DirectiveTypes
  <2>2. QED
        BY <2>1 DEF DirectiveTypes
<1>2. [line |-> at, reason |-> reason] \in Issues
      BY <1>1 DEF Issues
<1>3. QED
      BY <1>2, AppendFacts DEF AddIssue, DirectiveTypes

LEMMA SplitTypes ==
  ASSUME DirectiveTypes, at \in Nat, Split
  PROVE  /\ visible' \in Seq(Nat) /\ hidden' \in Seq(Nat)
         /\ visibleEnv' \in Seq(Snapshots) /\ hiddenEnv' \in Seq(Snapshots)
<1>1. <<Snapshot>> \in Seq(Snapshots)
      BY DEF DirectiveTypes
<1>2. Append(visible, at) \in Seq(Nat) /\ Append(hidden, at) \in Seq(Nat)
      BY AppendFacts DEF DirectiveTypes
<1>3. QED
      BY <1>1, <1>2 DEF Split, DirectiveTypes

LEMMA DirectiveTypesStep ==
  ASSUME DirectiveTypes, [Next]_vars
  PROVE  DirectiveTypes'
<1> USE DEF DirectiveTypes
<1>1. CASE System
  <2>1. [lineno |-> at, env |-> Snapshot] \in Actions
        BY <1>1, ReadFacts DEF System, Actions
  <2>2. actions' \in Seq(Actions)
        BY <1>1, <2>1, AppendFacts DEF System
  <2>3. Snapshot' = Snapshot
        BY <1>1 DEF System, envVars, Snapshot
  <2>4. QED
        BY <1>1, <2>2, <2>3, ReadFacts DEF System, sqlVars, segmentVars
<1>2. CASE SetEnv
  <2>1. Snapshot' \in Snapshots
        BY <1>2, LineFacts DEF SetEnv, Snapshot, Snapshots
  <2>2. QED
        BY <1>2, <2>1, ReadFacts DEF SetEnv, sqlVars, segmentVars
<1>3. CASE UnsetEnv
  <2>1. Snapshot' \in Snapshots
        BY <1>3, LineFacts DEF UnsetEnv, Snapshot, Snapshots
  <2>2. QED
        BY <1>3, <2>1, ReadFacts DEF UnsetEnv, sqlVars, segmentVars
<1>4. CASE TimeoutSec
  <2>1. Snapshot' = Snapshot
        BY <1>4 DEF TimeoutSec, envVars, Snapshot
  <2>2. QED
        BY <1>4, <2>1, ReadFacts, LineFacts DEF TimeoutSec, sqlVars, segmentVars
<1>5. CASE SkipBegin
  <2>1. Snapshot' = Snapshot
        BY <1>5 DEF SkipBegin, envVars, Snapshot
  <2>2. QED
        BY <1>5, <2>1, ReadFacts, FlushTypes, IssueTypes DEF SkipBegin, sqlVars, segmentVars
<1>6. CASE SkipEnd
  <2>1. Snapshot' = Snapshot
        BY <1>6 DEF SkipEnd, envVars, Snapshot
  <2>2. QED
        BY <1>6, <2>1, ReadFacts, FlushTypes, IssueTypes DEF SkipEnd, sqlVars, segmentVars
<1>7. CASE Malformed
  <2>1. Snapshot' = Snapshot
        BY <1>7 DEF Malformed, envVars, Snapshot
  <2>2. QED
        BY <1>7, <2>1, ReadFacts, IssueTypes DEF Malformed, sqlVars, segmentVars
<1>8. CASE UnknownDirective
  <2>1. Snapshot' = Snapshot
        BY <1>8 DEF UnknownDirective, envVars, Snapshot
  <2>2. QED
        BY <1>8, <2>1, ReadFacts, IssueTypes DEF UnknownDirective, sqlVars, segmentVars
<1>9. ASSUME NEW kind, Sql(kind) PROVE DirectiveTypes'
  <2>1. Snapshot' = Snapshot
        BY <1>9 DEF Sql, envVars, Snapshot
  <2>2. at \in Nat /\ at' \in 1..(Len(text') + 1) /\ text' = text /\ parsed' = parsed
        BY <1>9, ReadFacts DEF Sql
  <2>3. current' \in Seq(Nat)
        BY <1>9, <2>2, AppendFacts DEF Sql
  <2>4. QED
        BY <1>9, <2>1, <2>2, <2>3, SplitTypes DEF Sql, segmentVars
<1>10. CASE Finish
  <2>1. Snapshot' = Snapshot
        BY <1>10 DEF Finish, envVars, Snapshot
  <2>2. QED
        BY <1>10, <2>1, FlushTypes, IssueTypes DEF Finish, sqlVars
<1>11. CASE CannotRead
  <2>1. Snapshot' = Snapshot
        BY <1>11 DEF CannotRead, envVars, Snapshot
  <2>2. QED
        BY <1>11, <2>1, IssueTypes DEF CannotRead, sqlVars, segmentVars
<1>12. CASE UNCHANGED vars
  <2>1. Snapshot' = Snapshot
        BY <1>12 DEF vars, envVars, Snapshot
  <2>2. QED
        BY <1>12, <2>1 DEF vars, sqlVars, segmentVars
<1>13. QED
       BY <1>1, <1>2, <1>3, <1>4, <1>5, <1>6, <1>7, <1>8, <1>9, <1>10, <1>11, <1>12 DEF Next

(***************************************************************************)
(* The environments.                                                       *)
(***************************************************************************)
\* What a line does not touch goes on to follow the lines above.
LEMMA EnvGoesOn ==
  ASSUME DirectiveTypes, EnvFollows, NEW kind, Read(kind),
         kind \notin {"setEnv", "unsetEnv"}, UNCHANGED envVars
  PROVE  (BuildEnv(Snapshot) = EnvAt(at))'
<1>1. text \in Seq(LineType) /\ at \in 1..Len(text) /\ text' = text /\ at' = at + 1
      BY ReadFacts
<1>2. text[at].kind \notin {"setEnv", "unsetEnv"}
      BY ReadFacts DEF Line
<1>3. EnvAt(at + 1) = EnvAt(at)
      BY <1>1, <1>2, EnvAtStep
<1>4. BuildEnv(Snapshot)' = BuildEnv(Snapshot)
      BY DEF envVars, BuildEnv, Snapshot
<1>5. EnvAt(at)' = EnvAt(at + 1)
      BY <1>1, TextStays
<1>6. QED
      BY <1>3, <1>4, <1>5 DEF EnvFollows

LEMMA ActionsGoOn ==
  ASSUME EnvFollows, UNCHANGED <<text, actions>>
  PROVE  (\A i \in DOMAIN actions : BuildEnv(actions[i].env) = EnvAt(actions[i].lineno))'
<1>1. ASSUME NEW i \in DOMAIN actions'
      PROVE  (BuildEnv(actions[i].env) = EnvAt(actions[i].lineno))'
  <2>1. BuildEnv(actions[i].env) = EnvAt(actions[i].lineno)
        BY <1>1 DEF EnvFollows
  <2>2. BuildEnv(actions[i].env)' = BuildEnv(actions[i].env)
        BY DEF BuildEnv
  <2>3. EnvAt(actions[i].lineno)' = EnvAt(actions[i].lineno)
        BY TextStays
  <2>4. QED
        BY <2>1, <2>2, <2>3
<1>2. QED
      BY <1>1

LEMMA SqlGoesOn ==
  ASSUME EnvFollows, UNCHANGED <<text, sqlVars>>
  PROVE  SnapshotFollows(visible, visibleEnv)' /\ SnapshotFollows(hidden, hiddenEnv)'
<1>1. /\ UNCHANGED text
      /\ visible' = visible /\ hidden' = hidden
      /\ visibleEnv' = visibleEnv /\ hiddenEnv' = hiddenEnv
      BY DEF sqlVars
<1>2. /\ SnapshotFollows(visible, visibleEnv)' = SnapshotFollows(visible, visibleEnv)
      /\ SnapshotFollows(hidden, hiddenEnv)' = SnapshotFollows(hidden, hiddenEnv)
      BY <1>1, SnapshotStays
<1>3. QED
      BY <1>2 DEF EnvFollows

\* A command takes the environment it is given at its line.
LEMMA SystemEnv ==
  ASSUME DirectiveTypes, EnvFollows, System
  PROVE  EnvFollows'
<1>1. Read("system") /\ UNCHANGED envVars /\ UNCHANGED <<text, sqlVars>>
      BY DEF System, Read
<1>2. (BuildEnv(Snapshot) = EnvAt(at))'
      BY <1>1, EnvGoesOn
<1>3. ASSUME NEW i \in DOMAIN actions'
      PROVE  (BuildEnv(actions[i].env) = EnvAt(actions[i].lineno))'
  <2> DEFINE new == [lineno |-> at, env |-> Snapshot]
  <2>1. new \in Actions /\ new.lineno = at /\ new.env = Snapshot
        BY <1>1, ReadFacts DEF DirectiveTypes, Actions
  <2>2. actions' = Append(actions, new)
        BY DEF System
  <2> HIDE DEF new
  <2>3. /\ i \in DOMAIN actions \/ i = Len(actions) + 1
        /\ i \in DOMAIN actions => actions'[i] = actions[i]
        /\ i = Len(actions) + 1 => actions'[i] = new
        BY <1>3, <2>1, <2>2, AppendFacts DEF DirectiveTypes
  <2>4. \A a : BuildEnv(a.env)' = BuildEnv(a.env) /\ EnvAt(a.lineno)' = EnvAt(a.lineno)
        BY <1>1, TextStays DEF BuildEnv
  <2>5. BuildEnv(new.env) = EnvAt(new.lineno)
        BY <2>1 DEF EnvFollows
  <2>6. i \in DOMAIN actions => BuildEnv(actions[i].env) = EnvAt(actions[i].lineno)
        BY DEF EnvFollows
  <2>7. QED
        BY <2>3, <2>4, <2>5, <2>6
<1>4. QED
      BY <1>1, <1>2, <1>3, SqlGoesOn DEF EnvFollows

LEMMA SetEnvEnv ==
  ASSUME DirectiveTypes, EnvFollows, SetEnv
  PROVE  EnvFollows'
<1>1. /\ Read("setEnv") /\ UNCHANGED <<text, actions>> /\ UNCHANGED <<text, sqlVars>>
      /\ text \in Seq(LineType) /\ at \in 1..Len(text) /\ at' = at + 1
      /\ text[at].kind = "setEnv"
      BY ReadFacts DEF SetEnv, Read, Line
<1>2. /\ Line.key \in Keys /\ Line.value # NoValue
      /\ env' = [env EXCEPT ![Line.key] = Line.value] /\ unset' = unset \ {Line.key}
      /\ env \in [Keys -> Values \cup {NoValue}]
      BY <1>1, LineFacts DEF SetEnv, DirectiveTypes, Snapshot, Snapshots
<1>3. ASSUME NEW k \in Keys
      PROVE  BuildEnv(Snapshot)'[k] = LastWord(k, at + 1)
  <2>1. BuildEnv(Snapshot)'[k] = IF k = Line.key THEN Line.value ELSE BuildEnv(Snapshot)[k]
        BY <1>2 DEF BuildEnv, Snapshot
  <2>2. BuildEnv(Snapshot)[k] = LastWord(k, at)
        BY DEF EnvFollows, EnvAt
  <2>3. QED
        BY <1>1, <2>1, <2>2, WordStep DEF Line
<1>4. BuildEnv(Snapshot)' = EnvAt(at + 1)
      BY <1>3 DEF BuildEnv, EnvAt
<1>5. EnvAt(at)' = EnvAt(at + 1)
      BY <1>1, TextStays
<1>6. QED
      BY <1>1, <1>4, <1>5, ActionsGoOn, SqlGoesOn DEF EnvFollows

LEMMA UnsetEnvEnv ==
  ASSUME DirectiveTypes, EnvFollows, UnsetEnv
  PROVE  EnvFollows'
<1>1. /\ Read("unsetEnv") /\ UNCHANGED <<text, actions>> /\ UNCHANGED <<text, sqlVars>>
      /\ text \in Seq(LineType) /\ at \in 1..Len(text) /\ at' = at + 1
      /\ text[at].kind = "unsetEnv"
      BY ReadFacts DEF UnsetEnv, Read, Line
<1>2. /\ Line.key \in Keys
      /\ env' = [env EXCEPT ![Line.key] = NoValue] /\ unset' = unset \cup {Line.key}
      /\ env \in [Keys -> Values \cup {NoValue}]
      BY <1>1, LineFacts DEF UnsetEnv, DirectiveTypes, Snapshot, Snapshots
<1>3. ASSUME NEW k \in Keys
      PROVE  BuildEnv(Snapshot)'[k] = LastWord(k, at + 1)
  <2>1. BuildEnv(Snapshot)'[k] = IF k = Line.key THEN NoValue ELSE BuildEnv(Snapshot)[k]
        BY <1>2 DEF BuildEnv, Snapshot
  <2>2. BuildEnv(Snapshot)[k] = LastWord(k, at)
        BY DEF EnvFollows, EnvAt
  <2>3. QED
        BY <1>1, <2>1, <2>2, WordStep DEF Line
<1>4. BuildEnv(Snapshot)' = EnvAt(at + 1)
      BY <1>3 DEF BuildEnv, EnvAt
<1>5. EnvAt(at)' = EnvAt(at + 1)
      BY <1>1, TextStays
<1>6. QED
      BY <1>1, <1>4, <1>5, ActionsGoOn, SqlGoesOn DEF EnvFollows

\* What has been gathered is above the next line.
LEMMA GatheredAbove ==
  ASSUME SplitFollows
  PROVE  /\ \A i \in DOMAIN visible : visible[i] < at
         /\ \A i \in DOMAIN hidden : hidden[i] < at
BY DEF SplitFollows, Numbers

\* The SQL takes the environment at its first statement.
LEMMA SqlEnvs ==
  ASSUME DirectiveTypes, EnvFollows, SplitFollows,
         NEW kind \in {"sql", "comment"}, Sql(kind)
  PROVE  EnvFollows'
<1>1. /\ Read(kind) /\ UNCHANGED <<text, actions>> /\ UNCHANGED envVars
      /\ at \in DOMAIN text /\ at \in Nat /\ Split
      BY ReadFacts DEF Sql, Read
<1>2. (BuildEnv(Snapshot) = EnvAt(at))'
      BY <1>1, EnvGoesOn
<1>3. IsSql(Line) <=> IsStatement(at)
      BY DEF IsSql, IsStatement, Line
<1>4. visible \in Seq(Nat) /\ hidden \in Seq(Nat)
      BY DEF DirectiveTypes
<1>5. /\ SnapshotFollows(Append(visible, at),
            IF visibleEnv = <<>> /\ IsStatement(at) THEN <<Snapshot>> ELSE visibleEnv)
      /\ SnapshotFollows(Append(hidden, at),
            IF hiddenEnv = <<>> /\ IsStatement(at) THEN <<Snapshot>> ELSE hiddenEnv)
      BY <1>1, <1>4, GatheredAbove, SnapshotStep DEF EnvFollows
<1>6. SnapshotFollows(visible, visibleEnv) /\ SnapshotFollows(hidden, hiddenEnv)
      BY DEF EnvFollows
<1>7. SnapshotFollows(visible', visibleEnv') /\ SnapshotFollows(hidden', hiddenEnv')
      BY <1>1, <1>3, <1>5, <1>6 DEF Split
<1>8. \A lines, snapshot :
          SnapshotFollows(lines, snapshot)' = SnapshotFollows(lines, snapshot)
      BY <1>1, SnapshotStays
<1>9. SnapshotFollows(visible, visibleEnv)' /\ SnapshotFollows(hidden, hiddenEnv)'
      BY <1>7, <1>8
<1>10. QED
       BY <1>1, <1>2, <1>9, ActionsGoOn DEF EnvFollows

\* A step that reads no line.
LEMMA EnvStays ==
  ASSUME EnvFollows, UNCHANGED <<text, at, actions>>, UNCHANGED envVars, UNCHANGED sqlVars
  PROVE  EnvFollows'
<1>1. (BuildEnv(Snapshot) = EnvAt(at))'
  <2>1. BuildEnv(Snapshot)' = BuildEnv(Snapshot)
        BY DEF envVars, BuildEnv, Snapshot
  <2>2. EnvAt(at)' = EnvAt(at)
        BY TextStays
  <2>3. QED
        BY <2>1, <2>2 DEF EnvFollows
<1>2. QED
      BY <1>1, ActionsGoOn, SqlGoesOn DEF EnvFollows

LEMMA EnvStep ==
  ASSUME DirectiveInv, [Next]_vars
  PROVE  EnvFollows'
<1> USE DEF DirectiveInv
<1>1. CASE System
      BY <1>1, SystemEnv
<1>2. CASE SetEnv
      BY <1>2, SetEnvEnv
<1>3. CASE UnsetEnv
      BY <1>3, UnsetEnvEnv
<1>4. ASSUME NEW kind \in {"timeout", "skipBegin", "skipEnd", "malformed", "unknown"},
             Read(kind), UNCHANGED <<envVars, sqlVars, actions>>
      PROVE  EnvFollows'
  <2>1. UNCHANGED <<text, actions>> /\ UNCHANGED envVars /\ UNCHANGED <<text, sqlVars>>
        BY <1>4 DEF Read
  <2>2. (BuildEnv(Snapshot) = EnvAt(at))'
        BY <1>4, <2>1, EnvGoesOn
  <2>3. QED
        BY <2>1, <2>2, ActionsGoOn, SqlGoesOn DEF EnvFollows
<1>5. CASE TimeoutSec \/ SkipBegin \/ SkipEnd \/ Malformed \/ UnknownDirective
      BY <1>4, <1>5 DEF TimeoutSec, SkipBegin, SkipEnd, Malformed, UnknownDirective
<1>6. CASE Sql("sql") \/ Sql("comment")
      BY <1>6, SqlEnvs
<1>7. CASE Finish \/ CannotRead \/ UNCHANGED vars
      BY <1>7, EnvStays DEF Finish, CannotRead, vars
<1>8. QED
      BY <1>1, <1>2, <1>3, <1>5, <1>6, <1>7 DEF Next

(***************************************************************************)
(* The hidden and the visible SQL.                                         *)
(***************************************************************************)
\* The lines of the SQL above the next line.
LEMMA SqlLinesAbove ==
  ASSUME DirectiveTypes, NEW kind, Read(kind)
  PROVE  /\ at \in SqlLines <=> kind \in {"sql", "comment"}
         /\ \A n \in SqlLines : n < at + 1 <=> n < at \/ n = at
         /\ SqlLines' = SqlLines /\ \A n : IsSkippedAt(n)' = IsSkippedAt(n)
         /\ IsSkippedAt(at)' <=> \/ kind = "skipBegin"
                                 \/ kind # "skipEnd" /\ IsSkippedAt(at)
<1>1. /\ text \in Seq(LineType) /\ DOMAIN text = 1..Len(text) /\ Len(text) \in Nat
      /\ at \in 1..Len(text) /\ at' = at + 1 /\ text' = text
      /\ text[at].kind = kind
      BY ReadFacts DEF Line
<1>2. IsSkippedAt(at)' = IsSkippedAt(at + 1)
      BY <1>1, TextStays
<1>3. IsSkippedAt(at + 1) <=> \/ kind = "skipBegin"
                              \/ kind # "skipEnd" /\ IsSkippedAt(at)
      BY <1>1, SkipStep
<1>4. SqlLines' = SqlLines /\ \A n : IsSkippedAt(n)' = IsSkippedAt(n)
      BY <1>1, TextStays
<1>5. /\ at \in SqlLines <=> kind \in {"sql", "comment"}
      /\ \A n \in SqlLines : n < at + 1 <=> n < at \/ n = at
      BY <1>1 DEF SqlLines
<1>6. QED
      BY <1>2, <1>3, <1>4, <1>5

LEMMA SkipLineSplits ==
  ASSUME DirectiveTypes, SplitFollows, NEW kind, kind \notin {"sql", "comment"}, Read(kind),
         UNCHANGED sqlVars,
         inSkip' = (kind = "skipBegin" \/ (kind # "skipEnd" /\ inSkip))
  PROVE  SplitFollows'
<1>1. at' = at + 1 /\ visible' = visible /\ hidden' = hidden
      BY ReadFacts DEF sqlVars
<1>2. \A n \in SqlLines : n < at + 1 <=> n < at
      BY SqlLinesAbove
<1>3. (inSkip <=> IsSkippedAt(at))'
      BY SqlLinesAbove DEF SplitFollows
<1>4. (Increasing(visible) /\ Increasing(hidden))'
      BY <1>1 DEF SplitFollows, Increasing
<1>5. Numbers(hidden)' = Numbers(hidden) /\ Numbers(visible)' = Numbers(visible)
      BY <1>1 DEF Numbers
<1>6. /\ SqlLines' = SqlLines /\ \A n : IsSkippedAt(n)' = IsSkippedAt(n)
      BY SqlLinesAbove
<1>7. (Numbers(hidden) = {n \in SqlLines : n < at /\ IsSkippedAt(n)})'
      BY <1>1, <1>2, <1>5, <1>6 DEF SplitFollows
<1>8. (Numbers(visible) = {n \in SqlLines : n < at /\ ~IsSkippedAt(n)})'
      BY <1>1, <1>2, <1>5, <1>6 DEF SplitFollows
<1>9. QED
      BY <1>3, <1>4, <1>7, <1>8 DEF SplitFollows

LEMMA SqlLineSplits ==
  ASSUME DirectiveTypes, SplitFollows, NEW kind \in {"sql", "comment"}, Sql(kind)
  PROVE  SplitFollows'
<1>1. Read(kind) /\ at' = at + 1 /\ at \in Nat /\ inSkip' = inSkip
      BY ReadFacts DEF Sql
<1>2. /\ at \in SqlLines /\ \A n \in SqlLines : n < at + 1 <=> n < at \/ n = at
      /\ SqlLines' = SqlLines /\ \A n : IsSkippedAt(n)' = IsSkippedAt(n)
      /\ IsSkippedAt(at)' <=> IsSkippedAt(at)
      BY <1>1, SqlLinesAbove
<1>3. (inSkip <=> IsSkippedAt(at))'
      BY <1>1, <1>2 DEF SplitFollows
<1>4. /\ visible' = IF inSkip THEN visible ELSE Append(visible, at)
      /\ hidden' = IF inSkip THEN Append(hidden, at) ELSE hidden
      BY DEF Sql, Split
<1>5. /\ Increasing(visible') /\ Increasing(hidden')
      /\ Numbers(visible') = Numbers(visible) \cup (IF inSkip THEN {} ELSE {at})
      /\ Numbers(hidden') = Numbers(hidden) \cup (IF inSkip THEN {at} ELSE {})
      BY <1>1, <1>4, GatheredAbove, NumbersGrow DEF DirectiveTypes, SplitFollows
<1>6. (Numbers(hidden) = {n \in SqlLines : n < at /\ IsSkippedAt(n)})'
  <2>1. Numbers(hidden') = {n \in SqlLines : n < at + 1 /\ IsSkippedAt(n)}
        BY <1>2, <1>5 DEF SplitFollows
  <2>2. Numbers(hidden)' = Numbers(hidden')
        BY DEF Numbers
  <2>3. QED
        BY <1>1, <1>2, <2>1, <2>2
<1>7. (Numbers(visible) = {n \in SqlLines : n < at /\ ~IsSkippedAt(n)})'
  <2>1. Numbers(visible') = {n \in SqlLines : n < at + 1 /\ ~IsSkippedAt(n)}
        BY <1>2, <1>5 DEF SplitFollows
  <2>2. Numbers(visible)' = Numbers(visible')
        BY DEF Numbers
  <2>3. QED
        BY <1>1, <1>2, <2>1, <2>2
<1>8. (Increasing(visible) /\ Increasing(hidden))'
      BY <1>5 DEF Increasing
<1>9. QED
      BY <1>3, <1>6, <1>7, <1>8 DEF SplitFollows

LEMMA SplitStays ==
  ASSUME SplitFollows, UNCHANGED <<text, at, inSkip, visible, hidden>>
  PROVE  SplitFollows'
<1>1. \A n : IsSkippedAt(n)' = IsSkippedAt(n) /\ SqlLines' = SqlLines
      BY TextStays
<1>2. QED
      BY <1>1 DEF SplitFollows, Increasing, Numbers

LEMMA SplitStep ==
  ASSUME DirectiveInv, [Next]_vars
  PROVE  SplitFollows'
<1> USE DEF DirectiveInv
<1>1. ASSUME NEW kind \in {"system", "setEnv", "unsetEnv", "timeout", "malformed", "unknown"},
             Read(kind), UNCHANGED <<sqlVars, inSkip>>
      PROVE  SplitFollows'
  <2>1. inSkip' = (kind = "skipBegin" \/ (kind # "skipEnd" /\ inSkip))
        BY <1>1 DEF DirectiveTypes
  <2>2. QED
        BY <1>1, <2>1, SkipLineSplits
<1>2. CASE System \/ SetEnv \/ UnsetEnv \/ TimeoutSec \/ Malformed \/ UnknownDirective
      BY <1>1, <1>2 DEF System, SetEnv, UnsetEnv, TimeoutSec, Malformed, UnknownDirective,
            segmentVars
<1>3. CASE SkipBegin
  <2>1. inSkip' = TRUE /\ Read("skipBegin") /\ UNCHANGED sqlVars
        BY <1>3 DEF SkipBegin, segmentVars, DirectiveTypes
  <2>2. QED
        BY <2>1, SkipLineSplits
<1>4. CASE SkipEnd
  <2>1. inSkip' = FALSE /\ Read("skipEnd") /\ UNCHANGED sqlVars
        BY <1>4 DEF SkipEnd, segmentVars, DirectiveTypes
  <2>2. QED
        BY <2>1, SkipLineSplits
<1>5. CASE Sql("sql") \/ Sql("comment")
      BY <1>5, SqlLineSplits
<1>6. CASE Finish \/ CannotRead \/ UNCHANGED vars
      BY <1>6, SplitStays DEF Finish, CannotRead, vars, sqlVars, segmentVars
<1>7. QED
      BY <1>2, <1>3, <1>4, <1>5, <1>6 DEF Next

(***************************************************************************)
(* The issues.                                                             *)
(***************************************************************************)
IssueLines == {issues[i].line : i \in DOMAIN issues}
IssuesGrow == \A i, j \in DOMAIN issues : i < j => issues[i].line < issues[j].line

\* A line that is reported is the lowest one reported so far.
LEMMA IssueAdded ==
  ASSUME DirectiveTypes, IssuesGrow, \A n \in IssueLines : n < at, at \in Nat,
         NEW reason \in {"parse_error", "unknown_directive"}, AddIssue(reason)
  PROVE  IssuesGrow' /\ IssueLines' = IssueLines \cup {at}
<1> DEFINE new == [line |-> at, reason |-> reason]
<1>1. new \in Issues /\ new.line = at
      BY DEF Issues
<1>2. issues' = Append(issues, new)
      BY DEF AddIssue
<1> HIDE DEF new
<1>3. /\ DOMAIN issues' = DOMAIN issues \cup {Len(issues) + 1}
      /\ DOMAIN issues = 1..Len(issues) /\ Len(issues) \in Nat
      /\ \A i \in DOMAIN issues : issues'[i] = issues[i] /\ issues[i].line < at
      /\ issues'[Len(issues) + 1] = new
      BY <1>1, <1>2, AppendFacts DEF DirectiveTypes, IssueLines
<1>4. IssuesGrow'
  <2>1. ASSUME NEW i \in DOMAIN issues', NEW j \in DOMAIN issues', i < j
        PROVE  issues'[i].line < issues'[j].line
    <3>1. i \in DOMAIN issues
          BY <1>3, <2>1
    <3>2. QED
          BY <1>1, <1>3, <2>1, <3>1 DEF IssuesGrow
  <2>2. QED
        BY <2>1 DEF IssuesGrow
<1>5. IssueLines' = IssueLines \cup {at}
      BY <1>1, <1>3 DEF IssueLines
<1>6. QED
      BY <1>4, <1>5

\* Reading a line reports it if it is wrong, and not otherwise.
LEMMA LineIsReported ==
  ASSUME DirectiveInv, NEW kind, Read(kind),
         IF IsWrong(at)
         THEN \E reason \in {"parse_error", "unknown_directive"} : AddIssue(reason)
         ELSE UNCHANGED issues
  PROVE  IssuesFollow'
<1>1. /\ text \in Seq(LineType) /\ DOMAIN text = 1..Len(text) /\ Len(text) \in Nat
      /\ at \in DOMAIN text /\ at \in Nat /\ at' = at + 1 /\ text' = text
      /\ ~parsed /\ ~parsed'
      BY ReadFacts DEF DirectiveInv
<1>2. IssuesGrow /\ IssueLines = {n \in DOMAIN text : n < at /\ IsWrong(n)}
      BY <1>1 DEF DirectiveInv, IssuesFollow, IssuesGrow, IssueLines
<1>3. IssuesGrow' /\ IssueLines' = IssueLines \cup (IF IsWrong(at) THEN {at} ELSE {})
  <2>1. CASE IsWrong(at)
        BY <1>1, <1>2, <2>1, IssueAdded DEF DirectiveInv
  <2>2. CASE ~IsWrong(at)
        BY <1>2, <2>2 DEF IssuesGrow, IssueLines
  <2>3. QED
        BY <2>1, <2>2
<1>4. \A n \in DOMAIN text : n < at + 1 <=> n < at \/ n = at
      BY <1>1
<1>5. IssueLines' = {n \in DOMAIN text : n < at + 1 /\ IsWrong(n)}
      BY <1>1, <1>2, <1>3, <1>4
<1>6. \A n : IsWrong(n)' = IsWrong(n)
      BY <1>1, TextStays
<1>7. IssueLines' = {n \in DOMAIN text : n < at /\ IsWrong(n)}'
      BY <1>1, <1>5, <1>6
<1>8. EveryWrongLineReported'
      BY <1>1 DEF EveryWrongLineReported, WasRead
<1>9. QED
      BY <1>3, <1>7, <1>8 DEF IssuesFollow, IssuesGrow, IssueLines

\* So is the end of the script, if a block is open there.
LEMMA EndIsReported ==
  ASSUME DirectiveInv, Finish
  PROVE  IssuesFollow'
<1>1. /\ text \in Seq(LineType) /\ DOMAIN text = 1..Len(text) /\ Len(text) \in Nat
      /\ at = Len(text) + 1 /\ at \in Nat /\ at' = at /\ text' = text
      /\ ~parsed /\ parsed'
  <2>1. text \in Seq(LineType) /\ at \in 1..(Len(text) + 1)
        BY TextsAssumption DEF DirectiveInv, DirectiveTypes
  <2>2. at > Len(text) /\ at' = at /\ text' = text /\ ~parsed /\ parsed'
        BY DEF Finish
  <2>3. QED
        BY <2>1, <2>2
<1>2. IssuesGrow /\ IssueLines = {n \in DOMAIN text : n < at /\ IsWrong(n)}
      BY <1>1 DEF DirectiveInv, IssuesFollow, IssuesGrow, IssueLines
<1>3. inSkip <=> IsSkippedAt(at)
      BY DEF DirectiveInv, SplitFollows
<1>4. IssuesGrow' /\ IssueLines' = IssueLines \cup (IF IsSkippedAt(at) THEN {at} ELSE {})
  <2>1. CASE inSkip
    <3>1. AddIssue("parse_error")
          BY <2>1 DEF Finish
    <3>2. QED
          BY <1>1, <1>2, <1>3, <2>1, <3>1, IssueAdded DEF DirectiveInv
  <2>2. CASE ~inSkip
    <3>1. issues' = issues
          BY <2>2 DEF Finish
    <3>2. QED
          BY <1>2, <1>3, <2>2, <3>1 DEF IssuesGrow, IssueLines
  <2>3. QED
        BY <2>1, <2>2
<1>5. IssueLines' = {n \in DOMAIN text : IsWrong(n)}
                    \cup (IF IsSkippedAt(Len(text) + 1) THEN {Len(text) + 1} ELSE {})
  <2>1. \A n \in DOMAIN text : n < at
        BY <1>1
  <2>2. QED
        BY <1>1, <1>2, <1>4, <2>1
<1>6. \A n : IsWrong(n)' = IsWrong(n) /\ IsSkippedAt(n)' = IsSkippedAt(n)
      BY <1>1, TextStays
<1>7. (IssueLines = {n \in DOMAIN text : IsWrong(n)}
                    \cup (IF IsSkippedAt(Len(text) + 1) THEN {Len(text) + 1} ELSE {}))'
      BY <1>1, <1>5, <1>6
<1>8. (\A i, j \in DOMAIN issues : issues[i].line = issues[j].line => i = j)'
  <2>1. issues' \in Seq(Issues)
        BY DirectiveTypesStep DEF DirectiveInv, DirectiveTypes, Next
  <2>2. ASSUME NEW i \in DOMAIN issues', NEW j \in DOMAIN issues',
               issues'[i].line = issues'[j].line
        PROVE  i = j
    <3>1. i \in Nat /\ j \in Nat /\ issues'[i] \in Issues
          BY <2>1
    <3>2. issues'[i].line \in Nat
          BY <3>1 DEF Issues
    <3>3. QED
          BY <1>4, <2>2, <3>1, <3>2 DEF IssuesGrow
  <2>3. QED
        BY <2>2
<1>9. EveryWrongLineReported'
      BY <1>7, <1>8 DEF EveryWrongLineReported, IssueLines
<1>10. QED
       BY <1>1, <1>9 DEF IssuesFollow

LEMMA IssuesStep ==
  ASSUME DirectiveInv, [Next]_vars
  PROVE  IssuesFollow'
<1>1. ASSUME NEW kind, Read(kind)
      PROVE  IsWrong(at) <=> \/ kind \in {"malformed", "unknown"}
                             \/ kind = "skipBegin" /\ inSkip
                             \/ kind = "skipEnd" /\ ~inSkip
  <2>1. text[at].kind = kind
        BY <1>1, ReadFacts DEF DirectiveInv, Line
  <2>2. QED
        BY <2>1 DEF IsWrong, DirectiveInv, SplitFollows
<1>2. ASSUME NEW kind \in {"system", "setEnv", "unsetEnv", "timeout", "sql", "comment"},
             Read(kind), UNCHANGED issues
      PROVE  IssuesFollow'
      BY <1>1, <1>2, LineIsReported
<1>3. CASE System \/ SetEnv \/ UnsetEnv \/ TimeoutSec \/ Sql("sql") \/ Sql("comment")
      BY <1>2, <1>3 DEF System, SetEnv, UnsetEnv, TimeoutSec, Sql
<1>4. CASE SkipBegin
  <2>1. /\ Read("skipBegin")
        /\ IF inSkip THEN AddIssue("parse_error") ELSE UNCHANGED issues
        BY <1>4 DEF SkipBegin
  <2>2. IsWrong(at) <=> inSkip
        BY <1>1, <2>1
  <2>3. QED
        BY <2>1, <2>2, LineIsReported
<1>5. CASE SkipEnd
  <2>1. /\ Read("skipEnd")
        /\ IF ~inSkip THEN AddIssue("parse_error") ELSE UNCHANGED issues
        BY <1>5 DEF SkipEnd
  <2>2. IsWrong(at) <=> ~inSkip
        BY <1>1, <2>1
  <2>3. QED
        BY <2>1, <2>2, LineIsReported
<1>6. CASE Malformed \/ UnknownDirective
      BY <1>1, <1>6, LineIsReported DEF Malformed, UnknownDirective
<1>7. CASE Finish
      BY <1>7, EndIsReported
<1>8. CASE CannotRead
  <2>1. parsed' /\ at' = 1 /\ text' = text /\ issues' # <<>>
    <3>1. issues \in Seq(Issues)
          BY DEF DirectiveInv, DirectiveTypes
    <3>2. QED
          BY <1>8, <3>1 DEF CannotRead, AddIssue
  <2>2. ~WasRead'
    <3>1. SUFFICES ASSUME WasRead' PROVE FALSE
          OBVIOUS
    <3>2. text \in Seq(LineType) /\ Len(text) = 0
          BY <2>1, <3>1, TextsAssumption DEF WasRead, DirectiveInv, DirectiveTypes
    <3>3. QED
          BY <2>1, <3>1, <3>2, EmptySeq DEF WasRead
  <2>3. QED
        BY <2>1, <2>2 DEF IssuesFollow, EveryWrongLineReported
<1>9. CASE UNCHANGED vars
  <2>1. UNCHANGED <<text, at, parsed, issues>>
        BY <1>9 DEF vars
  <2>2. \A n : IsWrong(n)' = IsWrong(n) /\ IsSkippedAt(n)' = IsSkippedAt(n)
        BY <2>1, TextStays
  <2>3. EveryWrongLineReported'
        BY <2>1, <2>2 DEF DirectiveInv, IssuesFollow, EveryWrongLineReported, WasRead
  <2>4. QED
        BY <2>1, <2>2, <2>3 DEF DirectiveInv, IssuesFollow
<1>10. QED
       BY <1>3, <1>4, <1>5, <1>6, <1>7, <1>8, <1>9 DEF Next

(***************************************************************************)
(* The commands.                                                           *)
(***************************************************************************)
\* A line that is neither a command nor a statement.
LEMMA OtherLine ==
  ASSUME DirectiveTypes, ActionsFollow, NEW kind, Read(kind),
         kind # "system", kind # "sql", UNCHANGED <<actions, lastSql>>
  PROVE  ActionsFollow'
<1>1. /\ text \in Seq(LineType) /\ DOMAIN text = 1..Len(text) /\ Len(text) \in Nat
      /\ at \in DOMAIN text /\ at \in Nat /\ at' = at + 1 /\ text' = text
      /\ text[at].kind = kind
      BY ReadFacts DEF Line
<1>2. \A n \in DOMAIN text : n < at + 1 <=> n < at \/ n = at
      BY <1>1
<1>3. text[at].kind # "system" /\ text[at].kind # "sql"
      BY <1>1
<1>4. \A n : IsStatement(n)' = IsStatement(n)
      BY <1>1, TextStays
<1>5. (\A i, j \in DOMAIN actions : i < j => actions[i].lineno < actions[j].lineno)'
      BY DEF ActionsFollow
<1>6. ({actions[i].lineno : i \in DOMAIN actions}
          = {n \in DOMAIN text : n < at /\ text[n].kind = "system"})'
      BY <1>1, <1>2, <1>3 DEF ActionsFollow
<1>7. (lastSql # 0 => lastSql \in DOMAIN text /\ lastSql < at /\ IsStatement(lastSql))'
      BY <1>1, <1>2, <1>4 DEF ActionsFollow, IsStatement
<1>8. (\A n \in DOMAIN text : n < at /\ IsStatement(n) => n <= lastSql)'
      BY <1>1, <1>2, <1>3, <1>4 DEF ActionsFollow, IsStatement
<1>9. QED
      BY <1>5, <1>6, <1>7, <1>8 DEF ActionsFollow

LEMMA SystemLine ==
  ASSUME DirectiveTypes, ActionsFollow, System
  PROVE  ActionsFollow'
<1>1. /\ text \in Seq(LineType) /\ DOMAIN text = 1..Len(text) /\ Len(text) \in Nat
      /\ at \in DOMAIN text /\ at \in Nat /\ at' = at + 1 /\ text' = text
      /\ text[at].kind = "system" /\ lastSql' = lastSql
      BY ReadFacts DEF System, Line, sqlVars
<1>2. \A n \in DOMAIN text : n < at + 1 <=> n < at \/ n = at
      BY <1>1
<1>3. \A n : IsStatement(n)' = IsStatement(n)
      BY <1>1, TextStays
<1> DEFINE new == [lineno |-> at, env |-> Snapshot]
<1>4. new \in Actions /\ new.lineno = at
      BY <1>1 DEF DirectiveTypes, Actions
<1>5. actions' = Append(actions, new)
      BY DEF System
<1> HIDE DEF new
<1>6. /\ DOMAIN actions' = DOMAIN actions \cup {Len(actions) + 1}
      /\ DOMAIN actions = 1..Len(actions) /\ Len(actions) \in Nat
      /\ \A i \in DOMAIN actions : actions'[i] = actions[i]
      /\ actions'[Len(actions) + 1].lineno = at
      BY <1>4, <1>5, AppendFacts DEF DirectiveTypes
<1>7. \A i \in DOMAIN actions : actions[i].lineno < at
      BY DEF ActionsFollow
<1>8. ASSUME NEW i \in DOMAIN actions', NEW j \in DOMAIN actions', i < j
      PROVE  actions'[i].lineno < actions'[j].lineno
  <2>1. i \in DOMAIN actions
        BY <1>6, <1>8
  <2>2. QED
        BY <1>6, <1>7, <1>8, <2>1 DEF ActionsFollow
<1>9. {actions'[i].lineno : i \in DOMAIN actions'}
      = {actions[i].lineno : i \in DOMAIN actions} \cup {at}
      BY <1>6
<1>10. ({actions[i].lineno : i \in DOMAIN actions}
          = {n \in DOMAIN text : n < at /\ text[n].kind = "system"})'
       BY <1>1, <1>2, <1>9 DEF ActionsFollow
<1>11. (lastSql # 0 => lastSql \in DOMAIN text /\ lastSql < at /\ IsStatement(lastSql))'
       BY <1>1, <1>2, <1>3 DEF ActionsFollow, IsStatement
<1>12. (\A n \in DOMAIN text : n < at /\ IsStatement(n) => n <= lastSql)'
       BY <1>1, <1>2, <1>3 DEF ActionsFollow, IsStatement
<1>13. QED
       BY <1>8, <1>10, <1>11, <1>12 DEF ActionsFollow

LEMMA SqlLine ==
  ASSUME DirectiveTypes, ActionsFollow, Sql("sql")
  PROVE  ActionsFollow'
<1>1. /\ text \in Seq(LineType) /\ DOMAIN text = 1..Len(text) /\ Len(text) \in Nat
      /\ at \in DOMAIN text /\ at \in Nat /\ at' = at + 1 /\ text' = text
      /\ text[at].kind = "sql" /\ actions' = actions
      BY ReadFacts DEF Sql, Line
<1>2. lastSql' = at
      BY <1>1 DEF Sql, IsSql, Line
<1>3. \A n \in DOMAIN text : n < at + 1 <=> n < at \/ n = at
      BY <1>1
<1>4. \A n : IsStatement(n)' = IsStatement(n)
      BY <1>1, TextStays
<1>5. (\A i, j \in DOMAIN actions : i < j => actions[i].lineno < actions[j].lineno)'
      BY <1>1 DEF ActionsFollow
<1>6. ({actions[i].lineno : i \in DOMAIN actions}
          = {n \in DOMAIN text : n < at /\ text[n].kind = "system"})'
      BY <1>1, <1>3 DEF ActionsFollow
<1>7. (lastSql # 0 => lastSql \in DOMAIN text /\ lastSql < at /\ IsStatement(lastSql))'
      BY <1>1, <1>2, <1>4 DEF IsStatement
<1>8. (\A n \in DOMAIN text : n < at /\ IsStatement(n) => n <= lastSql)'
      BY <1>1, <1>2, <1>3
<1>9. QED
      BY <1>5, <1>6, <1>7, <1>8 DEF ActionsFollow

LEMMA ActionsStep ==
  ASSUME DirectiveInv, [Next]_vars
  PROVE  ActionsFollow'
<1> USE DEF DirectiveInv
<1>1. CASE System
      BY <1>1, SystemLine
<1>2. CASE Sql("sql")
      BY <1>2, SqlLine
<1>3. CASE Sql("comment")
  <2>1. Read("comment") /\ Line.kind = "comment"
        BY <1>3, ReadFacts DEF Sql
  <2>2. UNCHANGED <<actions, lastSql>>
        BY <1>3, <2>1 DEF Sql, IsSql
  <2>3. QED
        BY <2>1, <2>2, OtherLine
<1>4. CASE \/ SetEnv \/ UnsetEnv \/ TimeoutSec \/ SkipBegin \/ SkipEnd
           \/ Malformed \/ UnknownDirective
      BY <1>4, OtherLine DEF SetEnv, UnsetEnv, TimeoutSec, SkipBegin, SkipEnd,
            Malformed, UnknownDirective, sqlVars
<1>5. CASE Finish \/ CannotRead \/ UNCHANGED vars
  <2>1. UNCHANGED <<text, at, actions, lastSql>>
        BY <1>5 DEF Finish, CannotRead, vars, sqlVars
  <2>2. QED
        BY <2>1 DEF ActionsFollow, IsStatement
<1>6. QED
      BY <1>1, <1>2, <1>3, <1>4, <1>5 DEF Next

(***************************************************************************)
(* The theorems.                                                           *)
(***************************************************************************)
\* For any script, what parse_sql_file has gathered above a line follows the
\* lines above it.
THEOREM DirectiveInvariance == Spec => []DirectiveInv
<1>1. DirectiveInv /\ [Next]_vars => DirectiveInv'
      BY DirectiveTypesStep, EnvStep, SplitStep, IssuesStep, ActionsStep DEF DirectiveInv
<1>2. QED
      BY <1>1, DirectiveInit, PTL DEF Spec

LEMMA FirstSqlIsOne ==
  ASSUME NEW lines \in Seq(Nat), NEW n \in DOMAIN text, IsFirstSql(lines, n)
  PROVE  FirstSql(lines) = n
<1> DEFINE First(m) == /\ \E i \in DOMAIN lines : lines[i] = m
                       /\ IsStatement(m)
                       /\ \A i \in DOMAIN lines : lines[i] < m => ~IsStatement(lines[i])
<1>1. First(n) /\ n \in DOMAIN text
      BY DEF IsFirstSql
<1>2. First(FirstSql(lines)) /\ FirstSql(lines) \in DOMAIN text
      BY <1>1, Zenon DEF FirstSql
<1>3. \A m \in DOMAIN text : First(m) => m = n
      BY <1>1
<1>4. QED
      BY <1>2, <1>3

\* Every command and both parts of the SQL run in the environment that the
\* directives above them leave behind (parse_sql_file, build_env).
THEOREM EnvsAreLastWords == Spec => []EnvIsLastWord
<1>1. DirectiveInv => EnvIsLastWord
  <2>1. SUFFICES ASSUME DirectiveInv PROVE EnvIsLastWord
        OBVIOUS
  <2>2. visible \in Seq(Nat) /\ hidden \in Seq(Nat)
        BY <2>1 DEF DirectiveInv, DirectiveTypes
  <2>3. HasSql(visible) => SqlEnv(visibleEnv) = EnvAt(FirstSql(visible))
        BY <2>1, <2>2, FirstSqlIsOne DEF DirectiveInv, EnvFollows, SnapshotFollows
  <2>4. HasSql(hidden) => SqlEnv(hiddenEnv) = EnvAt(FirstSql(hidden))
        BY <2>1, <2>2, FirstSqlIsOne DEF DirectiveInv, EnvFollows, SnapshotFollows
  <2>5. \A i \in DOMAIN actions : BuildEnv(actions[i].env) = EnvAt(actions[i].lineno)
        BY <2>1 DEF DirectiveInv, EnvFollows
  <2>6. QED
        BY <2>3, <2>4, <2>5 DEF EnvIsLastWord, EnvAt
<1>2. QED
      BY <1>1, DirectiveInvariance, PTL

\* The hidden SQL is the SQL between the SKIP lines, and the visible SQL the
\* rest, each in the order of the script.
THEOREM HiddenLiesBetweenSkips == Spec => []HiddenIsBetweenSkips
<1>1. DirectiveInv => HiddenIsBetweenSkips
  <2>1. SUFFICES ASSUME DirectiveInv, WasRead
                 PROVE  /\ Increasing(visible) /\ Increasing(hidden)
                        /\ Numbers(hidden) = {n \in SqlLines : IsSkippedAt(n)}
                        /\ Numbers(visible) = {n \in SqlLines : ~IsSkippedAt(n)}
        BY DEF HiddenIsBetweenSkips
  <2>2. text \in Seq(LineType)
        BY <2>1, TextsAssumption DEF DirectiveInv, DirectiveTypes
  <2>3. \A n \in SqlLines : n < at
        BY <2>1, <2>2 DEF WasRead, SqlLines
  <2>4. QED
        BY <2>1, <2>3 DEF DirectiveInv, SplitFollows
<1>2. QED
      BY <1>1, DirectiveInvariance, PTL

\* Every wrong line and a block that stays open are reported, once each.
THEOREM WrongLinesAreReported == Spec => []EveryWrongLineReported
<1>1. DirectiveInv => EveryWrongLineReported
      BY DEF DirectiveInv, IssuesFollow
<1>2. QED
      BY <1>1, DirectiveInvariance, PTL

\* The commands before and after the SQL are those with a line up to the last
\* statement, and beyond it, each list in order.
LEMMA SideFacts ==
  ASSUME DirectiveTypes, ActionsFollow, NEW I
  PROVE  LET side == Kept(actions, I) IN
         /\ side \in Seq(Actions)
         /\ \A i, j \in DOMAIN side : i < j => side[i].lineno < side[j].lineno
         /\ \A i \in DOMAIN side : \E p \in I \cap DOMAIN actions : side[i] = actions[p]
         /\ \A p \in I \cap DOMAIN actions : \E i \in DOMAIN side : side[i] = actions[p]
<1> DEFINE side == Kept(actions, I)
<1>1. actions \in Seq(Actions)
      BY DEF DirectiveTypes
<1>2. /\ side \in Seq(Actions)
      /\ {side[i] : i \in DOMAIN side} = {actions[p] : p \in I \cap DOMAIN actions}
      BY <1>1, KeptElements
<1>3. PICK place : Places(side, actions, I, Len(actions), place)
      BY <1>1, KeptPlaces
<1> HIDE DEF side
<1>4. DOMAIN side = 1..Len(side) /\ DOMAIN actions = 1..Len(actions)
      BY <1>1, <1>2
<1>5. \A i, j \in DOMAIN side : i < j => side[i].lineno < side[j].lineno
      BY <1>3, <1>4 DEF Places, ActionsFollow
<1>6. /\ \A i \in DOMAIN side : \E p \in I \cap DOMAIN actions : side[i] = actions[p]
      /\ \A p \in I \cap DOMAIN actions : \E i \in DOMAIN side : side[i] = actions[p]
  <2>1. \A i \in DOMAIN side : side[i] \in {actions[p] : p \in I \cap DOMAIN actions}
        BY <1>2
  <2>2. \A p \in I \cap DOMAIN actions : actions[p] \in {side[i] : i \in DOMAIN side}
        BY <1>2
  <2>3. QED
        BY <2>1, <2>2
<1>7. QED
      BY <1>2, <1>5, <1>6 DEF side

\* Every SYSTEM line is run once, in order, before the SQL if there is a
\* statement below it and after the SQL otherwise (_run_phase).
THEOREM SystemLinesKeepTheirSide == Spec => []SystemKeepsItsSide
<1>1. DirectiveInv => SystemKeepsItsSide
  <2> SUFFICES ASSUME DirectiveInv, WasRead PROVE SystemKeepsItsSide
      BY DEF SystemKeepsItsSide
  <2> DEFINE before == PreActions
             after == PostActions
             plan == before \o after
             systems == {n \in DOMAIN text : text[n].kind = "system"}
  <2>1. /\ text \in Seq(LineType) /\ DOMAIN text = 1..Len(text) /\ Len(text) \in Nat
        /\ at = Len(text) + 1 /\ \A n \in DOMAIN text : n < at
        /\ actions \in Seq(Actions) /\ lastSql \in Nat
        BY TextsAssumption DEF DirectiveInv, DirectiveTypes, WasRead
  <2>2. \A p \in DOMAIN actions : actions[p].lineno \in Nat
    <3>1. \A p \in DOMAIN actions : actions[p] \in Actions
          BY <2>1
    <3>2. \A a \in Actions : a.lineno \in Nat
          BY DEF Actions
    <3>3. QED
          BY <3>1, <3>2
  <2>3. /\ before \in Seq(Actions)
        /\ \A i, j \in DOMAIN before : i < j => before[i].lineno < before[j].lineno
        /\ \A i \in DOMAIN before :
              \E p \in DOMAIN actions : actions[p].lineno <= lastSql /\ before[i] = actions[p]
        /\ \A p \in DOMAIN actions :
              actions[p].lineno <= lastSql => \E i \in DOMAIN before : before[i] = actions[p]
        BY SideFacts DEF PreActions, DirectiveInv
  <2>4. /\ after \in Seq(Actions)
        /\ \A i, j \in DOMAIN after : i < j => after[i].lineno < after[j].lineno
        /\ \A i \in DOMAIN after :
              \E p \in DOMAIN actions : actions[p].lineno > lastSql /\ after[i] = actions[p]
        /\ \A p \in DOMAIN actions :
              actions[p].lineno > lastSql => \E i \in DOMAIN after : after[i] = actions[p]
        BY SideFacts DEF PostActions, DirectiveInv
  <2> HIDE DEF before, after
  <2>5. /\ DOMAIN plan = 1..(Len(before) + Len(after))
        /\ DOMAIN before = 1..Len(before) /\ DOMAIN after = 1..Len(after)
        /\ Len(before) \in Nat /\ Len(after) \in Nat
        /\ \A i \in DOMAIN before : i \in DOMAIN plan /\ plan[i] = before[i]
        /\ \A i \in DOMAIN after :
              Len(before) + i \in DOMAIN plan /\ plan[Len(before) + i] = after[i]
        BY <2>3, <2>4
  <2> HIDE DEF plan
  <2>6. \A i \in DOMAIN plan :
            \/ i \in DOMAIN before
            \/ i - Len(before) \in DOMAIN after /\ plan[i] = after[i - Len(before)]
    <3>1. ASSUME NEW i \in DOMAIN plan, i \notin DOMAIN before
          PROVE  i - Len(before) \in DOMAIN after /\ plan[i] = after[i - Len(before)]
      <4>1. i - Len(before) \in DOMAIN after /\ Len(before) + (i - Len(before)) = i
            BY <2>5, <3>1
      <4>2. QED
            BY <2>5, <4>1
    <3>2. QED
          BY <3>1
  <2>7. systems = {actions[p].lineno : p \in DOMAIN actions}
        BY <2>1 DEF DirectiveInv, ActionsFollow
  <2>8. \A i, j \in DOMAIN plan : i < j => plan[i].lineno < plan[j].lineno
    <3>1. SUFFICES ASSUME NEW i \in DOMAIN plan, NEW j \in DOMAIN plan, i < j
                   PROVE  plan[i].lineno < plan[j].lineno
          OBVIOUS
    <3>2. CASE j \in DOMAIN before
      <4>1. i \in DOMAIN before
            BY <2>5, <3>1, <3>2
      <4>2. QED
            BY <2>3, <2>5, <3>1, <3>2, <4>1
    <3>3. CASE i \in DOMAIN before /\ j \notin DOMAIN before
      <4>1. plan[i].lineno <= lastSql /\ plan[i].lineno \in Nat
            BY <2>2, <2>3, <2>5, <3>3
      <4>2. plan[j].lineno > lastSql /\ plan[j].lineno \in Nat
            BY <2>2, <2>4, <2>6, <3>3
      <4>3. QED
            BY <2>1, <4>1, <4>2
    <3>4. CASE i \notin DOMAIN before /\ j \notin DOMAIN before
      <4>1. /\ i - Len(before) \in DOMAIN after /\ j - Len(before) \in DOMAIN after
            /\ plan[i] = after[i - Len(before)] /\ plan[j] = after[j - Len(before)]
            BY <2>6, <3>4
      <4>2. i - Len(before) < j - Len(before)
            BY <2>5, <3>1
      <4>3. QED
            BY <2>4, <4>1, <4>2
    <3>5. QED
          BY <3>2, <3>3, <3>4
  <2>9. {plan[i].lineno : i \in DOMAIN plan} = systems
    <3>1. ASSUME NEW i \in DOMAIN plan
          PROVE  plan[i].lineno \in systems
          BY <2>3, <2>4, <2>5, <2>6, <2>7
    <3>2. ASSUME NEW p \in DOMAIN actions
          PROVE  \E i \in DOMAIN plan : plan[i] = actions[p]
      <4>1. CASE actions[p].lineno <= lastSql
            BY <2>3, <2>5, <4>1
      <4>2. CASE actions[p].lineno > lastSql
            BY <2>4, <2>5, <4>2
      <4>3. QED
            BY <2>1, <2>2, <4>1, <4>2
    <3>3. QED
          BY <2>7, <3>1, <3>2
  <2>10. \A n \in systems : n <= lastSql <=> \E m \in DOMAIN text : m > n /\ IsStatement(m)
    <3>1. SUFFICES ASSUME NEW n \in systems
                   PROVE  n <= lastSql <=> \E m \in DOMAIN text : m > n /\ IsStatement(m)
          OBVIOUS
    <3>2. n \in Nat /\ n > 0 /\ ~IsStatement(n)
          BY <2>1 DEF IsStatement
    <3>3. ASSUME n <= lastSql
          PROVE  \E m \in DOMAIN text : m > n /\ IsStatement(m)
          BY <2>1, <3>2, <3>3 DEF DirectiveInv, ActionsFollow
    <3>4. ASSUME NEW m \in DOMAIN text, m > n, IsStatement(m)
          PROVE  n <= lastSql
      <4>1. m <= lastSql /\ m \in Nat
            BY <2>1, <3>4 DEF DirectiveInv, ActionsFollow
      <4>2. QED
            BY <2>1, <3>2, <3>4, <4>1
    <3>5. QED
          BY <3>3, <3>4
  <2>11. {before[i].lineno : i \in DOMAIN before}
         = {n \in DOMAIN text : text[n].kind = "system" /\
               \E m \in DOMAIN text : m > n /\ IsStatement(m)}
    <3>1. {before[i].lineno : i \in DOMAIN before} = {n \in systems : n <= lastSql}
      <4>1. ASSUME NEW i \in DOMAIN before
            PROVE  before[i].lineno \in systems /\ before[i].lineno <= lastSql
            BY <2>3, <2>7
      <4>2. ASSUME NEW n \in systems, n <= lastSql
            PROVE  \E i \in DOMAIN before : before[i].lineno = n
            BY <2>3, <2>7, <4>2
      <4>3. QED
            BY <4>1, <4>2
    <3>2. QED
          BY <2>10, <3>1
  <2>12. QED
         BY <2>8, <2>9, <2>11 DEF SystemKeepsItsSide, plan, before, after
<1>2. QED
      BY <1>1, DirectiveInvariance, PTL
=============================================================================
