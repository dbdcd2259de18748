-------------------------- MODULE DirectiveParser --------------------------
(***************************************************************************)
(* parse_sql_file: one pass over a SQL script that takes the `--+` lines   *)
(* out of it, splits the rest into hidden and visible SQL, and remembers   *)
(* the environment each command is to have; and what _run_phase makes of   *)
(* the result before it runs anything.                                     *)
(***************************************************************************)
EXTENDS Selection

CONSTANTS
    Keys, Values,   \* environment variables and what they are set to
    NoValue,        \* the value of a variable that is not set
    BaseEnv,        \* the environment of altitest itself
    Texts           \* the scripts that may be parsed

\* Other directives than the six are "unknown"; those of the six that break
\* their own syntax are "malformed"; blank lines are "comment" lines.
Kinds == {"system", "setEnv", "unsetEnv", "timeout", "skipBegin", "skipEnd",
          "malformed", "unknown", "sql", "comment"}

LineType ==
    [kind : Kinds, key : Keys \cup {NoValue}, value : Values \cup {NoValue},
     seconds : Nat]

ASSUME EnvAssumption ==
    /\ NoValue \notin Keys \cup Values
    /\ BaseEnv \in [Keys -> Values \cup {NoValue}]

ASSUME TextsAssumption ==
    /\ Texts \subseteq Seq(LineType)
    /\ \A t \in Texts : \A n \in DOMAIN t :
          /\ t[n].kind \in {"setEnv", "unsetEnv"} => t[n].key \in Keys
          /\ t[n].kind = "setEnv" => t[n].value \in Values
          /\ t[n].kind = "timeout" => t[n].seconds > 0

VARIABLES
    text,         \* the script, constant
    at,           \* the number of the next line
    inSkip,       \* in_skip
    env,          \* env_map: NoValue for a key that is not in it
    unset,        \* unset_env_keys
    visible, hidden,          \* the numbers of their lines
    visibleEnv, hiddenEnv,    \* <<the snapshot at their first SQL line>>, or <<>>
    current, segments,        \* current_lines, and the flushed ones
    actions,      \* the SYSTEM actions
    timeout,      \* timeout_sec_override, 0 for None
    lastSql,      \* last_sql_lineno
    issues,
    parsed        \* whether the result has been returned

envVars == <<env, unset>>
sqlVars == <<visible, hidden, visibleEnv, hiddenEnv, lastSql>>
segmentVars == <<inSkip, current, segments>>
vars == <<text, at, envVars, sqlVars, segmentVars, actions, timeout, issues, parsed>>

Snapshot == [env |-> env, unset |-> unset]

NoEnv == [env |-> [k \in Keys |-> NoValue], unset |-> {}]

Line == text[at]

Read(kind) ==
    /\ ~parsed
    /\ at <= Len(text)
    /\ Line.kind = kind
    /\ at' = at + 1
    /\ UNCHANGED <<text, parsed>>

AddIssue(reason) == issues' = Append(issues, [line |-> at, reason |-> reason])

(***************************************************************************)
(* The directives.                                                         *)
(***************************************************************************)
\* Mutant: the action has no environment of its own.
SystemPlain ==
    /\ Read("system")
    /\ actions' = Append(actions, [lineno |-> at, env |-> NoEnv])
    /\ UNCHANGED <<envVars, sqlVars, segmentVars, timeout, issues>>

System ==
    /\ Read("system")
    /\ actions' = Append(actions, [lineno |-> at, env |-> Snapshot])
    /\ UNCHANGED <<envVars, sqlVars, segmentVars, timeout, issues>>

SetEnv ==
    /\ Read("setEnv")
    /\ env' = [env EXCEPT ![Line.key] = Line.value]
    /\ unset' = unset \ {Line.key}
    /\ UNCHANGED <<sqlVars, segmentVars, actions, timeout, issues>>

UnsetEnv ==
    /\ Read("unsetEnv")
    /\ env' = [env EXCEPT ![Line.key] = NoValue]
    /\ unset' = unset \cup {Line.key}
    /\ UNCHANGED <<sqlVars, segmentVars, actions, timeout, issues>>

TimeoutSec ==
    /\ Read("timeout")
    /\ timeout' = Line.seconds
    /\ UNCHANGED <<envVars, sqlVars, segmentVars, actions, issues>>

\* _flush_segment.
Flush(isHidden) ==
    /\ segments' = IF current = <<>> THEN segments
                   ELSE Append(segments, [lines |-> current, hidden |-> isHidden])
    /\ current' = <<>>

SkipBegin ==
    /\ Read("skipBegin")
    /\ IF inSkip THEN AddIssue("parse_error") /\ UNCHANGED segmentVars
       ELSE Flush(FALSE) /\ inSkip' = TRUE /\ UNCHANGED issues
    /\ UNCHANGED <<envVars, sqlVars, actions, timeout>>

SkipEnd ==
    /\ Read("skipEnd")
    /\ IF ~inSkip THEN AddIssue("parse_error") /\ UNCHANGED segmentVars
       ELSE Flush(TRUE) /\ inSkip' = FALSE /\ UNCHANGED issues
    /\ UNCHANGED <<envVars, sqlVars, actions, timeout>>

Malformed ==
    /\ Read("malformed")
    /\ AddIssue("parse_error")
    /\ UNCHANGED <<envVars, sqlVars, segmentVars, actions, timeout>>

UnknownDirective ==
    /\ Read("unknown")
    /\ AddIssue("unknown_directive")
    /\ UNCHANGED <<envVars, sqlVars, segmentVars, actions, timeout>>

(***************************************************************************)
(* The SQL.                                                                *)
(***************************************************************************)
\* Mutant: comments count as SQL.
IsSqlOrComment(line) == line.kind \in {"sql", "comment"}

IsSql(line) == line.kind = "sql"

\* Mutant: SQL is always visible.
SplitVisible ==
    /\ visible' = Append(visible, at)
    /\ visibleEnv' = IF visibleEnv = <<>> /\ IsSql(Line) THEN <<Snapshot>> ELSE visibleEnv
    /\ UNCHANGED <<hidden, hiddenEnv>>

Split ==
    IF inSkip
    THEN /\ hidden' = Append(hidden, at)
         /\ hiddenEnv' = IF hiddenEnv = <<>> /\ IsSql(Line) THEN <<Snapshot>> ELSE hiddenEnv
         /\ UNCHANGED <<visible, visibleEnv>>
    ELSE /\ visible' = Append(visible, at)
         /\ visibleEnv' = IF visibleEnv = <<>> /\ IsSql(Line) THEN <<Snapshot>> ELSE visibleEnv
         /\ UNCHANGED <<hidden, hiddenEnv>>

\* The environment of the hidden, or visible, SQL is the one at its first
\* statement: later SET_ENV lines do not reach it.
Sql(kind) ==
    /\ Read(kind)
    /\ Split
    /\ lastSql' = IF IsSql(Line) THEN at ELSE lastSql
    /\ current' = Append(current, at)
    /\ UNCHANGED <<envVars, inSkip, segments, actions, timeout, issues>>

\* Mutant: a block that is still open is not reported.
FinishSilently ==
    /\ ~parsed
    /\ at > Len(text)
    /\ parsed' = TRUE
    /\ IF inSkip THEN UNCHANGED <<current, segments>> ELSE Flush(FALSE)
    /\ UNCHANGED <<text, at, envVars, sqlVars, inSkip, actions, timeout, issues>>

\* The lines of a SKIP block that is still open are in no segment.
Finish ==
    /\ ~parsed
    /\ at > Len(text)
    /\ parsed' = TRUE
    /\ IF inSkip THEN AddIssue("parse_error") /\ UNCHANGED <<current, segments>>
       ELSE Flush(FALSE) /\ UNCHANGED issues
    /\ UNCHANGED <<text, at, envVars, sqlVars, inSkip, actions, timeout>>

\* The file cannot be read.
CannotRead ==
    /\ ~parsed
    /\ at = 1
    /\ parsed' = TRUE
    /\ AddIssue("parse_error")
    /\ UNCHANGED <<text, at, envVars, sqlVars, segmentVars, actions, timeout>>

Init ==
    /\ text \in Texts
    /\ at = 1
    /\ inSkip = FALSE
    /\ env = [k \in Keys |-> NoValue]
    /\ unset = {}
    /\ visible = <<>> /\ hidden = <<>>
    /\ visibleEnv = <<>> /\ hiddenEnv = <<>>
    /\ current = <<>> /\ segments = <<>>
    /\ actions = <<>>
    /\ timeout = 0
    /\ lastSql = 0
    /\ issues = <<>>
    /\ parsed = FALSE

Next ==
    \/ System \/ SetEnv \/ UnsetEnv \/ TimeoutSec
    \/ SkipBegin \/ SkipEnd
    \/ Malformed \/ UnknownDirective
    \/ Sql("sql") \/ Sql("comment")
    \/ Finish \/ CannotRead

Spec == Init /\ [][Next]_vars

(***************************************************************************)
(* _run_phase, before the first command.                                   *)
(***************************************************************************)
\* build_env.
BuildEnv(s) ==
    [k \in Keys |-> IF s.env[k] # NoValue THEN s.env[k]
                    ELSE IF k \in s.unset THEN NoValue ELSE BaseEnv[k]]

SqlEnv(snapshot) == BuildEnv(IF snapshot = <<>> THEN NoEnv ELSE snapshot[1])

PreActions == Kept(actions, {i \in DOMAIN actions : actions[i].lineno <= lastSql})
PostActions == Kept(actions, {i \in DOMAIN actions : actions[i].lineno > lastSql})

(***************************************************************************)
(* Properties.                                                             *)
(***************************************************************************)
Above(n) == 1..(n - 1)

\* The value of k at line n: what the last SET_ENV or UNSET_ENV of k above it
\* says, or else the environment of altitest.
LastWord(k, n) ==
    LET said == {m \in Above(n) : text[m].kind \in {"setEnv", "unsetEnv"} /\ text[m].key = k}
    IN IF said = {} THEN BaseEnv[k]
       ELSE LET m == CHOOSE m \in said : \A o \in said : o <= m
            IN IF text[m].kind = "setEnv" THEN text[m].value ELSE NoValue

IsStatement(n) == text[n].kind = "sql"

FirstSql(lines) ==
    CHOOSE n \in DOMAIN text :
        /\ \E i \in DOMAIN lines : lines[i] = n
        /\ IsStatement(n)
        /\ \A i \in DOMAIN lines : lines[i] < n => ~IsStatement(lines[i])

HasSql(lines) == \E i \in DOMAIN lines : IsStatement(lines[i])

\* Every SYSTEM command, the hidden and the visible SQL run in the environment
\* that the directives above them, read in order, leave behind: above the
\* command itself, above the first statement of the SQL.
EnvIsLastWord ==
    /\ \A i \in DOMAIN actions :
          BuildEnv(actions[i].env) = [k \in Keys |-> LastWord(k, actions[i].lineno)]
    /\ HasSql(visible) =>
          SqlEnv(visibleEnv) = [k \in Keys |-> LastWord(k, FirstSql(visible))]
    /\ HasSql(hidden) =>
          SqlEnv(hiddenEnv) = [k \in Keys |-> LastWord(k, FirstSql(hidden))]

SkipLines == {n \in DOMAIN text : text[n].kind \in {"skipBegin", "skipEnd"}}

IsSkippedAt(n) ==
    \E m \in SkipLines \cap Above(n) :
        text[m].kind = "skipBegin" /\ \A o \in SkipLines \cap Above(n) : o <= m

SqlLines == {n \in DOMAIN text : text[n].kind \in {"sql", "comment"}}

Numbers(s) == {s[i] : i \in DOMAIN s}
Increasing(s) == \A i, j \in DOMAIN s : i < j => s[i] < s[j]

WasRead == parsed /\ at = Len(text) + 1 /\ (text = <<>> => issues = <<>>)

\* The SQL whose output is compared and the SQL whose output is not are the
\* lines outside and inside the SKIP blocks, in the order of the script.
HiddenIsBetweenSkips ==
    WasRead =>
        /\ Increasing(visible) /\ Increasing(hidden)
        /\ Numbers(hidden) = {n \in SqlLines : IsSkippedAt(n)}
        /\ Numbers(visible) = {n \in SqlLines : ~IsSkippedAt(n)}

\* Every SYSTEM line is run once, in order: before the SQL if there is a
\* statement below it, after the SQL otherwise.
SystemKeepsItsSide ==
    WasRead =>
        LET plan == PreActions \o PostActions IN
        /\ \A i, j \in DOMAIN plan : i < j => plan[i].lineno < plan[j].lineno
        /\ {plan[i].lineno : i \in DOMAIN plan} =
              {n \in DOMAIN text : text[n].kind = "system"}
        /\ {PreActions[i].lineno : i \in DOMAIN PreActions} =
              {n \in DOMAIN text : text[n].kind = "system" /\
                  \E m \in DOMAIN text : m > n /\ IsStatement(m)}

\* A line is wrong by itself, or as a SKIP line that follows one of its kind.
IsWrong(n) ==
    \/ text[n].kind \in {"malformed", "unknown"}
    \/ text[n].kind = "skipBegin" /\ IsSkippedAt(n)
    \/ text[n].kind = "skipEnd" /\ ~IsSkippedAt(n)

\* Every wrong line is reported once, and the end of the script if a SKIP
\* block is open there: the phase is refused if and only if there is one.
EveryWrongLineReported ==
    WasRead =>
        /\ \A i, j \in DOMAIN issues : issues[i].line = issues[j].line => i = j
        /\ {issues[i].line : i \in DOMAIN issues} =
            {n \in DOMAIN text : IsWrong(n)}
            \cup (IF IsSkippedAt(Len(text) + 1) THEN {Len(text) + 1} ELSE {})
=============================================================================
