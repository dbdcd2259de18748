---------------------------- MODULE RunnerProofs ----------------------------
(***************************************************************************)
(* Proofs about Runner and the PhaseRun it extends, for any suites, any    *)
(* command lines, any scripts and any outcomes of commands.  First phases: *)
(* types, and that the verdict of a phase is the one its history calls     *)
(* for (inductive invariant PhaseInv).  Then whole runs: types, safety     *)
(* properties, and that every run is a run of RunContract.  The inductive  *)
(* invariant is RunInv; it contains PhaseInv, which tells what a returned  *)
(* phase has done.                                                         *)
(***************************************************************************)
EXTENDS Runner, SequenceTheorems, FiniteSetTheorems, TLAPS

ScriptRecord ==
    [issue  : {NoReason, "parse_error", "unknown_directive", "absent"},
     pre    : Seq(Commands),
     hidden : BOOLEAN,
     post   : Seq(Commands)]

LEMMA ScriptIsRecord == Scripts \cup {NoScript} \subseteq ScriptRecord
<1>1. NoScript \in ScriptRecord
      BY DEF NoScript, ScriptRecord
<1>2. Scripts \subseteq ScriptRecord
      BY ScriptsAssumption DEF ScriptType, ScriptRecord
<1>3. QED
      BY <1>1, <1>2

LEMMA CommandVerdicts ==
  ASSUME NEW r \in CommandResult
  PROVE  SystemVerdict(r) \in Verdicts
  BY DEF SystemVerdict, Error, Fatal, Verdicts, Statuses, Reasons

LEMMA CommandEntry ==
  ASSUME NEW r \in Outcomes, NEW op \in {"system", "hidden", "visible"}
  PROVE  Entry(op, r.kind, r.found) \in TraceEntry
  BY OutcomesAssumption DEF CommandResult, Entry, TraceEntry

LEMMA PortEntry ==
  /\ Entry("port", "open", {}) \in TraceEntry
  /\ Entry("port", "closed", {}) \in TraceEntry
  BY DEF Entry, TraceEntry

LEMMA EffectType ==
  ASSUME NEW c \in Commands, NEW kind, server \in ServerStates
  PROVE  Effect(c, kind) \subseteq ServerStates
  BY DEF Effect, ServerStates, Commands

LEMMA SystemActionType ==
  ASSUME NEW here \in Steps, NEW actions \in Seq(Commands), TypeOK,
         SystemAction(here, actions)
  PROVE  TypeOK'
<1>1. actions[k] \in Commands
      BY DEF SystemAction, TypeOK
<1>2. PICK r \in Outcomes :
        /\ server' \in Effect(actions[k], r.kind)
        /\ Record("system", r)
        /\ IF r.kind = "ok" THEN k' = k + 1 /\ GoTo(here)
           ELSE UNCHANGED k /\ Return(SystemVerdict(r))
      BY DEF SystemAction
<1>3. server' \in ServerStates
      BY <1>1, <1>2, EffectType DEF TypeOK
<1>4. trace' \in Seq(TraceEntry)
      BY <1>2, CommandEntry DEF Record, TypeOK
<1>5. k' \in Nat \ {0} /\ step' \in Steps /\ ret' \in Verdicts \cup {NoVerdict}
      BY <1>2, CommandVerdicts, OutcomesAssumption DEF GoTo, Return, TypeOK, Steps
<1>6. QED
      BY <1>3, <1>4, <1>5 DEF TypeOK, SystemAction

LEMMA RunSqlType ==
  ASSUME NEW here \in {"hidden", "visible"}, NEW next \in Steps, TypeOK,
         RunSql(here, next)
  PROVE  TypeOK'
<1>1. PICK r \in Outcomes :
        /\ Record(here, r)
        /\ IF IsFatal(r.found) THEN Return(Fatal("server_disconnected"))
           ELSE GoTo(next)
      BY DEF RunSql
<1>2. trace' \in Seq(TraceEntry)
      BY <1>1, CommandEntry DEF Record, TypeOK
<1>3. step' \in Steps /\ ret' \in Verdicts \cup {NoVerdict}
      BY <1>1 DEF GoTo, Return, Fatal, Verdicts, Statuses, Reasons, TypeOK, Steps
<1>4. QED
      BY <1>2, <1>3 DEF TypeOK, RunSql, serverVars

LEMMA RecordPort ==
  ASSUME TypeOK,
         Record("port", [kind |-> IF IsPortOpen THEN "open" ELSE "closed",
                         found |-> {}])
  PROVE  /\ trace' = Append(trace, Entry("port", IF IsPortOpen THEN "open"
                                                 ELSE "closed", {}))
         /\ trace' \in Seq(TraceEntry)
<1>1. trace' = Append(trace, Entry("port", IF IsPortOpen THEN "open"
                                           ELSE "closed", {}))
      BY DEF Record
<1>2. QED
      BY <1>1, PortEntry DEF TypeOK

LEMMA CheckPortType ==
  ASSUME NEW here \in Steps, NEW next \in Steps, NEW tolerated, TypeOK,
         CheckPort(here, next, tolerated), k' \in Nat \ {0}
  PROVE  TypeOK'
<1>1. trace' \in Seq(TraceEntry)
      BY RecordPort DEF CheckPort
<1>2. step' \in Steps /\ ret' \in Verdicts \cup {NoVerdict}
      BY DEF CheckPort, GoTo, Return, Fatal, Error, Verdicts, Statuses, Reasons,
             TypeOK, Steps
<1>3. QED
      BY <1>1, <1>2 DEF TypeOK, CheckPort, serverVars

LEMMA CallType ==
  ASSUME NEW s \in Scripts, TypeOK, Call(s)
  PROVE  TypeOK'
<1>1. s.issue \in Reasons
      BY ScriptsAssumption DEF ScriptType, Reasons
<1>2. trace' \in Seq(TraceEntry)
      BY DEF Call
<1>3. step' \in Steps /\ ret' \in Verdicts \cup {NoVerdict}
      BY <1>1 DEF Call, GoTo, Return, Error, Verdicts, Statuses, TypeOK, Steps
<1>4. QED
      BY <1>2, <1>3 DEF TypeOK, Call, serverVars

LEMMA PhaseStepType ==
  ASSUME TypeOK, PhaseStep
  PROVE  TypeOK'
<1>1. script \in ScriptRecord
      BY ScriptIsRecord DEF TypeOK
<1>2. script.pre \in Seq(Commands) /\ script.post \in Seq(Commands)
      BY <1>1 DEF ScriptRecord
<1>3. CASE PreAction
      BY <1>2, <1>3, SystemActionType DEF PreAction, Steps
<1>4. CASE PreDone
      BY <1>4 DEF PreDone, GoTo, TypeOK, Steps, serverVars
<1>5. CASE RunHidden
      BY <1>5, RunSqlType DEF RunHidden, Steps
<1>6. CASE CheckHidden
  <2>1. k' \in Nat \ {0}
        BY <1>6 DEF CheckHidden, TypeOK
  <2>2. QED
        BY <1>6, <2>1, CheckPortType DEF CheckHidden, Steps
<1>7. CASE RunVisible
      BY <1>7, RunSqlType DEF RunVisible, Steps
<1>8. CASE CheckVisible
  <2>1. k' \in Nat \ {0}
        BY <1>8 DEF CheckVisible
  <2>2. QED
        BY <1>8, <2>1, CheckPortType DEF CheckVisible, Steps
<1>9. CASE PostAction
      BY <1>2, <1>9, SystemActionType DEF PostAction, Steps
<1>10. CASE PostDone
      BY <1>10 DEF PostDone, GoTo, Return, Pass, Verdicts, Statuses, Reasons,
                   TypeOK, Steps, serverVars
<1>11. CASE CheckPost
  <2>1. trace' \in Seq(TraceEntry)
        BY <1>11, RecordPort DEF CheckPost
  <2>2. step' \in Steps /\ ret' \in Verdicts \cup {NoVerdict}
        BY <1>11 DEF CheckPost, Return, Pass, Fatal, Verdicts, Statuses, Reasons,
                     TypeOK, Steps
  <2>3. QED
        BY <1>11, <2>1, <2>2 DEF CheckPost, TypeOK, serverVars
<1>12. QED
      BY <1>3, <1>4, <1>5, <1>6, <1>7, <1>8, <1>9, <1>10, <1>11 DEF PhaseStep

LEMMA ServerType ==
  ASSUME TypeOK, Crash \/ Boot
  PROVE  TypeOK'
  BY CrashesAssumption DEF TypeOK, Crash, Boot, phaseVars, ServerStates

LEMMA ForgetType ==
  ASSUME TypeOK, Forget, UNCHANGED serverVars
  PROVE  TypeOK'
<1>1. trace' \in Seq(TraceEntry)
      BY DEF Forget
<1>2. QED
      BY <1>1 DEF TypeOK, Forget, serverVars, Steps

LEMMA InitType == Init => TypeOK
<1> SUFFICES ASSUME Init
             PROVE  TypeOK
    OBVIOUS
<1>1. trace \in Seq(TraceEntry)
      BY DEF Init, PhaseInit
<1>2. QED
      BY <1>1, CrashesAssumption
         DEF Init, PhaseInit, TypeOK, ServerStates, Steps

LEMMA NextType == TypeOK /\ [Next]_vars => TypeOK'
<1> SUFFICES ASSUME TypeOK, [Next]_vars
             PROVE  TypeOK'
    OBVIOUS
<1>1. ASSUME NEW s \in Scripts, Call(s)
      PROVE  TypeOK'
      BY <1>1, CallType
<1>2. CASE TakeResult
      BY <1>2, ForgetType DEF TakeResult
<1>3. CASE UNCHANGED vars
      BY <1>3 DEF vars, serverVars, phaseVars, TypeOK
<1>4. QED
      BY <1>1, <1>2, <1>3, PhaseStepType, ServerType DEF Next

\* The variables of a phase and of the server keep their types, whatever the
\* scripts, the outcomes of commands and the number of crashes.
THEOREM PhaseTypes == Spec => []TypeOK
  BY InitType, NextType, PTL DEF Spec

(***************************************************************************)
(* What a phase has done, and the verdict it returns.                      *)
(***************************************************************************)
LEMMA FatalMarkers ==
  ASSUME NEW found \in SUBSET FatalPatterns
  PROVE  IsFatal(found) <=> found \cap StrongMarkers # {}
  BY DEF IsFatal, StrongMarkers, FatalPatterns, Banner

LEMMA SystemsShape ==
  ASSUME NEW a \in Seq(Commands)
  PROVE  /\ Systems(a) \in Seq({"system", "hidden", "visible", "port"})
         /\ Len(Systems(a)) = Len(a)
         /\ \A i \in 1..Len(a) : Systems(a)[i] = "system"
<1>1. Len(a) \in Nat
      BY LenProperties
<1>2. Systems(a) \in [1..Len(a) -> {"system", "hidden", "visible", "port"}]
      BY DEF Systems
<1>3. Systems(a) \in Seq({"system", "hidden", "visible", "port"})
      BY <1>1, <1>2, SeqDef
<1>4. QED
      BY <1>1, <1>2, <1>3, LenProperties DEF Systems

HiddenLen(s) == IF s.hidden THEN 2 ELSE 0

LEMMA PlanShape ==
  ASSUME NEW s \in ScriptRecord
  PROVE  /\ Len(Plan(s)) = Len(s.pre) + HiddenLen(s) + 2 + Len(s.post)
                           + (IF s.post = <<>> THEN 0 ELSE 1)
         /\ \A i \in 1..Len(s.pre) : Plan(s)[i] = "system"
         /\ s.hidden => /\ Plan(s)[Len(s.pre) + 1] = "hidden"
                        /\ Plan(s)[Len(s.pre) + 2] = "port"
         /\ Plan(s)[Len(s.pre) + HiddenLen(s) + 1] = "visible"
         /\ Plan(s)[Len(s.pre) + HiddenLen(s) + 2] = "port"
         /\ \A i \in 1..Len(s.post) :
               Plan(s)[Len(s.pre) + HiddenLen(s) + 2 + i] = "system"
         /\ s.post # <<>> =>
               Plan(s)[Len(s.pre) + HiddenLen(s) + 2 + Len(s.post) + 1] = "port"
<1> DEFINE Ops == {"system", "hidden", "visible", "port"}
           A == Systems(s.pre)
           B == IF s.hidden THEN <<"hidden", "port">> ELSE <<>>
           C == <<"visible", "port">>
           D == Systems(s.post)
           E == IF s.post = <<>> THEN <<>> ELSE <<"port">>
<1>1. s.pre \in Seq(Commands) /\ s.post \in Seq(Commands) /\ s.hidden \in BOOLEAN
      BY DEF ScriptRecord
<1>2. /\ A \in Seq(Ops) /\ Len(A) = Len(s.pre) /\ Len(A) \in Nat
      /\ \A i \in 1..Len(A) : A[i] = "system"
      BY <1>1, SystemsShape, LenProperties
<1>3. /\ B \in Seq(Ops) /\ Len(B) = HiddenLen(s) /\ Len(B) \in Nat
      /\ s.hidden => B[1] = "hidden" /\ B[2] = "port"
  <2>1. CASE s.hidden
        BY <2>1 DEF HiddenLen
  <2>2. CASE ~s.hidden
        BY <2>2 DEF HiddenLen
  <2>3. QED
        BY <2>1, <2>2
<1>4. C \in Seq(Ops) /\ Len(C) = 2 /\ C[1] = "visible" /\ C[2] = "port"
      OBVIOUS
<1>5. /\ D \in Seq(Ops) /\ Len(D) = Len(s.post) /\ Len(D) \in Nat
      /\ \A i \in 1..Len(D) : D[i] = "system"
      BY <1>1, SystemsShape, LenProperties
<1>6. /\ E \in Seq(Ops) /\ Len(E) = (IF s.post = <<>> THEN 0 ELSE 1)
      /\ s.post # <<>> => E[1] = "port"
  <2>1. CASE s.post = <<>>
        BY <2>1
  <2>2. CASE s.post # <<>>
        BY <2>2
  <2>3. QED
        BY <2>1, <2>2
<1> DEFINE AB == A \o B
           ABC == AB \o C
           ABCD == ABC \o D
<1>7. Plan(s) = ABCD \o E
      BY DEF Plan
<1> HIDE DEF A, B, C, D, E, Ops
<1>8. /\ AB \in Seq(Ops) /\ Len(AB) = Len(A) + Len(B)
      /\ \A i \in 1..Len(A) + Len(B) :
            AB[i] = IF i <= Len(A) THEN A[i] ELSE B[i - Len(A)]
      BY <1>2, <1>3, ConcatProperties
<1> HIDE DEF AB
<1>9. /\ ABC \in Seq(Ops) /\ Len(ABC) = Len(AB) + Len(C)
      /\ \A i \in 1..Len(AB) + Len(C) :
            ABC[i] = IF i <= Len(AB) THEN AB[i] ELSE C[i - Len(AB)]
  <2>1. AB \in Seq(Ops) /\ C \in Seq(Ops)
        BY <1>8, <1>4
  <2>2. QED
        BY <2>1, ConcatProperties
<1> HIDE DEF ABC
<1>10. /\ ABCD \in Seq(Ops) /\ Len(ABCD) = Len(ABC) + Len(D)
       /\ \A i \in 1..Len(ABC) + Len(D) :
            ABCD[i] = IF i <= Len(ABC) THEN ABC[i] ELSE D[i - Len(ABC)]
  <2>1. ABC \in Seq(Ops) /\ D \in Seq(Ops)
        BY <1>9, <1>5
  <2>2. QED
        BY <2>1, ConcatProperties
<1> HIDE DEF ABCD
<1>11. /\ Len(Plan(s)) = Len(ABCD) + Len(E)
       /\ \A i \in 1..Len(ABCD) + Len(E) :
            Plan(s)[i] = IF i <= Len(ABCD) THEN ABCD[i] ELSE E[i - Len(ABCD)]
  <2>1. ABCD \in Seq(Ops) /\ E \in Seq(Ops)
        BY <1>10, <1>6
  <2>2. QED
        BY <1>7, <2>1, ConcatProperties
<1> DEFINE P == Len(s.pre)
           H == HiddenLen(s)
           M == Len(s.post)
<1>12. P \in Nat /\ H \in {0, 2} /\ M \in Nat /\ (s.hidden => H = 2)
      BY <1>1, LenProperties DEF HiddenLen
<1>13. /\ Len(A) = P /\ Len(B) = H /\ Len(C) = 2 /\ Len(D) = M
       /\ Len(AB) = P + H /\ Len(ABC) = P + H + 2 /\ Len(ABCD) = P + H + 2 + M
      BY <1>2, <1>3, <1>4, <1>5, <1>8, <1>9, <1>10
<1>14. Len(E) \in {0, 1} /\ (s.post # <<>> => Len(E) = 1)
      BY <1>6
<1> HIDE DEF P, H, M
<1>15. \A i \in 1..(P + H + 2 + M) : Plan(s)[i] = ABCD[i]
      BY <1>11, <1>12, <1>13, <1>14
<1>16. \A i \in 1..(P + H + 2) : Plan(s)[i] = ABC[i]
      BY <1>10, <1>12, <1>13, <1>15
<1>17. \A i \in 1..(P + H) : Plan(s)[i] = AB[i]
      BY <1>9, <1>12, <1>13, <1>16
<1>18. Len(Plan(s)) = P + H + 2 + M + (IF s.post = <<>> THEN 0 ELSE 1)
      BY <1>6, <1>11, <1>13
<1>19. \A i \in 1..P : Plan(s)[i] = "system"
      BY <1>2, <1>8, <1>12, <1>13, <1>17
<1>20. s.hidden => Plan(s)[P + 1] = "hidden" /\ Plan(s)[P + 2] = "port"
  <2>1. SUFFICES ASSUME s.hidden
                 PROVE  Plan(s)[P + 1] = "hidden" /\ Plan(s)[P + 2] = "port"
        OBVIOUS
  <2>2. H = 2
        BY <1>12, <2>1
  <2>3. Plan(s)[P + 1] = AB[P + 1] /\ Plan(s)[P + 2] = AB[P + 2]
        BY <1>12, <1>17, <2>2
  <2>4. AB[P + 1] = B[1] /\ AB[P + 2] = B[2]
        BY <1>8, <1>12, <1>13, <2>2
  <2>5. QED
        BY <1>3, <2>1, <2>3, <2>4
<1>21. Plan(s)[P + H + 1] = "visible" /\ Plan(s)[P + H + 2] = "port"
  <2>1. /\ Plan(s)[P + H + 1] = ABC[P + H + 1]
        /\ Plan(s)[P + H + 2] = ABC[P + H + 2]
        BY <1>12, <1>16
  <2>2. ABC[P + H + 1] = C[1] /\ ABC[P + H + 2] = C[2]
        BY <1>9, <1>12, <1>13
  <2>3. QED
        BY <1>4, <2>1, <2>2
<1>22. \A i \in 1..M : Plan(s)[P + H + 2 + i] = "system"
  <2>1. SUFFICES ASSUME NEW i \in 1..M
                 PROVE  Plan(s)[P + H + 2 + i] = "system"
        OBVIOUS
  <2>2. Plan(s)[P + H + 2 + i] = ABCD[P + H + 2 + i]
        BY <1>12, <1>15
  <2> DEFINE j == P + H + 2 + i
  <2>3. ABCD[P + H + 2 + i] = D[i]
    <3>1. /\ j \in 1..(Len(ABC) + Len(D)) /\ ~(j <= Len(ABC)) /\ j - Len(ABC) = i
          BY <1>12, <1>13
    <3> HIDE DEF j
    <3>2. ABCD[j] = D[i]
          BY <1>10, <3>1
    <3>3. QED
          BY <3>2 DEF j
  <2>4. QED
        BY <1>5, <1>13, <2>2, <2>3
<1>23. s.post # <<>> => Plan(s)[P + H + 2 + M + 1] = "port"
  <2>1. SUFFICES ASSUME s.post # <<>>
                 PROVE  Plan(s)[P + H + 2 + M + 1] = "port"
        OBVIOUS
  <2>2. Plan(s)[P + H + 2 + M + 1] = E[1]
        BY <1>11, <1>12, <1>13, <1>14, <2>1
  <2>3. QED
        BY <1>6, <2>1, <2>2
<1>24. QED
      BY <1>18, <1>19, <1>20, <1>21, <1>22, <1>23 DEF P, H, M

(***************************************************************************)
(* The inductive invariant of a phase.  Where the call is tells how much   *)
(* of its plan is behind it; everything behind it went well, except that   *)
(* the result of SQL whose port check is due is not looked at yet.         *)
(***************************************************************************)
WellFormed(e) ==
    /\ e.op = "port" => e.kind \in {"open", "closed"} /\ e.found = {}
    /\ e.op # "port" =>
          /\ e.kind \in {"ok", "rc", "timeout", "error"}
          /\ e.kind = "error" => e.found = {}

Entries == \A i \in 1..Len(trace) : WellFormed(trace[i])

FineUpTo(n) == \A i \in 1..n : Fine(trace[i])

Pending(e) == e.op \in {"hidden", "visible"} /\ e.found \cap StrongMarkers = {}

PreLen == Len(script.pre)

Progress ==
    /\ step = "idle" => trace = <<>>
    /\ step \notin {"idle", "returned"} => script.issue = NoReason
    /\ step = "pre" =>
          /\ Len(trace) = k - 1 /\ k <= PreLen + 1
          /\ FineUpTo(Len(trace))
    /\ step = "hidden" =>
          /\ script.hidden /\ Len(trace) = PreLen
          /\ FineUpTo(Len(trace))
    /\ step = "hiddenPort" =>
          /\ script.hidden /\ Len(trace) = PreLen + 1
          /\ FineUpTo(PreLen) /\ Last.op = "hidden" /\ Pending(Last)
    /\ step = "visible" =>
          /\ Len(trace) = PreLen + HiddenLen(script)
          /\ FineUpTo(Len(trace))
    /\ step = "visiblePort" =>
          /\ Len(trace) = PreLen + HiddenLen(script) + 1
          /\ FineUpTo(PreLen + HiddenLen(script))
          /\ Last.op = "visible" /\ Pending(Last)
    /\ step = "post" =>
          /\ Len(trace) = PreLen + HiddenLen(script) + 1 + k
          /\ k <= Len(script.post) + 1
          /\ FineUpTo(Len(trace))
    /\ step = "postPort" =>
          /\ script.post # <<>>
          /\ Len(trace) = PreLen + HiddenLen(script) + 2 + Len(script.post)
          /\ FineUpTo(Len(trace))

PhaseInv ==
    /\ TypeOK
    /\ Entries
    /\ Progress
    /\ TraceFollowsPlan
    /\ TroubleStops
    /\ VerdictTellsTrace

LEMMA FineIsSilent ==
  ASSUME NEW e \in TraceEntry, WellFormed(e), Fine(e)
  PROVE  ~Lost(e) /\ e.kind # "timeout"
  BY DEF TraceEntry, WellFormed, Fine, Lost

LEMMA PendingIsNotLost ==
  ASSUME NEW e \in TraceEntry, WellFormed(e), Pending(e)
  PROVE  ~Lost(e)
  BY DEF TraceEntry, WellFormed, Pending, Lost

LEMMA TraceGrows ==
  ASSUME NEW e \in TraceEntry, TypeOK, trace' = Append(trace, e)
  PROVE  /\ Len(trace) \in Nat
         /\ DOMAIN trace = 1..Len(trace)
         /\ \A i \in 1..Len(trace) : trace[i] \in TraceEntry
         /\ Len(trace') = Len(trace) + 1
         /\ DOMAIN trace' = 1..(Len(trace) + 1)
         /\ trace'[Len(trace) + 1] = e
         /\ \A i \in 1..Len(trace) : trace'[i] = trace[i]
<1>1. trace \in Seq(TraceEntry)
      BY DEF TypeOK
<1>2. /\ Len(trace) \in Nat
      /\ DOMAIN trace = 1..Len(trace)
      /\ \A i \in 1..Len(trace) : trace[i] \in TraceEntry
      BY <1>1, LenProperties, ElementOfSeq
<1>3. QED
      BY <1>1, <1>2

\* One more entry of the plan.
LEMMA EntryFollowsPlan ==
  ASSUME NEW e \in TraceEntry, TypeOK, trace' = Append(trace, e),
         UNCHANGED script, TraceFollowsPlan, Entries, WellFormed(e),
         Len(trace) + 1 <= Len(Plan(script)),
         Plan(script)[Len(trace) + 1] = e.op
  PROVE  TraceFollowsPlan' /\ Entries'
  BY TraceGrows DEF TraceFollowsPlan, Entries

\* A last entry after a history without trouble speaks for the whole of it.
LEMMA LastSpeaks ==
  ASSUME NEW e \in TraceEntry, TypeOK, Entries, FineUpTo(Len(trace)),
         trace' = Append(trace, e)
  PROVE  /\ TroubleStops'
         /\ ServerLost' <=> Lost(e)
         /\ TimedOut' <=> e.kind = "timeout"
         /\ (\A i \in DOMAIN trace : Fine(trace[i]))' <=> Fine(e)
<1>1. \A i \in 1..Len(trace) : ~Lost(trace[i]) /\ trace[i].kind # "timeout"
      BY TraceGrows, FineIsSilent DEF Entries, FineUpTo
<1>2. TroubleStops'
      BY TraceGrows DEF TroubleStops, FineUpTo
<1>3. ServerLost' <=> Lost(e)
      BY <1>1, TraceGrows DEF ServerLost
<1>4. TimedOut' <=> e.kind = "timeout"
      BY <1>1, TraceGrows DEF TimedOut
<1>5. (\A i \in DOMAIN trace : Fine(trace[i]))' <=> Fine(e)
      BY TraceGrows DEF FineUpTo
<1>6. QED
      BY <1>2, <1>3, <1>4, <1>5

\* After SQL, the port check and the result of the SQL speak together.
LEMMA LastTwoSpeak ==
  ASSUME NEW e \in TraceEntry, TypeOK, Entries, e.op = "port", WellFormed(e),
         Len(trace) > 0, FineUpTo(Len(trace) - 1), Pending(Last),
         trace' = Append(trace, e)
  PROVE  /\ step' = "returned" => TroubleStops'
         /\ ServerLost' <=> e.kind = "closed"
         /\ TimedOut' <=> Last.kind = "timeout"
         /\ (\A i \in DOMAIN trace : Fine(trace[i]))' <=>
               Fine(Last) /\ e.kind = "open"
<1> DEFINE n == Len(trace)
<1>1. /\ n \in Nat \ {0}
      /\ Last \in TraceEntry /\ WellFormed(Last) /\ Last.op \in {"hidden", "visible"}
      BY TraceGrows DEF Entries, Last, Pending
<1>2. \A i \in 1..(n - 1) : ~Lost(trace[i]) /\ trace[i].kind # "timeout"
      BY <1>1, TraceGrows, FineIsSilent DEF Entries, FineUpTo
<1>3. ~Lost(Last)
      BY <1>1, PendingIsNotLost
<1>4. /\ Lost(e) <=> e.kind = "closed"
      /\ e.kind # "timeout"
      /\ Fine(e) <=> e.kind = "open"
      BY DEF WellFormed, Lost, Fine
<1>5. \A i \in 1..(n + 1) : \/ i \in 1..(n - 1) /\ trace'[i] = trace[i]
                            \/ i = n /\ trace'[i] = Last
                            \/ i = n + 1 /\ trace'[i] = e
      BY <1>1, TraceGrows DEF Last
<1>6. DOMAIN trace' = 1..(n + 1) /\ Len(trace') = n + 1
      BY TraceGrows
<1> HIDE DEF n
<1>7. step' = "returned" => TroubleStops'
      BY <1>1, <1>5, <1>6 DEF TroubleStops, FineUpTo, n
<1>8. ServerLost' <=> e.kind = "closed"
      BY <1>1, <1>2, <1>3, <1>4, <1>5, <1>6 DEF ServerLost
<1>9. TimedOut' <=> Last.kind = "timeout"
      BY <1>1, <1>2, <1>4, <1>5, <1>6 DEF TimedOut
<1>10. (\A i \in DOMAIN trace : Fine(trace[i]))' <=> Fine(Last) /\ e.kind = "open"
      BY <1>1, <1>4, <1>5, <1>6 DEF FineUpTo, n
<1>11. QED
      BY <1>7, <1>8, <1>9, <1>10

(***************************************************************************)
(* What each kind of step does to the history and the verdict.             *)
(***************************************************************************)
LEMMA SystemVerdictTells ==
  ASSUME NEW r \in CommandResult, r.kind # "ok"
  PROVE  LET v == SystemVerdict(r)
             e == Entry("system", r.kind, r.found)
         IN /\ v.status \in {"ERROR", "FATAL"}
            /\ v.status = "FATAL" <=> Lost(e)
            /\ v.reason = "timeout" <=> e.kind = "timeout"
            /\ e.kind = "timeout" => ~Lost(e)
            /\ ~Fine(e)
<1>1. r.found \in SUBSET FatalPatterns /\ r.kind \in {"rc", "timeout", "error"}
      /\ (r.kind = "error" => r.found = {})
      BY DEF CommandResult
<1>2. IsFatal(r.found) <=> r.found \cap StrongMarkers # {}
      BY <1>1, FatalMarkers
<1>3. QED
      BY <1>1, <1>2 DEF SystemVerdict, Entry, Error, Fatal, Lost, Fine

LEMMA SystemActionTells ==
  ASSUME NEW here \in {"pre", "post"}, NEW actions, PhaseInv,
         SystemAction(here, actions), FineUpTo(Len(trace)),
         Len(trace) + 1 <= Len(Plan(script)),
         Plan(script)[Len(trace) + 1] = "system"
  PROVE  /\ Entries' /\ TraceFollowsPlan' /\ TroubleStops' /\ VerdictTellsTrace'
         /\ Len(trace') = Len(trace) + 1
         /\ \/ step' = "returned"
            \/ step' = here /\ k' = k + 1 /\ FineUpTo(Len(trace))'
<1>1. PICK r \in Outcomes :
        /\ Record("system", r)
        /\ IF r.kind = "ok" THEN k' = k + 1 /\ GoTo(here)
           ELSE UNCHANGED k /\ Return(SystemVerdict(r))
      BY DEF SystemAction
<1> DEFINE e == Entry("system", r.kind, r.found)
<1>2. TypeOK /\ Entries /\ TraceFollowsPlan
      BY DEF PhaseInv
<1>3. r \in CommandResult
      BY OutcomesAssumption
<1>4. e \in TraceEntry /\ trace' = Append(trace, e) /\ UNCHANGED script
      BY <1>1, CommandEntry DEF Record, SystemAction
<1>5. e.op = "system" /\ e.kind = r.kind /\ e.found = r.found /\ WellFormed(e)
      BY <1>3 DEF Entry, CommandResult, WellFormed
<1> HIDE DEF e
<1>6. TraceFollowsPlan' /\ Entries'
      BY <1>2, <1>4, <1>5, EntryFollowsPlan
<1>7. /\ TroubleStops'
      /\ ServerLost' <=> Lost(e)
      /\ TimedOut' <=> e.kind = "timeout"
      /\ (\A i \in DOMAIN trace : Fine(trace[i]))' <=> Fine(e)
      BY <1>2, <1>4, LastSpeaks
<1>8. Len(trace') = Len(trace) + 1 /\ DOMAIN trace' = 1..Len(trace')
      BY <1>2, <1>4, TraceGrows
<1>9. CASE r.kind = "ok"
  <2>1. step' = here /\ k' = k + 1
        BY <1>1, <1>9 DEF GoTo
  <2>2. Fine(e)
        BY <1>5, <1>9 DEF Fine
  <2>3. FineUpTo(Len(trace))'
        BY <1>7, <1>8, <2>2 DEF FineUpTo
  <2>4. VerdictTellsTrace'
        BY <2>1 DEF VerdictTellsTrace
  <2>5. QED
        BY <1>6, <1>7, <1>8, <2>1, <2>3, <2>4
<1>10. CASE r.kind # "ok"
  <2>1. step' = "returned" /\ ret' = SystemVerdict(r)
        BY <1>1, <1>10 DEF Return
  <2>2. /\ ret'.status \in {"ERROR", "FATAL"}
        /\ ret'.status = "FATAL" <=> Lost(e)
        /\ ret'.reason = "timeout" <=> e.kind = "timeout"
        /\ e.kind = "timeout" => ~Lost(e)
        /\ ~Fine(e)
        BY <1>3, <1>10, <2>1, SystemVerdictTells DEF e
  <2>3. VerdictTellsTrace'
        BY <1>7, <2>2 DEF VerdictTellsTrace
  <2>4. QED
        BY <1>6, <1>7, <1>8, <2>1, <2>3
<1>11. QED
      BY <1>9, <1>10

LEMMA RunSqlTells ==
  ASSUME NEW here \in {"hidden", "visible"},
         NEW next \in {"hiddenPort", "visiblePort"}, PhaseInv,
         RunSql(here, next), FineUpTo(Len(trace)),
         Len(trace) + 1 <= Len(Plan(script)),
         Plan(script)[Len(trace) + 1] = here
  PROVE  /\ Entries' /\ TraceFollowsPlan' /\ TroubleStops' /\ VerdictTellsTrace'
         /\ Len(trace') = Len(trace) + 1
         /\ \/ step' = "returned"
            \/ /\ step' = next /\ (\A i \in 1..Len(trace) : Fine(trace'[i]))
               /\ Last'.op = here /\ Pending(Last)'
<1>1. PICK r \in Outcomes :
        /\ Record(here, r)
        /\ IF IsFatal(r.found) THEN Return(Fatal("server_disconnected"))
           ELSE GoTo(next)
      BY DEF RunSql
<1> DEFINE e == Entry(here, r.kind, r.found)
<1>2. TypeOK /\ Entries /\ TraceFollowsPlan
      BY DEF PhaseInv
<1>3. r \in CommandResult
      BY OutcomesAssumption
<1>4. e \in TraceEntry /\ trace' = Append(trace, e) /\ UNCHANGED script
      BY <1>1, CommandEntry DEF Record, RunSql
<1>5. e.op = here /\ e.kind = r.kind /\ e.found = r.found /\ WellFormed(e)
      BY <1>3 DEF Entry, CommandResult, WellFormed
<1>6. IsFatal(r.found) <=> e.found \cap StrongMarkers # {}
      BY <1>3, <1>5, FatalMarkers DEF CommandResult
<1> HIDE DEF e
<1>7. TraceFollowsPlan' /\ Entries'
      BY <1>2, <1>4, <1>5, EntryFollowsPlan
<1>8. /\ TroubleStops'
      /\ ServerLost' <=> Lost(e)
      /\ TimedOut' <=> e.kind = "timeout"
      /\ (\A i \in DOMAIN trace : Fine(trace[i]))' <=> Fine(e)
      BY <1>2, <1>4, LastSpeaks
<1>9. /\ Len(trace') = Len(trace) + 1 /\ Len(trace) \in Nat
      /\ trace'[Len(trace')] = e
      /\ \A i \in 1..Len(trace) : trace'[i] = trace[i]
      BY <1>2, <1>4, TraceGrows
<1>10. CASE IsFatal(r.found)
  <2>1. step' = "returned" /\ ret' = Fatal("server_disconnected")
        BY <1>1, <1>10 DEF Return
  <2>2. Lost(e) /\ ~Fine(e)
        BY <1>5, <1>6, <1>10 DEF Lost, Fine
  <2>3. VerdictTellsTrace'
        BY <1>8, <2>1, <2>2 DEF VerdictTellsTrace, Fatal
  <2>4. QED
        BY <1>7, <1>8, <1>9, <2>1, <2>3
<1>11. CASE ~IsFatal(r.found)
  <2>1. step' = next
        BY <1>1, <1>11 DEF GoTo
  <2>2. Last'.op = here /\ Pending(Last)'
        BY <1>5, <1>6, <1>9, <1>11 DEF Last, Pending
  <2>3. (\A i \in 1..Len(trace) : Fine(trace'[i]))
        BY <1>9 DEF FineUpTo
  <2>4. VerdictTellsTrace'
        BY <2>1 DEF VerdictTellsTrace
  <2>5. QED
        BY <1>7, <1>8, <1>9, <2>1, <2>2, <2>3, <2>4
<1>12. QED
      BY <1>10, <1>11

LEMMA CheckPortTells ==
  ASSUME NEW here \in Steps, NEW next \in {"visible", "post"}, NEW tolerated,
         PhaseInv, CheckPort(here, next, tolerated),
         Len(trace) > 0, FineUpTo(Len(trace) - 1), Pending(Last),
         \/ Last.op = "hidden" /\ tolerated = {"ok", "rc"}
         \/ Last.op = "visible" /\ tolerated = {"ok"},
         Len(trace) + 1 <= Len(Plan(script)),
         Plan(script)[Len(trace) + 1] = "port"
  PROVE  /\ Entries' /\ TraceFollowsPlan' /\ TroubleStops' /\ VerdictTellsTrace'
         /\ Len(trace') = Len(trace) + 1
         /\ \/ step' = "returned"
            \/ step' = next /\ FineUpTo(Len(trace))'
<1> DEFINE e == Entry("port", IF IsPortOpen THEN "open" ELSE "closed", {})
<1>1. TypeOK /\ Entries /\ TraceFollowsPlan
      BY DEF PhaseInv
<1>2. trace' = Append(trace, e) /\ UNCHANGED script
      BY <1>1, RecordPort DEF CheckPort
<1>3. /\ e \in TraceEntry /\ WellFormed(e) /\ e.op = "port"
      /\ e.kind = IF IsPortOpen THEN "open" ELSE "closed"
      BY PortEntry DEF Entry, WellFormed
<1> HIDE DEF e
<1>4. TraceFollowsPlan' /\ Entries'
      BY <1>1, <1>2, <1>3, EntryFollowsPlan
<1>5. /\ step' = "returned" => TroubleStops'
      /\ ServerLost' <=> e.kind = "closed"
      /\ TimedOut' <=> Last.kind = "timeout"
      /\ (\A i \in DOMAIN trace : Fine(trace[i]))' <=> Fine(Last) /\ e.kind = "open"
      BY <1>1, <1>2, <1>3, LastTwoSpeak
<1>6. Len(trace') = Len(trace) + 1 /\ DOMAIN trace' = 1..Len(trace')
      BY <1>1, <1>2, <1>3, TraceGrows
<1>7. Fine(Last) <=> Last.kind \in tolerated
      BY DEF Pending, Fine
<1>8. CASE step' = next
  <2>1. IsPortOpen /\ Last.kind \in tolerated
        BY <1>8 DEF CheckPort, Return
  <2>2. \A i \in 1..Len(trace') : Fine(trace'[i])
        BY <1>3, <1>5, <1>6, <1>7, <2>1
  <2>3. FineUpTo(Len(trace))' /\ TroubleStops'
        BY <1>6, <2>2 DEF FineUpTo, TroubleStops
  <2>4. VerdictTellsTrace'
        BY <1>8 DEF VerdictTellsTrace
  <2>5. QED
        BY <1>4, <1>6, <1>8, <2>3, <2>4
<1>9. CASE step' # next
  <2>1. /\ step' = "returned"
        /\ ret' = IF ~IsPortOpen THEN Fatal("server_port_closed")
                  ELSE IF Last.kind = "timeout" THEN Error("timeout")
                  ELSE Error("exec_failed")
        /\ IsPortOpen /\ Last.kind # "timeout" => Last.kind \notin tolerated
        BY <1>9 DEF CheckPort, Return, GoTo
  <2>2. CASE ~IsPortOpen
        BY <1>3, <1>4, <1>5, <1>6, <2>1, <2>2 DEF VerdictTellsTrace, Fatal
  <2>3. CASE IsPortOpen /\ Last.kind = "timeout"
    <3>1. ~Fine(Last)
          BY <1>7, <2>3
    <3>2. QED
          BY <1>3, <1>4, <1>5, <1>6, <2>1, <2>3, <3>1 DEF VerdictTellsTrace, Error
  <2>4. CASE IsPortOpen /\ Last.kind # "timeout"
        BY <1>3, <1>4, <1>5, <1>6, <1>7, <2>1, <2>4 DEF VerdictTellsTrace, Error
  <2>5. QED
        BY <2>2, <2>3, <2>4
<1>10. QED
      BY <1>8, <1>9

(***************************************************************************)
(* The invariant is inductive.                                             *)
(***************************************************************************)
LEMMA PhaseStepInv ==
  ASSUME PhaseInv, PhaseStep
  PROVE  PhaseInv'
<1> DEFINE P == Len(script.pre)
           H == HiddenLen(script)
           M == Len(script.post)
           n == Len(trace)
           Told == Entries' /\ TraceFollowsPlan' /\ TroubleStops'
                   /\ VerdictTellsTrace'
<1>1. TypeOK /\ Entries /\ Progress /\ TraceFollowsPlan
      BY DEF PhaseInv
<1>2. TypeOK'
      BY <1>1, PhaseStepType
<1>3. script \in ScriptRecord
      BY <1>1, ScriptIsRecord DEF TypeOK
<1>4. P \in Nat /\ M \in Nat /\ H \in {0, 2} /\ (script.hidden => H = 2)
      /\ (~script.hidden => H = 0) /\ (script.post = <<>> <=> M = 0)
      BY <1>3, LenProperties, EmptySeq DEF ScriptRecord, HiddenLen
<1>5. k \in Nat \ {0} /\ n \in Nat
      BY <1>1, LenProperties DEF TypeOK
<1>6. /\ Len(Plan(script)) = P + H + 2 + M + (IF M = 0 THEN 0 ELSE 1)
      /\ \A i \in 1..P : Plan(script)[i] = "system"
      /\ script.hidden => Plan(script)[P + 1] = "hidden"
                          /\ Plan(script)[P + 2] = "port"
      /\ Plan(script)[P + H + 1] = "visible" /\ Plan(script)[P + H + 2] = "port"
      /\ \A i \in 1..M : Plan(script)[P + H + 2 + i] = "system"
      /\ M # 0 => Plan(script)[P + H + 2 + M + 1] = "port"
      BY <1>3, <1>4, PlanShape
<1>7. PreLen = P
      BY DEF PreLen
<1>8. UNCHANGED script
      BY DEF PhaseStep, PreAction, PreDone, RunHidden, CheckHidden, RunVisible,
             CheckVisible, PostAction, PostDone, CheckPost, SystemAction, RunSql,
             CheckPort
<1>9. script' = script /\ PreLen' = P /\ HiddenLen(script)' = H /\ Len(script.post)' = M
      BY <1>8 DEF PreLen, HiddenLen
<1> HIDE DEF P, H, M
<1>10. CASE PreAction
  <2>1. step = "pre" /\ k <= P /\ n = k - 1 /\ FineUpTo(n) /\ script.issue = NoReason
        BY <1>1, <1>7, <1>10 DEF PreAction, SystemAction, Progress, P
  <2>2. n + 1 <= Len(Plan(script)) /\ Plan(script)[n + 1] = "system"
        BY <1>4, <1>5, <1>6, <2>1
  <2>3. /\ Told /\ Len(trace') = n + 1
        /\ \/ step' = "returned"
           \/ step' = "pre" /\ k' = k + 1 /\ FineUpTo(Len(trace))'
        BY <1>10, <2>1, <2>2, SystemActionTells DEF PreAction
  <2>4. Progress'
        BY <1>4, <1>5, <1>9, <2>1, <2>3 DEF Progress
  <2>5. QED
        BY <1>2, <2>3, <2>4 DEF PhaseInv
<1>11. CASE PreDone
  <2>1. step = "pre" /\ k > P /\ n = k - 1 /\ k <= P + 1 /\ FineUpTo(n)
        /\ script.issue = NoReason
        BY <1>1, <1>7, <1>11 DEF PreDone, Progress, P
  <2>2. /\ UNCHANGED <<script, trace>>
        /\ step' = IF script.hidden THEN "hidden" ELSE "visible"
        BY <1>11 DEF PreDone, GoTo
  <2>3. Progress'
        BY <1>4, <1>5, <1>9, <2>1, <2>2 DEF Progress, FineUpTo
  <2>4. Entries' /\ TraceFollowsPlan'
        BY <1>1, <2>2 DEF Entries, TraceFollowsPlan, Plan
  <2>5. TroubleStops' /\ VerdictTellsTrace'
        BY <1>5, <2>1, <2>2 DEF TroubleStops, VerdictTellsTrace, FineUpTo
  <2>6. QED
        BY <1>2, <2>3, <2>4, <2>5 DEF PhaseInv
<1>12. CASE RunHidden
  <2>1. step = "hidden" /\ script.hidden /\ n = P /\ FineUpTo(n)
        /\ script.issue = NoReason
        BY <1>1, <1>7, <1>12 DEF RunHidden, RunSql, Progress
  <2>2. n + 1 <= Len(Plan(script)) /\ Plan(script)[n + 1] = "hidden"
        BY <1>4, <1>5, <1>6, <2>1
  <2>3. /\ Told /\ Len(trace') = n + 1
        /\ \/ step' = "returned"
           \/ /\ step' = "hiddenPort" /\ (\A i \in 1..n : Fine(trace'[i]))
              /\ Last'.op = "hidden" /\ Pending(Last)'
        BY <1>12, <2>1, <2>2, RunSqlTells DEF RunHidden
  <2>4. Progress'
        BY <1>4, <1>5, <1>9, <2>1, <2>3 DEF Progress, FineUpTo
  <2>5. QED
        BY <1>2, <2>3, <2>4 DEF PhaseInv
<1>13. CASE CheckHidden
  <2>1. step = "hiddenPort" /\ script.hidden /\ n = P + 1 /\ FineUpTo(n - 1)
        /\ Last.op = "hidden" /\ Pending(Last) /\ script.issue = NoReason
        BY <1>1, <1>4, <1>7, <1>13 DEF CheckHidden, CheckPort, Progress
  <2>2. n > 0 /\ n + 1 <= Len(Plan(script)) /\ Plan(script)[n + 1] = "port"
    <3>1. n > 0 /\ n + 1 = P + 2
          BY <1>4, <1>5, <2>1
    <3>2. P + 2 <= Len(Plan(script)) /\ Plan(script)[P + 2] = "port"
          BY <1>4, <1>6, <2>1
    <3>3. QED
          BY <3>1, <3>2
  <2>3. /\ Told /\ Len(trace') = n + 1
        /\ \/ step' = "returned"
           \/ step' = "visible" /\ FineUpTo(Len(trace))'
        BY <1>13, <2>1, <2>2, CheckPortTells DEF CheckHidden, Steps
  <2>4. Progress'
        BY <1>4, <1>5, <1>9, <2>1, <2>3 DEF Progress
  <2>5. QED
        BY <1>2, <2>3, <2>4 DEF PhaseInv
<1>14. CASE RunVisible
  <2>1. step = "visible" /\ n = P + H /\ FineUpTo(n) /\ script.issue = NoReason
        BY <1>1, <1>7, <1>14 DEF RunVisible, RunSql, Progress, H
  <2>2. n + 1 <= Len(Plan(script)) /\ Plan(script)[n + 1] = "visible"
        BY <1>4, <1>5, <1>6, <2>1
  <2>3. /\ Told /\ Len(trace') = n + 1
        /\ \/ step' = "returned"
           \/ /\ step' = "visiblePort" /\ (\A i \in 1..n : Fine(trace'[i]))
              /\ Last'.op = "visible" /\ Pending(Last)'
        BY <1>14, <2>1, <2>2, RunSqlTells DEF RunVisible
  <2>4. Progress'
        BY <1>4, <1>5, <1>9, <2>1, <2>3 DEF Progress, FineUpTo
  <2>5. QED
        BY <1>2, <2>3, <2>4 DEF PhaseInv
<1>15. CASE CheckVisible
  <2>1. step = "visiblePort" /\ n = P + H + 1 /\ FineUpTo(n - 1)
        /\ Last.op = "visible" /\ Pending(Last) /\ script.issue = NoReason
        BY <1>1, <1>4, <1>7, <1>15 DEF CheckVisible, CheckPort, Progress, H
  <2>2. n > 0 /\ n + 1 <= Len(Plan(script)) /\ Plan(script)[n + 1] = "port"
    <3>1. n > 0 /\ n + 1 = P + H + 2
          BY <1>4, <1>5, <2>1
    <3>2. P + H + 2 <= Len(Plan(script)) /\ Plan(script)[P + H + 2] = "port"
          BY <1>4, <1>6, <2>1
    <3>3. QED
          BY <3>1, <3>2
  <2>3. /\ Told /\ Len(trace') = n + 1
        /\ \/ step' = "returned"
           \/ step' = "post" /\ FineUpTo(Len(trace))'
        BY <1>15, <2>1, <2>2, CheckPortTells DEF CheckVisible, Steps
  <2>4. k' = 1
        BY <1>15 DEF CheckVisible
  <2>5. Progress'
        BY <1>4, <1>5, <1>9, <2>1, <2>3, <2>4 DEF Progress
  <2>6. QED
        BY <1>2, <2>3, <2>5 DEF PhaseInv
<1>16. CASE PostAction
  <2>1. step = "post" /\ k <= M /\ n = P + H + 1 + k /\ FineUpTo(n)
        /\ script.issue = NoReason
        BY <1>1, <1>7, <1>16 DEF PostAction, SystemAction, Progress, H, M
  <2>2. n + 1 <= Len(Plan(script)) /\ Plan(script)[n + 1] = "system"
    <3>1. n + 1 = P + H + 2 + k /\ k \in 1..M
          BY <1>4, <1>5, <2>1
    <3>2. Plan(script)[P + H + 2 + k] = "system"
          BY <1>6, <3>1
    <3>3. P + H + 2 + k <= Len(Plan(script))
          BY <1>4, <1>6, <3>1
    <3>4. QED
          BY <3>1, <3>2, <3>3
  <2>3. /\ Told /\ Len(trace') = n + 1
        /\ \/ step' = "returned"
           \/ step' = "post" /\ k' = k + 1 /\ FineUpTo(Len(trace))'
        BY <1>16, <2>1, <2>2, SystemActionTells DEF PostAction
  <2>4. Progress'
        BY <1>4, <1>5, <1>9, <2>1, <2>3 DEF Progress
  <2>5. QED
        BY <1>2, <2>3, <2>4 DEF PhaseInv
<1>17. CASE PostDone
  <2>1. step = "post" /\ k > M /\ n = P + H + 1 + k /\ k <= M + 1 /\ FineUpTo(n)
        /\ script.issue = NoReason
        BY <1>1, <1>7, <1>17 DEF PostDone, Progress, H, M
  <2>2. UNCHANGED <<script, trace>>
        BY <1>17 DEF PostDone
  <2>3. Entries' /\ TraceFollowsPlan' /\ TroubleStops'
        BY <1>1, <1>5, <2>1, <2>2
           DEF Entries, TraceFollowsPlan, Plan, TroubleStops, FineUpTo
  <2>4. CASE script.post # <<>>
    <3>1. step' = "postPort"
          BY <1>17, <2>4 DEF PostDone, GoTo
    <3>2. Progress'
          BY <1>4, <1>5, <1>9, <2>1, <2>2, <2>4, <3>1 DEF Progress, FineUpTo
    <3>3. VerdictTellsTrace'
          BY <3>1 DEF VerdictTellsTrace
    <3>4. QED
          BY <1>2, <2>3, <3>2, <3>3 DEF PhaseInv
  <2>5. CASE script.post = <<>>
    <3>1. step' = "returned" /\ ret' = Pass
          BY <1>17, <2>5 DEF PostDone, Return
    <3>2. Progress'
          BY <3>1 DEF Progress
    <3>3. n = Len(Plan(script))
          BY <1>4, <1>5, <1>6, <2>1, <2>5
    <3>4. \A i \in DOMAIN trace : /\ Fine(trace[i]) /\ ~Lost(trace[i])
                                  /\ trace[i].kind # "timeout"
      <4>1. DOMAIN trace = 1..n /\ \A i \in 1..n : trace[i] \in TraceEntry
            BY <1>1, LenProperties, ElementOfSeq DEF TypeOK
      <4>2. QED
            BY <1>1, <2>1, <4>1, FineIsSilent DEF Entries, FineUpTo
    <3>5. VerdictTellsTrace'
          BY <2>2, <3>1, <3>3, <3>4
             DEF VerdictTellsTrace, ServerLost, TimedOut, Pass, Plan, NoReason
    <3>6. QED
          BY <1>2, <2>3, <3>2, <3>5 DEF PhaseInv
  <2>6. QED
        BY <2>4, <2>5
<1>18. CASE CheckPost
  <2> DEFINE e == Entry("port", IF IsPortOpen THEN "open" ELSE "closed", {})
  <2>1. step = "postPort" /\ M # 0 /\ n = P + H + 2 + M /\ FineUpTo(n)
        /\ script.issue = NoReason
        BY <1>1, <1>4, <1>7, <1>18 DEF CheckPost, Progress, H, M
  <2>2. trace' = Append(trace, e)
        BY <1>1, <1>18, RecordPort DEF CheckPost
  <2>3. /\ e \in TraceEntry /\ WellFormed(e) /\ e.op = "port"
        /\ e.kind = IF IsPortOpen THEN "open" ELSE "closed"
        BY PortEntry DEF Entry, WellFormed
  <2> HIDE DEF e
  <2>4. n + 1 = Len(Plan(script)) /\ Plan(script)[n + 1] = "port"
        BY <1>4, <1>5, <1>6, <2>1
  <2>5. TraceFollowsPlan' /\ Entries'
        BY <1>1, <1>5, <1>8, <2>2, <2>3, <2>4, EntryFollowsPlan
  <2>6. /\ TroubleStops'
        /\ ServerLost' <=> Lost(e)
        /\ TimedOut' <=> e.kind = "timeout"
        /\ (\A i \in DOMAIN trace : Fine(trace[i]))' <=> Fine(e)
        BY <1>1, <2>1, <2>2, <2>3, LastSpeaks
  <2>7. Len(trace') = Len(Plan(script))
        BY <1>1, <2>2, <2>3, <2>4, TraceGrows
  <2>8. /\ step' = "returned"
        /\ ret' = IF IsPortOpen THEN Pass ELSE Fatal("server_port_closed")
        BY <1>18 DEF CheckPost, Return
  <2>9. Lost(e) <=> ~IsPortOpen
        BY <2>3 DEF Lost, WellFormed
  <2>10. Fine(e) <=> IsPortOpen
        BY <2>3 DEF Fine
  <2>11. VerdictTellsTrace'
        BY <1>8, <2>3, <2>6, <2>7, <2>8, <2>9, <2>10
           DEF VerdictTellsTrace, Pass, Fatal, Plan, NoReason
  <2>12. Progress'
        BY <2>8 DEF Progress
  <2>13. QED
        BY <1>2, <2>5, <2>6, <2>11, <2>12 DEF PhaseInv
<1>19. QED
      BY <1>10, <1>11, <1>12, <1>13, <1>14, <1>15, <1>16, <1>17, <1>18
      DEF PhaseStep

LEMMA CallInv ==
  ASSUME NEW s \in Scripts, PhaseInv, Call(s)
  PROVE  PhaseInv'
<1>1. TypeOK'
      BY CallType DEF PhaseInv
<1>2. script' = s /\ k' = 1 /\ trace' = <<>> /\ Len(trace') = 0
      BY DEF Call
<1>3. \/ s.issue # NoReason /\ step' = "returned"
      \/ s.issue = NoReason /\ step' = "pre"
      BY DEF Call, Return, GoTo
<1>4. Len(script.pre)' \in Nat /\ Len(Plan(script))' \in Nat
  <2>1. s \in ScriptRecord
        BY ScriptIsRecord
  <2>2. /\ Len(s.pre) \in Nat /\ Len(s.post) \in Nat /\ HiddenLen(s) \in {0, 2}
        BY <2>1, LenProperties DEF ScriptRecord, HiddenLen
  <2>3. Len(Plan(s)) \in Nat
        BY <2>1, <2>2, PlanShape
  <2>4. QED
        BY <1>2, <2>2, <2>3 DEF Plan
<1>5. Progress' /\ Entries'
      BY <1>2, <1>3, <1>4 DEF Progress, Entries, FineUpTo, PreLen
<1>6. TraceFollowsPlan' /\ TroubleStops'
      BY <1>2, <1>4 DEF TraceFollowsPlan, TroubleStops
<1>7. VerdictTellsTrace'
      BY <1>2, <1>3 DEF VerdictTellsTrace
<1>8. QED
      BY <1>1, <1>5, <1>6, <1>7 DEF PhaseInv

LEMMA ForgetInv ==
  ASSUME PhaseInv, Forget, UNCHANGED serverVars
  PROVE  PhaseInv'
<1>1. TypeOK'
      BY ForgetType DEF PhaseInv
<1>2. trace' = <<>> /\ Len(trace') = 0 /\ step' = "idle" /\ script' = NoScript
      BY DEF Forget
<1>3. Progress' /\ Entries' /\ TroubleStops' /\ VerdictTellsTrace'
      BY <1>2 DEF Progress, Entries, TroubleStops, VerdictTellsTrace
<1>4. TraceFollowsPlan'
  <2>1. NoScript \in ScriptRecord
        BY ScriptIsRecord
  <2>2. Len(NoScript.pre) = 0 /\ Len(NoScript.post) = 0 /\ HiddenLen(NoScript) = 0
        BY DEF NoScript, HiddenLen
  <2>3. Len(Plan(NoScript)) \in Nat
        BY <2>1, <2>2, PlanShape
  <2>4. QED
        BY <1>2, <2>3 DEF TraceFollowsPlan, Plan
<1>5. QED
      BY <1>1, <1>3, <1>4 DEF PhaseInv

\* Nothing the server does by itself touches the call.
LEMMA ServerInv ==
  ASSUME PhaseInv, UNCHANGED phaseVars, TypeOK'
  PROVE  PhaseInv'
<1>1. UNCHANGED <<script, step, k, trace, ret>>
      BY DEF phaseVars
<1>2. Entries' /\ TraceFollowsPlan' /\ TroubleStops'
      BY <1>1 DEF PhaseInv, Entries, TraceFollowsPlan, TroubleStops, Plan
<1>3. VerdictTellsTrace'
      BY <1>1 DEF PhaseInv, VerdictTellsTrace, ServerLost, TimedOut, Plan
<1>4. Progress'
      BY <1>1 DEF PhaseInv, Progress, FineUpTo, PreLen, HiddenLen, Last
<1>5. QED
      BY <1>2, <1>3, <1>4 DEF PhaseInv

LEMMA InitInv == Init => PhaseInv
<1> SUFFICES ASSUME Init
             PROVE  PhaseInv
    OBVIOUS
<1>1. trace = <<>> /\ Len(trace) = 0 /\ step = "idle" /\ script = NoScript
      BY DEF Init, PhaseInit
<1>2. Progress /\ Entries /\ TroubleStops /\ VerdictTellsTrace
      BY <1>1 DEF Progress, Entries, TroubleStops, VerdictTellsTrace
<1>3. TraceFollowsPlan
  <2>1. NoScript \in ScriptRecord
        BY ScriptIsRecord
  <2>2. Len(NoScript.pre) = 0 /\ Len(NoScript.post) = 0 /\ HiddenLen(NoScript) = 0
        BY DEF NoScript, HiddenLen
  <2>3. Len(Plan(NoScript)) \in Nat
        BY <2>1, <2>2, PlanShape
  <2>4. QED
        BY <1>1, <2>3 DEF TraceFollowsPlan
<1>4. QED
      BY <1>2, <1>3, InitType DEF PhaseInv

LEMMA NextInv == PhaseInv /\ [Next]_vars => PhaseInv'
<1> SUFFICES ASSUME PhaseInv, [Next]_vars
             PROVE  PhaseInv'
    OBVIOUS
<1>1. TypeOK /\ TypeOK'
      BY NextType DEF PhaseInv
<1>2. ASSUME NEW s \in Scripts, Call(s)
      PROVE  PhaseInv'
      BY <1>2, CallInv
<1>3. CASE PhaseStep
      BY <1>3, PhaseStepInv
<1>4. CASE TakeResult
      BY <1>4, ForgetInv DEF TakeResult
<1>5. CASE Crash \/ Boot
      BY <1>1, <1>5, ServerInv DEF Crash, Boot
<1>6. CASE UNCHANGED vars
      BY <1>1, <1>6, ServerInv DEF vars
<1>7. QED
      BY <1>2, <1>3, <1>4, <1>5, <1>6 DEF Next

LEMMA SpecPhaseInv == Spec => []PhaseInv
  BY InitInv, NextInv, PTL DEF Spec

\* A phase has always done exactly an initial part of what its script asks
\* for: nothing is skipped, repeated or run out of order.
THEOREM PhaseFollowsPlan == Spec => []TraceFollowsPlan
<1>1. PhaseInv => TraceFollowsPlan
      BY DEF PhaseInv
<1>2. QED
      BY <1>1, SpecPhaseInv, PTL

\* Nothing more is run after the first trouble, but for the port check that
\* follows SQL.
THEOREM PhaseStopsAtTrouble == Spec => []TroubleStops
<1>1. PhaseInv => TroubleStops
      BY DEF PhaseInv
<1>2. QED
      BY <1>1, SpecPhaseInv, PTL

\* PASS is returned exactly for a completed plan without trouble, FATAL exactly
\* when the history shows that the server was lost, and timeout exactly when a
\* command timed out without such a loss.
THEOREM PhaseVerdictIsRight == Spec => []VerdictTellsTrace
<1>1. PhaseInv => VerdictTellsTrace
      BY DEF PhaseInv
<1>2. QED
      BY <1>1, SpecPhaseInv, PTL

(***************************************************************************)
(* The inductive invariant of runs.                                        *)
(***************************************************************************)
\* Where main is: before the case at ci has a result, trying to recover from
\* its FATAL, or past the report of the parse issues.
InCase == {"preCase"} \cup Phases \cup {"endCase"}
InLoop == {"start", "preSuite", "next"} \cup InCase
Recovering == {"recoverClean", "recoverStart"}
Reported == {"accept", "prompt", "copy", "save", "saveLast", "viewdiff", "exit", "done"}
Saving == {"saveLast", "viewdiff", "exit", "done"}

GaveUp == "fatal_recovery_failed"

\* What _run_phase returns besides what VerdictTellsTrace says.
CallTells ==
    step = "returned" =>
        /\ ret \in Verdicts
        /\ ret = Pass \/ ret.status \in Broken
        /\ ret.reason # GaveUp
        /\ script.issue # NoReason => ret.status = "ERROR"

Located ==
    /\ pc \in InCase \cup Recovering => ci \in 1..Len(Plans)
    /\ step # "idle" => pc \in Phases /\ Wanted(pc)
    /\ pc \notin {"done", "left"} => exit = -1

\* The i-th voice in log l has the worst verdict, and no later one has it too.
IsWorst(l, i) ==
    /\ l[Voices[i]] # NotRun
    /\ \A j \in 1..4 : l[Voices[j]] # NotRun =>
          /\ Priority(l[Voices[i]].status) <= Priority(l[Voices[j]].status)
          /\ j > i => Priority(l[Voices[i]].status) < Priority(l[Voices[j]].status)

Speaks(l, i, status, b) ==
    /\ IsWorst(l, i)
    /\ status = l[Voices[i]].status
    /\ status \in Broken => b = Voices[i]

LogOK(l) ==
    /\ l \in LogType
    /\ \A p \in Phases : l[p] \in {NotRun, Pass} \/ l[p].status \in Broken
    /\ \/ l["compare"] \in {NotRun, Pass}
       \/ l["compare"].status \in {"ORDER", "FAIL"}
    /\ \A p \in Phases \cup {"compare"} : l[p].reason # GaveUp

InitRan(p, l) == l["init"] # NotRun <=> p.init # NoScript

TestRan(p, l) ==
    /\ l["test"] # NotRun <=> l["init"].status \notin Broken
    /\ l["compare"] # NotRun <=> l["test"] = Pass

DestroyRan(p, l) ==
    l["destroy"] # NotRun <=>
        /\ p.destroy # NoScript
        /\ l["init"].status # "FATAL" /\ l["test"].status # "FATAL"

Spoken ==
    \E i \in 1..4 : /\ Speaks(log, i, verdict.status, blame)
                    /\ verdict.reason = log[Voices[i]].reason

\* A FAIL is of an output of this run, and of the baseline it found.
FailTells(status, reason, i) ==
    status = "FAIL" =>
        /\ i \in fresh
        /\ reason = IF lst[i] \in {"absent", "created"} THEN "missing_lst"
                    ELSE "content_mismatch"

\* The current case.
CaseInv ==
    /\ pc \in Phases \cup {"endCase"} => LogOK(log)
    /\ pc = "init" => log = EmptyLog /\ verdict = Pass
    /\ pc = "test" =>
          /\ log["test"] = NotRun /\ log["compare"] = NotRun
          /\ verdict = (IF log["init"] = NotRun THEN Pass ELSE log["init"])
          /\ verdict.status \in Broken => blame = "init"
    /\ pc \in {"test", "destroy"} => log["destroy"] = NotRun
    /\ pc \in {"test", "destroy", "endCase"} => InitRan(Case, log)
    /\ pc \in {"destroy", "endCase"} =>
          /\ TestRan(Case, log)
          /\ Spoken
          /\ blame # "none"
          /\ FailTells(verdict.status, verdict.reason, ci)
    /\ pc = "endCase" => DestroyRan(Case, log)

\* A result of a case, ...
CaseTold(i) ==
    LET r == results[i] IN
    /\ r.index = Plans[i].index
    /\ r.blame # "none"
    /\ LogOK(r.log)
    /\ InitRan(Plans[i], r.log) /\ TestRan(Plans[i], r.log) /\ DestroyRan(Plans[i], r.log)
    /\ \E j \in 1..4 : /\ Speaks(r.log, j, r.status, r.blame)
                       /\ r.reason \in {r.log[Voices[j]].reason, GaveUp}
    /\ FailTells(r.status, r.reason, i)

\* ... and the results: those of n cases, then those of the issues.
ResultsAre(n) ==
    /\ n \in 0..Len(Plans)
    /\ n <= Len(results)
    /\ \A i \in 1..n : CaseTold(i)
    /\ \A i \in (n + 1)..Len(results) : results[i] = IssueResult(i - n)

ResultsInv ==
    /\ ResultsAre(NumDone)
    /\ NumDone \in {ci - 1, ci}
    /\ pc \in InLoop => NumDone = ci - 1
    /\ pc \in Recovering => NumDone = ci
    /\ pc \in InLoop \cup Recovering \cup {"report"} => Len(results) = NumDone
    /\ pc \in Reported \/ saved # {} => Len(results) = NumDone + suite.issues

LastResult == results[NumDone]

StopInv ==
    /\ stop.byFatal <=> \E i \in 1..NumDone : results[i].status = "FATAL"
    /\ stop.byError <=> stop.code = 1
    /\ pc \in InLoop \cup Recovering => stop.code = 0
    /\ pc \in Recovering \/ stop.code # 0 => NumDone = ci /\ stop.at = LastResult.index
    /\ pc \in Recovering => LastResult.status = "FATAL"
    /\ stop.code # 0 => LastResult.status = (IF stop.byError THEN "ERROR" ELSE "FATAL")
    /\ stop.code = 3 <=> \E i \in 1..NumDone : results[i].reason = GaveUp
    /\ stop.code = 3 => tries = opts.fatalRecoverMax
    /\ pc \in {"report"} \cup Reported /\ stop.code = 0 => NumDone = Len(Plans)

FilesInv ==
    /\ pc \in InLoop \cup Recovering \cup {"report", "accept", "prompt"} =>
          \A i \in DOMAIN lst : lst[i] \in {"absent", "found"}
    /\ \A i \in todo : i \in Selected /\ lst[i] \in {"absent", "found"}
    /\ \A i \in DOMAIN lst : lst[i] \in {"created", "replaced"} => i \in Selected
    /\ pc \notin {"copy", "left"} => todo = {}
    /\ saved # {} => todo = {} /\ pc \in Saving \cup {"left"}
    /\ pc = "saveLast" => saved = {"run.json"}
    /\ pc \in {"viewdiff", "exit", "done"} => saved = {"run.json", "last_run.json"}
    /\ exit = 0 => pc = "done" /\ NumDone = Len(Plans)

RunInv ==
    /\ RunnerTypeOK
    /\ PhaseInv /\ CallTells
    /\ Located /\ CaseInv /\ ResultsInv /\ StopInv /\ FilesInv

(***************************************************************************)
(* The calls of _run_phase.                                                *)
(***************************************************************************)
\* A step of a call returns PASS, or a verdict that breaks the case.
LEMMA PhaseStepTells ==
  ASSUME PhaseInv, PhaseStep
  PROVE  CallTells'
<1>1. step \notin {"idle", "returned"} /\ UNCHANGED script
      BY DEF PhaseStep, PreAction, PreDone, RunHidden, CheckHidden, RunVisible,
             CheckVisible, PostAction, PostDone, CheckPost, SystemAction, RunSql,
             CheckPort
<1>2. script'.issue = NoReason
      BY <1>1 DEF PhaseInv, Progress
<1> DEFINE Good(v) == /\ v \in Verdicts
                      /\ v = Pass \/ v.status \in Broken
                      /\ v.reason # GaveUp
<1>3. Good(Pass) /\ \A why \in {"timeout", "exec_failed"} : Good(Error(why))
      BY DEF Verdicts, Statuses, Reasons, Pass, Error, Broken, GaveUp, NoReason
<1>4. \A why \in {"server_disconnected", "server_port_closed"} : Good(Fatal(why))
      BY DEF Verdicts, Statuses, Reasons, Fatal, Broken, GaveUp
<1>5. \A r : Good(SystemVerdict(r))
      BY <1>3, <1>4 DEF SystemVerdict
<1> HIDE DEF Good
<1>6. step' = "returned" => Good(ret')
  <2>1. ASSUME NEW here, NEW actions, SystemAction(here, actions)
        PROVE  here # "returned" /\ step' = "returned" => Good(ret')
        BY <1>5, <2>1 DEF SystemAction, Return, GoTo
  <2>2. ASSUME NEW here, NEW next \in {"hiddenPort", "visiblePort"}, RunSql(here, next)
        PROVE  step' = "returned" => Good(ret')
        BY <1>4, <2>2 DEF RunSql, Return, GoTo
  <2>3. ASSUME NEW here, NEW next \in {"visible", "post"}, NEW tolerated,
               CheckPort(here, next, tolerated)
        PROVE  step' = "returned" => Good(ret')
        BY <1>3, <1>4, <2>3 DEF CheckPort, Return, GoTo
  <2>4. CASE PreAction \/ PostAction
        BY <2>1, <2>4 DEF PreAction, PostAction
  <2>5. CASE RunHidden \/ RunVisible
        BY <2>2, <2>5 DEF RunHidden, RunVisible
  <2>6. CASE CheckHidden \/ CheckVisible
        BY <2>3, <2>6 DEF CheckHidden, CheckVisible
  <2>7. CASE PreDone \/ PostDone \/ CheckPost
        BY <1>3, <1>4, <2>7 DEF PreDone, PostDone, CheckPost, Return, GoTo
  <2>8. QED
        BY <2>4, <2>5, <2>6, <2>7 DEF PhaseStep
<1>7. QED
      BY <1>2, <1>6 DEF CallTells, Good

LEMMA CallingTells ==
  ASSUME NEW s \in Scripts, Call(s)
  PROVE  CallTells'
<1>1. s.issue \in {NoReason, "parse_error", "unknown_directive"} /\ script' = s
      BY ScriptsAssumption DEF ScriptType, Call
<1>2. CASE s.issue = NoReason
      BY <1>2 DEF Call, GoTo, CallTells
<1>3. CASE s.issue # NoReason
  <2>1. ret' = Error(s.issue) /\ script' = s
        BY <1>3 DEF Call, Return
  <2>2. s.issue \in Reasons /\ s.issue # GaveUp
        BY <1>1, <1>3 DEF Reasons, GaveUp
  <2>3. ret' \in Verdicts /\ ret'.status = "ERROR" /\ ret'.reason # GaveUp
        BY <2>1, <2>2 DEF Error, Verdicts, Statuses
  <2>4. QED
        BY <2>3 DEF CallTells, Broken
<1>4. QED
      BY <1>2, <1>3

\* A phase that did not break the case passed, and has run its visible SQL.
LEMMA UnbrokenPhase ==
  ASSUME PhaseInv, CallTells, step = "returned", ret.status \notin Broken
  PROVE  ret = Pass /\ \E i \in DOMAIN trace : trace[i].op = "visible"
<1>1. ret = Pass
      BY DEF CallTells
<1>2. script.issue = NoReason
      BY DEF CallTells, Broken
<1>3. script \in ScriptRecord
      BY ScriptIsRecord DEF PhaseInv, TypeOK
<1> DEFINE v == Len(script.pre) + HiddenLen(script) + 1
<1>4. Len(trace) = Len(Plan(script)) /\ TraceFollowsPlan
      BY <1>1, <1>2 DEF PhaseInv, VerdictTellsTrace, Pass
<1>5. Len(script.pre) \in Nat /\ Len(script.post) \in Nat /\ HiddenLen(script) \in {0, 2}
      BY <1>3, LenProperties DEF ScriptRecord, HiddenLen
<1>6. v \in 1..Len(Plan(script)) /\ Plan(script)[v] = "visible"
  <2>1. /\ Len(Plan(script)) = Len(script.pre) + HiddenLen(script) + 2 + Len(script.post)
                                + (IF script.post = <<>> THEN 0 ELSE 1)
        /\ Plan(script)[v] = "visible"
        BY <1>3, PlanShape
  <2>2. v \in 1..Len(Plan(script))
    <3> DEFINE a == Len(script.pre)
               h == HiddenLen(script)
               b == Len(script.post)
               c == IF script.post = <<>> THEN 0 ELSE 1
    <3>1. a \in Nat /\ h \in Nat /\ b \in Nat /\ c \in Nat
          BY <1>5
    <3>2. Len(Plan(script)) = a + h + 2 + b + c
          BY <2>1
    <3> HIDE DEF a, h, b, c
    <3>3. a + h + 1 \in 1..Len(Plan(script))
          BY <3>1, <3>2
    <3>4. QED
          BY <3>3 DEF a, h
  <2>3. QED
        BY <2>1, <2>2
<1>7. v \in DOMAIN trace
      BY <1>4, <1>6, LenProperties DEF PhaseInv, TypeOK
<1>8. QED
      BY <1>1, <1>4, <1>6, <1>7 DEF TraceFollowsPlan

\* A command of main or of a recovery changes nothing but the server.
LEMMA CommandKeepsCall ==
  ASSUME PhaseInv, CallTells, NEW c \in Commands, NEW kind,
         server' \in Effect(c, kind), UNCHANGED <<crashes, phaseVars>>
  PROVE  PhaseInv' /\ CallTells'
<1>1. UNCHANGED <<script, step, k, trace, ret>>
      BY DEF phaseVars
<1>2. TypeOK'
      BY <1>1, EffectType DEF PhaseInv, TypeOK
<1>3. PhaseInv'
      BY <1>2, ServerInv
<1>4. CallTells'
      BY <1>1 DEF CallTells
<1>5. QED
      BY <1>3, <1>4

LEMMA ServerKeepsCall ==
  ASSUME PhaseInv, CallTells, Crash \/ Boot
  PROVE  PhaseInv' /\ CallTells'
<1>1. UNCHANGED phaseVars
      BY DEF Crash, Boot
<1>2. TypeOK'
      BY ServerType DEF PhaseInv
<1>3. QED
      BY <1>1, <1>2, ServerInv DEF CallTells, phaseVars

LEMMA NothingKeepsCall ==
  ASSUME PhaseInv, CallTells, UNCHANGED vars
  PROVE  PhaseInv' /\ CallTells'
<1>1. UNCHANGED <<server, crashes, script, step, k, trace, ret>> /\ UNCHANGED phaseVars
      BY DEF vars, serverVars, phaseVars
<1>2. TypeOK'
      BY <1>1 DEF PhaseInv, TypeOK
<1>3. QED
      BY <1>1, <1>2, ServerInv DEF CallTells

LEMMA ForgetKeepsCall ==
  ASSUME PhaseInv, CallTells, Forget, UNCHANGED serverVars
  PROVE  PhaseInv' /\ CallTells'
  BY ForgetInv DEF CallTells, Forget

(***************************************************************************)
(* Data that a step leaves alone.                                          *)
(***************************************************************************)
LEMMA CountOf ==
  ASSUME NEW r, NEW n \in Nat, NEW len \in Nat, n <= len, DOMAIN r = 1..len,
         \A i \in 1..n : r[i].blame # "none",
         \A i \in (n + 1)..len : r[i].blame = "none"
  PROVE  Cardinality({i \in DOMAIN r : r[i].blame # "none"}) = n
<1>1. {i \in DOMAIN r : r[i].blame # "none"} = 1..n
  <2>1. \A i \in 1..len : i \in 1..n \/ i \in (n + 1)..len
        OBVIOUS
  <2>2. \A i \in 1..n : i \in 1..len
        OBVIOUS
  <2>3. \A i \in (n + 1)..len : i \notin 1..n
        OBVIOUS
  <2>4. QED
        BY <2>1, <2>2, <2>3
<1>2. Cardinality(1..n) = n
      BY FS_Interval
<1>3. QED
      BY <1>1, <1>2

LEMMA DataKept ==
  ASSUME UNCHANGED <<opts, suite, results, lst>>, fresh \subseteq fresh'
  PROVE  /\ Plans' = Plans /\ (ci' = ci => Case' = Case)
         /\ NumDone' = NumDone /\ LastResult' = LastResult /\ Selected' = Selected
         /\ ResultsAre(NumDone) => ResultsAre(NumDone)'
<1>1. /\ opts' = opts /\ suite' = suite /\ results' = results
      /\ fresh \subseteq fresh' /\ lst' = lst
      OBVIOUS
<1>2. Plans' = Plans /\ (ci' = ci => Case' = Case)
      BY <1>1 DEF Plans, Case
<1>3. NumDone' = NumDone /\ Selected' = Selected
      BY <1>1 DEF NumDone, Selected
<1>4. LastResult' = LastResult
      BY <1>1, <1>3 DEF LastResult
<1>5. \A i : CaseTold(i) => CaseTold(i)'
      BY <1>1, <1>2 DEF CaseTold, FailTells
<1>6. \A i : IssueResult(i)' = IssueResult(i)
      BY <1>2 DEF IssueResult, NextIndex
<1>7. ASSUME ResultsAre(NumDone)
      PROVE  ResultsAre(NumDone)'
  <2>1. \A i : IssueResult(i - NumDone)' = IssueResult(i - NumDone)
        BY <1>2, <1>3 DEF IssueResult, NextIndex
  <2>2. QED
        BY <1>1, <1>2, <1>3, <1>5, <1>7, <2>1 DEF ResultsAre
<1>8. QED
      BY <1>2, <1>3, <1>4, <1>7

StopType == [code : 0..3, byFatal : BOOLEAN, byError : BOOLEAN, at : Nat]

\* A step within the loop, or within the end of the run, and the way out of it
\* by an exception, say nothing new about the results.
LEMMA ResultsKept ==
  ASSUME ResultsInv, StopInv,
         UNCHANGED <<opts, suite, ci, results, stop, tries, lst>>, fresh \subseteq fresh',
         \/ pc \in InLoop /\ pc' \in InLoop
         \/ pc \in Recovering /\ pc' \in Recovering
         \/ pc \in Reported /\ pc' \in Reported
         \/ pc' \in {pc, "left"},
         saved' = saved \/ pc \in Reported
  PROVE  ResultsInv' /\ StopInv'
<1>1. /\ opts' = opts /\ suite' = suite /\ ci' = ci /\ results' = results
      /\ stop' = stop /\ tries' = tries
      OBVIOUS
<1>2. /\ NumDone' = NumDone /\ LastResult' = LastResult /\ Plans' = Plans
      /\ ResultsAre(NumDone) => ResultsAre(NumDone)'
      BY DataKept, <1>1
<1>3. ResultsInv'
      BY <1>1, <1>2 DEF ResultsInv, InLoop, InCase, Phases, Recovering, Reported
<1>4. StopInv'
      BY <1>1, <1>2 DEF StopInv, InLoop, InCase, Phases, Recovering, Reported
<1>5. QED
      BY <1>3, <1>4

\* The commands of main are commands.
LEMMA CommandLists ==
  PreSuiteCommands \in Seq(Commands) /\ PreCaseCommands \in Seq(Commands)
<1>1. /\ <<>> \in Seq(Commands) /\ <<"server start">> \in Seq(Commands)
      /\ <<"server stop", "server start">> \in Seq(Commands)
      /\ <<"clean">> \in Seq(Commands)
      BY DEF Commands
<1>2. \A m : CleanIn(m) \in Seq(Commands)
      BY <1>1, Zenon DEF CleanIn
<1> DEFINE starts == CASE opts.serverMode = "start-once"   -> <<"server start">>
                       [] opts.serverMode = "restart-once" -> <<"server stop", "server start">>
                       [] OTHER                            -> <<>>
           start == IF opts.serverMode = "per-case" THEN <<"server start">> ELSE <<>>
<1>3. starts \in Seq(Commands) /\ start \in Seq(Commands)
      BY <1>1, Zenon
<1> HIDE DEF starts, start
<1>4. /\ CleanIn("before-suite") \o starts \in Seq(Commands)
      /\ CleanIn("before-each") \o start \in Seq(Commands)
      BY <1>2, <1>3, ConcatProperties
<1>5. QED
      BY <1>4, Zenon DEF starts, start, PreSuiteCommands, PreCaseCommands

\* Steps of main between the start and the cases.
LEMMA BeforeCasesInv ==
  ASSUME RunInv, BeginRun \/ BeginCases \/ NextCase \/ Reject
  PROVE  RunInv'
<1>1. /\ UNCHANGED <<inputVars, caseVars, loopVars, fileVars, vars>>
      /\ UNCHANGED <<opts, suite, verdict, blame, log, ci, results, stop, tries,
                     fresh, todo, lst, saved, server, crashes, script, step, k,
                     trace, ret>>
      /\ \/ pc \in {"start", "preSuite", "next"} /\ pc' \in {"preSuite", "next", "preCase"}
         \/ pc = "start" /\ pc' = "left" /\ exit' = 1
      /\ pc' = "preCase" => ci <= Len(Plans)
      /\ pc' # "left" => exit' = exit
      BY DEF BeginRun, BeginCases, NextCase, Reject, Goto, inputVars, caseVars,
             loopVars, fileVars, vars, serverVars, phaseVars
<1>2. RunnerTypeOK /\ PhaseInv /\ CallTells /\ Located /\ ResultsInv /\ StopInv /\ FilesInv
      BY DEF RunInv
<1>3. PhaseInv' /\ CallTells'
      BY <1>1, <1>2, NothingKeepsCall
<1>4. cmds' \in Seq(Commands)
      BY <1>2, CommandLists DEF BeginRun, BeginCases, NextCase, Reject, RunnerTypeOK
<1>5. RunnerTypeOK'
      BY <1>1, <1>2, <1>3, <1>4 DEF RunnerTypeOK, PhaseInv, MainStates, Plans
<1>6. Located'
      BY <1>1, <1>2 DEF Located, InCase, Recovering, Phases, RunnerTypeOK, Plans
<1>7. CaseInv'
      BY <1>1 DEF CaseInv, Phases
<1>8. ResultsInv' /\ StopInv'
      BY <1>1, <1>2, ResultsKept DEF InLoop, InCase
<1>9. FilesInv'
  <2>1. NumDone' = NumDone /\ Plans' = Plans /\ Selected' = Selected
        BY <1>1, DataKept
  <2>2. QED
        BY <1>1, <1>2, <2>1 DEF FilesInv, InLoop, InCase, Phases, Recovering, Saving
<1>10. QED
      BY <1>2, <1>3, <1>5, <1>6, <1>7, <1>8, <1>9 DEF RunInv

LEMMA RunCommandInv ==
  ASSUME RunInv, RunCommand
  PROVE  RunInv'
<1>1. /\ UNCHANGED <<opts, suite, pc, verdict, blame, log, ci, results, stop, tries,
                     fresh, todo, lst, saved, exit, crashes, script, step, k, trace,
                     ret>>
      /\ UNCHANGED <<crashes, phaseVars>>
      /\ pc \in {"preSuite", "preCase"} /\ cmds # <<>> /\ cmds' = Tail(cmds)
      BY DEF RunCommand, inputVars, caseVars, loopVars, fileVars, phaseVars
<1>2. RunnerTypeOK /\ PhaseInv /\ CallTells /\ Located /\ ResultsInv /\ StopInv /\ FilesInv
      BY DEF RunInv
<1>3. cmds \in Seq(Commands)
      BY <1>2 DEF RunnerTypeOK
<1>4. Head(cmds) \in Commands /\ cmds' \in Seq(Commands)
      BY <1>1, <1>3, HeadTailProperties
<1>5. PhaseInv' /\ CallTells'
  <2>1. PICK r \in Outcomes : server' \in Effect(Head(cmds), r.kind)
        BY DEF RunCommand
  <2>2. QED
        BY <1>1, <1>2, <1>4, <2>1, CommandKeepsCall
<1>6. RunnerTypeOK'
      BY <1>1, <1>2, <1>4, <1>5 DEF RunnerTypeOK, PhaseInv, MainStates, Plans
<1>7. Located'
      BY <1>1, <1>2 DEF Located, Phases, RunnerTypeOK, Plans
<1>8. CaseInv'
      BY <1>1 DEF CaseInv, Phases
<1>9. ResultsInv' /\ StopInv'
      BY <1>1, <1>2, ResultsKept
<1>10. FilesInv'
  <2>1. NumDone' = NumDone /\ Plans' = Plans /\ Selected' = Selected
        BY <1>1, DataKept
  <2>2. QED
        BY <1>1, <1>2, <2>1 DEF FilesInv
<1>11. QED
      BY <1>5, <1>6, <1>7, <1>8, <1>9, <1>10 DEF RunInv

LEMMA NoReasonIsNone == NoReason # GaveUp /\ NoReason \in Reasons
  BY Zenon DEF NoReason, GaveUp, Reasons

LEMMA StartCaseInv ==
  ASSUME RunInv, StartCase
  PROVE  RunInv'
<1>1. /\ UNCHANGED <<opts, suite, cmds, ci, results, stop, tries, fresh, todo, lst,
                     saved, exit, server, crashes, script, step, k, trace, ret>>
      /\ UNCHANGED vars
      /\ pc = "preCase" /\ pc' = "init"
      /\ verdict' = Pass /\ blame' = "none" /\ log' = EmptyLog
      BY DEF StartCase, Goto, inputVars, loopVars, fileVars, vars, serverVars, phaseVars
<1>2. RunnerTypeOK /\ PhaseInv /\ CallTells /\ Located /\ ResultsInv /\ StopInv /\ FilesInv
      BY DEF RunInv
<1>3. PhaseInv' /\ CallTells'
      BY <1>1, <1>2, NothingKeepsCall
<1>4. EmptyLog \in LogType /\ LogOK(EmptyLog)
      BY NoReasonIsNone DEF EmptyLog, LogType, LogOK, NotRun, NoVerdict, Phases
<1>5. Pass \in Verdicts
      BY DEF Pass, Verdicts, Statuses, Reasons
<1>6. RunnerTypeOK'
      BY <1>1, <1>2, <1>3, <1>4, <1>5
         DEF RunnerTypeOK, PhaseInv, MainStates, Phases, Plans
<1>7. Located'
      BY <1>1, <1>2 DEF Located, InCase, Recovering, Phases, RunnerTypeOK, Plans
<1>8. CaseInv'
      BY <1>1, <1>4 DEF CaseInv, EmptyLog
<1>9. ResultsInv' /\ StopInv'
      BY <1>1, <1>2, ResultsKept DEF InLoop, InCase, Phases
<1>10. FilesInv'
  <2>1. NumDone' = NumDone /\ Plans' = Plans /\ Selected' = Selected
        BY <1>1, DataKept
  <2>2. QED
        BY <1>1, <1>2, <2>1 DEF FilesInv, InLoop, InCase, Phases, Saving
<1>11. QED
      BY <1>3, <1>6, <1>7, <1>8, <1>9, <1>10 DEF RunInv

(***************************************************************************)
(* The phases of a case.                                                   *)
(***************************************************************************)
LEMMA PlansType ==
  ASSUME RunnerTypeOK
  PROVE  /\ Plans \in Seq(PlanType) /\ Len(Plans) \in Nat /\ DOMAIN Plans = 1..Len(Plans)
         /\ \A i \in 1..Len(Plans) : Plans[i] \in PlanType
         /\ \A i, j \in 1..Len(Plans) : i < j => Plans[i].index < Plans[j].index
         /\ suite.issues \in Nat
<1>1. suite \in Suites
      BY DEF RunnerTypeOK
<1>2. suite \in SuiteType /\ Plans \in Seq(PlanType) /\ suite.issues \in Nat
      BY <1>1, SuitesAssumption DEF SuiteType, Plans
<1>3. Len(Plans) \in Nat /\ DOMAIN Plans = 1..Len(Plans)
      BY <1>2, LenProperties
<1>4. \A i \in 1..Len(Plans) : Plans[i] \in PlanType
      BY <1>2, ElementOfSeq
<1>5. \A i, j \in DOMAIN Plans : i < j => Plans[i].index < Plans[j].index
      BY <1>1, SuitesAssumption DEF Plans
<1>6. QED
      BY <1>2, <1>3, <1>4, <1>5

\* Whatever happens to the call or the server, main stands still.
LEMMA MainKept ==
  ASSUME RunInv, UNCHANGED mainVars, PhaseInv', CallTells',
         step' # "idle" => pc \in Phases /\ Wanted(pc)
  PROVE  RunInv'
<1>1. UNCHANGED <<opts, suite, pc, cmds, verdict, blame, log, ci, results, stop,
                  tries, fresh, todo, lst, saved, exit>>
      BY DEF mainVars, inputVars, caseVars, loopVars, fileVars
<1>2. RunnerTypeOK /\ Located /\ CaseInv /\ ResultsInv /\ StopInv /\ FilesInv
      BY DEF RunInv
<1>3. /\ NumDone' = NumDone /\ Plans' = Plans /\ Selected' = Selected
      /\ Case' = Case
      BY <1>1, DataKept
<1>4. RunnerTypeOK'
      BY <1>1, <1>2, <1>3 DEF RunnerTypeOK, PhaseInv
<1>5. Located'
      BY <1>1, <1>2, <1>3 DEF Located, Wanted
<1>6. CaseInv'
      BY <1>1, <1>2, <1>3 DEF CaseInv, Spoken, FailTells
<1>7. ResultsInv' /\ StopInv'
      BY <1>1, <1>2, ResultsKept
<1>8. FilesInv'
      BY <1>1, <1>2, <1>3 DEF FilesInv
<1>9. QED
      BY <1>4, <1>5, <1>6, <1>7, <1>8 DEF RunInv

LEMMA EnterPhaseInv ==
  ASSUME RunInv, NEW phase \in Phases, EnterPhase(phase)
  PROVE  RunInv'
<1>1. RunnerTypeOK /\ PhaseInv /\ CallTells /\ Located
      BY DEF RunInv
<1>2. pc = phase /\ Wanted(phase) /\ Call(Case[phase]) /\ UNCHANGED mainVars
      BY DEF EnterPhase
<1>3. Case \in PlanType
      BY <1>1, <1>2, PlansType DEF Located, Case, InCase
<1>4. Case[phase] \in Scripts
      BY <1>2, <1>3 DEF Wanted, PlanType, Phases
<1>5. PhaseInv' /\ CallTells'
      BY <1>1, <1>2, <1>4, CallInv, CallingTells
<1>6. QED
      BY <1>2, <1>5, MainKept

LEMMA InPhaseInv ==
  ASSUME RunInv, InPhase
  PROVE  RunInv'
<1>1. PhaseInv /\ PhaseStep /\ UNCHANGED mainVars /\ Located
      BY DEF RunInv, InPhase
<1>2. PhaseInv' /\ CallTells'
      BY <1>1, PhaseStepInv, PhaseStepTells
<1>3. step # "idle"
      BY <1>1 DEF PhaseStep, PreAction, PreDone, RunHidden, CheckHidden, RunVisible,
                  CheckVisible, PostAction, PostDone, CheckPost, SystemAction, RunSql,
                  CheckPort
<1>4. QED
      BY <1>1, <1>2, <1>3, MainKept DEF Located

LEMMA ServerStepInv ==
  ASSUME RunInv, Server
  PROVE  RunInv'
<1>1. PhaseInv /\ CallTells /\ Located /\ (Crash \/ Boot) /\ UNCHANGED mainVars
      BY DEF RunInv, Server
<1>2. PhaseInv' /\ CallTells' /\ step' = step
      BY <1>1, ServerKeepsCall DEF Crash, Boot, phaseVars
<1>3. QED
      BY <1>1, <1>2, MainKept DEF Located

LEMMA VoiceNames ==
  /\ Voices[1] = "init" /\ Voices[2] = "test"
  /\ Voices[3] = "compare" /\ Voices[4] = "destroy"
  /\ DOMAIN Voices = 1..4
  BY DEF Voices

LEMMA Priorities ==
  /\ \A s : Priority(s) \in 0..4
  /\ \A s : Priority(s) = 0 <=> s = "FATAL"
  /\ \A s : s \in Broken <=> Priority(s) <= 1
  /\ Priority("PASS") = 4
  BY DEF Priority, Broken

LEMMA VerdictKinds ==
  /\ NotRun.status \notin Broken /\ Pass.status \notin Broken /\ Pass # NotRun
  /\ \A v \in Verdicts : v # NotRun
  /\ Pass \in Verdicts /\ Pass.status = "PASS" /\ NotRun.status = "none"
  /\ Pass.reason # GaveUp
<1>1. NotRun.status = "none" /\ Pass.status = "PASS"
      BY DEF NotRun, NoVerdict, Pass
<1>2. \A v \in Verdicts : v.status # "none"
      BY DEF Verdicts, Statuses
<1>3. Pass \in Verdicts
      BY DEF Pass, Verdicts, Statuses, Reasons
<1>4. Pass.reason # GaveUp
      BY NoReasonIsNone DEF Pass
<1>5. QED
      BY <1>1, <1>2, <1>3, <1>4 DEF Broken

\* A verdict as bad as all before it is the worst from now on.
LEMMA NewVoice ==
  ASSUME NEW l \in LogType, NEW n \in 1..4, NEW new \in Verdicts, NEW m,
         m = [l EXCEPT ![Voices[n]] = new],
         \A j \in 1..4 : j >= n => l[Voices[j]] = NotRun,
         \A j \in 1..4 : l[Voices[j]] # NotRun =>
                            Priority(new.status) <= Priority(l[Voices[j]].status)
  PROVE  IsWorst(m, n) /\ m[Voices[n]] = new
<1>1. \A j \in 1..4 : m[Voices[j]] = IF j = n THEN new ELSE l[Voices[j]]
      BY VoiceNames DEF LogType, Phases
<1>2. new # NotRun /\ Priority(new.status) \in 0..4
      BY VerdictKinds, Priorities
<1>3. QED
      BY <1>1, <1>2 DEF IsWorst

LEMMA NoScriptIsNone == NoScript \notin Scripts
<1>1. NoReason # "absent"
      BY Zenon DEF NoReason
<1>2. \A s \in Scripts : s.issue \in {NoReason, "parse_error", "unknown_directive"}
      BY ScriptsAssumption DEF ScriptType
<1>3. NoScript.issue = "absent"
      BY DEF NoScript
<1>4. QED
      BY <1>1, <1>2, <1>3

LEMMA SkipPhaseInv ==
  ASSUME RunInv, NEW phase \in Phases, SkipPhase(phase)
  PROVE  RunInv'
<1>1. /\ UNCHANGED <<opts, suite, cmds, verdict, blame, log, ci, results, stop, tries,
                     fresh, todo, lst, saved, exit, server, crashes, script, step, k,
                     trace, ret>>
      /\ UNCHANGED vars
      /\ pc = phase /\ step = "idle" /\ ~Wanted(phase) /\ pc' = After(phase)
      BY DEF SkipPhase, Goto, inputVars, caseVars, loopVars, fileVars, vars, serverVars,
             phaseVars
<1>2. /\ RunnerTypeOK /\ PhaseInv /\ CallTells /\ Located /\ CaseInv
      /\ ResultsInv /\ StopInv /\ FilesInv
      BY DEF RunInv
<1>3. /\ NumDone' = NumDone /\ Plans' = Plans /\ Selected' = Selected /\ Case' = Case
      BY <1>1, DataKept
<1>4. PhaseInv' /\ CallTells'
      BY <1>1, <1>2, NothingKeepsCall
<1>5. /\ phase \in {"init", "test", "destroy"} /\ After("init") = "test"
      /\ After("test") = "destroy" /\ After("destroy") = "endCase"
      BY DEF Phases, After
<1>6. RunnerTypeOK'
      BY <1>1, <1>2, <1>3, <1>4, <1>5 DEF RunnerTypeOK, PhaseInv, MainStates, Phases
<1>7. Located'
      BY <1>1, <1>2, <1>3, <1>5 DEF Located, InCase, Recovering, Phases
<1>8. Case \in PlanType
      BY <1>1, <1>2, PlansType DEF Located, Case, InCase
<1>9. LogOK(log) /\ pc \in Phases
      BY <1>1, <1>2 DEF CaseInv
<1>10. CaseInv'
  <2>1. CASE phase = "init"
    <3>1. Case.init = NoScript
          BY <1>1, <2>1 DEF Wanted
    <3>2. log = EmptyLog /\ verdict = Pass
          BY <1>1, <1>2, <2>1 DEF CaseInv
    <3>3. \A p \in Phases \cup {"compare"} : log[p] = NotRun
          BY <3>2 DEF EmptyLog
    <3>4. verdict.status \notin Broken
          BY <3>2, VerdictKinds
    <3>5. InitRan(Case, log)
          BY <3>1, <3>3 DEF InitRan, Phases
    <3>6. QED
          BY <1>1, <1>3, <1>5, <1>9, <2>1, <3>2, <3>3, <3>4, <3>5
             DEF CaseInv, Phases
  <2>2. CASE phase = "test"
    <3>1. verdict.status \in Broken
      <4>1. Case.test # NoScript
            BY <1>8, NoScriptIsNone DEF PlanType
      <4>2. QED
            BY <1>1, <2>2, <4>1 DEF Wanted
    <3>2. /\ log["test"] = NotRun /\ log["compare"] = NotRun /\ log["destroy"] = NotRun
          /\ verdict = (IF log["init"] = NotRun THEN Pass ELSE log["init"])
          /\ blame = "init" /\ InitRan(Case, log)
          BY <1>1, <1>2, <2>2, <3>1 DEF CaseInv
    <3>3. verdict = log["init"] /\ log["init"] # NotRun
          BY <3>1, <3>2, VerdictKinds
    <3>4. Speaks(log, 1, verdict.status, blame)
          BY <3>2, <3>3, VoiceNames, Priorities DEF Speaks, IsWorst
    <3>5. Spoken
          BY <3>3, <3>4, VoiceNames DEF Spoken
    <3>6. TestRan(Case, log)
          BY <3>1, <3>2, <3>3, VerdictKinds DEF TestRan
    <3>7. verdict.status # "FAIL"
          BY <3>1 DEF Broken
    <3>8. QED
          BY <1>1, <1>3, <1>5, <1>9, <2>2, <3>2, <3>5, <3>6, <3>7
             DEF CaseInv, Phases, Spoken, FailTells
  <2>3. CASE phase = "destroy"
    <3>1. /\ log["destroy"] = NotRun /\ InitRan(Case, log) /\ TestRan(Case, log)
          /\ Spoken /\ blame # "none" /\ FailTells(verdict.status, verdict.reason, ci)
          BY <1>1, <1>2, <2>3 DEF CaseInv
    <3>2. Case.destroy = NoScript \/ verdict.status = "FATAL"
          BY <1>1, <2>3 DEF Wanted
    <3>3. ASSUME verdict.status = "FATAL"
          PROVE  log["init"].status = "FATAL" \/ log["test"].status = "FATAL"
      <4>1. PICK i \in 1..4 : log[Voices[i]] # NotRun /\ log[Voices[i]].status = "FATAL"
            BY <3>1, <3>3 DEF Spoken, Speaks, IsWorst
      <4>2. log["compare"].status # "FATAL"
            BY <1>9, VerdictKinds DEF LogOK
      <4>3. QED
            BY <3>1, <4>1, <4>2, VoiceNames
    <3>4. DestroyRan(Case, log)
          BY <3>1, <3>2, <3>3 DEF DestroyRan
    <3>5. QED
          BY <1>1, <1>3, <1>5, <1>9, <2>3, <3>1, <3>4
             DEF CaseInv, Phases, Spoken, FailTells
  <2>4. QED
        BY <1>5, <2>1, <2>2, <2>3
<1>11. ResultsInv' /\ StopInv'
      BY <1>1, <1>2, <1>5, ResultsKept DEF InLoop, InCase, Phases
<1>12. FilesInv'
      BY <1>1, <1>2, <1>3, <1>5 DEF FilesInv, InLoop, InCase, Phases, Saving
<1>13. QED
      BY <1>4, <1>6, <1>7, <1>10, <1>11, <1>12 DEF RunInv

LEMMA VerdictTypes ==
  ASSUME RunnerTypeOK, CallTells, step = "returned"
  PROVE  /\ ret \in Verdicts /\ ret # NotRun /\ ret.reason # GaveUp
         /\ ApplyStatus(verdict, ret) \in Verdicts
         /\ \A same, orderOnly, there \in BOOLEAN :
               LET cmp == ClassifyCompare(same, orderOnly, there) IN
               /\ cmp \in Verdicts /\ cmp.reason # GaveUp
               /\ cmp = Pass \/ cmp.status \in {"ORDER", "FAIL"}
               /\ ApplyStatus(verdict, cmp) \in Verdicts
               /\ cmp.status = "FAIL" =>
                     cmp.reason = IF there THEN "content_mismatch" ELSE "missing_lst"
<1>1. ret \in Verdicts /\ ret.reason # GaveUp /\ verdict \in Verdicts
      BY DEF CallTells, RunnerTypeOK
<1>2. \A new \in Verdicts : ApplyStatus(verdict, new) \in Verdicts
      BY <1>1 DEF ApplyStatus
<1>3. ASSUME NEW same \in BOOLEAN, NEW orderOnly \in BOOLEAN, NEW there \in BOOLEAN
      PROVE  LET cmp == ClassifyCompare(same, orderOnly, there) IN
             /\ cmp \in Verdicts /\ cmp.reason # GaveUp
             /\ cmp = Pass \/ cmp.status \in {"ORDER", "FAIL"}
             /\ cmp.status = "FAIL" =>
                   cmp.reason = IF there THEN "content_mismatch" ELSE "missing_lst"
      BY VerdictKinds DEF ClassifyCompare, Verdicts, Statuses, Reasons, GaveUp
<1>4. QED
      BY <1>1, <1>2, <1>3, VerdictKinds

\* What the end of a phase makes of log and verdict.
LEMMA EndPhaseCases ==
  ASSUME NEW phase \in Phases, EndPhase(phase)
  PROVE  /\ UNCHANGED <<opts, suite, cmds, ci, results, stop, tries, todo, lst,
                        saved, exit>>
         /\ pc = phase /\ step = "returned" /\ pc' = After(phase)
         /\ step' = "idle" /\ Forget /\ UNCHANGED serverVars
         /\ fresh \subseteq fresh' /\ fresh' \subseteq fresh \cup {ci}
         /\ phase = "test" /\ (\E i \in DOMAIN trace : trace[i].op = "visible")
               => ci \in fresh'
         /\ \/ /\ ret.status \in Broken
               /\ verdict' = ApplyStatus(verdict, ret) /\ blame' = phase
               /\ log' = [log EXCEPT ![phase] = ret]
            \/ /\ ret.status \notin Broken /\ phase # "test"
               /\ verdict' = verdict /\ blame' = blame
               /\ log' = [log EXCEPT ![phase] = ret]
            \/ /\ ret.status \notin Broken /\ phase = "test"
               /\ \E same, orderOnly \in BOOLEAN :
                     LET cmp == ClassifyCompare(same, orderOnly, lst[ci] # "absent") IN
                     /\ verdict' = ApplyStatus(verdict, cmp) /\ blame' = "test"
                     /\ log' = [log EXCEPT !["test"] = ret, !["compare"] = cmp]
<1>1. /\ UNCHANGED <<opts, suite, cmds, ci, results, stop, tries, todo, lst,
                     saved, exit>>
      /\ pc = phase /\ step = "returned" /\ pc' = After(phase)
      /\ step' = "idle" /\ Forget /\ UNCHANGED serverVars
      BY DEF EndPhase, Goto, Forget, inputVars, loopVars
<1>2. /\ fresh \subseteq fresh' /\ fresh' \subseteq fresh \cup {ci}
      /\ phase = "test" /\ (\E i \in DOMAIN trace : trace[i].op = "visible")
            => ci \in fresh'
      BY DEF EndPhase, WriteOut
<1>3. CASE BrokenPhase(phase)
      BY <1>1, <1>2, <1>3 DEF BrokenPhase, Apply
<1>4. CASE PassedSetup(phase)
      BY <1>1, <1>2, <1>4 DEF PassedSetup
<1>5. CASE CompareTest(phase)
  <2>1. PICK same \in BOOLEAN, rowsSame \in BOOLEAN :
          LET orderOnly == ~same /\ opts.orderCheck /\ lst[ci] # "absent" /\ rowsSame
              cmp == ClassifyCompare(same, orderOnly, lst[ci] # "absent")
          IN /\ Apply("test", cmp)
             /\ log' = [log EXCEPT !["test"] = ret, !["compare"] = cmp]
        BY <1>5 DEF CompareTest
  <2> DEFINE orderOnly == ~same /\ opts.orderCheck /\ lst[ci] # "absent" /\ rowsSame
  <2>2. orderOnly \in BOOLEAN
        OBVIOUS
  <2>3. QED
        BY <1>1, <1>2, <1>5, <2>1, <2>2 DEF CompareTest, Apply
<1>6. QED
      BY <1>3, <1>4, <1>5 DEF EndPhase

\* The log of a case after a phase has ended.
LEMMA EndPhaseLog ==
  ASSUME RunInv, NEW phase \in Phases, EndPhase(phase)
  PROVE  LogOK(log') /\ verdict' \in Verdicts /\ blame' \in Phases \cup {"none"}
<1>1. RunnerTypeOK /\ CallTells /\ CaseInv
      BY DEF RunInv
<1>2. pc = phase /\ step = "returned"
      BY EndPhaseCases
<1>3. LogOK(log) /\ verdict \in Verdicts /\ blame \in Phases \cup {"none"}
      BY <1>1, <1>2 DEF CaseInv, RunnerTypeOK
<1>4. ret \in Verdicts /\ ret.reason # GaveUp /\ (ret = Pass \/ ret.status \in Broken)
      BY <1>1, <1>2 DEF CallTells
<1>5. \A l : (l = [log EXCEPT ![phase] = ret]) => LogOK(l)
      BY <1>3, <1>4 DEF LogOK, LogType, Phases
<1>6. CASE ret.status \in Broken \/ phase # "test"
      BY <1>1, <1>2, <1>3, <1>5, <1>6, EndPhaseCases, VerdictTypes
<1>7. CASE ret.status \notin Broken /\ phase = "test"
  <2>1. PICK same \in BOOLEAN, orderOnly \in BOOLEAN :
          LET cmp == ClassifyCompare(same, orderOnly, lst[ci] # "absent") IN
          /\ verdict' = ApplyStatus(verdict, cmp) /\ blame' = "test"
          /\ log' = [log EXCEPT !["test"] = ret, !["compare"] = cmp]
        BY <1>7, EndPhaseCases
  <2> DEFINE there == lst[ci] # "absent"
             cmp == ClassifyCompare(same, orderOnly, there)
  <2>0. there \in BOOLEAN
        OBVIOUS
  <2> HIDE DEF there
  <2>2. /\ cmp \in Verdicts /\ cmp.reason # GaveUp
        /\ cmp = Pass \/ cmp.status \in {"ORDER", "FAIL"}
        /\ ApplyStatus(verdict, cmp) \in Verdicts
        BY <1>1, <1>2, <2>0, VerdictTypes
  <2>3. log' = [log EXCEPT !["test"] = ret, !["compare"] = cmp]
        BY <2>1 DEF there
  <2> HIDE DEF cmp
  <2>4. LogOK(log')
        BY <1>3, <1>4, <2>2, <2>3 DEF LogOK, LogType, Phases
  <2>5. QED
        BY <2>1, <2>2, <2>4 DEF cmp, there, Phases
<1>8. QED
      BY <1>6, <1>7

LEMMA EndInit ==
  ASSUME RunInv, EndPhase("init")
  PROVE  CaseInv'
<1>1. RunnerTypeOK /\ CallTells /\ CaseInv /\ Located /\ "init" \in Phases
      BY DEF RunInv, Phases
<1>2. /\ UNCHANGED <<opts, suite, ci, results, lst>> /\ pc = "init"
      /\ step = "returned" /\ pc' = "test"
      BY <1>1, EndPhaseCases DEF After
<1>3. Case' = Case
      BY <1>2 DEF Case, Plans
<1>4. log = EmptyLog /\ verdict = Pass /\ Case.init # NoScript
      BY <1>1, <1>2 DEF CaseInv, Located, Wanted
<1>5. /\ ret # NotRun /\ ret \in Verdicts
      /\ ret.status \notin Broken => ret = Pass
      BY <1>1, <1>2, VerdictTypes DEF CallTells
<1>6. /\ log' = [EmptyLog EXCEPT !["init"] = ret]
      /\ IF ret.status \in Broken THEN verdict' = ApplyStatus(Pass, ret) /\ blame' = "init"
         ELSE verdict' = Pass
      BY <1>1, <1>4, EndPhaseCases
<1>7. /\ log'["init"] = ret /\ log'["test"] = NotRun
      /\ log'["compare"] = NotRun /\ log'["destroy"] = NotRun
      BY <1>6 DEF EmptyLog, Phases
<1>8. verdict' = ret
  <2>1. Priority(ret.status) <= Priority(Pass.status)
        BY VerdictKinds, Priorities
  <2>2. QED
        BY <1>5, <1>6, <2>1 DEF ApplyStatus
<1>9. InitRan(Case, log')
      BY <1>4, <1>5, <1>7 DEF InitRan
<1>10. LogOK(log')
      BY <1>1, EndPhaseLog
<1>11. QED
      BY <1>2, <1>3, <1>5, <1>6, <1>7, <1>8, <1>9, <1>10 DEF CaseInv, Phases

LEMMA EndTest ==
  ASSUME RunInv, EndPhase("test")
  PROVE  CaseInv'
<1>1. /\ RunnerTypeOK /\ PhaseInv /\ CallTells /\ CaseInv /\ Located /\ FilesInv
      /\ "test" \in Phases
      BY DEF RunInv, Phases
<1>2. /\ UNCHANGED <<opts, suite, ci, results, lst>> /\ pc = "test"
      /\ step = "returned" /\ pc' = "destroy"
      BY <1>1, EndPhaseCases DEF After
<1>3. Case' = Case
      BY <1>2 DEF Case, Plans
<1>4. /\ log["test"] = NotRun /\ log["compare"] = NotRun /\ log["destroy"] = NotRun
      /\ verdict = (IF log["init"] = NotRun THEN Pass ELSE log["init"])
      /\ verdict.status \notin Broken /\ InitRan(Case, log) /\ LogOK(log)
      BY <1>1, <1>2 DEF CaseInv, Located, Wanted
<1>5. log["init"] \in {NotRun, Pass} /\ verdict = Pass /\ log \in LogType
      BY <1>4 DEF LogOK, Phases
<1>6. /\ ret # NotRun /\ ret \in Verdicts
      /\ ret.status \notin Broken => ret = Pass
      BY <1>1, <1>2, VerdictTypes DEF CallTells
<1>7. ASSUME NEW new \in Verdicts
      PROVE  ApplyStatus(verdict, new) = new
  <2>1. Priority(new.status) <= Priority(verdict.status)
        BY <1>5, VerdictKinds, Priorities
  <2>2. QED
        BY <2>1 DEF ApplyStatus
<1>8. LogOK(log')
      BY <1>1, EndPhaseLog
<1>9. ASSUME NEW n \in {2, 3}, NEW l \in LogType, NEW new \in Verdicts,
             log' = [l EXCEPT ![Voices[n]] = new],
             l["init"] \in {NotRun, Pass},
             l["test"] \in {NotRun, Pass}, n = 2 => l["test"] = NotRun,
             l["compare"] = NotRun, l["destroy"] = NotRun,
             verdict' = new, blame' = "test", new.status \in Broken => n = 2
      PROVE  Spoken'
  <2>1. \A j \in 1..4 : j >= n => l[Voices[j]] = NotRun
        BY <1>9, VoiceNames
  <2>2. \A j \in 1..4 : l[Voices[j]] # NotRun =>
                           Priority(new.status) <= Priority(l[Voices[j]].status)
        BY <1>9, VoiceNames, VerdictKinds, Priorities
  <2>3. IsWorst(log', n) /\ log'[Voices[n]] = new
    <3>1. n \in 1..4
          BY <1>9
    <3>2. QED
          BY ONLY <1>9, <2>1, <2>2, <3>1, NewVoice
  <2>4. Speaks(log', n, new.status, "test")
        BY <1>9, <2>3, VoiceNames DEF Speaks
  <2>5. QED
        BY <1>9, <2>3, <2>4 DEF Spoken
<1>10. CASE ret.status \in Broken
  <2>1. verdict' = ret /\ blame' = "test" /\ log' = [log EXCEPT !["test"] = ret]
        BY <1>1, <1>6, <1>7, <1>10, EndPhaseCases
  <2>2. /\ log'["test"] = ret /\ log'["compare"] = NotRun
        /\ log'["init"] = log["init"] /\ log'["destroy"] = NotRun
        BY <1>4, <1>5, <2>1 DEF LogType, Phases
  <2>3. Spoken'
        BY <1>4, <1>5, <1>6, <1>9, <2>1, VoiceNames
  <2>4. TestRan(Case, log') /\ InitRan(Case, log')
        BY <1>4, <1>5, <1>6, <1>10, <2>2, VerdictKinds DEF TestRan, InitRan
  <2>5. verdict'.status # "FAIL"
        BY <1>10, <2>1 DEF Broken
  <2>6. QED
        BY <1>2, <1>3, <1>8, <2>1, <2>2, <2>3, <2>4, <2>5 DEF CaseInv, FailTells, Phases
<1>11. CASE ret.status \notin Broken
  <2>1. PICK same \in BOOLEAN, orderOnly \in BOOLEAN :
          LET cmp == ClassifyCompare(same, orderOnly, lst[ci] # "absent") IN
          /\ verdict' = ApplyStatus(verdict, cmp) /\ blame' = "test"
          /\ log' = [log EXCEPT !["test"] = ret, !["compare"] = cmp]
        BY <1>1, <1>11, EndPhaseCases
  <2> DEFINE there == lst[ci] # "absent"
             cmp == ClassifyCompare(same, orderOnly, there)
  <2>0. there \in BOOLEAN
        OBVIOUS
  <2> HIDE DEF there
  <2>2. /\ cmp \in Verdicts /\ (cmp = Pass \/ cmp.status \in {"ORDER", "FAIL"})
        /\ cmp.status = "FAIL" =>
              cmp.reason = IF there THEN "content_mismatch" ELSE "missing_lst"
        BY <1>1, <1>2, <2>0, VerdictTypes
  <2>3. /\ log' = [log EXCEPT !["test"] = ret, !["compare"] = cmp]
        /\ verdict' = cmp /\ blame' = "test"
        BY <1>7, <2>1, <2>2 DEF there
  <2> HIDE DEF cmp
  <2>4. ret = Pass /\ cmp # NotRun /\ cmp.status \notin Broken
        BY <1>6, <1>11, <2>2, VerdictKinds DEF Broken
  <2>5. /\ log'["test"] = Pass /\ log'["compare"] = cmp
        /\ log'["init"] = log["init"] /\ log'["destroy"] = NotRun
        BY <1>4, <1>5, <2>3, <2>4 DEF LogType, Phases
  <2>6. Spoken'
    <3> DEFINE l == [log EXCEPT !["test"] = Pass]
    <3>1. /\ l \in LogType /\ l["test"] = Pass /\ l["init"] = log["init"]
          /\ l["compare"] = NotRun /\ l["destroy"] = NotRun
          BY <1>4, <1>5, VerdictKinds DEF LogType, Phases
    <3>2. log' = [l EXCEPT ![Voices[3]] = cmp]
          BY <1>5, <2>3, <2>4, VoiceNames DEF LogType, Phases
    <3> HIDE DEF l
    <3>3. /\ 3 \in {2, 3} /\ 3 # 2 /\ l["init"] \in {NotRun, Pass}
          /\ l["test"] \in {NotRun, Pass}
          BY <1>5, <3>1
    <3>4. QED
          BY <1>9, <2>2, <2>3, <2>4, <3>1, <3>2, <3>3
  <2>7. TestRan(Case, log') /\ InitRan(Case, log')
        BY <1>4, <1>5, <2>4, <2>5, VerdictKinds DEF TestRan, InitRan
  <2>8. FailTells(verdict.status, verdict.reason, ci)'
    <3>1. ci \in fresh'
          BY <1>1, <1>2, <1>11, UnbrokenPhase, EndPhaseCases
    <3>2. ci \in DOMAIN lst
          BY <1>1, <1>2, PlansType DEF Located, InCase, Phases, RunnerTypeOK
    <3>3. lst[ci] \in {"absent", "found"}
          BY <1>1, <1>2, <3>2 DEF FilesInv, InLoop, InCase, Phases
    <3>4. QED
          BY <1>2, <2>2, <2>3, <3>1, <3>3 DEF FailTells, there
  <2>9. QED
        BY <1>2, <1>3, <1>8, <2>3, <2>5, <2>6, <2>7, <2>8 DEF CaseInv, Phases
<1>12. QED
      BY <1>10, <1>11

LEMMA EndDestroy ==
  ASSUME RunInv, EndPhase("destroy")
  PROVE  CaseInv'
<1>1. RunnerTypeOK /\ CallTells /\ CaseInv /\ Located /\ "destroy" \in Phases
      BY DEF RunInv, Phases
<1>2. /\ UNCHANGED <<opts, suite, ci, results, lst>> /\ pc = "destroy"
      /\ step = "returned" /\ pc' = "endCase" /\ fresh \subseteq fresh'
      BY <1>1, EndPhaseCases DEF After
<1>3. Case' = Case
      BY <1>2 DEF Case, Plans
<1>4. /\ log["destroy"] = NotRun /\ InitRan(Case, log) /\ TestRan(Case, log)
      /\ Spoken /\ blame # "none" /\ FailTells(verdict.status, verdict.reason, ci)
      /\ LogOK(log) /\ log \in LogType
      /\ Case.destroy # NoScript /\ verdict.status # "FATAL"
      BY <1>1, <1>2 DEF CaseInv, Located, Wanted, LogOK
<1>5. /\ ret # NotRun /\ ret \in Verdicts
      /\ ret.status \notin Broken => ret = Pass
      BY <1>1, <1>2, VerdictTypes DEF CallTells
<1>6. PICK i \in 1..4 : Speaks(log, i, verdict.status, blame)
                        /\ verdict.reason = log[Voices[i]].reason
      BY <1>4 DEF Spoken
<1>7. /\ IsWorst(log, i) /\ verdict.status = log[Voices[i]].status
      /\ log[Voices[i]] # NotRun
      BY <1>6 DEF Speaks, IsWorst
<1>8. log' = [log EXCEPT !["destroy"] = ret]
      BY <1>1, EndPhaseCases
<1>9. /\ log'["destroy"] = ret /\ log'["init"] = log["init"]
      /\ log'["test"] = log["test"] /\ log'["compare"] = log["compare"]
      BY <1>4, <1>8 DEF LogType, Phases
<1>10. LogOK(log')
      BY <1>1, EndPhaseLog
<1>11. InitRan(Case, log') /\ TestRan(Case, log')
      BY <1>4, <1>9 DEF InitRan, TestRan
<1>12. \A j \in 1..4 : log[Voices[j]] # NotRun => log[Voices[j]].status # "FATAL"
  <2>1. Priority(verdict.status) # 0
        BY <1>4, Priorities
  <2>2. \A j \in 1..4 : log[Voices[j]] # NotRun =>
                           Priority(verdict.status) <= Priority(log[Voices[j]].status)
        BY <1>7 DEF IsWorst
  <2>3. QED
        BY <2>1, <2>2, Priorities
<1>13. DestroyRan(Case, log')
  <2>1. log["init"].status # "FATAL" /\ log["test"].status # "FATAL"
        BY <1>12, VoiceNames, VerdictKinds
  <2>2. QED
        BY <1>4, <1>5, <1>9, <2>1 DEF DestroyRan
<1>14. Spoken' /\ blame' # "none" /\ FailTells(verdict.status, verdict.reason, ci)'
  <2>1. CASE ret.status \in Broken
    <3>1. \A j \in 1..4 : log[Voices[j]] # NotRun =>
                             Priority(ret.status) <= Priority(log[Voices[j]].status)
          BY <1>12, <2>1, Priorities
    <3>2. verdict' = ret /\ blame' = "destroy"
      <4>1. Priority(ret.status) <= Priority(verdict.status)
            BY <1>7, <3>1
      <4>2. QED
            BY <1>1, <2>1, <4>1, EndPhaseCases DEF ApplyStatus
    <3>3. \A j \in 1..4 : j >= 4 => log[Voices[j]] = NotRun
          BY <1>4, VoiceNames
    <3>4. log' = [log EXCEPT ![Voices[4]] = ret] /\ 4 \in 1..4
          BY <1>8, VoiceNames
    <3>5. IsWorst(log', 4) /\ log'[Voices[4]] = ret
          BY ONLY <1>4, <1>5, <3>1, <3>3, <3>4, NewVoice
    <3>6. Speaks(log', 4, ret.status, "destroy")
          BY <3>5, VoiceNames DEF Speaks
    <3>7. ret.status # "FAIL"
          BY <2>1 DEF Broken
    <3>8. QED
          BY <3>2, <3>5, <3>6, <3>7 DEF Spoken, FailTells
  <2>2. CASE ret.status \notin Broken
    <3>1. ret = Pass /\ verdict' = verdict /\ blame' = blame
          BY <1>1, <1>5, <2>2, EndPhaseCases
    <3>2. blame' # "none" /\ FailTells(verdict.status, verdict.reason, ci)'
          BY <1>2, <1>4, <3>1 DEF FailTells
    <3>3. log' = [log EXCEPT ![Voices[4]] = ret] /\ log \in LogType /\ ret \in Verdicts
          BY <1>4, <1>5, <1>8, VoiceNames
    <3>4. CASE Priority(verdict.status) < 4
      <4>1. Priority(log[Voices[i]].status) < Priority(ret.status)
            BY <1>7, <3>1, <3>4, VerdictKinds, Priorities
      <4>2. IsWorst(log', i) /\ log'[Voices[i]] = log[Voices[i]]
        <5>1. \A j \in 1..4 : log'[Voices[j]] = IF j = 4 THEN ret ELSE log[Voices[j]]
              BY <1>9, VoiceNames
        <5>2. i # 4
              BY <1>4, <1>7, VoiceNames
        <5>3. QED
              BY <1>7, <4>1, <5>1, <5>2, Priorities DEF IsWorst
      <4>3. Speaks(log', i, verdict.status, blame)
            BY <1>6, <4>2 DEF Speaks
      <4>4. QED
            BY <1>6, <3>1, <3>2, <4>2, <4>3 DEF Spoken
    <3>5. CASE Priority(verdict.status) = 4
      <4>1. \A j \in 1..4 : log[Voices[j]] # NotRun =>
                               Priority(ret.status) <= Priority(log[Voices[j]].status)
            BY <1>7, <3>1, <3>5, VerdictKinds, Priorities DEF IsWorst
      <4>2. \A j \in 1..4 : j >= 4 => log[Voices[j]] = NotRun
            BY <1>4, VoiceNames
      <4>3. IsWorst(log', 4) /\ log'[Voices[4]] = ret
        <5>1. 4 \in 1..4
              OBVIOUS
        <5>2. QED
              BY ONLY <3>3, <4>1, <4>2, <5>1, NewVoice
      <4>4. log[Voices[i]] = Pass
        <5>1. Priority(log[Voices[i]].status) = 4 /\ log[Voices[i]] # NotRun
              BY <1>7, <3>5
        <5>2. Priority("ORDER") # 4 /\ Priority("FAIL") # 4
              BY DEF Priority
        <5>3. QED
              BY <1>4, <5>1, <5>2, VoiceNames, Priorities DEF LogOK, Phases
      <4>5. Speaks(log', 4, verdict.status, blame) /\ verdict.reason = log'[Voices[4]].reason
            BY <1>6, <1>7, <3>1, <4>3, <4>4, VerdictKinds DEF Speaks
      <4>6. QED
            BY <3>1, <3>2, <4>5 DEF Spoken
    <3>6. QED
          BY <3>4, <3>5, Priorities
  <2>3. QED
        BY <2>1, <2>2
<1>15. QED
      BY <1>2, <1>3, <1>10, <1>11, <1>13, <1>14 DEF CaseInv, Phases

LEMMA EndPhaseInv ==
  ASSUME RunInv, NEW phase \in Phases, EndPhase(phase)
  PROVE  RunInv'
<1>1. /\ UNCHANGED <<opts, suite, cmds, ci, results, stop, tries, todo, lst, saved, exit>>
      /\ pc = phase /\ pc' = After(phase) /\ step' = "idle"
      /\ Forget /\ UNCHANGED serverVars
      /\ fresh \subseteq fresh' /\ fresh' \subseteq fresh \cup {ci}
      BY EndPhaseCases
<1>2. /\ RunnerTypeOK /\ PhaseInv /\ CallTells /\ Located
      /\ ResultsInv /\ StopInv /\ FilesInv
      BY DEF RunInv
<1>3. /\ NumDone' = NumDone /\ Plans' = Plans /\ Selected' = Selected
      BY <1>1, DataKept
<1>4. PhaseInv' /\ CallTells'
      BY <1>1, <1>2, ForgetKeepsCall
<1>5. /\ phase \in {"init", "test", "destroy"} /\ After("init") = "test"
      /\ After("test") = "destroy" /\ After("destroy") = "endCase"
      BY DEF Phases, After
<1>6. ci \in 1..Len(Plans) /\ ci \in DOMAIN Plans
      BY <1>1, <1>2, PlansType DEF Located, InCase
<1>7. LogOK(log') /\ verdict' \in Verdicts /\ blame' \in Phases \cup {"none"}
      BY EndPhaseLog
<1>8. RunnerTypeOK'
      BY <1>1, <1>2, <1>3, <1>4, <1>5, <1>6, <1>7
         DEF RunnerTypeOK, PhaseInv, MainStates, Phases, LogOK
<1>9. Located'
      BY <1>1, <1>2, <1>3, <1>5, <1>6 DEF Located, InCase, Recovering, Phases
<1>10. CaseInv'
      BY <1>5, EndInit, EndTest, EndDestroy
<1>11. ResultsInv' /\ StopInv'
      BY <1>1, <1>2, <1>5, ResultsKept DEF InLoop, InCase, Phases
<1>12. FilesInv'
      BY <1>1, <1>2, <1>3, <1>5 DEF FilesInv, InLoop, InCase, Phases, Saving
<1>13. QED
      BY <1>4, <1>8, <1>9, <1>10, <1>11, <1>12 DEF RunInv

(***************************************************************************)
(* The end of a case.                                                      *)
(***************************************************************************)
\* What the log of a finished case says goes into its result.
LEMMA AddedResult ==
  ASSUME RunInv, AddResult, UNCHANGED <<opts, suite>>
  PROVE  /\ UNCHANGED <<cmds, verdict, blame, log, fresh, todo, lst, saved, exit>>
         /\ PhaseInv' /\ CallTells'
         /\ ci \in 1..Len(Plans) /\ Plans' = Plans /\ pc = "endCase" /\ step' = step
         /\ NumDone = ci - 1 /\ NumDone' = ci /\ Len(results') = ci
         /\ results' \in Seq(ResultType)
         /\ results'[ci] = CaseResult /\ CaseResult.reason # GaveUp
         /\ \A i \in 1..(ci - 1) : results'[i] = results[i]
         /\ ResultsAre(NumDone)'
<1>1. /\ UNCHANGED <<cmds, verdict, blame, log, fresh, todo, lst, saved, exit, step>>
      /\ UNCHANGED <<opts, suite>> /\ UNCHANGED vars
      /\ pc = "endCase" /\ results' = Append(results, CaseResult)
      BY DEF AddResult, caseVars, fileVars, vars, phaseVars
<1>2. RunnerTypeOK /\ PhaseInv /\ CallTells /\ Located /\ CaseInv /\ ResultsInv
      BY DEF RunInv
<1>3. PhaseInv' /\ CallTells'
      BY <1>1, <1>2, NothingKeepsCall
<1>4. ci \in 1..Len(Plans) /\ Plans' = Plans
      BY <1>1, <1>2 DEF Located, InCase, Plans
<1>5. /\ LogOK(log) /\ InitRan(Case, log) /\ TestRan(Case, log) /\ DestroyRan(Case, log)
      /\ Spoken /\ blame # "none" /\ FailTells(verdict.status, verdict.reason, ci)
      BY <1>1, <1>2 DEF CaseInv
<1>6. /\ NumDone = ci - 1 /\ Len(results) = ci - 1 /\ ResultsAre(ci - 1)
      BY <1>1, <1>2 DEF ResultsInv, InLoop, InCase
<1>7. CaseResult \in ResultType
  <2>1. Case.index \in Nat \ {0}
        BY <1>2, <1>4, PlansType DEF Case, PlanType
  <2>2. verdict \in Verdicts /\ blame \in Phases \cup {"none"} /\ log \in LogType
        BY <1>2 DEF RunnerTypeOK
  <2>3. QED
        BY <2>1, <2>2 DEF CaseResult, ResultType, Verdicts
<1>8. results \in Seq(ResultType)
      BY <1>2 DEF RunnerTypeOK
<1>9. /\ results' \in Seq(ResultType) /\ Len(results') = ci
      /\ results'[ci] = CaseResult /\ DOMAIN results' = 1..ci
      /\ \A i \in 1..(ci - 1) : results'[i] = results[i]
      BY <1>1, <1>4, <1>6, <1>7, <1>8, AppendProperties, LenProperties
<1>10. verdict.reason # GaveUp
  <2>1. \A j \in 1..4 : log[Voices[j]].reason # GaveUp
        BY <1>5, VoiceNames DEF LogOK, Phases
  <2>2. QED
        BY <1>5, <2>1 DEF Spoken
<1>11. \A i \in 1..(ci - 1) : CaseTold(i)'
  <2>1. \A i \in 1..(ci - 1) : CaseTold(i)
        BY <1>4, <1>6 DEF ResultsAre
  <2>2. QED
        BY <1>1, <1>4, <1>9, <2>1 DEF CaseTold, FailTells
<1>12. results'[ci].blame # "none"
      BY <1>5, <1>9 DEF CaseResult
<1>13. ASSUME NEW i, i = ci
       PROVE  CaseTold(i)'
  <2>1. /\ results'[i].index = Case.index /\ results'[i].status = verdict.status
        /\ results'[i].reason = verdict.reason /\ results'[i].blame = blame
        /\ results'[i].log = log /\ Case = Plans'[i]
        BY <1>4, <1>9, <1>13 DEF CaseResult, Case
  <2>2. FailTells(results[i].status, results[i].reason, i)'
        BY <1>1, <1>5, <1>13, <2>1 DEF FailTells
  <2>3. QED
        BY <1>5, <2>1, <2>2 DEF CaseTold, Spoken
<1>14. NumDone' = ci
  <2>1. \A i \in 1..(ci - 1) : results'[i].blame # "none"
        BY <1>11 DEF CaseTold
  <2>2. \A i \in 1..ci : results'[i].blame # "none"
        BY <1>4, <1>12, <2>1, PlansType
  <2>3. \A i \in (ci + 1)..ci : results'[i].blame = "none"
        BY <1>4, <1>2, PlansType
  <2>4. ci \in Nat /\ ci <= ci
        BY <1>2, <1>4, PlansType
  <2>5. QED
        BY <1>9, <2>2, <2>3, <2>4, CountOf DEF NumDone
<1>15. ResultsAre(NumDone)'
  <2>1. \A i \in 1..ci : CaseTold(i)'
        BY <1>2, <1>4, <1>11, <1>13, PlansType
  <2>2. \A i \in (ci + 1)..ci : FALSE
        BY <1>2, <1>4, PlansType
  <2>3. ci \in 0..Len(Plans') /\ ci <= Len(results')
        BY <1>2, <1>4, <1>9, PlansType
  <2>4. QED
        BY <1>9, <1>14, <2>1, <2>2, <2>3 DEF ResultsAre
<1>16. CaseResult.reason # GaveUp
      BY <1>10 DEF CaseResult
<1>17. QED
      BY <1>1, <1>3, <1>4, <1>6, <1>9, <1>14, <1>15, <1>16

\* What Stop puts down.
LEMMA StopTells ==
  ASSUME stop \in StopType, Case.index \in Nat, NEW c \in 0..3
  PROVE  /\ Stop(c, "byError") =>
               /\ stop' \in StopType /\ stop'.code = c /\ stop'.at = Case.index
               /\ stop'.byError /\ (stop'.byFatal <=> stop.byFatal)
         /\ Stop(c, "byFatal") =>
               /\ stop' \in StopType /\ stop'.code = c /\ stop'.at = Case.index
               /\ (stop'.byError <=> stop.byError) /\ stop'.byFatal
  BY DEF Stop, StopType

\* The loop goes on, is left, or turns to a recovery.
LEMMA EndCaseInv ==
  ASSUME RunInv, EndCase \/ StopOnError \/ StopOnFatal \/ BeginRecovery
  PROVE  RunInv'
<1>1. AddResult /\ UNCHANGED <<opts, suite>>
      BY DEF EndCase, StopOnError, StopOnFatal, BeginRecovery, Continue, Goto, inputVars
<1>2. /\ RunnerTypeOK /\ Located /\ ResultsInv /\ StopInv /\ FilesInv
      BY DEF RunInv
<1>3. /\ UNCHANGED <<cmds, verdict, blame, log, fresh, todo, lst, saved, exit>>
      /\ PhaseInv' /\ CallTells'
      /\ ci \in 1..Len(Plans) /\ Plans' = Plans /\ pc = "endCase" /\ step' = step
      /\ NumDone = ci - 1 /\ NumDone' = ci /\ Len(results') = ci
      /\ results' \in Seq(ResultType)
      /\ results'[ci] = CaseResult /\ CaseResult.reason # GaveUp
      /\ \A i \in 1..(ci - 1) : results'[i] = results[i]
      /\ ResultsAre(NumDone)'
      BY <1>1, AddedResult
<1>4. /\ ci \in Nat /\ Len(Plans) \in Nat /\ Case.index \in Nat
      /\ opts.fatalRecoverMax \in Nat \ {0}
  <2>1. opts \in OptionType
        BY <1>2, OptionsAssumption DEF RunnerTypeOK
  <2>2. QED
        BY <1>2, <1>3, <2>1, PlansType DEF OptionType, Case, PlanType
<1>5. stop \in StopType /\ stop.code = 0 /\ ~stop.byError
      BY <1>2, <1>3 DEF RunnerTypeOK, StopType, StopInv, InLoop, InCase
<1>6. /\ stop' \in StopType
      /\ \/ pc' = "next" /\ ci' = ci + 1 /\ tries' = tries /\ stop'.code = 0
         \/ pc' = "report" /\ ci' = ci /\ tries' = tries /\ stop'.code \in {1, 2}
         \/ pc' = "recoverClean" /\ ci' = ci /\ tries' = 1 /\ stop'.code = 0
      /\ pc' # "next" => stop'.at = Case.index
      /\ pc' = "recoverClean" => verdict.status = "FATAL"
      /\ stop'.byFatal <=> (stop.byFatal \/ verdict.status = "FATAL")
      /\ stop'.byError <=> (stop'.code = 1)
      /\ stop'.code # 0 => verdict.status = (IF stop'.byError THEN "ERROR" ELSE "FATAL")
  <2>1. stop.byFatal \in BOOLEAN
        BY <1>5 DEF StopType
  <2>2. CASE EndCase
        BY <1>5, <2>1, <2>2 DEF EndCase, Continue, Goto
  <2>3. CASE StopOnError
    <3>1. /\ verdict.status = "ERROR" /\ Stop(1, "byError") /\ pc' = "report"
          /\ ci' = ci /\ tries' = tries
          BY <2>3 DEF StopOnError, Goto
    <3>2. 1 \in 0..3
          OBVIOUS
    <3>3. /\ stop' \in StopType /\ stop'.code = 1 /\ stop'.at = Case.index
          /\ stop'.byError /\ (stop'.byFatal <=> stop.byFatal)
          BY ONLY <1>4, <1>5, <3>1, <3>2, StopTells
    <3>4. QED
          BY <2>1, <3>1, <3>3
  <2>4. ASSUME NEW c \in {0, 2}, verdict.status = "FATAL", Stop(c, "byFatal")
        PROVE  /\ stop' \in StopType /\ stop'.code = c /\ stop'.at = Case.index
               /\ ~stop'.byError /\ stop'.byFatal
    <3>1. c \in 0..3
          BY <2>4
    <3>2. QED
          BY ONLY <1>4, <1>5, <2>4, <3>1, StopTells
  <2>5. CASE StopOnFatal
    <3>1. /\ verdict.status = "FATAL" /\ Stop(2, "byFatal") /\ pc' = "report"
          /\ ci' = ci /\ tries' = tries
          BY <2>5 DEF StopOnFatal, Goto
    <3>2. QED
          BY <2>4, <3>1
  <2>6. CASE BeginRecovery
    <3>1. /\ verdict.status = "FATAL" /\ Stop(0, "byFatal") /\ pc' = "recoverClean"
          /\ ci' = ci /\ tries' = 1
          BY <1>5, <2>6 DEF BeginRecovery, Goto
    <3>2. QED
          BY <2>4, <3>1
  <2>7. QED
        BY <2>2, <2>3, <2>5, <2>6
<1>7. todo = {} /\ saved = {} /\ step = "idle" /\ exit = -1
      BY <1>2, <1>3 DEF FilesInv, Saving, Located, Phases
<1>8. RunnerTypeOK'
  <2>1. ci' \in 1..(Len(Plans) + 1) /\ tries' \in 0..opts.fatalRecoverMax
        BY <1>2, <1>3, <1>4, <1>6 DEF RunnerTypeOK
  <2>2. pc' \in MainStates
        BY <1>6 DEF MainStates
  <2>3. QED
        BY <1>1, <1>2, <1>3, <1>6, <1>7, <2>1, <2>2 DEF RunnerTypeOK, PhaseInv, StopType
<1>9. Located'
      BY <1>3, <1>6, <1>7 DEF Located, InCase, Recovering, Phases
<1>10. CaseInv'
      BY <1>6 DEF CaseInv, Phases
<1>11. ResultsInv'
      BY <1>3, <1>4, <1>6, <1>7
         DEF ResultsInv, InLoop, InCase, Phases, Recovering, Reported
<1>12. StopInv'
  <2>1. /\ stop.byFatal <=> \E i \in 1..(ci - 1) : results'[i].status = "FATAL"
        /\ \A i \in 1..(ci - 1) : results'[i].reason # GaveUp
        BY <1>2, <1>3, <1>5 DEF StopInv, InLoop, InCase
  <2>2. /\ LastResult' = results'[ci] /\ results'[ci].status = verdict.status
        /\ results'[ci].index = Case.index /\ results'[ci].reason # GaveUp
        BY <1>3 DEF LastResult, CaseResult
  <2>3. \A i \in 1..ci : results'[i].reason # GaveUp
        BY <1>4, <2>1, <2>2
  <2>4. stop'.byFatal <=> \E i \in 1..ci : results'[i].status = "FATAL"
        BY <1>3, <1>4, <1>6, <2>1, <2>2
  <2>5. pc' \in {"next", "report", "recoverClean"}
        BY <1>6
  <2> HIDE DEF LastResult
  <2>6. QED
        BY <1>3, <1>6, <2>2, <2>3, <2>4, <2>5
           DEF StopInv, InLoop, InCase, Phases, Recovering, Reported
<1>13. FilesInv'
  <2>1. \A i \in DOMAIN lst : lst[i] \in {"absent", "found"}
        BY <1>2, <1>3 DEF FilesInv, InLoop, InCase
  <2>2. QED
        BY <1>3, <1>6, <1>7, <2>1 DEF FilesInv
<1>14. QED
      BY <1>3, <1>8, <1>9, <1>10, <1>11, <1>12, <1>13 DEF RunInv

(***************************************************************************)
(* The recovery from a lost server.                                        *)
(***************************************************************************)
LEMMA RecoveryCases ==
  ASSUME RunInv, RecoverClean \/ RecoverStart
  PROVE  /\ UNCHANGED <<opts, suite, cmds, verdict, blame, log, fresh, todo, lst,
                        saved, exit, step>>
         /\ PhaseInv' /\ CallTells' /\ pc \in Recovering
         /\ \/ /\ pc' \in Recovering /\ tries' \in 0..opts.fatalRecoverMax
               /\ UNCHANGED <<ci, results, stop>>
            \/ /\ pc' = "next" /\ ci' = ci + 1 /\ UNCHANGED <<results, stop, tries>>
            \/ /\ pc' = "report" /\ tries = opts.fatalRecoverMax
               /\ results' = [results EXCEPT ![Len(results)].reason = GaveUp]
               /\ stop' = [stop EXCEPT !.code = 3]
               /\ UNCHANGED <<ci, tries>>
<1>1. RunnerTypeOK /\ PhaseInv /\ CallTells
      BY DEF RunInv
<1>2. PICK c \in Commands : RecoveryStep(c) /\ pc \in Recovering
      BY DEF RecoverClean, RecoverStart, Recovering, Commands
<1>3. /\ UNCHANGED <<cmds, verdict, blame, log, fresh, todo, lst, saved, exit, step>>
      /\ UNCHANGED <<crashes, phaseVars>>
      BY <1>2 DEF RecoveryStep, caseVars, fileVars, phaseVars
<1>4. PICK r \in Outcomes :
        /\ server' \in Effect(c, r.kind)
        /\ IF r.kind # "ok" THEN AttemptFailed /\ UNCHANGED ci
           ELSE /\ IF c = "clean" THEN Goto("recoverStart") /\ UNCHANGED ci
                   ELSE Continue
                /\ UNCHANGED <<results, stop, tries>>
      BY <1>2 DEF RecoveryStep
<1>5. PhaseInv' /\ CallTells'
      BY <1>1, <1>3, <1>4, CommandKeepsCall
<1>6. tries \in 0..opts.fatalRecoverMax /\ opts.fatalRecoverMax \in Nat
      BY <1>1, OptionsAssumption DEF RunnerTypeOK, OptionType
<1>7. CASE AttemptFailed /\ UNCHANGED ci
  <2>1. CASE tries < opts.fatalRecoverMax
    <3>1. /\ tries' = tries + 1 /\ pc' = "recoverClean"
          /\ UNCHANGED <<opts, suite, results, stop, ci>>
          BY <1>7, <2>1, Zenon DEF AttemptFailed, FailAttempt, Goto, inputVars
    <3>2. tries' \in 0..opts.fatalRecoverMax
          BY <1>6, <2>1, <3>1
    <3>3. pc' \in Recovering
          BY <3>1 DEF Recovering
    <3>4. QED
          BY <1>2, <1>3, <1>5, <3>1, <3>2, <3>3, Zenon
  <2>2. CASE ~(tries < opts.fatalRecoverMax)
    <3>1. /\ results' = [results EXCEPT ![Len(results)].reason = GaveUp]
          /\ stop' = [stop EXCEPT !.code = 3] /\ pc' = "report"
          /\ UNCHANGED <<opts, suite, tries, ci>>
          BY <1>7, <2>2, Zenon DEF AttemptFailed, FailAttempt, Goto, GaveUp, inputVars
    <3>2. tries = opts.fatalRecoverMax
          BY <1>6, <2>2
    <3>3. QED
          BY <1>2, <1>3, <1>5, <3>1, <3>2, Zenon
  <2>3. QED
        BY <2>1, <2>2
<1>8. CASE Goto("recoverStart") /\ UNCHANGED <<ci, results, stop, tries>>
      BY <1>2, <1>3, <1>5, <1>6, <1>8 DEF Goto, Recovering, inputVars
<1>9. CASE Continue /\ UNCHANGED <<results, stop, tries>>
      BY <1>2, <1>3, <1>5, <1>9 DEF Continue, Goto, inputVars
<1>10. QED
      BY <1>4, <1>7, <1>8, <1>9

\* The reason of the last result is overwritten: its log still tells the rest.
LEMMA MarkedGaveUp ==
  ASSUME RunInv, pc \in Recovering, UNCHANGED <<opts, suite, ci, fresh, lst>>,
         results' = [results EXCEPT ![Len(results)].reason = GaveUp]
  PROVE  /\ results' \in Seq(ResultType) /\ DOMAIN results' = DOMAIN results
         /\ Len(results') = Len(results) /\ NumDone' = NumDone /\ ResultsAre(NumDone)'
         /\ \A i \in DOMAIN results : /\ results'[i].status = results[i].status
                                      /\ results'[i].index = results[i].index
         /\ results'[ci].reason = GaveUp
         /\ \A i \in 1..(ci - 1) : results'[i] = results[i]
<1>1. RunnerTypeOK /\ ResultsInv /\ Located
      BY DEF RunInv
<1>2. /\ NumDone = ci /\ Len(results) = ci /\ ResultsAre(ci) /\ ci \in 1..Len(Plans)
      /\ Plans' = Plans /\ Len(Plans) \in Nat
      BY <1>1, PlansType DEF ResultsInv, Located, Recovering, Plans
<1>3. /\ results \in Seq(ResultType) /\ DOMAIN results = 1..ci
      /\ \A i \in 1..ci : results[i] \in ResultType
      BY <1>1, <1>2, LenProperties, ElementOfSeq DEF RunnerTypeOK
<1>4. \A i \in 1..ci : results'[i] = IF i = ci THEN [results[i] EXCEPT !.reason = GaveUp]
                                     ELSE results[i]
      BY <1>2, <1>3
<1>5. DOMAIN results' = 1..ci
      BY <1>3
<1>6. GaveUp \in Reasons
      BY DEF GaveUp, Reasons
<1> DEFINE told == [results[ci] EXCEPT !.reason = GaveUp]
<1>7. /\ told \in ResultType /\ told.reason = GaveUp
      /\ told.status = results[ci].status /\ told.index = results[ci].index
      /\ told.blame = results[ci].blame /\ told.log = results[ci].log
      BY <1>2, <1>3, <1>6 DEF ResultType
<1> HIDE DEF told
<1>8. results'[ci] = told /\ \A i \in 1..(ci - 1) : results'[i] = results[i]
      BY <1>2, <1>4 DEF told
<1>9. \A i \in 1..ci : results'[i] \in ResultType
      BY <1>2, <1>3, <1>7, <1>8
<1>10. results' \in Seq(ResultType) /\ Len(results') = ci
  <2>1. results' = [i \in 1..ci |-> results'[i]]
    <3>1. results' = [i \in DOMAIN results' |-> results'[i]]
          BY <1>3
    <3>2. QED
          BY <1>5, <3>1
  <2>2. results' \in [1..ci -> ResultType]
        BY <1>9, <2>1
  <2>3. ci \in Nat
        BY <1>2
  <2>4. results' \in Seq(ResultType)
        BY <2>2, <2>3, SeqDef
  <2>5. Len(results') \in Nat /\ DOMAIN results' = 1..Len(results')
        BY <2>4, LenProperties
  <2>6. QED
        BY <1>5, <2>3, <2>4, <2>5
<1>11. \A i \in 1..ci : /\ results'[i].status = results[i].status
                        /\ results'[i].index = results[i].index
                        /\ results'[i].blame = results[i].blame
                        /\ results'[i].log = results[i].log
                        /\ results'[i].reason \in {results[i].reason, GaveUp}
      BY <1>2, <1>7, <1>8
<1>12. NumDone' = NumDone
      BY <1>3, <1>5, <1>11 DEF NumDone
<1>13. \A i \in 1..ci : CaseTold(i)'
  <2>1. TAKE i \in 1..ci
  <2>2. CaseTold(i)
        BY <1>2 DEF ResultsAre
  <2>3. FailTells(results[i].status, results[i].reason, i)'
    <3>1. CASE i = ci
      <4>1. results[ci].status = "FATAL"
            BY <1>2 DEF RunInv, StopInv, LastResult
      <4>2. QED
            BY <1>11, <3>1, <4>1 DEF FailTells
    <3>2. CASE i # ci
      <4>1. results'[i] = results[i]
            BY <1>2, <1>8, <3>2
      <4>2. QED
            BY <2>2, <4>1 DEF CaseTold, FailTells
    <3>3. QED
          BY <3>1, <3>2
  <2>4. QED
        BY <1>2, <1>11, <2>2, <2>3 DEF CaseTold
<1>14. ResultsAre(NumDone)'
      BY <1>2, <1>10, <1>12, <1>13 DEF ResultsAre
<1>15. QED
      BY <1>2, <1>3, <1>5, <1>7, <1>8, <1>10, <1>11, <1>12, <1>14

LEMMA RecoverInv ==
  ASSUME RunInv, RecoverClean \/ RecoverStart
  PROVE  RunInv'
<1>1. /\ UNCHANGED <<opts, suite, cmds, verdict, blame, log, fresh, todo, lst, saved,
                     exit, step>>
      /\ PhaseInv' /\ CallTells' /\ pc \in Recovering
      BY RecoveryCases
<1>2. /\ RunnerTypeOK /\ Located /\ ResultsInv /\ StopInv /\ FilesInv
      BY DEF RunInv
<1>3. /\ todo = {} /\ saved = {} /\ step = "idle" /\ exit = -1
      /\ stop.code = 0 /\ ~stop.byError /\ NumDone = ci /\ Len(results) = ci
      /\ stop.at = LastResult.index /\ LastResult.status = "FATAL"
      /\ ci \in 1..Len(Plans) /\ Len(Plans) \in Nat /\ Plans' = Plans
      /\ \A i \in DOMAIN lst : lst[i] \in {"absent", "found"}
      BY <1>1, <1>2, PlansType
         DEF FilesInv, Saving, Located, Phases, Recovering, StopInv, ResultsInv, Plans
<1>4. CaseInv'
  <2>1. pc' \notin Phases \cup {"endCase"}
        BY RecoveryCases DEF Recovering, Phases
  <2>2. QED
        BY <2>1 DEF CaseInv, Phases
<1>5. CASE /\ pc' \in Recovering \cup {"next"} /\ UNCHANGED <<results, stop>>
           /\ tries' \in 0..opts.fatalRecoverMax
           /\ ci' = IF pc' = "next" THEN ci + 1 ELSE ci
  <2>1. /\ NumDone' = NumDone /\ LastResult' = LastResult /\ ResultsAre(NumDone)'
        BY <1>1, <1>2, <1>5, DataKept DEF ResultsInv
  <2>2. RunnerTypeOK'
    <3>1. ci' \in 1..(Len(Plans) + 1) /\ pc' \in MainStates
          BY <1>3, <1>5 DEF MainStates, Recovering
    <3>2. QED
          BY <1>1, <1>2, <1>3, <1>5, <3>1 DEF RunnerTypeOK, PhaseInv
  <2>3. Located'
        BY <1>1, <1>3, <1>5 DEF Located, InCase, Phases, Recovering
  <2>4. ResultsInv'
        BY <1>1, <1>3, <1>5, <2>1
           DEF ResultsInv, InLoop, InCase, Phases, Recovering, Reported
  <2>5. StopInv'
        BY <1>1, <1>2, <1>3, <1>5, <2>1
           DEF StopInv, InLoop, InCase, Phases, Recovering, Reported
  <2>6. FilesInv'
        BY <1>1, <1>3, <1>5 DEF FilesInv, Recovering
  <2>7. QED
        BY <1>1, <1>4, <2>2, <2>3, <2>4, <2>5, <2>6 DEF RunInv
<1>6. CASE /\ pc' = "report" /\ tries = opts.fatalRecoverMax
           /\ results' = [results EXCEPT ![Len(results)].reason = GaveUp]
           /\ stop' = [stop EXCEPT !.code = 3]
           /\ UNCHANGED <<ci, tries>>
  <2>1. pc' = "report" /\ tries = opts.fatalRecoverMax /\ UNCHANGED <<ci, tries>>
        BY <1>6
  <2>2. /\ results' \in Seq(ResultType) /\ DOMAIN results' = DOMAIN results
        /\ Len(results') = Len(results) /\ NumDone' = NumDone /\ ResultsAre(NumDone)'
        /\ \A i \in DOMAIN results : /\ results'[i].status = results[i].status
                                     /\ results'[i].index = results[i].index
        /\ results'[ci].reason = GaveUp
        /\ \A i \in 1..(ci - 1) : results'[i] = results[i]
        BY <1>1, <1>6, MarkedGaveUp
  <2>3. /\ stop' \in [code : 0..3, byFatal : BOOLEAN, byError : BOOLEAN, at : Nat]
        /\ stop'.code = 3 /\ stop'.at = stop.at
        /\ stop'.byFatal <=> stop.byFatal
        /\ stop'.byError <=> stop.byError
        BY <1>2, <1>6 DEF RunnerTypeOK
  <2>4. RunnerTypeOK'
        BY <1>1, <1>2, <1>3, <2>1, <2>2, <2>3 DEF RunnerTypeOK, PhaseInv, MainStates
  <2>5. Located'
        BY <1>1, <1>3, <2>1 DEF Located, InCase, Phases, Recovering
  <2>6. ResultsInv'
        BY <1>1, <1>3, <2>1, <2>2
           DEF ResultsInv, InLoop, InCase, Phases, Recovering, Reported
  <2>7. StopInv'
    <3>1. DOMAIN results = 1..ci /\ ci \in Nat /\ ci \in 1..ci
          BY <1>2, <1>3, LenProperties DEF RunnerTypeOK
    <3>2. /\ LastResult' = results'[ci] /\ LastResult = results[ci]
          BY <1>3, <2>2 DEF LastResult
    <3>3. \E i \in 1..ci : results'[i].reason = GaveUp
          BY <2>2, <3>1
    <3>4. stop'.byFatal <=> \E i \in 1..ci : results'[i].status = "FATAL"
          BY <1>2, <1>3, <2>2, <2>3, <3>1 DEF StopInv
    <3>5. results'[ci].status = "FATAL" /\ stop'.at = results'[ci].index
          BY <1>3, <2>2, <2>3, <3>1, <3>2
    <3> HIDE DEF LastResult
    <3>6. QED
          BY <1>1, <1>3, <2>1, <2>2, <2>3, <3>2, <3>3, <3>4, <3>5
             DEF StopInv, InLoop, InCase, Phases, Recovering, Reported
  <2>8. FilesInv'
        BY <1>1, <1>3, <2>1 DEF FilesInv
  <2>9. QED
        BY <1>1, <1>4, <2>4, <2>5, <2>6, <2>7, <2>8 DEF RunInv
<1>7. QED
  <2>1. tries \in 0..opts.fatalRecoverMax
        BY <1>2 DEF RunnerTypeOK
  <2>2. "next" \notin Recovering
        BY DEF Recovering
  <2>3. QED
        BY <1>5, <1>6, <2>1, <2>2, RecoveryCases

(***************************************************************************)
(* After the last case.                                                    *)
(***************************************************************************)
LEMMA NoMoreCasesInv ==
  ASSUME RunInv, NoMoreCases
  PROVE  RunInv'
<1>1. /\ UNCHANGED <<opts, suite, cmds, verdict, blame, log, ci, results, stop, tries,
                     fresh, todo, lst, saved, exit, step>>
      /\ UNCHANGED vars
      /\ pc = "next" /\ ci > Len(Plans) /\ pc' = "report"
      BY DEF NoMoreCases, Goto, inputVars, caseVars, loopVars, fileVars, vars, phaseVars
<1>2. RunnerTypeOK /\ PhaseInv /\ CallTells /\ Located /\ ResultsInv /\ StopInv /\ FilesInv
      BY DEF RunInv
<1>3. PhaseInv' /\ CallTells'
      BY <1>1, <1>2, NothingKeepsCall
<1>4. /\ NumDone' = NumDone /\ Plans' = Plans /\ Selected' = Selected
      /\ LastResult' = LastResult /\ ResultsAre(NumDone)'
      BY <1>1, <1>2, DataKept DEF ResultsInv
<1>5. NumDone = Len(Plans) /\ ci = Len(Plans) + 1
  <2>1. ci \in 1..(Len(Plans) + 1) /\ Len(Plans) \in Nat
        BY <1>2, PlansType DEF RunnerTypeOK
  <2>2. NumDone = ci - 1
        BY <1>1, <1>2 DEF ResultsInv, InLoop
  <2>3. QED
        BY <1>1, <2>1, <2>2
<1>6. RunnerTypeOK'
      BY <1>1, <1>2, <1>3, <1>4 DEF RunnerTypeOK, PhaseInv, MainStates
<1>7. Located'
      BY <1>1, <1>2 DEF Located, InCase, Recovering, Phases
<1>8. CaseInv'
      BY <1>1 DEF CaseInv, Phases
<1>9. ResultsInv'
      BY <1>1, <1>2, <1>4 DEF ResultsInv, InLoop, InCase, Phases, Recovering, Reported
<1>10. StopInv'
      BY <1>1, <1>2, <1>4, <1>5 DEF StopInv, InLoop, InCase, Phases, Recovering, Reported
<1>11. FilesInv'
      BY <1>1, <1>2, <1>4 DEF FilesInv, InLoop, Saving
<1>12. QED
      BY <1>3, <1>6, <1>7, <1>8, <1>9, <1>10, <1>11 DEF RunInv

\* The issues are numbered on from the highest case.
LEMMA IssueTypes ==
  ASSUME RunnerTypeOK
  PROVE  /\ NextIndex \in Nat \ {0}
         /\ \A n \in Nat \ {0} : IssueResult(n) \in ResultType
<1>1. NextIndex \in Nat \ {0}
  <2>1. CASE Plans = <<>>
        BY <2>1 DEF NextIndex
  <2>2. CASE Plans # <<>>
    <3>1. Len(Plans) \in 1..Len(Plans)
          BY <2>2, PlansType, EmptySeq
    <3>2. Plans[Len(Plans)].index \in Nat \ {0}
          BY <3>1, PlansType DEF PlanType
    <3>3. QED
          BY <2>2, <3>2 DEF NextIndex
  <2>3. QED
        BY <2>1, <2>2
<1>2. EmptyLog \in LogType
      BY DEF EmptyLog, LogType, NotRun
<1>3. "ERROR" \in Statuses /\ "parse_error" \in Reasons
      BY DEF Statuses, Reasons
<1>4. QED
      BY <1>1, <1>2, <1>3 DEF IssueResult, ResultType

LEMMA IssuesAdded ==
  ASSUME RunInv, ReportIssues
  PROVE  /\ UNCHANGED <<opts, suite, cmds, verdict, blame, log, ci, stop, tries,
                        fresh, todo, lst, saved, exit, step>>
         /\ UNCHANGED vars
         /\ pc = "report" /\ pc' = "accept"
         /\ results' \in Seq(ResultType) /\ Len(results') = NumDone + suite.issues
         /\ \A i \in 1..NumDone : results'[i] = results[i]
         /\ NumDone' = NumDone /\ NumDone \in Nat /\ ResultsAre(NumDone)'
<1> DEFINE issues == [n \in 1..suite.issues |-> IssueResult(n)]
<1>1. /\ UNCHANGED <<opts, suite, cmds, verdict, blame, log, ci, stop, tries,
                     fresh, todo, lst, saved, exit, step>>
      /\ UNCHANGED vars
      /\ pc = "report" /\ pc' = "accept" /\ results' = results \o issues
      BY DEF ReportIssues, Goto, inputVars, caseVars, loopVars, fileVars, vars, phaseVars
<1>2. RunnerTypeOK /\ ResultsInv
      BY DEF RunInv
<1>3. Plans' = Plans /\ \A n : IssueResult(n)' = IssueResult(n)
      BY <1>1 DEF Plans, IssueResult, NextIndex
<1>4. /\ Len(results) = NumDone /\ ResultsAre(NumDone) /\ NumDone \in Nat
      /\ results \in Seq(ResultType) /\ suite.issues \in Nat /\ Len(Plans) \in Nat
      BY <1>1, <1>2, PlansType DEF ResultsInv, ResultsAre, RunnerTypeOK
<1>5. issues \in Seq(ResultType) /\ Len(issues) = suite.issues
  <2>1. issues \in [1..suite.issues -> ResultType]
        BY <1>2, <1>4, IssueTypes
  <2>2. issues \in Seq(ResultType)
        BY <1>4, <2>1, SeqDef
  <2>3. QED
        BY <1>4, <2>1, <2>2, LenProperties
<1> HIDE DEF issues
<1> DEFINE all == NumDone + suite.issues
<1>6. /\ results' \in Seq(ResultType) /\ Len(results') = all
      /\ \A i \in 1..NumDone : results'[i] = results[i]
      /\ \A i \in (NumDone + 1)..all : results'[i] = issues[i - NumDone]
      BY <1>1, <1>4, <1>5, ConcatProperties
<1>7. \A i \in (NumDone + 1)..all : results'[i] = IssueResult(i - NumDone)
  <2>1. \A n \in 1..suite.issues : issues[n] = IssueResult(n)
        BY DEF issues
  <2>2. \A i \in (NumDone + 1)..all : i - NumDone \in 1..suite.issues
        BY <1>4
  <2>3. QED
        BY <1>6, <2>1, <2>2
<1>8. \A i \in 1..NumDone : CaseTold(i)'
      BY <1>1, <1>3, <1>4, <1>6 DEF ResultsAre, CaseTold, FailTells
<1>9. NumDone' = NumDone
  <2>1. DOMAIN results' = 1..all /\ NumDone <= all /\ all \in Nat
        BY <1>4, <1>6, LenProperties
  <2>2. \A i \in 1..NumDone : results'[i].blame # "none"
        BY <1>8 DEF CaseTold
  <2>3. \A i \in (NumDone + 1)..all : results'[i].blame = "none"
    <3>1. \A n : IssueResult(n).blame = "none"
          BY DEF IssueResult
    <3>2. QED
          BY <1>7, <3>1
  <2> DEFINE n == NumDone
  <2>4. n = NumDone
        OBVIOUS
  <2> HIDE DEF n, all
  <2>5. Cardinality({i \in DOMAIN results' : results'[i].blame # "none"}) = n
        BY <1>4, <2>1, <2>2, <2>3, <2>4, CountOf
  <2>6. QED
        BY <2>4, <2>5 DEF NumDone
<1>10. ResultsAre(NumDone)'
      BY <1>3, <1>4, <1>6, <1>7, <1>8, <1>9 DEF ResultsAre
<1>11. QED
      BY <1>1, <1>4, <1>6, <1>9, <1>10

LEMMA ReportIssuesInv ==
  ASSUME RunInv, ReportIssues
  PROVE  RunInv'
<1>1. /\ UNCHANGED <<opts, suite, cmds, verdict, blame, log, ci, stop, tries,
                     fresh, todo, lst, saved, exit, step>>
      /\ UNCHANGED vars
      /\ pc = "report" /\ pc' = "accept"
      /\ results' \in Seq(ResultType) /\ Len(results') = NumDone + suite.issues
      /\ \A i \in 1..NumDone : results'[i] = results[i]
      /\ NumDone' = NumDone /\ NumDone \in Nat /\ ResultsAre(NumDone)'
      BY IssuesAdded
<1>2. RunnerTypeOK /\ PhaseInv /\ CallTells /\ Located /\ ResultsInv /\ StopInv /\ FilesInv
      BY DEF RunInv
<1>3. PhaseInv' /\ CallTells'
      BY <1>1, <1>2, NothingKeepsCall
<1>4. Plans' = Plans
      BY <1>1 DEF Plans
<1>5. RunnerTypeOK'
  <2>1. todo = {}
        BY <1>1, <1>2 DEF FilesInv
  <2>2. results' \in Seq(ResultType)
        BY <1>1
  <2>3. QED
        BY ONLY <1>1, <1>2, <1>3, <1>4, <2>1, <2>2 DEF RunnerTypeOK, PhaseInv, MainStates
<1>6. Located'
      BY <1>1, <1>2 DEF Located, InCase, Recovering, Phases
<1>7. CaseInv'
      BY <1>1 DEF CaseInv, Phases
<1>8. ResultsInv'
      BY <1>1, <1>2
         DEF ResultsInv, InLoop, InCase, Phases, Recovering, Reported
<1>9. StopInv'
  <2>1. stop.code # 0 => LastResult' = LastResult
    <3>1. stop.code # 0 => NumDone \in 1..NumDone
      <4>1. stop.code # 0 => NumDone = ci
            BY <1>2 DEF StopInv
      <4>2. ci \in 1..(Len(Plans) + 1)
            BY <1>2 DEF RunnerTypeOK
      <4>3. QED
            BY <1>1, <4>1, <4>2
    <3>2. QED
          BY <1>1, <3>1 DEF LastResult
  <2> HIDE DEF LastResult
  <2>2. QED
        BY <1>1, <1>2, <1>4, <2>1
           DEF StopInv, InLoop, InCase, Phases, Recovering, Reported
<1>10. FilesInv'
      BY <1>1, <1>2 DEF FilesInv, Saving, Recovering
<1>11. QED
      BY <1>3, <1>5, <1>6, <1>7, <1>8, <1>9, <1>10 DEF RunInv

(***************************************************************************)
(* From the report to the exit.                                            *)
(***************************************************************************)
\* Only the files and the exit code change once the issues are reported.
LEMMA FinishInv ==
  ASSUME RunInv, pc \in Reported \ {"done"}, pc' \in Reported,
         UNCHANGED <<opts, suite, cmds, verdict, blame, log, ci, results, stop, tries,
                     fresh, lst>>,
         UNCHANGED vars,
         IF pc' = "done" THEN exit' \in 0..3 ELSE exit' = exit,
         todo' \subseteq DOMAIN results, saved' \subseteq {"run.json", "last_run.json"},
         FilesInv'
  PROVE  RunInv'
<1>1. RunnerTypeOK /\ PhaseInv /\ CallTells /\ Located /\ ResultsInv /\ StopInv
      BY DEF RunInv
<1>2. PhaseInv' /\ CallTells'
      BY <1>1, NothingKeepsCall
<1>3. step' = step /\ pc' \in MainStates
      BY DEF vars, phaseVars, Reported, MainStates
<1>4. Located'
      BY <1>1, <1>3 DEF Located, InCase, Recovering, Phases, Reported
<1>5. CaseInv'
      BY DEF CaseInv, Phases, Reported
<1>6. ResultsInv' /\ StopInv'
  <2>1. pc \in Reported
        OBVIOUS
  <2>2. QED
        BY <1>1, <2>1, ResultsKept
<1>7. RunnerTypeOK'
  <2>1. exit' \in {-1, 0, 1, 2, 3, 130}
        BY <1>1 DEF RunnerTypeOK
  <2>2. Plans' = Plans
        BY DEF Plans
  <2>3. QED
        BY <1>1, <1>2, <1>3, <2>1, <2>2 DEF RunnerTypeOK, PhaseInv
<1>8. QED
      BY <1>2, <1>4, <1>5, <1>6, <1>7 DEF RunInv

\* Parse issues are no FAILs: what is selected is a case.
LEMMA SelectedAreCases ==
  ASSUME RunInv
  PROVE  \A i \in Selected : i \in 1..NumDone /\ i \in DOMAIN lst /\ i \in DOMAIN results
<1>1. RunnerTypeOK /\ ResultsAre(NumDone)
      BY DEF RunInv, ResultsInv
<1>2. DOMAIN results = 1..Len(results) /\ Len(results) \in Nat
      BY <1>1, LenProperties DEF RunnerTypeOK
<1>3. NumDone \in 0..Len(Plans) /\ Len(Plans) \in Nat /\ DOMAIN lst = 1..Len(Plans)
      BY <1>1, PlansType DEF ResultsAre, RunnerTypeOK
<1>4. ASSUME NEW i \in Selected
      PROVE  i \in 1..NumDone
  <2>1. i \in 1..Len(results) /\ results[i].status = "FAIL"
        BY <1>2, <1>4 DEF Selected
  <2>2. \A n : IssueResult(n).status # "FAIL"
        BY DEF IssueResult
  <2>3. i \notin (NumDone + 1)..Len(results)
        BY <1>1, <2>1, <2>2 DEF ResultsAre
  <2>4. QED
        BY <1>2, <1>3, <2>1, <2>3
<1>5. QED
      BY <1>3, <1>4 DEF Selected

LEMMA AcceptInv ==
  ASSUME RunInv, AcceptNothing \/ AcceptAll \/ AskUser \/ AnswerYes \/ AnswerNo
  PROVE  RunInv'
<1>1. /\ UNCHANGED <<opts, suite, cmds, verdict, blame, log, ci, results, stop, tries,
                     fresh, lst, saved, exit>>
      /\ UNCHANGED vars
      /\ pc \in {"accept", "prompt"} /\ pc' \in {"prompt", "copy", "save"}
      /\ IF pc' = "copy" THEN todo' = Selected ELSE todo' = {}
      BY DEF AcceptNothing, AcceptAll, AskUser, AnswerYes, AnswerNo, Accept, Goto,
             inputVars, caseVars, loopVars
<1>2. pc \in Reported \ {"done"} /\ pc' \in Reported /\ pc' # "done"
      BY <1>1 DEF Reported
<1>3. RunnerTypeOK /\ FilesInv
      BY DEF RunInv
<1>4. \A i \in DOMAIN lst : lst[i] \in {"absent", "found"}
      BY <1>1, <1>3 DEF FilesInv
<1>5. /\ \A i \in todo' : i \in Selected /\ i \in DOMAIN lst
      /\ todo' \subseteq DOMAIN results
      BY <1>1, SelectedAreCases
<1>6. Selected' = Selected
      BY <1>1 DEF Selected
<1>7. saved = {} /\ exit = -1
      BY <1>1, <1>3 DEF FilesInv, Saving, RunInv, Located
<1>8. FilesInv'
      BY <1>1, <1>4, <1>5, <1>6, <1>7 DEF FilesInv, Saving
<1>9. saved' \subseteq {"run.json", "last_run.json"} /\ exit' = exit
      BY <1>1, <1>7
<1>10. QED
      BY <1>1, <1>2, <1>5, <1>8, <1>9, FinishInv

\* A baseline that is made, or overwritten, is one of a selected case.
LEMMA CopyOutInv ==
  ASSUME RunInv, CopyOut
  PROVE  RunInv'
<1>1. /\ UNCHANGED <<opts, suite, pc, cmds, verdict, blame, log, ci, results, stop,
                     tries, fresh, saved, exit, step>>
      /\ UNCHANGED vars /\ pc = "copy"
      BY DEF CopyOut, inputVars, caseVars, loopVars, vars, phaseVars
<1>2. PICK i \in todo :
        /\ lst' = [lst EXCEPT ![i] = IF @ = "absent" THEN "created" ELSE "replaced"]
        /\ todo' = todo \ {i}
      BY DEF CopyOut
<1>3. RunnerTypeOK /\ PhaseInv /\ CallTells /\ Located /\ ResultsInv /\ StopInv /\ FilesInv
      BY DEF RunInv
<1>4. PhaseInv' /\ CallTells'
      BY <1>1, <1>3, NothingKeepsCall
<1>5. i \in Selected /\ i \in DOMAIN lst /\ lst[i] \in {"absent", "found"}
      BY <1>3, SelectedAreCases DEF FilesInv
<1>6. /\ Plans' = Plans /\ NumDone' = NumDone /\ Selected' = Selected
      /\ LastResult' = LastResult /\ \A n : IssueResult(n)' = IssueResult(n)
      BY <1>1 DEF Plans, NumDone, Selected, LastResult, IssueResult, NextIndex
<1>7. /\ DOMAIN lst' = DOMAIN lst
      /\ lst'[i] = IF lst[i] = "absent" THEN "created" ELSE "replaced"
      /\ \A j \in DOMAIN lst : j # i => lst'[j] = lst[j]
      BY <1>2, <1>3, <1>5 DEF RunnerTypeOK
<1>8. RunnerTypeOK'
  <2>1. lst' \in [DOMAIN Plans -> {"absent", "found", "created", "replaced"}]
        BY <1>2, <1>3 DEF RunnerTypeOK
  <2>2. QED
        BY <1>1, <1>2, <1>3, <1>4, <1>6, <2>1 DEF RunnerTypeOK, PhaseInv
<1>9. \A j \in 1..NumDone : CaseTold(j)'
  <2>1. TAKE j \in 1..NumDone
  <2>2. CaseTold(j) /\ j \in DOMAIN lst
    <3>1. ResultsAre(NumDone) /\ DOMAIN lst = 1..Len(Plans) /\ Len(Plans) \in Nat
          BY <1>3, PlansType DEF ResultsInv, RunnerTypeOK
    <3>2. QED
          BY <3>1 DEF ResultsAre
  <2>3. lst'[j] \in {"absent", "created"} <=> lst[j] \in {"absent", "created"}
        BY <1>5, <1>7, <2>2
  <2>4. QED
        BY <1>1, <1>6, <2>2, <2>3 DEF CaseTold, FailTells
<1>10. ResultsInv'
  <2>1. ResultsAre(NumDone)'
        BY <1>1, <1>3, <1>6, <1>9 DEF ResultsInv, ResultsAre
  <2>2. QED
        BY <1>1, <1>3, <1>6, <2>1 DEF ResultsInv
<1>11. StopInv'
      BY <1>1, <1>3, <1>6 DEF StopInv
<1>12. FilesInv'
      BY <1>1, <1>2, <1>3, <1>5, <1>6, <1>7
         DEF FilesInv, InLoop, InCase, Phases, Recovering, Saving
<1>13. Located' /\ CaseInv'
      BY <1>1, <1>3, <1>6 DEF Located, CaseInv, Phases, InCase, Recovering
<1>14. QED
      BY <1>4, <1>8, <1>10, <1>11, <1>12, <1>13 DEF RunInv

LEMMA SaveInv ==
  ASSUME RunInv, CopyDone \/ SaveRun \/ SaveLast \/ CloseViewdiff
  PROVE  RunInv'
<1>1. /\ UNCHANGED <<opts, suite, cmds, verdict, blame, log, ci, results, stop, tries,
                     fresh, todo, lst, exit>>
      /\ UNCHANGED vars
      /\ \/ pc = "copy" /\ todo = {} /\ pc' = "save" /\ saved' = saved
         \/ pc = "save" /\ pc' = "saveLast" /\ saved' = saved \cup {"run.json"}
         \/ pc = "saveLast" /\ pc' \in {"viewdiff", "exit"}
            /\ saved' = saved \cup {"last_run.json"}
         \/ pc = "viewdiff" /\ pc' = "exit" /\ saved' = saved
      BY DEF CopyDone, SaveRun, SaveLast, CloseViewdiff, Save, Goto, inputVars, caseVars,
             loopVars, fileVars
<1>2. pc \in Reported \ {"done"} /\ pc' \in Reported /\ pc' # "done"
      BY <1>1 DEF Reported
<1>3. RunnerTypeOK /\ FilesInv /\ Located
      BY DEF RunInv
<1>4. /\ Selected' = Selected /\ saved' \subseteq {"run.json", "last_run.json"}
      /\ todo' \subseteq DOMAIN results /\ exit = -1 /\ exit' = exit
      BY <1>1, <1>3 DEF Selected, RunnerTypeOK, Located
<1>5. FilesInv'
      BY <1>1, <1>3, <1>4 DEF FilesInv, Saving, InLoop, InCase, Phases, Recovering
<1>6. QED
      BY <1>1, <1>2, <1>4, <1>5, FinishInv

\* 0 is told only when the loop has reached its end.
LEMMA ZeroTellsAll ==
  ASSUME RunInv, pc = "exit",
         DeriveExitCode(results, opts.orderIsPass, stop.code) = 0
  PROVE  NumDone = Len(Plans)
<1>1. RunnerTypeOK /\ ResultsInv /\ StopInv
      BY DEF RunInv
<1>2. ~Has(results, "ERROR") /\ stop.code \notin {2, 3}
      BY DEF DeriveExitCode
<1>3. stop.code # 1
  <2>1. SUFFICES ASSUME stop.code = 1
                 PROVE  FALSE
        OBVIOUS
  <2>2. NumDone = ci /\ results[NumDone].status = "ERROR"
        BY <1>1, <2>1 DEF StopInv, LastResult
  <2>3. NumDone \in 1..Len(results)
    <3>1. NumDone \in Nat /\ NumDone <= Len(results) /\ Len(results) \in Nat
          BY <1>1, PlansType, LenProperties DEF ResultsInv, ResultsAre, RunnerTypeOK
    <3>2. ci # 0
          BY <1>1 DEF RunnerTypeOK
    <3>3. QED
          BY <2>2, <3>1, <3>2
  <2>4. NumDone \in DOMAIN results
        BY <1>1, <2>3, LenProperties DEF RunnerTypeOK
  <2>5. QED
        BY <1>2, <2>2, <2>4 DEF Has
<1>4. stop.code \in 0..3
      BY <1>1 DEF RunnerTypeOK
<1>5. QED
      BY <1>1, <1>2, <1>3, <1>4 DEF StopInv, Reported

LEMMA ExitInv ==
  ASSUME RunInv, Exit
  PROVE  RunInv'
<1>1. /\ UNCHANGED <<opts, suite, cmds, verdict, blame, log, ci, results, stop, tries,
                     fresh, todo, lst, saved>>
      /\ UNCHANGED vars
      /\ pc = "exit" /\ pc' = "done"
      /\ exit' = DeriveExitCode(results, opts.orderIsPass, stop.code)
      BY DEF Exit, Goto, inputVars, caseVars, loopVars, fileVars
<1>2. pc \in Reported \ {"done"} /\ pc' \in Reported
      BY <1>1 DEF Reported
<1>3. RunnerTypeOK /\ FilesInv
      BY DEF RunInv
<1>4. /\ Selected' = Selected /\ NumDone' = NumDone /\ Plans' = Plans
      /\ saved' \subseteq {"run.json", "last_run.json"} /\ todo' \subseteq DOMAIN results
      BY <1>1, <1>3 DEF Selected, NumDone, Plans, RunnerTypeOK
<1>5. exit' \in 0..3
      BY <1>1, <1>3 DEF DeriveExitCode, RunnerTypeOK
<1>6. exit' = 0 => NumDone = Len(Plans)
      BY <1>1, ZeroTellsAll
<1>7. FilesInv'
      BY <1>1, <1>3, <1>4, <1>6 DEF FilesInv, Saving, InLoop, InCase, Phases, Recovering
<1>8. QED
      BY <1>1, <1>2, <1>4, <1>5, <1>7, FinishInv

LEMMA AbortInv ==
  ASSUME RunInv, Abort
  PROVE  RunInv'
<1>1. /\ UNCHANGED <<opts, suite, cmds, ci, results, stop, tries, fresh, todo, lst, saved>>
      /\ UNCHANGED serverVars /\ Forget
      /\ pc \notin {"done", "left"} /\ pc' = "left" /\ exit' \in {1, 130}
      /\ verdict' = Pass /\ blame' = "none" /\ log' = EmptyLog
      BY DEF Abort, Goto, inputVars, loopVars, fileVars
<1>2. RunnerTypeOK /\ PhaseInv /\ CallTells /\ ResultsInv /\ StopInv /\ FilesInv
      BY DEF RunInv
<1>3. PhaseInv' /\ CallTells' /\ step' = "idle"
      BY <1>1, <1>2, ForgetKeepsCall DEF Forget
<1>4. EmptyLog \in LogType /\ Pass \in Verdicts
      BY VerdictKinds DEF EmptyLog, LogType, NotRun
<1>5. RunnerTypeOK'
  <2>1. Plans' = Plans
        BY <1>1 DEF Plans
  <2>2. QED
        BY <1>1, <1>2, <1>3, <1>4, <2>1 DEF RunnerTypeOK, PhaseInv, MainStates
<1>6. Located' /\ CaseInv'
      BY <1>1, <1>3 DEF Located, CaseInv, InCase, Recovering, Phases
<1>7. ResultsInv' /\ StopInv'
      BY <1>1, <1>2, ResultsKept
<1>8. FilesInv'
  <2>1. Selected' = Selected
        BY <1>1 DEF Selected
  <2>2. QED
        BY <1>1, <1>2, <2>1 DEF FilesInv, InLoop, InCase, Phases, Recovering
<1>9. QED
      BY <1>3, <1>5, <1>6, <1>7, <1>8 DEF RunInv

LEMMA StutterInv ==
  ASSUME RunInv, UNCHANGED allVars
  PROVE  RunInv'
<1>1. UNCHANGED mainVars /\ UNCHANGED vars /\ PhaseInv /\ CallTells /\ Located
      BY DEF allVars, RunInv
<1>2. PhaseInv' /\ CallTells' /\ step' = step
      BY <1>1, NothingKeepsCall DEF vars, phaseVars
<1>3. QED
      BY <1>1, <1>2, MainKept DEF Located

LEMMA StartInv ==
  ASSUME RunnerInit
  PROVE  RunInv
<1>1. /\ Init /\ opts \in OptionSets /\ suite \in Suites /\ pc = "start" /\ cmds = <<>>
      /\ verdict = Pass /\ blame = "none" /\ log = EmptyLog /\ ci = 1 /\ results = <<>>
      /\ stop = [code |-> 0, byFatal |-> FALSE, byError |-> FALSE, at |-> 0]
      /\ tries = 0 /\ fresh = {} /\ todo = {} /\ saved = {} /\ exit = -1
      /\ lst = [i \in DOMAIN Plans |-> IF Plans[i].lst THEN "found" ELSE "absent"]
      BY DEF RunnerInit
<1>2. PhaseInv
      BY <1>1, InitInv
<1>3. step = "idle" /\ CallTells
      BY <1>1 DEF Init, PhaseInit, CallTells
<1>4. Plans \in Seq(PlanType) /\ Len(Plans) \in Nat
  <2>1. suite \in SuiteType
        BY <1>1, SuitesAssumption
  <2>2. Plans \in Seq(PlanType)
        BY <2>1 DEF SuiteType, Plans
  <2>3. QED
        BY <2>2, LenProperties
<1>5. opts.fatalRecoverMax \in Nat
      BY <1>1, OptionsAssumption DEF OptionType
<1>6. RunnerTypeOK
  <2>1. EmptyLog \in LogType /\ Pass \in Verdicts
        BY VerdictKinds DEF EmptyLog, LogType, NotRun
  <2>2. cmds \in Seq(Commands) /\ results \in Seq(ResultType) /\ DOMAIN results = {}
        BY <1>1
  <2>3. lst \in [DOMAIN Plans -> {"absent", "found", "created", "replaced"}]
        BY <1>1
  <2>4. stop \in [code : 0..3, byFatal : BOOLEAN, byError : BOOLEAN, at : Nat]
        BY <1>1
  <2>5. QED
        BY <1>1, <1>2, <1>4, <1>5, <2>1, <2>2, <2>3, <2>4
           DEF RunnerTypeOK, PhaseInv, MainStates
<1>7. NumDone = 0 /\ Len(results) = 0
  <2>1. {i \in DOMAIN results : results[i].blame # "none"} = {}
        BY <1>1
  <2>2. QED
        BY <1>1, <2>1, FS_EmptySet DEF NumDone
<1>8. ResultsInv
      BY <1>1, <1>4, <1>7
         DEF ResultsInv, ResultsAre, InLoop, InCase, Phases, Recovering, Reported
<1>9. StopInv
      BY <1>1, <1>7 DEF StopInv, InLoop, Recovering, Reported
<1>10. FilesInv /\ Located /\ CaseInv
      BY <1>1, <1>3 DEF FilesInv, Located, CaseInv, InCase, Recovering, Phases
<1>11. QED
      BY <1>2, <1>3, <1>6, <1>8, <1>9, <1>10 DEF RunInv

(***************************************************************************)
(* Every step of a run keeps the invariant.                                *)
(***************************************************************************)
LEMMA RunnerStepInv ==
  ASSUME RunInv, [RunnerNext]_allVars
  PROVE  RunInv'
<1>1. CASE RunCase
  <2>1. ASSUME NEW phase \in Phases, EnterPhase(phase) \/ SkipPhase(phase) \/ EndPhase(phase)
        PROVE  RunInv'
        BY <2>1, EnterPhaseInv, SkipPhaseInv, EndPhaseInv
  <2>2. QED
        BY <1>1, <2>1, StartCaseInv, InPhaseInv DEF RunCase
<1>2. CASE Main
  <2>1. CASE Reject \/ BeginRun \/ RunCommand \/ BeginCases \/ NextCase
        BY <2>1, BeforeCasesInv, RunCommandInv
  <2>2. CASE EndCase \/ StopOnError \/ StopOnFatal \/ BeginRecovery
        BY <2>2, EndCaseInv
  <2>3. CASE RecoverClean \/ RecoverStart
        BY <2>3, RecoverInv
  <2>4. CASE NoMoreCases \/ ReportIssues
        BY <2>4, NoMoreCasesInv, ReportIssuesInv
  <2>5. CASE AcceptNothing \/ AcceptAll \/ AskUser
        BY <2>5, AcceptInv
  <2>6. CASE CopyOut \/ CopyDone
        BY <2>6, CopyOutInv, SaveInv
  <2>7. CASE SaveRun \/ SaveLast \/ Exit
        BY <2>7, SaveInv, ExitInv
  <2>8. QED
        BY <1>2, <2>1, <2>2, <2>3, <2>4, <2>5, <2>6, <2>7 DEF Main
<1>3. CASE User
      BY <1>3, AcceptInv, SaveInv DEF User
<1>4. CASE Abort
      BY <1>4, AbortInv
<1>5. CASE Server
      BY <1>5, ServerStepInv
<1>6. CASE UNCHANGED allVars
      BY <1>6, StutterInv
<1>7. QED
      BY <1>1, <1>2, <1>3, <1>4, <1>5, <1>6 DEF RunnerNext

LEMMA SpecRunInv == RunnerSpec => []RunInv
<1>1. RunnerInit => RunInv
      BY StartInv
<1>2. RunInv /\ [RunnerNext]_allVars => RunInv'
      BY RunnerStepInv
<1>3. QED
      BY <1>1, <1>2, PTL DEF RunnerSpec

\* Whatever the suite, the command line and the server do, main keeps its
\* variables in their types.
THEOREM RunnerTypes == RunnerSpec => []RunnerTypeOK
<1>1. RunInv => RunnerTypeOK
      BY DEF RunInv
<1>2. QED
      BY <1>1, SpecRunInv, PTL

(***************************************************************************)
(* What the results say.                                                   *)
(***************************************************************************)
\* The voice that Worst finds is the one that IsWorst tells of.
LEMMA WorstIsWorst ==
  ASSUME NEW l \in LogType, NEW i \in 1..4, IsWorst(l, i)
  PROVE  Worst(l) = i
<1> DEFINE votes == {j \in DOMAIN Voices : l[Voices[j]] # NotRun}
           worst == {a \in votes : \A j \in votes :
                       Priority(l[Voices[a]].status) <= Priority(l[Voices[j]].status)}
<1>1. \A s : Priority(s) \in 0..4
      BY Priorities
<1>2. i \in worst
      BY VoiceNames DEF IsWorst
<1>3. \A j \in worst : j \in 1..4 /\ j <= i
  <2>1. TAKE j \in worst
  <2>2. j \in 1..4 /\ l[Voices[j]] # NotRun
        BY VoiceNames
  <2>3. Priority(l[Voices[j]].status) <= Priority(l[Voices[i]].status)
        BY <1>2
  <2>4. QED
        BY <1>1, <2>2, <2>3 DEF IsWorst
<1> HIDE DEF worst
<1>4. \A a \in worst : (\A j \in worst : j <= a) <=> a = i
      BY <1>2, <1>3
<1>5. Worst(l) = CHOOSE a \in worst : \A j \in worst : j <= a
      BY DEF Worst, worst
<1>6. QED
      BY <1>2, <1>4, <1>5

\* A case that is told to have passed has no phase with anything else to say.
LEMMA PassedLog ==
  ASSUME NEW l, LogOK(l), NEW i \in 1..4, IsWorst(l, i), l[Voices[i]].status = "PASS",
         NEW p, InitRan(p, l), TestRan(p, l), DestroyRan(p, l)
  PROVE  /\ l["test"] = Pass /\ l["compare"] = Pass
         /\ p.init # NoScript => l["init"] = Pass
         /\ p.destroy # NoScript => l["destroy"] = Pass
<1>1. \A j \in 1..4 : l[Voices[j]] # NotRun => l[Voices[j]].status \notin {"ORDER", "FAIL"} \cup Broken
  <2>1. Priority("ORDER") < 4 /\ Priority("FAIL") < 4 /\ \A s \in Broken : Priority(s) < 4
        BY DEF Priority, Broken
  <2>2. \A j \in 1..4 : l[Voices[j]] # NotRun => Priority(l[Voices[j]].status) = 4
        BY Priorities DEF IsWorst
  <2>3. QED
        BY <2>1, <2>2
<1>2. \A j \in 1..4 : l[Voices[j]] \in {NotRun, Pass}
      BY <1>1, VoiceNames DEF LogOK, Phases
<1>3. /\ l["init"] \in {NotRun, Pass} /\ l["test"] \in {NotRun, Pass}
      /\ l["compare"] \in {NotRun, Pass} /\ l["destroy"] \in {NotRun, Pass}
      BY <1>2, VoiceNames
<1>4. l["test"] = Pass /\ l["compare"] = Pass
      BY <1>3, VerdictKinds DEF TestRan
<1>5. l["init"].status # "FATAL" /\ l["test"].status # "FATAL"
      BY <1>3, VerdictKinds
<1>6. QED
      BY <1>3, <1>4, <1>5 DEF InitRan, DestroyRan

\* The verdict of every case is that of its worst phase, told in the words of
\* that phase, and PASS is told only of a case all of whose phases passed
\* (_run_case and _apply_status).
THEOREM VerdictsAreWorst == RunnerSpec => []VerdictIsWorstPhase
<1>1. ASSUME RunInv
      PROVE  VerdictIsWorstPhase
  <2>1. SUFFICES ASSUME NEW i \in 1..NumDone
                 PROVE  LET l == results[i].log
                            w == Voices[Worst(l)]
                        IN /\ results[i].status = l[w].status
                           /\ results[i].reason \in {l[w].reason, "fatal_recovery_failed"}
                           /\ results[i].status \in Broken => results[i].blame = w
                           /\ results[i].status = "PASS" =>
                                 /\ l["test"] = Pass /\ l["compare"] = Pass
                                 /\ Plans[i].init # NoScript => l["init"] = Pass
                                 /\ Plans[i].destroy # NoScript => l["destroy"] = Pass
        BY DEF VerdictIsWorstPhase
  <2>2. CaseTold(i)
        BY <1>1 DEF RunInv, ResultsInv, ResultsAre
  <2> DEFINE l == results[i].log
  <2>3. /\ LogOK(l) /\ InitRan(Plans[i], l) /\ TestRan(Plans[i], l)
        /\ DestroyRan(Plans[i], l) /\ l \in LogType
        BY <2>2 DEF CaseTold, LogOK
  <2>4. PICK j \in 1..4 : /\ Speaks(l, j, results[i].status, results[i].blame)
                          /\ results[i].reason \in {l[Voices[j]].reason, GaveUp}
        BY <2>2 DEF CaseTold
  <2> HIDE DEF l
  <2>5. IsWorst(l, j) /\ results[i].status = l[Voices[j]].status
        /\ (results[i].status \in Broken => results[i].blame = Voices[j])
        BY <2>4 DEF Speaks
  <2>6. Worst(l) = j
        BY <2>3, <2>5, WorstIsWorst
  <2>7. results[i].status = "PASS" =>
              /\ l["test"] = Pass /\ l["compare"] = Pass
              /\ Plans[i].init # NoScript => l["init"] = Pass
              /\ Plans[i].destroy # NoScript => l["destroy"] = Pass
        BY <2>3, <2>5, PassedLog
  <2>8. QED
        BY <2>4, <2>5, <2>6, <2>7 DEF l, GaveUp
<1>2. QED
      BY <1>1, SpecRunInv, PTL

\* A case is cleaned up by its destroy script however it failed, unless the
\* server was lost, and its test script is run only on a sound init (_run_case).
THEOREM CasesAreCleanedUp == RunnerSpec => []CleanupRuns
<1>1. ASSUME RunInv
      PROVE  CleanupRuns
  <2>1. SUFFICES ASSUME NEW i \in 1..NumDone
                 PROVE  LET l == results[i].log IN
                        /\ l["destroy"] # NotRun <=>
                              /\ Plans[i].destroy # NoScript
                              /\ l["init"].status # "FATAL" /\ l["test"].status # "FATAL"
                        /\ l["test"] # NotRun <=>
                              (Plans[i].init # NoScript => l["init"] = Pass)
                        /\ l["compare"] # NotRun <=> l["test"] = Pass
        BY DEF CleanupRuns
  <2>2. CaseTold(i)
        BY <1>1 DEF RunInv, ResultsInv, ResultsAre
  <2> DEFINE l == results[i].log
  <2>3. /\ LogOK(l) /\ InitRan(Plans[i], l) /\ TestRan(Plans[i], l)
        /\ DestroyRan(Plans[i], l)
        BY <2>2 DEF CaseTold
  <2> HIDE DEF l
  <2>4. l["init"].status \notin Broken <=> (Plans[i].init # NoScript => l["init"] = Pass)
        BY <2>3, VerdictKinds DEF InitRan, LogOK, Phases
  <2>5. QED
        BY <2>3, <2>4 DEF l, TestRan, DestroyRan
<1>2. QED
      BY <1>1, SpecRunInv, PTL

\* No two results of a run share an index: cases keep that of their plan, and
\* the parse issues are numbered beyond the highest plan (main).
THEOREM IndexesAreUnique == RunnerSpec => []UniqueIndexes
<1>1. ASSUME RunInv
      PROVE  UniqueIndexes
  <2> DEFINE n == NumDone
             len == Len(results)
  <2>1. RunnerTypeOK /\ ResultsAre(n)
        BY <1>1 DEF RunInv, ResultsInv
  <2>2. /\ n \in Nat /\ n <= Len(Plans) /\ Len(Plans) \in Nat /\ len \in Nat
        /\ DOMAIN results = 1..len /\ NextIndex \in Nat
        BY <2>1, PlansType, LenProperties, IssueTypes DEF ResultsAre, RunnerTypeOK
  <2>3. \A i \in 1..n : results[i].index = Plans[i].index
        BY <2>1 DEF ResultsAre, CaseTold
  <2>4. \A i \in (n + 1)..len : results[i].index = NextIndex + (i - n) - 1
    <3>1. \A m \in Nat : IssueResult(m).index = NextIndex + m - 1
          BY DEF IssueResult
    <3>2. \A i \in (n + 1)..len : results[i] = IssueResult(i - n) /\ i - n \in Nat
          BY <2>1, <2>2 DEF ResultsAre
    <3>3. QED
          BY <3>1, <3>2
  <2>5. \A i \in 1..Len(Plans) : Plans[i].index \in Nat /\ Plans[i].index < NextIndex
    <3>1. TAKE i \in 1..Len(Plans)
    <3>2. /\ Len(Plans) \in 1..Len(Plans)
          /\ \A j \in 1..Len(Plans) : Plans[j].index \in Nat
          BY <2>1, <2>2, PlansType DEF PlanType
    <3>3. Plans[i].index <= Plans[Len(Plans)].index
          BY <2>1, <2>2, <3>2, PlansType
    <3>4. NextIndex = Plans[Len(Plans)].index + 1
      <4>1. Plans # <<>>
            BY <2>1, PlansType, EmptySeq
      <4>2. QED
            BY <4>1 DEF NextIndex
    <3>5. QED
          BY <3>2, <3>3, <3>4
  <2>6. \A i, j \in 1..Len(Plans) : Plans[i].index = Plans[j].index => i = j
        BY <2>1, <2>2, <2>5, PlansType
  <2> HIDE DEF n, len
  <2>7. ASSUME NEW i \in 1..len, NEW j \in 1..len, results[i].index = results[j].index
        PROVE  i = j
    <3>1. CASE i \in 1..n /\ j \in 1..n
          BY <2>2, <2>3, <2>6, <2>7, <3>1
    <3>2. CASE i \in (n + 1)..len /\ j \in (n + 1)..len
          BY <2>2, <2>4, <2>7, <3>2
    <3>3. CASE i \in 1..n /\ j \in (n + 1)..len
          BY <2>2, <2>3, <2>4, <2>5, <2>7, <3>3
    <3>4. CASE j \in 1..n /\ i \in (n + 1)..len
          BY <2>2, <2>3, <2>4, <2>5, <2>7, <3>4
    <3>5. QED
          BY <2>2, <2>7, <3>1, <3>2, <3>3, <3>4
  <2>8. QED
        BY <2>2, <2>7 DEF UniqueIndexes
<1>2. QED
      BY <1>1, SpecRunInv, PTL

\* A baseline is only ever written from an output of this run, for a case that
\* failed its comparison, and over an old one only for its content
\* (_accept_results).
THEOREM OnlyFailuresAreAccepted == RunnerSpec => []AcceptedIsThisRunsFailure
<1>1. ASSUME RunInv
      PROVE  AcceptedIsThisRunsFailure
  <2>1. SUFFICES ASSUME NEW i \in DOMAIN lst, lst[i] \in {"created", "replaced"}
                 PROVE  /\ i \in fresh
                        /\ i \in DOMAIN results
                        /\ results[i].status = "FAIL"
                        /\ opts.acceptOut \/ (opts.acceptMissingOnly /\ lst[i] = "created")
                        /\ results[i].reason = (IF lst[i] = "created" THEN "missing_lst"
                                                ELSE "content_mismatch")
        BY DEF AcceptedIsThisRunsFailure
  <2>2. i \in Selected
        BY <1>1, <2>1 DEF RunInv, FilesInv
  <2>3. i \in 1..NumDone /\ i \in DOMAIN results
        BY <1>1, <2>2, SelectedAreCases
  <2>4. /\ results[i].status = "FAIL"
        /\ opts.acceptOut \/ (opts.acceptMissingOnly /\ results[i].reason = "missing_lst")
        BY <2>2 DEF Selected
  <2>5. FailTells(results[i].status, results[i].reason, i)
        BY <1>1, <2>3 DEF RunInv, ResultsInv, ResultsAre, CaseTold
  <2>6. QED
        BY <2>1, <2>3, <2>4, <2>5 DEF FailTells
<1>2. QED
      BY <1>1, SpecRunInv, PTL

\* Parse issues are errors: what is asked of the statuses FATAL is about cases.
LEMMA FatalsAreCases ==
  ASSUME RunInv
  PROVE  Has(results, "FATAL") <=> \E i \in 1..NumDone : results[i].status = "FATAL"
<1>1. RunnerTypeOK /\ ResultsAre(NumDone)
      BY DEF RunInv, ResultsInv
<1>2. /\ NumDone \in Nat /\ NumDone <= Len(results) /\ Len(results) \in Nat
      /\ DOMAIN results = 1..Len(results)
      BY <1>1, PlansType, LenProperties DEF ResultsAre, RunnerTypeOK
<1>3. \A i \in (NumDone + 1)..Len(results) : results[i].status # "FATAL"
  <2>1. \A n : IssueResult(n).status # "FATAL"
        BY DEF IssueResult
  <2>2. QED
        BY <1>1, <2>1 DEF ResultsAre
<1>4. \A i \in 1..Len(results) : i \in 1..NumDone \/ i \in (NumDone + 1)..Len(results)
      BY <1>2
<1>5. \A i \in 1..NumDone : i \in 1..Len(results)
      BY <1>2
<1>6. QED
      BY <1>2, <1>3, <1>4, <1>5 DEF Has

\* What run.json says adds up: every case and issue is counted once, the stop
\* fields name the last case and the way the loop was left, and 0 is told only
\* by a run that has run and written everything (main).
THEOREM TheReportAddsUp == RunnerSpec => []ReportAddsUp
<1>1. ASSUME RunInv
      PROVE  ReportAddsUp
  <2>1. RunnerTypeOK /\ ResultsInv /\ StopInv /\ FilesInv
        BY <1>1 DEF RunInv
  <2>2. /\ NumDone \in Nat /\ Len(Plans) \in Nat /\ suite.issues \in Nat
        /\ NumDone <= Len(Plans) /\ ci \in Nat \ {0}
        BY <2>1, PlansType DEF ResultsInv, ResultsAre, RunnerTypeOK
  <2>3. ASSUME saved # {}
        PROVE  /\ Summary.executed + Summary.not_run = Summary.total
               /\ Summary.not_run = Len(Plans) - NumDone
    <3>1. Len(results) = NumDone + suite.issues
          BY <2>1, <2>3 DEF ResultsInv
    <3>2. Summary.executed = Len(results)
          BY Zenon DEF Summary, Summarize
    <3>3. Summary.total = Len(Plans) + suite.issues
          BY Zenon DEF Summary, Summarize
    <3>4. Summary.not_run = IF Len(Plans) + suite.issues > Len(results)
                            THEN (Len(Plans) + suite.issues) - Len(results) ELSE 0
          BY Zenon DEF Summary, Summarize
    <3>5. QED
          BY <2>2, <3>1, <3>2, <3>3, <3>4
  <2>4. stop.code # 0 =>
              /\ NumDone > 0
              /\ stop.at = results[NumDone].index
              /\ results[NumDone].status = (IF stop.byError THEN "ERROR" ELSE "FATAL")
        BY <2>1, <2>2 DEF StopInv, LastResult
  <2>5. /\ stop.code = 3 <=> \E i \in 1..NumDone : results[i].reason = "fatal_recovery_failed"
        /\ stop.code = 3 => tries = opts.fatalRecoverMax
        /\ stop.byFatal <=> Has(results, "FATAL")
        BY <1>1, <2>1, FatalsAreCases DEF StopInv, GaveUp
  <2>6. saved # {} => todo = {}
        BY <2>1 DEF FilesInv
  <2>7. exit = 0 => saved = {"run.json", "last_run.json"} /\ NumDone = Len(Plans)
        BY <2>1 DEF FilesInv
  <2>8. exit = 0 => Summary.not_run = 0
    <3>1. exit = 0 => saved # {}
          BY <2>7
    <3>2. Len(Plans) - Len(Plans) = 0
          BY <2>2
    <3>3. QED
          BY <2>3, <2>7, <3>1, <3>2, Zenon
  <2> HIDE DEF Summary
  <2>9. QED
        BY <2>3, <2>4, <2>5, <2>6, <2>7, <2>8 DEF ReportAddsUp
<1>2. QED
      BY <1>1, SpecRunInv, PTL

(***************************************************************************)
(* Every run is a run of the contract.                                     *)
(***************************************************************************)
LEMMA DoneIsSeq ==
  ASSUME RunInv
  PROVE  /\ ContractDone \in Seq(Statuses) /\ Len(ContractDone) = NumDone
         /\ DOMAIN ContractDone = 1..NumDone /\ NumDone \in Nat
         /\ \A i \in 1..NumDone : ContractDone[i] = results[i].status
<1>1. RunnerTypeOK /\ ResultsAre(NumDone)
      BY DEF RunInv, ResultsInv
<1>2. NumDone \in Nat /\ NumDone <= Len(results) /\ DOMAIN results = 1..Len(results)
      /\ Len(results) \in Nat
      BY <1>1, PlansType, LenProperties DEF ResultsAre, RunnerTypeOK
<1>3. \A i \in 1..NumDone : results[i].status \in Statuses
  <2>1. \A i \in 1..NumDone : i \in 1..Len(results)
        BY <1>2
  <2>2. \A i \in 1..Len(results) : results[i] \in ResultType
        BY <1>1, ElementOfSeq DEF RunnerTypeOK
  <2>3. QED
        BY <2>1, <2>2 DEF ResultType
<1>4. ContractDone \in [1..NumDone -> Statuses]
      BY <1>3 DEF ContractDone
<1>5. ContractDone \in Seq(Statuses)
      BY <1>2, <1>4, SeqDef
<1>6. DOMAIN ContractDone = 1..NumDone /\ DOMAIN ContractDone = 1..Len(ContractDone)
      /\ Len(ContractDone) \in Nat
      BY <1>4, <1>5, LenProperties
<1>7. Len(ContractDone) = NumDone
      BY <1>2, <1>6
<1>8. QED
      BY <1>2, <1>5, <1>6, <1>7 DEF ContractDone

\* A step that ends no case, and neither stops the loop nor the process.
LEMMA ContractKept ==
  ASSUME UNCHANGED <<opts, suite, stop, exit>>, NumDone' = NumDone,
         \A i \in 1..NumDone : results'[i].status = results[i].status
  PROVE  /\ ContractJob' = ContractJob /\ ContractDone' = ContractDone
         /\ ContractCode' = ContractCode
<1>1. ContractJob' = ContractJob
      BY DEF ContractJob, Plans
<1>2. ContractCode' = ContractCode
      BY DEF ContractCode
<1>3. ContractDone' = ContractDone
      BY DEF ContractDone
<1>4. QED
      BY <1>1, <1>2, <1>3

LEMMA Modes ==
  /\ pc \in Recovering => ContractMode = "recovering"
  /\ pc \in {"report"} \cup (Reported \ {"done"}) => ContractMode = "stopped"
  /\ pc = "done" => ContractMode = "exited"
  /\ pc = "left" => ContractMode = "aborted"
  /\ pc \in InLoop => ContractMode = "running"
  BY DEF ContractMode, Recovering, Reported, InLoop, InCase, Phases

\* The same, a moment later.
LEMMA ModesNext ==
  /\ pc' \in Recovering => ContractMode' = "recovering"
  /\ pc' \in {"report"} \cup (Reported \ {"done"}) => ContractMode' = "stopped"
  /\ pc' = "done" => ContractMode' = "exited"
  /\ pc' = "left" => ContractMode' = "aborted"
  /\ pc' \in InLoop => ContractMode' = "running"
  BY DEF ContractMode, Recovering, Reported, InLoop, InCase, Phases

\* The steps of main that the contract does not see.
LEMMA QuietSteps ==
  ASSUME RunInv, UNCHANGED <<opts, suite, stop, exit, results>>,
         \/ pc \in InLoop /\ pc' \in InLoop
         \/ pc \in Reported \ {"done"} /\ pc' \in Reported \ {"done"}
         \/ pc' = pc
  PROVE  UNCHANGED Contract!contractVars
<1>1. NumDone' = NumDone
      BY DEF NumDone
<1>2. /\ ContractJob' = ContractJob /\ ContractDone' = ContractDone
      /\ ContractCode' = ContractCode
      BY <1>1, ContractKept
<1>3. ContractMode' = ContractMode
  <2>1. CASE pc' = pc
        BY <2>1 DEF ContractMode
  <2>2. CASE pc \in InLoop /\ pc' \in InLoop
        BY <2>2, Modes, ModesNext
  <2>3. CASE pc \in Reported \ {"done"} /\ pc' \in Reported \ {"done"}
        BY <2>3, Modes, ModesNext
  <2>4. QED
        BY <2>1, <2>2, <2>3
<1>4. QED
      BY <1>2, <1>3 DEF Contract!contractVars

LEMMA CaseIsContracted ==
  ASSUME RunInv, EndCase \/ StopOnError \/ StopOnFatal \/ BeginRecovery
  PROVE  \E s \in {"PASS", "ORDER", "FAIL", "ERROR", "FATAL"} : Contract!FinishCase(s)
<1>1. AddResult /\ UNCHANGED <<opts, suite>>
      BY DEF EndCase, StopOnError, StopOnFatal, BeginRecovery, Continue, Goto, inputVars
<1>2. RunnerTypeOK /\ Located /\ StopInv
      BY DEF RunInv
<1>3. /\ UNCHANGED <<verdict, exit>> /\ ci \in 1..Len(Plans) /\ pc = "endCase"
      /\ NumDone = ci - 1 /\ NumDone' = ci /\ results'[ci] = CaseResult
      /\ \A i \in 1..(ci - 1) : results'[i] = results[i]
      BY <1>1, AddedResult
<1>4. verdict.status \in Statuses
      BY <1>2 DEF RunnerTypeOK, Verdicts
<1>5. RunInv'
      BY EndCaseInv
<1>6. /\ ContractDone \in Seq(Statuses) /\ Len(ContractDone) = ci - 1
      /\ \A i \in 1..(ci - 1) : ContractDone[i] = results[i].status
      BY <1>3, DoneIsSeq
<1>7. ContractDone' = [i \in 1..ci |-> results'[i].status]
      BY <1>3 DEF ContractDone
<1>8. ContractDone' = Append(ContractDone, verdict.status)
  <2> DEFINE longer == Append(ContractDone, verdict.status)
  <2>1. ci \in Nat
        BY <1>3
  <2>2. /\ longer \in Seq(Statuses) /\ Len(longer) = ci /\ longer[ci] = verdict.status
        /\ \A i \in 1..(ci - 1) : longer[i] = ContractDone[i]
        BY <1>4, <1>6, <2>1, AppendProperties
  <2> HIDE DEF longer
  <2>3. DOMAIN longer = 1..ci
        BY <2>2, LenProperties
  <2>4. results'[ci].status = verdict.status
        BY <1>3 DEF CaseResult
  <2>5. \A i \in 1..(ci - 1) : longer[i] = results'[i].status
        BY <1>3, <1>6, <2>2
  <2>6. \A i \in 1..ci : longer[i] = results'[i].status
        BY <2>1, <2>2, <2>4, <2>5
  <2>7. longer = [i \in 1..ci |-> longer[i]]
        BY <2>2, <2>3
  <2>8. QED
        BY <1>7, <2>6, <2>7 DEF longer
<1>9. /\ ContractJob' = ContractJob /\ ContractMode = "running"
      /\ Len(ContractDone) < ContractJob.cases
      /\ ContractJob.continue = opts.continueOnError
      /\ ContractJob.recover = opts.fatalRecover
  <2>1. Len(Plans) \in Nat
        BY <1>2, PlansType
  <2>2. QED
        BY <1>1, <1>3, <1>6, <2>1, Modes DEF ContractJob, Plans, InLoop, InCase
<1>10. /\ exit = -1 /\ stop.code = 0 /\ ContractCode = 0 /\ ContractCode' = stop'.code
  <2>1. exit = -1 /\ stop.code = 0
        BY <1>2, <1>3 DEF Located, StopInv, InLoop, InCase
  <2>2. QED
        BY <1>3, <2>1 DEF ContractCode
<1>11. stop \in StopType /\ Case.index \in Nat
      BY <1>2, <1>3, PlansType DEF RunnerTypeOK, StopType, Case, PlanType
<1>12. CASE EndCase
  <2>1. /\ verdict.status # "FATAL" /\ (verdict.status = "ERROR" => opts.continueOnError)
        /\ pc' = "next" /\ stop' = stop
        BY <1>12 DEF EndCase, Continue, Goto
  <2>2. ContractMode' = "running" /\ ContractCode' = ContractCode
        BY <1>10, <2>1, ModesNext DEF InLoop
  <2>3. Contract!FinishCase(verdict.status)
        BY <1>8, <1>9, <2>1, <2>2 DEF Contract!FinishCase
  <2>4. QED
        BY <1>4, <2>3 DEF Statuses
<1>13. CASE StopOnError
  <2>1. /\ verdict.status = "ERROR" /\ ~opts.continueOnError /\ Stop(1, "byError")
        /\ pc' = "report" /\ 1 \in 0..3
        BY <1>13 DEF StopOnError, Goto
  <2>2. stop'.code = 1
        BY ONLY <1>11, <2>1, StopTells
  <2>3. ContractMode' = "stopped" /\ ContractCode' = 1
        BY <1>10, <2>1, <2>2, ModesNext
  <2>4. Contract!FinishCase(verdict.status)
        BY <1>8, <1>9, <2>1, <2>3 DEF Contract!FinishCase
  <2>5. QED
        BY <1>4, <2>4 DEF Statuses
<1>14. CASE StopOnFatal
  <2>1. /\ verdict.status = "FATAL" /\ ~opts.fatalRecover /\ Stop(2, "byFatal")
        /\ pc' = "report" /\ 2 \in 0..3
        BY <1>14 DEF StopOnFatal, Goto
  <2>2. stop'.code = 2
        BY ONLY <1>11, <2>1, StopTells
  <2>3. ContractMode' = "stopped" /\ ContractCode' = 2
        BY <1>10, <2>1, <2>2, ModesNext
  <2>4. Contract!FinishCase(verdict.status)
        BY <1>8, <1>9, <2>1, <2>3 DEF Contract!FinishCase
  <2>5. QED
        BY <1>4, <2>4 DEF Statuses
<1>15. CASE BeginRecovery
  <2>1. /\ verdict.status = "FATAL" /\ opts.fatalRecover /\ Stop(0, "byFatal")
        /\ pc' = "recoverClean" /\ 0 \in 0..3
        BY <1>10, <1>15 DEF BeginRecovery, Goto
  <2>2. stop'.code = 0
        BY ONLY <1>11, <2>1, StopTells
  <2>3. ContractMode' = "recovering" /\ ContractCode' = ContractCode
        BY <1>10, <2>1, <2>2, ModesNext DEF Recovering
  <2>4. Contract!FinishCase(verdict.status)
        BY <1>8, <1>9, <2>1, <2>3 DEF Contract!FinishCase
  <2>5. QED
        BY <1>4, <2>4 DEF Statuses
<1>16. QED
      BY <1>12, <1>13, <1>14, <1>15

LEMMA RecoveryIsContracted ==
  ASSUME RunInv, RecoverClean \/ RecoverStart
  PROVE  [Contract!Next]_(Contract!contractVars)
<1>1. /\ UNCHANGED <<opts, suite, fresh, lst, exit>> /\ pc \in Recovering
      BY RecoveryCases
<1>2. Located /\ RunnerTypeOK
      BY DEF RunInv
<1>3. exit = -1 /\ ContractMode = "recovering"
      BY <1>1, <1>2, Modes DEF Located, Recovering
<1>4. CASE pc' \in Recovering /\ UNCHANGED <<results, stop>>
  <2>1. NumDone' = NumDone
        BY <1>4 DEF NumDone
  <2>2. /\ ContractJob' = ContractJob /\ ContractDone' = ContractDone
        /\ ContractCode' = ContractCode
        BY <1>1, <1>4, <2>1, ContractKept
  <2>3. ContractMode' = ContractMode
        BY <1>3, <1>4, ModesNext
  <2>4. QED
        BY <2>2, <2>3 DEF Contract!contractVars
<1>5. CASE pc' = "next" /\ UNCHANGED <<results, stop>>
  <2>1. NumDone' = NumDone
        BY <1>5 DEF NumDone
  <2>2. /\ ContractJob' = ContractJob /\ ContractDone' = ContractDone
        /\ ContractCode' = ContractCode
        BY <1>1, <1>5, <2>1, ContractKept
  <2>3. ContractMode' = "running"
        BY <1>5, ModesNext DEF InLoop
  <2>4. Contract!Recover
        BY <1>3, <2>2, <2>3 DEF Contract!Recover
  <2>5. QED
        BY <2>4 DEF Contract!Next
<1>6. CASE /\ pc' = "report" /\ UNCHANGED ci
           /\ results' = [results EXCEPT ![Len(results)].reason = GaveUp]
           /\ stop' = [stop EXCEPT !.code = 3]
  <2>1. /\ NumDone' = NumDone
        /\ \A i \in DOMAIN results : results'[i].status = results[i].status
        BY <1>1, <1>6, MarkedGaveUp
  <2>2. \A i \in 1..NumDone : i \in DOMAIN results
    <3>1. NumDone <= Len(results) /\ Len(results) \in Nat /\ NumDone \in Nat
          BY <1>2, PlansType, LenProperties DEF RunInv, ResultsInv, ResultsAre, RunnerTypeOK
    <3>2. DOMAIN results = 1..Len(results)
          BY <1>2, LenProperties DEF RunnerTypeOK
    <3>3. QED
          BY <3>1, <3>2
  <2>3. ContractJob' = ContractJob
        BY <1>1 DEF ContractJob, Plans
  <2>4. ContractDone' = ContractDone
        BY <2>1, <2>2 DEF ContractDone
  <2>5. ContractMode' = "stopped"
        BY <1>6, ModesNext
  <2>6. ContractCode' = 3
    <3>1. stop'.code = 3
          BY <1>2, <1>6 DEF RunnerTypeOK
    <3>2. QED
          BY <1>1, <1>3, <3>1 DEF ContractCode
  <2>7. Contract!GiveUp
        BY <1>3, <2>3, <2>4, <2>5, <2>6 DEF Contract!GiveUp
  <2>8. QED
        BY <2>7 DEF Contract!Next
<1>7. QED
      BY <1>4, <1>5, <1>6, RecoveryCases

LEMMA LastCaseIsContracted ==
  ASSUME RunInv, NoMoreCases
  PROVE  Contract!AllRun
<1>1. /\ UNCHANGED <<opts, suite, stop, exit, results>>
      /\ pc = "next" /\ ci > Len(Plans) /\ pc' = "report"
      BY DEF NoMoreCases, Goto, inputVars, loopVars
<1>2. NumDone = Len(Plans)
  <2>1. ci \in 1..(Len(Plans) + 1) /\ Len(Plans) \in Nat /\ NumDone = ci - 1
        BY <1>1, PlansType DEF RunInv, RunnerTypeOK, ResultsInv, InLoop
  <2>2. QED
        BY <1>1, <2>1
<1>3. NumDone' = NumDone
      BY <1>1 DEF NumDone
<1>4. /\ ContractJob' = ContractJob /\ ContractDone' = ContractDone
      /\ ContractCode' = ContractCode
      BY <1>1, <1>3, ContractKept
<1>5. ContractMode = "running" /\ ContractMode' = "stopped"
      BY <1>1, Modes, ModesNext DEF InLoop
<1>6. Len(ContractDone) = ContractJob.cases
      BY <1>2, DoneIsSeq DEF ContractJob
<1>7. QED
      BY <1>4, <1>5, <1>6 DEF Contract!AllRun

\* The results of the issues are ERRORs, the others those of the cases.
LEMMA WhatResultsHave ==
  ASSUME RunInv, pc \in Reported
  PROVE  /\ \A s \in {"FATAL", "FAIL", "ORDER"} :
               Has(results, s) <=> \E i \in DOMAIN ContractDone : ContractDone[i] = s
         /\ Has(results, "ERROR") <=>
               \/ suite.issues > 0
               \/ \E i \in DOMAIN ContractDone : ContractDone[i] = "ERROR"
<1>1. RunnerTypeOK /\ ResultsAre(NumDone) /\ Len(results) = NumDone + suite.issues
      BY DEF RunInv, ResultsInv
<1>2. /\ DOMAIN ContractDone = 1..NumDone /\ NumDone \in Nat
      /\ \A i \in 1..NumDone : ContractDone[i] = results[i].status
      BY DoneIsSeq
<1>3. DOMAIN results = 1..(NumDone + suite.issues) /\ suite.issues \in Nat
      BY <1>1, PlansType, LenProperties DEF RunnerTypeOK
<1>4. \A i \in (NumDone + 1)..(NumDone + suite.issues) : results[i].status = "ERROR"
  <2>1. \A n : IssueResult(n).status = "ERROR"
        BY DEF IssueResult
  <2>2. QED
        BY <1>1, <2>1 DEF ResultsAre
<1>5. /\ \A i \in DOMAIN results :
            i \in 1..NumDone \/ i \in (NumDone + 1)..(NumDone + suite.issues)
      /\ \A i \in 1..NumDone : i \in DOMAIN results
      BY <1>2, <1>3
<1>6. suite.issues > 0 => /\ NumDone + 1 \in (NumDone + 1)..(NumDone + suite.issues)
                          /\ NumDone + 1 \in DOMAIN results
      BY <1>2, <1>3
<1>7. suite.issues = 0 => \A i : i \notin (NumDone + 1)..(NumDone + suite.issues)
      BY <1>2, <1>3
<1>8. \A s \in {"FATAL", "FAIL", "ORDER"} :
        Has(results, s) <=> \E i \in DOMAIN ContractDone : ContractDone[i] = s
  <2>1. \A s : (\E i \in DOMAIN ContractDone : ContractDone[i] = s) => Has(results, s)
        BY <1>2, <1>5 DEF Has
  <2>2. ASSUME NEW s \in {"FATAL", "FAIL", "ORDER"}, Has(results, s)
        PROVE  \E i \in DOMAIN ContractDone : ContractDone[i] = s
    <3>1. PICK i \in DOMAIN results : results[i].status = s
          BY <2>2 DEF Has
    <3>2. i \in 1..NumDone
          BY <1>4, <1>5, <2>2, <3>1
    <3>3. QED
          BY <1>2, <3>1, <3>2
  <2>3. QED
        BY <2>1, <2>2
<1>9. Has(results, "ERROR") <=>
        \/ suite.issues > 0
        \/ \E i \in DOMAIN ContractDone : ContractDone[i] = "ERROR"
  <2>1. (\E i \in DOMAIN ContractDone : ContractDone[i] = "ERROR") => Has(results, "ERROR")
        BY <1>2, <1>5 DEF Has
  <2>2. suite.issues > 0 => Has(results, "ERROR")
        BY <1>4, <1>6 DEF Has
  <2>3. ASSUME Has(results, "ERROR"), suite.issues = 0
        PROVE  \E i \in DOMAIN ContractDone : ContractDone[i] = "ERROR"
    <3>1. PICK i \in DOMAIN results : results[i].status = "ERROR"
          BY <2>3 DEF Has
    <3>2. i \in 1..NumDone
          BY <1>5, <1>7, <2>3
    <3>3. QED
          BY <1>2, <3>1, <3>2
  <2>4. suite.issues = 0 \/ suite.issues > 0
        BY <1>3
  <2>5. QED
        BY <2>1, <2>2, <2>3, <2>4
<1>10. QED
      BY <1>8, <1>9

LEMMA ExitIsContracted ==
  ASSUME RunInv, Exit
  PROVE  Contract!Exit
<1>1. /\ UNCHANGED <<opts, suite, stop, results>> /\ pc = "exit" /\ pc' = "done"
      /\ exit' = DeriveExitCode(results, opts.orderIsPass, stop.code)
      BY DEF Exit, Goto, inputVars, loopVars
<1>2. RunnerTypeOK /\ Located /\ pc \in Reported
      BY <1>1 DEF RunInv, Reported
<1>3. exit = -1 /\ stop.code \in 0..3 /\ exit' \in 0..3
      BY <1>1, <1>2 DEF Located, RunnerTypeOK, DeriveExitCode
<1>4. NumDone' = NumDone
      BY <1>1 DEF NumDone
<1>5. ContractJob' = ContractJob /\ ContractDone' = ContractDone
      BY <1>1, <1>4 DEF ContractJob, ContractDone, Plans
<1>6. ContractCode = stop.code /\ ContractCode' = exit'
      BY <1>3 DEF ContractCode
<1>7. ContractMode = "stopped" /\ ContractMode' = "exited"
      BY <1>1, <1>2, Modes, ModesNext
<1>8. ContractJob.issues = suite.issues /\ ContractJob.orderIsPass = opts.orderIsPass
      BY DEF ContractJob
<1>9. Contract!ExitCode = DeriveExitCode(results, opts.orderIsPass, stop.code)
  <2>1. /\ Contract!Some({"FATAL", "ERROR", "FAIL"}) \/ suite.issues > 0 <=>
              Has(results, "FATAL") \/ Has(results, "ERROR") \/ Has(results, "FAIL")
        /\ Contract!Some({"ORDER"}) <=> Has(results, "ORDER")
        BY <1>2, WhatResultsHave DEF Contract!Some
  <2>2. stop.code >= 2 <=> stop.code \in {2, 3}
        BY <1>3
  <2>3. QED
        BY <1>6, <1>8, <2>1, <2>2 DEF Contract!ExitCode, DeriveExitCode
<1>10. QED
      BY <1>1, <1>5, <1>6, <1>7, <1>9 DEF Contract!Exit

LEMMA BreakOffIsContracted ==
  ASSUME RunInv, Abort \/ Reject
  PROVE  Contract!BreakOff
<1>1. /\ UNCHANGED <<opts, suite, results, stop>> /\ pc \notin {"done", "left"}
      /\ pc' = "left" /\ exit' \in {1, 130}
      BY DEF Abort, Reject, Goto, inputVars, loopVars
<1>2. NumDone' = NumDone
      BY <1>1 DEF NumDone
<1>3. ContractJob' = ContractJob /\ ContractDone' = ContractDone /\ ContractCode' = exit'
      BY <1>1, <1>2 DEF ContractJob, ContractDone, ContractCode, Plans
<1>4. ContractMode' = "aborted" /\ ContractMode \notin {"exited", "aborted"}
  <2>1. ContractMode' = "aborted"
        BY <1>1, ModesNext
  <2>2. ContractMode \notin {"exited", "aborted"}
        BY <1>1 DEF ContractMode
  <2>3. QED
        BY <2>1, <2>2
<1>5. QED
      BY <1>1, <1>3, <1>4 DEF Contract!BreakOff

\* The steps the contract does not see.
LEMMA UnseenSteps ==
  ASSUME RunInv,
         \/ BeginRun \/ RunCommand \/ BeginCases \/ NextCase \/ StartCase
         \/ \E phase \in Phases : EnterPhase(phase) \/ SkipPhase(phase) \/ EndPhase(phase)
         \/ InPhase \/ Server
         \/ AcceptNothing \/ AcceptAll \/ AskUser \/ AnswerYes \/ AnswerNo
         \/ CopyOut \/ CopyDone \/ SaveRun \/ SaveLast \/ CloseViewdiff
         \/ UNCHANGED allVars
  PROVE  UNCHANGED Contract!contractVars
<1>1. CASE BeginRun \/ RunCommand \/ BeginCases \/ NextCase \/ StartCase
  <2>1. /\ UNCHANGED <<opts, suite, stop, exit, results>>
        /\ pc \in InLoop /\ pc' \in InLoop
        BY <1>1 DEF BeginRun, RunCommand, BeginCases, NextCase, StartCase, Goto, inputVars,
                    loopVars, InLoop, InCase, Phases
  <2>2. QED
        BY <2>1, QuietSteps
<1>2. ASSUME NEW phase \in Phases, SkipPhase(phase) \/ EndPhase(phase)
      PROVE  UNCHANGED Contract!contractVars
  <2>1. /\ UNCHANGED <<opts, suite, stop, exit, results>>
        /\ pc = phase /\ pc' = After(phase)
        BY <1>2 DEF SkipPhase, EndPhase, Goto, inputVars, loopVars
  <2>2. pc \in InLoop /\ pc' \in InLoop
        BY <2>1 DEF After, InLoop, InCase, Phases
  <2>3. QED
        BY <2>1, <2>2, QuietSteps
<1>3. CASE (\E phase \in Phases : EnterPhase(phase)) \/ InPhase \/ Server \/ UNCHANGED allVars
  <2>1. UNCHANGED mainVars
        BY <1>3 DEF EnterPhase, InPhase, Server, allVars
  <2>2. UNCHANGED <<opts, suite, stop, exit, results>> /\ pc' = pc
        BY <2>1 DEF mainVars, inputVars, loopVars
  <2>3. QED
        BY <2>2, QuietSteps
<1>4. CASE \/ AcceptNothing \/ AcceptAll \/ AskUser \/ AnswerYes \/ AnswerNo
           \/ CopyOut \/ CopyDone \/ SaveRun \/ SaveLast \/ CloseViewdiff
  <2>1. /\ UNCHANGED <<opts, suite, stop, exit, results>>
        /\ pc \in Reported \ {"done"} /\ pc' \in Reported \ {"done"}
        BY <1>4 DEF AcceptNothing, AcceptAll, AskUser, AnswerYes, AnswerNo, Accept, CopyOut,
                    CopyDone, SaveRun, SaveLast, Save, CloseViewdiff, Goto, inputVars,
                    loopVars, Reported
  <2>2. QED
        BY <2>1, QuietSteps
<1>5. QED
      BY <1>1, <1>2, <1>3, <1>4

LEMMA IssuesAreUnseen ==
  ASSUME RunInv, ReportIssues
  PROVE  UNCHANGED Contract!contractVars
<1>1. /\ UNCHANGED <<opts, suite, stop, exit>> /\ pc = "report" /\ pc' = "accept"
      /\ NumDone' = NumDone
      /\ \A i \in 1..NumDone : results'[i].status = results[i].status
      BY IssuesAdded
<1>2. /\ ContractJob' = ContractJob /\ ContractDone' = ContractDone
      /\ ContractCode' = ContractCode
      BY <1>1, ContractKept
<1>3. ContractMode' = "stopped" /\ ContractMode = "stopped"
      BY <1>1, Modes, ModesNext DEF Reported
<1>4. QED
      BY <1>2, <1>3 DEF Contract!contractVars

LEMMA StepIsContracted ==
  ASSUME RunInv, [RunnerNext]_allVars
  PROVE  [Contract!Next]_(Contract!contractVars)
<1>1. CASE EndCase \/ StopOnError \/ StopOnFatal \/ BeginRecovery
      BY <1>1, CaseIsContracted DEF Contract!Next
<1>2. CASE RecoverClean \/ RecoverStart
      BY <1>2, RecoveryIsContracted
<1>3. CASE NoMoreCases
      BY <1>3, LastCaseIsContracted DEF Contract!Next
<1>4. CASE Exit
      BY <1>4, ExitIsContracted DEF Contract!Next
<1>5. CASE Abort \/ Reject
      BY <1>5, BreakOffIsContracted DEF Contract!Next
<1>6. CASE ReportIssues
      BY <1>6, IssuesAreUnseen
<1>7. CASE \/ BeginRun \/ RunCommand \/ BeginCases \/ NextCase \/ StartCase
           \/ \E phase \in Phases : EnterPhase(phase) \/ SkipPhase(phase) \/ EndPhase(phase)
           \/ InPhase \/ Server
           \/ AcceptNothing \/ AcceptAll \/ AskUser \/ AnswerYes \/ AnswerNo
           \/ CopyOut \/ CopyDone \/ SaveRun \/ SaveLast \/ CloseViewdiff
           \/ UNCHANGED allVars
      BY <1>7, UnseenSteps
<1>8. QED
      BY <1>1, <1>2, <1>3, <1>4, <1>5, <1>6, <1>7 DEF RunnerNext, RunCase, Main, User

\* Runner implements RunContract: the cases run in order and stop where the
\* options say, no case runs on a lost server before a recovery has succeeded,
\* and the exit code says how the run ended.
THEOREM RunsKeepTheContract == RunnerSpec => ImplementsContract
<1>1. RunnerInit => Contract!Init
  <2>1. SUFFICES ASSUME RunnerInit
                 PROVE  Contract!Init
        OBVIOUS
  <2>2. pc = "start" /\ exit = -1 /\ results = <<>> /\ stop.code = 0
        BY <2>1 DEF RunnerInit
  <2>3. ContractCode = 0 /\ ContractMode = "running"
        BY <2>2, Modes DEF ContractCode, InLoop
  <2>4. ContractDone = <<>>
    <3>1. {i \in DOMAIN results : results[i].blame # "none"} = {}
          BY <2>2
    <3>2. NumDone = 0
          BY <3>1, FS_EmptySet DEF NumDone
    <3>3. RunInv
          BY <2>1, StartInv
    <3>4. QED
          BY <3>2, <3>3, DoneIsSeq, EmptySeq
  <2>5. QED
        BY <2>3, <2>4 DEF Contract!Init
<1>2. RunInv /\ [RunnerNext]_allVars => [Contract!Next]_(Contract!contractVars)
      BY StepIsContracted
<1>3. QED
      BY <1>1, <1>2, SpecRunInv, PTL DEF RunnerSpec, ImplementsContract, Contract!Spec
=============================================================================
