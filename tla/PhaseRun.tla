------------------------------ MODULE PhaseRun ------------------------------
(***************************************************************************)
(* One call of _run_phase: a parsed SQL script run against the server.     *)
(*                                                                         *)
(*   SYSTEM actions before the last SQL line                               *)
(*   -> hidden SQL, port check       (only if the script has SKIP blocks)  *)
(*   -> visible SQL, port check                                            *)
(*   -> SYSTEM actions after the last SQL line, port check                 *)
(*                                                                         *)
(* Each command is one step, so that the server can die, or finish a late  *)
(* start, between any two of them.  The server, `is`, `server` and `clean` *)
(* are external: their outcomes are nondeterministic.                      *)
(***************************************************************************)
EXTENDS Verdict

CONSTANTS
    Scripts,     \* the parsed scripts: what parse_sql_file may return
    Outcomes,    \* the command results the environment may produce
    MaxCrashes   \* how often the server may die in a behaviour

\* What a command does to the server is told by its name.
Commands == {"server start", "server stop", "clean", "other"}

ScriptType ==
    [issue  : {NoReason, "parse_error", "unknown_directive"},
     pre    : Seq(Commands),
     hidden : BOOLEAN,
     post   : Seq(Commands)]

ASSUME ScriptsAssumption == Scripts \subseteq ScriptType

ASSUME OutcomesAssumption == Outcomes \subseteq CommandResult

ASSUME CrashesAssumption == MaxCrashes \in Nat

VARIABLES
    server,   \* the database server, as a TCP connect to its port sees it
    crashes,  \* how often it has died
    script,   \* the script of the current (or last) call
    step,     \* where the call is
    k,        \* the next SYSTEM action of the list being run
    trace,    \* what the call has done: [op, kind, found], oldest first
    ret       \* what the call returned

\* No script (a phase that a case does not have), and no result yet.
NoScript == [issue |-> "absent", pre |-> <<>>, hidden |-> FALSE, post |-> <<>>]
NoVerdict == [status |-> "none", reason |-> NoReason]

serverVars == <<server, crashes>>
phaseVars == <<script, step, k, trace, ret>>

ServerStates == {"up", "starting", "down"}

Steps == {"idle", "pre", "hidden", "hiddenPort", "visible", "visiblePort",
          "post", "postPort", "returned"}

Last == trace[Len(trace)]

(***************************************************************************)
(* The server.  A start that was killed by its timeout may still complete, *)
(* and one that succeeded may return before the port is open.              *)
(***************************************************************************)
Effect(command, kind) ==
    CASE command = "server start" /\ kind = "ok" ->
            IF server = "up" THEN {"up"} ELSE {"up", "starting"}
      [] command = "server start" /\ kind = "timeout" ->
            {server} \cup {"up", "starting"}
      [] command \in {"server stop", "clean"} /\ kind = "ok" -> {"down"}
      [] command = "server stop" /\ kind = "timeout" -> {server, "down"}
      [] command = "clean" /\ kind \in {"rc", "timeout"} -> {server, "down"}
      [] OTHER -> {server}

IsPortOpen == server = "up"

Crash ==
    /\ server # "down"
    /\ crashes < MaxCrashes
    /\ server' = "down"
    /\ crashes' = crashes + 1
    /\ UNCHANGED phaseVars

Boot ==
    /\ server = "starting"
    /\ server' = "up"
    /\ UNCHANGED <<crashes, phaseVars>>

(***************************************************************************)
(* Building blocks.                                                        *)
(***************************************************************************)
Entry(op, kind, found) == [op |-> op, kind |-> kind, found |-> found]

Record(op, r) == trace' = Append(trace, Entry(op, r.kind, r.found))

Return(verdict) ==
    /\ ret' = verdict
    /\ step' = "returned"

GoTo(next) ==
    /\ step' = next
    /\ UNCHANGED ret

\* run_system_actions, one action at a time: the list stops at a failure.
SystemAction(here, actions) ==
    /\ step = here
    /\ k <= Len(actions)
    /\ \E r \in Outcomes :
        /\ server' \in Effect(actions[k], r.kind)
        /\ Record("system", r)
        /\ IF r.kind = "ok" THEN k' = k + 1 /\ GoTo(here)
           ELSE UNCHANGED k /\ Return(SystemVerdict(r))
    /\ UNCHANGED <<crashes, script>>

\* execute_is and the search of its output for a lost connection.
RunSql(here, next) ==
    /\ step = here
    /\ \E r \in Outcomes :
        /\ Record(here, r)
        /\ IF IsFatal(r.found) THEN Return(Fatal("server_disconnected"))
           ELSE GoTo(next)
    /\ UNCHANGED <<serverVars, script, k>>

\* The port is checked before the result of the SQL is looked at.
CheckPort(here, next, tolerated) ==
    /\ step = here
    /\ Record("port", [kind |-> IF IsPortOpen THEN "open" ELSE "closed",
                       found |-> {}])
    /\ IF ~IsPortOpen THEN Return(Fatal("server_port_closed"))
       ELSE IF Last.kind = "timeout" THEN Return(Error("timeout"))
       ELSE IF Last.kind \notin tolerated THEN Return(Error("exec_failed"))
       ELSE GoTo(next)
    /\ UNCHANGED <<serverVars, script>>

(***************************************************************************)
(* The steps of _run_phase.                                                *)
(***************************************************************************)
\* Called by _run_case; a script with parse issues is refused unrun.
Call(s) ==
    /\ step = "idle"
    /\ script' = s
    /\ k' = 1
    /\ trace' = <<>>
    /\ IF s.issue # NoReason THEN Return(Error(s.issue)) ELSE GoTo("pre")
    /\ UNCHANGED serverVars

PreAction == SystemAction("pre", script.pre)

\* Mutant: the hidden SQL is left out.
PreDoneSkipsHidden ==
    /\ step = "pre"
    /\ k > Len(script.pre)
    /\ GoTo("visible")
    /\ UNCHANGED <<serverVars, script, k, trace>>

PreDone ==
    /\ step = "pre"
    /\ k > Len(script.pre)
    /\ GoTo(IF script.hidden THEN "hidden" ELSE "visible")
    /\ UNCHANGED <<serverVars, script, k, trace>>

RunHidden == RunSql("hidden", "hiddenPort")

\* Mutant: a hidden `is` that could not be started is ignored, too.
CheckHiddenIgnoresError ==
    CheckPort("hiddenPort", "visible", {"ok", "rc", "error"}) /\ UNCHANGED k

\* Hidden SQL is best-effort cleanup: its return code is ignored.
CheckHidden == CheckPort("hiddenPort", "visible", {"ok", "rc"}) /\ UNCHANGED k

RunVisible == RunSql("visible", "visiblePort")

\* Mutant: the actions after the SQL are counted from 0.
CheckVisibleFromZero == CheckPort("visiblePort", "post", {"ok"}) /\ k' = 0

CheckVisible == CheckPort("visiblePort", "post", {"ok"}) /\ k' = 1

PostAction == SystemAction("post", script.post)

\* The last port check is made only if there were actions after the SQL.
PostDone ==
    /\ step = "post"
    /\ k > Len(script.post)
    /\ IF script.post = <<>> THEN Return(Pass) ELSE GoTo("postPort")
    /\ UNCHANGED <<serverVars, script, k, trace>>

CheckPost ==
    /\ step = "postPort"
    /\ Record("port", [kind |-> IF IsPortOpen THEN "open" ELSE "closed",
                       found |-> {}])
    /\ Return(IF IsPortOpen THEN Pass ELSE Fatal("server_port_closed"))
    /\ UNCHANGED <<serverVars, script, k>>

PhaseStep ==
    \/ PreAction \/ PreDone
    \/ RunHidden \/ CheckHidden
    \/ RunVisible \/ CheckVisible
    \/ PostAction \/ PostDone \/ CheckPost

\* The caller has taken the result; the locals of the call are gone.
Forget ==
    /\ step' = "idle"
    /\ script' = NoScript
    /\ k' = 1
    /\ trace' = <<>>
    /\ ret' = NoVerdict

(***************************************************************************)
(* The specification: scripts run one after the other on one server.       *)
(***************************************************************************)
PhaseInit ==
    /\ crashes = 0
    /\ script = NoScript
    /\ step = "idle"
    /\ k = 1
    /\ trace = <<>>
    /\ ret = NoVerdict

Init == server \in {"up", "down"} /\ PhaseInit

TakeResult ==
    /\ step = "returned"
    /\ Forget
    /\ UNCHANGED serverVars

Next ==
    \/ \E s \in Scripts : Call(s)
    \/ PhaseStep
    \/ TakeResult
    \/ Crash \/ Boot

vars == <<serverVars, phaseVars>>

Spec == Init /\ [][Next]_vars

(***************************************************************************)
(* Properties.                                                             *)
(***************************************************************************)
TraceEntry ==
    [op    : {"system", "hidden", "visible", "port"},
     kind  : {"ok", "rc", "timeout", "error", "open", "closed"},
     found : SUBSET FatalPatterns]

\* Type invariant of the call and of the server.
TypeOK ==
    /\ server \in ServerStates
    /\ crashes \in 0..MaxCrashes
    /\ script \in Scripts \cup {NoScript}
    /\ step \in Steps
    /\ k \in Nat \ {0}
    /\ trace \in Seq(TraceEntry)
    /\ ret \in Verdicts \cup {NoVerdict}

\* What a script that meets no trouble does.
Systems(actions) == [i \in 1..Len(actions) |-> "system"]

Plan(s) ==
       Systems(s.pre)
    \o (IF s.hidden THEN <<"hidden", "port">> ELSE <<>>)
    \o <<"visible", "port">>
    \o Systems(s.post)
    \o (IF s.post = <<>> THEN <<>> ELSE <<"port">>)

\* A phase may take back nothing and skip nothing: what it has done is always
\* an initial part of its script's plan (_run_phase, every early return).
TraceFollowsPlan ==
    /\ Len(trace) <= Len(Plan(script))
    /\ \A i \in DOMAIN trace : trace[i].op = Plan(script)[i]

\* Whether a command, or a port check, leaves nothing to report.
Fine(e) ==
    /\ e.op = "port" => e.kind = "open"
    /\ e.op \in {"system", "visible"} => e.kind = "ok"
    /\ e.op = "hidden" => e.kind \in {"ok", "rc"}
    /\ e.op \in {"hidden", "visible"} => e.found \cap StrongMarkers = {}

\* Nothing is run after trouble, except that SQL which failed without a
\* fatal marker is still followed by its port check.
TroubleStops ==
    \A i \in 1..(Len(trace) - 1) :
        \/ Fine(trace[i])
        \/ /\ trace[i].op \in {"hidden", "visible"}
           /\ i = Len(trace) - 1
           /\ step = "returned"

\* The evidence that the server was lost: a refused connection, SQL output
\* with a fatal marker whatever its result, or a failed SYSTEM action with one.
Lost(e) ==
    \/ e.kind = "closed"
    \/ /\ e.found \cap StrongMarkers # {}
       /\ \/ e.op \in {"hidden", "visible"}
          \/ e.op = "system" /\ e.kind = "rc"

ServerLost == \E i \in DOMAIN trace : Lost(trace[i])

TimedOut == \E i \in DOMAIN trace : trace[i].kind = "timeout"

\* The verdict a phase returns is the one its whole history calls for: PASS
\* only for a completed plan without trouble, FATAL exactly when the server
\* was lost (even if the SQL also timed out), timeout only without such loss.
VerdictTellsTrace ==
    step = "returned" /\ script.issue = NoReason =>
        /\ ret.status = "PASS" <=>
              /\ Len(trace) = Len(Plan(script))
              /\ \A i \in DOMAIN trace : Fine(trace[i])
        /\ ret.status = "FATAL" <=> ServerLost
        /\ ret.reason = "timeout" <=> ~ServerLost /\ TimedOut
        /\ ret.status \in {"PASS", "ERROR", "FATAL"}
=============================================================================
