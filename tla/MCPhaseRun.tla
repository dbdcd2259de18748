----------------------------- MODULE MCPhaseRun -----------------------------
(* Instance of PhaseRun: every shape of script that has at most two SYSTEM *)
(* actions before and after its SQL, with every kind of command result.    *)
EXTENDS PhaseRun

Script(issue, pre, hidden, post) ==
    [issue |-> issue, pre |-> pre, hidden |-> hidden, post |-> post]

ActionLists ==
    {<<>>, <<"other">>, <<"server stop", "server start">>, <<"server start", "other">>,
     <<"clean">>}

MCScripts ==
    {Script(NoReason, pre, hidden, post) :
        pre \in ActionLists, hidden \in BOOLEAN, post \in ActionLists}
    \cup {Script("parse_error", <<"other">>, TRUE, <<>>)}

MCOutcomes ==
    {r \in CommandResult :
        r.found \in {{}, {Banner}, {Banner, "ERR-50032"}}}
=============================================================================
