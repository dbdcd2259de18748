------------------------------ MODULE MCRunner ------------------------------
(* Instance of Runner: suites of up to two cases, one of them a triple, in *)
(* full and filtered form, under command lines that exercise each policy.  *)
EXTENDS Runner

Sql(hidden, post) ==
    [issue |-> NoReason, pre |-> <<>>, hidden |-> hidden, post |-> post]

Plain == Sql(FALSE, <<>>)
Stopper == Sql(FALSE, <<"server stop">>)
Garbled == [Plain EXCEPT !.issue = "parse_error"]
Hiding == Sql(TRUE, <<>>)

MCScripts == {Plain, Stopper, Garbled, Hiding}

Single(i, test, l) ==
    [index |-> i, init |-> NoScript, test |-> test, destroy |-> NoScript, lst |-> l]
Triple(i, init, test, destroy, l) ==
    [index |-> i, init |-> init, test |-> test, destroy |-> destroy, lst |-> l]

MCSuites ==
    {[plans |-> <<Triple(1, Plain, Plain, Plain, TRUE), Single(2, Plain, FALSE)>>, issues |-> 0],
     [plans |-> <<Single(1, Plain, TRUE), Triple(2, Plain, Plain, Plain, FALSE)>>, issues |-> 1],
     [plans |-> <<Triple(1, NoScript, Hiding, Stopper, TRUE)>>, issues |-> 0],
     [plans |-> <<Triple(2, Garbled, Plain, Plain, TRUE)>>, issues |-> 1],
     [plans |-> <<Single(2, Plain, FALSE), Single(5, Garbled, TRUE)>>, issues |-> 2],
     [plans |-> <<Single(1, Plain, TRUE), Single(2, Hiding, TRUE), Triple(3, Plain, Plain, Stopper, TRUE)>>,
      issues |-> 0],
     [plans |-> <<>>, issues |-> 1]}

Outcome(kind, found) == [kind |-> kind, found |-> found]

MCOutcomes ==
    {Outcome("ok", {Banner}), Outcome("ok", {Banner, "ERR-50032"}),
     Outcome("rc", {Banner}), Outcome("timeout", {}), Outcome("error", {})}

Default ==
    [serverMode |-> "start-once", cleanMode |-> "none", allowClean |-> FALSE,
     continueOnError |-> FALSE, orderCheck |-> TRUE, orderIsPass |-> FALSE,
     fatalRecover |-> FALSE, fatalRecoverMax |-> 1,
     acceptOut |-> FALSE, acceptMissingOnly |-> FALSE, openViewdiff |-> FALSE,
     yes |-> FALSE, nonInteractive |-> FALSE]

MCOptionSets ==
    {Default,
     [Default EXCEPT !.serverMode = "restart-once", !.cleanMode = "before-suite"],
     [Default EXCEPT !.serverMode = "per-case", !.cleanMode = "before-each",
                     !.allowClean = TRUE, !.orderIsPass = TRUE, !.openViewdiff = TRUE],
     [Default EXCEPT !.serverMode = "restart-once", !.cleanMode = "before-suite",
                     !.allowClean = TRUE, !.continueOnError = TRUE,
                     !.orderCheck = FALSE, !.acceptMissingOnly = TRUE],
     [Default EXCEPT !.serverMode = "none", !.continueOnError = TRUE,
                     !.fatalRecover = TRUE, !.fatalRecoverMax = 2,
                     !.acceptOut = TRUE, !.yes = TRUE],
     [Default EXCEPT !.acceptOut = TRUE, !.nonInteractive = TRUE]}
=============================================================================
