------------------------- MODULE MCDirectiveParser -------------------------
(* Every script of up to three lines of any kind, and of five lines of the *)
(* kinds that depend on each other: long enough to set, unset and set a    *)
(* variable between two commands, and to have SQL on every side of a block.*)
EXTENDS DirectiveParser

CONSTANTS k, v, w

MCKeys == {k}
MCValues == {v, w}
MCBaseEnv == [key \in {k} |-> w]

Plain(kind) == [kind |-> kind, key |-> NoValue, value |-> NoValue, seconds |-> 0]
Set(value) == [Plain("setEnv") EXCEPT !.key = k, !.value = value]
Unset == [Plain("unsetEnv") EXCEPT !.key = k]
Wait(n) == [Plain("timeout") EXCEPT !.seconds = n]

Basic == {Plain("system"), Set(v), Unset, Plain("skipBegin"), Plain("skipEnd"), Plain("sql")}

MCLines ==
    Basic \cup {Set(w), Wait(2), Plain("malformed"), Plain("unknown"),
                Plain("comment")}

MCTexts == (UNION {[1..n -> MCLines] : n \in 0..3}) \cup [1..5 -> Basic]
=============================================================================
