-------------------------- MODULE MCIncludeRewrite --------------------------
(* Instance of IncludeRewrite: two scripts that include themselves, each   *)
(* other or nothing, twice or by either command.                           *)
EXTENDS IncludeRewrite

CONSTANTS f, g

MCScripts == {f, g}

IncludeBy(c, s) == [cmd |-> c, to |-> s, at |-> "source"]

Kinds == {Statement, IncludeBy("@", f), IncludeBy("@@", f), IncludeBy("START", g)}

UpTo1 == {<<>>} \cup {<<k>> : k \in Kinds}

UpTo2 == UpTo1 \cup {<<k, l>> : k, l \in Kinds}

=============================================================================
