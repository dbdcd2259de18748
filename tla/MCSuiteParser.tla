--------------------------- MODULE MCSuiteParser ---------------------------
(***************************************************************************)
(* Every suite of three .ts files and two cases whose files have up to two *)
(* lines of the kinds below: self-includes, cycles of two and three files, *)
(* entered at either side, shared includes, repeated cases, conflicting    *)
(* timeouts, missing, outside and unreadable files; y is a test.sql, and x *)
(* the destroy.sql beside it.  Also the case y alone.                      *)
(***************************************************************************)
EXTENDS CasePlans, TLC

CONSTANTS root, a, b, x, y, init

Entry(f) == [target |-> f, timeout |-> 0]
Timed(f, t) == [target |-> f, timeout |-> t]
UpTo(kinds, n) == UNION {[1..k -> kinds] : k \in 0..n}

RootLines == [1..2 -> {Entry(a), Entry(b), Timed(x, 1)}]
ALines == UpTo({Entry(root), Entry(b), Timed(x, 2), Entry(y)}, 2)
BLines == UpTo({Entry(a), Entry(b), Timed(y, 1), Timed(a, 1), Entry(Malformed)}, 2)

Faults ==
    {[missing |-> {}, outside |-> {}, unreadable |-> {}],
     [missing |-> {y, b}, outside |-> {}, unreadable |-> {}],
     [missing |-> {init}, outside |-> {b}, unreadable |-> {a}],
     [missing |-> {}, outside |-> {root}, unreadable |-> {}]}

MCTsFiles == {root, a, b}
MCSqlFiles == {x, y, init}

Tree(f, arg, r, s, t) ==
    [root |-> arg, lines |-> (root :> r @@ a :> s @@ b :> t),
     missing |-> f.missing, outside |-> f.outside, unreadable |-> f.unreadable]

MCTrees ==
    {Tree(f, root, r, s, t) : f \in Faults, r \in RootLines, s \in ALines, t \in BLines}
    \cup {Tree(f, y, <<>>, <<>>, <<>>) : f \in {f \in Faults : y \notin f.missing}}

MCTriples == y :> [init |-> init, destroy |-> x]

\* The path of y ends with that of x.
MCFilters ==
    {[by |-> "nothing"], [by |-> "index", index |-> 2],
     [by |-> "path", file |-> y, endsOf |-> {y}],
     [by |-> "path", file |-> x, endsOf |-> {x, y}]}
=============================================================================
