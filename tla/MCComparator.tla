---------------------------- MODULE MCComparator ----------------------------
(* Instance of Comparator: a header of two columns over up to three rows,  *)
(* with empty cells, with blanks and bars in cells, and with bars between  *)
(* the cells, and what may stand between and after them.                   *)
EXTENDS Comparator

\* A word in its column.
W(text, column) == [text |-> text, column |-> column]

\* The column of a bar says nothing.
B == W(Bar, 0)

RowOf(words) == [kind |-> "row", words |-> words]

Of(kind) == [kind |-> kind, words |-> IF kind = "blank" THEN <<>> ELSE <<W(kind, 1)>>]

Header == RowOf(<<W("x", 1), W("y", 2)>>)

BarredHeader == RowOf(<<W("x", 1), B, W("y", 2)>>)

TwoWordHeader == RowOf(<<W("x", 1), W("y", 1), W("y", 2)>>)

\* x y and y x.
Plain == {RowOf(<<W(a, 1), W(b, 2)>>) : <<a, b>> \in {<<"x", "y">>, <<"y", "x">>}}

\* A word beside an empty cell; two words in one cell beside an empty one;
\* three words in two cells; a cell that holds x|y.
Gaps == {RowOf(<<W("x", 1)>>), RowOf(<<W("y", 1)>>), RowOf(<<W("x", 2)>>)}

Blanks ==
    {RowOf(<<W("x", 1), W("y", 1)>>), RowOf(<<W("x", 2), W("y", 2)>>),
     RowOf(<<W("x", 1), W("y", 1), W("x", 2)>>), RowOf(<<W("x", 1), W("y", 2), W("x", 2)>>),
     RowOf(<<W("y", 1), W("x", 1), W("x", 2)>>)}

BarInCell == RowOf(<<W("x", 1), B, W("y", 1), W("x", 2)>>)

\* Between bars: x | y, y | x, x y | x, x | y x, x |, | x.
Barred ==
    {RowOf(<<W("x", 1), B, W("y", 2)>>), RowOf(<<W("y", 1), B, W("x", 2)>>),
     RowOf(<<W("x", 1), W("y", 1), B, W("x", 2)>>),
     RowOf(<<W("x", 1), B, W("y", 2), W("x", 2)>>),
     RowOf(<<W("x", 1), B>>), RowOf(<<B, W("x", 2)>>)}

\* A timing line of two words, which may pass for a row.
Timing == [kind |-> "timing", words |-> <<W("x", 1), W("y", 2)>>]

Under == {<<>>, <<Of("rule")>>, <<Timing>>}

Below == {<<>>, <<Of("note")>>, <<Timing, Of("banner"), Of("blank")>>}

MCWords == {"x", "y", Bar, "rule", "note", "banner"}

Pairs(S) == {<<r, s>> : r, s \in S}

PlainTexts ==
    {<<Header>> \o u \o r \o b :
        u \in Under, b \in Below,
        r \in {<<r>> : r \in Plain} \cup Pairs(Plain)
                \cup {<<r, s, s>> : r, s \in Plain} \cup {<<r, s, r>> : r, s \in Plain}}

OtherTexts ==
    {<<Header>> \o r : r \in Pairs(Plain \cup Gaps \cup Blanks \cup {BarInCell})}
        \cup {<<TwoWordHeader>> \o r : r \in Pairs(Blanks)}
        \cup {<<BarredHeader, Of("rule")>> \o r : r \in Pairs(Barred)}

MCTexts == PlainTexts \cup OtherTexts
=============================================================================
