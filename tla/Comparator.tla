----------------------------- MODULE Comparator -----------------------------
(***************************************************************************)
(* The comparison of an output with its baseline: what is normalised away, *)
(* what counts as a row, and when two outputs are taken to differ in their *)
(* order only.                                                             *)
(*                                                                         *)
(* A text is a sequence of lines.  A line is its kind and its words, from  *)
(* left to right, | being one of them.  Each word stands in a column of    *)
(* the table, as iSQL pads its output: a cell may hold no word, or several *)
(* of them.  The columns show as the width of the blanks between words,    *)
(* which the strict comparison sees and _split_row does not; blanks at the *)
(* ends of a line, and between the words of one cell, are left out.        *)
(*                                                                         *)
(* Kinds: "row" is anything without a pattern, "timing" is volatile but no *)
(* banner, "banner" is both, "note" is an error, a row count or the end of *)
(* the session (ignored in rows only), "rule" is a line of = or a short    *)
(* one of - (a long one is a banner), "blank" is empty.                    *)
(***************************************************************************)
EXTENDS Verdict, Selection

CONSTANTS
    Texts,      \* outputs and baselines
    Words,      \* words of a line
    Bar,        \* the word |
    NotRows,    \* an output that is not taken for one table
    NoBaseline

LineType ==
    [kind  : {"row", "timing", "banner", "note", "rule", "blank"},
     words : Seq([text : Words, column : Nat])]

ASSUME TextsAssumption == Texts \subseteq Seq(LineType)

ASSUME NotRowsAssumption == NotRows \notin Seq(Seq(Seq(Words)))

VARIABLES
    expected,   \* the baseline
    actual,     \* the output
    rawDiff,    \* --raw-diff
    autoOrder,  \* --order-check auto
    verdict     \* what is said of the two

compareVars == <<expected, actual, rawDiff, autoOrder, verdict>>

Volatile(line) == line.kind \in {"timing", "banner"}

\* Trailing blank lines go, volatile ones everywhere.
Normalize(text) ==
    LET kept == Kept(text, {i \in DOMAIN text : ~Volatile(text[i])})
    IN  Kept(kept, {i \in DOMAIN kept :
                      \E j \in DOMAIN kept : j >= i /\ kept[j].kind # "blank"})

Compared(text) == IF rawDiff THEN text ELSE Normalize(text)

Ignorable(line) == line.kind \in {"blank", "banner", "note"}

Written(line) == [i \in DOMAIN line.words |-> line.words[i].text]

Bars(line) == {i \in DOMAIN line.words : line.words[i].text = Bar}

WordsIn(line) == DOMAIN line.words \ Bars(line)

\* Mutant: any blank will do, bars or not.
SeparatedByBlanks(line, i, j) == i # j

\* Two words are taken for parts of different cells: there is a bar between
\* them, or no bar in the line and so any blank will do.
Separated(line, i, j) ==
    IF Bars(line) = {} THEN i # j
    ELSE \E b \in Bars(line) : (i < b /\ b < j) \/ (j < b /\ b < i)

\* The places of the words that are taken for one cell with the word at i.
Piece(line, i) == {j \in WordsIn(line) : ~Separated(line, i, j)}

\* The pieces from left to right, each of which starts at its first word.  An
\* empty cell makes no piece; a blank in a cell makes two, unless there are bars.
SplitRow(line) ==
    LET starts == {i \in WordsIn(line) : \A j \in Piece(line, i) : i <= j}
    IN  Kept([i \in DOMAIN line.words |-> Kept(Written(line), Piece(line, i))], starts)

Informative(text) == Kept(text, {i \in DOMAIN text : ~Ignorable(text[i])})

\* The rows under a header.
SplitRows(table) == [i \in 1..(Len(table) - 1) |-> SplitRow(table[i + 1])]

\* Mutant: rows of one width will do, whatever the header says.
IsTableHeadless(header, rows) ==
    \A i \in DOMAIN rows : rows[i] # <<>> /\ Len(rows[i]) = Len(rows[1])

\* All rows have the width of the header.  An empty cell makes a row shorter,
\* and a blank in a cell longer unless there are bars.
IsTable(header, rows) ==
    \A i \in DOMAIN rows : rows[i] # <<>> /\ Len(rows[i]) = Len(header)

ExtractRows(text) ==
    LET filtered == Informative(text)
        table == Kept(filtered, {i \in DOMAIN filtered : filtered[i].kind # "rule"})
        rows == SplitRows(table)
    IN  IF /\ Len(filtered) >= 3
           /\ Len(table) >= 2
           /\ IsTable(SplitRow(table[1]), rows)
        THEN rows ELSE NotRows

Occurrences(s, x) == Cardinality({i \in DOMAIN s : s[i] = x})

\* Counter(s) == Counter(t).
SameRows(s, t) ==
    \A x \in {s[i] : i \in DOMAIN s} \cup {t[i] : i \in DOMAIN t} :
        Occurrences(s, x) = Occurrences(t, x)

OrderOnly(s, t) ==
    /\ ExtractRows(s) # NotRows
    /\ ExtractRows(t) # NotRows
    /\ SameRows(ExtractRows(s), ExtractRows(t))
    /\ ExtractRows(s) # ExtractRows(t)

\* The comparison in _run_case.  A baseline that is not there reads as empty.
Compare ==
    LET lstExists == expected # NoBaseline
        exp == Compared(IF lstExists THEN expected ELSE <<>>)
        act == Compared(actual)
        same == exp = act
    IN  /\ verdict.status = "none"
        /\ verdict' = ClassifyCompare(
                        same,
                        ~same /\ autoOrder /\ lstExists /\ OrderOnly(exp, act),
                        lstExists)
        /\ UNCHANGED <<expected, actual, rawDiff, autoOrder>>

Init ==
    /\ expected \in Texts \cup {NoBaseline}
    /\ actual \in Texts
    /\ rawDiff \in BOOLEAN
    /\ autoOrder \in BOOLEAN
    /\ verdict = [status |-> "none", reason |-> NoReason]

Spec == Init /\ [][Compare]_compareVars

(***************************************************************************)
(* Properties.  The cells of a table are told from the columns in which    *)
(* the words stand, not from how _split_row reads them.                    *)
(***************************************************************************)
Table(text) == Kept(text, {i \in DOMAIN text : text[i].kind = "row"})

Columns(line) == {line.words[i].column : i \in WordsIn(line)}

\* The words of a cell; an empty cell has none.
Cell(line, c) == Kept(Written(line), {i \in WordsIn(line) : line.words[i].column = c})

\* The columns of the header.
Width(text) == Cardinality(Columns(Table(text)[1]))

\* The data rows of a text with a header, cell by cell.
DataRows(text) ==
    [i \in 1..(Len(Table(text)) - 1) |->
        [c \in 1..Width(text) |-> Cell(Table(text)[i + 1], c)]]

\* The words of a line stand in the columns 1..n, from left to right.
StandsIn(line, n) ==
    /\ Columns(line) \subseteq 1..n
    /\ \A i, j \in WordsIn(line) :
          i < j => line.words[i].column <= line.words[j].column

\* One table: the first line without a pattern is a header that names every
\* column, and all words under it stand in one of these.
IsOneTable(text) ==
    /\ Table(text) # <<>>
    /\ Width(text) \in Nat \ {0}
    /\ Columns(Table(text)[1]) = 1..Width(text)
    /\ \A i \in DOMAIN Table(text) : StandsIn(Table(text)[i], Width(text))

\* No cell holds a bar, and none a blank unless the cells are set apart by
\* bars: two words are in one cell just when no bar is between them or, if
\* there are no bars, when they are the same word.
CellsStandOut(line) ==
    \A i, j \in WordsIn(line) :
        line.words[i].column = line.words[j].column <=>
            IF Bars(line) = {} THEN i = j
            ELSE (i..j \cup j..i) \cap Bars(line) = {}

\* No cell of the line is empty.
IsFull(line, n) == Columns(line) = 1..n

\* No row has both, a blank in a cell and an empty cell, unless there are bars.
NoBlankBesideGap(text) ==
    /\ CellsStandOut(Table(text)[1])
    /\ \A i \in DOMAIN Table(text) :
          \/ CellsStandOut(Table(text)[i])
          \/ Bars(Table(text)[i]) = {} /\ IsFull(Table(text)[i], Width(text))

NoTiming(text) == \A i \in DOMAIN text : text[i].kind # "timing"

\* ORDER is said only of tables that really have the same rows, each as
\* often, in another order: neither cells that vanish in the splitting nor
\* cells that fall apart make two different rows alike (order_only_mismatch).
\* The two together do, <<a b, nothing>> being read as <<a, b>>, so this is
\* claimed of tables without such a row.  Under --raw-diff a timing line is
\* taken for a row, so of such texts it is not claimed.
OrderIsPermutation ==
    /\ verdict.status = "ORDER"
    /\ IsOneTable(expected) /\ IsOneTable(actual)
    /\ NoBlankBesideGap(expected) /\ NoBlankBesideGap(actual)
    /\ rawDiff => NoTiming(expected) /\ NoTiming(actual)
    => /\ SameRows(DataRows(expected), DataRows(actual))
       /\ DataRows(expected) # DataRows(actual)

\* Every line has all its cells, and is split into them.
IsRead(text) ==
    \A i \in DOMAIN Table(text) :
        CellsStandOut(Table(text)[i]) /\ IsFull(Table(text)[i], Width(text))

\* The other way round: tables that differ in the order of their rows are not
\* called FAIL, whatever rules, notes and banners surround them (with
\* --order-check auto and without --raw-diff).  It takes rows without empty
\* cells and, unless there are bars, without a blank in a cell: one that has
\* either is not as wide as its header, and a permutation with it is FAIL.
PermutationIsOrder ==
    /\ verdict.status = "FAIL"
    /\ expected # NoBaseline
    /\ autoOrder /\ ~rawDiff
    /\ IsOneTable(expected) /\ IsOneTable(actual)
    /\ IsRead(expected) /\ IsRead(actual)
    /\ Len(DataRows(expected)) > 1
    => \/ ~SameRows(DataRows(expected), DataRows(actual))
       \/ DataRows(expected) = DataRows(actual)
=============================================================================
