-------------------------- MODULE ComparatorProofs --------------------------
(***************************************************************************)
(* Proofs about Comparator, for texts of any length and lines of any words *)
(* in any columns: what is kept of a text by one filter after the other is *)
(* its table, which rows are split into their cells, and that ORDER is     *)
(* said of the right tables.                                               *)
(***************************************************************************)
EXTENDS Comparator, SelectionProofs, FiniteSetTheorems, FunctionTheorems

RowLines == {line \in LineType : line.kind = "row"}

LEMMA TableRows ==
  ASSUME NEW text \in Seq(LineType)
  PROVE  /\ Table(text) = Kept(text, {i \in DOMAIN text : text[i] \in RowLines})
         /\ Table(text) \in Seq(LineType)
         /\ \A i \in DOMAIN Table(text) :
               \E j \in DOMAIN text : Table(text)[i] = text[j] /\ text[j].kind = "row"
<1> DEFINE I == {i \in DOMAIN text : text[i].kind = "row"}
<1>1. \A i \in DOMAIN text : text[i] \in LineType
      OBVIOUS
<1>2. I = {i \in DOMAIN text : text[i] \in RowLines}
      BY <1>1 DEF RowLines
<1>3. Table(text) = Kept(text, I)
      BY DEF Table
<1>4. /\ Kept(text, I) \in Seq(LineType)
      /\ {Kept(text, I)[i] : i \in DOMAIN Kept(text, I)} = {text[p] : p \in I \cap DOMAIN text}
      BY KeptElements
<1>5. \A i \in DOMAIN Kept(text, I) : \E j \in I : Kept(text, I)[i] = text[j]
      BY <1>4
<1>6. QED
      BY <1>2, <1>3, <1>4, <1>5

\* Normalising drops no row.
LEMMA NormalizedTable ==
  ASSUME NEW text \in Seq(LineType)
  PROVE  /\ Normalize(text) \in Seq(LineType) /\ NoTiming(Normalize(text))
         /\ Table(Normalize(text)) = Table(text)
<1> DEFINE I == {i \in DOMAIN text : ~Volatile(text[i])}
           kept == Kept(text, I)
           J == {i \in DOMAIN kept : \E j \in DOMAIN kept : j >= i /\ kept[j].kind # "blank"}
           norm == Kept(kept, J)
<1>1. Normalize(text) = norm
      BY DEF Normalize
<1>2. /\ kept \in Seq(LineType)
      /\ {kept[i] : i \in DOMAIN kept} = {text[p] : p \in I \cap DOMAIN text}
      BY KeptElements
<1>3. \A i \in DOMAIN kept : kept[i].kind # "timing"
  <2>1. \A i \in DOMAIN kept : \E p \in I : kept[i] = text[p]
        BY <1>2
  <2>2. \A p \in I : text[p].kind # "timing"
        BY DEF Volatile
  <2>3. QED
        BY <2>1, <2>2
<1>4. Table(kept) = Table(text)
  <2>1. NoneMissed(I, text, RowLines)
        BY DEF RowLines, Volatile, NoneMissed
  <2> DEFINE K == {i \in DOMAIN kept : kept[i] \in RowLines}
  <2>2. PlacesOf(K, kept, RowLines)
        BY DEF PlacesOf
  <2>3. Table(kept) = Kept(kept, K)
        BY <1>2, TableRows
  <2> DEFINE Q == {i \in DOMAIN text : text[i] \in RowLines}
  <2>4. PlacesOf(Q, text, RowLines)
        BY DEF PlacesOf
  <2>5. Table(text) = Kept(text, Q)
        BY TableRows
  <2> HIDE DEF I, K, Q
  <2>6. Kept(Kept(text, I), K) = Kept(text, Q)
        BY <2>1, <2>2, <2>4, KeptAgain
  <2>7. QED
        BY <2>3, <2>5, <2>6
<1> HIDE DEF kept
<1>5. NoneMissed(J, kept, RowLines)
  <2>1. \A i \in DOMAIN kept : i >= i
        BY <1>2
  <2>2. QED
        BY <2>1 DEF RowLines, NoneMissed
<1> HIDE DEF J
<1>6. /\ norm \in Seq(LineType)
      /\ {norm[i] : i \in DOMAIN norm} = {kept[p] : p \in J \cap DOMAIN kept}
  <2>1. kept \in Seq(LineType)
        BY <1>2
  <2>2. QED
        BY <2>1, KeptElements
<1>7. \A i \in DOMAIN norm : norm[i].kind # "timing"
  <2>1. \A i \in DOMAIN norm : \E p \in DOMAIN kept : norm[i] = kept[p]
        BY <1>6
  <2>2. QED
        BY <1>3, <2>1
<1>8. Table(norm) = Table(kept)
  <2> DEFINE K == {i \in DOMAIN norm : norm[i] \in RowLines}
  <2>1. PlacesOf(K, norm, RowLines)
        BY DEF PlacesOf
  <2>2. Table(norm) = Kept(norm, K)
        BY <1>6, TableRows
  <2> DEFINE Q == {i \in DOMAIN kept : kept[i] \in RowLines}
  <2>3. PlacesOf(Q, kept, RowLines)
        BY DEF PlacesOf
  <2>4. Table(kept) = Kept(kept, Q)
        BY <1>2, TableRows
  <2> HIDE DEF K, Q
  <2>5. Kept(Kept(kept, J), K) = Kept(kept, Q)
        BY <1>2, <1>5, <2>1, <2>3, KeptAgain
  <2>6. QED
        BY <2>2, <2>4, <2>5
<1> HIDE DEF norm
<1>9. QED
      BY <1>1, <1>4, <1>6, <1>7, <1>8 DEF NoTiming

\* What is left when ignorable lines and rules are dropped is the table.
LEMMA RowsAreLeft ==
  ASSUME NEW text \in Seq(LineType), NoTiming(text)
  PROVE  LET filtered == Informative(text) IN
         /\ filtered \in Seq(LineType)
         /\ Kept(filtered, {i \in DOMAIN filtered : filtered[i].kind # "rule"}) = Table(text)
<1> DEFINE I == {i \in DOMAIN text : ~Ignorable(text[i])}
           filtered == Kept(text, I)
           J == {i \in DOMAIN filtered : filtered[i].kind # "rule"}
           Q == {i \in DOMAIN text : text[i] \in RowLines}
<1>1. Informative(text) = filtered
      BY DEF Informative
<1>2. /\ filtered \in Seq(LineType)
      /\ {filtered[i] : i \in DOMAIN filtered} = {text[p] : p \in I \cap DOMAIN text}
      BY KeptElements
<1>3. \A i \in DOMAIN filtered : \E p \in I : filtered[i] = text[p]
      BY <1>2
<1>4. ASSUME NEW p \in I
      PROVE  text[p].kind # "rule" <=> text[p] \in RowLines
  <2>1. text[p] \in LineType /\ text[p].kind # "timing" /\ ~Ignorable(text[p])
        BY DEF NoTiming
  <2>2. text[p].kind \in {"row", "timing", "banner", "note", "rule", "blank"}
        BY <2>1 DEF LineType
  <2>3. QED
        BY <2>1, <2>2 DEF Ignorable, RowLines
<1>5. PlacesOf(J, filtered, RowLines)
      BY <1>3, <1>4 DEF PlacesOf
<1>6. NoneMissed(I, text, RowLines)
      BY DEF NoneMissed, RowLines, Ignorable
<1>7. PlacesOf(Q, text, RowLines)
      BY DEF PlacesOf
<1>8. Table(text) = Kept(text, Q)
      BY TableRows
<1> HIDE DEF Q, J, I
<1>9. Kept(filtered, J) = Kept(text, Q)
      BY <1>5, <1>6, <1>7, KeptAgain
<1>10. QED
       BY <1>1, <1>2, <1>8, <1>9 DEF J

(***************************************************************************)
(* How a line is split.                                                    *)
(***************************************************************************)
Starts(line) == {i \in WordsIn(line) : \A j \in Piece(line, i) : i <= j}

LEMMA LineFacts ==
  ASSUME NEW line \in LineType
  PROVE  /\ Len(line.words) \in Nat /\ DOMAIN line.words = 1..Len(line.words)
         /\ \A i \in 1..Len(line.words) : line.words[i].column \in Nat
         /\ WordsIn(line) \subseteq 1..Len(line.words)
         /\ Written(line) \in Seq(Words) /\ Len(Written(line)) = Len(line.words)
<1> DEFINE WordType == [text : Words, column : Nat]
           m == Len(line.words)
<1>1. line.words \in Seq(WordType)
      BY DEF LineType
<1> HIDE DEF WordType
<1>2. m \in Nat /\ DOMAIN line.words = 1..m /\ \A i \in 1..m : line.words[i] \in WordType
      BY <1>1
<1>3. Written(line) = [i \in 1..m |-> line.words[i].text]
      BY <1>2 DEF Written
<1> HIDE DEF m
<1> USE DEF WordType
<1>4. Written(line) \in [1..m -> Words]
      BY <1>2, <1>3
<1>5. Written(line) \in Seq(Words) /\ Len(Written(line)) = m
      BY <1>2, <1>4, SeqDef
<1>6. QED
      BY <1>2, <1>5 DEF WordsIn, m

\* The pieces are those that start somewhere, in this order.
LEMMA SplitPlaces ==
  ASSUME NEW line \in LineType
  PROVE  /\ SplitRow(line) \in Seq(Seq(Words))
         /\ \E place :
               /\ Enumerates(place, Len(SplitRow(line)), Starts(line), Len(line.words))
               /\ \A p \in 1..Len(SplitRow(line)) :
                     SplitRow(line)[p] = Kept(Written(line), Piece(line, place[p]))
<1> DEFINE m == Len(line.words)
           s == [i \in 1..m |-> Kept(Written(line), Piece(line, i))]
           k == Kept(s, Starts(line))
<1>1. m \in Nat /\ DOMAIN line.words = 1..m /\ Written(line) \in Seq(Words)
      BY LineFacts
<1>2. SplitRow(line) = k
      BY <1>1 DEF SplitRow, Starts
<1>3. \A i \in 1..m : Kept(Written(line), Piece(line, i)) \in Seq(Words)
      BY <1>1, KeptPlaces
<1> HIDE DEF m
<1>4. s \in [1..m -> Seq(Words)]
      BY <1>3
<1>5. s \in Seq(Seq(Words)) /\ Len(s) = m
      BY <1>1, <1>4, SeqDef
<1>6. \A i \in 1..m : s[i] = Kept(Written(line), Piece(line, i))
      OBVIOUS
<1> HIDE DEF s
<1>7. PICK place : k \in Seq(Seq(Words)) /\ Places(k, s, Starts(line), m, place)
      BY <1>5, KeptPlaces
<1> HIDE DEF k
<1>8. /\ Enumerates(place, Len(k), Starts(line), m)
      /\ \A p \in 1..Len(k) : k[p] = s[place[p]]
      BY <1>7, PlacesEnumerate
<1>9. \A p \in 1..Len(k) : place[p] \in 1..m
      BY <1>8 DEF Enumerates
<1>10. \A p \in 1..Len(k) : k[p] = Kept(Written(line), Piece(line, place[p]))
       BY <1>6, <1>8, <1>9
<1>11. QED
       BY <1>2, <1>7, <1>8, <1>10 DEF m

\* Where cells stand out a piece is a cell.
LEMMA PieceIsCell ==
  ASSUME NEW line \in LineType, CellsStandOut(line), NEW i \in WordsIn(line)
  PROVE  Piece(line, i) = {j \in WordsIn(line) : line.words[j].column = line.words[i].column}
<1>1. ASSUME NEW j \in WordsIn(line)
      PROVE  Separated(line, i, j) <=> line.words[j].column # line.words[i].column
  <2>1. line.words[i].column = line.words[j].column <=>
            IF Bars(line) = {} THEN i = j ELSE (i..j \cup j..i) \cap Bars(line) = {}
        BY DEF CellsStandOut
  <2>2. CASE Bars(line) = {}
        BY <2>1, <2>2 DEF Separated
  <2>3. CASE Bars(line) # {}
    <3>1. /\ i \in Nat /\ j \in Nat
          /\ \A b \in Bars(line) : b \in Nat /\ b # i /\ b # j
          BY LineFacts DEF Bars, WordsIn
    <3>2. (i..j \cup j..i) \cap Bars(line) # {} <=>
              \E b \in Bars(line) : (i < b /\ b < j) \/ (j < b /\ b < i)
          BY <3>1
    <3>3. QED
          BY <2>1, <2>3, <3>2 DEF Separated
  <2>4. QED
        BY <2>2, <2>3
<1>2. QED
      BY <1>1 DEF Piece

\* So the pieces stand in different columns, from left to right, and there is
\* one for each column with a word.
LEMMA PiecesEnumerate ==
  ASSUME NEW line \in LineType, NEW n \in Nat, StandsIn(line, n), CellsStandOut(line)
  PROVE  \E g :
            /\ Enumerates(g, Len(SplitRow(line)), Columns(line), n)
            /\ \A p \in 1..Len(SplitRow(line)) : SplitRow(line)[p] = Cell(line, g[p])
<1> DEFINE m == Len(line.words)
           a == Len(SplitRow(line))
           col(i) == line.words[i].column
<1>1. PICK place :
          /\ Enumerates(place, a, Starts(line), m)
          /\ \A p \in 1..a : SplitRow(line)[p] = Kept(Written(line), Piece(line, place[p]))
      BY SplitPlaces
<1>2. a \in Nat /\ m \in Nat /\ WordsIn(line) \subseteq 1..m /\ \A i \in 1..m : col(i) \in Nat
      BY SplitPlaces, LineFacts
<1> HIDE DEF m, a
<1>3. \A p \in 1..a : place[p] \in Starts(line) /\ place[p] \in WordsIn(line)
      BY <1>1 DEF Enumerates, Starts
<1> DEFINE g == [p \in 1..a |-> col(place[p])]
<1>4. \A p \in 1..a : g[p] \in Columns(line) /\ g[p] \in 1..n
      BY <1>3 DEF Columns, StandsIn
<1>5. ASSUME NEW p \in 1..a, NEW q \in 1..a, p < q
      PROVE  g[p] < g[q]
  <2> DEFINE i == place[p]
             k == place[q]
  <2>1. i \in WordsIn(line) /\ k \in WordsIn(line) /\ k \in Starts(line) /\ i < k
        BY <1>1, <1>3, <1>5 DEF Enumerates
  <2>2. i \in Nat /\ k \in Nat /\ g[p] = col(i) /\ g[q] = col(k) /\ col(i) \in Nat /\ col(k) \in Nat
        BY <1>2, <2>1
  <2> HIDE DEF i, k, g
  <2>3. col(i) <= col(k)
        BY <2>1 DEF StandsIn
  <2>4. i \notin Piece(line, k)
        BY <2>1, <2>2 DEF Starts
  <2>5. col(i) # col(k)
        BY <2>1, <2>4, PieceIsCell
  <2>6. QED
        BY <2>2, <2>3, <2>5
<1>6. ASSUME NEW x \in 1..n, x \in Columns(line)
      PROVE  \E p \in 1..a : g[p] = x
  <2> DEFINE T == {i \in WordsIn(line) : col(i) = x}
  <2>1. T \in SUBSET Nat /\ T # {}
        BY <1>2, <1>6 DEF Columns
  <2>2. PICK i \in T : \A y \in T : ~(y < i)
        BY <2>1, LeastNumber
  <2>3. i \in WordsIn(line) /\ col(i) = x /\ i \in 1..m /\ i \in Nat
        BY <1>2, <2>2
  <2>4. Piece(line, i) = T
        BY <2>3, PieceIsCell
  <2>5. \A j \in Piece(line, i) : i <= j
        BY <2>1, <2>2, <2>3, <2>4
  <2>6. i \in Starts(line)
        BY <2>3, <2>5 DEF Starts
  <2>7. PICK p \in 1..a : place[p] = i
        BY <1>1, <2>3, <2>6 DEF Enumerates
  <2>8. QED
        BY <2>3, <2>7
<1>7. ASSUME NEW p \in 1..a PROVE SplitRow(line)[p] = Cell(line, g[p])
  <2>1. Piece(line, place[p]) = {j \in WordsIn(line) : line.words[j].column = g[p]}
        BY <1>3, PieceIsCell
  <2>2. QED
        BY <1>1, <2>1 DEF Cell
<1>8. g \in [1..a -> Nat]
      BY <1>4
<1> HIDE DEF g
<1>9. Enumerates(g, a, Columns(line), n)
      BY <1>4, <1>5, <1>6, <1>8 DEF Enumerates
<1>10. QED
       BY <1>7, <1>9 DEF a

\* A row with as many pieces as there are columns, or with a word in every
\* column, is split into its cells.
LEMMA SplitIsRow ==
  ASSUME NEW line \in LineType, NEW n \in Nat, StandsIn(line, n), CellsStandOut(line),
         Len(SplitRow(line)) = n \/ IsFull(line, n)
  PROVE  SplitRow(line) = [c \in 1..n |-> Cell(line, c)]
<1> DEFINE r == SplitRow(line)
           a == Len(r)
<1>1. PICK g : /\ Enumerates(g, a, Columns(line), n)
               /\ \A p \in 1..a : r[p] = Cell(line, g[p])
      BY PiecesEnumerate
<1>2. r \in Seq(Seq(Words)) /\ a \in Nat /\ DOMAIN r = 1..a
      BY SplitPlaces
<1>3. Len(SplitRow(line)) = a
      OBVIOUS
<1> HIDE DEF a
<1>4. a = n
  <2>1. SUFFICES ASSUME IsFull(line, n) PROVE a = n
        BY <1>3
  <2> DEFINE id == [i \in 1..n |-> i]
  <2>2. Enumerates(id, n, 1..n, n) /\ Enumerates(g, a, 1..n, n)
        BY <1>1, <2>1 DEF Enumerates, IsFull
  <2> HIDE DEF id
  <2>3. a <= n /\ n <= a
        BY <1>2, <2>2, NoShorter
  <2>4. QED
        BY <1>2, <2>3
<1>5. ASSUME NEW p \in 1..n PROVE g[p] = p
  <2>1. g[p] >= p
        BY <1>1, <1>2, <1>4, EnumerationGrows
  <2>2. g[p] + (n - p) <= n
        BY <1>1, <1>2, <1>4, EnumerationEnds
  <2>3. g[p] \in Nat
        BY <1>1, <1>4 DEF Enumerates
  <2>4. QED
        BY <2>1, <2>2, <2>3
<1>6. \A p \in 1..n : r[p] = Cell(line, p)
      BY <1>1, <1>4, <1>5
<1> HIDE DEF r
<1>7. r = [c \in 1..n |-> Cell(line, c)]
      BY <1>2, <1>4, <1>6
<1>8. QED
      BY <1>7 DEF r

\* Without bars, as many words as there are columns, and one at least in each,
\* stand in a column of their own.
LEMMA NoBlankLeft ==
  ASSUME NEW line \in LineType, NEW n \in Nat, Bars(line) = {}, IsFull(line, n),
         Len(SplitRow(line)) = n
  PROVE  CellsStandOut(line)
<1> DEFINE m == Len(line.words)
           col(i) == line.words[i].column
<1>1. m \in Nat /\ DOMAIN line.words = 1..m /\ WordsIn(line) = 1..m
      BY LineFacts DEF WordsIn
<1>2. Starts(line) = 1..m
      BY <1>1 DEF Starts, Piece, Separated
<1>3. PICK place : Enumerates(place, n, Starts(line), m)
      BY SplitPlaces
<1> HIDE DEF m
<1>4. n = m
  <2> DEFINE id == [i \in 1..m |-> i]
  <2>1. Enumerates(id, m, 1..m, m) /\ Enumerates(place, n, 1..m, m)
        BY <1>1, <1>2, <1>3 DEF Enumerates
  <2> HIDE DEF id
  <2>2. n <= m /\ m <= n
        BY <1>1, <2>1, NoShorter
  <2>3. QED
        BY <1>1, <2>2
<1> DEFINE f == [i \in 1..n |-> col(i)]
<1>5. Columns(line) = {col(i) : i \in 1..n} /\ Columns(line) = 1..n
      BY <1>1, <1>4 DEF Columns, IsFull
<1>6. f \in Surjection(1..n, 1..n)
  <2>1. \A i \in 1..n : col(i) \in 1..n
        BY <1>5
  <2>2. \A x \in 1..n : \E i \in 1..n : col(i) = x
        BY <1>5
  <2>3. f \in [1..n -> 1..n]
        BY <2>1
  <2>4. \A x \in 1..n : \E i \in 1..n : f[i] = x
        BY <2>2
  <2> HIDE DEF f
  <2>5. QED
        BY <2>3, <2>4, Fun_IsSurj
<1> HIDE DEF f
<1>7. f \in Injection(1..n, 1..n)
  <2>1. IsFiniteSet(1..n)
        BY FS_Interval
  <2>2. QED
        BY <1>6, <2>1, FS_SurjSameCardinalityImpliesInj
<1>8. \A i, j \in 1..n : f[i] = f[j] => i = j
      BY <1>7, Fun_InjectionProperties
<1>9. \A i, j \in 1..n : col(i) = col(j) => i = j
      BY <1>8 DEF f
<1>10. QED
       BY <1>1, <1>4, <1>9 DEF CellsStandOut

(***************************************************************************)
(* The table of a text.                                                    *)
(***************************************************************************)
LEMMA TableFacts ==
  ASSUME NEW text \in Seq(LineType), IsOneTable(text)
  PROVE  LET t == Table(text)
             n == Width(text)
         IN
         /\ t \in Seq(LineType) /\ Len(t) \in Nat \ {0} /\ DOMAIN t = 1..Len(t)
         /\ n \in Nat \ {0} /\ IsFull(t[1], n)
         /\ \A i \in 1..Len(t) : t[i] \in LineType /\ StandsIn(t[i], n)
<1> DEFINE t == Table(text)
           n == Width(text)
<1>1. t \in Seq(LineType)
      BY TableRows
<1>2. /\ t # <<>> /\ n \in Nat \ {0} /\ Columns(t[1]) = 1..n
      /\ \A i \in DOMAIN t : StandsIn(t[i], n)
      BY DEF IsOneTable
<1> HIDE DEF t, n
<1>3. Len(t) \in Nat \ {0} /\ DOMAIN t = 1..Len(t)
      BY <1>1, <1>2, EmptySeq
<1>4. \A i \in 1..Len(t) : t[i] \in LineType
      BY <1>1, <1>3
<1>5. QED
      BY <1>1, <1>2, <1>3, <1>4 DEF t, n, IsFull

\* Rows that pass for a table are the data rows, with their empty cells.
LEMMA RowsAreData ==
  ASSUME NEW text \in Seq(LineType), NoTiming(text), IsOneTable(text),
         NoBlankBesideGap(text), ExtractRows(text) # NotRows
  PROVE  ExtractRows(text) = DataRows(text)
<1> DEFINE filtered == Informative(text)
           table == Kept(filtered, {i \in DOMAIN filtered : filtered[i].kind # "rule"})
           t == Table(text)
           n == Width(text)
<1>1. table = t
      BY RowsAreLeft
<1>2. /\ ExtractRows(text) = SplitRows(table)
      /\ IsTable(SplitRow(table[1]), SplitRows(table))
      BY DEF ExtractRows
<1>3. /\ t \in Seq(LineType) /\ Len(t) \in Nat \ {0} /\ DOMAIN t = 1..Len(t)
      /\ n \in Nat \ {0} /\ IsFull(t[1], n)
      /\ \A i \in 1..Len(t) : t[i] \in LineType /\ StandsIn(t[i], n)
      BY TableFacts
<1>4. DataRows(text) = [i \in 1..(Len(t) - 1) |-> [c \in 1..n |-> Cell(t[i + 1], c)]]
      BY DEF DataRows
<1>5. /\ CellsStandOut(t[1])
      /\ \A i \in DOMAIN t : \/ CellsStandOut(t[i])
                             \/ Bars(t[i]) = {} /\ IsFull(t[i], n)
      BY DEF NoBlankBesideGap
<1> HIDE DEF table, t, n
<1>6. Len(SplitRow(t[1])) = n
  <2>1. t[1] \in LineType /\ StandsIn(t[1], n) /\ n \in Nat
        BY <1>3
  <2>2. SplitRow(t[1]) = [c \in 1..n |-> Cell(t[1], c)]
        BY <1>3, <1>5, <2>1, SplitIsRow
  <2>3. SplitRow(t[1]) \in Seq(Seq(Words))
        BY <2>1, SplitPlaces
  <2>4. QED
        BY <2>1, <2>2, <2>3
<1> DEFINE l == Len(t) - 1
<1>7. SplitRows(t) = [j \in 1..l |-> SplitRow(t[j + 1])]
      BY DEF SplitRows
<1>8. ASSUME NEW i \in 1..l
      PROVE  SplitRow(t[i + 1]) = [c \in 1..n |-> Cell(t[i + 1], c)]
  <2> DEFINE line == t[i + 1]
  <2>1. i + 1 \in 1..Len(t)
        BY <1>3
  <2>2. Len(SplitRows(t)[i]) = Len(SplitRow(t[1]))
        BY <1>1, <1>2, <1>7 DEF IsTable
  <2>3. Len(SplitRow(line)) = n
        BY <1>6, <1>7, <2>2
  <2>4. line \in LineType /\ StandsIn(line, n) /\ n \in Nat
        BY <1>3, <2>1
  <2>5. CellsStandOut(line) \/ (Bars(line) = {} /\ IsFull(line, n))
        BY <1>3, <1>5, <2>1
  <2> HIDE DEF line
  <2>6. CellsStandOut(line)
        BY <2>3, <2>4, <2>5, NoBlankLeft
  <2>7. SplitRow(line) = [c \in 1..n |-> Cell(line, c)]
        BY <2>3, <2>4, <2>6, SplitIsRow
  <2>8. QED
        BY <2>7 DEF line
<1>9. SplitRows(t) = [i \in 1..l |-> [c \in 1..n |-> Cell(t[i + 1], c)]]
      BY <1>7, <1>8
<1>10. QED
       BY <1>1, <1>2, <1>4, <1>9

\* A table whose cells are all there and stand out, with two rows at least,
\* passes for one.
LEMMA DataPassForRows ==
  ASSUME NEW text \in Seq(LineType), NoTiming(text), IsOneTable(text), IsRead(text),
         Len(DataRows(text)) > 1
  PROVE  ExtractRows(text) = DataRows(text) /\ ExtractRows(text) # NotRows
<1> DEFINE filtered == Informative(text)
           J == {i \in DOMAIN filtered : filtered[i].kind # "rule"}
           t == Table(text)
           w == Width(text)
           n == Len(t) - 1
<1>1. filtered \in Seq(LineType) /\ Kept(filtered, J) = t
      BY RowsAreLeft
<1>2. /\ t \in Seq(LineType) /\ Len(t) \in Nat \ {0} /\ DOMAIN t = 1..Len(t)
      /\ w \in Nat \ {0}
      /\ \A i \in 1..Len(t) : t[i] \in LineType /\ StandsIn(t[i], w)
      BY TableFacts
<1>3. \A i \in DOMAIN t : CellsStandOut(t[i]) /\ IsFull(t[i], w)
      BY DEF IsRead
<1>4. DataRows(text) = [i \in 1..n |-> [c \in 1..w |-> Cell(t[i + 1], c)]]
      BY DEF DataRows
<1>5. n \in Nat /\ n > 1 /\ Len(t) = n + 1
      BY <1>2, <1>4
<1>6. Len(t) <= Len(filtered) /\ Len(filtered) \in Nat
  <2> HIDE DEF filtered, t, J
  <2>1. Len(Kept(filtered, J)) <= Len(filtered)
        BY <1>1, KeptNoLonger
  <2>2. QED
        BY <1>1, <2>1
<1> DEFINE rows == SplitRows(t)
<1>7. rows = [i \in 1..n |-> SplitRow(t[i + 1])]
      BY DEF SplitRows
<1>8. ExtractRows(text) =
        IF Len(filtered) >= 3 /\ Len(t) >= 2 /\ IsTable(SplitRow(t[1]), rows)
        THEN rows ELSE NotRows
      BY <1>1 DEF ExtractRows
<1> HIDE DEF t, w, filtered, J, n, rows
<1>9. ASSUME NEW i \in 1..Len(t)
      PROVE  /\ SplitRow(t[i]) = [c \in 1..w |-> Cell(t[i], c)]
             /\ SplitRow(t[i]) \in Seq(Seq(Words))
             /\ SplitRow(t[i]) # <<>> /\ Len(SplitRow(t[i])) = w
  <2> DEFINE r == SplitRow(t[i])
  <2>1. /\ t[i] \in LineType /\ StandsIn(t[i], w) /\ w \in Nat /\ w # 0
        /\ CellsStandOut(t[i]) /\ IsFull(t[i], w)
        BY <1>2, <1>3
  <2>2. r = [c \in 1..w |-> Cell(t[i], c)]
        BY <2>1, SplitIsRow
  <2>3. r \in Seq(Seq(Words))
        BY <2>1, SplitPlaces
  <2>4. Len(r) = w
        BY <2>1, <2>2, <2>3
  <2> HIDE DEF r
  <2>5. r # <<>>
        BY <2>1, <2>3, <2>4
  <2>6. QED
        BY <2>2, <2>3, <2>4, <2>5 DEF r
<1>10. \A i \in 1..n : i + 1 \in 1..Len(t) /\ rows[i] = SplitRow(t[i + 1])
       BY <1>5, <1>7
<1>11. 1 \in 1..Len(t) /\ DOMAIN rows = 1..n
       BY <1>5, <1>7
<1>12. \A i \in 1..n : rows[i] # <<>> /\ Len(rows[i]) = w /\ rows[i] \in Seq(Seq(Words))
       BY <1>9, <1>10
<1>13. IsTable(SplitRow(t[1]), rows)
       BY <1>9, <1>11, <1>12 DEF IsTable
<1>14. ExtractRows(text) = rows
       BY <1>5, <1>6, <1>8, <1>13
<1>15. rows \in Seq(Seq(Seq(Words)))
  <2>1. rows \in [1..n -> Seq(Seq(Words))]
        BY <1>7, <1>10, <1>12
  <2>2. QED
        BY <1>5, <2>1, SeqDef
<1>16. rows = [i \in 1..n |-> [c \in 1..w |-> Cell(t[i + 1], c)]]
       BY <1>7, <1>9, <1>10
<1>17. QED
       BY <1>4, <1>14, <1>15, <1>16, NotRowsAssumption

(***************************************************************************)
(* Tables with the same rows.                                              *)
(***************************************************************************)
LEMMA OccurrencesFinite ==
  ASSUME NEW T, NEW s \in Seq(T), NEW x
  PROVE  /\ IsFiniteSet({i \in DOMAIN s : s[i] = x})
         /\ Occurrences(s, x) \in Nat
         /\ Occurrences(s, x) = 0 <=> \A i \in DOMAIN s : s[i] # x
         /\ \A S : S \subseteq {i \in DOMAIN s : s[i] = x} =>
               IsFiniteSet(S) /\ Cardinality(S) <= Occurrences(s, x)
<1> DEFINE O == {i \in DOMAIN s : s[i] = x}
<1>1. IsFiniteSet(1..Len(s)) /\ O \subseteq 1..Len(s)
      BY FS_Interval
<1>2. IsFiniteSet(O)
      BY <1>1, FS_Subset
<1>3. Occurrences(s, x) = Cardinality(O)
      BY DEF Occurrences
<1>4. O = {} <=> \A i \in DOMAIN s : s[i] # x
      OBVIOUS
<1> HIDE DEF O
<1>5. Cardinality(O) \in Nat /\ (Cardinality(O) = 0 <=> O = {})
      BY <1>2, FS_CardinalityType, FS_EmptySet
<1>6. \A S : S \subseteq O => IsFiniteSet(S) /\ Cardinality(S) <= Cardinality(O)
      BY <1>2, FS_Subset
<1>7. QED
      BY <1>2, <1>3, <1>4, <1>5, <1>6 DEF O

LEMMA TwoElements ==
  ASSUME NEW a, NEW b, a # b
  PROVE  Cardinality({a, b}) = 2
<1>1. IsFiniteSet({a}) /\ Cardinality({a}) = 1
      BY FS_Singleton
<1>2. b \notin {a}
      OBVIOUS
<1>3. {a} \cup {b} = {a, b}
      OBVIOUS
<1> DEFINE A == {a}
           n == Cardinality(A)
<1>4. IsFiniteSet(A) /\ n = 1
      BY <1>1
<1> HIDE DEF A
<1>5. Cardinality(A \cup {b}) = n + 1
      BY <1>2, <1>4, FS_AddElement DEF A
<1>6. n + 1 = 2
      BY <1>4
<1>7. QED
      BY <1>3, <1>5, <1>6 DEF A

\* Rows that occur as often in either table are more than one in both.
LEMMA SameRowsAreAsMany ==
  ASSUME NEW T, NEW s \in Seq(T), NEW t \in Seq(T), SameRows(s, t), Len(s) > 1
  PROVE  Len(t) > 1
<1>1. /\ Len(s) \in Nat /\ Len(t) \in Nat /\ DOMAIN s = 1..Len(s) /\ DOMAIN t = 1..Len(t)
      /\ 1 \in DOMAIN s /\ 2 \in DOMAIN s
      OBVIOUS
<1>2. SUFFICES ASSUME Len(t) \in {0, 1} PROVE FALSE
      BY <1>1
<1>3. \A i \in DOMAIN t : i = 1
      BY <1>1, <1>2
<1>4. ASSUME NEW i \in DOMAIN s
      PROVE  Occurrences(s, s[i]) = Occurrences(t, s[i]) /\ 1 \in DOMAIN t /\ t[1] = s[i]
  <2>1. Occurrences(s, s[i]) = Occurrences(t, s[i])
        BY DEF SameRows
  <2>2. Occurrences(s, s[i]) # 0
        BY OccurrencesFinite
  <2>3. PICK j \in DOMAIN t : t[j] = s[i]
        BY <2>1, <2>2, OccurrencesFinite
  <2>4. QED
        BY <1>3, <2>1, <2>3
<1>5. s[1] = s[2] /\ Occurrences(s, s[1]) = Occurrences(t, s[1])
      BY <1>1, <1>4
<1> DEFINE x == s[1]
<1>6. Occurrences(t, x) <= 1
  <2> DEFINE O == {i \in DOMAIN t : t[i] = x}
  <2>1. O \subseteq {1}
        BY <1>3
  <2>2. IsFiniteSet({1}) /\ Cardinality({1}) = 1
        BY FS_Singleton
  <2> HIDE DEF O
  <2>3. Cardinality(O) <= 1
        BY <2>1, <2>2, FS_Subset
  <2>4. QED
        BY <2>3 DEF O, Occurrences
<1>7. Occurrences(s, x) >= 2
  <2>1. {1, 2} \subseteq {i \in DOMAIN s : s[i] = x}
        BY <1>1, <1>5
  <2>2. Cardinality({1, 2}) = 2
    <3>1. 1 # 2
          OBVIOUS
    <3>2. QED
          BY <3>1, TwoElements, Zenon
  <2>3. Cardinality({1, 2}) <= Occurrences(s, x) /\ Occurrences(s, x) \in Nat
        BY <2>1, OccurrencesFinite
  <2>4. QED
        BY <2>2, <2>3
<1>8. Occurrences(s, x) \in Nat /\ Occurrences(t, x) \in Nat
      BY OccurrencesFinite
<1>9. QED
      BY <1>5, <1>6, <1>7, <1>8

(***************************************************************************)
(* The verdict.  The inductive invariant is CompareInv: what is compared   *)
(* stays as it is, and what is said of it is what Compare says.            *)
(***************************************************************************)
Expected == Compared(IF expected # NoBaseline THEN expected ELSE <<>>)

Actual == Compared(actual)

Said ==
    ClassifyCompare(
        Expected = Actual,
        /\ Expected # Actual
        /\ autoOrder
        /\ expected # NoBaseline
        /\ OrderOnly(Expected, Actual),
        expected # NoBaseline)

CompareInv ==
    /\ expected # NoBaseline => expected \in Texts
    /\ actual \in Texts
    /\ rawDiff \in BOOLEAN /\ autoOrder \in BOOLEAN
    /\ verdict.status = "none" \/ verdict = Said

LEMMA SpecCompareInv == Spec => []CompareInv
<1>1. Init => CompareInv
      BY DEF Init, CompareInv
<1>2. ASSUME CompareInv, [Compare]_compareVars
      PROVE  CompareInv'
  <2>1. CASE Compare
    <3>1. /\ expected' = expected /\ actual' = actual /\ rawDiff' = rawDiff
          /\ autoOrder' = autoOrder
          BY <2>1 DEF Compare
    <3>2. Expected' = Expected /\ Actual' = Actual
          BY <3>1 DEF Expected, Actual, Compared
    <3>3. verdict' = Said
      <4>1. verdict' = ClassifyCompare(
                Expected = Actual,
                ~(Expected = Actual) /\ autoOrder /\ expected # NoBaseline /\ OrderOnly(Expected, Actual),
                expected # NoBaseline)
            BY <2>1 DEF Compare, Expected, Actual
      <4>2. QED
            BY <4>1 DEF Said, ClassifyCompare
    <3>4. Said' = Said
          BY <3>1, <3>2 DEF Said
    <3>5. QED
          BY <1>2, <3>1, <3>3, <3>4 DEF CompareInv
  <2>2. CASE UNCHANGED compareVars
    <3>1. /\ expected' = expected /\ actual' = actual /\ rawDiff' = rawDiff
          /\ autoOrder' = autoOrder /\ verdict' = verdict
          BY <2>2 DEF compareVars
    <3>2. Expected' = Expected /\ Actual' = Actual
          BY <3>1 DEF Expected, Actual, Compared
    <3>3. Said' = Said
          BY <3>1, <3>2 DEF Said
    <3>4. QED
          BY <1>2, <3>1, <3>3 DEF CompareInv
  <2>3. QED
        BY <1>2, <2>1, <2>2
<1>3. QED
      BY <1>1, <1>2, PTL DEF Spec

LEMMA VerdictSays ==
  ASSUME CompareInv
  PROVE  /\ verdict.status = "ORDER" =>
               /\ expected # NoBaseline /\ autoOrder
               /\ Expected # Actual /\ OrderOnly(Expected, Actual)
         /\ verdict.status = "FAIL" /\ expected # NoBaseline /\ autoOrder =>
               Expected # Actual /\ ~OrderOnly(Expected, Actual)
<1>1. Pass.status = "PASS"
      BY DEF Pass
<1>2. CASE verdict = Said
      BY <1>1, <1>2 DEF Said, ClassifyCompare
<1>3. CASE verdict.status = "none"
      BY <1>3
<1>4. QED
      BY <1>2, <1>3 DEF CompareInv

\* What is compared of a text is a text, with the same table.
LEMMA ComparedTable ==
  ASSUME NEW text \in Seq(LineType), rawDiff => NoTiming(text)
  PROVE  /\ Compared(text) \in Seq(LineType) /\ NoTiming(Compared(text))
         /\ Table(Compared(text)) = Table(text)
         /\ DataRows(Compared(text)) = DataRows(text)
         /\ IsOneTable(Compared(text)) <=> IsOneTable(text)
         /\ NoBlankBesideGap(Compared(text)) <=> NoBlankBesideGap(text)
         /\ IsRead(Compared(text)) <=> IsRead(text)
<1>1. /\ Compared(text) \in Seq(LineType) /\ NoTiming(Compared(text))
      /\ Table(Compared(text)) = Table(text)
      BY NormalizedTable DEF Compared
<1>2. QED
      BY <1>1 DEF DataRows, Width, IsOneTable, NoBlankBesideGap, IsRead

\* In every run ORDER is said only of tables with the same rows, each as often,
\* in another order, unless a row without bars has both, a blank in a cell and
\* an empty cell: otherwise a comparison with --order-check auto does not
\* mistake another output for it (order_only_mismatch).
THEOREM OrderMeansPermutation == Spec => []OrderIsPermutation
<1>1. CompareInv => OrderIsPermutation
  <2> SUFFICES ASSUME CompareInv, verdict.status = "ORDER",
                      IsOneTable(expected), IsOneTable(actual),
                      NoBlankBesideGap(expected), NoBlankBesideGap(actual),
                      rawDiff => NoTiming(expected) /\ NoTiming(actual)
               PROVE  /\ SameRows(DataRows(expected), DataRows(actual))
                      /\ DataRows(expected) # DataRows(actual)
      BY DEF OrderIsPermutation
  <2>1. /\ expected # NoBaseline /\ OrderOnly(Expected, Actual)
        /\ Expected = Compared(expected) /\ Actual = Compared(actual)
        BY VerdictSays DEF Expected, Actual
  <2>2. expected \in Seq(LineType) /\ actual \in Seq(LineType)
        BY <2>1, TextsAssumption DEF CompareInv
  <2>3. /\ Expected \in Seq(LineType) /\ NoTiming(Expected)
        /\ IsOneTable(Expected) /\ DataRows(Expected) = DataRows(expected)
        /\ NoBlankBesideGap(Expected)
        BY <2>1, <2>2, ComparedTable
  <2>4. /\ Actual \in Seq(LineType) /\ NoTiming(Actual)
        /\ IsOneTable(Actual) /\ DataRows(Actual) = DataRows(actual)
        /\ NoBlankBesideGap(Actual)
        BY <2>1, <2>2, ComparedTable
  <2>5. /\ ExtractRows(Expected) # NotRows /\ ExtractRows(Actual) # NotRows
        /\ SameRows(ExtractRows(Expected), ExtractRows(Actual))
        /\ ExtractRows(Expected) # ExtractRows(Actual)
        BY <2>1 DEF OrderOnly
  <2>6. ExtractRows(Expected) = DataRows(expected)
        BY <2>3, <2>5, RowsAreData
  <2>7. ExtractRows(Actual) = DataRows(actual)
        BY <2>4, <2>5, RowsAreData
  <2>8. QED
        BY <2>5, <2>6, <2>7
<1>2. QED
      BY <1>1, SpecCompareInv, PTL

\* The data rows of one table are sequences of cells.
LEMMA DataRowsType ==
  ASSUME NEW text \in Seq(LineType), IsOneTable(text)
  PROVE  DataRows(text) \in Seq(Seq(Seq(Words)))
<1> DEFINE t == Table(text)
           n == Len(t) - 1
           w == Width(text)
<1>1. /\ Len(t) \in Nat \ {0} /\ w \in Nat
      /\ \A i \in 1..Len(t) : t[i] \in LineType
      BY TableFacts
<1>2. DataRows(text) = [i \in 1..n |-> [c \in 1..w |-> Cell(t[i + 1], c)]]
      BY DEF DataRows
<1> HIDE DEF t, w
<1>3. n \in Nat /\ \A i \in 1..n : i + 1 \in 1..Len(t)
      BY <1>1
<1>4. ASSUME NEW line \in LineType
      PROVE  [c \in 1..w |-> Cell(line, c)] \in Seq(Seq(Words))
  <2>1. \A c \in 1..w : Cell(line, c) \in Seq(Words)
        BY LineFacts, KeptPlaces DEF Cell
  <2>2. [c \in 1..w |-> Cell(line, c)] \in [1..w -> Seq(Words)]
        BY <2>1
  <2>3. QED
        BY <1>1, <2>2, SeqDef
<1> HIDE DEF n
<1>5. DataRows(text) \in [1..n -> Seq(Seq(Words))]
      BY <1>1, <1>2, <1>3, <1>4
<1>6. QED
      BY <1>3, <1>5, SeqDef

\* In every run tables that differ in the order of their rows are not called
\* FAIL, whatever rules, notes and banners surround them, if no cell is empty
\* and none has a blank unless there are bars (with --order-check auto and
\* without --raw-diff).
THEOREM PermutationsAreOrder == Spec => []PermutationIsOrder
<1>1. CompareInv => PermutationIsOrder
  <2> SUFFICES ASSUME CompareInv, verdict.status = "FAIL",
                      expected # NoBaseline, autoOrder, ~rawDiff,
                      IsOneTable(expected), IsOneTable(actual),
                      IsRead(expected), IsRead(actual),
                      Len(DataRows(expected)) > 1,
                      SameRows(DataRows(expected), DataRows(actual)),
                      DataRows(expected) # DataRows(actual)
               PROVE  FALSE
      BY DEF PermutationIsOrder
  <2>1. /\ ~OrderOnly(Expected, Actual)
        /\ Expected = Compared(expected) /\ Actual = Compared(actual)
        BY VerdictSays DEF Expected, Actual
  <2>2. expected \in Seq(LineType) /\ actual \in Seq(LineType)
        BY TextsAssumption DEF CompareInv
  <2>3. Len(DataRows(actual)) > 1
        BY <2>2, DataRowsType, SameRowsAreAsMany
  <2>4. ASSUME NEW text \in Seq(LineType), IsRead(text), IsOneTable(text),
               Len(DataRows(text)) > 1
        PROVE  /\ ExtractRows(Compared(text)) = DataRows(text)
               /\ ExtractRows(Compared(text)) # NotRows
    <3>1. /\ Compared(text) \in Seq(LineType) /\ NoTiming(Compared(text))
          /\ Table(Compared(text)) = Table(text)
          /\ DataRows(Compared(text)) = DataRows(text)
          /\ IsOneTable(Compared(text)) /\ IsRead(Compared(text))
          BY <2>4, ComparedTable
    <3>2. QED
          BY <2>4, <3>1, DataPassForRows
  <2>5. /\ ExtractRows(Expected) = DataRows(expected) /\ ExtractRows(Expected) # NotRows
        /\ ExtractRows(Actual) = DataRows(actual) /\ ExtractRows(Actual) # NotRows
        BY <2>1, <2>2, <2>3, <2>4
  <2>6. QED
        BY <2>1, <2>5 DEF OrderOnly
<1>2. QED
      BY <1>1, SpecCompareInv, PTL
=============================================================================
