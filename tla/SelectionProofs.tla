--------------------------- MODULE SelectionProofs ---------------------------
(***************************************************************************)
(* What Kept keeps, for sequences of any length.  The induction is by the  *)
(* least number for which the claim fails.                                 *)
(***************************************************************************)
EXTENDS Selection, WellFoundedInduction, SequenceTheorems, TLAPS

LEMMA LessIsWellFounded ==
  IsWellFoundedOn({ss \in Nat \X Nat : ss[1] < ss[2]}, Nat)
BY NatLessThanWellFounded DEF OpToRel

\* A set of numbers has a least one.
LEMMA LeastNumber ==
  ASSUME NEW T \in SUBSET Nat, T # {}
  PROVE  \E x \in T : \A y \in T : ~(y < x)
<1> DEFINE R == {ss \in Nat \X Nat : ss[1] < ss[2]}
<1>1. IsWellFoundedOn(R, Nat)
      BY LessIsWellFounded
<1> HIDE DEF R
<1>2. \E x \in T : \A y \in T : ~(<<y, x>> \in R)
      BY <1>1, WFMin, Zenon
<1>3. QED
      BY <1>2 DEF R

\* f keeps the elements of the prefixes of s, up to length m.
Selecting(s, I, f, m) ==
    f = [n \in 0..m |->
            IF n = 0 THEN <<>>
            ELSE IF n \in I THEN Append(f[n - 1], s[n]) ELSE f[n - 1]]

LEMMA SelectionExists ==
  ASSUME NEW s, NEW I, NEW m \in Nat
  PROVE  \E f : Selecting(s, I, f, m)
<1> DEFINE T == {n \in Nat : ~ \E f : Selecting(s, I, f, n)}
<1>1. SUFFICES ASSUME T # {} PROVE FALSE
      OBVIOUS
<1>2. PICK n \in T : \A y \in T : ~(y < n)
      BY <1>1, LeastNumber, T \in SUBSET Nat
<1>3. n # 0
  <2>1. Selecting(s, I, [z \in 0..0 |-> <<>>], 0)
        BY DEF Selecting
  <2>2. QED
        BY <2>1
<1>4. n - 1 \in Nat /\ n - 1 < n
      BY <1>3
<1>5. PICK f : Selecting(s, I, f, n - 1)
      BY <1>2, <1>4
<1>6. \E g : Selecting(s, I, g, n)
  <2> DEFINE e == IF n \in I THEN Append(f[n - 1], s[n]) ELSE f[n - 1]
             g == [z \in 0..n |-> IF z = n THEN e ELSE f[z]]
  <2>1. \A z \in 0..(n - 1) :
            f[z] = IF z = 0 THEN <<>>
                   ELSE IF z \in I THEN Append(f[z - 1], s[z]) ELSE f[z - 1]
        BY <1>5 DEF Selecting
  <2> HIDE DEF e
  <2>2. g[n] = e /\ \A z \in 0..(n - 1) : g[z] = f[z]
        BY <1>4
  <2>3. \A z \in 0..n :
            g[z] = IF z = 0 THEN <<>>
                   ELSE IF z \in I THEN Append(g[z - 1], s[z]) ELSE g[z - 1]
    <3>1. ASSUME NEW z \in 0..(n - 1)
          PROVE  g[z] = IF z = 0 THEN <<>>
                        ELSE IF z \in I THEN Append(g[z - 1], s[z]) ELSE g[z - 1]
      <4>1. z = 0 \/ z - 1 \in 0..(n - 1)
            BY <1>4
      <4> HIDE DEF g
      <4>2. QED
            BY <2>1, <2>2, <4>1
    <3>2. g[n] = IF n \in I THEN Append(g[n - 1], s[n]) ELSE g[n - 1]
      <4>1. g[n - 1] = f[n - 1]
            BY <1>4, <2>2
      <4> HIDE DEF g
      <4>2. QED
            BY <2>2, <4>1 DEF e
    <3>3. QED
      <4>1. \A z \in 0..n : z = n \/ z \in 0..(n - 1)
            BY <1>4
      <4> HIDE DEF g
      <4>2. QED
            BY <1>3, <3>1, <3>2, <4>1
  <2>4. g = [z \in 0..n |-> g[z]]
        OBVIOUS
  <2> HIDE DEF g
  <2>5. Selecting(s, I, g, n)
        BY <2>3, <2>4 DEF Selecting
  <2>6. QED
        BY <2>5
<1>7. QED
      BY <1>6

LEMMA KeptIsSelected ==
  ASSUME NEW s, NEW I, Len(s) \in Nat
  PROVE  \E f : Selecting(s, I, f, Len(s)) /\ Kept(s, I) = f[Len(s)]
<1> DEFINE g == CHOOSE f : Selecting(s, I, f, Len(s))
<1>1. Selecting(s, I, g, Len(s))
      BY SelectionExists
<1>2. Kept(s, I) = g[Len(s)]
      BY DEF Kept, Selecting
<1>3. QED
      BY <1>1, <1>2

\* place numbers the places up to m that are in I, in their order, and k holds
\* the elements there.
Places(k, s, I, m, place) ==
    /\ place \in [1..Len(k) -> Nat]
    /\ \A i \in 1..Len(k) : place[i] \in 1..m /\ place[i] \in I /\ k[i] = s[place[i]]
    /\ \A i, j \in 1..Len(k) : i < j => place[i] < place[j]
    /\ \A p \in 1..m : p \in I => \E i \in 1..Len(k) : place[i] = p

\* One more element is looked at.
LEMMA PlacesGrow ==
  ASSUME NEW T, NEW s \in Seq(T), NEW I, NEW m \in 1..Len(s),
         NEW k \in Seq(T), NEW place, Places(k, s, I, m - 1, place)
  PROVE  /\ m \notin I => Places(k, s, I, m, place)
         /\ m \in I => \E place2 : Places(Append(k, s[m]), s, I, m, place2)
<1>1. m \in Nat /\ Len(k) \in Nat /\ s[m] \in T /\ (\A p \in 1..m : p = m \/ p \in 1..(m - 1))
      /\ \A p \in 1..(m - 1) : p \in 1..m /\ p < m
      OBVIOUS
<1>2. ASSUME m \notin I PROVE Places(k, s, I, m, place)
      BY <1>1, <1>2 DEF Places
<1>3. ASSUME m \in I PROVE \E place2 : Places(Append(k, s[m]), s, I, m, place2)
  <2> DEFINE k2 == Append(k, s[m])
             n == Len(k) + 1
             place2 == [i \in 1..n |-> IF i = n THEN m ELSE place[i]]
  <2>1. /\ k2 \in Seq(T) /\ Len(k2) = n /\ n \in Nat
        /\ \A i \in 1..n : i = n \/ i \in 1..Len(k)
        /\ \A i \in 1..Len(k) : i \in 1..n /\ i < n /\ k2[i] = k[i]
        /\ n \in 1..n /\ k2[n] = s[m]
        BY <1>1, <1>3
  <2>2. /\ place2[n] = m /\ DOMAIN place2 = 1..n
        /\ \A i \in 1..Len(k) : place2[i] = place[i]
        BY <2>1
  <2>3. place2 \in [1..n -> Nat]
        BY <1>1, <2>1 DEF Places
  <2> HIDE DEF n, place2, k2
  <2>4. \A i \in 1..n : place2[i] \in 1..m /\ place2[i] \in I /\ k2[i] = s[place2[i]]
    <3>1. ASSUME NEW i \in 1..Len(k)
          PROVE  place2[i] \in 1..m /\ place2[i] \in I /\ k2[i] = s[place2[i]]
          BY <1>1, <2>1, <2>2, <3>1 DEF Places
    <3>2. place2[n] \in 1..m /\ place2[n] \in I /\ k2[n] = s[place2[n]]
          BY <1>1, <1>3, <2>1, <2>2
    <3>3. QED
          BY <2>1, <3>1, <3>2
  <2>5. ASSUME NEW i \in 1..n, NEW j \in 1..n, i < j
        PROVE  place2[i] < place2[j]
    <3>1. i \in 1..Len(k) /\ i \in Nat /\ j \in Nat
          BY <1>1, <2>1, <2>5
    <3>2. CASE j \in 1..Len(k)
          BY <2>2, <2>5, <3>1, <3>2 DEF Places
    <3>3. CASE j = n
          BY <1>1, <2>2, <3>1, <3>3 DEF Places
    <3>4. QED
          BY <2>1, <3>2, <3>3
  <2>6. ASSUME NEW p \in 1..m, p \in I
        PROVE  \E i \in 1..n : place2[i] = p
    <3>1. CASE p = m
          BY <2>1, <2>2, <3>1
    <3>2. CASE p \in 1..(m - 1)
      <4>1. PICK i \in 1..Len(k) : place[i] = p
            BY <2>6, <3>2 DEF Places
      <4>2. QED
            BY <2>1, <2>2, <4>1
    <3>3. QED
          BY <1>1, <3>1, <3>2
  <2>7. Places(k2, s, I, m, place2)
        BY <2>1, <2>3, <2>4, <2>5, <2>6 DEF Places
  <2>8. QED
        BY <2>7 DEF k2
<1>4. QED
      BY <1>2, <1>3

\* Kept keeps the elements at the places in I, once each and in their order.
LEMMA KeptPlaces ==
  ASSUME NEW T, NEW s \in Seq(T), NEW I
  PROVE  /\ Kept(s, I) \in Seq(T)
         /\ \E place : Places(Kept(s, I), s, I, Len(s), place)
<1>1. Len(s) \in Nat
      OBVIOUS
<1>2. PICK f : Selecting(s, I, f, Len(s)) /\ Kept(s, I) = f[Len(s)]
      BY <1>1, KeptIsSelected
<1> DEFINE Good(n) == f[n] \in Seq(T) /\ \E place : Places(f[n], s, I, n, place)
           B == {n \in Nat : n <= Len(s) /\ ~Good(n)}
<1>3. SUFFICES ASSUME B # {} PROVE FALSE
      BY <1>1, <1>2
<1>4. PICK m \in B : \A y \in B : ~(y < m)
      BY <1>3, LeastNumber, B \in SUBSET Nat
<1>5. m \in 0..Len(s) /\ ~Good(m) /\ f[0] = <<>>
      BY <1>1, <1>2, <1>4 DEF Selecting
<1>6. m # 0
  <2>1. <<>> \in Seq(T) /\ Len(<<>>) = 0 /\ Places(<<>>, s, I, 0, [i \in {} |-> 0])
        BY DEF Places
  <2>2. Good(0)
        BY <1>5, <2>1
  <2>3. QED
        BY <1>5, <2>2
<1>7. m \in 1..Len(s) /\ m - 1 \in Nat /\ m - 1 <= Len(s) /\ m - 1 < m
      BY <1>1, <1>5, <1>6
<1>8. Good(m - 1)
      BY <1>4, <1>7
<1>9. f[m] = IF m \in I THEN Append(f[m - 1], s[m]) ELSE f[m - 1]
      BY <1>2, <1>5, <1>6 DEF Selecting
<1>10. Good(m)
  <2> DEFINE k == f[m - 1]
  <2>1. k \in Seq(T) /\ f[m] = IF m \in I THEN Append(k, s[m]) ELSE k
        BY <1>8, <1>9
  <2>2. PICK place : Places(k, s, I, m - 1, place)
        BY <1>8
  <2> HIDE DEF k
  <2>3. s[m] \in T
        BY <1>7
  <2>4. CASE m \notin I
    <3>1. Places(k, s, I, m, place)
          BY <1>7, <2>1, <2>2, <2>4, PlacesGrow
    <3>2. QED
          BY <2>1, <2>4, <3>1
  <2>5. CASE m \in I
    <3>1. \E place2 : Places(Append(k, s[m]), s, I, m, place2)
          BY <1>7, <2>1, <2>2, <2>5, PlacesGrow
    <3>2. Append(k, s[m]) \in Seq(T)
          BY <2>1, <2>3
    <3>3. QED
          BY <2>1, <2>5, <3>1, <3>2
  <2>6. QED
        BY <2>4, <2>5
<1>11. QED
       BY <1>5, <1>10

LEMMA KeptElements ==
  ASSUME NEW T, NEW s \in Seq(T), NEW I
  PROVE  /\ Kept(s, I) \in Seq(T)
         /\ {Kept(s, I)[i] : i \in DOMAIN Kept(s, I)} = {s[p] : p \in I \cap DOMAIN s}
<1> DEFINE k == Kept(s, I)
<1>1. k \in Seq(T) /\ DOMAIN k = 1..Len(k) /\ DOMAIN s = 1..Len(s)
      BY KeptPlaces
<1>2. PICK place : Places(k, s, I, Len(s), place)
      BY KeptPlaces
<1> HIDE DEF k
<1>3. ASSUME NEW i \in DOMAIN k
      PROVE  \E p \in I \cap DOMAIN s : k[i] = s[p]
      BY <1>1, <1>2 DEF Places
<1>4. ASSUME NEW p \in I \cap DOMAIN s
      PROVE  \E i \in DOMAIN k : k[i] = s[p]
  <2>1. PICK i \in 1..Len(k) : place[i] = p
        BY <1>1, <1>2 DEF Places
  <2>2. QED
        BY <1>1, <1>2, <2>1 DEF Places
<1>5. {k[i] : i \in DOMAIN k} = {s[p] : p \in I \cap DOMAIN s}
      BY <1>3, <1>4
<1>6. QED
      BY <1>1, <1>5 DEF k

\* If one place is in I, its element is kept, and no other.
LEMMA KeptOne ==
  ASSUME NEW T, NEW s \in Seq(T), NEW I, NEW p \in DOMAIN s, I \cap DOMAIN s = {p}
  PROVE  Kept(s, I) = <<s[p]>>
<1> DEFINE k == Kept(s, I)
<1>1. k \in Seq(T) /\ DOMAIN k = 1..Len(k) /\ DOMAIN s = 1..Len(s) /\ Len(k) \in Nat
      BY KeptPlaces
<1>2. PICK place : Places(k, s, I, Len(s), place)
      BY KeptPlaces
<1> HIDE DEF k
<1>3. \A i \in 1..Len(k) : place[i] = p /\ k[i] = s[p]
      BY <1>1, <1>2 DEF Places
<1>4. \E i \in 1..Len(k) : place[i] = p
      BY <1>1, <1>2 DEF Places
<1>5. Len(k) = 1
  <2>1. ASSUME Len(k) > 1 PROVE FALSE
    <3>1. 1 \in 1..Len(k) /\ 2 \in 1..Len(k) /\ place[1] \in Nat /\ place[2] \in Nat
          BY <1>1, <1>2, <2>1 DEF Places
    <3>2. place[1] < place[2]
          BY <1>2, <3>1 DEF Places
    <3>3. QED
          BY <1>3, <3>1, <3>2
  <2>2. QED
        BY <1>1, <1>4, <2>1
<1>6. QED
      BY <1>1, <1>3, <1>5 DEF k

(***************************************************************************)
(* What is kept is determined by the places.                               *)
(***************************************************************************)
\* p goes through the numbers up to m that are in I, in their order.
Enumerates(p, a, I, m) ==
    /\ p \in [1..a -> Nat]
    /\ \A i \in 1..a : p[i] \in 1..m /\ p[i] \in I
    /\ \A i, j \in 1..a : i < j => p[i] < p[j]
    /\ \A x \in 1..m : x \in I => \E i \in 1..a : p[i] = x

LEMMA LaterIsLarger ==
  ASSUME NEW p, NEW a \in Nat, NEW I, NEW m, Enumerates(p, a, I, m),
         NEW i \in 1..a, NEW j \in 1..a, p[i] < p[j]
  PROVE  i < j
<1>1. p[i] \in Nat /\ p[j] \in Nat /\ (j < i => p[j] < p[i])
      BY DEF Enumerates
<1>2. QED
      BY <1>1

\* Two enumerations of the same places agree as far as both go.
LEMMA SameStart ==
  ASSUME NEW I, NEW m, NEW a \in Nat, NEW b \in Nat, NEW p, NEW q,
         Enumerates(p, a, I, m), Enumerates(q, b, I, m)
  PROVE  \A i \in 1..a : i \in 1..b => p[i] = q[i]
<1> DEFINE B == {i \in Nat : i \in 1..a /\ i \in 1..b /\ p[i] # q[i]}
<1>1. SUFFICES B = {}
      OBVIOUS
<1>2. B \in SUBSET Nat
      OBVIOUS
<1>3. SUFFICES ASSUME B # {} PROVE FALSE
      OBVIOUS
<1> HIDE DEF B
<1>4. PICK i \in B : \A y \in B : ~(y < i)
      BY <1>2, <1>3, LeastNumber
<1>5. i \in 1..a /\ i \in 1..b /\ p[i] # q[i]
      BY <1>4 DEF B
<1>6. /\ p[i] \in Nat /\ q[i] \in Nat /\ p[i] \in 1..m /\ q[i] \in 1..m
      /\ p[i] \in I /\ q[i] \in I
      BY <1>5 DEF Enumerates
<1>7. ASSUME NEW j \in Nat, j < i, j \in 1..a, j \in 1..b
      PROVE  p[j] = q[j]
      BY <1>4, <1>7 DEF B
<1>8. CASE p[i] < q[i]
  <2>1. PICK j \in 1..b : q[j] = p[i]
        BY <1>6 DEF Enumerates
  <2>2. j < i
        BY <1>5, <1>8, <2>1, LaterIsLarger
  <2>3. j \in 1..a /\ p[j] = q[j]
        BY <1>5, <1>7, <2>1, <2>2
  <2>4. p[j] < p[i]
        BY <1>5, <2>2, <2>3 DEF Enumerates
  <2>5. QED
        BY <1>6, <2>1, <2>3, <2>4
<1>9. CASE q[i] < p[i]
  <2>1. PICK j \in 1..a : p[j] = q[i]
        BY <1>6 DEF Enumerates
  <2>2. j < i
        BY <1>5, <1>9, <2>1, LaterIsLarger
  <2>3. j \in 1..b /\ p[j] = q[j]
        BY <1>5, <1>7, <2>1, <2>2
  <2>4. q[j] < q[i]
        BY <1>5, <2>2, <2>3 DEF Enumerates
  <2>5. QED
        BY <1>6, <2>1, <2>3, <2>4
<1>10. QED
       BY <1>5, <1>6, <1>8, <1>9

\* None of them is shorter.
LEMMA NoShorter ==
  ASSUME NEW I, NEW m, NEW a \in Nat, NEW b \in Nat, NEW p, NEW q,
         Enumerates(p, a, I, m), Enumerates(q, b, I, m)
  PROVE  b <= a
<1>1. SUFFICES ASSUME a < b PROVE FALSE
      OBVIOUS
<1>2. a + 1 \in 1..b /\ q[a + 1] \in 1..m /\ q[a + 1] \in I
      BY <1>1 DEF Enumerates
<1>3. PICK j \in 1..a : p[j] = q[a + 1]
      BY <1>2 DEF Enumerates
<1>4. \A i \in 1..a : i \in 1..b => p[i] = q[i]
      BY SameStart
<1>5. j \in 1..b /\ j < a + 1 /\ p[j] = q[j]
      BY <1>1, <1>3, <1>4
<1>6. q[j] < q[a + 1] /\ q[j] \in Nat
      BY <1>2, <1>5 DEF Enumerates
<1>7. QED
      BY <1>3, <1>5, <1>6

LEMMA PlacesEnumerate ==
  ASSUME NEW k, NEW s, NEW I, NEW m, NEW p, Places(k, s, I, m, p)
  PROVE  /\ Enumerates(p, Len(k), I, m)
         /\ \A i \in 1..Len(k) : k[i] = s[p[i]]
BY DEF Places, Enumerates

LEMMA PlacesTell ==
  ASSUME NEW T, NEW s, NEW I, NEW m, NEW k \in Seq(T), NEW l \in Seq(T),
         NEW p, NEW q, Places(k, s, I, m, p), Places(l, s, I, m, q)
  PROVE  k = l
<1>1. Len(k) \in Nat /\ Len(l) \in Nat /\ DOMAIN k = 1..Len(k) /\ DOMAIN l = 1..Len(l)
      OBVIOUS
<1>2. /\ Enumerates(p, Len(k), I, m) /\ Enumerates(q, Len(l), I, m)
      /\ \A i \in 1..Len(k) : k[i] = s[p[i]]
      /\ \A i \in 1..Len(l) : l[i] = s[q[i]]
      BY PlacesEnumerate
<1>3. Len(k) = Len(l)
  <2> DEFINE a == Len(k)
             b == Len(l)
  <2>1. /\ a \in Nat /\ b \in Nat
        /\ Enumerates(p, a, I, m) /\ Enumerates(q, b, I, m)
        BY <1>1, <1>2
  <2> HIDE DEF a, b
  <2>2. b <= a
        BY <2>1, NoShorter
  <2>3. a <= b
        BY <2>1, NoShorter
  <2>4. QED
        BY <2>1, <2>2, <2>3 DEF a, b
<1>4. \A i \in 1..Len(k) : i \in 1..Len(l) => p[i] = q[i]
      BY <1>1, <1>2, SameStart
<1>5. \A i \in 1..Len(k) : k[i] = l[i]
      BY <1>2, <1>3, <1>4
<1>6. QED
      BY <1>1, <1>3, <1>5

\* Keeping all is keeping the sequence.
LEMMA KeptAll ==
  ASSUME NEW T, NEW s \in Seq(T), NEW I, DOMAIN s \subseteq I
  PROVE  Kept(s, I) = s
<1> DEFINE n == Len(s)
           id == [i \in 1..n |-> i]
<1>1. DOMAIN s = 1..n /\ n \in Nat
      OBVIOUS
<1>2. Places(s, s, I, n, id)
  <2> HIDE DEF n
  <2>1. /\ id \in [1..n -> Nat]
        /\ \A i \in 1..n : id[i] \in 1..n /\ id[i] \in I /\ s[i] = s[id[i]]
        /\ \A i, j \in 1..n : i < j => id[i] < id[j]
        /\ \A x \in 1..n : x \in I => \E i \in 1..n : id[i] = x
        BY <1>1
  <2> HIDE DEF id
  <2>2. QED
        BY <2>1 DEF Places, n
<1>3. PICK place : Kept(s, I) \in Seq(T) /\ Places(Kept(s, I), s, I, n, place)
      BY KeptPlaces
<1> HIDE DEF id, n
<1>4. QED
      BY <1>2, <1>3, PlacesTell

\* An enumeration of as many places as there are leaves none out.
LEMMA EnumerationGrows ==
  ASSUME NEW p, NEW a \in Nat, NEW I, NEW m, Enumerates(p, a, I, m)
  PROVE  \A i \in 1..a : p[i] >= i
<1> DEFINE B == {i \in Nat : i \in 1..a /\ ~(p[i] >= i)}
<1>1. SUFFICES B = {}
      OBVIOUS
<1>2. B \in SUBSET Nat
      OBVIOUS
<1>3. SUFFICES ASSUME B # {} PROVE FALSE
      OBVIOUS
<1> HIDE DEF B
<1>4. PICK i \in B : \A y \in B : ~(y < i)
      BY <1>2, <1>3, LeastNumber
<1>5. i \in 1..a /\ ~(p[i] >= i) /\ p[i] \in Nat /\ p[i] >= 1
      BY <1>4 DEF B, Enumerates
<1>6. i - 1 \in 1..a /\ i - 1 < i
      BY <1>5
<1>7. p[i - 1] >= i - 1 /\ p[i - 1] < p[i] /\ p[i - 1] \in Nat
      BY <1>4, <1>5, <1>6 DEF B, Enumerates
<1>8. QED
      BY <1>5, <1>6, <1>7

LEMMA KeptNoLonger ==
  ASSUME NEW T, NEW s \in Seq(T), NEW I
  PROVE  Len(Kept(s, I)) <= Len(s)
<1>1. PICK p : Kept(s, I) \in Seq(T) /\ Places(Kept(s, I), s, I, Len(s), p)
      BY KeptPlaces
<1> DEFINE a == Len(Kept(s, I))
           m == Len(s)
<1>2. a \in Nat /\ m \in Nat /\ Enumerates(p, a, I, m)
      BY <1>1, PlacesEnumerate
<1> HIDE DEF a, m
<1>3. CASE a = 0
      BY <1>2, <1>3 DEF a, m
<1>4. CASE a # 0
  <2>1. a \in 1..a
        BY <1>2, <1>4
  <2>2. p[a] >= a /\ p[a] \in 1..m
        BY <1>2, <2>1, EnumerationGrows DEF Enumerates
  <2>3. a <= m
        BY <1>2, <2>2
  <2>4. QED
        BY <2>3 DEF a, m
<1>5. QED
      BY <1>3, <1>4

LEMMA EnumerationEnds ==
  ASSUME NEW p, NEW a \in Nat, NEW I, NEW m \in Nat, Enumerates(p, a, I, m)
  PROVE  \A i \in 1..a : p[i] + (a - i) <= m
<1> DEFINE B == {j \in Nat : a - j \in 1..a /\ ~(p[a - j] + j <= m)}
<1>1. B = {}
  <2>1. B \in SUBSET Nat
        OBVIOUS
  <2>2. SUFFICES ASSUME B # {} PROVE FALSE
        OBVIOUS
  <2> HIDE DEF B
  <2>3. PICK j \in B : \A y \in B : ~(y < j)
        BY <2>1, <2>2, LeastNumber
  <2>4. j \in Nat /\ a - j \in 1..a /\ ~(p[a - j] + j <= m)
        BY <2>3 DEF B
  <2>5. p[a - j] \in Nat /\ p[a - j] <= m
        BY <2>4 DEF Enumerates
  <2>6. j # 0
        BY <2>4, <2>5
  <2> DEFINE h == j - 1
  <2>7. h \in Nat /\ h < j /\ j = h + 1 /\ a - h \in 1..a /\ a - j < a - h
        BY <2>4, <2>6
  <2>8. p[a - h] + h <= m
        BY <2>3, <2>7 DEF B
  <2>9. p[a - j] < p[a - h] /\ p[a - h] \in Nat
        BY <2>4, <2>7 DEF Enumerates
  <2>10. QED
        BY <2>4, <2>5, <2>7, <2>8, <2>9
<1>2. ASSUME NEW i \in 1..a PROVE p[i] + (a - i) <= m
  <2> DEFINE j == a - i
  <2>1. j \in Nat /\ a - j = i
        OBVIOUS
  <2> HIDE DEF j
  <2>2. p[a - j] + j <= m
        BY <1>1, <2>1
  <2>3. QED
        BY <2>1, <2>2 DEF j
<1>3. QED
      BY <1>2

\* Only keeping all keeps the length.
LEMMA KeptFull ==
  ASSUME NEW T, NEW s \in Seq(T), NEW I, Len(Kept(s, I)) = Len(s)
  PROVE  Kept(s, I) = s
<1>1. PICK p : Kept(s, I) \in Seq(T) /\ Places(Kept(s, I), s, I, Len(s), p)
      BY KeptPlaces
<1> DEFINE n == Len(s)
<1>2. n \in Nat /\ Enumerates(p, n, I, n) /\ DOMAIN s = 1..n
      BY <1>1, PlacesEnumerate
<1> HIDE DEF n
<1>3. ASSUME NEW i \in 1..n PROVE i \in I
  <2>1. p[i] >= i /\ p[i] + (n - i) <= n /\ p[i] \in Nat /\ p[i] \in I
        BY <1>2, EnumerationGrows, EnumerationEnds DEF Enumerates
  <2>2. p[i] = i
        BY <1>2, <2>1
  <2>3. QED
        BY <2>1, <2>2
<1>4. QED
      BY <1>2, <1>3, KeptAll

\* The places I are those, or are among others those, of members of A in s.
PlacesOf(I, s, A) == \A i \in DOMAIN s : i \in I <=> s[i] \in A
NoneMissed(I, s, A) == \A i \in DOMAIN s : s[i] \in A => i \in I

\* What is kept of A in what was kept of s is what is kept of A in s, if the
\* first selection left out nothing of A.
LEMMA KeptAgain ==
  ASSUME NEW T, NEW s \in Seq(T), NEW I, NEW J, NEW A, NEW Q,
         NoneMissed(I, s, A), PlacesOf(J, Kept(s, I), A), PlacesOf(Q, s, A)
  PROVE  Kept(Kept(s, I), J) = Kept(s, Q)
<1> DEFINE k == Kept(s, I)
           r == Kept(k, J)
<1>1. PICK p : k \in Seq(T) /\ Places(k, s, I, Len(s), p)
      BY KeptPlaces
<1> HIDE DEF k
<1>2. PICK q : r \in Seq(T) /\ Places(r, k, J, Len(k), q)
      BY <1>1, KeptPlaces
<1>3. /\ \A i \in DOMAIN k : i \in J <=> k[i] \in A
      /\ \A i \in DOMAIN s : s[i] \in A => i \in I
      /\ \A i \in DOMAIN s : i \in Q <=> s[i] \in A
      BY DEF k, NoneMissed, PlacesOf
<1> HIDE DEF r
<1> DEFINE a == Len(k)
           b == Len(r)
           m == Len(s)
           c == [i \in 1..b |-> p[q[i]]]
<1>4. /\ a \in Nat /\ b \in Nat /\ m \in Nat
      /\ DOMAIN k = 1..a /\ DOMAIN r = 1..b /\ DOMAIN s = 1..m
      BY <1>1, <1>2
<1>5. /\ Enumerates(p, a, I, m) /\ \A i \in 1..a : k[i] = s[p[i]]
      /\ Enumerates(q, b, J, a) /\ \A i \in 1..b : r[i] = k[q[i]]
      BY <1>1, <1>2, PlacesEnumerate
<1> HIDE DEF a, b, m
<1>6. ASSUME NEW i \in 1..b
      PROVE  /\ c[i] \in 1..m /\ c[i] \in Q /\ c[i] \in Nat /\ r[i] = s[c[i]]
             /\ q[i] \in 1..a
  <2>1. q[i] \in 1..a /\ q[i] \in J /\ r[i] = k[q[i]]
        BY <1>5 DEF Enumerates
  <2>2. p[q[i]] \in 1..m /\ k[q[i]] = s[p[q[i]]]
        BY <1>5, <2>1 DEF Enumerates
  <2>3. k[q[i]] \in A
        BY <1>3, <1>4, <2>1
  <2>4. QED
        BY <1>3, <1>4, <2>1, <2>2, <2>3
<1>7. ASSUME NEW i \in 1..b, NEW j \in 1..b, i < j PROVE c[i] < c[j]
  <2>1. q[i] < q[j] /\ q[i] \in 1..a /\ q[j] \in 1..a
        BY <1>5, <1>7 DEF Enumerates
  <2>2. p[q[i]] < p[q[j]]
        BY <1>5, <2>1 DEF Enumerates
  <2>3. QED
        BY <2>2
<1>8. ASSUME NEW x \in 1..m, x \in Q PROVE \E i \in 1..b : c[i] = x
  <2>1. s[x] \in A /\ x \in I
        BY <1>3, <1>4, <1>8
  <2>2. PICK y \in 1..a : p[y] = x
        BY <1>5, <2>1 DEF Enumerates
  <2>3. y \in J
        BY <1>3, <1>4, <1>5, <2>1, <2>2
  <2>4. PICK i \in 1..b : q[i] = y
        BY <1>5, <2>3 DEF Enumerates
  <2>5. QED
        BY <2>2, <2>4
<1>9. Places(r, s, Q, m, c)
  <2>1. c \in [1..b -> Nat]
        BY <1>6
  <2> HIDE DEF c
  <2>2. QED
        BY <1>6, <1>7, <1>8, <2>1 DEF Places, b
<1>10. PICK d : Kept(s, Q) \in Seq(T) /\ Places(Kept(s, Q), s, Q, m, d)
       BY KeptPlaces DEF m
<1> HIDE DEF c
<1>11. r = Kept(s, Q)
       BY <1>2, <1>9, <1>10, PlacesTell
<1>12. QED
       BY <1>11 DEF r, k
=============================================================================
