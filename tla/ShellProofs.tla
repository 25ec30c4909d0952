----------------------------- MODULE ShellProofs -----------------------------
(***************************************************************************)
(* Theorems about Shell and Exec: the line that was typed is the line that *)
(* is parsed, its words reach main(), the pointers of main() stay in the   *)
(* shared page, and the image of a program is its file.  The loops that    *)
(* pack strings and find them again are folds (FoldProofs).                *)
(***************************************************************************)
EXTENDS Shell, FiniteSetTheorems, TLAPS

\* One iteration of the loop of exec().
PackTurn(g, m, n) == PackStep(m, g)
PackFold == INSTANCE FoldProofs WITH Op <- PackTurn

\* Least() is the least element.
LEMMA LeastIs ==
    ASSUME NEW S, S \subseteq Int, NEW x \in S, \A y \in S : x <= y
    PROVE  Least(S) = x
<1>1. \A z \in S : (\A y \in S : z <= y) => z = x
  OBVIOUS
<1> QED BY <1>1 DEF Least

\* A nonempty set of natural numbers has one.
LEMMA LeastExists ==
    ASSUME NEW S, S \subseteq Nat, S # {}
    PROVE  Least(S) \in S /\ \A y \in S : Least(S) <= y
<1>1. \E x \in S : \A y \in S : x <= y
  BY PackFold!LeastElement
<1> QED BY <1>1 DEF Least

-----------------------------------------------------------------------------
(* Where the strings of a caller belong in the shared page. *)

Calls == [name : Seq(Text), argv : Seq(Seq(Text)), envp : Seq(Seq(Text))]

\* The strings in their order: the name, the arguments, the environment.
Argc(g)   == Len(g.argv)
Envc(g)   == Len(g.envp)
Total(g)  == 1 + Argc(g) + Envc(g)
Str(g, j) ==
    IF j = 1 THEN g.name
    ELSE IF j <= 1 + Argc(g) THEN g.argv[j - 1] ELSE g.envp[j - 1 - Argc(g)]

\* String j takes the bytes from off[j - 1] to off[j] - 1.
Layout(g, off) ==
    /\ off \in [0 .. Total(g) -> Nat]
    /\ off[0] = 0
    /\ \A j \in 1 .. Total(g) : off[j] = off[j - 1] + Len(Str(g, j)) + 1
Off(g) == CHOOSE off : Layout(g, off)

\* No string holds a NUL.
LEMMA StrFacts ==
    ASSUME NEW g \in Calls
    PROVE  /\ Total(g) \in Nat /\ Total(g) >= 1 /\ Argc(g) \in Nat /\ Envc(g) \in Nat
           /\ Total(g) = 1 + Argc(g) + Envc(g)
           /\ \A j \in 1 .. Total(g) : Str(g, j) \in Seq(Text) /\ Len(Str(g, j)) \in Nat
           /\ Str(g, 1) = g.name
           /\ \A j \in 1 .. Argc(g) : Str(g, j + 1) = g.argv[j] /\ g.argv[j] \in Seq(Text)
           /\ \A j \in 1 .. Envc(g) :
                  Str(g, 1 + Argc(g) + j) = g.envp[j] /\ g.envp[j] \in Seq(Text)
<1>1. g.name \in Seq(Text) /\ g.argv \in Seq(Seq(Text)) /\ g.envp \in Seq(Seq(Text))
  BY DEF Calls
<1>2. Argc(g) \in Nat /\ Envc(g) \in Nat /\ Total(g) = 1 + Argc(g) + Envc(g)
  BY <1>1 DEF Argc, Envc, Total
<1>3. /\ \A j \in 1 .. Argc(g) : g.argv[j] \in Seq(Text)
      /\ \A j \in 1 .. Envc(g) : g.envp[j] \in Seq(Text)
  BY <1>1 DEF Argc, Envc
<1>4. \A j \in 1 .. Argc(g) : Str(g, j + 1) = g.argv[j]
  <2> TAKE j \in 1 .. Argc(g)
  <2>1. j + 1 # 1 /\ j + 1 <= 1 + Argc(g) /\ (j + 1) - 1 = j
    BY <1>2
  <2> QED BY <2>1 DEF Str
<1>5. \A j \in 1 .. Envc(g) : Str(g, 1 + Argc(g) + j) = g.envp[j]
  <2> TAKE j \in 1 .. Envc(g)
  <2>1. /\ 1 + Argc(g) + j # 1 /\ ~(1 + Argc(g) + j <= 1 + Argc(g))
        /\ (1 + Argc(g) + j) - 1 - Argc(g) = j
    BY <1>2
  <2> QED BY <2>1 DEF Str
<1>6. ASSUME NEW j \in 1 .. Total(g) PROVE Str(g, j) \in Seq(Text)
  <2>1. CASE j = 1
    BY <1>1, <2>1 DEF Str
  <2>2. CASE j # 1 /\ j <= 1 + Argc(g)
    <3>1. j - 1 \in 1 .. Argc(g) /\ (j - 1) + 1 = j
      BY <1>2, <2>2
    <3> QED BY <1>3, <1>4, <3>1
  <2>3. CASE j # 1 /\ ~(j <= 1 + Argc(g))
    <3>1. j - 1 - Argc(g) \in 1 .. Envc(g) /\ 1 + Argc(g) + (j - 1 - Argc(g)) = j
      BY <1>2, <2>3
    <3> QED BY <1>3, <1>5, <3>1
  <2> QED BY <2>1, <2>2, <2>3
<1>7. \A j \in 1 .. Total(g) : Str(g, j) \in Seq(Text) /\ Len(Str(g, j)) \in Nat
  BY <1>6
<1>8. Total(g) \in Nat /\ Total(g) >= 1
  BY <1>2
<1>9. Str(g, 1) = g.name
  BY DEF Str
<1> QED BY <1>2, <1>3, <1>4, <1>5, <1>7, <1>8, <1>9

\* The layout exists, by induction over the strings.
LEMMA OffLayout ==
    ASSUME NEW g \in Calls
    PROVE  Layout(g, Off(g))
<1> DEFINE T == Total(g)
           L(j) == Len(Str(g, j))
           Upto(off, n) == /\ off \in [0 .. n -> Nat] /\ off[0] = 0
                           /\ \A j \in 1 .. n : off[j] = off[j - 1] + L(j) + 1
           A == {n \in 0 .. T : \E off : Upto(off, n)}
<1>1. T \in Nat /\ \A j \in 1 .. T : L(j) \in Nat
  BY StrFacts
<1> HIDE DEF L, T
<1>2. 0 \in A
  <2>1. Upto([j \in 0 .. 0 |-> 0], 0)
    OBVIOUS
  <2> HIDE DEF Upto
  <2> QED BY <1>1, <2>1
<1>3. ASSUME NEW n \in 1 .. T, n - 1 \in A PROVE n \in A
  <2>1. PICK off : Upto(off, n - 1)
    BY <1>3
  <2> DEFINE new == [j \in 0 .. n |-> IF j = n THEN off[n - 1] + L(n) + 1 ELSE off[j]]
  <2>2. n \in Nat /\ L(n) \in Nat /\ n - 1 \in 0 .. n - 1
    BY <1>1
  <2>3. new \in [0 .. n -> Nat] /\ new[0] = 0
    BY <2>1, <2>2
  <2>4. ASSUME NEW j \in 1 .. n PROVE new[j] = new[j - 1] + L(j) + 1
    BY <2>1, <2>2
  <2> HIDE DEF new
  <2>5. Upto(new, n)
    BY <2>3, <2>4
  <2> HIDE DEF Upto
  <2> QED BY <2>5, <1>1
<1> HIDE DEF A
<1>4. T \in A
  <2>1. \A k \in 0 .. T : k \in A
    BY <1>1, <1>2, <1>3, PackFold!Induction
  <2> QED BY <1>1, <2>1
<1>5. \E off : Layout(g, off)
  BY <1>4 DEF A, L, T, Layout
<1> QED BY <1>5 DEF Off

\* Strings follow one another, and each takes at least a byte.
LEMMA OffGrows ==
    ASSUME NEW g \in Calls, NEW a \in 0 .. Total(g), NEW b \in 0 .. Total(g), a <= b
    PROVE  /\ Off(g)[a] \in Nat /\ Off(g)[b] \in Nat
           /\ Off(g)[a] + (b - a) <= Off(g)[b]
           /\ a < b => Off(g)[a] + Len(Str(g, a + 1)) + 1 <= Off(g)[b]
<1> DEFINE off == Off(g)
           T == Total(g)
           L(j) == Len(Str(g, j))
           A == {n \in 0 .. T : \A c \in 0 .. n : off[c] + (n - c) <= off[n]}
<1>1. T \in Nat /\ \A j \in 1 .. T : L(j) \in Nat
  BY StrFacts
<1>2. off \in [0 .. T -> Nat] /\ \A j \in 1 .. T : off[j] = off[j - 1] + L(j) + 1
  BY OffLayout DEF Layout
<1> HIDE DEF off, T, L
<1>3. 0 \in A
  BY <1>1, <1>2
<1>4. ASSUME NEW n \in 1 .. T, n - 1 \in A PROVE n \in A
  <2>1. off[n] = off[n - 1] + L(n) + 1 /\ L(n) \in Nat /\ off[n - 1] \in Nat
    BY <1>1, <1>2
  <2>2. ASSUME NEW c \in 0 .. n PROVE off[c] + (n - c) <= off[n]
    <3>1. CASE c = n
      BY <1>1, <1>2, <3>1
    <3>2. CASE c # n
      <4>1. c \in 0 .. n - 1 /\ off[c] \in Nat
        BY <1>1, <1>2, <3>2
      <4>2. off[c] + (n - 1 - c) <= off[n - 1]
        BY <1>4, <4>1
      <4> QED BY <2>1, <4>1, <4>2
    <3> QED BY <3>1, <3>2
  <2> QED BY <1>1, <2>2
<1>5. \A n \in 0 .. T : n \in A
  <2> HIDE DEF A
  <2> QED BY <1>1, <1>3, <1>4, PackFold!Induction
<1>6. a \in 0 .. T /\ b \in 0 .. T
  BY DEF T
<1>7. off[a] \in Nat /\ off[b] \in Nat /\ off[a] + (b - a) <= off[b]
  BY <1>1, <1>2, <1>5, <1>6
<1>8. a < b => off[a] + L(a + 1) + 1 <= off[b]
  <2> SUFFICES ASSUME a < b PROVE off[a] + L(a + 1) + 1 <= off[b]
    OBVIOUS
  <2>1. a + 1 \in 1 .. T /\ off[a + 1] = off[a] + L(a + 1) + 1 /\ a + 1 \in 0 .. b
    <3>1. a + 1 \in 1 .. T /\ a + 1 \in 0 .. b /\ (a + 1) - 1 = a
      BY <1>1, <1>6
    <3> QED BY <1>2, <3>1
  <2>2. off[a + 1] + (b - (a + 1)) <= off[b]
    BY <1>1, <1>5, <1>6, <2>1
  <2>3. off[a + 1] \in Nat /\ off[b] \in Nat
    BY <1>1, <1>2, <1>6, <2>1
  <2> QED BY <1>1, <1>6, <2>1, <2>2, <2>3
<1> QED BY <1>7, <1>8 DEF off, L

\* The same for two strings, by their own numbers.
LEMMA StringsApart ==
    ASSUME NEW g \in Calls, NEW a \in 1 .. Total(g), NEW b \in 1 .. Total(g), a < b
    PROVE  /\ Off(g)[a - 1] \in Nat /\ Off(g)[b - 1] \in Nat
           /\ Off(g)[a - 1] + Len(Str(g, a)) + 1 <= Off(g)[b - 1]
<1>1. Total(g) \in Nat
  BY StrFacts
<1>2. a - 1 \in 0 .. Total(g) /\ b - 1 \in 0 .. Total(g) /\ a - 1 < b - 1 /\ (a - 1) + 1 = a
  BY <1>1
<1> DEFINE c == a - 1
           d == b - 1
<1> HIDE DEF c, d
<1>3. c \in 0 .. Total(g) /\ d \in 0 .. Total(g) /\ c < d /\ c <= d /\ c + 1 = a
  BY <1>1, <1>2 DEF c, d
<1>4. Off(g)[c] \in Nat /\ Off(g)[d] \in Nat /\ Off(g)[c] + Len(Str(g, c + 1)) + 1 <= Off(g)[d]
  BY <1>3, OffGrows
<1> QED BY <1>3, <1>4 DEF c, d

\* A byte belongs to one place of one string.
LEMMA OnePlace ==
    ASSUME NEW g \in Calls, NEW a \in 1 .. Total(g), NEW b \in 1 .. Total(g),
           NEW x \in 0 .. Len(Str(g, a)), NEW y \in 0 .. Len(Str(g, b)),
           Off(g)[a - 1] + x = Off(g)[b - 1] + y
    PROVE  a = b /\ x = y
<1> DEFINE la == Len(Str(g, a))
           lb == Len(Str(g, b))
           oa == Off(g)[a - 1]
           ob == Off(g)[b - 1]
<1>1. la \in Nat /\ lb \in Nat /\ Total(g) \in Nat
  BY StrFacts
<1>2. a < b => oa \in Nat /\ ob \in Nat /\ oa + la + 1 <= ob
  BY StringsApart
<1>3. b < a => oa \in Nat /\ ob \in Nat /\ ob + lb + 1 <= oa
  BY StringsApart
<1>4. oa \in Nat /\ (a = b => oa = ob)
  <2>1. a - 1 \in 0 .. Total(g)
    BY <1>1
  <2> QED BY <2>1, OffLayout DEF Layout
<1>5. x \in 0 .. la /\ y \in 0 .. lb /\ oa + x = ob + y
  OBVIOUS
<1> HIDE DEF la, lb, oa, ob
<1>6. ~(a < b) /\ ~(b < a)
  BY <1>1, <1>2, <1>3, <1>5
<1>7. a = b
  BY <1>1, <1>6
<1> QED BY <1>1, <1>4, <1>5, <1>7

-----------------------------------------------------------------------------
(* Packing: the loop of exec(). *)

\* The characters of a string, and the NUL behind them.
LEMMA CharAtFacts ==
    ASSUME NEW s \in Seq(Text), NEW k \in Nat
    PROVE  /\ CharAt(s, k) \in Chars
           /\ CharAt(s, k) = NUL <=> ~(k < Len(s))
<1>1. NUL \notin Text /\ NUL \in Chars /\ Text \subseteq Chars
  BY LettersAssumption DEF Text, Chars, NUL, SP, CR, SLASH
<1>2. CASE k < Len(s)
  <2>1. k + 1 \in 1 .. Len(s)
    BY <1>2
  <2>2. s[k + 1] \in Text
    BY <2>1
  <2> QED BY <1>1, <1>2, <2>2 DEF CharAt
<1>3. CASE ~(k < Len(s))
  BY <1>1, <1>3 DEF CharAt
<1> QED BY <1>2, <1>3

\* What has been written up to byte p is right.
Content(g, page, p) ==
    \A j \in 1 .. Total(g) : \A k \in 0 .. Len(Str(g, j)) :
        Off(g)[j - 1] + k < p => page[Off(g)[j - 1] + k] = CharAt(Str(g, j), k)

\* A character of a string is written to its place.
LEMMA WriteString ==
    ASSUME NEW g \in Calls, NEW p \in Page, NEW page \in [Page -> Chars], Content(g, page, p),
           NEW a \in 1 .. Total(g), NEW x \in 0 .. Len(Str(g, a)), p = Off(g)[a - 1] + x
    PROVE  Content(g, [page EXCEPT ![p] = CharAt(Str(g, a), x)], p + 1)
<1> DEFINE c == CharAt(Str(g, a), x)
           new == [page EXCEPT ![p] = c]
<1> SUFFICES ASSUME NEW j \in 1 .. Total(g), NEW k \in 0 .. Len(Str(g, j)),
                    Off(g)[j - 1] + k < p + 1
             PROVE  new[Off(g)[j - 1] + k] = CharAt(Str(g, j), k)
  BY DEF Content
<1> DEFINE q == Off(g)[j - 1] + k
<1>1. q \in Nat /\ p \in Nat
  <2>1. Total(g) \in Nat /\ Len(Str(g, j)) \in Nat
    BY StrFacts
  <2>2. j - 1 \in 0 .. Total(g)
    BY <2>1
  <2>3. Off(g)[j - 1] \in Nat
    BY <2>2, OffLayout DEF Layout
  <2> QED BY <2>1, <2>3, PageSizeAssumption DEF Page
<1>2. CASE q = p
  <2>1. j = a /\ k = x
    BY <1>2, OnePlace
  <2>2. new[p] = c
    OBVIOUS
  <2> HIDE DEF new
  <2> QED BY <1>2, <2>1, <2>2
<1>3. CASE q # p
  <2>1. q < p
    BY <1>1, <1>3
  <2>2. page[q] = CharAt(Str(g, j), k)
    BY <2>1 DEF Content
  <2>3. q \in Page
    BY <1>1, <2>1, PageSizeAssumption DEF Page
  <2>4. new[q] = page[q]
    <3> HIDE DEF q, c
    <3> QED BY <1>3, <2>3
  <2> HIDE DEF new
  <2> QED BY <2>2, <2>4
<1> QED BY <1>2, <1>3

\* Behind the strings any byte may be written.
LEMMA WriteBehind ==
    ASSUME NEW g \in Calls, NEW p \in Page, NEW page \in [Page -> Chars], Content(g, page, p),
           NEW c, p >= Off(g)[Total(g)], NEW q \in Nat, p <= q
    PROVE  Content(g, [page EXCEPT ![p] = c], q)
<1> DEFINE new == [page EXCEPT ![p] = c]
<1> SUFFICES ASSUME NEW j \in 1 .. Total(g), NEW k \in 0 .. Len(Str(g, j)),
                    Off(g)[j - 1] + k < q
             PROVE  new[Off(g)[j - 1] + k] = CharAt(Str(g, j), k)
  BY DEF Content
<1> DEFINE r == Off(g)[j - 1] + k
<1>1. r \in Nat /\ p \in Nat /\ r < p
  <2>1. Total(g) \in Nat /\ Len(Str(g, j)) \in Nat
    BY StrFacts
  <2> DEFINE b == j - 1
             t == Total(g)
  <2>2. b \in 0 .. t /\ t \in 0 .. t /\ b < t /\ b <= t /\ b + 1 = j
    BY <2>1
  <2> HIDE DEF b, t
  <2>3. Off(g)[b] \in Nat /\ Off(g)[t] \in Nat /\ Off(g)[b] + Len(Str(g, b + 1)) + 1 <= Off(g)[t]
    BY <2>2, OffGrows DEF t
  <2>4. Off(g)[b] + Len(Str(g, j)) + 1 <= Off(g)[t]
    BY <2>2, <2>3
  <2>5. p \in Nat
    BY PageSizeAssumption DEF Page
  <2>6. p >= Off(g)[t] /\ k \in 0 .. Len(Str(g, j))
    BY DEF t
  <2>7. Off(g)[b] + k \in Nat /\ Off(g)[b] + k < p
    <3> DEFINE l == Len(Str(g, j))
    <3>1. l \in Nat /\ k \in 0 .. l /\ Off(g)[b] + l + 1 <= Off(g)[t]
      BY <2>1, <2>4, <2>6
    <3> HIDE DEF l
    <3> QED BY <2>3, <2>5, <2>6, <3>1
  <2> QED BY <2>5, <2>7 DEF b
<1>2. page[r] = CharAt(Str(g, j), k)
  BY <1>1 DEF Content
<1>3. r \in Page
  BY <1>1, PageSizeAssumption DEF Page
<1>4. new[r] = page[r]
  <2> HIDE DEF r
  <2> QED BY <1>1, <1>3
<1> HIDE DEF new
<1> QED BY <1>2, <1>4

\* The loop is at character c2 of string c1 of the n strings behind the first b,
\* or behind them, and writes byte p next.
Mid(g, b, n, c1, c2, p) ==
    \/ c1 \in 0 .. n - 1 /\ p = Off(g)[b + c1] + c2 /\ c2 \in 0 .. Len(Str(g, b + c1 + 1))
    \/ c1 = n /\ c2 = 0 /\ p = Off(g)[b + n]

\* One character further.
LEMMA MidMoves ==
    ASSUME NEW g \in Calls, NEW b \in Nat, NEW n \in Nat, b + n <= Total(g),
           NEW c1 \in 0 .. n - 1, NEW c2, NEW p, Mid(g, b, n, c1, c2, p)
    PROVE  LET a == b + c1 + 1
               c == CharAt(Str(g, a), c2)
           IN  /\ a \in 1 .. Total(g) /\ c2 \in 0 .. Len(Str(g, a)) /\ p = Off(g)[a - 1] + c2
               /\ c \in Chars
               /\ Mid(g, b, n, IF c = NUL THEN c1 + 1 ELSE c1, IF c = NUL THEN 0 ELSE c2 + 1, p + 1)
<1> DEFINE a == b + c1 + 1
           s == Str(g, a)
           c == CharAt(s, c2)
           l == Len(s)
<1>1. Total(g) \in Nat /\ c1 \in Nat /\ c1 # n
  BY StrFacts
<1>2. a \in 1 .. Total(g) /\ a - 1 = b + c1
  BY <1>1
<1>3. s \in Seq(Text) /\ l \in Nat
  BY <1>2, StrFacts
<1>4. c2 \in 0 .. l /\ p = Off(g)[b + c1] + c2
  BY <1>1 DEF Mid
<1>5. /\ Off(g)[a] = Off(g)[a - 1] + l + 1 /\ Off(g)[a - 1] \in Nat
  <2>1. a - 1 \in 0 .. Total(g)
    BY <1>1, <1>2
  <2> QED BY <1>2, <2>1, OffLayout DEF Layout
<1>6. p = Off(g)[a - 1] + c2
  BY <1>2, <1>4
<1>7. c2 \in Nat /\ c \in Chars /\ (c = NUL <=> ~(c2 < l))
  BY <1>3, <1>4, CharAtFacts
<1>8. CASE c = NUL
  <2>1. c2 = l
    BY <1>3, <1>4, <1>7, <1>8
  <2>2. p + 1 = Off(g)[a]
    BY <1>3, <1>5, <1>6, <2>1
  <2>3. b + (c1 + 1) = a /\ c1 + 1 \in 0 .. n
    BY <1>1
  <2>4. Mid(g, b, n, c1 + 1, 0, p + 1)
    <3>1. CASE c1 + 1 = n
      <4>1. p + 1 = Off(g)[b + n]
        BY <2>2, <2>3, <3>1
      <4> QED BY <3>1, <4>1 DEF Mid
    <3>2. CASE c1 + 1 # n
      <4>1. c1 + 1 \in 0 .. n - 1
        BY <2>3, <3>2
      <4>2. b + (c1 + 1) + 1 \in 1 .. Total(g)
        BY <1>1, <4>1
      <4>3. Len(Str(g, b + (c1 + 1) + 1)) \in Nat
        BY <4>2, StrFacts
      <4>4. 0 \in 0 .. Len(Str(g, b + (c1 + 1) + 1))
        <5> DEFINE z == Len(Str(g, b + (c1 + 1) + 1))
        <5>1. z \in Nat
          BY <4>3
        <5> HIDE DEF z
        <5>2. 0 \in 0 .. z
          BY <5>1
        <5> QED BY <5>2 DEF z
      <4>5. p + 1 = Off(g)[b + (c1 + 1)] + 0
        BY <1>3, <1>5, <2>2, <2>3
      <4> QED BY <4>1, <4>4, <4>5 DEF Mid
    <3> QED BY <3>1, <3>2
  <2> QED BY <1>2, <1>4, <1>6, <1>7, <1>8, <2>4
<1>9. CASE c # NUL
  <2>1. c2 + 1 \in 0 .. l
    BY <1>3, <1>4, <1>7, <1>9
  <2>2. p + 1 = Off(g)[b + c1] + (c2 + 1)
    <3>1. Off(g)[b + c1] \in Nat
      BY <1>2, <1>5
    <3> QED BY <1>4, <1>7, <3>1
  <2>3. Mid(g, b, n, c1, c2 + 1, p + 1)
    BY <2>1, <2>2 DEF Mid
  <2> QED BY <1>2, <1>4, <1>6, <1>7, <1>9, <2>3
<1> QED BY <1>8, <1>9

PackStates ==
    [page : [Page -> Chars], i : 0 .. PageSize, state : {"name", "argv", "envp"},
     count1 : Nat, count2 : Nat, argv : Nat, envp : Nat]

\* Where the loop is: byte p is next, a and e are argv_size and envp_size.
Stands(g, st, p, c1, c2, a, e) ==
    \/ st = "name" /\ Mid(g, 0, 1, 0, p, p) /\ a = 0 /\ e = 0 /\ c1 = 0 /\ c2 = 0
    \/ st = "argv" /\ Mid(g, 1, Argc(g), c1, c2, p) /\ a = 0 /\ e = 0
    \/ /\ st = "envp" /\ a = Argc(g) /\ Off(g)[1 + Argc(g)] < PageSize
       /\ \/ Mid(g, 1 + Argc(g), Envc(g), c1, c2, p) /\ e = 0
          \/ c1 = Envc(g) /\ e = Envc(g) /\ p > Off(g)[Total(g)]

PackInv(g, m) ==
    /\ m \in PackStates
    /\ Content(g, m.page, m.i)
    /\ Stands(g, m.state, m.i, m.count1, m.count2, m.argv, m.envp)

\* The bytes written, and the iteration that leaves argv.
Iterations(m) == IF m.state = "envp" THEN m.i + 1 ELSE m.i

\* The effect of PutString().
LEMMA PutStringFacts ==
    ASSUME NEW g \in Calls, NEW m, PackInv(g, m), m.i < PageSize,
           NEW b \in Nat, NEW k \in Nat, b + k <= Total(g), NEW list,
           m.count1 \in 0 .. k - 1, list[m.count1 + 1] = Str(g, b + m.count1 + 1),
           Mid(g, b, k, m.count1, m.count2, m.i)
    PROVE  LET n == PutString(m, list)
           IN  /\ n \in PackStates /\ n.i = m.i + 1 /\ Content(g, n.page, n.i)
               /\ Mid(g, b, k, n.count1, n.count2, n.i)
               /\ n.state = m.state /\ n.argv = m.argv /\ n.envp = m.envp
<1> DEFINE n  == PutString(m, list)
           c1 == m.count1
           c2 == m.count2
           p  == m.i
           a  == b + c1 + 1
           c  == CharAt(Str(g, a), c2)
           d1 == IF c = NUL THEN c1 + 1 ELSE c1
           d2 == IF c = NUL THEN 0 ELSE c2 + 1
<1>1. /\ m \in PackStates /\ m.page \in [Page -> Chars] /\ p \in 0 .. PageSize /\ c1 \in Nat
      /\ c2 \in Nat /\ m.argv \in Nat /\ m.envp \in Nat /\ m.state \in {"name", "argv", "envp"}
  BY DEF PackInv, PackStates
<1>2. p \in Page /\ p + 1 \in 0 .. PageSize
  BY <1>1, PageSizeAssumption DEF Page
<1>3. /\ a \in 1 .. Total(g) /\ c2 \in 0 .. Len(Str(g, a)) /\ p = Off(g)[a - 1] + c2
      /\ c \in Chars /\ Mid(g, b, k, d1, d2, p + 1)
  <2> HIDE DEF c1, c2, p
  <2>1. c1 \in 0 .. k - 1 /\ Mid(g, b, k, c1, c2, p)
    BY DEF c1, c2, p
  <2> QED BY <2>1, MidMoves
<1>4. d1 \in Nat /\ d2 \in Nat
  BY <1>1
<1>5. CharAt(list[c1 + 1], c2) = c
  OBVIOUS
<1>6. n = [m EXCEPT !.page[p] = c, !.i = p + 1, !.count1 = d1, !.count2 = d2]
  BY <1>5 DEF PutString
<1> HIDE DEF c, d1, d2, n
<1>7. /\ n \in PackStates /\ n.i = p + 1 /\ n.page = [m.page EXCEPT ![p] = c]
      /\ n.count1 = d1 /\ n.count2 = d2
      /\ n.state = m.state /\ n.argv = m.argv /\ n.envp = m.envp
  BY <1>1, <1>2, <1>3, <1>4, <1>6 DEF PackStates
<1>8. Content(g, n.page, n.i)
  <2>1. Content(g, m.page, p)
    BY DEF PackInv
  <2> DEFINE page == m.page
  <2> HIDE DEF page, p, c2
  <2>2. Content(g, [page EXCEPT ![p] = CharAt(Str(g, a), c2)], p + 1)
    BY <1>1, <1>2, <1>3, <2>1, WriteString DEF page
  <2> QED BY <1>7, <2>2 DEF page, c
<1>9. Mid(g, b, k, n.count1, n.count2, n.i)
  BY <1>3, <1>7
<1>10. /\ n \in PackStates /\ n.i = m.i + 1 /\ Content(g, n.page, n.i)
       /\ Mid(g, b, k, n.count1, n.count2, n.i)
       /\ n.state = m.state /\ n.argv = m.argv /\ n.envp = m.envp
  BY <1>7, <1>8, <1>9
<1> QED BY <1>10 DEF n

\* In the middle of n strings, or behind them.
LEMMA MidRange ==
    ASSUME NEW g, NEW b, NEW n \in Nat, NEW c1, NEW c2, NEW p, Mid(g, b, n, c1, c2, p)
    PROVE  /\ c1 \in 0 .. n
           /\ c1 = n => c2 = 0 /\ p = Off(g)[b + n]
<1>1. n \notin 0 .. n - 1
  OBVIOUS
<1> QED BY <1>1 DEF Mid

\* Between two lists the loop begins with the first string of the next one.
LEMMA MidBegins ==
    ASSUME NEW g \in Calls, NEW b \in Nat, NEW n \in Nat, b + n <= Total(g), NEW p,
           p = Off(g)[b]
    PROVE  Mid(g, b, n, 0, 0, p)
<1>1. Total(g) \in Nat /\ b \in 0 .. Total(g)
  BY StrFacts
<1>2. Off(g)[b] \in Nat
  BY <1>1, OffLayout DEF Layout
<1>3. CASE n = 0
  <2>1. b + n = b
    BY <1>3
  <2> QED BY <1>3, <2>1 DEF Mid
<1>4. CASE n # 0
  <2>1. 0 \in 0 .. n - 1 /\ b + 0 = b /\ b + 0 + 1 \in 1 .. Total(g)
    BY <1>1, <1>4
  <2> DEFINE l == Len(Str(g, b + 0 + 1))
  <2>2. l \in Nat
    BY <2>1, StrFacts
  <2> HIDE DEF l
  <2>3. 0 \in 0 .. l
    BY <2>2
  <2>4. p = Off(g)[b + 0] + 0
    BY <1>2, <2>1
  <2> QED BY <2>1, <2>3, <2>4 DEF Mid, l
<1> QED BY <1>3, <1>4

\* The first string is the name.
LEMMA PackNameFacts ==
    ASSUME NEW g \in Calls, NEW m, PackInv(g, m), m.i < PageSize, m.state = "name"
    PROVE  LET n == PackStep(m, g)
           IN  PackInv(g, n) /\ Iterations(n) = Iterations(m) + 1
<1> DEFINE n == PackStep(m, g)
           p == m.i
           c == CharAt(g.name, p)
           st == IF c = NUL THEN "argv" ELSE "name"
<1>1. /\ m \in PackStates /\ m.page \in [Page -> Chars] /\ p \in 0 .. PageSize
      /\ Content(g, m.page, p)
  BY DEF PackInv, PackStates
<1>2. p \in Page /\ p + 1 \in 0 .. PageSize /\ p # PageSize
  BY <1>1, PageSizeAssumption DEF Page
<1>3. /\ Mid(g, 0, 1, 0, p, p) /\ m.argv = 0 /\ m.envp = 0 /\ m.count1 = 0 /\ m.count2 = 0
  BY DEF PackInv, Stands
<1>4. Str(g, 1) = g.name /\ Total(g) >= 1 /\ Total(g) \in Nat /\ Argc(g) \in Nat
      /\ Total(g) = 1 + Argc(g) + Envc(g) /\ Envc(g) \in Nat
  BY StrFacts
<1>5. /\ 1 \in 1 .. Total(g) /\ p \in 0 .. Len(Str(g, 1)) /\ p = Off(g)[1 - 1] + p
      /\ CharAt(Str(g, 1), p) \in Chars
      /\ Mid(g, 0, 1, IF CharAt(Str(g, 1), p) = NUL THEN 0 + 1 ELSE 0,
             IF CharAt(Str(g, 1), p) = NUL THEN 0 ELSE p + 1, p + 1)
  <2> HIDE DEF p
  <2>1. 0 \in 0 .. 1 - 1 /\ 0 + 1 <= Total(g) /\ 0 \in Nat /\ 1 \in Nat
    BY <1>4
  <2>2. LET a == 0 + 0 + 1
            d == CharAt(Str(g, a), p)
        IN  /\ a \in 1 .. Total(g) /\ p \in 0 .. Len(Str(g, a)) /\ p = Off(g)[a - 1] + p
            /\ d \in Chars
            /\ Mid(g, 0, 1, IF d = NUL THEN 0 + 1 ELSE 0, IF d = NUL THEN 0 ELSE p + 1, p + 1)
    BY <1>3, <2>1, MidMoves
  <2>3. 0 + 0 + 1 = 1
    OBVIOUS
  <2> QED BY <2>2, <2>3
<1>6. c \in Chars /\ Mid(g, 0, 1, IF c = NUL THEN 1 ELSE 0, IF c = NUL THEN 0 ELSE p + 1, p + 1)
  BY <1>4, <1>5
<1>7. n = [m EXCEPT !.page[p] = c, !.i = p + 1, !.state = st]
  <2> HIDE DEF c
  <2> QED BY <1>2 DEF PackStep, c
<1> HIDE DEF c, n
<1>8. /\ n \in PackStates /\ n.i = p + 1 /\ n.page = [m.page EXCEPT ![p] = c]
      /\ n.state = st /\ n.count1 = 0 /\ n.count2 = 0 /\ n.argv = 0 /\ n.envp = 0
  BY <1>1, <1>2, <1>3, <1>6, <1>7 DEF PackStates
<1>9. Content(g, n.page, n.i)
  <2> DEFINE page == m.page
  <2> HIDE DEF page, p
  <2>1. Content(g, [page EXCEPT ![p] = CharAt(Str(g, 1), p)], p + 1)
    BY <1>1, <1>2, <1>5, WriteString DEF page
  <2> QED BY <1>4, <1>8, <2>1 DEF page, c, p
<1>10. Stands(g, n.state, n.i, n.count1, n.count2, n.argv, n.envp)
  <2>1. CASE c = NUL
    <3>1. Mid(g, 0, 1, 1, 0, p + 1)
      BY <1>6, <2>1
    <3>2. p + 1 = Off(g)[1]
      <4>1. p + 1 = Off(g)[0 + 1] /\ 0 + 1 = 1
        BY <3>1, MidRange
      <4> QED BY <4>1
    <3>3. Mid(g, 1, Argc(g), 0, 0, p + 1)
      <4>1. 1 + Argc(g) <= Total(g)
        BY <1>4
      <4> HIDE DEF p
      <4> QED BY <1>4, <3>2, <4>1, MidBegins
    <3> QED BY <1>8, <2>1, <3>3 DEF Stands
  <2>2. CASE c # NUL
    <3>1. Mid(g, 0, 1, 0, p + 1, p + 1)
      BY <1>6, <2>2
    <3> QED BY <1>8, <2>2, <3>1 DEF Stands
  <2> QED BY <2>1, <2>2
<1>11. Iterations(n) = Iterations(m) + 1
  BY <1>8 DEF Iterations
<1>12. PackInv(g, n) /\ Iterations(n) = Iterations(m) + 1
  BY <1>8, <1>9, <1>10, <1>11 DEF PackInv
<1> QED BY <1>12 DEF n

\* The arguments; leaving them takes an iteration and no byte.
LEMMA PackArgvFacts ==
    ASSUME NEW g \in Calls, NEW m, PackInv(g, m), m.i < PageSize, m.state = "argv"
    PROVE  LET n == PackStep(m, g)
           IN  PackInv(g, n) /\ Iterations(n) = Iterations(m) + 1
<1> DEFINE n == PackStep(m, g)
           p == m.i
<1>1. /\ m \in PackStates /\ m.page \in [Page -> Chars] /\ p \in 0 .. PageSize
      /\ Content(g, m.page, p)
  BY DEF PackInv, PackStates
<1>2. p # PageSize /\ p \in Int
  BY <1>1, PageSizeAssumption
<1>3. Mid(g, 1, Argc(g), m.count1, m.count2, p) /\ m.argv = 0 /\ m.envp = 0
  BY DEF PackInv, Stands
<1>4. /\ Total(g) \in Nat /\ Argc(g) \in Nat /\ Total(g) = 1 + Argc(g) + Envc(g) /\ Envc(g) \in Nat
      /\ \A j \in 1 .. Argc(g) : Str(g, j + 1) = g.argv[j]
  BY StrFacts
<1>5. /\ m.count1 \in 0 .. Argc(g)
      /\ m.count1 = Argc(g) => m.count2 = 0 /\ p = Off(g)[1 + Argc(g)]
  <2> DEFINE c1 == m.count1
             c2 == m.count2
  <2> HIDE DEF c1, c2, p
  <2>1. Mid(g, 1, Argc(g), c1, c2, p)
    BY <1>3 DEF c1, c2
  <2>2. c1 \in 0 .. Argc(g) /\ (c1 = Argc(g) => c2 = 0 /\ p = Off(g)[1 + Argc(g)])
    BY <1>4, <2>1, MidRange
  <2> QED BY <2>2 DEF c1, c2
<1>6. Len(g.argv) = Argc(g)
  BY DEF Argc
<1>7. CASE m.count1 = Argc(g)
  <2>1. n = [m EXCEPT !.state = "envp", !.argv = m.count1, !.count1 = 0, !.count2 = 0]
    BY <1>2, <1>6, <1>7 DEF PackStep
  <2> HIDE DEF n
  <2>2. /\ n \in PackStates /\ n.i = p /\ n.page = m.page /\ n.state = "envp"
        /\ n.argv = Argc(g) /\ n.count1 = 0 /\ n.count2 = 0 /\ n.envp = 0
    BY <1>1, <1>3, <1>4, <1>7, <2>1 DEF PackStates
  <2>3. Mid(g, 1 + Argc(g), Envc(g), 0, 0, p)
    <3>1. 1 + Argc(g) \in Nat /\ (1 + Argc(g)) + Envc(g) <= Total(g)
      BY <1>4
    <3> HIDE DEF p
    <3> QED BY <1>4, <1>5, <1>7, <3>1, MidBegins
  <2>4. Off(g)[1 + Argc(g)] < PageSize
    BY <1>5, <1>7
  <2>5. Stands(g, n.state, n.i, n.count1, n.count2, n.argv, n.envp)
    BY <2>2, <2>3, <2>4 DEF Stands
  <2>6. Iterations(n) = Iterations(m) + 1
    BY <2>2 DEF Iterations
  <2>7. PackInv(g, n) /\ Iterations(n) = Iterations(m) + 1
    BY <1>1, <2>2, <2>5, <2>6 DEF PackInv
  <2> QED BY <2>7 DEF n
<1>8. CASE m.count1 # Argc(g)
  <2>1. m.count1 \in 0 .. Argc(g) - 1 /\ m.count1 + 1 \in 1 .. Argc(g) /\ m.count1 < Argc(g)
        /\ 1 + m.count1 + 1 = (m.count1 + 1) + 1 /\ 1 + Argc(g) <= Total(g)
    BY <1>4, <1>5, <1>8
  <2>2. g.argv[m.count1 + 1] = Str(g, 1 + m.count1 + 1)
    BY <1>4, <2>1
  <2>3. n = PutString(m, g.argv)
    BY <1>2, <1>6, <1>8, <2>1 DEF PackStep
  <2>4. LET r == PutString(m, g.argv)
        IN  /\ r \in PackStates /\ r.i = m.i + 1 /\ Content(g, r.page, r.i)
            /\ Mid(g, 1, Argc(g), r.count1, r.count2, r.i)
            /\ r.state = m.state /\ r.argv = m.argv /\ r.envp = m.envp
    <3> DEFINE list == g.argv
    <3>1. list[m.count1 + 1] = Str(g, 1 + m.count1 + 1)
      BY <2>2
    <3> HIDE DEF list
    <3>2. LET r == PutString(m, list)
          IN  /\ r \in PackStates /\ r.i = m.i + 1 /\ Content(g, r.page, r.i)
              /\ Mid(g, 1, Argc(g), r.count1, r.count2, r.i)
              /\ r.state = m.state /\ r.argv = m.argv /\ r.envp = m.envp
      BY <1>3, <1>4, <2>1, <3>1, PutStringFacts
    <3> QED BY <3>2 DEF list
  <2>5. /\ n \in PackStates /\ n.i = m.i + 1 /\ Content(g, n.page, n.i)
        /\ Mid(g, 1, Argc(g), n.count1, n.count2, n.i)
        /\ n.state = "argv" /\ n.argv = 0 /\ n.envp = 0
    BY <1>3, <2>3, <2>4
  <2> HIDE DEF n
  <2>6. Stands(g, n.state, n.i, n.count1, n.count2, n.argv, n.envp)
    BY <2>5 DEF Stands
  <2>7. Iterations(n) = Iterations(m) + 1
    BY <2>5 DEF Iterations
  <2>8. PackInv(g, n) /\ Iterations(n) = Iterations(m) + 1
    BY <2>5, <2>6, <2>7 DEF PackInv
  <2> QED BY <2>8 DEF n
<1> QED BY <1>7, <1>8

\* The environment, and the NULs behind it.
LEMMA PackEnvpFacts ==
    ASSUME NEW g \in Calls, NEW m, PackInv(g, m), m.i < PageSize, m.state = "envp"
    PROVE  LET n == PackStep(m, g)
           IN  PackInv(g, n) /\ Iterations(n) = Iterations(m) + 1
<1> DEFINE n == PackStep(m, g)
           p == m.i
           b == 1 + Argc(g)
<1>1. /\ m \in PackStates /\ m.page \in [Page -> Chars] /\ p \in 0 .. PageSize
      /\ Content(g, m.page, p)
  BY DEF PackInv, PackStates
<1>2. p # PageSize /\ p \in Page /\ p + 1 \in 0 .. PageSize /\ p \in Nat
  BY <1>1, PageSizeAssumption DEF Page
<1>3. /\ m.argv = Argc(g) /\ Off(g)[b] < PageSize
      /\ \/ Mid(g, b, Envc(g), m.count1, m.count2, p) /\ m.envp = 0
         \/ m.count1 = Envc(g) /\ m.envp = Envc(g) /\ p > Off(g)[Total(g)]
  BY DEF PackInv, Stands
<1>4. /\ Total(g) \in Nat /\ Argc(g) \in Nat /\ Total(g) = 1 + Argc(g) + Envc(g) /\ Envc(g) \in Nat
      /\ \A j \in 1 .. Envc(g) : Str(g, 1 + Argc(g) + j) = g.envp[j]
  BY StrFacts
<1>5. b \in Nat /\ b + Envc(g) = Total(g) /\ Len(g.envp) = Envc(g)
  BY <1>4 DEF Envc
<1>6. Off(g)[Total(g)] \in Nat
  <2>1. Total(g) \in 0 .. Total(g)
    BY <1>4
  <2> QED BY <2>1, OffLayout DEF Layout
<1>7. CASE m.count1 = Envc(g)
  <2>1. p >= Off(g)[Total(g)]
    <3>1. CASE Mid(g, b, Envc(g), m.count1, m.count2, p)
      <4>1. p = Off(g)[b + Envc(g)]
        BY <1>4, <1>7, <3>1, MidRange
      <4> QED BY <1>5, <1>6, <4>1
    <3>2. CASE p > Off(g)[Total(g)]
      BY <1>2, <1>6, <3>2
    <3> QED BY <1>3, <3>1, <3>2
  <2>2. n = [m EXCEPT !.page[p] = NUL, !.i = p + 1, !.envp = m.count1]
    BY <1>2, <1>5, <1>7 DEF PackStep
  <2> HIDE DEF n
  <2>3. NUL \in Chars
    BY DEF Chars
  <2>4. /\ n \in PackStates /\ n.i = p + 1 /\ n.page = [m.page EXCEPT ![p] = NUL]
        /\ n.state = "envp" /\ n.count1 = Envc(g) /\ n.argv = Argc(g) /\ n.envp = Envc(g)
    BY <1>1, <1>2, <1>3, <1>4, <1>7, <2>2, <2>3 DEF PackStates
  <2>5. Content(g, n.page, n.i)
    <3> DEFINE page == m.page
    <3> HIDE DEF page, p
    <3>1. p + 1 \in Nat /\ p <= p + 1
      BY <1>2
    <3>2. Content(g, [page EXCEPT ![p] = NUL], p + 1)
      BY <1>1, <1>2, <2>1, <3>1, WriteBehind DEF page
    <3> QED BY <2>4, <3>2 DEF page, p
  <2>6. n.i > Off(g)[Total(g)]
    BY <1>2, <1>6, <2>1, <2>4
  <2>7. Stands(g, n.state, n.i, n.count1, n.count2, n.argv, n.envp)
    BY <1>3, <2>4, <2>6 DEF Stands
  <2>8. Iterations(n) = Iterations(m) + 1
    BY <1>2, <2>4 DEF Iterations
  <2>9. PackInv(g, n) /\ Iterations(n) = Iterations(m) + 1
    BY <2>4, <2>5, <2>7, <2>8 DEF PackInv
  <2> QED BY <2>9 DEF n
<1>8. CASE m.count1 # Envc(g)
  <2>1. Mid(g, b, Envc(g), m.count1, m.count2, p) /\ m.envp = 0
    BY <1>3, <1>8
  <2>2. m.count1 \in 0 .. Envc(g)
    BY <1>4, <2>1, MidRange
  <2>3. m.count1 \in 0 .. Envc(g) - 1 /\ m.count1 + 1 \in 1 .. Envc(g) /\ m.count1 < Envc(g)
        /\ b + m.count1 + 1 = 1 + Argc(g) + (m.count1 + 1) /\ b + Envc(g) <= Total(g)
    BY <1>4, <1>8, <2>2
  <2>4. g.envp[m.count1 + 1] = Str(g, b + m.count1 + 1)
    BY <1>4, <2>3
  <2>5. n = PutString(m, g.envp)
    BY <1>2, <1>5, <1>8, <2>3 DEF PackStep
  <2>6. LET r == PutString(m, g.envp)
        IN  /\ r \in PackStates /\ r.i = m.i + 1 /\ Content(g, r.page, r.i)
            /\ Mid(g, b, Envc(g), r.count1, r.count2, r.i)
            /\ r.state = m.state /\ r.argv = m.argv /\ r.envp = m.envp
    <3> DEFINE list == g.envp
    <3>1. list[m.count1 + 1] = Str(g, b + m.count1 + 1)
      BY <2>4
    <3> HIDE DEF list, b
    <3>2. LET r == PutString(m, list)
          IN  /\ r \in PackStates /\ r.i = m.i + 1 /\ Content(g, r.page, r.i)
              /\ Mid(g, b, Envc(g), r.count1, r.count2, r.i)
              /\ r.state = m.state /\ r.argv = m.argv /\ r.envp = m.envp
      BY <1>4, <1>5, <2>1, <2>3, <3>1, PutStringFacts
    <3> QED BY <3>2 DEF list
  <2>7. /\ n \in PackStates /\ n.i = m.i + 1 /\ Content(g, n.page, n.i)
        /\ Mid(g, b, Envc(g), n.count1, n.count2, n.i)
        /\ n.state = "envp" /\ n.argv = Argc(g) /\ n.envp = 0
    BY <1>3, <2>1, <2>5, <2>6
  <2> HIDE DEF n
  <2>8. Stands(g, n.state, n.i, n.count1, n.count2, n.argv, n.envp)
    BY <1>3, <2>7 DEF Stands
  <2>9. Iterations(n) = Iterations(m) + 1
    BY <1>2, <2>7 DEF Iterations
  <2>10. PackInv(g, n) /\ Iterations(n) = Iterations(m) + 1
    BY <2>7, <2>8, <2>9 DEF PackInv
  <2> QED BY <2>10 DEF n
<1> QED BY <1>7, <1>8

\* The strings of g are in the page as far as they fit, and sizes are counted only
\* when all the strings of a list are there and a byte is left.
Laid(g, page, sz) ==
    /\ page \in [Page -> Chars] /\ sz \in [argv : Nat, envp : Nat]
    /\ Content(g, page, PageSize - 1)
    /\ page[PageSize - 1] = NUL
    /\ Off(g)[Total(g)] < PageSize => sz.argv = Argc(g) /\ sz.envp = Envc(g)
    /\ sz.argv # 0 => sz.argv = Argc(g) /\ Off(g)[1 + Argc(g)] < PageSize
    /\ sz.envp # 0 => sz.envp = Envc(g) /\ Off(g)[Total(g)] < PageSize

\* A loop that has filled the page and is in the middle of n strings has not
\* written all of them.
LEMMA MidBefore ==
    ASSUME NEW g \in Calls, NEW b \in Nat, NEW n \in Nat, b + n <= Total(g),
           NEW c1, NEW c2, NEW p, Mid(g, b, n, c1, c2, p)
    PROVE  p <= Off(g)[Total(g)] /\ p \in Nat /\ p <= Off(g)[b + n]
<1>1. Total(g) \in Nat /\ b + n \in 0 .. Total(g) /\ Total(g) \in 0 .. Total(g)
  BY StrFacts
<1> DEFINE e == b + n
<1>2. Off(g)[e] \in Nat /\ Off(g)[Total(g)] \in Nat /\ Off(g)[e] + (Total(g) - e) <= Off(g)[Total(g)]
  <2>1. e \in 0 .. Total(g) /\ e <= Total(g)
    BY <1>1
  <2> HIDE DEF e
  <2> QED BY <1>1, <2>1, OffGrows
<1>3. CASE c1 = n /\ c2 = 0 /\ p = Off(g)[b + n]
  BY <1>1, <1>2, <1>3
<1>4. CASE c1 \in 0 .. n - 1 /\ p = Off(g)[b + c1] + c2 /\ c2 \in 0 .. Len(Str(g, b + c1 + 1))
  <2> DEFINE a == b + c1
  <2>1. a \in 0 .. Total(g) /\ a < e /\ e \in 0 .. Total(g) /\ a <= e /\ a + 1 \in 1 .. Total(g)
    BY <1>1, <1>4
  <2>2. p = Off(g)[a] + c2 /\ c2 \in 0 .. Len(Str(g, a + 1))
    BY <1>4
  <2> HIDE DEF a, e
  <2>3. Off(g)[a] \in Nat /\ Off(g)[a] + Len(Str(g, a + 1)) + 1 <= Off(g)[e]
    BY <2>1, OffGrows
  <2> DEFINE l == Len(Str(g, a + 1))
  <2>4. l \in Nat
    BY <2>1, StrFacts
  <2>5. c2 \in 0 .. l /\ Off(g)[a] + l + 1 <= Off(g)[e]
    BY <2>2, <2>3
  <2> HIDE DEF l
  <2>6. p \in Nat /\ p <= Off(g)[e]
    BY <1>2, <2>2, <2>3, <2>4, <2>5
  <2> QED BY <1>1, <1>2, <2>1, <2>6 DEF e
<1> QED BY <1>3, <1>4 DEF Mid

\* exec() lays out its strings.
LEMMA PackedFacts ==
    ASSUME NEW g \in Calls, shm \in [Page -> Chars]
    PROVE  LET m == Packed(g)
           IN  Laid(g, m.page, [argv |-> m.argv, envp |-> m.envp])
<1> DEFINE seq == [n \in 1 .. PageSize + 1 |-> n]
           m   == PackFold!Fold(g, PackStart, seq)
           S   == [k \in 0 .. PageSize + 1 |->
                      {x \in PackStates : PackInv(g, x) /\ (x.i = PageSize \/ Iterations(x) = k)}]
<1>1. Packed(g) = [m EXCEPT !.page[PageSize - 1] = NUL]
  BY DEF Packed, PackFold!Fold, FoldLeft, MapThenFoldSet, PackFold!FoldLeft,
         PackFold!MapThenFoldSet, PackTurn, Max, PackFold!Max
<1>2. /\ PageSize \in Nat /\ PageSize >= 1 /\ PageSize + 1 \in Nat /\ 0 \in 0 .. PageSize + 1
      /\ DOMAIN seq = 1 .. PageSize + 1
  BY PageSizeAssumption
<1>3. /\ Total(g) \in Nat /\ Argc(g) \in Nat /\ Total(g) = 1 + Argc(g) + Envc(g) /\ Envc(g) \in Nat
  BY StrFacts
<1>4. PackStart \in S[0]
  <2>1. PackStart \in PackStates
    BY <1>2 DEF PackStart, PackStates
  <2>2. Off(g)[0] = 0
    BY OffLayout DEF Layout
  <2>3. Mid(g, 0, 1, 0, 0, 0)
    <3>1. 0 + 1 <= Total(g)
      BY <1>3
    <3> QED BY <2>2, <3>1, MidBegins
  <2>4. Content(g, PackStart.page, 0)
    <3> SUFFICES ASSUME NEW j \in 1 .. Total(g), NEW k \in 0 .. Len(Str(g, j))
                 PROVE  ~(Off(g)[j - 1] + k < 0)
      BY DEF Content
    <3> DEFINE l == Len(Str(g, j))
    <3>1. j - 1 \in 0 .. Total(g) /\ l \in Nat /\ k \in 0 .. l
      BY <1>3, StrFacts
    <3>2. Off(g)[j - 1] \in Nat
      BY <3>1, OffLayout DEF Layout
    <3> HIDE DEF l
    <3> QED BY <3>1, <3>2
  <2>5. /\ PackStart.i = 0 /\ PackStart.state = "name" /\ PackStart.count1 = 0
        /\ PackStart.count2 = 0 /\ PackStart.argv = 0 /\ PackStart.envp = 0
    BY DEF PackStart
  <2>6. Stands(g, PackStart.state, PackStart.i, PackStart.count1, PackStart.count2,
               PackStart.argv, PackStart.envp)
    BY <2>3, <2>5 DEF Stands
  <2>7. PackInv(g, PackStart) /\ Iterations(PackStart) = 0
    BY <2>1, <2>4, <2>5, <2>6 DEF PackInv, Iterations
  <2> QED BY <1>2, <2>1, <2>7
<1>5. ASSUME NEW k \in 1 .. PageSize + 1, NEW x \in S[k - 1]
      PROVE  PackTurn(g, x, seq[k]) \in S[k]
  <2> DEFINE n == PackStep(x, g)
  <2>1. /\ k - 1 \in 0 .. PageSize + 1 /\ k \in 0 .. PageSize + 1
    BY <1>2
  <2>2. x \in PackStates /\ PackInv(g, x) /\ (x.i = PageSize \/ Iterations(x) = k - 1)
    BY <2>1
  <2>3. PackTurn(g, x, seq[k]) = n
    BY DEF PackTurn
  <2>4. CASE x.i = PageSize
    <3>1. n = x
      BY <2>4 DEF PackStep
    <3> HIDE DEF n
    <3>2. n \in PackStates /\ PackInv(g, n) /\ n.i = PageSize
      BY <2>2, <2>4, <3>1
    <3> QED BY <2>1, <2>3, <3>2
  <2>5. CASE x.i # PageSize
    <3>1. x.i < PageSize /\ x.state \in {"name", "argv", "envp"}
      BY <1>2, <2>2, <2>5 DEF PackStates
    <3>2. PackInv(g, n) /\ Iterations(n) = Iterations(x) + 1
      BY <2>2, <3>1, PackNameFacts, PackArgvFacts, PackEnvpFacts
    <3> HIDE DEF n
    <3>3. n \in PackStates /\ PackInv(g, n) /\ Iterations(n) = k
      BY <1>2, <2>2, <2>5, <3>2 DEF PackInv
    <3> QED BY <2>1, <2>3, <3>3
  <2> QED BY <2>4, <2>5
<1>6. m \in S[PageSize + 1]
  <2> HIDE DEF S, seq
  <2> QED BY <1>2, <1>4, <1>5, PackFold!FoldRule
<1>7. PackInv(g, m) /\ m.i = PageSize
  <2> HIDE DEF m
  <2>1. m \in PackStates /\ PackInv(g, m) /\ (m.i = PageSize \/ Iterations(m) = PageSize + 1)
    <3>1. PageSize + 1 \in 0 .. PageSize + 1
      BY <1>2
    <3> QED BY <1>6, <3>1
  <2>2. m.i \in 0 .. PageSize
    BY <2>1 DEF PackStates
  <2> QED BY <1>2, <2>1, <2>2 DEF Iterations
<1> HIDE DEF m, S
<1> DEFINE w == Packed(g)
           sz == [argv |-> w.argv, envp |-> w.envp]
           p == PageSize - 1
<1>8. /\ m \in PackStates /\ m.page \in [Page -> Chars] /\ m.argv \in Nat /\ m.envp \in Nat
      /\ Content(g, m.page, PageSize)
      /\ Stands(g, m.state, PageSize, m.count1, m.count2, m.argv, m.envp)
  BY <1>7 DEF PackInv, PackStates
<1>9. p \in Page /\ p \in Nat /\ NUL \in Chars
  BY <1>2 DEF Page, Chars
<1>10. /\ w.page = [m.page EXCEPT ![p] = NUL] /\ w.argv = m.argv /\ w.envp = m.envp
  BY <1>1, <1>8 DEF PackStates
<1> HIDE DEF w
<1>11. w.page \in [Page -> Chars] /\ w.page[p] = NUL
  <2> HIDE DEF p
  <2> QED BY <1>8, <1>9, <1>10
<1>12. Content(g, w.page, p)
  <2> SUFFICES ASSUME NEW j \in 1 .. Total(g), NEW k \in 0 .. Len(Str(g, j)),
                      Off(g)[j - 1] + k < p
               PROVE  w.page[Off(g)[j - 1] + k] = CharAt(Str(g, j), k)
    BY DEF Content
  <2> DEFINE r == Off(g)[j - 1] + k
  <2>1. r \in Nat
    <3> DEFINE l == Len(Str(g, j))
    <3>1. j - 1 \in 0 .. Total(g) /\ l \in Nat /\ k \in 0 .. l
      BY <1>3, StrFacts
    <3>2. Off(g)[j - 1] \in Nat
      BY <3>1, OffLayout DEF Layout
    <3> HIDE DEF l
    <3> QED BY <3>1, <3>2
  <2>2. r < PageSize /\ r \in Page /\ r # p
    BY <1>2, <2>1 DEF Page
  <2>3. m.page[r] = CharAt(Str(g, j), k)
    BY <1>8, <2>2 DEF Content
  <2>4. w.page[r] = m.page[r]
    <3> HIDE DEF r, p
    <3> QED BY <1>8, <1>10, <2>2
  <2> QED BY <2>3, <2>4
<1>13. /\ Off(g)[Total(g)] < PageSize => m.argv = Argc(g) /\ m.envp = Envc(g)
       /\ m.argv # 0 => m.argv = Argc(g) /\ Off(g)[1 + Argc(g)] < PageSize
       /\ m.envp # 0 => m.envp = Envc(g) /\ Off(g)[Total(g)] < PageSize
  <2> DEFINE st == m.state
             c1 == m.count1
             c2 == m.count2
             av == m.argv
             ev == m.envp
             t  == Off(g)[Total(g)]
  <2>1. Stands(g, st, PageSize, c1, c2, av, ev)
    BY <1>8
  <2>2. t \in Nat
    <3>1. Total(g) \in 0 .. Total(g)
      BY <1>3
    <3> QED BY <3>1, OffLayout DEF Layout
  <2> HIDE DEF st, c1, c2, av, ev
  <2>3. CASE Mid(g, 0, 1, 0, PageSize, PageSize) /\ av = 0 /\ ev = 0
    <3>1. 0 + 1 <= Total(g)
      BY <1>3
    <3>2. PageSize <= t
      BY <3>1, <2>3, MidBefore
    <3> QED BY <1>2, <2>2, <2>3, <3>2 DEF av, ev
  <2>4. CASE Mid(g, 1, Argc(g), c1, c2, PageSize) /\ av = 0 /\ ev = 0
    <3>1. 1 + Argc(g) <= Total(g)
      BY <1>3
    <3>2. PageSize <= t
      BY <1>3, <3>1, <2>4, MidBefore
    <3> QED BY <1>2, <2>2, <2>4, <3>2 DEF av, ev
  <2>5. CASE /\ av = Argc(g) /\ Off(g)[1 + Argc(g)] < PageSize
             /\ Mid(g, 1 + Argc(g), Envc(g), c1, c2, PageSize) /\ ev = 0
    <3>1. (1 + Argc(g)) + Envc(g) <= Total(g) /\ 1 + Argc(g) \in Nat
      BY <1>3
    <3>2. PageSize <= t
      BY <1>3, <3>1, <2>5, MidBefore
    <3> QED BY <1>2, <2>2, <2>5, <3>2 DEF av, ev
  <2>6. CASE /\ av = Argc(g) /\ Off(g)[1 + Argc(g)] < PageSize
             /\ ev = Envc(g) /\ PageSize > t
    BY <1>2, <2>2, <2>6 DEF av, ev
  <2> QED BY <2>1, <2>3, <2>4, <2>5, <2>6 DEF Stands
<1>14. /\ sz \in [argv : Nat, envp : Nat] /\ sz.argv = m.argv /\ sz.envp = m.envp
  BY <1>8, <1>10
<1> HIDE DEF sz
<1>15. Laid(g, w.page, sz)
  BY <1>11, <1>12, <1>13, <1>14 DEF Laid
<1> QED BY <1>15 DEF w, sz

-----------------------------------------------------------------------------
(* exec_process() finds the strings again. *)

\* The end of the string at p in a memory f of n bytes.
EndIn(f, n, p) == Least({q \in p .. n - 1 : f[q] = NUL} \cup {n})

\* A string s at p, with its NUL inside the memory.
LEMMA StringIn ==
    ASSUME NEW n \in Nat, NEW f, NEW p \in Nat, NEW s \in Seq(Text), p + Len(s) < n,
           \A k \in 1 .. Len(s) : f[p + k - 1] = s[k], f[p + Len(s)] = NUL
    PROVE  /\ EndIn(f, n, p) = p + Len(s)
           /\ [k \in 1 .. EndIn(f, n, p) - p |-> f[p + k - 1]] = s
<1> DEFINE l == Len(s)
           S == {q \in p .. n - 1 : f[q] = NUL} \cup {n}
           e == p + l
<1>1. l \in Nat /\ s \in [1 .. l -> Text] /\ NUL \notin Text
  BY LettersAssumption DEF Text, NUL, SP, CR, SLASH
<1>2. \A k \in 1 .. l : f[p + k - 1] = s[k]
  OBVIOUS
<1>3. p + l < n /\ f[e] = NUL
  OBVIOUS
<1> HIDE DEF l
<1>4. S \subseteq Int
  OBVIOUS
<1>5. e \in S
  BY <1>1, <1>3
<1>6. ASSUME NEW y \in S PROVE e <= y
  <2>1. CASE y = n
    BY <1>1, <1>3, <2>1
  <2>2. CASE y # n
    <3>1. y \in p .. n - 1 /\ f[y] = NUL
      BY <2>2
    <3> SUFFICES ASSUME y < e PROVE FALSE
      BY <1>1, <3>1
    <3> DEFINE k == y - p + 1
    <3>2. k \in 1 .. l /\ p + k - 1 = y
      BY <1>1, <3>1
    <3> HIDE DEF k
    <3>3. s[k] = NUL /\ s[k] \in Text
      BY <1>1, <1>2, <3>1, <3>2
    <3> QED BY <1>1, <3>3
  <2> QED BY <2>1, <2>2
<1> HIDE DEF S
<1>7. Least(S) = e
  BY <1>4, <1>5, <1>6, LeastIs
<1>8. EndIn(f, n, p) = e
  BY <1>7 DEF EndIn, S
<1>9. e - p = l
  BY <1>1
<1>10. [k \in 1 .. l |-> f[p + k - 1]] = s
  BY <1>1, <1>2
<1> QED BY <1>8, <1>9, <1>10 DEF l

\* A string that fits is found where it was laid.
LEMMA StringLaid ==
    ASSUME NEW g \in Calls, Laid(g, shm, sizes), NEW j \in 1 .. Total(g), Off(g)[j] < PageSize
    PROVE  /\ Off(g)[j - 1] \in Nat /\ Off(g)[j] \in Nat
           /\ Off(g)[j] = Off(g)[j - 1] + Len(Str(g, j)) + 1
           /\ EndOfString(Off(g)[j - 1]) = Off(g)[j] - 1
           /\ StringAt(Off(g)[j - 1]) = Str(g, j)
           /\ shm[Off(g)[j] - 1] = NUL
<1> DEFINE s == Str(g, j)
           l == Len(s)
           p == Off(g)[j - 1]
<1>1. s \in Seq(Text) /\ l \in Nat /\ Total(g) \in Nat
  BY StrFacts
<1>2. p \in Nat /\ Off(g)[j] = p + l + 1
  <2>1. j - 1 \in 0 .. Total(g)
    BY <1>1
  <2> QED BY <2>1, OffLayout DEF Layout
<1>3. PageSize \in Nat /\ PageSize >= 1
  BY PageSizeAssumption
<1>4. \A k \in 0 .. l : shm[p + k] = CharAt(s, k)
  <2> TAKE k \in 0 .. l
  <2>1. p + k < PageSize - 1
    <3> HIDE DEF l, p
    <3>1. k \in 0 .. l /\ p + l + 1 < PageSize
      BY <1>2 DEF l
    <3> QED BY <1>1, <1>2, <1>3, <3>1
  <2> QED BY <2>1 DEF Laid, Content
<1>5. ASSUME NEW k \in 1 .. l PROVE shm[p + k - 1] = s[k]
  <2> HIDE DEF l, p, s
  <2>1. k - 1 \in 0 .. l /\ k - 1 < l /\ (k - 1) + 1 = k /\ p + (k - 1) = p + k - 1
    BY <1>1, <1>2
  <2>2. shm[p + (k - 1)] = CharAt(s, k - 1)
    BY <1>4, <2>1
  <2>3. CharAt(s, k - 1) = s[k]
    BY <2>1 DEF CharAt, l
  <2> QED BY <2>1, <2>2, <2>3
<1>6. shm[p + l] = NUL
  <2> HIDE DEF l, p, s
  <2>1. l \in 0 .. l /\ ~(l < l)
    BY <1>1
  <2>2. CharAt(s, l) = NUL
    BY <2>1 DEF CharAt, l
  <2> QED BY <1>4, <2>1, <2>2
<1>7. p + l < PageSize /\ p + l = Off(g)[j] - 1
  BY <1>1, <1>2, <1>3
<1>8. /\ EndIn(shm, PageSize, p) = p + l
      /\ [k \in 1 .. EndIn(shm, PageSize, p) - p |-> shm[p + k - 1]] = s
  <2> DEFINE f == shm
  <2>1. p + Len(s) < PageSize /\ (\A k \in 1 .. Len(s) : f[p + k - 1] = s[k]) /\ f[p + Len(s)] = NUL
    BY <1>5, <1>6, <1>7
  <2> HIDE DEF f, p, s
  <2>2. /\ EndIn(f, PageSize, p) = p + Len(s)
        /\ [k \in 1 .. EndIn(f, PageSize, p) - p |-> f[p + k - 1]] = s
    BY <1>1, <1>2, <1>3, <2>1, StringIn
  <2> QED BY <2>2 DEF f
<1>9. EndOfString(p) = EndIn(shm, PageSize, p)
  BY DEF EndOfString, EndIn
<1>10. StringAt(p) = s
  BY <1>8, <1>9 DEF StringAt
<1>11. EndOfString(p) = Off(g)[j] - 1 /\ shm[Off(g)[j] - 1] = NUL
  BY <1>6, <1>7, <1>8, <1>9
<1>12. Off(g)[j] \in Nat
  BY <1>1, <1>2
<1> QED BY <1>2, <1>10, <1>11, <1>12

\* The program that is found is the one that was asked for: a name that does not
\* fit is no program's.
LEMMA NameFound ==
    ASSUME NEW g \in Calls, Laid(g, shm, sizes), StringAt(0) \in DOMAIN Files
    PROVE  StringAt(0) = g.name /\ EndOfString(0) = Len(g.name) /\ Off(g)[1] < PageSize
<1> DEFINE s == g.name
           l == Len(s)
<1>1. s \in Seq(Text) /\ l \in Nat /\ s = Str(g, 1) /\ Total(g) \in Nat /\ 1 \in 1 .. Total(g)
      /\ s \in [1 .. l -> Text] /\ NUL \notin Text
  <2>1. s = Str(g, 1) /\ Total(g) \in Nat /\ 1 \in 1 .. Total(g)
    BY StrFacts
  <2>2. s \in Seq(Text) /\ l \in Nat /\ s \in [1 .. l -> Text]
    BY DEF Calls
  <2> QED BY <2>1, <2>2, LettersAssumption DEF Text, NUL, SP, CR, SLASH
<1>2. Off(g)[0] = 0 /\ Off(g)[1] = l + 1
  <2>1. Off(g)[0] = 0 /\ Off(g)[1] = Off(g)[1 - 1] + Len(Str(g, 1)) + 1
    BY <1>1, OffLayout DEF Layout
  <2> HIDE DEF l
  <2> QED BY <1>1, <2>1 DEF l
<1>3. PageSize \in Nat /\ PageSize >= 1
  BY PageSizeAssumption
<1>4. CASE l + 1 < PageSize
  <2>1. EndOfString(Off(g)[1 - 1]) = Off(g)[1] - 1 /\ StringAt(Off(g)[1 - 1]) = Str(g, 1)
    BY <1>1, <1>2, <1>4, StringLaid
  <2>2. 1 - 1 = 0 /\ Off(g)[1] - 1 = l
    <3> HIDE DEF l
    <3> QED BY <1>1, <1>2
  <2> QED BY <1>1, <1>2, <1>4, <2>1, <2>2
<1>5. CASE ~(l + 1 < PageSize)
  <2> DEFINE e == PageSize - 1
             S == {q \in 0 .. PageSize - 1 : shm[q] = NUL} \cup {PageSize}
  <2>1. e \in S /\ S \subseteq Int
    BY <1>3 DEF Laid
  <2>2. ASSUME NEW y \in S PROVE e <= y
    <3> SUFFICES ASSUME y < e PROVE FALSE
      BY <1>3, <2>1
    <3>1. y \in 0 .. PageSize - 1 /\ shm[y] = NUL
      BY <1>3
    <3>2. y \in 0 .. l /\ y + 1 \in 1 .. l /\ y < l
      <4> HIDE DEF l
      <4> QED BY <1>1, <1>3, <1>5, <3>1
    <3>3. Off(g)[1 - 1] + y < PageSize - 1 /\ Off(g)[1 - 1] + y = y /\ y \in 0 .. Len(Str(g, 1))
      BY <1>1, <1>2, <3>1, <3>2
    <3>4. shm[y] = CharAt(s, y)
      BY <1>1, <3>3 DEF Laid, Content
    <3>5. CharAt(s, y) = s[y + 1] /\ s[y + 1] \in Text
      BY <1>1, <3>2 DEF CharAt
    <3> QED BY <1>1, <3>1, <3>4, <3>5
  <2> HIDE DEF S
  <2>3. Least(S) = e
    BY <2>1, <2>2, LeastIs
  <2>4. EndOfString(0) = e
    BY <2>3 DEF EndOfString, S
  <2>5. StringAt(0) = [k \in 1 .. e - 0 |-> shm[0 + k - 1]]
    BY <2>4 DEF StringAt
  <2> HIDE DEF e
  <2>6. e \in Nat /\ e - 0 = e
    BY <1>3 DEF e
  <2>7. Len(StringAt(0)) = e
    BY <2>5, <2>6
  <2>8. Len(StringAt(0)) < PageSize - 1
    BY FilesAssumption
  <2> QED BY <1>3, <2>7, <2>8 DEF e
<1> QED BY <1>4, <1>5

\* The next NUL is not behind the end of any string that fits.
LEMMA EndBelow ==
    ASSUME NEW g \in Calls, Laid(g, shm, sizes), NEW j \in 1 .. Total(g), Off(g)[j] < PageSize,
           NEW p \in Nat, p < Off(g)[j]
    PROVE  EndOfString(p) \in Nat /\ p <= EndOfString(p) /\ EndOfString(p) < Off(g)[j]
<1> DEFINE S == {q \in p .. PageSize - 1 : shm[q] = NUL} \cup {PageSize}
           e == Off(g)[j] - 1
<1>1. PageSize \in Nat /\ PageSize >= 1
  BY PageSizeAssumption
<1>2. Off(g)[j] \in Nat /\ shm[Off(g)[j] - 1] = NUL
  BY StringLaid
<1>3. S \subseteq Nat
  BY <1>1
<1>4. e \in S
  BY <1>1, <1>2
<1>5. \A y \in S : p <= y
  BY <1>1, <1>2
<1> HIDE DEF S
<1>6. Least(S) \in S /\ Least(S) <= e
  BY <1>3, <1>4, LeastExists
<1>7. Least(S) \in Nat /\ p <= Least(S) /\ Least(S) < Off(g)[j]
  <2> DEFINE x == Least(S)
             o == Off(g)[j]
  <2>1. x \in S /\ x <= o - 1 /\ o \in Nat
    BY <1>2, <1>6
  <2> HIDE DEF x, o
  <2>2. x \in Nat /\ p <= x
    BY <1>3, <1>5, <2>1
  <2>3. x < o
    BY <2>1, <2>2
  <2> QED BY <2>2, <2>3 DEF x, o
<1> QED BY <1>7 DEF EndOfString, S

\* The next pointer, after those in ptrs; c is the first one and the page.
PointerTurn(c, ptrs, k) ==
    Append(ptrs, IF ptrs = <<>> THEN c[1]
                 ELSE Least({q \in Last(ptrs) .. PageSize - 1 : c[2][q] = NUL} \cup {PageSize}) + 1)
PointerFold == INSTANCE FoldProofs WITH Op <- PointerTurn

\* Pointers() is a fold of such turns.
LEMMA PointersFold ==
    ASSUME NEW p, NEW n
    PROVE  Pointers(p, n) = PointerFold!Fold(<<p, shm>>, <<>>, [k \in 1 .. n |-> k])
<1> DEFINE c == <<p, shm>>
<1>1. c[1] = p /\ c[2] = shm
  OBVIOUS
<1>2. \A ptrs : \A k : PointerTurn(c, ptrs, k)
          = Append(ptrs, IF ptrs = <<>> THEN p ELSE EndOfString(Last(ptrs)) + 1)
  BY <1>1 DEF PointerTurn, EndOfString
<1> QED BY <1>1, <1>2 DEF Pointers, PointerFold!Fold, FoldLeft, MapThenFoldSet,
      PointerFold!FoldLeft, PointerFold!MapThenFoldSet, PointerTurn, EndOfString, Max, PointerFold!Max

\* A turn, for a page of our own.
LEMMA PointerTurnIs ==
    ASSUME NEW p, NEW ptrs, NEW k
    PROVE  PointerTurn(<<p, shm>>, ptrs, k)
               = Append(ptrs, IF ptrs = <<>> THEN p ELSE EndOfString(Last(ptrs)) + 1)
<1> DEFINE c == <<p, shm>>
<1>1. c[1] = p /\ c[2] = shm
  OBVIOUS
<1> QED BY <1>1 DEF PointerTurn, EndOfString

\* n pointers stay before the ends of n strings that fit, wherever in front of
\* them the first pointer is.
LEMMA PointersBelow ==
    ASSUME NEW g \in Calls, Laid(g, shm, sizes), NEW b \in Nat, NEW n \in Nat, b + n <= Total(g),
           NEW p, n # 0 => p \in Nat /\ p <= Off(g)[b + 1] /\ Off(g)[b + n] < PageSize
    PROVE  /\ Pointers(p, n) \in Seq(Nat) /\ Len(Pointers(p, n)) = n
           /\ \A x \in 1 .. n : Pointers(p, n)[x] < PageSize
<1> DEFINE seq == [k \in 1 .. n |-> k]
           P == Pointers(p, n)
           S == [k \in 0 .. n |-> {q \in Seq(Nat) : Len(q) = k /\ \A x \in 1 .. k : q[x] <= Off(g)[b + x]}]
<1>1. Total(g) \in Nat /\ DOMAIN seq = 1 .. n /\ Off(g) \in [0 .. Total(g) -> Nat]
  BY StrFacts, OffLayout DEF Layout
<1>2. <<>> \in S[0]
  <2>1. S[0] = {q \in Seq(Nat) : Len(q) = 0 /\ \A x \in 1 .. 0 : q[x] <= Off(g)[b + x]}
    OBVIOUS
  <2>2. <<>> \in Seq(Nat) /\ Len(<<>>) = 0 /\ 1 .. 0 = {}
    OBVIOUS
  <2> HIDE DEF S
  <2> QED BY <2>1, <2>2
<1>3. ASSUME NEW k \in 1 .. n, NEW q \in S[k - 1] PROVE PointerTurn(<<p, shm>>, q, seq[k]) \in S[k]
  <2> DEFINE v == IF q = <<>> THEN p ELSE EndOfString(Last(q)) + 1
             r == Append(q, v)
  <2>1. PointerTurn(<<p, shm>>, q, seq[k]) = r
    BY PointerTurnIs
  <2>2. k - 1 \in 0 .. n /\ k \in 0 .. n /\ k \in Nat /\ b + k \in 1 .. Total(g) /\ n # 0
    BY <1>1
  <2>3. q \in Seq(Nat) /\ Len(q) = k - 1 /\ \A x \in 1 .. k - 1 : q[x] <= Off(g)[b + x]
    BY <2>2
  <2>4. v \in Nat /\ v <= Off(g)[b + k]
    <3>1. CASE k = 1
      <4>1. q = <<>>
        BY <2>3, <3>1
      <4> QED BY <2>2, <3>1, <4>1
    <3>2. CASE k # 1
      <4>1. k - 1 \in 1 .. k - 1 /\ q # <<>> /\ Last(q) = q[k - 1]
        BY <2>2, <2>3, <3>2 DEF Last
      <4> DEFINE z == q[k - 1]
                 j == b + k
      <4>2. z \in Nat /\ z <= Off(g)[b + (k - 1)]
        BY <2>3, <4>1
      <4>3. Off(g)[b + (k - 1)] + 1 <= Off(g)[j] /\ Off(g)[j] < PageSize
            /\ Off(g)[j] \in Nat /\ Off(g)[b + (k - 1)] \in Nat
        <5> DEFINE a == b + (k - 1)
                   e == b + n
        <5>1. a \in 0 .. Total(g) /\ j \in 0 .. Total(g) /\ e \in 0 .. Total(g) /\ a <= j /\ j <= e
              /\ j - a = 1
          BY <1>1, <2>2
        <5>2. Off(g)[e] < PageSize
          BY <2>2
        <5> HIDE DEF a, e, j
        <5>3. Off(g)[a] + (j - a) <= Off(g)[j] /\ Off(g)[a] \in Nat /\ Off(g)[j] \in Nat
          BY <5>1, OffGrows
        <5>4. Off(g)[j] + (e - j) <= Off(g)[e] /\ Off(g)[e] \in Nat
          BY <5>1, OffGrows
        <5>5. Off(g)[j] <= Off(g)[e]
          BY <1>1, <5>1, <5>3, <5>4
        <5>6. Off(g)[a] + 1 <= Off(g)[j] /\ Off(g)[j] < PageSize
          BY <5>1, <5>2, <5>3, <5>4, <5>5, PageSizeAssumption
        <5> QED BY <5>3, <5>6 DEF a
      <4>4. z < Off(g)[j] /\ j \in 1 .. Total(g)
        BY <2>2, <4>2, <4>3
      <4> HIDE DEF z, j
      <4>5. EndOfString(z) \in Nat /\ EndOfString(z) < Off(g)[j]
        BY <4>2, <4>3, <4>4, EndBelow
      <4>6. v = EndOfString(z) + 1
        BY <4>1 DEF z
      <4>7. v \in Nat /\ v <= Off(g)[j]
        <5> HIDE DEF v
        <5> QED BY <4>3, <4>5, <4>6
      <4> QED BY <4>7 DEF j
    <3> QED BY <3>1, <3>2
  <2> HIDE DEF v
  <2>5. r \in Seq(Nat) /\ Len(r) = k
    BY <2>2, <2>3, <2>4
  <2>6. \A x \in 1 .. k : r[x] <= Off(g)[b + x]
    <3> TAKE x \in 1 .. k
    <3>1. CASE x = k
      <4>1. r[k] = v
        BY <2>2, <2>3
      <4> QED BY <2>4, <3>1, <4>1
    <3>2. CASE x # k
      <4>1. x \in 1 .. k - 1 /\ r[x] = q[x]
        BY <2>2, <2>3, <3>2
      <4> QED BY <2>3, <4>1
    <3> QED BY <3>1, <3>2
  <2> HIDE DEF r
  <2>7. r \in S[k]
    BY <2>2, <2>5, <2>6
  <2> QED BY <2>1, <2>7
<1>4. P \in S[n]
  <2>1. P = PointerFold!Fold(<<p, shm>>, <<>>, seq)
    BY PointersFold
  <2> DEFINE c == <<p, shm>>
             base == <<>>
  <2>2. base \in S[0] /\ \A k \in 1 .. n : \A x \in S[k - 1] : PointerTurn(c, x, seq[k]) \in S[k]
    BY <1>2, <1>3
  <2> HIDE DEF S, seq, P, c, base
  <2>3. PointerFold!Fold(c, base, seq) \in S[n]
    BY <1>1, <2>2, PointerFold!FoldRule
  <2> QED BY <2>1, <2>3 DEF c, base
<1> HIDE DEF P
<1>5. P \in Seq(Nat) /\ Len(P) = n /\ \A x \in 1 .. n : P[x] <= Off(g)[b + x]
  BY <1>4
<1>6. ASSUME NEW x \in 1 .. n PROVE P[x] < PageSize
  <2> DEFINE a == b + x
             e == b + n
  <2>1. a \in 0 .. Total(g) /\ e \in 0 .. Total(g) /\ a <= e /\ n # 0
    BY <1>1
  <2>2. Off(g)[e] < PageSize /\ P[x] <= Off(g)[a] /\ P[x] \in Nat
    BY <1>5, <2>1
  <2> HIDE DEF a, e
  <2>3. Off(g)[a] + (e - a) <= Off(g)[e] /\ Off(g)[a] \in Nat /\ Off(g)[e] \in Nat
    BY <2>1, OffGrows
  <2> QED BY <1>1, <2>1, <2>2, <2>3, PageSizeAssumption
<1> QED BY <1>5, <1>6 DEF P

\* The pointers to the first n strings behind the name are exact.
LEMMA PointersExact ==
    ASSUME NEW g \in Calls, Laid(g, shm, sizes), NEW n \in Nat, 1 + n <= Total(g),
           Off(g)[1 + n] < PageSize
    PROVE  Pointers(Off(g)[1], n) = [x \in 1 .. n |-> Off(g)[x]]
<1> DEFINE seq == [k \in 1 .. n |-> k]
           p == Off(g)[1]
           P == Pointers(p, n)
           F(k) == [x \in 1 .. k |-> Off(g)[x]]
           S == [k \in 0 .. n |-> {F(k)}]
<1>1. Total(g) \in Nat /\ DOMAIN seq = 1 .. n /\ Off(g) \in [0 .. Total(g) -> Nat]
  BY StrFacts, OffLayout DEF Layout
<1>2. <<>> \in S[0]
  <2>1. F(0) = <<>>
    OBVIOUS
  <2> QED BY <2>1
<1>3. ASSUME NEW k \in 1 .. n, NEW q \in S[k - 1] PROVE PointerTurn(<<p, shm>>, q, seq[k]) \in S[k]
  <2> DEFINE v == IF q = <<>> THEN p ELSE EndOfString(Last(q)) + 1
             r == Append(q, v)
  <2>1. PointerTurn(<<p, shm>>, q, seq[k]) = r
    BY PointerTurnIs
  <2>2. k - 1 \in 0 .. n /\ k \in 0 .. n /\ k \in 1 .. Total(g)
    BY <1>1
  <2>3. q = F(k - 1)
    BY <2>2
  <2>4. Len(q) = k - 1 /\ q \in Seq(Nat) /\ \A x \in 1 .. k - 1 : q[x] = Off(g)[x]
    BY <1>1, <2>2, <2>3
  <2>5. v = Off(g)[k]
    <3>1. CASE k = 1
      <4>1. q = <<>>
        BY <2>4, <3>1
      <4> QED BY <3>1, <4>1
    <3>2. CASE k # 1
      <4>1. k - 1 \in 1 .. k - 1 /\ q # <<>> /\ Last(q) = Off(g)[k - 1]
        BY <2>2, <2>4, <3>2 DEF Last
      <4>2. Off(g)[k] < PageSize
        <5> DEFINE e == 1 + n
        <5>1. k \in 0 .. Total(g) /\ e \in 0 .. Total(g) /\ k <= e
          BY <1>1
        <5>2. Off(g)[e] < PageSize
          OBVIOUS
        <5> HIDE DEF e
        <5>3. Off(g)[k] + (e - k) <= Off(g)[e] /\ Off(g)[k] \in Nat /\ Off(g)[e] \in Nat
          BY <5>1, OffGrows
        <5> QED BY <1>1, <5>1, <5>2, <5>3, PageSizeAssumption
      <4>3. EndOfString(Off(g)[k - 1]) = Off(g)[k] - 1 /\ Off(g)[k] \in Nat
        BY <2>2, <4>2, StringLaid
      <4>4. v = (Off(g)[k] - 1) + 1
        BY <4>1, <4>3
      <4> HIDE DEF v
      <4> QED BY <4>3, <4>4
    <3> QED BY <3>1, <3>2
  <2> HIDE DEF v
  <2>6. r = F(k)
    <3>1. r \in Seq(Nat) /\ Len(r) = k
      BY <1>1, <2>2, <2>4, <2>5
    <3>2. \A x \in 1 .. k : r[x] = Off(g)[x]
      BY <2>2, <2>4, <2>5
    <3> HIDE DEF r
    <3> QED BY <3>1, <3>2
  <2> HIDE DEF F, r
  <2> QED BY <2>1, <2>2, <2>6
<1>4. P \in S[n]
  <2>1. P = PointerFold!Fold(<<p, shm>>, <<>>, seq)
    BY PointersFold
  <2> DEFINE c == <<p, shm>>
             base == <<>>
  <2>2. base \in S[0] /\ \A k \in 1 .. n : \A x \in S[k - 1] : PointerTurn(c, x, seq[k]) \in S[k]
    BY <1>2, <1>3
  <2> HIDE DEF S, seq, P, c, base
  <2>3. PointerFold!Fold(c, base, seq) \in S[n]
    BY <1>1, <2>2, PointerFold!FoldRule
  <2> QED BY <2>1, <2>3 DEF c, base
<1> HIDE DEF P, F
<1>5. P = F(n)
  BY <1>4
<1> QED BY <1>5 DEF P, F, p

\* A string more in Bytes().
BytesTurn(c, n, s) == n + Len(s) + 1
BytesFold == INSTANCE FoldProofs WITH Op <- BytesTurn

\* The elements of two sequences one behind the other.
LEMMA Joined ==
    ASSUME NEW X, NEW s \in Seq(X), NEW t \in Seq(X)
    PROVE  /\ DOMAIN (s \o t) = 1 .. Len(s) + Len(t)
           /\ \A k \in 1 .. Len(s) + Len(t) :
                  (s \o t)[k] = IF k <= Len(s) THEN s[k] ELSE t[k - Len(s)]
<1>1. s \o t \in Seq(X) /\ Len(s \o t) = Len(s) + Len(t)
  OBVIOUS
<1>2. DOMAIN (s \o t) = 1 .. Len(s \o t)
  BY <1>1
<1> QED BY <1>1, <1>2

\* Bytes() is the end of the layout.
LEMMA BytesAre ==
    ASSUME NEW g \in Calls
    PROVE  Bytes(g) = Off(g)[Total(g)]
<1> DEFINE seq == g.argv \o g.envp
           N == Argc(g) + Envc(g)
           F == BytesFold!Fold(0, 0, seq)
           l == Len(g.name)
           S == [k \in 0 .. N |-> {x \in Nat : l + 1 + x = Off(g)[k + 1]}]
<1>1. Bytes(g) = l + 1 + F
  BY DEF Bytes, BytesFold!Fold, FoldLeft, MapThenFoldSet, BytesFold!FoldLeft,
         BytesFold!MapThenFoldSet, BytesTurn, Max, BytesFold!Max
<1>2. /\ Total(g) \in Nat /\ Argc(g) \in Nat /\ Envc(g) \in Nat /\ Total(g) = 1 + Argc(g) + Envc(g)
      /\ Str(g, 1) = g.name
      /\ \A j \in 1 .. Argc(g) : Str(g, j + 1) = g.argv[j]
      /\ \A j \in 1 .. Envc(g) : Str(g, 1 + Argc(g) + j) = g.envp[j]
      /\ \A j \in 1 .. Total(g) : Len(Str(g, j)) \in Nat
  BY StrFacts
<1>3. N \in Nat /\ Total(g) = N + 1
  BY <1>2
<1>4. l \in Nat /\ Off(g)[1] = l + 1
  <2>1. 1 \in 1 .. Total(g) /\ 1 - 1 = 0
    BY <1>2
  <2>2. l \in Nat /\ l = Len(Str(g, 1))
    BY <1>2, <2>1
  <2>3. Off(g)[1] = Off(g)[1 - 1] + Len(Str(g, 1)) + 1 /\ Off(g)[0] = 0
    BY <2>1, OffLayout DEF Layout
  <2> HIDE DEF l
  <2> QED BY <2>1, <2>2, <2>3
<1>5. /\ DOMAIN seq = 1 .. N
      /\ \A k \in 1 .. N : seq[k] = Str(g, k + 1)
  <2> DEFINE s == g.argv
             t == g.envp
             a == Argc(g)
             e == Envc(g)
  <2>1. s \in Seq(Seq(Text)) /\ t \in Seq(Seq(Text)) /\ Len(s) = a /\ Len(t) = e
    BY DEF Calls, Argc, Envc
  <2> HIDE DEF s, t, a, e
  <2>2. /\ DOMAIN (s \o t) = 1 .. a + e
        /\ \A k \in 1 .. a + e : (s \o t)[k] = IF k <= a THEN s[k] ELSE t[k - a]
    BY <2>1, Joined
  <2>3. ASSUME NEW k \in 1 .. a + e PROVE (s \o t)[k] = Str(g, k + 1)
    <3>1. CASE k <= a
      <4>1. k \in 1 .. a
        BY <1>2, <3>1 DEF a
      <4> QED BY <1>2, <2>2, <3>1, <4>1 DEF a, s
    <3>2. CASE ~(k <= a)
      <4>1. k - a \in 1 .. e /\ 1 + a + (k - a) = k + 1
        BY <1>2, <3>2 DEF a, e
      <4>2. Str(g, 1 + a + (k - a)) = t[k - a]
        BY <1>2, <4>1 DEF a, e, t
      <4> QED BY <2>2, <3>2, <4>1, <4>2
    <3> QED BY <3>1, <3>2
  <2> QED BY <2>2, <2>3 DEF s, t, a, e
<1>6. 0 \in S[0]
  <2>1. 0 \in 0 .. N /\ 0 + 1 = 1
    BY <1>3
  <2> HIDE DEF N, l
  <2> QED BY <1>4, <2>1
<1>7. ASSUME NEW k \in 1 .. N, NEW x \in S[k - 1] PROVE BytesTurn(0, x, seq[k]) \in S[k]
  <2> HIDE DEF N, l, seq
  <2>1. k - 1 \in 0 .. N /\ k \in 0 .. N /\ (k - 1) + 1 = k /\ k + 1 \in 1 .. Total(g)
        /\ (k + 1) - 1 = k /\ k \in 0 .. Total(g)
    BY <1>3
  <2>2. x \in Nat /\ l + 1 + x = Off(g)[k]
    BY <2>1
  <2> DEFINE z == Len(Str(g, k + 1))
  <2>3. z \in Nat /\ BytesTurn(0, x, seq[k]) = x + z + 1
    BY <1>2, <1>5, <2>1 DEF BytesTurn
  <2>4. Off(g)[k + 1] = Off(g)[k] + z + 1 /\ Off(g)[k] \in Nat
    BY <2>1, OffLayout DEF Layout
  <2> HIDE DEF z
  <2>5. x + z + 1 \in Nat /\ l + 1 + (x + z + 1) = Off(g)[k + 1]
    BY <1>4, <2>2, <2>3, <2>4
  <2>6. x + z + 1 \in S[k]
    BY <2>1, <2>5
  <2> HIDE DEF S
  <2> QED BY <2>3, <2>6
<1>8. F \in S[N]
  <2> HIDE DEF S, seq, N
  <2> QED BY <1>3, <1>5, <1>6, <1>7, BytesFold!FoldRule
<1>9. l + 1 + F = Off(g)[N + 1]
  <2> HIDE DEF F, l, N
  <2>1. N \in 0 .. N
    BY <1>3
  <2> QED BY <1>8, <2>1
<1> QED BY <1>1, <1>3, <1>9

\* What exec_process() puts into the registers of main().
LEMMA StartFacts ==
    ASSUME given \in Calls, Laid(given, shm, sizes), StringAt(0) \in DOMAIN Files,
           given.argv # <<>>, given.argv[1] # <<>>, ExecStart
    PROVE  /\ main'.inside
           /\ given.envp = <<>> =>
                  main'.argv = IF Bytes(given) < PageSize THEN given.argv ELSE <<>>
<1> DEFINE g == given
           n == sizes.argv
           e == sizes.envp
           start == SkipNuls(EndOfString(0))
           av == Pointers(start, n)
           ev == Pointers(EnvpStart(start), e)
<1>1. /\ main'.argv = [k \in DOMAIN av |-> StringAt(av[k])]
      /\ main'.inside = \A p \in Range(av) \cup Range(ev) : p < PageSize
  BY DEF ExecStart
<1>2. g \in Calls /\ Laid(g, shm, sizes)
  OBVIOUS
<1>3. /\ Total(g) \in Nat /\ Argc(g) \in Nat /\ Envc(g) \in Nat /\ Total(g) = 1 + Argc(g) + Envc(g)
      /\ \A j \in 1 .. Argc(g) : Str(g, j + 1) = g.argv[j] /\ g.argv[j] \in Seq(Text)
  BY <1>2, StrFacts
<1>4. Argc(g) >= 1 /\ g.argv[1] \in Seq(Text)
  <2>1. g.argv \in Seq(Seq(Text))
    BY DEF Calls
  <2>2. Len(g.argv) # 0
    BY <2>1
  <2>3. Argc(g) >= 1
    BY <1>3, <2>2 DEF Argc
  <2>4. 1 \in 1 .. Argc(g)
    BY <1>3, <2>3
  <2> QED BY <1>3, <2>3, <2>4
<1>5. /\ n \in Nat /\ e \in Nat
      /\ Off(g)[Total(g)] < PageSize => n = Argc(g) /\ e = Envc(g)
      /\ n # 0 => n = Argc(g) /\ Off(g)[1 + Argc(g)] < PageSize
      /\ e # 0 => e = Envc(g) /\ Off(g)[Total(g)] < PageSize
  BY <1>2 DEF Laid
<1>6. PageSize \in Nat /\ PageSize >= 1
  BY PageSizeAssumption
<1>7. e # 0 => n = Argc(g)
  BY <1>5
<1> HIDE DEF g, n, e
<1>8. ASSUME n # 0 PROVE start = Off(g)[1] /\ Off(g)[1] \in Nat
  <2> DEFINE o == Off(g)[1]
             S == {q \in EndOfString(0) .. PageSize - 1 : shm[q] # NUL} \cup {PageSize}
  <2>1. Off(g)[1] < PageSize /\ EndOfString(0) = Len(g.name)
    BY <1>2, NameFound DEF g
  <2>2. 1 \in 1 .. Total(g) /\ 2 \in 1 .. Total(g) /\ 2 - 1 = 1 /\ 1 + 1 = 2 /\ 1 - 1 = 0
    BY <1>3, <1>4
  <2>3. Off(g)[2] < PageSize /\ Off(g)[2] \in Nat
    <3> DEFINE z == 1 + Argc(g)
    <3>1. 2 \in 0 .. Total(g) /\ z \in 0 .. Total(g) /\ 2 <= z
      BY <1>3, <1>4
    <3>2. Off(g)[z] < PageSize
      BY <1>5, <1>8
    <3> HIDE DEF z
    <3>3. Off(g)[2] + (z - 2) <= Off(g)[z] /\ Off(g)[2] \in Nat /\ Off(g)[z] \in Nat
      BY <1>2, <3>1, OffGrows
    <3> QED BY <1>3, <1>6, <3>1, <3>2, <3>3
  <2>4. Off(g)[0] = 0 /\ EndOfString(Off(g)[1 - 1]) = Off(g)[1] - 1 /\ Off(g)[1] \in Nat
        /\ shm[Off(g)[1] - 1] = NUL
    BY <1>2, <2>1, <2>2, StringLaid, OffLayout DEF Layout
  <2>5. EndOfString(0) = o - 1 /\ o \in Nat /\ shm[o - 1] = NUL /\ o < PageSize
    BY <2>1, <2>2, <2>4
  <2>6. shm[o] # NUL
    <3> DEFINE s == g.argv[1]
    <3>1. s \in Seq(Text) /\ s # <<>> /\ s = Str(g, 2)
      <4>1. 1 \in 1 .. Argc(g)
        BY <1>3, <1>4
      <4> QED BY <1>3, <2>2, <4>1 DEF g
    <3>2. Len(s) \in Nat /\ Len(s) # 0 /\ 0 < Len(s) /\ 0 + 1 \in 1 .. Len(s)
      BY <3>1
    <3>3. Off(g)[2] = Off(g)[2 - 1] + Len(Str(g, 2)) + 1
      BY <1>2, <2>2, <2>3, StringLaid
    <3>4. o + 0 < PageSize - 1 /\ o + 0 = o
      <4> DEFINE l == Len(s)
      <4>1. Off(g)[2] = o + l + 1 /\ l \in Nat /\ l # 0
        BY <2>2, <3>1, <3>2, <3>3
      <4> HIDE DEF l, o
      <4> QED BY <1>6, <2>3, <2>5, <4>1
    <3>5. 0 \in 0 .. Len(Str(g, 2))
      BY <3>1, <3>2
    <3>6. Off(g)[2 - 1] + 0 < PageSize - 1
      BY <2>2, <3>4
    <3>7. shm[Off(g)[2 - 1] + 0] = CharAt(Str(g, 2), 0)
      BY <1>2, <2>2, <3>5, <3>6 DEF Laid, Content
    <3>8. CharAt(Str(g, 2), 0) # NUL
      BY <3>1, <3>2, CharAtFacts
    <3>9. Off(g)[2 - 1] + 0 = o
      BY <2>2, <3>4
    <3> QED BY <3>7, <3>8, <3>9
  <2> HIDE DEF o
  <2>7. S \subseteq Int /\ o \in S
    BY <1>6, <2>5, <2>6
  <2>8. \A y \in S : o <= y
    BY <1>6, <2>5
  <2> HIDE DEF S
  <2>9. Least(S) = o
    BY <2>7, <2>8, LeastIs
  <2> QED BY <2>5, <2>9 DEF SkipNuls, S, o
<1> HIDE DEF start
<1>9. av \in Seq(Nat) /\ Len(av) = n /\ \A x \in 1 .. n : av[x] < PageSize
  <2> DEFINE z == 0 + n
  <2>1. n = 0 \/ n = Argc(g)
    BY <1>5
  <2>2. 0 + n <= Total(g)
    BY <1>3, <2>1
  <2>3. ASSUME n # 0 PROVE start \in Nat /\ start <= Off(g)[0 + 1] /\ Off(g)[0 + n] < PageSize
    <3> DEFINE t == 1 + Argc(g)
               q == Argc(g)
    <3>1. q \in 0 .. Total(g) /\ t \in 0 .. Total(g) /\ q <= t /\ t - q = 1 /\ 0 + n = q
      BY <1>3, <2>1, <2>3
    <3>2. Off(g)[t] < PageSize
      BY <1>5, <2>3
    <3> HIDE DEF t, q
    <3>3. Off(g)[q] + (t - q) <= Off(g)[t] /\ Off(g)[q] \in Nat /\ Off(g)[t] \in Nat
      BY <1>2, <3>1, OffGrows
    <3>4. Off(g)[q] < PageSize
      BY <1>6, <3>1, <3>2, <3>3
    <3>5. start \in Nat /\ start <= Off(g)[0 + 1]
      BY <1>8, <2>3
    <3> QED BY <3>1, <3>4, <3>5
  <2> QED BY <1>2, <1>5, <2>2, <2>3, PointersBelow
<1>10. ev \in Seq(Nat) /\ Len(ev) = e /\ \A x \in 1 .. e : ev[x] < PageSize
  <2> DEFINE p == EnvpStart(start)
             a == Argc(g)
  <2>1. e = 0 \/ e = Envc(g)
    BY <1>5
  <2>2. a \in Nat /\ a + e <= Total(g)
    BY <1>3, <1>5, <2>1
  <2>3. ASSUME e # 0 PROVE p \in Nat /\ p <= Off(g)[a + 1] /\ Off(g)[a + e] < PageSize
    <3>1. n = a /\ n # 0
      BY <1>3, <1>4, <1>7, <2>3
    <3>2. p = Off(g)[1] + a /\ Off(g)[1] \in Nat
      BY <1>8, <3>1 DEF EnvpStart, n
    <3>3. p \in Nat /\ p <= Off(g)[a + 1]
      <4> DEFINE b == a + 1
      <4>1. 1 \in 0 .. Total(g) /\ b \in 0 .. Total(g) /\ 1 <= b /\ b - 1 = a
        BY <1>3
      <4> HIDE DEF b
      <4>2. Off(g)[1] + (b - 1) <= Off(g)[b] /\ Off(g)[b] \in Nat
        BY <1>2, <4>1, OffGrows
      <4>3. p \in Nat /\ p <= Off(g)[b]
        BY <2>2, <3>2, <4>1, <4>2
      <4> QED BY <4>3 DEF b
    <3>4. Off(g)[a + e] < PageSize
      <4> DEFINE q == a + e
                 t == Total(g)
      <4>1. q \in 0 .. Total(g) /\ t \in 0 .. Total(g) /\ q <= t /\ t - q = 1
        BY <1>3, <2>1, <2>3
      <4>2. Off(g)[t] < PageSize
        BY <1>5, <2>3
      <4> HIDE DEF q, t
      <4>3. Off(g)[q] + (t - q) <= Off(g)[t] /\ Off(g)[q] \in Nat /\ Off(g)[t] \in Nat
        BY <1>2, <4>1, OffGrows
      <4>4. Off(g)[q] < PageSize
        BY <1>6, <4>1, <4>2, <4>3
      <4> QED BY <4>4 DEF q
    <3> QED BY <3>3, <3>4
  <2> HIDE DEF p, a
  <2>4. Pointers(p, e) \in Seq(Nat) /\ Len(Pointers(p, e)) = e
        /\ \A x \in 1 .. e : Pointers(p, e)[x] < PageSize
    BY <1>2, <1>5, <2>2, <2>3, PointersBelow
  <2> QED BY <2>4 DEF p
<1>11. main'.inside
  <2> HIDE DEF av, ev
  <2>1. \A p \in Range(av) : p < PageSize
    BY <1>9 DEF Range
  <2>2. \A p \in Range(ev) : p < PageSize
    BY <1>10 DEF Range
  <2> QED BY <1>1, <2>1, <2>2
<1>12. ASSUME given.envp = <<>>
       PROVE  main'.argv = IF Bytes(given) < PageSize THEN given.argv ELSE <<>>
  <2>1. Envc(g) = 0 /\ Total(g) = 1 + Argc(g)
    BY <1>3, <1>12 DEF g, Envc
  <2>2. Bytes(g) = Off(g)[1 + Argc(g)]
    BY <1>2, <2>1, BytesAre
  <2>3. CASE Bytes(g) < PageSize
    <3>1. n = Argc(g) /\ n # 0 /\ Off(g)[1 + n] < PageSize /\ 1 + n <= Total(g)
      BY <1>3, <1>4, <1>5, <2>1, <2>2, <2>3
    <3>2. av = [x \in 1 .. n |-> Off(g)[x]]
      BY <1>2, <1>5, <1>8, <3>1, PointersExact
    <3> HIDE DEF av
    <3>3. DOMAIN av = 1 .. n /\ \A x \in 1 .. n : av[x] = Off(g)[x]
      BY <3>2
    <3>4. ASSUME NEW x \in 1 .. n PROVE StringAt(av[x]) = g.argv[x]
      <4> DEFINE j == x + 1
      <4>1. j \in 1 .. Total(g) /\ j - 1 = x /\ x \in 1 .. Argc(g)
        BY <1>3, <1>5, <3>1
      <4>2. Off(g)[j] < PageSize
        <5> DEFINE z == 1 + n
        <5>1. j \in 0 .. Total(g) /\ z \in 0 .. Total(g) /\ j <= z
          BY <1>3, <3>1, <4>1
        <5>2. Off(g)[z] < PageSize
          BY <3>1
        <5> HIDE DEF z, j
        <5>3. Off(g)[j] + (z - j) <= Off(g)[z] /\ Off(g)[j] \in Nat /\ Off(g)[z] \in Nat
          BY <1>2, <5>1, OffGrows
        <5> QED BY <1>3, <1>6, <5>1, <5>2, <5>3
      <4>3. Str(g, j) = g.argv[x]
        BY <1>3, <4>1
      <4> HIDE DEF j
      <4>4. StringAt(Off(g)[j - 1]) = Str(g, j)
        BY <1>2, <4>1, <4>2, StringLaid
      <4> QED BY <3>3, <4>1, <4>3, <4>4
    <3>5. g.argv \in Seq(Seq(Text)) /\ Len(g.argv) = n
      BY <1>2, <3>1 DEF Calls, Argc
    <3>6. main'.argv = [k \in 1 .. n |-> g.argv[k]]
      BY <1>1, <3>3, <3>4
    <3>7. main'.argv = g.argv
      <4> DEFINE s == g.argv
      <4>1. s \in Seq(Seq(Text)) /\ Len(s) = n
        BY <3>5
      <4> HIDE DEF s
      <4>2. s = [k \in 1 .. n |-> s[k]]
        BY <4>1
      <4> QED BY <3>6, <4>2 DEF s
    <3> QED BY <2>3, <3>7 DEF g
  <2>4. CASE ~(Bytes(g) < PageSize)
    <3>1. n = 0
      BY <1>5, <2>2, <2>4
    <3>2. DOMAIN av = {}
      <4> HIDE DEF av
      <4> QED BY <1>9, <3>1
    <3>3. main'.argv = <<>>
      BY <1>1, <3>2
    <3> QED BY <2>4, <3>3 DEF g
  <2> QED BY <2>3, <2>4 DEF g
<1> QED BY <1>11, <1>12

-----------------------------------------------------------------------------
(* Loading: the image of the segments, page by page. *)

\* Multiples of the page size.
LEMMA Aligned ==
    ASSUME NEW x \in Nat, x % PageSize = 0
    PROVE  \E q \in Nat : x = q * PageSize
<1> DEFINE P == PageSize
<1>1. P \in Nat /\ P >= 1
  BY PageSizeAssumption
<1> HIDE DEF P
<1>2. x % P = 0
  BY DEF P
<1>3. x \div P \in Nat /\ x = (x \div P) * P
  BY <1>1, <1>2
<1> QED BY <1>3 DEF P

\* The page behind an aligned address is aligned.
LEMMA AlignedNext ==
    ASSUME NEW x \in Nat, x % PageSize = 0
    PROVE  (x + PageSize) % PageSize = 0
<1> DEFINE P == PageSize
<1>1. P \in Nat /\ P >= 1
  BY PageSizeAssumption
<1>2. PICK q \in Nat : x = q * P
  BY Aligned
<1> HIDE DEF P
<1>3. x + P = (q + 1) * P /\ q + 1 \in Nat
  BY <1>1, <1>2
<1>4. ((q + 1) * P) % P = 0
  <2> DEFINE r == q + 1
  <2>1. r \in Nat
    BY <1>3
  <2> HIDE DEF r
  <2>2. (r * P) % P = 0
    BY <1>1, <2>1
  <2> QED BY <2>2 DEF r
<1> QED BY <1>3, <1>4 DEF P

\* Aligned addresses are a page apart.
LEMMA AlignedApart ==
    ASSUME NEW x \in Nat, NEW y \in Nat, x % PageSize = 0, y % PageSize = 0, x < y
    PROVE  x + PageSize <= y
<1> DEFINE P == PageSize
<1>1. P \in Nat /\ P >= 1
  BY PageSizeAssumption
<1>2. PICK q \in Nat : x = q * P
  BY Aligned
<1>3. PICK r \in Nat : y = r * P
  BY Aligned
<1> HIDE DEF P
<1>4. q < r
  BY <1>1, <1>2, <1>3
<1>5. q + 1 <= r
  BY <1>4
<1>6. (q + 1) * P <= r * P
  BY <1>1, <1>5
<1>7. x + P <= y
  BY <1>1, <1>2, <1>3, <1>6
<1> QED BY <1>7 DEF P

Segs == [va : Nat, off : Nat, filesz : Nat, memsz : Nat \ {0}]

\* The bytes of s below address n are in the image im.
Exact(s, n, im) ==
    \A a \in s.va .. n - 1 :
        a \in DOMAIN im /\ im[a] = IF a < s.va + s.filesz THEN s.off + a - s.va ELSE ZERO

\* map_section_for_user() is about to load the page at c.page of s.
Within(s, c, im) ==
    /\ c.page \in Nat /\ c.src \in Int /\ c.page % PageSize = 0
    /\ s.va <= c.page /\ c.page < s.va + s.memsz
    /\ c.page < s.va + s.filesz => c.src = s.off + c.page - s.va
    /\ Exact(s, c.page, im)
    /\ \A a \in DOMAIN im : a < c.page

\* load_elf() has loaded the segments of f but the last ones, t.
Loading(f, t, c, im) ==
    /\ t \in Seq(Segs) /\ Len(t) <= Len(f)
    /\ \A k \in 1 .. Len(t) : t[k] = f[Len(f) - Len(t) + k]
    /\ \A k \in 1 .. Len(f) - Len(t) : Exact(f[k], f[k].va + f[k].memsz, im)
    /\ DOMAIN im \subseteq Int
    /\ t # <<>> => Within(Head(t), c, im)

\* The smaller of two ends.
LEMMA LeastOfTwo ==
    ASSUME NEW x \in Int, NEW y \in Int
    PROVE  Least({x, y}) = IF x <= y THEN x ELSE y
<1>1. CASE x <= y
  <2>1. \A z \in {x, y} : x <= z
    BY <1>1
  <2> QED BY <1>1, <2>1, LeastIs
<1>2. CASE ~(x <= y)
  <2>1. \A z \in {x, y} : y <= z
    BY <1>2
  <2> QED BY <1>2, <2>1, LeastIs
<1> QED BY <1>1, <1>2

\* One page of a segment.
LEMMA PageLoaded ==
    ASSUME NEW s \in Segs, NEW c, NEW n, Within(s, c, image), DOMAIN image \subseteq Int,
           n = c.page + PageSize, MapPageForUser(c.page, c.src, CopySize(s, c.page))
    PROVE  /\ DOMAIN image \subseteq DOMAIN image' /\ DOMAIN image' \subseteq Int
           /\ \A a \in DOMAIN image : image'[a] = image[a]
           /\ \A a \in DOMAIN image' : a < n
           /\ Exact(s, n, image')
<1> DEFINE p == c.page
           v == s.va
           e == s.va + s.filesz
           z == CopySize(s, p)
           new == {p + k : k \in Page}
<1>1. /\ PageSize \in Nat /\ PageSize >= 1 /\ p \in Nat /\ c.src \in Int
      /\ v \in Nat /\ e \in Nat /\ v <= p /\ n = p + PageSize /\ s.off \in Nat
      /\ \A a \in DOMAIN image : a < p
      /\ p < e => c.src = s.off + p - v
  BY PageSizeAssumption DEF Segs, Within
<1>2. PageDown(p) = p
  BY <1>1 DEF Within, PageDown
<1>3. z = IF p < e THEN (IF e <= n THEN e - p ELSE PageSize) ELSE 0
  <2>1. z = LET end == Least({e, n}) IN IF end > p THEN end - p ELSE 0
    BY <1>2 DEF CopySize
  <2>2. Least({e, n}) = IF e <= n THEN e ELSE n
    BY <1>1, LeastOfTwo
  <2> HIDE DEF z, e, p
  <2> QED BY <1>1, <2>1, <2>2
<1>4. image' = [a \in DOMAIN image \cup new |->
                   IF a \in DOMAIN image THEN image[a]
                   ELSE IF a - p < z THEN c.src + a - p ELSE ZERO]
  BY <1>2 DEF MapPageForUser
<1>5. new = p .. n - 1
  <2> HIDE DEF p
  <2>1. \A a \in p .. n - 1 : a - p \in Page /\ a = p + (a - p)
    BY <1>1 DEF Page
  <2>2. \A k \in Page : p + k \in p .. n - 1
    BY <1>1 DEF Page
  <2> QED BY <2>1, <2>2
<1> HIDE DEF new
<1>6. DOMAIN image' = DOMAIN image \cup new
  BY <1>4
<1>7. \A a \in DOMAIN image : image'[a] = image[a]
  BY <1>4
<1>8. \A a \in DOMAIN image' : a < n /\ a \in Int
  <2> HIDE DEF p
  <2> QED BY <1>1, <1>5, <1>6
<1>9. ASSUME NEW a \in v .. n - 1
      PROVE  a \in DOMAIN image' /\ image'[a] = IF a < e THEN s.off + a - v ELSE ZERO
  <2>1. CASE a < p
    <3>1. a \in v .. p - 1
      BY <1>1, <2>1
    <3>2. a \in DOMAIN image /\ image[a] = IF a < e THEN s.off + a - v ELSE ZERO
      BY <3>1 DEF Within, Exact
    <3> QED BY <1>6, <1>7, <3>2
  <2>2. CASE ~(a < p)
    <3> HIDE DEF z, e, p, v
    <3>1. a \in new /\ a \notin DOMAIN image
      BY <1>1, <1>5, <2>2
    <3>2. image'[a] = IF a - p < z THEN c.src + a - p ELSE ZERO
      BY <1>4, <3>1
    <3>3. (a - p < z) <=> a < e
      BY <1>1, <1>3, <2>2
    <3>4. a < e => c.src + a - p = s.off + a - v
      <4> DEFINE o == s.off
                 r == c.src
      <4>1. o \in Nat /\ r \in Int /\ (p < e => r = o + p - v)
        BY <1>1
      <4> HIDE DEF o, r
      <4>2. a < e => r + a - p = o + a - v
        BY <1>1, <2>2, <4>1
      <4> QED BY <4>2 DEF o, r
    <3> QED BY <1>6, <3>1, <3>2, <3>3, <3>4
  <2> QED BY <2>1, <2>2
<1> QED BY <1>6, <1>7, <1>8, <1>9 DEF Exact

\* A segment that has not been begun: its first page is the next one.
LEMMA SegmentBegins ==
    ASSUME NEW s \in Segs, s.va % PageSize = 0, NEW im, \A a \in DOMAIN im : a < s.va,
           NEW t \in Seq(Segs), t # <<>>, Head(t) = s
    PROVE  Within(s, Begin(t), im)
<1>1. s.va \in Nat /\ s.off \in Nat /\ s.memsz \in Nat \ {0} /\ s.filesz \in Nat
  BY DEF Segs
<1>2. PageDown(s.va) = s.va
  BY <1>1 DEF PageDown
<1>3. Begin(t) = [page |-> s.va, src |-> s.off]
  BY <1>2 DEF Begin
<1>4. Exact(s, s.va, im)
  BY <1>1 DEF Exact
<1> DEFINE v == s.va
           o == s.off
           m == s.memsz
           z == s.filesz
           c == Begin(t)
<1>5. c.page = v /\ c.src = o
  BY <1>3
<1>6. /\ v \in Nat /\ o \in Int /\ v % PageSize = 0 /\ v <= v /\ v < v + m
      /\ v < v + z => o = o + v - v
  <2>1. v \in Nat /\ o \in Nat /\ m \in Nat \ {0} /\ z \in Nat /\ v % PageSize = 0
    BY <1>1
  <2> HIDE DEF v, o, m, z
  <2> QED BY <2>1
<1> HIDE DEF c
<1>7. Within(s, c, im)
  BY <1>4, <1>5, <1>6 DEF Within
<1> QED BY <1>7 DEF c

\* What FilesAssumption says of one program.
LEMMA FileShape ==
    ASSUME NEW name \in DOMAIN Files, NEW f, f = Files[name]
    PROVE  /\ f \in Seq(Segs) /\ Len(f) \in Nat /\ DOMAIN f = 1 .. Len(f)
           /\ \A j \in 1 .. Len(f) :
                  f[j] \in Segs /\ f[j].va % PageSize = 0 /\ f[j].filesz <= f[j].memsz
           /\ \A j, k \in 1 .. Len(f) : j < k => f[j].va + f[j].memsz <= f[k].va
<1>1. f \in Seq(Segs)
  BY FilesAssumption DEF Segs
<1>2. Len(f) \in Nat /\ DOMAIN f = 1 .. Len(f) /\ \A j \in 1 .. Len(f) : f[j] \in Segs
  BY <1>1
<1>3. \A j \in DOMAIN f : f[j].va % PageSize = 0 /\ f[j].filesz <= f[j].memsz
  BY FilesAssumption
<1>4. \A j, k \in DOMAIN f : j < k => f[j].va + f[j].memsz <= f[k].va
  BY FilesAssumption
<1> QED BY <1>1, <1>2, <1>3, <1>4

\* load_elf() begins.
LEMMA LoadBegins ==
    ASSUME NEW name \in DOMAIN Files, NEW f, f = Files[name], NEW im, DOMAIN im = {}
    PROVE  Loading(f, f, Begin(f), im)
<1>1. /\ f \in Seq(Segs) /\ Len(f) \in Nat
      /\ \A j \in 1 .. Len(f) : f[j] \in Segs /\ f[j].va % PageSize = 0
  BY FileShape
<1>2. ASSUME f # <<>> PROVE Within(Head(f), Begin(f), im)
  <2>1. 1 \in 1 .. Len(f) /\ Head(f) = f[1]
    BY <1>1, <1>2
  <2> QED BY <1>1, <1>2, <2>1, SegmentBegins
<1>3. Len(f) - Len(f) = 0 /\ \A k \in 1 .. Len(f) : Len(f) - Len(f) + k = k
  BY <1>1
<1>4. 1 .. Len(f) - Len(f) = {}
  BY <1>3
<1> QED BY <1>1, <1>2, <1>3, <1>4 DEF Loading

\* map_section_for_user() loads a page, and load_elf() goes on to the next segment
\* behind the last page of one.
LEMMA LoadContinues ==
    ASSUME NEW name \in DOMAIN Files, NEW f, f = Files[name],
           Loading(f, todo, cursor, image), LoadPage
    PROVE  Loading(f, todo', cursor', image')
<1> DEFINE s == Head(todo)
           d == Len(f) - Len(todo)
           n == cursor.page + PageSize
<1>1. /\ f \in Seq(Segs) /\ Len(f) \in Nat /\ DOMAIN f = 1 .. Len(f)
      /\ \A j \in 1 .. Len(f) : f[j] \in Segs /\ f[j].va % PageSize = 0
      /\ \A j, k \in 1 .. Len(f) : j < k => f[j].va + f[j].memsz <= f[k].va
  BY FileShape
<1>2. /\ todo \in Seq(Segs) /\ Len(todo) <= Len(f) /\ todo # <<>>
      /\ \A k \in 1 .. Len(todo) : todo[k] = f[d + k]
      /\ \A k \in 1 .. d : Exact(f[k], f[k].va + f[k].memsz, image)
      /\ DOMAIN image \subseteq Int
      /\ Within(s, cursor, image)
  BY DEF Loading, LoadPage
<1>3. /\ Len(todo) \in Nat /\ Len(todo) >= 1 /\ d \in Nat /\ d + 1 \in 1 .. Len(f)
      /\ s = todo[1] /\ d + Len(todo) = Len(f)
  BY <1>1, <1>2
<1>4. s = f[d + 1] /\ s \in Segs
  BY <1>1, <1>2, <1>3
<1>5. /\ cursor.page \in Nat /\ cursor.src \in Int /\ s.va <= cursor.page /\ s.va \in Nat
      /\ s.memsz \in Nat \ {0} /\ s.filesz \in Nat /\ s.off \in Nat
      /\ PageSize \in Nat /\ PageSize >= 1 /\ cursor.page < s.va + s.memsz
      /\ cursor.page % PageSize = 0
  BY <1>2, <1>4, PageSizeAssumption DEF Within, Segs
<1>6. (IF s.va > cursor.page THEN s.va ELSE cursor.page) = cursor.page
  <2> DEFINE v == s.va
             p == cursor.page
  <2>1. v \in Nat /\ p \in Nat /\ v <= p
    BY <1>5
  <2> HIDE DEF v, p
  <2>2. (IF v > p THEN v ELSE p) = p
    BY <2>1
  <2> QED BY <2>2 DEF v, p
<1>7. /\ MapPageForUser(cursor.page, cursor.src, CopySize(s, cursor.page))
      /\ IF n < s.va + s.memsz
         THEN /\ cursor' = [page |-> n, src |-> cursor.src + Least({s.va + s.filesz, n}) - cursor.page]
              /\ todo' = todo
         ELSE todo' = Tail(todo) /\ cursor' = Begin(todo')
  BY <1>6 DEF LoadPage
<1>8. /\ DOMAIN image \subseteq DOMAIN image' /\ DOMAIN image' \subseteq Int
      /\ \A a \in DOMAIN image : image'[a] = image[a]
      /\ \A a \in DOMAIN image' : a < n
      /\ Exact(s, n, image')
  BY <1>2, <1>4, <1>7, PageLoaded
<1>9. \A k \in 1 .. d : Exact(f[k], f[k].va + f[k].memsz, image')
  <2>1. ASSUME NEW k \in 1 .. d PROVE Exact(f[k], f[k].va + f[k].memsz, image')
    <3> DEFINE q == f[k]
               m == f[k].va + f[k].memsz
    <3>1. Exact(q, m, image)
      BY <1>2
    <3> HIDE DEF q, m
    <3>2. Exact(q, m, image')
      BY <1>8, <3>1 DEF Exact
    <3> QED BY <3>2 DEF q, m
  <2> QED BY <2>1
<1>10. n \in Nat /\ n % PageSize = 0
  BY <1>5, AlignedNext
<1>11. CASE n < s.va + s.memsz
  <2> DEFINE v == s.va
             p == cursor.page
             e == s.va + s.filesz
             r == cursor.src
             o == s.off
             end == Least({e, n})
  <2>1. cursor' = [page |-> n, src |-> r + end - p] /\ todo' = todo
    BY <1>7, <1>11
  <2>2. /\ v \in Nat /\ p \in Nat /\ e \in Nat /\ r \in Int /\ o \in Nat /\ v <= p
        /\ n = p + PageSize /\ (p < e => r = o + p - v)
    BY <1>2, <1>5 DEF Within
  <2>3. end = IF e <= n THEN e ELSE n
    BY <1>10, <2>2, LeastOfTwo
  <2>4. cursor'.page = n /\ cursor'.src = r + end - p
    BY <2>1
  <2> HIDE DEF v, p, e, r, o, end, n
  <2>5. v <= n /\ r + end - p \in Int /\ (n < e => r + end - p = o + n - v)
    BY <1>5, <1>10, <2>2, <2>3
  <2>6. /\ cursor'.page \in Nat /\ cursor'.src \in Int /\ cursor'.page % PageSize = 0
        /\ v <= cursor'.page
        /\ (cursor'.page < e => cursor'.src = o + cursor'.page - v)
    BY <1>10, <2>4, <2>5
  <2>7. Within(s, cursor', image')
    BY <1>8, <1>11, <2>4, <2>6 DEF Within, v, e, o
  <2> QED BY <1>2, <1>8, <1>9, <2>1, <2>7 DEF Loading
<1>12. CASE ~(n < s.va + s.memsz)
  <2> DEFINE m == s.va + s.memsz
             t == Tail(todo)
  <2>1. m \in Nat /\ m <= n
    BY <1>5, <1>10, <1>12
  <2>2. Exact(s, m, image')
    <3> HIDE DEF n, m
    <3>1. \A a \in s.va .. m - 1 : a \in s.va .. n - 1
      BY <1>5, <1>10, <2>1
    <3> QED BY <1>8, <3>1 DEF Exact
  <2>3. t \in Seq(Segs) /\ Len(t) = Len(todo) - 1 /\ \A k \in 1 .. Len(t) : t[k] = todo[k + 1]
    BY <1>2
  <2>4. Len(t) \in Nat /\ Len(t) <= Len(f) /\ Len(f) - Len(t) = d + 1
    BY <1>1, <1>3, <2>3
  <2>5. \A k \in 1 .. Len(t) : t[k] = f[Len(f) - Len(t) + k]
    <3>1. ASSUME NEW k \in 1 .. Len(t) PROVE t[k] = f[Len(f) - Len(t) + k]
      <4>1. k + 1 \in 1 .. Len(todo) /\ d + (k + 1) = Len(f) - Len(t) + k
        BY <1>1, <1>3, <2>3, <2>4
      <4> QED BY <1>2, <2>3, <4>1
    <3> QED BY <3>1
  <2>6. \A k \in 1 .. d + 1 : Exact(f[k], f[k].va + f[k].memsz, image')
    <3>1. ASSUME NEW k \in 1 .. d + 1 PROVE Exact(f[k], f[k].va + f[k].memsz, image')
      <4>1. CASE k = d + 1
        BY <1>4, <2>2, <4>1
      <4>2. CASE k # d + 1
        <5>1. k \in 1 .. d
          BY <1>3, <4>2
        <5> QED BY <1>9, <5>1
      <4> QED BY <4>1, <4>2
    <3> QED BY <3>1
  <2>7. todo' = t /\ cursor' = Begin(t)
    BY <1>7, <1>12
  <2>8. ASSUME t # <<>> PROVE Within(Head(t), cursor', image')
    <3> DEFINE x == f[d + 2]
    <3>1. Len(t) >= 1
      BY <2>3, <2>4, <2>8
    <3>2. d + 2 \in 1 .. Len(f) /\ d + 1 < d + 2 /\ 1 \in 1 .. Len(t) /\ Head(t) = t[1]
          /\ Len(f) - Len(t) + 1 = d + 2
      BY <1>1, <1>3, <2>3, <2>4, <3>1
    <3>3. Head(t) = x /\ x \in Segs /\ x.va % PageSize = 0
      BY <1>1, <2>5, <3>2
    <3>4. m <= x.va
      BY <1>1, <1>3, <1>4, <3>2
    <3>5. cursor.page < x.va /\ x.va \in Nat
      BY <1>5, <2>1, <3>3, <3>4 DEF Segs
    <3>6. n <= x.va
      BY <1>5, <3>3, <3>5, AlignedApart
    <3> HIDE DEF x, n
    <3>7. \A a \in DOMAIN image' : a < x.va
      BY <1>8, <1>10, <3>5, <3>6
    <3>8. Within(x, Begin(t), image')
      BY <2>3, <2>8, <3>3, <3>7, SegmentBegins
    <3> QED BY <2>7, <3>3, <3>8
  <2> HIDE DEF t, d
  <2> QED BY <1>8, <2>3, <2>4, <2>5, <2>6, <2>7, <2>8 DEF Loading
<1> QED BY <1>11, <1>12

\* load_elf() is through: the image is the file.
LEMMA LoadEnds ==
    ASSUME NEW name \in DOMAIN Files, NEW f, f = Files[name], NEW c, NEW im,
           Loading(f, <<>>, c, im)
    PROVE  \A k \in DOMAIN f : Exact(f[k], f[k].va + f[k].memsz, im)
<1>1. Len(f) \in Nat /\ DOMAIN f = 1 .. Len(f)
  BY FileShape
<1>2. Len(<<>>) = 0 /\ Len(f) - Len(<<>>) = Len(f)
  BY <1>1
<1> QED BY <1>1, <1>2 DEF Loading

-----------------------------------------------------------------------------
(* The members of a set in order. *)

\* The next number is a member or not.
AscendTurn(S, q, j) == IF j \in S THEN Append(q, j) ELSE q
AscendFold == INSTANCE FoldProofs WITH Op <- AscendTurn

\* r enumerates S.
Enumerates(r, m, S) ==
    /\ m \in Nat /\ r \in [1 .. m -> Nat]
    /\ \A j, k \in 1 .. m : j < k => r[j] < r[k]
    /\ S = {r[k] : k \in 1 .. m}

\* Ascending() is the only increasing sequence of the members.
LEMMA AscendingIs ==
    ASSUME NEW n \in Nat, NEW S, S \subseteq 1 .. n, NEW m, NEW r, Enumerates(r, m, S)
    PROVE  Ascending(S, n) = r
<1> DEFINE seq == [j \in 1 .. n |-> j]
           F == AscendFold!Fold(S, <<>>, seq)
           A == [k \in 0 .. n |-> {q \in Seq(Nat) :
                     /\ Len(q) <= m
                     /\ \A x \in 1 .. Len(q) : q[x] = r[x] /\ r[x] <= k
                     /\ \A x \in Len(q) + 1 .. m : r[x] > k}]
<1>1. Ascending(S, n) = F
  BY DEF Ascending, AscendFold!Fold, FoldLeft, MapThenFoldSet, AscendFold!FoldLeft,
         AscendFold!MapThenFoldSet, AscendTurn, Max, AscendFold!Max
<1>2. /\ m \in Nat /\ r \in [1 .. m -> Nat] /\ S = {r[k] : k \in 1 .. m}
      /\ \A j, k \in 1 .. m : j < k => r[j] < r[k]
      /\ \A k \in 1 .. m : r[k] \in 1 .. n
  BY DEF Enumerates
<1>3. <<>> \in A[0]
  <2>1. A[0] = {q \in Seq(Nat) :
                     /\ Len(q) <= m
                     /\ \A x \in 1 .. Len(q) : q[x] = r[x] /\ r[x] <= 0
                     /\ \A x \in Len(q) + 1 .. m : r[x] > 0}
    OBVIOUS
  <2> HIDE DEF A
  <2>2. <<>> \in Seq(Nat) /\ Len(<<>>) = 0 /\ 1 .. 0 = {} /\ 0 + 1 = 1
    OBVIOUS
  <2>3. \A x \in 1 .. m : r[x] > 0
    BY <1>2
  <2> QED BY <1>2, <2>1, <2>2, <2>3
<1>4. ASSUME NEW k \in 1 .. n, NEW q \in A[k - 1] PROVE AscendTurn(S, q, seq[k]) \in A[k]
  <2> DEFINE t == AscendTurn(S, q, k)
             l == Len(q)
  <2>1. k - 1 \in 0 .. n /\ k \in 0 .. n /\ k \in Nat
    OBVIOUS
  <2>2. /\ q \in Seq(Nat) /\ l \in Nat /\ l <= m
        /\ \A x \in 1 .. l : q[x] = r[x] /\ r[x] <= k - 1
        /\ \A x \in l + 1 .. m : r[x] > k - 1
    BY <2>1
  <2>3. /\ t \in Seq(Nat) /\ Len(t) <= m
        /\ \A x \in 1 .. Len(t) : t[x] = r[x] /\ r[x] <= k
        /\ \A x \in Len(t) + 1 .. m : r[x] > k
    <3> HIDE DEF A
    <3>1. CASE k \in S
      <4>1. PICK y \in 1 .. m : r[y] = k
        BY <1>2, <3>1
      <4>2. y > l
        <5> HIDE DEF l, seq, F
        <5>1. ASSUME y <= l PROVE FALSE
          <6>1. y \in 1 .. l
            BY <1>2, <2>2, <5>1
          <6>2. r[y] <= k - 1
            BY <2>2, <6>1
          <6> QED BY <2>1, <4>1, <6>2
        <5> QED BY <1>2, <2>2, <5>1
      <4>3. l + 1 \in 1 .. m /\ r[l + 1] > k - 1 /\ r[l + 1] \in Nat
        <5> HIDE DEF l, seq, F
        <5>1. l + 1 \in 1 .. m /\ l + 1 \in l + 1 .. m
          BY <1>2, <2>2, <4>2
        <5> QED BY <1>2, <2>2, <5>1
      <4>4. y = l + 1
        BY <1>2, <2>1, <2>2, <4>1, <4>2, <4>3
      <4>5. t = Append(q, k)
        BY <3>1 DEF AscendTurn
      <4>6. t \in Seq(Nat) /\ Len(t) = l + 1 /\ t[l + 1] = k /\ \A x \in 1 .. l : t[x] = q[x]
        BY <2>1, <2>2, <4>5
      <4> HIDE DEF t, l
      <4>7. \A x \in 1 .. l + 1 : t[x] = r[x] /\ r[x] <= k
        <5> TAKE x \in 1 .. l + 1
        <5>1. CASE x = l + 1
          BY <2>1, <2>2, <4>1, <4>4, <4>6, <5>1
        <5>2. CASE x # l + 1
          <6>1. x \in 1 .. l /\ x \in 1 .. m
            BY <1>2, <2>2, <5>2
          <6> QED BY <1>2, <2>1, <2>2, <4>6, <6>1
        <5> QED BY <5>1, <5>2
      <4>8. \A x \in (l + 1) + 1 .. m : r[x] > k
        <5> TAKE x \in (l + 1) + 1 .. m
        <5>1. x \in 1 .. m /\ l + 1 < x
          BY <1>2, <2>2
        <5> QED BY <1>2, <4>1, <4>3, <4>4, <5>1
      <4> QED BY <1>2, <2>2, <4>3, <4>6, <4>7, <4>8
    <3>2. CASE k \notin S
      <4>1. t = q
        BY <3>2 DEF AscendTurn
      <4>2. \A x \in 1 .. m : r[x] # k /\ r[x] \in Nat
        BY <1>2, <3>2
      <4>3. \A x \in 1 .. l : r[x] <= k
        BY <1>2, <2>1, <2>2, <4>2
      <4>4. \A x \in l + 1 .. m : r[x] > k
        <5> TAKE x \in l + 1 .. m
        <5>1. x \in 1 .. m
          BY <1>2, <2>2
        <5> QED BY <2>1, <2>2, <4>2, <5>1
      <4> QED BY <2>2, <4>1, <4>3, <4>4
    <3> QED BY <3>1, <3>2
  <2> HIDE DEF t
  <2>4. t \in A[k]
    BY <2>1, <2>3
  <2>5. seq[k] = k
    OBVIOUS
  <2> HIDE DEF A
  <2> QED BY <2>4, <2>5 DEF t
<1>5. F \in A[n]
  <2>1. DOMAIN seq = 1 .. n
    OBVIOUS
  <2> HIDE DEF A, seq
  <2> QED BY <1>3, <1>4, <2>1, AscendFold!FoldRule
<1> HIDE DEF F
<1>6. /\ F \in Seq(Nat) /\ Len(F) <= m /\ \A x \in 1 .. Len(F) : F[x] = r[x]
      /\ \A x \in Len(F) + 1 .. m : r[x] > n
  <2>1. n \in 0 .. n
    OBVIOUS
  <2> QED BY <1>5, <2>1
<1> HIDE DEF A, seq
<1>7. Len(F) = m
  <2> SUFFICES ASSUME Len(F) # m PROVE FALSE
    OBVIOUS
  <2>1. Len(F) \in Nat
    BY <1>6
  <2>2. m \in Len(F) + 1 .. m /\ m \in 1 .. m
    BY <1>2, <1>6, <2>1
  <2> QED BY <1>2, <1>6, <2>2
<1>8. F = [x \in 1 .. m |-> F[x]] /\ r = [x \in 1 .. m |-> r[x]]
  BY <1>2, <1>6, <1>7
<1>9. [x \in 1 .. m |-> F[x]] = [x \in 1 .. m |-> r[x]]
  BY <1>6, <1>7
<1> QED BY <1>1, <1>8, <1>9

-----------------------------------------------------------------------------
(* The keys and the screen. *)

\* Count(), Shown() and OnScreen for any sequence of keys.
Keyed(ks, S, from, to) == Cardinality({k \in from .. to : ks[k] \in S})
ShownIn(ks, j) ==
    /\ ks[j] \notin {DEL, NUL}
    /\ \A m \in j + 1 .. Len(ks) :
          Keyed(ks, {DEL}, j + 1, m) <= Keyed(ks, Keys \ {DEL}, j + 1, m)
ScreenOf(ks) ==
    LET pos == Ascending({j \in DOMAIN ks : ShownIn(ks, j)}, Len(ks))
    IN  [k \in DOMAIN pos |-> ks[pos[k]]]

\* They are the same for the keys of the model.
LEMMA ScreenIs == OnScreen = ScreenOf(keys) /\ OnScreen' = ScreenOf(keys')
BY DEF OnScreen, ScreenOf, Shown, ShownIn, Count, Keyed

\* A count a of keys in S has become b with key c.
Counts(a, b, c, S) == b = a + IF c \in S THEN 1 ELSE 0

\* Counting: nothing, and one more key.
LEMMA KeyedFacts ==
    ASSUME NEW ks, NEW S, NEW f \in Nat, NEW n \in Nat
    PROVE  /\ Keyed(ks, S, f, n) \in Nat
           /\ n < f => Keyed(ks, S, f, n) = 0
           /\ f <= n + 1 => Counts(Keyed(ks, S, f, n), Keyed(ks, S, f, n + 1), ks[n + 1], S)
<1> DEFINE C(x) == {k \in f .. x : ks[k] \in S}
<1>1. IsFiniteSet(C(n))
  <2>1. IsFiniteSet(f .. n)
    BY FS_Interval
  <2> QED BY <2>1, FS_Subset
<1>2. Cardinality(C(n)) \in Nat
  BY <1>1, FS_CardinalityType
<1>3. n < f => C(n) = {}
  OBVIOUS
<1>4. Cardinality({}) = 0
  BY FS_EmptySet
<1>5. f <= n + 1 => C(n + 1) = IF ks[n + 1] \in S THEN C(n) \cup {n + 1} ELSE C(n)
  <2> SUFFICES ASSUME f <= n + 1
               PROVE  C(n + 1) = IF ks[n + 1] \in S THEN C(n) \cup {n + 1} ELSE C(n)
    OBVIOUS
  <2>1. f .. n + 1 = (f .. n) \cup {n + 1}
    OBVIOUS
  <2> QED BY <2>1
<1>6. n + 1 \notin C(n)
  OBVIOUS
<1> HIDE DEF C
<1>7. Cardinality(C(n) \cup {n + 1}) = Cardinality(C(n)) + 1
  BY <1>1, <1>6, FS_AddElement
<1>8. \A x : Keyed(ks, S, f, x) = Cardinality(C(x))
  BY DEF Keyed, C
<1> QED BY <1>2, <1>3, <1>4, <1>5, <1>7, <1>8 DEF Counts

\* Counting in the part before a new key.
LEMMA KeyedAppend ==
    ASSUME NEW ks \in Seq(Keys), NEW c, NEW S, NEW f \in Nat \ {0}, NEW n \in Nat, n <= Len(ks)
    PROVE  Keyed(Append(ks, c), S, f, n) = Keyed(ks, S, f, n)
<1>1. \A k \in f .. n : Append(ks, c)[k] = ks[k]
  OBVIOUS
<1>2. {k \in f .. n : Append(ks, c)[k] \in S} = {k \in f .. n : ks[k] \in S}
  BY <1>1
<1> QED BY <1>2 DEF Keyed

\* One key more, in the counts from key f on.
LEMMA KeyedNext ==
    ASSUME NEW ks \in Seq(Keys), NEW c, NEW S, NEW n, n = Len(ks), NEW t, t = Append(ks, c),
           NEW f \in 1 .. n + 1
    PROVE  /\ Keyed(ks, S, f, n) \in Nat
           /\ Counts(Keyed(ks, S, f, n), Keyed(t, S, f, n + 1), c, S)
<1>1. n \in Nat /\ t[n + 1] = c /\ f \in Nat \ {0} /\ f \in Nat /\ f <= n + 1 /\ n <= Len(ks)
  OBVIOUS
<1>2. Counts(Keyed(t, S, f, n), Keyed(t, S, f, n + 1), t[n + 1], S)
  BY <1>1, KeyedFacts
<1>3. Keyed(t, S, f, n) = Keyed(ks, S, f, n)
  BY <1>1, KeyedAppend
<1>4. Keyed(ks, S, f, n) \in Nat
  BY <1>1, KeyedFacts
<1> QED BY <1>1, <1>2, <1>3, <1>4

\* What one key more leaves on the screen.
LEMMA ShownNext ==
    ASSUME NEW ks \in Seq(Keys), NEW c \in Keys
    PROVE  /\ ShownIn(Append(ks, c), Len(ks) + 1) <=> c \notin {DEL, NUL}
           /\ c # DEL => \A j \in 1 .. Len(ks) : ShownIn(Append(ks, c), j) <=> ShownIn(ks, j)
           /\ c = DEL => \A j \in 1 .. Len(ks) :
                  ShownIn(Append(ks, c), j) <=>
                      /\ ShownIn(ks, j)
                      /\ Keyed(ks, {DEL}, j + 1, Len(ks)) + 1
                             <= Keyed(ks, Keys \ {DEL}, j + 1, Len(ks))
<1> DEFINE n == Len(ks)
           t == Append(ks, c)
           D == {DEL}
           K == Keys \ {DEL}
<1>1. /\ n \in Nat /\ Len(t) = n + 1 /\ t[n + 1] = c /\ \A k \in 1 .. n : t[k] = ks[k]
      /\ t \in Seq(Keys)
  OBVIOUS
<1>2. ShownIn(t, n + 1) <=> c \notin {DEL, NUL}
  <2>1. (n + 1) + 1 .. Len(t) = {}
    BY <1>1
  <2> HIDE DEF n, t
  <2> QED BY <1>1, <2>1 DEF ShownIn
<1>3. ASSUME NEW j \in 1 .. n
      PROVE  /\ c # DEL => (ShownIn(t, j) <=> ShownIn(ks, j))
             /\ c = DEL => (ShownIn(t, j) <=>
                    ShownIn(ks, j) /\ Keyed(ks, D, j + 1, n) + 1 <= Keyed(ks, K, j + 1, n))
  <2> DEFINE a == Keyed(ks, D, j + 1, n)
             b == Keyed(ks, K, j + 1, n)
  <2>1. /\ a \in Nat /\ b \in Nat
        /\ Keyed(t, D, j + 1, n + 1) = a + IF c = DEL THEN 1 ELSE 0
        /\ Keyed(t, K, j + 1, n + 1) = b + IF c = DEL THEN 0 ELSE 1
    <3>1. j \in 0 .. Len(ks)
      BY <1>1
    <3>2. (c \in D <=> c = DEL) /\ (c \in K <=> c # DEL)
      OBVIOUS
    <3> DEFINE f == j + 1
    <3>3. n = Len(ks) /\ t = Append(ks, c) /\ f \in 1 .. n + 1
      BY <1>1
    <3>4. a = Keyed(ks, D, f, n) /\ b = Keyed(ks, K, f, n)
      OBVIOUS
    <3> HIDE DEF D, K, n, t, f, a, b
    <3>5. a \in Nat /\ Counts(a, Keyed(t, D, f, n + 1), c, D)
      BY <3>3, <3>4, KeyedNext
    <3>6. b \in Nat /\ Counts(b, Keyed(t, K, f, n + 1), c, K)
      BY <3>3, <3>4, KeyedNext
    <3>7. /\ Keyed(t, D, f, n + 1) = a + IF c = DEL THEN 1 ELSE 0
          /\ Keyed(t, K, f, n + 1) = b + IF c = DEL THEN 0 ELSE 1
      BY <3>2, <3>5, <3>6 DEF Counts
    <3> QED BY <3>5, <3>6, <3>7 DEF f
  <2>2. ASSUME NEW m \in j + 1 .. n
        PROVE  Keyed(t, D, j + 1, m) = Keyed(ks, D, j + 1, m)
               /\ Keyed(t, K, j + 1, m) = Keyed(ks, K, j + 1, m)
    <3>1. m \in Nat /\ m <= Len(ks) /\ j + 1 \in Nat \ {0}
      BY <1>1
    <3> QED BY <3>1, KeyedAppend
  <2>3. ShownIn(ks, j) => a <= b
    <3>1. CASE j + 1 <= n
      <4>1. n \in j + 1 .. Len(ks)
        BY <1>1, <3>1
      <4> QED BY <4>1 DEF ShownIn
    <3>2. CASE ~(j + 1 <= n)
      <4>1. n < j + 1 /\ j + 1 \in Nat
        BY <1>1, <3>2
      <4>2. a = 0 /\ b = 0
        BY <1>1, <4>1, KeyedFacts
      <4> QED BY <4>2
    <3> QED BY <3>1, <3>2
  <2> HIDE DEF a, b
  <2>4. ShownIn(t, j) <=> /\ ShownIn(ks, j)
                          /\ Keyed(t, D, j + 1, n + 1) <= Keyed(t, K, j + 1, n + 1)
    <3>1. j + 1 .. Len(t) = (j + 1 .. n) \cup {n + 1}
      BY <1>1
    <3> HIDE DEF n, t
    <3>2. t[j] = ks[j]
      BY <1>1
    <3>3. ShownIn(t, j) <=> /\ ks[j] \notin {DEL, NUL}
                            /\ \A m \in (j + 1 .. n) \cup {n + 1} :
                                   Keyed(t, D, j + 1, m) <= Keyed(t, K, j + 1, m)
      BY <3>1, <3>2 DEF ShownIn
    <3>4. ShownIn(ks, j) <=> /\ ks[j] \notin {DEL, NUL}
                             /\ \A m \in j + 1 .. n :
                                    Keyed(ks, D, j + 1, m) <= Keyed(ks, K, j + 1, m)
      BY DEF ShownIn, n
    <3> HIDE DEF D, K
    <3> QED BY <2>2, <3>3, <3>4
  <2>5. (Keyed(t, D, j + 1, n + 1) <= Keyed(t, K, j + 1, n + 1))
            <=> IF c = DEL THEN a + 1 <= b ELSE a <= b + 1
    <3> HIDE DEF D, K, t
    <3> QED BY <2>1
  <2>6. a <= b => a <= b + 1
    BY <2>1
  <2> HIDE DEF D, K, t
  <2> QED BY <2>3, <2>4, <2>5, <2>6 DEF a, b
<1> QED BY <1>2, <1>3

\* The n characters of the buffer ln are what is on the screen, key pos[k] the
\* character k, and k is rubbed out by the (n - k + 1)th DEL from now.
Shows(ks, ln, n, pos) ==
    /\ ks \in Seq(Keys)
    /\ Enumerates(pos, n, {j \in 1 .. Len(ks) : ShownIn(ks, j)})
    /\ \A k \in 1 .. n : ln[k - 1] = ks[pos[k]]
Ahead(ks, j, n) ==
    Keyed(ks, Keys \ {DEL}, j + 1, Len(ks)) = Keyed(ks, {DEL}, j + 1, Len(ks)) + n
Balanced(ks, n, pos) == \A k \in 1 .. n : Ahead(ks, pos[k], n - k)
Reads(ks, ln, n) == \E pos : Shows(ks, ln, n, pos) /\ Balanced(ks, n, pos)

\* The places of the characters.
LEMMA ShowsFacts ==
    ASSUME NEW ks, NEW ln, NEW n, NEW pos, Shows(ks, ln, n, pos)
    PROVE  /\ ks \in Seq(Keys) /\ n \in Nat /\ Len(ks) \in Nat
           /\ pos \in [1 .. n -> Nat]
           /\ \A j, k \in 1 .. n : j < k => pos[j] < pos[k]
           /\ \A k \in 1 .. n : pos[k] \in 1 .. Len(ks) /\ ShownIn(ks, pos[k]) /\ ln[k - 1] = ks[pos[k]]
           /\ \A j \in 1 .. Len(ks) : ShownIn(ks, j) => \E k \in 1 .. n : j = pos[k]
<1>1. ks \in Seq(Keys) /\ Len(ks) \in Nat
  BY DEF Shows
<1>2. Enumerates(pos, n, {j \in 1 .. Len(ks) : ShownIn(ks, j)})
  BY DEF Shows
<1>3. \A k \in 1 .. n : ln[k - 1] = ks[pos[k]]
  BY DEF Shows
<1> QED BY <1>1, <1>2, <1>3 DEF Enumerates

\* A character is typed.
LEMMA TypeChar ==
    ASSUME NEW ks, NEW ln, NEW n, Reads(ks, ln, n), NEW c \in Keys \ {DEL, NUL}, NEW l2,
           \A k \in 1 .. n : l2[k - 1] = ln[k - 1], l2[n] = c
    PROVE  Reads(Append(ks, c), l2, n + 1)
<1>1. PICK pos : Shows(ks, ln, n, pos) /\ Balanced(ks, n, pos)
  BY DEF Reads
<1> DEFINE t == Append(ks, c)
           z == Len(ks)
           p2 == [k \in 1 .. n + 1 |-> IF k = n + 1 THEN z + 1 ELSE pos[k]]
<1>2. /\ ks \in Seq(Keys) /\ n \in Nat /\ z \in Nat /\ pos \in [1 .. n -> Nat]
      /\ \A j, k \in 1 .. n : j < k => pos[j] < pos[k]
      /\ \A k \in 1 .. n : pos[k] \in 1 .. z /\ ShownIn(ks, pos[k]) /\ ln[k - 1] = ks[pos[k]]
      /\ \A j \in 1 .. z : ShownIn(ks, j) => \E k \in 1 .. n : j = pos[k]
  BY <1>1, ShowsFacts
<1>3. t \in Seq(Keys) /\ Len(t) = z + 1 /\ t[z + 1] = c /\ \A k \in 1 .. z : t[k] = ks[k]
  BY <1>2
<1>4. /\ ShownIn(t, z + 1)
      /\ \A j \in 1 .. z : ShownIn(t, j) <=> ShownIn(ks, j)
  BY <1>2, ShownNext
<1>11. z = Len(ks) /\ t = Append(ks, c)
  OBVIOUS
<1>5. \A k \in 1 .. n + 1 : k = n + 1 \/ k \in 1 .. n
  BY <1>2
<1>6. \A k \in 1 .. n : p2[k] = pos[k] /\ k # n + 1
  BY <1>2
<1>7. p2[n + 1] = z + 1 /\ n + 1 \in 1 .. n + 1 /\ p2 \in [1 .. n + 1 -> Nat]
  BY <1>2
<1> HIDE DEF p2, t, z
<1>8. Enumerates(p2, n + 1, {j \in 1 .. Len(t) : ShownIn(t, j)})
  <2>1. \A j, k \in 1 .. n + 1 : j < k => p2[j] < p2[k]
    <3> SUFFICES ASSUME NEW j \in 1 .. n + 1, NEW k \in 1 .. n + 1, j < k PROVE p2[j] < p2[k]
      OBVIOUS
    <3>1. j \in 1 .. n
      BY <1>2
    <3>2. CASE k = n + 1
      BY <1>2, <1>6, <1>7, <3>1, <3>2
    <3>3. CASE k \in 1 .. n
      BY <1>2, <1>6, <3>1, <3>3
    <3> QED BY <1>5, <3>2, <3>3
  <2>2. \A j \in 1 .. Len(t) : ShownIn(t, j) => \E k \in 1 .. n + 1 : j = p2[k]
    <3> SUFFICES ASSUME NEW j \in 1 .. Len(t), ShownIn(t, j) PROVE \E k \in 1 .. n + 1 : j = p2[k]
      OBVIOUS
    <3>1. CASE j = z + 1
      BY <1>7, <3>1
    <3>2. CASE j \in 1 .. z
      <4>1. PICK k \in 1 .. n : j = pos[k]
        BY <1>2, <1>4, <3>2
      <4>2. k \in 1 .. n + 1 /\ j = p2[k]
        BY <1>2, <1>6, <4>1
      <4> QED BY <4>2
    <3> QED BY <1>2, <1>3, <3>1, <3>2
  <2>3. \A k \in 1 .. n + 1 : p2[k] \in 1 .. Len(t) /\ ShownIn(t, p2[k])
    <3> SUFFICES ASSUME NEW k \in 1 .. n + 1 PROVE p2[k] \in 1 .. Len(t) /\ ShownIn(t, p2[k])
      OBVIOUS
    <3>1. CASE k = n + 1
      BY <1>2, <1>3, <1>4, <1>7, <3>1
    <3>2. CASE k \in 1 .. n
      <4>1. p2[k] \in 1 .. z /\ ShownIn(t, p2[k])
        BY <1>2, <1>4, <1>6, <3>2
      <4> QED BY <1>2, <1>3, <4>1
    <3> QED BY <1>5, <3>1, <3>2
  <2>4. {j \in 1 .. Len(t) : ShownIn(t, j)} = {p2[k] : k \in 1 .. n + 1}
    BY <2>2, <2>3
  <2> QED BY <1>2, <1>7, <2>1, <2>4 DEF Enumerates
<1>9. \A k \in 1 .. n + 1 : l2[k - 1] = t[p2[k]]
  <2> SUFFICES ASSUME NEW k \in 1 .. n + 1 PROVE l2[k - 1] = t[p2[k]]
    OBVIOUS
  <2>1. CASE k = n + 1
    <3>1. k - 1 = n
      BY <1>2, <2>1
    <3> QED BY <1>3, <1>7, <2>1, <3>1
  <2>2. CASE k \in 1 .. n
    BY <1>2, <1>3, <1>6, <2>2
  <2> QED BY <1>5, <2>1, <2>2
<1>10. Balanced(t, n + 1, p2)
  <2> DEFINE D == {DEL}
             K == Keys \ {DEL}
  <2>3. c \notin D /\ c \in K
    OBVIOUS
  <2> DEFINE N == n + 1
  <2>4. SUFFICES \A k \in 1 .. N : Ahead(t, p2[k], N - k)
    <3> HIDE DEF N
    <3>1. Balanced(t, N, p2)
      BY <2>4 DEF Balanced
    <3> QED BY <3>1 DEF N
  <2> TAKE k \in 1 .. N
  <2> DEFINE x == n + 1 - k
  <2>5. SUFFICES Keyed(t, K, p2[k] + 1, z + 1) = Keyed(t, D, p2[k] + 1, z + 1) + x
    <3>1. Len(t) = z + 1 /\ N - k = x
      BY <1>2, <1>3
    <3> HIDE DEF x, N
    <3>2. Ahead(t, p2[k], x)
      BY <2>5, <3>1 DEF Ahead
    <3> QED BY <3>1, <3>2
  <2>1. CASE k = n + 1
    <3>1. p2[k] + 1 \in Nat /\ z + 1 \in Nat /\ z + 1 < p2[k] + 1 /\ n + 1 - k = 0
      BY <1>2, <1>7, <2>1
    <3> HIDE DEF D, K
    <3>2. Keyed(t, K, p2[k] + 1, z + 1) = 0 /\ Keyed(t, D, p2[k] + 1, z + 1) = 0
      BY <3>1, KeyedFacts
    <3> QED BY <3>1, <3>2
  <2>2. CASE k \in 1 .. n
    <3> DEFINE f == pos[k] + 1
               a == Keyed(ks, D, f, z)
               b == Keyed(ks, K, f, z)
    <3>1. f \in 1 .. z + 1 /\ p2[k] + 1 = f
      BY <1>2, <1>6, <2>2
    <3>2. b = a + (n - k)
      BY <1>1, <2>2 DEF Balanced, Ahead, z
    <3> HIDE DEF f, D, K
    <3>3. a \in Nat /\ Counts(a, Keyed(t, D, f, z + 1), c, D)
      BY <1>2, <1>11, <3>1, KeyedNext
    <3>4. b \in Nat /\ Counts(b, Keyed(t, K, f, z + 1), c, K)
      BY <1>2, <1>11, <3>1, KeyedNext
    <3> HIDE DEF a, b
    <3>5. Keyed(t, D, f, z + 1) = a /\ Keyed(t, K, f, z + 1) = b + 1
      BY <2>3, <3>3, <3>4 DEF Counts
    <3>6. b + 1 = a + (n + 1 - k)
      BY <1>2, <3>2, <3>3, <3>4
    <3> QED BY <3>1, <3>5, <3>6
  <2> QED BY <1>5, <2>1, <2>2
<1> QED BY <1>3, <1>8, <1>9, <1>10 DEF Reads, Shows, t

\* DEL takes the last character away, if there is one.
LEMMA TypeDel ==
    ASSUME NEW ks, NEW ln, NEW n, Reads(ks, ln, n), NEW n2, n2 = IF n > 0 THEN n - 1 ELSE n
    PROVE  Reads(Append(ks, DEL), ln, n2)
<1>1. PICK pos : Shows(ks, ln, n, pos) /\ Balanced(ks, n, pos)
  BY DEF Reads
<1> DEFINE t == Append(ks, DEL)
           z == Len(ks)
           p2 == [k \in 1 .. n2 |-> pos[k]]
           D == {DEL}
           K == Keys \ {DEL}
<1>2. /\ ks \in Seq(Keys) /\ n \in Nat /\ z \in Nat /\ pos \in [1 .. n -> Nat]
      /\ \A j, k \in 1 .. n : j < k => pos[j] < pos[k]
      /\ \A k \in 1 .. n : pos[k] \in 1 .. z /\ ShownIn(ks, pos[k]) /\ ln[k - 1] = ks[pos[k]]
      /\ \A j \in 1 .. z : ShownIn(ks, j) => \E k \in 1 .. n : j = pos[k]
  BY <1>1, ShowsFacts
<1>3. DEL \in Keys
  BY DEF Keys
<1>4. t \in Seq(Keys) /\ Len(t) = z + 1 /\ t[z + 1] = DEL /\ \A k \in 1 .. z : t[k] = ks[k]
  BY <1>2, <1>3
<1>5. /\ ~ShownIn(t, z + 1)
      /\ \A j \in 1 .. z : ShownIn(t, j) <=>
             ShownIn(ks, j) /\ Keyed(ks, D, j + 1, z) + 1 <= Keyed(ks, K, j + 1, z)
  BY <1>2, <1>3, ShownNext
<1>6. n2 \in Nat /\ n2 <= n /\ n2 = IF n = 0 THEN 0 ELSE n - 1
  BY <1>2
<1>7. /\ \A k \in 1 .. n2 : k \in 1 .. n /\ p2[k] = pos[k] /\ k < n
      /\ p2 \in [1 .. n2 -> Nat]
  BY <1>2, <1>6
<1>8. z = Len(ks) /\ t = Append(ks, DEL)
  OBVIOUS
<1> HIDE DEF t, z, p2
<1>9. ASSUME NEW k \in 1 .. n
      PROVE  /\ Keyed(ks, D, pos[k] + 1, z) \in Nat
             /\ Keyed(ks, K, pos[k] + 1, z) = Keyed(ks, D, pos[k] + 1, z) + (n - k)
             /\ ShownIn(t, pos[k]) <=> k < n
  <2> DEFINE j == pos[k]
             a == Keyed(ks, D, j + 1, z)
             b == Keyed(ks, K, j + 1, z)
  <2>1. Ahead(ks, j, n - k)
    BY <1>1 DEF Balanced
  <2>2. b = a + (n - k)
    BY <1>8, <2>1 DEF Ahead
  <2>3. j \in 1 .. z /\ ShownIn(ks, j) /\ j + 1 \in Nat
    BY <1>2
  <2>4. a \in Nat
    <3> HIDE DEF D, K, j
    <3> QED BY <1>2, <2>3, KeyedFacts
  <2>5. ShownIn(t, j) <=> a + 1 <= b
    BY <1>5, <2>3
  <2> HIDE DEF a, b, j
  <2>6. a + 1 <= b <=> k < n
    BY <1>2, <2>2, <2>4
  <2> QED BY <2>2, <2>4, <2>5, <2>6 DEF a, b, j
<1>10. Enumerates(p2, n2, {j \in 1 .. Len(t) : ShownIn(t, j)})
  <2>1. \A j, k \in 1 .. n2 : j < k => p2[j] < p2[k]
    BY <1>2, <1>7
  <2>2. \A j \in 1 .. Len(t) : ShownIn(t, j) => \E k \in 1 .. n2 : j = p2[k]
    <3> SUFFICES ASSUME NEW j \in 1 .. Len(t), ShownIn(t, j) PROVE \E k \in 1 .. n2 : j = p2[k]
      OBVIOUS
    <3>1. j \in 1 .. z
      BY <1>2, <1>4, <1>5
    <3>2. PICK k \in 1 .. n : j = pos[k]
      BY <1>2, <1>5, <3>1
    <3>3. k < n
      BY <1>9, <3>2
    <3>4. k \in 1 .. n2
      BY <1>2, <1>6, <3>3
    <3> QED BY <1>7, <3>2, <3>4
  <2>3. \A k \in 1 .. n2 : p2[k] \in 1 .. Len(t) /\ ShownIn(t, p2[k])
    <3> SUFFICES ASSUME NEW k \in 1 .. n2 PROVE p2[k] \in 1 .. Len(t) /\ ShownIn(t, p2[k])
      OBVIOUS
    <3>1. k \in 1 .. n /\ p2[k] = pos[k] /\ k < n
      BY <1>7
    <3>2. pos[k] \in 1 .. z /\ ShownIn(t, pos[k])
      BY <1>2, <1>9, <3>1
    <3> QED BY <1>2, <1>4, <3>1, <3>2
  <2>4. {j \in 1 .. Len(t) : ShownIn(t, j)} = {p2[k] : k \in 1 .. n2}
    BY <2>2, <2>3
  <2> QED BY <1>6, <1>7, <2>1, <2>4 DEF Enumerates
<1>11. \A k \in 1 .. n2 : ln[k - 1] = t[p2[k]]
  <2> TAKE k \in 1 .. n2
  <2>1. k \in 1 .. n /\ p2[k] = pos[k]
    BY <1>7
  <2>2. pos[k] \in 1 .. z /\ ln[k - 1] = ks[pos[k]]
    BY <1>2, <2>1
  <2> QED BY <1>4, <2>1, <2>2
<1>12. Balanced(t, n2, p2)
  <2> SUFFICES ASSUME NEW k \in 1 .. n2 PROVE Ahead(t, p2[k], n2 - k)
    BY DEF Balanced
  <2> DEFINE f == pos[k] + 1
             a == Keyed(ks, D, f, z)
             b == Keyed(ks, K, f, z)
             x == n2 - k
  <2>1. k \in 1 .. n /\ p2[k] = pos[k] /\ k < n
    BY <1>7
  <2>2. f \in 1 .. z + 1 /\ p2[k] + 1 = f
    <3> DEFINE j == pos[k]
    <3>1. j \in 1 .. z /\ p2[k] = j
      BY <1>2, <2>1
    <3> HIDE DEF j
    <3>2. j + 1 \in 1 .. z + 1
      BY <1>2, <3>1
    <3> QED BY <3>1, <3>2 DEF j
  <2>3. b = a + (n - k) /\ a \in Nat
    BY <1>9, <2>1
  <2>4. DEL \in D /\ DEL \notin K
    OBVIOUS
  <2> HIDE DEF f, D, K
  <2>5. Counts(a, Keyed(t, D, f, z + 1), DEL, D)
    BY <1>2, <1>8, <2>2, KeyedNext
  <2>6. b \in Nat /\ Counts(b, Keyed(t, K, f, z + 1), DEL, K)
    BY <1>2, <1>8, <2>2, KeyedNext
  <2> HIDE DEF a, b, x
  <2>7. Keyed(t, D, f, z + 1) = a + 1 /\ Keyed(t, K, f, z + 1) = b
    BY <2>3, <2>4, <2>5, <2>6 DEF Counts
  <2>8. b = (a + 1) + x
    BY <1>2, <1>6, <2>1, <2>3 DEF x
  <2>9. Keyed(t, K, p2[k] + 1, z + 1) = Keyed(t, D, p2[k] + 1, z + 1) + x
    BY <2>2, <2>7, <2>8
  <2>10. Len(t) = z + 1
    BY <1>4
  <2>11. Ahead(t, p2[k], x)
    BY <2>9, <2>10 DEF Ahead, D, K
  <2> QED BY <2>11 DEF x
<1> QED BY <1>4, <1>10, <1>11, <1>12 DEF Reads, Shows, t

\* A NUL ends the line and is not shown.
LEMMA TypeNul ==
    ASSUME NEW ks, NEW ln, NEW n, Reads(ks, ln, n), NEW l2,
           \A k \in 1 .. n : l2[k - 1] = ln[k - 1]
    PROVE  \E pos : Shows(Append(ks, NUL), l2, n, pos)
<1>1. PICK pos : Shows(ks, ln, n, pos)
  BY DEF Reads
<1> DEFINE t == Append(ks, NUL)
           z == Len(ks)
<1>2. /\ ks \in Seq(Keys) /\ n \in Nat /\ z \in Nat /\ pos \in [1 .. n -> Nat]
      /\ \A j, k \in 1 .. n : j < k => pos[j] < pos[k]
      /\ \A k \in 1 .. n : pos[k] \in 1 .. z /\ ShownIn(ks, pos[k]) /\ ln[k - 1] = ks[pos[k]]
      /\ \A j \in 1 .. z : ShownIn(ks, j) => \E k \in 1 .. n : j = pos[k]
  BY <1>1, ShowsFacts
<1>3. NUL \in Keys /\ NUL # DEL
  BY DEF Keys, NUL, DEL
<1>4. t \in Seq(Keys) /\ Len(t) = z + 1 /\ \A k \in 1 .. z : t[k] = ks[k]
  BY <1>2, <1>3
<1>5. /\ ~ShownIn(t, z + 1)
      /\ \A j \in 1 .. z : ShownIn(t, j) <=> ShownIn(ks, j)
  BY <1>2, <1>3, ShownNext
<1> HIDE DEF t, z
<1>6. {j \in 1 .. Len(t) : ShownIn(t, j)} = {pos[k] : k \in 1 .. n}
  <2>1. \A j \in 1 .. Len(t) : ShownIn(t, j) => \E k \in 1 .. n : j = pos[k]
    <3> SUFFICES ASSUME NEW j \in 1 .. Len(t), ShownIn(t, j) PROVE \E k \in 1 .. n : j = pos[k]
      OBVIOUS
    <3>1. j \in 1 .. z
      BY <1>2, <1>4, <1>5
    <3> QED BY <1>2, <1>5, <3>1
  <2>2. \A k \in 1 .. n : pos[k] \in 1 .. Len(t) /\ ShownIn(t, pos[k])
    BY <1>2, <1>4, <1>5
  <2> QED BY <2>1, <2>2
<1>7. Enumerates(pos, n, {j \in 1 .. Len(t) : ShownIn(t, j)})
  BY <1>2, <1>6 DEF Enumerates
<1>8. \A k \in 1 .. n : l2[k - 1] = t[pos[k]]
  BY <1>2, <1>4
<1> QED BY <1>4, <1>7, <1>8 DEF Shows, t

\* What a line is made of.
Typed == Letters \cup Delims

\* They are characters of a string, and a letter is no delimiter.
LEMMA TypedFacts ==
    /\ Typed \subseteq Text /\ Text \subseteq Chars /\ NUL \in Chars /\ NUL \notin Text
    /\ \A c \in Typed : c \in Delims <=> c \notin Letters \cup {JUNK, NUL}
    /\ \A c \in Letters : c \in Typed /\ c \notin Delims \cup {NUL}
BY LettersAssumption DEF Typed, Text, Chars, Delims, SP, CR, NUL, JUNK, SLASH

\* The screen is what the buffer holds.
LEMMA ScreenShown ==
    ASSUME NEW ks, NEW ln, NEW n, NEW pos, Shows(ks, ln, n, pos)
    PROVE  /\ ScreenOf(ks) \in Seq(Typed) /\ Len(ScreenOf(ks)) = n
           /\ \A k \in 1 .. n : ScreenOf(ks)[k] = ln[k - 1]
<1> DEFINE S == {j \in 1 .. Len(ks) : ShownIn(ks, j)}
           s == [k \in 1 .. n |-> ks[pos[k]]]
<1>1. /\ ks \in Seq(Keys) /\ n \in Nat /\ Len(ks) \in Nat /\ pos \in [1 .. n -> Nat]
      /\ \A k \in 1 .. n : pos[k] \in 1 .. Len(ks) /\ ShownIn(ks, pos[k]) /\ ln[k - 1] = ks[pos[k]]
  BY ShowsFacts
<1>2. Enumerates(pos, n, S)
  BY DEF Shows
<1>3. S \subseteq 1 .. Len(ks) /\ DOMAIN ks = 1 .. Len(ks)
  BY <1>1
<1>4. ScreenOf(ks) = LET p == Ascending(S, Len(ks)) IN [k \in DOMAIN p |-> ks[p[k]]]
  BY <1>3 DEF ScreenOf
<1>5. Ascending(S, Len(ks)) = pos
  <2> HIDE DEF S
  <2> QED BY <1>1, <1>2, <1>3, AscendingIs
<1>6. ScreenOf(ks) = s
  BY <1>1, <1>4, <1>5
<1>7. \A k \in 1 .. n : ks[pos[k]] \in Typed
  <2> TAKE k \in 1 .. n
  <2>1. ks[pos[k]] \in Keys /\ ks[pos[k]] \notin {DEL, NUL}
    BY <1>1 DEF ShownIn
  <2> QED BY <2>1 DEF Keys, Typed, Delims
<1>8. s \in [1 .. n -> Typed]
  BY <1>7
<1>9. s \in Seq(Typed) /\ Len(s) = n
  <2> HIDE DEF s
  <2> QED BY <1>1, <1>8
<1> QED BY <1>1, <1>6, <1>9

-----------------------------------------------------------------------------
(* The words of the line. *)

\* Until() stops at the end of the string at the latest.
LEMMA UntilFacts ==
    ASSUME NEW n \in Buffer, line[n] = NUL, NEW p \in 0 .. n, NEW S, NEW u, u = Until(p, S)
    PROVE  /\ u \in p .. n /\ line[u] \in S \cup {NUL}
           /\ \A q \in p .. u - 1 : line[q] \notin S \cup {NUL}
<1> DEFINE T == {q \in p .. MaxLine - 1 : line[q] \in S \cup {NUL}} \cup {MaxLine - 1}
<1>1. MaxLine \in Nat /\ MaxLine >= 2 /\ n \in 0 .. MaxLine - 1
  BY LineAssumption DEF Buffer
<1>2. T \subseteq Nat /\ T # {} /\ n \in T
  BY <1>1
<1>3. u = Least(T)
  BY DEF Until
<1>4. \A x \in T : x = MaxLine - 1 \/ (x \in p .. MaxLine - 1 /\ line[x] \in S \cup {NUL})
  OBVIOUS
<1>5. \A q \in p .. MaxLine - 1 : line[q] \in S \cup {NUL} => q \in T
  OBVIOUS
<1> HIDE DEF T
<1>6. u \in T /\ \A y \in T : u <= y
  BY <1>2, <1>3, LeastExists
<1>7. u \in Nat /\ u <= n
  BY <1>2, <1>6
<1>8. u \in p .. n
  BY <1>1, <1>4, <1>6, <1>7
<1>9. line[u] \in S \cup {NUL}
  <2>1. CASE u = MaxLine - 1
    <3>1. u = n
      BY <1>1, <1>7, <2>1
    <3> QED BY <3>1
  <2>2. CASE u # MaxLine - 1
    BY <1>4, <1>6, <2>2
  <2> QED BY <2>1, <2>2
<1>10. ASSUME NEW q \in p .. u - 1, line[q] \in S \cup {NUL} PROVE FALSE
  <2>1. q \in p .. MaxLine - 1 /\ q < u
    BY <1>1, <1>8, <1>10
  <2> QED BY <1>5, <1>6, <1>7, <1>10, <2>1
<1> QED BY <1>8, <1>9, <1>10

\* The word of s at place a of the buffer ends at place e, and ln holds it.
WordAt(s, ln, a, e) ==
    /\ a \in Nat /\ e \in Nat /\ a < e /\ e <= Len(s)
    /\ EndOfWord(s, a + 1) = e + 1
    /\ \A q \in a .. e - 1 : ln[q] = s[q + 1]
    /\ ln[e] = NUL

Starts(av) == [k \in 1 .. Len(av) |-> av[k] + 1]

\* av are the places of the words that begin before p.
Parsed(s, p, ln, av) ==
    /\ av \in Seq(Nat)
    /\ Enumerates(Starts(av), Len(av), {j \in 1 .. p : Begins(s, j)})
    /\ \A k \in 1 .. Len(av) : \E e \in 0 .. p : WordAt(s, ln, av[k], e)

\* strtok() goes on at l; the rest of the line is as it was typed.
Parsing(s, ln, l, av) ==
    /\ s \in Seq(Typed) /\ Len(s) \in Buffer /\ ln \in [Buffer -> Chars] /\ ln[Len(s)] = NUL
    /\ l \in 0 .. Len(s) \cup {END}
    /\ l # END => /\ \A q \in l .. Len(s) - 1 : ln[q] = s[q + 1]
                  /\ l > 0 => s[l] \in Delims
    /\ Parsed(s, IF l = END THEN Len(s) ELSE l, ln, av)

\* Where a word ends.
LEMMA WordEnds ==
    ASSUME NEW s \in Seq(Typed), NEW a \in Nat, NEW e \in Nat, a < e, e <= Len(s),
           \A q \in a .. e - 1 : s[q + 1] \notin Delims, e < Len(s) => s[e + 1] \in Delims
    PROVE  EndOfWord(s, a + 1) = e + 1
<1> DEFINE j == a + 1
           x == e + 1
           T == {y \in j + 1 .. Len(s) + 1 : y > Len(s) \/ ~InWord(s, y)}
<1>1. Len(s) \in Nat /\ j \in Nat /\ x \in j + 1 .. Len(s) + 1 /\ T \subseteq Int
  OBVIOUS
<1>2. x \in T
  <2>1. x > Len(s) \/ s[x] \in Delims
    BY <1>1
  <2> QED BY <1>1, <2>1 DEF InWord
<1>3. ASSUME NEW y \in T PROVE x <= y
  <2> SUFFICES ASSUME y < x PROVE FALSE
    BY <1>1
  <2>1. y \in j + 1 .. Len(s) + 1 /\ y - 1 \in a .. e - 1 /\ y <= Len(s) /\ (y - 1) + 1 = y
    BY <1>1
  <2>2. s[y] \notin Delims
    BY <2>1
  <2> QED BY <1>1, <2>1, <2>2 DEF InWord
<1> HIDE DEF T
<1>4. Least(T) = x
  BY <1>1, <1>2, <1>3, LeastIs
<1> QED BY <1>4 DEF EndOfWord, T

\* A place more.
LEMMA StartsMore ==
    ASSUME NEW av \in Seq(Nat), NEW b \in Nat, NEW S, Enumerates(Starts(av), Len(av), S),
           \A j \in S : j < b + 1
    PROVE  Enumerates(Starts(Append(av, b)), Len(Append(av, b)), S \cup {b + 1})
<1> DEFINE t == Append(av, b)
           m == Len(av)
           r == Starts(t)
<1>1. m \in Nat /\ t \in Seq(Nat) /\ Len(t) = m + 1 /\ t[m + 1] = b /\ \A k \in 1 .. m : t[k] = av[k]
  OBVIOUS
<1>2. /\ \A k \in 1 .. m : Starts(av)[k] = av[k] + 1 /\ av[k] \in Nat
      /\ \A j, k \in 1 .. m : j < k => av[j] + 1 < av[k] + 1
      /\ S = {Starts(av)[k] : k \in 1 .. m}
  <2>1. \A k \in 1 .. m : Starts(av)[k] = av[k] + 1 /\ av[k] \in Nat
    BY <1>1 DEF Starts
  <2> DEFINE v == Starts(av)
  <2>2. (\A j, k \in 1 .. m : j < k => v[j] < v[k]) /\ S = {v[k] : k \in 1 .. m}
    <3> HIDE DEF v, m
    <3>1. Enumerates(v, m, S)
      BY DEF v, m
    <3> QED BY <3>1 DEF Enumerates
  <2> HIDE DEF m
  <2>3. \A j, k \in 1 .. m : j < k => av[j] + 1 < av[k] + 1
    BY <2>1, <2>2
  <2> QED BY <2>1, <2>2, <2>3
<1>3. S = {av[k] + 1 : k \in 1 .. m}
  BY <1>2
<1> HIDE DEF t, m
<1>4. r \in [1 .. m + 1 -> Nat] /\ \A k \in 1 .. m + 1 : r[k] = t[k] + 1
  BY <1>1 DEF Starts
<1> HIDE DEF r
<1>5. \A k \in 1 .. m + 1 : k = m + 1 \/ k \in 1 .. m
  BY <1>1
<1>6. /\ r[m + 1] = b + 1 /\ \A k \in 1 .. m : r[k] = av[k] + 1 /\ r[k] \in S /\ r[k] < b + 1
  BY <1>1, <1>3, <1>4
<1>7. \A j, k \in 1 .. m + 1 : j < k => r[j] < r[k]
  <2> SUFFICES ASSUME NEW j \in 1 .. m + 1, NEW k \in 1 .. m + 1, j < k PROVE r[j] < r[k]
    OBVIOUS
  <2>1. j \in 1 .. m
    BY <1>1
  <2>2. CASE k = m + 1
    BY <1>6, <2>1, <2>2
  <2>3. CASE k \in 1 .. m
    BY <1>2, <1>6, <2>1, <2>3
  <2> QED BY <1>5, <2>2, <2>3
<1>8. S \cup {b + 1} = {r[k] : k \in 1 .. m + 1}
  <2>1. \A y \in S : \E k \in 1 .. m + 1 : y = r[k]
    <3> TAKE y \in S
    <3>1. PICK k \in 1 .. m : y = av[k] + 1
      BY <1>3
    <3>2. k \in 1 .. m + 1 /\ y = r[k]
      BY <1>1, <1>6, <3>1
    <3> QED BY <3>2
  <2>2. m + 1 \in 1 .. m + 1
    BY <1>1
  <2>3. \A k \in 1 .. m + 1 : r[k] \in S \cup {b + 1}
    BY <1>5, <1>6
  <2> QED BY <1>6, <2>1, <2>2, <2>3
<1>9. Enumerates(r, m + 1, S \cup {b + 1})
  <2> DEFINE M == m + 1
             U == S \cup {b + 1}
  <2>1. /\ M \in Nat /\ r \in [1 .. M -> Nat] /\ U = {r[k] : k \in 1 .. M}
        /\ \A j, k \in 1 .. M : j < k => r[j] < r[k]
    BY <1>1, <1>4, <1>7, <1>8
  <2> HIDE DEF M, U
  <2>2. Enumerates(r, M, U)
    BY <2>1 DEF Enumerates
  <2> QED BY <2>2 DEF M, U
<1> QED BY <1>1, <1>9 DEF r, t

\* strtok() finds a word: it is the next one, and the words before it stay whole.
LEMMA TokenStep ==
    ASSUME NEW s, Parsing(s, line, last, argv), Token
    PROVE  Parsing(s, line', last', argv')
<1> DEFINE n == Len(s)
           b == Until(last, Letters \cup {JUNK})
           e == Until(b, Delims)
           l2 == IF line[e] \in Delims THEN e + 1 ELSE END
           p2 == IF l2 = END THEN n ELSE l2
           S == {j \in 1 .. last : Begins(s, j)}
<1>1. /\ s \in Seq(Typed) /\ n \in Nat /\ n \in Buffer /\ line \in [Buffer -> Chars] /\ line[n] = NUL
      /\ last \in 0 .. n /\ last # END
      /\ \A q \in last .. n - 1 : line[q] = s[q + 1]
      /\ last > 0 => s[last] \in Delims
      /\ Parsed(s, last, line, argv)
  BY DEF Parsing, Token, END
<1>2. /\ line[b] # NUL /\ argv' = Append(argv, b)
      /\ IF line[e] \in Delims THEN line' = [line EXCEPT ![e] = NUL] /\ last' = e + 1
                               ELSE last' = END /\ line' = line
  BY DEF Token
<1> HIDE DEF n
<1>3. /\ b \in last .. n /\ line[b] \in (Letters \cup {JUNK}) \cup {NUL}
      /\ \A q \in last .. b - 1 : line[q] \notin (Letters \cup {JUNK}) \cup {NUL}
  BY <1>1, UntilFacts
<1> HIDE DEF b
<1>4. b \in Nat /\ b < n /\ line[b] = s[b + 1] /\ b \in 0 .. n /\ last <= b
  <2>1. b # n
    BY <1>1, <1>2
  <2>2. b \in last .. n - 1
    BY <1>1, <1>3, <2>1
  <2> QED BY <1>1, <2>2
<1>5. \A j \in 1 .. n : s[j] \in Typed
  BY <1>1 DEF n
<1>6. s[b + 1] \notin Delims
  <2>1. b + 1 \in 1 .. n
    BY <1>1, <1>4
  <2>2. s[b + 1] \in (Letters \cup {JUNK}) \cup {NUL} /\ s[b + 1] \in Typed
    BY <1>3, <1>4, <1>5, <2>1
  <2> QED BY <2>2, TypedFacts
<1>7. \A q \in last .. b - 1 : s[q + 1] \in Delims
  <2> TAKE q \in last .. b - 1
  <2>1. q \in last .. n - 1 /\ q + 1 \in 1 .. n
    BY <1>1, <1>4
  <2>2. s[q + 1] \in Typed /\ s[q + 1] \notin Letters \cup {JUNK, NUL}
    BY <1>1, <1>3, <1>5, <2>1
  <2> QED BY <2>2, TypedFacts
<1>8. /\ e \in b .. n /\ line[e] \in Delims \cup {NUL}
      /\ \A q \in b .. e - 1 : line[q] \notin Delims \cup {NUL}
  BY <1>1, <1>4, UntilFacts
<1> HIDE DEF e
<1>9. e \in Nat /\ b < e /\ e <= n
  <2>1. e # b
    BY <1>2, <1>4, <1>6, <1>8
  <2> QED BY <1>1, <1>4, <1>8, <2>1
<1>10. \A q \in b .. e - 1 : s[q + 1] \notin Delims
  <2> TAKE q \in b .. e - 1
  <2>1. q \in last .. n - 1
    BY <1>1, <1>4, <1>9
  <2> QED BY <1>1, <1>8, <2>1
<1>11. IF line[e] \in Delims THEN e < n /\ s[e + 1] \in Delims ELSE e = n
  <2>1. CASE e = n
    <3>1. line[e] = NUL /\ NUL \notin Delims
      BY <1>1, <2>1 DEF Delims, NUL, SP, CR
    <3> QED BY <2>1, <3>1
  <2>2. CASE e # n
    <3>1. e \in last .. n - 1 /\ e < n /\ e + 1 \in 1 .. n
      BY <1>1, <1>4, <1>9, <2>2
    <3>2. line[e] = s[e + 1] /\ s[e + 1] \in Typed
      BY <1>1, <1>5, <3>1
    <3>3. line[e] \in Delims
      BY <1>8, <3>2, TypedFacts
    <3> QED BY <3>1, <3>2, <3>3
  <2> QED BY <2>1, <2>2
<1>12. EndOfWord(s, b + 1) = e + 1
  <2>1. s \in Seq(Typed) /\ b \in Nat /\ e \in Nat /\ b < e /\ e <= Len(s)
    BY <1>1, <1>4, <1>9 DEF n
  <2>2. e < Len(s) => s[e + 1] \in Delims
    BY <1>9, <1>11 DEF n
  <2> QED BY <1>10, <2>1, <2>2, WordEnds, Zenon
<1>13. /\ l2 \in 0 .. n \cup {END} /\ p2 \in Nat /\ e <= p2 /\ p2 <= n /\ last <= p2
       /\ last' = l2 /\ (l2 # END => p2 = l2 /\ l2 = e + 1 /\ e < n /\ s[e + 1] \in Delims)
       /\ p2 = IF e = n THEN n ELSE e + 1
  <2>1. CASE line[e] \in Delims
    <3>1. l2 = e + 1 /\ e < n /\ s[e + 1] \in Delims /\ last' = e + 1
      BY <1>2, <1>11, <2>1
    <3>2. l2 # END /\ e # n
      BY <1>1, <1>9, <3>1 DEF END
    <3>3. p2 = e + 1
      BY <3>1, <3>2
    <3> HIDE DEF l2, p2
    <3> QED BY <1>1, <1>4, <1>9, <3>1, <3>2, <3>3
  <2>2. CASE line[e] \notin Delims
    <3>1. l2 = END /\ e = n /\ last' = END
      BY <1>2, <1>11, <2>2
    <3>2. p2 = n
      BY <3>1
    <3> HIDE DEF l2, p2
    <3> QED BY <1>1, <1>4, <1>9, <3>1, <3>2
  <2> QED BY <2>1, <2>2
<1>14. p2 = IF last' = END THEN n ELSE last'
  BY <1>13
<1>15. line' \in [Buffer -> Chars] /\ line'[e] = NUL /\ \A q \in Buffer : q # e => line'[q] = line[q]
  <2>1. e \in Buffer /\ NUL \in Chars
    BY <1>1, <1>9, LineAssumption DEF Buffer, Chars
  <2>2. CASE line[e] \in Delims
    BY <1>1, <1>2, <2>1, <2>2
  <2>3. CASE line[e] \notin Delims
    BY <1>1, <1>2, <1>8, <2>3
  <2> QED BY <2>2, <2>3
<1> HIDE DEF l2, p2
<1>16. line'[n] = NUL
  BY <1>1, <1>15
<1>17. n \in Nat /\ \A q \in 0 .. n : q \in Buffer
  BY <1>1, LineAssumption DEF Buffer
<1>18. ASSUME l2 # END
       PROVE  /\ \A q \in l2 .. n - 1 : line'[q] = s[q + 1]
              /\ l2 > 0 => s[l2] \in Delims
  <2>1. l2 = e + 1 /\ s[e + 1] \in Delims
    BY <1>13, <1>18
  <2>2. ASSUME NEW q \in l2 .. n - 1 PROVE line'[q] = s[q + 1]
    <3>1. q \in last .. n - 1 /\ q \in 0 .. n /\ q # e
      BY <1>1, <1>4, <1>9, <2>1
    <3> QED BY <1>1, <1>15, <1>17, <3>1
  <2> QED BY <2>1, <2>2
<1>19. /\ argv \in Seq(Nat) /\ Enumerates(Starts(argv), Len(argv), S)
       /\ \A k \in 1 .. Len(argv) : \E x \in 0 .. last : WordAt(s, line, argv[k], x)
  BY <1>1 DEF Parsed
<1>20. {j \in 1 .. p2 : Begins(s, j)} = S \cup {b + 1}
  <2>1. \A j \in S : j \in 1 .. p2 /\ Begins(s, j)
    BY <1>1, <1>13
  <2>2. b + 1 \in 1 .. p2 /\ Begins(s, b + 1)
    <3>1. b + 1 \in 1 .. p2
      BY <1>4, <1>9, <1>13
    <3>2. b + 1 = 1 \/ s[b] \in Delims
      <4>1. CASE b = last
        BY <1>1, <1>4, <4>1
      <4>2. CASE b # last
        <5>1. b - 1 \in last .. b - 1 /\ (b - 1) + 1 = b
          BY <1>1, <1>4, <4>2
        <5> QED BY <1>7, <5>1
      <4> QED BY <4>1, <4>2
    <3>3. (b + 1) - 1 = b
      BY <1>4
    <3> QED BY <1>6, <3>1, <3>2, <3>3 DEF Begins, InWord
  <2>3. ASSUME NEW j \in 1 .. p2, Begins(s, j) PROVE j \in S \cup {b + 1}
    <3>1. CASE j <= last
      BY <1>1, <2>3, <3>1
    <3>2. CASE last < j /\ j <= b
      <4>1. j - 1 \in last .. b - 1 /\ (j - 1) + 1 = j
        BY <1>1, <1>4, <1>13, <3>2
      <4> QED BY <1>7, <2>3, <4>1 DEF Begins, InWord
    <3>3. CASE b + 1 < j /\ j <= e
      <4>1. j - 2 \in b .. e - 1 /\ (j - 2) + 1 = j - 1 /\ j # 1
        BY <1>4, <1>9, <1>13, <3>3
      <4>2. s[j - 1] \notin Delims
        BY <1>10, <4>1
      <4> QED BY <2>3, <4>1, <4>2 DEF Begins, InWord
    <3>4. CASE e < j
      <4>1. j = e + 1 /\ e # n
        BY <1>1, <1>9, <1>13, <3>4
      <4>2. s[e + 1] \in Delims
        BY <1>11, <4>1
      <4> QED BY <2>3, <4>1, <4>2 DEF Begins, InWord
    <3> QED BY <1>1, <1>4, <1>9, <1>13, <3>1, <3>2, <3>3, <3>4
  <2> HIDE DEF S
  <2> QED BY <2>1, <2>2, <2>3
<1>21. \A j \in S : j < b + 1
  BY <1>1, <1>4
<1> HIDE DEF S
<1>22. Enumerates(Starts(argv'), Len(argv'), {j \in 1 .. p2 : Begins(s, j)}) /\ argv' \in Seq(Nat)
  BY <1>2, <1>4, <1>19, <1>20, <1>21, StartsMore
<1>23. ASSUME NEW k \in 1 .. Len(argv') PROVE \E x \in 0 .. p2 : WordAt(s, line', argv'[k], x)
  <2>1. Len(argv) \in Nat /\ Len(argv') = Len(argv) + 1 /\ argv'[Len(argv) + 1] = b
        /\ \A y \in 1 .. Len(argv) : argv'[y] = argv[y]
    BY <1>2, <1>4, <1>19
  <2>2. CASE k = Len(argv) + 1
    <3>1. \A q \in b .. e - 1 : line'[q] = s[q + 1]
      <4> TAKE q \in b .. e - 1
      <4>1. q \in last .. n - 1 /\ q \in 0 .. n /\ q # e
        BY <1>1, <1>4, <1>9
      <4> QED BY <1>1, <1>15, <1>17, <4>1
    <3>2. WordAt(s, line', b, e)
      BY <1>4, <1>9, <1>12, <1>15, <3>1 DEF WordAt, n
    <3>3. e \in 0 .. p2
      BY <1>9, <1>13
    <3> QED BY <2>1, <2>2, <3>2, <3>3
  <2>3. CASE k # Len(argv) + 1
    <3>1. k \in 1 .. Len(argv) /\ argv'[k] = argv[k]
      BY <2>1, <2>3
    <3>2. PICK x \in 0 .. last : WordAt(s, line, argv[k], x)
      BY <1>19, <3>1
    <3> DEFINE w == argv[k]
    <3>3. /\ w \in Nat /\ x \in Nat /\ w < x /\ x <= n /\ EndOfWord(s, w + 1) = x + 1
          /\ \A q \in w .. x - 1 : line[q] = s[q + 1]
          /\ line[x] = NUL
      BY <3>2 DEF WordAt, n
    <3> HIDE DEF w
    <3>4. x \in 0 .. n /\ x # e
      BY <1>1, <1>4, <1>9, <3>3
    <3>5. \A q \in w .. x - 1 : line'[q] = s[q + 1]
      <4> TAKE q \in w .. x - 1
      <4>1. q \in 0 .. n /\ q # e
        BY <1>1, <1>4, <1>9, <3>3
      <4> QED BY <1>15, <1>17, <3>3, <4>1
    <3>6. WordAt(s, line', w, x)
      BY <1>15, <1>17, <3>3, <3>4, <3>5 DEF WordAt, n
    <3>7. x \in 0 .. p2
      BY <1>1, <1>13, <3>3
    <3> QED BY <3>1, <3>6, <3>7 DEF w
  <2> QED BY <2>2, <2>3
<1>24. Parsed(s, p2, line', argv')
  BY <1>22, <1>23 DEF Parsed
<1> QED BY <1>1, <1>13, <1>14, <1>15, <1>16, <1>18, <1>24 DEF Parsing, n

\* A string of the line.
LEMMA LineStringIs ==
    ASSUME NEW p \in Nat, NEW s \in Seq(Text), p + Len(s) < MaxLine,
           \A k \in 1 .. Len(s) : line[p + k - 1] = s[k], line[p + Len(s)] = NUL
    PROVE  LineString(p) = s
<1>1. MaxLine \in Nat
  BY LineAssumption
<1>2. [k \in 1 .. EndIn(line, MaxLine, p) - p |-> line[p + k - 1]] = s
  BY <1>1, StringIn
<1> QED BY <1>2 DEF LineString, EndIn

\* A sequence over a set is one over a larger set.
LEMMA SeqMono ==
    ASSUME NEW A, NEW B, A \subseteq B, NEW s \in Seq(A)
    PROVE  s \in Seq(B)
  OBVIOUS

\* A word of the line.
LEMMA WordIs ==
    ASSUME NEW s \in Seq(Typed), Len(s) \in Buffer, NEW a, NEW e, WordAt(s, line, a, e),
           NEW w, w = SubSeq(s, a + 1, EndOfWord(s, a + 1) - 1)
    PROVE  w \in Seq(Text) /\ w # <<>> /\ LineString(a) = w
<1>1. /\ a \in Nat /\ e \in Nat /\ a < e /\ e <= Len(s) /\ EndOfWord(s, a + 1) = e + 1
      /\ \A q \in a .. e - 1 : line[q] = s[q + 1]
      /\ line[e] = NUL
  BY DEF WordAt
<1>2. Len(s) \in Nat /\ MaxLine \in Nat /\ Len(s) < MaxLine
  BY LineAssumption DEF Buffer
<1>3. w = SubSeq(s, a + 1, e)
  BY <1>1
<1>4. Typed \subseteq Text
  BY TypedFacts
<1>5. s \in Seq(Text)
  BY <1>4, SeqMono
<1>6. w \in Seq(Text) /\ Len(w) = e - a /\ \A k \in 1 .. e - a : w[k] = s[a + k]
  <2>1. a + 1 \in 1 .. Len(s) + 1 /\ e \in a .. Len(s) /\ a + 1 <= e + 1
    BY <1>1, <1>2
  <2> QED BY <1>1, <1>3, <1>5, <2>1
<1>7. w # <<>>
  <2>1. Len(w) # 0
    BY <1>1, <1>6
  <2> QED BY <2>1
<1>8. ASSUME NEW k \in 1 .. Len(w) PROVE line[a + k - 1] = w[k]
  <2>1. k \in 1 .. e - a
    BY <1>6
  <2>2. a + k - 1 \in a .. e - 1 /\ (a + k - 1) + 1 = a + k
    BY <1>1, <2>1
  <2> QED BY <1>1, <1>6, <2>1, <2>2
<1>9. a + Len(w) = e /\ e < MaxLine
  BY <1>1, <1>2, <1>6
<1> QED BY <1>1, <1>6, <1>7, <1>8, <1>9, LineStringIs

\* strtok() returns NULL: the arguments are the words of the line.
LEMMA ParseEnds ==
    ASSUME NEW s, Parsing(s, line, last, argv), NoToken
    PROVE  /\ [k \in DOMAIN argv |-> LineString(argv[k])] = Words(s)
           /\ Words(s) \in Seq(Seq(Text)) /\ Len(Words(s)) = Len(argv)
           /\ \A k \in 1 .. Len(argv) : Words(s)[k] # <<>>
<1> DEFINE n == Len(s)
           m == Len(argv)
           r == Starts(argv)
           p == IF last = END THEN n ELSE last
           All == {j \in 1 .. n : Begins(s, j)}
<1>1. /\ s \in Seq(Typed) /\ n \in Nat /\ n \in Buffer /\ line[n] = NUL
      /\ p \in 0 .. n
      /\ last # END => last = p /\ \A q \in p .. n - 1 : line[q] = s[q + 1]
      /\ Parsed(s, p, line, argv)
  BY DEF Parsing
<1>2. last = END => p = n
  OBVIOUS
<1>3. /\ argv \in Seq(Nat) /\ m \in Nat /\ DOMAIN argv = 1 .. m
      /\ Enumerates(r, m, {j \in 1 .. p : Begins(s, j)})
      /\ \A k \in 1 .. m : \E e \in 0 .. p : WordAt(s, line, argv[k], e)
  BY <1>1 DEF Parsed
<1> HIDE DEF n, m, p
<1>4. \A j \in 1 .. n : s[j] \in Typed
  BY <1>1 DEF n
<1>5. ASSUME NEW j \in 1 .. n, p < j PROVE s[j] \in Delims
  <2>1. last # END /\ last = p /\ p \in 0 .. n
    BY <1>1, <1>2, <1>5
  <2> DEFINE u == Until(p, Letters \cup {JUNK})
  <2>2. /\ u \in p .. n
        /\ \A q \in p .. u - 1 : line[q] \notin (Letters \cup {JUNK}) \cup {NUL}
    BY <1>1, <2>1, UntilFacts
  <2>3. line[u] = NUL
    BY <2>1 DEF NoToken
  <2> HIDE DEF u
  <2>4. u = n
    <3> SUFFICES ASSUME u # n PROVE FALSE
      OBVIOUS
    <3>1. u \in p .. n - 1 /\ u + 1 \in 1 .. n
      BY <1>1, <2>2
    <3>2. s[u + 1] = NUL /\ s[u + 1] \in Typed
      BY <1>1, <1>4, <2>1, <2>3, <3>1
    <3> QED BY <3>2, TypedFacts
  <2>5. j - 1 \in p .. u - 1 /\ j - 1 \in p .. n - 1 /\ (j - 1) + 1 = j
    BY <1>1, <1>5, <2>4
  <2>6. s[j] \notin Letters \cup {JUNK, NUL} /\ s[j] \in Typed
    BY <1>1, <1>4, <2>1, <2>2, <2>5
  <2> QED BY <2>6, TypedFacts
<1>6. {j \in 1 .. p : Begins(s, j)} = All
  <2>1. \A j \in 1 .. n : Begins(s, j) => j \in 1 .. p
    BY <1>1, <1>5 DEF Begins, InWord
  <2>2. \A j \in 1 .. p : j \in 1 .. n
    BY <1>1
  <2> QED BY <2>1, <2>2
<1>7. Ascending(All, n) = r
  <2>1. Enumerates(r, m, All) /\ All \subseteq 1 .. n
    BY <1>3, <1>6
  <2> HIDE DEF All, r
  <2> QED BY <1>1, <2>1, AscendingIs
<1>8. DOMAIN s = 1 .. n
  BY <1>1 DEF n
<1>9. DOMAIN r = 1 .. m /\ \A k \in 1 .. m : r[k] = argv[k] + 1
  BY <1>3 DEF Starts, m
<1>10. Words(s) = [k \in DOMAIN r |-> SubSeq(s, r[k], EndOfWord(s, r[k]) - 1)]
  <2>1. Words(s) = LET pos == Ascending(All, n)
                   IN  [k \in DOMAIN pos |-> SubSeq(s, pos[k], EndOfWord(s, pos[k]) - 1)]
    BY <1>8 DEF Words, n
  <2> HIDE DEF All, r
  <2> QED BY <1>7, <2>1
<1> HIDE DEF r, All
<1>11. ASSUME NEW k \in 1 .. m
       PROVE  /\ SubSeq(s, r[k], EndOfWord(s, r[k]) - 1) \in Seq(Text)
              /\ SubSeq(s, r[k], EndOfWord(s, r[k]) - 1) # <<>>
              /\ LineString(argv[k]) = SubSeq(s, r[k], EndOfWord(s, r[k]) - 1)
  <2> DEFINE a == argv[k]
             w == SubSeq(s, a + 1, EndOfWord(s, a + 1) - 1)
  <2>1. PICK e \in 0 .. p : WordAt(s, line, a, e)
    BY <1>3
  <2>2. w = SubSeq(s, r[k], EndOfWord(s, r[k]) - 1)
    BY <1>9
  <2>3. w = SubSeq(s, a + 1, EndOfWord(s, a + 1) - 1) /\ Len(s) \in Buffer
    BY <1>1 DEF n
  <2> HIDE DEF a, w
  <2>4. w \in Seq(Text) /\ w # <<>> /\ LineString(a) = w
    BY <1>1, <2>1, <2>3, WordIs
  <2> QED BY <2>2, <2>4 DEF a
<1> DEFINE W == Words(s)
<1>12. /\ W = [k \in 1 .. m |-> LineString(argv[k])]
       /\ \A k \in 1 .. m : W[k] \in Seq(Text) /\ W[k] # <<>>
  BY <1>9, <1>10, <1>11
<1> HIDE DEF W
<1>13. W \in Seq(Seq(Text)) /\ Len(W) = m
  BY <1>3, <1>12
<1> QED BY <1>3, <1>12, <1>13 DEF W, m

\* Before the first token the buffer holds what is on the screen.
LEMMA WholeLine ==
    ASSUME NEW s, Parsing(s, line, 0, argv)
    PROVE  LineString(0) = s
<1>1. /\ s \in Seq(Typed) /\ Len(s) \in Nat /\ Len(s) \in Buffer /\ line[Len(s)] = NUL
      /\ \A q \in 0 .. Len(s) - 1 : line[q] = s[q + 1]
  BY DEF Parsing, END
<1>2. s \in Seq(Text) /\ Len(s) < MaxLine /\ MaxLine \in Nat
  BY <1>1, TypedFacts, SeqMono, LineAssumption DEF Buffer
<1>3. ASSUME NEW k \in 1 .. Len(s) PROVE line[0 + k - 1] = s[k]
  <2>1. k - 1 \in 0 .. Len(s) - 1 /\ (k - 1) + 1 = k /\ 0 + k - 1 = k - 1
    BY <1>1
  <2> QED BY <1>1, <2>1
<1>4. 0 + Len(s) = Len(s) /\ 0 \in Nat
  BY <1>1
<1> QED BY <1>1, <1>2, <1>3, <1>4, LineStringIs

\* read_until() has returned a line.
LEMMA ParseBegins ==
    ASSUME NEW ks, NEW ln \in [Buffer -> Chars], NEW n \in Buffer, NEW pos,
           Shows(ks, ln, n, pos), ln[n] = NUL
    PROVE  Parsing(ScreenOf(ks), ln, 0, <<>>)
<1> DEFINE s == ScreenOf(ks)
<1>1. s \in Seq(Typed) /\ Len(s) = n /\ \A k \in 1 .. n : s[k] = ln[k - 1]
  BY ScreenShown
<1> HIDE DEF s
<1>2. n \in Nat
  BY LineAssumption DEF Buffer
<1>3. \A q \in 0 .. n - 1 : ln[q] = s[q + 1]
  <2> TAKE q \in 0 .. n - 1
  <2>1. q + 1 \in 1 .. n /\ (q + 1) - 1 = q
    BY <1>2
  <2> QED BY <1>1, <2>1
<1>4. Parsed(s, 0, ln, <<>>)
  <2>1. <<>> \in Seq(Nat) /\ Len(<<>>) = 0 /\ 1 .. 0 = {}
    OBVIOUS
  <2> DEFINE r == Starts(<<>>)
             E == {j \in 1 .. 0 : Begins(s, j)}
  <2>2. r \in [1 .. 0 -> Nat] /\ E = {}
    BY <2>1 DEF Starts
  <2> HIDE DEF r, E
  <2>3. Enumerates(r, 0, E)
    BY <2>1, <2>2 DEF Enumerates
  <2> QED BY <2>1, <2>3 DEF Parsed, r, E
<1>5. 0 \in 0 .. n /\ 0 # END
  BY <1>2 DEF END
<1>6. Parsing(s, ln, 0, <<>>)
  BY <1>1, <1>3, <1>4, <1>5 DEF Parsing
<1> QED BY <1>6 DEF s

-----------------------------------------------------------------------------
(* The invariant of Exec. *)

\* Every segment of the program is in the image.
LoadedAll(name, im) ==
    \A k \in DOMAIN Files[name] :
        Exact(Files[name][k], Files[name][k].va + Files[name][k].memsz, im)

\* What main() is called with, if the first argument is not empty.
Started(g, mn) ==
    (g.argv # <<>> /\ g.argv[1] # <<>>) =>
        /\ mn.inside
        /\ g.envp = <<>> => mn.argv = IF Bytes(g) < PageSize THEN g.argv ELSE <<>>

ExecInv ==
    /\ phase \in Phases /\ shm \in [Page -> Chars] /\ sizes \in [argv : Nat, envp : Nat]
    /\ given \in Calls
    /\ phase # "user" => Laid(given, shm, sizes)
    /\ phase \in {"user", "exec"} => image = <<>>
    /\ phase \in {"load", "start", "main"} => StringAt(0) \in DOMAIN Files
    /\ phase = "load" => Loading(Files[given.name], todo, cursor, image)
    /\ phase \in {"start", "main"} => LoadedAll(given.name, image)
    /\ phase = "main" => Started(given, main) /\ TableEntries <= TableSize
    /\ phase = "overrun" => TableEntries > TableSize

\* The strings of the page stay where the page stays.
LEMMA PageKept ==
    ASSUME shm' = shm
    PROVE  StringAt(0)' = StringAt(0)
BY DEF StringAt, EndOfString

\* No call, and an empty page.
LEMMA IdleFacts ==
    /\ [name |-> <<>>, argv |-> <<>>, envp |-> <<>>] \in Calls
    /\ [p \in Page |-> JUNK] \in [Page -> Chars]
    /\ [argv |-> 0, envp |-> 0] \in [argv : Nat, envp : Nat]
<1>1. <<>> \in Seq(Text) /\ <<>> \in Seq(Seq(Text))
  OBVIOUS
<1>2. JUNK \in Chars
  BY DEF Chars
<1> QED BY <1>1, <1>2 DEF Calls

\* Initially.
LEMMA ExecInitInv ==
    ASSUME ExecInit
    PROVE  ExecInv
BY IdleFacts DEF ExecInit, ExecInv, Phases

\* When nothing happens.
LEMMA ExecStutters ==
    ASSUME ExecInv, UNCHANGED execVars
    PROVE  ExecInv'
<1>1. StringAt(0)' = StringAt(0)
  BY PageKept DEF execVars
<1>2. TableEntries' = TableEntries
  BY DEF execVars, TableEntries
<1> QED BY <1>1, <1>2 DEF ExecInv, execVars

\* exec().
LEMMA ExecCallInv ==
    ASSUME ExecInv, NEW g \in Calls, ExecCall(g)
    PROVE  ExecInv'
<1> DEFINE m == Packed(g)
<1>1. /\ phase = "user" /\ phase' = "exec" /\ given' = g /\ image' = image
      /\ shm' = m.page /\ sizes' = [argv |-> m.argv, envp |-> m.envp]
  BY DEF ExecCall
<1>2. Laid(g, m.page, [argv |-> m.argv, envp |-> m.envp])
  BY PackedFacts DEF ExecInv
<1> HIDE DEF m
<1>3. Laid(given', shm', sizes') /\ image' = <<>>
  BY <1>1, <1>2 DEF ExecInv
<1>4. shm' \in [Page -> Chars] /\ sizes' \in [argv : Nat, envp : Nat]
  BY <1>3 DEF Laid
<1> QED BY <1>1, <1>3, <1>4 DEF ExecInv, Phases

\* exec_process() up to load_elf().
LEMMA ExecProcessInv ==
    ASSUME ExecInv, ExecProcess
    PROVE  ExecInv'
<1>1. /\ phase = "exec" /\ given' = given /\ shm' = shm /\ sizes' = sizes /\ image' = image
      /\ IF StringAt(0) \in DOMAIN Files
         THEN todo' = Files[StringAt(0)] /\ cursor' = Begin(todo') /\ phase' = "load"
         ELSE phase' = "refused"
  BY DEF ExecProcess
<1>2. StringAt(0)' = StringAt(0)
  BY <1>1, PageKept
<1>3. /\ shm \in [Page -> Chars] /\ sizes \in [argv : Nat, envp : Nat] /\ given \in Calls
      /\ Laid(given, shm, sizes) /\ image = <<>>
  BY <1>1 DEF ExecInv
<1>4. CASE StringAt(0) \in DOMAIN Files
  <2>1. StringAt(0) = given.name
    BY <1>3, <1>4, NameFound
  <2> DEFINE f == Files[given.name]
  <2>2. todo' = f /\ cursor' = Begin(f) /\ phase' = "load" /\ given.name \in DOMAIN Files
    BY <1>1, <1>4, <2>1
  <2>3. DOMAIN image = {}
    BY <1>3
  <2>4. Loading(f, f, Begin(f), image)
    BY <2>2, <2>3, LoadBegins
  <2>5. Loading(Files[given.name]', todo', cursor', image')
    BY <1>1, <2>2, <2>4
  <2> HIDE DEF f
  <2> QED BY <1>1, <1>2, <1>3, <1>4, <2>2, <2>5 DEF ExecInv, Phases
<1>5. CASE StringAt(0) \notin DOMAIN Files
  BY <1>1, <1>3, <1>5 DEF ExecInv, Phases
<1> QED BY <1>4, <1>5

\* load_elf(), page by page.
LEMMA LoadPageInv ==
    ASSUME ExecInv, LoadPage
    PROVE  ExecInv'
<1>1. /\ phase = "load" /\ phase' = phase /\ given' = given /\ shm' = shm /\ sizes' = sizes
  BY DEF LoadPage
<1>2. StringAt(0)' = StringAt(0)
  BY <1>1, PageKept
<1>3. /\ shm \in [Page -> Chars] /\ sizes \in [argv : Nat, envp : Nat] /\ given \in Calls
      /\ Laid(given, shm, sizes) /\ StringAt(0) \in DOMAIN Files
      /\ Loading(Files[given.name], todo, cursor, image)
  BY <1>1 DEF ExecInv
<1>4. given.name \in DOMAIN Files
  BY <1>3, NameFound
<1> DEFINE f == Files[given.name]
           nm == given.name
<1>5. nm \in DOMAIN Files /\ f = Files[nm] /\ Loading(f, todo, cursor, image)
  BY <1>3, <1>4
<1> HIDE DEF f, nm
<1>6. Loading(f, todo', cursor', image')
  BY <1>5, LoadContinues
<1>7. Loading(Files[given.name]', todo', cursor', image')
  BY <1>1, <1>6 DEF f
<1> QED BY <1>1, <1>2, <1>3, <1>7 DEF ExecInv, Phases

\* load_elf() returns.
LEMMA LoadedInv ==
    ASSUME ExecInv, Loaded
    PROVE  ExecInv'
<1>1. /\ phase = "load" /\ phase' = "start" /\ given' = given /\ shm' = shm /\ sizes' = sizes
      /\ todo = <<>> /\ image' = image
  BY DEF Loaded
<1>2. StringAt(0)' = StringAt(0)
  BY <1>1, PageKept
<1>3. /\ shm \in [Page -> Chars] /\ sizes \in [argv : Nat, envp : Nat] /\ given \in Calls
      /\ Laid(given, shm, sizes) /\ StringAt(0) \in DOMAIN Files
      /\ Loading(Files[given.name], <<>>, cursor, image)
  BY <1>1 DEF ExecInv
<1>4. given.name \in DOMAIN Files
  BY <1>3, NameFound
<1> DEFINE f == Files[given.name]
           nm == given.name
<1>5. nm \in DOMAIN Files /\ f = Files[nm] /\ Loading(f, <<>>, cursor, image)
  BY <1>3, <1>4
<1>6. \A k \in DOMAIN f : Exact(f[k], f[k].va + f[k].memsz, image)
  <2> HIDE DEF f, nm
  <2> QED BY <1>5, LoadEnds
<1>7. LoadedAll(given.name, image)
  BY <1>6 DEF LoadedAll
<1> HIDE DEF f, nm
<1> QED BY <1>1, <1>2, <1>3, <1>7 DEF ExecInv, Phases

\* No page is left.
LEMMA ExecFailsInv ==
    ASSUME ExecInv, ExecFails
    PROVE  ExecInv'
BY DEF ExecInv, ExecFails, Phases

\* exec_process() from the copy of the page on.
LEMMA ExecStartInv ==
    ASSUME ExecInv, ExecStart
    PROVE  ExecInv'
<1>1. /\ phase = "start" /\ phase' = "main" /\ given' = given /\ shm' = shm /\ sizes' = sizes
      /\ image' = image /\ TableEntries <= TableSize
  BY DEF ExecStart
<1>2. StringAt(0)' = StringAt(0)
  BY <1>1, PageKept
<1>3. /\ shm \in [Page -> Chars] /\ sizes \in [argv : Nat, envp : Nat] /\ given \in Calls
      /\ Laid(given, shm, sizes) /\ StringAt(0) \in DOMAIN Files
      /\ LoadedAll(given.name, image)
  BY <1>1 DEF ExecInv
<1>4. Started(given, main')
  <2> SUFFICES ASSUME given.argv # <<>>, given.argv[1] # <<>>
               PROVE  /\ main'.inside
                      /\ given.envp = <<>> =>
                             main'.argv = IF Bytes(given) < PageSize THEN given.argv ELSE <<>>
    BY DEF Started
  <2> QED BY <1>3, StartFacts
<1>5. TableEntries' = TableEntries
  BY <1>1 DEF TableEntries
<1> QED BY <1>1, <1>2, <1>3, <1>4, <1>5 DEF ExecInv, Phases

\* The table of pointers leaves its page.
LEMMA ExecOverrunsInv ==
    ASSUME ExecInv, ExecOverruns
    PROVE  ExecInv'
<1>1. TableEntries' = TableEntries
  BY DEF ExecOverruns, TableEntries
<1> QED BY <1>1 DEF ExecInv, ExecOverruns, Phases

\* Every step of exec_process().
LEMMA ExecStepInv ==
    ASSUME ExecInv, ExecStep
    PROVE  ExecInv' /\ given' = given
<1>1. given' = given
  BY DEF ExecStep, ExecProcess, LoadPage, Loaded, ExecFails, ExecStart, ExecOverruns
<1>2. ExecInv'
  BY ExecProcessInv, LoadPageInv, LoadedInv, ExecFailsInv, ExecStartInv, ExecOverrunsInv
     DEF ExecStep
<1> QED BY <1>1, <1>2

\* The program is gone.
LEMMA ProgramEndsInv ==
    ASSUME ExecInv, ProgramEnds
    PROVE  ExecInv'
BY IdleFacts DEF ProgramEnds, ExecInv, Phases

-----------------------------------------------------------------------------
(* The invariant of Shell. *)

\* The arguments of a program started by the shell.
Ran(g, s) ==
    /\ g.argv = Words(s) /\ g.envp = <<>>
    /\ g.argv # <<>> /\ g.argv[1] # <<>>

ShellInv ==
    /\ pc \in {"read", "parse", "run", "exited", "off"}
    /\ line \in [Buffer -> Chars] /\ i \in Buffer /\ last \in Buffer \cup {END}
    /\ \A k \in DOMAIN argv : argv[k] \in Buffer
    /\ pc = "read" => Reads(keys, line, i) /\ argv = <<>>
    /\ pc = "parse" => /\ Parsing(ScreenOf(keys), line, last, argv)
                       /\ argv = <<>> => last = 0
    /\ pc = "run" => Ran(given, ScreenOf(keys))

IInv == ExecInv /\ ShellInv

\* No key has been pressed.
LEMMA NoKeys == Reads(<<>>, Stale, 0)
<1> DEFINE ks == <<>>
           pos == <<>>
<1>1. ks \in Seq(Keys) /\ Len(ks) = 0 /\ 1 .. 0 = {} /\ pos \in [1 .. 0 -> Nat]
  OBVIOUS
<1> HIDE DEF ks, pos
<1>2. {j \in 1 .. Len(ks) : ShownIn(ks, j)} = {}
  BY <1>1
<1>3. Enumerates(pos, 0, {})
  BY <1>1 DEF Enumerates
<1>4. Shows(ks, Stale, 0, pos)
  BY <1>1, <1>2, <1>3 DEF Shows
<1>5. Balanced(ks, 0, pos)
  BY <1>1 DEF Balanced
<1>6. Reads(ks, Stale, 0)
  BY <1>4, <1>5 DEF Reads
<1> QED BY <1>6 DEF ks

\* The prompt.
LEMMA PromptInv ==
    ASSUME Prompt
    PROVE  ShellInv'
<1>1. Stale \in [Buffer -> Chars] /\ 0 \in Buffer /\ DOMAIN <<>> = {}
  BY LineAssumption DEF Stale, Buffer, Chars
<1> HIDE DEF Stale
<1> QED BY <1>1, NoKeys DEF Prompt, ShellInv

\* Initially.
LEMMA InitInv ==
    ASSUME Init
    PROVE  IInv
<1>1. ExecInv
  BY ExecInitInv DEF Init
<1>2. Stale \in [Buffer -> Chars] /\ 0 \in Buffer /\ DOMAIN <<>> = {}
  BY LineAssumption DEF Stale, Buffer, Chars
<1>3. ShellInv
  BY <1>2, NoKeys DEF Init, ShellInv
<1> QED BY <1>1, <1>3 DEF IInv

\* The variables of the shell do not change.
LEMMA ShellStutters ==
    ASSUME ShellInv, UNCHANGED shellVars, pc = "run" => given' = given
    PROVE  ShellInv'
BY DEF ShellInv, shellVars

\* A parsed line has its places in the buffer.
LEMMA ParsingTypes ==
    ASSUME NEW s, NEW ln, NEW l, NEW av, Parsing(s, ln, l, av)
    PROVE  /\ ln \in [Buffer -> Chars] /\ l \in Buffer \cup {END}
           /\ av \in Seq(Nat) /\ \A k \in DOMAIN av : av[k] \in Buffer
<1> DEFINE p == IF l = END THEN Len(s) ELSE l
<1>1. /\ ln \in [Buffer -> Chars] /\ Len(s) \in Buffer /\ l \in 0 .. Len(s) \cup {END}
      /\ Parsed(s, p, ln, av)
  BY DEF Parsing
<1> HIDE DEF p
<1>2. /\ av \in Seq(Nat) /\ DOMAIN av = 1 .. Len(av)
      /\ \A k \in 1 .. Len(av) : \E e \in 0 .. p : WordAt(s, ln, av[k], e)
  BY <1>1 DEF Parsed
<1>3. \A q \in 0 .. Len(s) : q \in Buffer
  BY <1>1, LineAssumption DEF Buffer
<1>4. Len(s) \in Nat
  BY <1>1, LineAssumption DEF Buffer
<1>5. ASSUME NEW k \in 1 .. Len(av) PROVE av[k] \in Buffer
  <2> DEFINE a == av[k]
  <2>1. PICK e : WordAt(s, ln, a, e)
    BY <1>2
  <2>2. a \in Nat /\ e \in Nat /\ a < e /\ e <= Len(s)
    BY <2>1 DEF WordAt
  <2> HIDE DEF a
  <2>3. a \in 0 .. Len(s)
    BY <1>4, <2>2
  <2> QED BY <1>3, <2>3 DEF a
<1> QED BY <1>1, <1>2, <1>3, <1>5

\* read_until().
LEMMA ReadKeyInv ==
    ASSUME ShellInv, ReadKey
    PROVE  ShellInv'
<1>1. /\ pc = "read" /\ line \in [Buffer -> Chars] /\ i \in Buffer /\ last \in Buffer \cup {END}
      /\ Reads(keys, line, i) /\ argv = <<>> /\ argv' = <<>>
  BY DEF ShellInv, ReadKey
<1>2. PICK c \in Keys :
          /\ keys' = Append(keys, c)
          /\ CASE c = DEL -> Rubout /\ UNCHANGED <<pc, line, last>>
               [] c \in {CR, NUL} ->
                      /\ line' = [line EXCEPT ![i] = c, ![i + 1] = NUL]
                      /\ i' = i + 1
                      /\ pc' = "parse" /\ last' = 0
               [] OTHER ->
                      /\ line' = [line EXCEPT ![i] = c]
                      /\ i' = i + 1
                      /\ UNCHANGED <<pc, last>>
  BY DEF ReadKey
<1>3. /\ i \in Nat /\ i + 1 \in Buffer /\ 0 \in Buffer /\ i # i + 1
      /\ \A k \in 1 .. i : k - 1 \in Buffer /\ k - 1 # i /\ k - 1 # i + 1
  BY <1>1, LineAssumption DEF ReadKey, Room, Buffer
<1>4. DOMAIN argv' = {} /\ CR # DEL /\ NUL # DEL /\ CR # NUL
  BY <1>1 DEF CR, NUL, DEL
<1>5. CASE c = DEL
  <2>1. i' = (IF i > 0 THEN i - 1 ELSE i) /\ line' = line /\ pc' = pc /\ last' = last
    BY <1>2, <1>4, <1>5 DEF Rubout
  <2>2. i' \in Buffer
    BY <1>1, <1>3, <2>1 DEF Buffer
  <2>3. Reads(keys', line', i')
    BY <1>1, <1>2, <1>5, <2>1, TypeDel
  <2> QED BY <1>1, <1>4, <2>1, <2>2, <2>3 DEF ShellInv
<1>6. CASE c \in {CR, NUL}
  <2>1. /\ line' = [line EXCEPT ![i] = c, ![i + 1] = NUL] /\ i' = i + 1
        /\ pc' = "parse" /\ last' = 0
    BY <1>2, <1>4, <1>6
  <2>2. c \in Chars /\ NUL \in Chars
    BY <1>6 DEF Chars, Text
  <2>3. line' \in [Buffer -> Chars] /\ line'[i] = c /\ line'[i + 1] = NUL
        /\ \A k \in 1 .. i : line'[k - 1] = line[k - 1]
    BY <1>1, <1>3, <2>1, <2>2
  <2>4. Parsing(ScreenOf(keys'), line', 0, <<>>)
    <3>1. CASE c = CR
      <4>1. c \in Keys \ {DEL, NUL}
        BY <1>4, <3>1
      <4>2. Reads(keys', line', i + 1)
        BY <1>1, <1>2, <2>3, <4>1, TypeChar
      <4> DEFINE n == i + 1
      <4>3. Reads(keys', line', n) /\ n \in Buffer /\ line'[n] = NUL
        BY <1>3, <2>3, <4>2
      <4> HIDE DEF n
      <4>4. PICK pos : Shows(keys', line', n, pos)
        BY <4>3 DEF Reads
      <4> QED BY <2>3, <4>3, <4>4, ParseBegins
    <3>2. CASE c = NUL
      <4>1. PICK pos : Shows(keys', line', i, pos)
        BY <1>1, <1>2, <2>3, <3>2, TypeNul
      <4>2. line'[i] = NUL
        BY <2>3, <3>2
      <4> QED BY <1>1, <2>3, <4>1, <4>2, ParseBegins
    <3> QED BY <1>6, <3>1, <3>2
  <2> QED BY <1>1, <1>3, <1>4, <2>1, <2>3, <2>4 DEF ShellInv
<1>7. CASE c # DEL /\ c \notin {CR, NUL}
  <2>1. line' = [line EXCEPT ![i] = c] /\ i' = i + 1 /\ pc' = pc /\ last' = last
    BY <1>2, <1>7
  <2>2. c \in Chars /\ c \in Keys \ {DEL, NUL}
    BY <1>7 DEF Chars, Text, Keys
  <2>3. line' \in [Buffer -> Chars] /\ line'[i] = c
        /\ \A k \in 1 .. i : line'[k - 1] = line[k - 1]
    BY <1>1, <1>3, <2>1, <2>2
  <2>4. Reads(keys', line', i + 1)
    BY <1>1, <1>2, <2>2, <2>3, TypeChar
  <2> QED BY <1>1, <1>3, <1>4, <2>1, <2>3, <2>4 DEF ShellInv
<1> QED BY <1>5, <1>6, <1>7

\* strtok() finds a token.
LEMMA TokenInv ==
    ASSUME ShellInv, Token
    PROVE  ShellInv'
<1> DEFINE s == ScreenOf(keys)
<1>1. pc = "parse" /\ pc' = pc /\ keys' = keys /\ i' = i /\ i \in Buffer
      /\ Parsing(s, line, last, argv)
  BY DEF ShellInv, Token
<1> HIDE DEF s
<1>2. Parsing(s, line', last', argv')
  BY <1>1, TokenStep
<1>3. /\ line' \in [Buffer -> Chars] /\ last' \in Buffer \cup {END}
      /\ \A k \in DOMAIN argv' : argv'[k] \in Buffer
  BY <1>2, ParsingTypes
<1>4. argv' # <<>>
  <2>1. PICK b : argv' = Append(argv, b)
    BY DEF Token
  <2>2. argv \in Seq(Nat)
    BY <1>1, ParsingTypes
  <2>3. Len(Append(argv, b)) = Len(argv) + 1 /\ Len(argv) \in Nat
    BY <2>2
  <2> QED BY <2>1, <2>3
<1> QED BY <1>1, <1>2, <1>3, <1>4 DEF ShellInv, s

\* execute_line() after the last token.
LEMMA ExecuteInv ==
    ASSUME ShellInv, ExecInv, Execute
    PROVE  ShellInv' /\ ExecInv'
<1> DEFINE s == ScreenOf(keys)
           first == LineString(argv[1])
           av == [k \in DOMAIN argv |-> LineString(argv[k])]
           g == [name |-> <<SLASH>> \o first, argv |-> av, envp |-> <<>>]
<1>1. CASE Prompt /\ UNCHANGED execVars
  BY <1>1, PromptInv, ExecStutters
<1>2. CASE pc' \in {"exited", "off"} /\ UNCHANGED <<keys, line, i, last, argv>> /\ UNCHANGED execVars
  <2>1. ExecInv'
    BY <1>2, ExecStutters
  <2>2. ShellInv'
    BY <1>2 DEF ShellInv
  <2> QED BY <2>1, <2>2
<1>3. CASE argv # <<>> /\ ExecCall(g) /\ pc' = "run" /\ UNCHANGED <<keys, line, i, last, argv>>
  <2>1. pc = "parse" /\ Parsing(s, line, last, argv) /\ NoToken
    BY DEF ShellInv, Execute
  <2>2. /\ av = Words(s) /\ Words(s) \in Seq(Seq(Text)) /\ Len(Words(s)) = Len(argv)
        /\ \A k \in 1 .. Len(argv) : Words(s)[k] # <<>>
    <3> HIDE DEF s
    <3> QED BY <2>1, ParseEnds
  <2>3. argv \in Seq(Nat)
    BY <2>1, ParsingTypes
  <2>4. 1 \in 1 .. Len(argv) /\ 1 \in DOMAIN argv /\ Len(argv) \in Nat
    BY <1>3, <2>3
  <2>5. av[1] = first
    BY <2>4
  <2> DEFINE W == Words(s)
  <2> HIDE DEF s, first, av
  <2>6. W \in Seq(Seq(Text)) /\ Len(W) = Len(argv) /\ W[1] = first /\ W[1] # <<>> /\ av = W
    BY <2>2, <2>4, <2>5
  <2> HIDE DEF W
  <2>7. first \in Seq(Text) /\ W # <<>>
    BY <2>4, <2>6
  <2>8. <<SLASH>> \o first \in Seq(Text)
    <3>1. <<SLASH>> \in Seq(Text)
      BY DEF Text
    <3> QED BY <2>7, <3>1
  <2>9. g \in Calls
    BY <2>6, <2>8 DEF Calls
  <2>10. g.argv = W /\ g.envp = <<>>
    BY <2>6
  <2> HIDE DEF g
  <2>11. ExecInv'
    BY <1>3, <2>9, ExecCallInv
  <2>12. given' = g
    BY <1>3 DEF ExecCall
  <2>13. Ran(given', ScreenOf(keys'))
    BY <1>3, <2>6, <2>7, <2>10, <2>12 DEF Ran, W, s
  <2>14. ShellInv'
    BY <1>3, <2>13 DEF ShellInv
  <2> QED BY <2>11, <2>14
<1>4. \/ Prompt /\ UNCHANGED execVars
      \/ pc' \in {"exited", "off"} /\ UNCHANGED <<keys, line, i, last, argv>> /\ UNCHANGED execVars
      \/ argv # <<>> /\ ExecCall(g) /\ pc' = "run" /\ UNCHANGED <<keys, line, i, last, argv>>
  BY DEF Execute
<1> QED BY <1>1, <1>2, <1>3, <1>4

\* Every step keeps the invariant.
LEMMA StepInv ==
    ASSUME IInv, [Next]_vars
    PROVE  IInv'
<1>1. ExecInv /\ ShellInv
  BY DEF IInv
<1>2. CASE ReadKey
  <2>1. UNCHANGED execVars
    BY <1>2 DEF ReadKey
  <2> QED BY <1>1, <1>2, <2>1, ReadKeyInv, ExecStutters DEF IInv
<1>3. CASE TooLong
  BY <1>1, <1>3, PromptInv, ExecStutters DEF TooLong, IInv
<1>4. CASE Token
  <2>1. UNCHANGED execVars
    BY <1>4 DEF Token
  <2> QED BY <1>1, <1>4, <2>1, TokenInv, ExecStutters DEF IInv
<1>5. CASE Execute
  BY <1>1, <1>5, ExecuteInv DEF IInv
<1>6. CASE ChildEnds
  BY <1>1, <1>6, PromptInv, ProgramEndsInv DEF ChildEnds, IInv
<1>7. CASE OtherCalls
  <2>1. PICK g \in Callers : ExecCall(g)
    BY <1>7 DEF OtherCalls
  <2>2. g \in Calls
    BY CallersAssumption DEF Calls
  <2>3. pc = "read" /\ UNCHANGED shellVars
    BY <1>7 DEF OtherCalls
  <2> QED BY <1>1, <2>1, <2>2, <2>3, ExecCallInv, ShellStutters DEF IInv
<1>8. CASE OtherEnds
  BY <1>1, <1>8, ProgramEndsInv, ShellStutters DEF OtherEnds, IInv
<1>9. CASE ExecStep /\ UNCHANGED shellVars
  BY <1>1, <1>9, ExecStepInv, ShellStutters DEF IInv
<1>10. CASE UNCHANGED vars
  <2>1. UNCHANGED execVars /\ UNCHANGED shellVars /\ given' = given
    BY <1>10 DEF vars, execVars
  <2> QED BY <1>1, <2>1, ExecStutters, ShellStutters DEF IInv
<1> QED BY <1>2, <1>3, <1>4, <1>5, <1>6, <1>7, <1>8, <1>9, <1>10 DEF Next, Stop

\* The invariant of all that follows: the strings of a call lie in the shared page
\* one behind the other, the image grows from below, the buffer holds the keys on
\* the screen, and strtok() has cut off the words before last.
THEOREM Invariant == Spec => []IInv
<1>1. Init => IInv
  BY InitInv
<1>2. IInv /\ [Next]_vars => IInv'
  BY StepInv
<1> QED BY <1>1, <1>2, PTL DEF Spec

\* read_until() and the screen agree: the line that is parsed is the line that is
\* shown, for any length of the buffer and any keys; nothing is stored outside.
THEOREM LineShown == Spec => []LineAsShown
<1>1. IInv => LineAsShown
  <2> SUFFICES ASSUME IInv PROVE LineAsShown
    OBVIOUS
  <2>1. TypeOK
    BY DEF IInv, ExecInv, ShellInv, TypeOK
  <2>2. ASSUME pc = "parse", argv = <<>> PROVE LineString(0) = OnScreen
    <3> DEFINE s == ScreenOf(keys)
    <3>1. Parsing(s, line, 0, argv)
      BY <2>2 DEF IInv, ShellInv
    <3> HIDE DEF s
    <3>2. LineString(0) = s
      BY <3>1, WholeLine
    <3> QED BY <3>2, ScreenIs DEF s
  <2> QED BY <2>1, <2>2 DEF LineAsShown
<1> QED BY <1>1, Invariant, PTL

\* argv_size counts the arguments, or is 0 if they do not fit into the page.
LEMMA CountsAre ==
    ASSUME ExecInv, phase # "user", given.envp = <<>>
    PROVE  /\ Len(given.argv) \in Nat /\ sizes.argv \in Nat /\ sizes.envp = 0
           /\ sizes.argv <= Len(given.argv)
           /\ Bytes(given) < PageSize => sizes.argv = Len(given.argv)
<1> DEFINE g == given
<1>1. g \in Calls /\ Laid(g, shm, sizes) /\ g.envp = <<>>
  BY DEF ExecInv
<1> HIDE DEF g
<1>2. /\ Total(g) \in Nat /\ Argc(g) \in Nat /\ Envc(g) \in Nat /\ Total(g) = 1 + Argc(g) + Envc(g)
  BY <1>1, StrFacts
<1>3. Argc(g) = Len(g.argv) /\ Envc(g) = 0
  BY <1>1 DEF Argc, Envc
<1>4. /\ sizes.argv \in Nat /\ sizes.envp \in Nat
      /\ Off(g)[Total(g)] < PageSize => sizes.argv = Argc(g) /\ sizes.envp = Envc(g)
      /\ sizes.argv # 0 => sizes.argv = Argc(g)
      /\ sizes.envp # 0 => sizes.envp = Envc(g)
  BY <1>1 DEF Laid
<1>5. Bytes(g) = Off(g)[Total(g)]
  BY <1>1, BytesAre
<1> QED BY <1>2, <1>3, <1>4, <1>5 DEF g

\* main() gets the words of the line from the shell, all of them or none, through
\* strtok(), the packing of exec() and the search of exec_process(), for any sizes of
\* the page and of the line, as long as the pointers to them fit into a page; and the
\* table of pointers overruns its page only for a line with more words than that.
THEOREM WordsReachMain == Spec => []ArgvExact
<1>1. IInv => ArgvExact
  <2> SUFFICES ASSUME IInv, pc = "run"
               PROVE  LET words == Words(OnScreen)
                          fit   == Bytes(given) < PageSize
                      IN  /\ phase = "main" => main.argv = IF fit THEN words ELSE <<>>
                          /\ phase = "overrun" => Len(words) + 2 > TableSize
                          /\ (phase = "main" /\ fit) => Len(words) + 2 <= TableSize
    BY DEF ArgvExact
  <2>1. Ran(given, ScreenOf(keys)) /\ ExecInv
    BY DEF IInv, ShellInv
  <2>2. given.argv = Words(OnScreen) /\ given.envp = <<>>
    BY <2>1, ScreenIs DEF Ran
  <2>3. ASSUME phase = "main"
        PROVE  main.argv = IF Bytes(given) < PageSize THEN Words(OnScreen) ELSE <<>>
    <3>1. Started(given, main)
      BY <2>1, <2>3 DEF ExecInv
    <3> QED BY <2>1, <2>2, <3>1 DEF Started, Ran
  <2>4. ASSUME phase \in {"main", "overrun"}
        PROVE  /\ phase = "overrun" => Len(Words(OnScreen)) + 2 > TableSize
               /\ phase = "main" /\ Bytes(given) < PageSize =>
                      Len(Words(OnScreen)) + 2 <= TableSize
    <3> DEFINE W == Words(OnScreen)
    <3>1. /\ Len(W) \in Nat /\ sizes.argv \in Nat /\ sizes.envp = 0 /\ sizes.argv <= Len(W)
          /\ Bytes(given) < PageSize => sizes.argv = Len(W)
      BY <2>1, <2>2, <2>4, CountsAre
    <3>2. /\ phase = "main" => TableEntries <= TableSize
          /\ phase = "overrun" => TableEntries > TableSize
      BY <2>1 DEF ExecInv
    <3>3. TableEntries = sizes.argv + 2
      BY <3>1 DEF TableEntries
    <3> HIDE DEF W
    <3>4. /\ phase = "overrun" => Len(W) + 2 > TableSize
          /\ phase = "main" /\ Bytes(given) < PageSize => Len(W) + 2 <= TableSize
      BY <3>1, <3>2, <3>3, TableSizeAssumption
    <3> QED BY <3>4 DEF W
  <2> QED BY <2>3, <2>4
<1> QED BY <1>1, Invariant, PTL

\* The pointers that exec_process() hands to main() stay in the shared page, for
\* every caller whose first argument is not empty.
THEOREM PointersInside == Spec => []PointersInPage
<1>1. IInv => PointersInPage
  BY DEF IInv, ExecInv, Started, PointersInPage
<1> QED BY <1>1, Invariant, PTL

\* load_elf() makes the image that the file describes, for any number of segments
\* of any size.
THEOREM ImageIsFile == Spec => []ImageExact
<1>1. IInv => ImageExact
  <2> SUFFICES ASSUME IInv, phase = "main", NEW k \in DOMAIN Files[given.name],
                      NEW a \in Segment(Files[given.name][k])
               PROVE  LET s == Files[given.name][k]
                      IN  a \in DOMAIN image /\
                          image[a] = IF a < s.va + s.filesz THEN s.off + a - s.va ELSE ZERO
    BY DEF ImageExact
  <2> DEFINE s == Files[given.name][k]
             n == s.va + s.memsz
             f == Files[given.name]
  <2>1. given \in Calls /\ Laid(given, shm, sizes) /\ StringAt(0) \in DOMAIN Files
        /\ LoadedAll(given.name, image)
    BY DEF IInv, ExecInv
  <2>2. given.name \in DOMAIN Files
    BY <2>1, NameFound
  <2>3. Exact(s, n, image)
    BY <2>1 DEF LoadedAll
  <2>4. s \in Segs
    <3> DEFINE nm == given.name
    <3>1. nm \in DOMAIN Files /\ f = Files[nm] /\ k \in DOMAIN f /\ s = f[k]
      BY <2>2
    <3> HIDE DEF f, nm, s
    <3> QED BY <3>1, FileShape
  <2>5. a \in s.va .. n - 1
    <3>1. a \in s.va .. s.va + s.memsz - 1
      BY DEF Segment
    <3> HIDE DEF s
    <3>2. s.va \in Nat /\ s.memsz \in Nat
      BY <2>4 DEF Segs
    <3> QED BY <3>1, <3>2
  <2> HIDE DEF s, n
  <2>6. a \in DOMAIN image /\ image[a] = IF a < s.va + s.filesz THEN s.off + a - s.va ELSE ZERO
    BY <2>3, <2>5 DEF Exact
  <2> QED BY <2>6 DEF s
<1> QED BY <1>1, Invariant, PTL
=============================================================================
