------------------------------ MODULE TextProofs ------------------------------
(***************************************************************************)
(* What the two parsers of texts make of every text, for every calendar,   *)
(* every u64 and every numeral.                                            *)
(*                                                                         *)
(* Durations.  A text is taken apart where it is put together: at the      *)
(* first T, then at each unit in turn (Split, Joined).  What one component *)
(* adds is what it means (TakeWritten), and whatever is taken for one was  *)
(* one (TakeTaken); so a text of the grammar is parsed to its meaning      *)
(* (ParseWritten), and an accepted text is one of the grammar but for a    *)
(* sign before its seconds (ParseTaken, UnsignedIs).                       *)
(*                                                                         *)
(* Times.  The text of a checkpoint's time stands for its instant, and     *)
(* sorts as it does, for every calendar whose fields fit their places.  An *)
(* instant is a number in mixed radix, and a text is its digits from the   *)
(* year down to the part of a day, so both go by the first field that      *)
(* differs (InstantInOrder, TextInOrder).                                  *)
(***************************************************************************)
EXTENDS Duration, CheckpointTime, DataInduction, SequenceTheorems

-----------------------------------------------------------------------------
(* Texts taken apart and put together *)

\* No prover knows a literal for a string: the characters of the grammar are named.
Chars ==
  STRING \cup ToSet(Digits) \cup {"P", "T", "Y", "D", "H", "M", "S", ".", "+"}
Text == Seq(Chars)

LEMMA GrammarCharacters ==
  /\ {"P", "T", "Y", "D", "H", "M", "S", ".", "+"} \subseteq Chars
  /\ ToSet(Digits) \subseteq Chars
  /\ STRING \subseteq Chars
BY DEF Chars

LEMMA StringsAreTexts == Seq(STRING) \subseteq Text
<1>1. \A A, B : A \subseteq B => Seq(A) \subseteq Seq(B)
  OBVIOUS
<1> QED BY <1>1, GrammarCharacters DEF Text

LEMMA HoldsAt ==
  ASSUME NEW s \in Text, NEW c
  PROVE  Holds(s, c) <=> \E i \in 1..Len(s) : s[i] = c
<1>1. DOMAIN s = 1..Len(s)
  BY DEF Text
<1> QED BY <1>1 DEF Holds, ToSet

\* The place of a character that the text holds, the first of them.
Place(s, c) == SelectInSeq(s, LAMBDA x : x = c)

LEMMA PlaceFirst ==
  ASSUME NEW s \in Text, NEW c, Holds(s, c)
  PROVE  /\ Place(s, c) \in 1..Len(s) /\ s[Place(s, c)] = c
         /\ \A j \in 1..(Place(s, c) - 1) : s[j] # c
<1> DEFINE I == {i \in 1..Len(s) : s[i] = c}
<1>1. I \subseteq Nat /\ I # {}
  BY DEF Holds, ToSet, Text
<1>2. PICK x \in I : \A y \in I : x <= y
  BY <1>1, LeastMember
<1>3. Min(I) \in I /\ \A y \in I : Min(I) <= y
  BY <1>2 DEF Min
<1>4. Place(s, c) = Min(I)
  BY <1>1 DEF Place, SelectInSeq
<1>5. Len(s) \in Nat
  BY DEF Text
<1>6. Min(I) \in 1..Len(s) /\ s[Min(I)] = c
  BY <1>3
<1>7. ASSUME NEW j \in 1..(Min(I) - 1) PROVE s[j] # c
  <2>1. j \in 1..Len(s) /\ j < Min(I)
    BY <1>5, <1>6
  <2>2. j \notin I
    BY <1>3, <1>6, <2>1
  <2> QED BY <2>1, <2>2
<1> QED BY <1>4, <1>6, <1>7

LEMMA PlaceOnly ==
  ASSUME NEW s \in Text, NEW c, NEW k \in 1..Len(s), s[k] = c,
         \A j \in 1..(k - 1) : s[j] # c
  PROVE  Holds(s, c) /\ Place(s, c) = k
<1>1. Holds(s, c)
  BY DEF Holds, ToSet, Text
<1>2. /\ Place(s, c) \in 1..Len(s) /\ s[Place(s, c)] = c
      /\ \A j \in 1..(Place(s, c) - 1) : s[j] # c
  BY <1>1, PlaceFirst
<1>3. Len(s) \in Nat /\ Place(s, c) \in Nat \ {0} /\ k \in Nat \ {0}
  BY <1>2 DEF Text
<1>4. ~(k < Place(s, c))
  BY <1>2, <1>3
<1>5. ~(Place(s, c) < k)
  BY <1>2, <1>3
<1> QED BY <1>1, <1>3, <1>4, <1>5

LEMMA HoldsConcat ==
  ASSUME NEW s \in Text, NEW t \in Text, NEW c
  PROVE  Holds(s \o t, c) <=> Holds(s, c) \/ Holds(t, c)
<1>1. Len(s) \in Nat /\ Len(t) \in Nat /\ Len(s \o t) = Len(s) + Len(t)
  BY DEF Text
<1>2. ASSUME Holds(s \o t, c) PROVE Holds(s, c) \/ Holds(t, c)
  <2>1. PICK i \in 1..(Len(s) + Len(t)) : (s \o t)[i] = c
    BY <1>1, <1>2 DEF Holds, ToSet, Text
  <2>2. CASE i <= Len(s)
    BY <1>1, <2>1, <2>2 DEF Holds, ToSet, Text
  <2>3. CASE i > Len(s)
    <3>1. i - Len(s) \in 1..Len(t) /\ t[i - Len(s)] = c
      BY <1>1, <2>1, <2>3 DEF Text
    <3> QED BY <3>1 DEF Holds, ToSet, Text
  <2> QED BY <1>1, <2>1, <2>2, <2>3
<1>3. ASSUME Holds(s, c) PROVE Holds(s \o t, c)
  <2>1. PICK i \in 1..Len(s) : s[i] = c
    BY <1>3 DEF Holds, ToSet, Text
  <2>2. i \in 1..Len(s \o t) /\ (s \o t)[i] = c
    BY <1>1, <2>1 DEF Text
  <2> QED BY <2>2 DEF Holds, ToSet, Text
<1>4. ASSUME Holds(t, c) PROVE Holds(s \o t, c)
  <2>1. PICK i \in 1..Len(t) : t[i] = c
    BY <1>4 DEF Holds, ToSet, Text
  <2>2. Len(s) + i \in 1..Len(s \o t) /\ (s \o t)[Len(s) + i] = c
    BY <1>1, <2>1 DEF Text
  <2> QED BY <2>2 DEF Holds, ToSet, Text
<1> QED BY <1>2, <1>3, <1>4

LEMMA HoldsFew ==
  ASSUME NEW c
  PROVE  ~Holds(<<>>, c) /\ \A x : Holds(<<x>>, c) <=> x = c
BY DEF Holds, ToSet

\* The characters of two texts put together.
LEMMA LeftPart ==
  ASSUME NEW a \in Text, NEW b \in Text
  PROVE  /\ a \o b \in Text
         /\ Len(a) \in Nat /\ Len(b) \in Nat /\ Len(a \o b) = Len(a) + Len(b)
         /\ \A i \in 1..Len(a) : (a \o b)[i] = a[i]
BY DEF Text

LEMMA RightPart ==
  ASSUME NEW a \in Text, NEW b \in Text, NEW i \in 1..Len(b), NEW k, k = Len(a) + i
  PROVE  (a \o b)[k] = b[i]
BY DEF Text

LEMMA RightEnd ==
  ASSUME NEW a \in Text, NEW b \in Text, NEW m \in Int, NEW n \in Int, m = Len(a) + 1, n = Len(a) + Len(b)
  PROVE  SubSeq(a \o b, m, n) = b
<1>1. a \in Seq(Chars) /\ b \in Seq(Chars) /\ Len(a) \in Nat /\ Len(b) \in Nat
  BY DEF Text
<1>2. CASE Len(b) = 0
  <2>1. b = <<>> /\ n < m /\ m \in Int /\ n \in Int
    BY <1>1, <1>2
  <2> QED BY <2>1, SubSeqEmpty
<1>3. CASE Len(b) # 0
  <2>1. /\ m \in (Len(a) + 1)..(Len(a) + Len(b)) /\ n \in (Len(a) + 1)..(Len(a) + Len(b))
        /\ m - Len(a) = 1 /\ n - Len(a) = Len(b)
    BY <1>1, <1>3
  <2>2. SubSeq(a \o b, m, n) = SubSeq(b, m - Len(a), n - Len(a))
    BY <1>1, <2>1, SubSeqOfConcat2
  <2> QED BY <1>1, <2>1, <2>2, SubSeqFull
<1> QED BY <1>2, <1>3

LEMMA LeftEnd ==
  ASSUME NEW a \in Text, NEW b \in Text
  PROVE  SubSeq(a \o b, 1, Len(a)) = a
<1>1. a \in Seq(Chars) /\ b \in Seq(Chars) /\ Len(a) \in Nat
  BY DEF Text
<1>2. CASE Len(a) = 0
  <2>1. a = <<>>
    BY <1>1, <1>2
  <2> QED BY <1>2, <2>1, SubSeqEmpty
<1>3. CASE Len(a) # 0
  <2>1. 1 \in 1..Len(a) /\ Len(a) \in 1..Len(a)
    BY <1>1, <1>3
  <2>2. SubSeq(a \o b, 1, Len(a)) = SubSeq(a, 1, Len(a))
    BY <1>1, <2>1, SubSeqOfConcat1
  <2> QED BY <1>1, <2>2, SubSeqFull
<1> QED BY <1>2, <1>3

\* A text is taken apart at a character that only its second part may hold.
LEMMA Split ==
  ASSUME NEW a \in Text, NEW b \in Text, NEW c \in Chars, ~Holds(a, c)
  PROVE  LET s == a \o (<<c>> \o b)
         IN Holds(s, c) /\ Before(s, c) = a /\ After(s, c) = b
<1>1. PICK p, q, s, o : p = a \o <<c>> /\ q = <<c>> \o b /\ s = a \o q /\ o = <<c>>
  OBVIOUS
<1>2. o \in Text /\ Len(o) = 1 /\ o[1] = c
  BY <1>1 DEF Text
<1>3. p \in Text /\ q \in Text /\ Len(p) = Len(a) + 1 /\ Len(q) = 1 + Len(b)
  BY <1>1, <1>2, LeftPart
<1>4. q[1] = c
  BY <1>1, <1>2 DEF Text
<1>5. s = p \o b
  BY <1>1, <1>2, ConcatAssociative DEF Text
<1>6. s \in Text /\ Len(a) \in Nat /\ Len(b) \in Nat /\ Len(s) = Len(a) + Len(q)
  BY <1>1, <1>3, LeftPart
<1>7. \A i \in 1..Len(a) : s[i] = a[i]
  BY <1>1, <1>3, LeftPart
<1>8. PICK k \in Nat : k = Len(a) + 1
  BY <1>6
<1>9. s[k] = c
  <2>1. 1 \in 1..Len(q)
    BY <1>3, <1>6
  <2> QED BY <1>1, <1>3, <1>4, <1>8, <2>1, RightPart
<1>10. k \in 1..Len(s) /\ k - 1 = Len(a) /\ k = Len(p) /\ Len(s) = Len(p) + Len(b)
  BY <1>3, <1>6, <1>8
<1>11. Holds(s, c) /\ Place(s, c) = k
  <2>1. \A j \in 1..Len(a) : a[j] # c
    BY HoldsAt
  <2>2. \A j \in 1..(k - 1) : s[j] # c
    BY <1>7, <1>10, <2>1
  <2> QED BY <1>6, <1>9, <1>10, <2>2, PlaceOnly
<1>12. Before(s, c) = SubSeq(s, 1, Len(a)) /\ After(s, c) = SubSeq(s, k + 1, Len(s))
  BY <1>10, <1>11 DEF Before, After, Place
<1>13. SubSeq(s, 1, Len(a)) = a
  BY <1>1, <1>3, LeftEnd
<1>14. SubSeq(s, k + 1, Len(s)) = b
  <2>1. PICK m, n : m = k + 1 /\ n = Len(s)
    OBVIOUS
  <2>2. m \in Int /\ n \in Int /\ m = Len(p) + 1 /\ n = Len(p) + Len(b)
    BY <1>3, <1>6, <1>10, <2>1
  <2>3. p \in Text
    BY <1>3
  <2>4. SubSeq(p \o b, m, n) = b
    BY <2>2, <2>3, RightEnd
  <2> QED BY <1>5, <2>1, <2>4
<1> QED BY <1>1, <1>11, <1>12, <1>13, <1>14

\* Any text that holds a character is put together so.
LEMMA Joined ==
  ASSUME NEW s \in Text, NEW c \in Chars, Holds(s, c)
  PROVE  /\ Before(s, c) \in Text /\ After(s, c) \in Text
         /\ ~Holds(Before(s, c), c)
         /\ s = Before(s, c) \o (<<c>> \o After(s, c))
<1>1. PICK k : k = Place(s, c)
  OBVIOUS
<1>2. k \in 1..Len(s) /\ s[k] = c /\ \A j \in 1..(k - 1) : s[j] # c
  BY <1>1, PlaceFirst
<1>3. s \in Seq(Chars) /\ Len(s) \in Nat
  BY DEF Text
<1>4. PICK a : a = SubSeq(s, 1, k - 1)
  OBVIOUS
<1>5. PICK b : b = SubSeq(s, k + 1, Len(s))
  OBVIOUS
<1>6. a = Before(s, c) /\ b = After(s, c)
  BY <1>1, <1>4, <1>5 DEF Before, After, Place
<1>7. a \in Text /\ Len(a) = k - 1 /\ \A i \in 1..(k - 1) : a[i] = s[i]
  BY <1>2, <1>3, <1>4 DEF Text
<1>8. b \in Text
  BY <1>2, <1>3, <1>5 DEF Text
<1>9. ~Holds(a, c)
  <2>1. \A i \in 1..Len(a) : a[i] # c
    BY <1>2, <1>7
  <2> QED BY <1>7, <2>1, HoldsAt
<1>10. s = a \o (<<c>> \o b)
  <2>1. SubSeq(s, k, Len(s)) = <<c>> \o b
    <3>1. Len(s) \in k..Len(s)
      BY <1>2, <1>3
    <3> QED BY <1>2, <1>3, <1>5, <3>1, SubSeqRecursiveFirst
  <2>2. a \o SubSeq(s, (k - 1) + 1, Len(s)) = SubSeq(s, 1, Len(s))
    <3>1. 1 \in 1..(Len(s) + 1) /\ k - 1 \in (1 - 1)..Len(s) /\ Len(s) \in (k - 1)..Len(s)
      BY <1>2, <1>3
    <3> QED BY <1>3, <1>4, <3>1, ConcatAdjacentSubSeq
  <2>3. (k - 1) + 1 = k
    BY <1>2
  <2> QED BY <1>3, <2>1, <2>2, <2>3, SubSeqFull
<1> QED BY <1>6, <1>7, <1>8, <1>9, <1>10

-----------------------------------------------------------------------------
(* Numbers read from digits *)

\* Digits or nothing.
DigitTexts == {s \in Text : \A i \in 1..Len(s) : s[i] \in ToSet(Digits)}

LEMMA DigitValue ==
  ASSUME NEW c \in ToSet(Digits)
  PROVE  ValueOf(c) \in Nat
<1>1. PICK i \in 1..10 : c = Digits[i]
  BY DEF ToSet, Digits
<1>2. ValueOf(c) = i - 1
  BY <1>1 DEF ValueOf, Digits
<1> QED BY <1>2

\* The numbers read so far, one after each digit.
LEMMA NumberStates ==
  ASSUME NEW s \in DigitTexts
  PROVE  \E g \in [0..Len(s) -> Nat] :
           /\ g[0] = 0
           /\ \A n \in 1..Len(s) : g[n] = 10 * g[n - 1] + ValueOf(s[n])
           /\ NumberOf(s) = g[Len(s)]
<1> DEFINE N == Len(s)
           F == [x \in Nat \X (1..N) |-> 10 * x[1] + ValueOf(s[x[2]])]
           Unfolds(g) == g = [n \in 0..N |-> IF n = 0 THEN 0 ELSE 10 * g[n - 1] + ValueOf(s[n])]
<1>1. N \in Nat /\ \A n \in 1..N : ValueOf(s[n]) \in Nat
  BY DigitValue DEF DigitTexts, Text
<1> HIDE DEF N
<1>2. F \in [Nat \X (1..N) -> Nat]
  <2>1. \A x \in Nat \X (1..N) : 10 * x[1] + ValueOf(s[x[2]]) \in Nat
    BY <1>1
  <2> QED BY <2>1
<1>3. \A m \in Nat, n \in 1..N : F[<<m, n>>] = 10 * m + ValueOf(s[n])
  OBVIOUS
<1> HIDE DEF F
<1>4. PICK f \in [0..N -> Nat] : Recursive(f, N, 0, F)
  BY <1>1, <1>2, RecursiveExists
<1>5. \A n \in 0..N : f[n] = IF n = 0 THEN 0 ELSE 10 * f[n - 1] + ValueOf(s[n])
  <2> SUFFICES ASSUME NEW n \in 0..N, n # 0 PROVE f[n] = 10 * f[n - 1] + ValueOf(s[n])
    BY <1>4 DEF Recursive
  <2>1. n \in 1..N /\ f[n - 1] \in Nat
    BY <1>1, <1>4
  <2> QED BY <1>3, <1>4, <2>1 DEF Recursive
<1>6. Unfolds(f)
  BY <1>4, <1>5
<1>7. \E g : Unfolds(g) /\ NumberOf(s) = g[N]
  BY <1>6 DEF NumberOf, N
<1>8. PICK g : Unfolds(g) /\ NumberOf(s) = g[N]
  BY <1>7
<1>9. /\ DOMAIN g = 0..N
      /\ g[0] = 0
      /\ \A n \in 1..N : g[n] = 10 * g[n - 1] + ValueOf(s[n])
  BY <1>1, <1>8
<1>10. g \in [0..N -> Nat]
  <2> DEFINE S == {n \in 0..N : g[n] \in Nat}
  <2>1. 0 \in S
    BY <1>1, <1>9
  <2>2. \A n \in 0..(N - 1) : n \in S => n + 1 \in S
    <3> SUFFICES ASSUME NEW n \in 0..(N - 1), g[n] \in Nat
                 PROVE  n + 1 \in 0..N /\ g[n + 1] \in Nat
      OBVIOUS
    <3>1. n + 1 \in 1..N /\ n + 1 \in 0..N /\ (n + 1) - 1 = n
      BY <1>1
    <3>2. g[n + 1] = 10 * g[n] + ValueOf(s[n + 1]) /\ ValueOf(s[n + 1]) \in Nat
      BY <1>1, <1>9, <3>1
    <3> QED BY <3>1, <3>2
  <2> HIDE DEF S
  <2>3. 0..N \subseteq S
    BY <1>1, <2>1, <2>2, BoundedInduction
  <2>4. \A n \in 0..N : g[n] \in Nat
    BY <2>3 DEF S
  <2>5. g = [n \in 0..N |-> g[n]]
    BY <1>8
  <2> QED BY <2>4, <2>5
<1> QED BY <1>8, <1>9, <1>10 DEF N

LEMMA NumberType ==
  ASSUME NEW s \in DigitTexts
  PROVE  NumberOf(s) \in Nat
<1>1. Len(s) \in 0..Len(s)
  BY DEF DigitTexts, Text
<1> QED BY <1>1, NumberStates

LEMMA NumberEmpty == <<>> \in DigitTexts /\ NumberOf(<<>>) = 0
<1>1. <<>> \in DigitTexts /\ Len(<<>>) = 0
  BY DEF DigitTexts, Text
<1> QED BY <1>1, NumberStates

\* One more digit.
LEMMA NumberAppend ==
  ASSUME NEW p \in DigitTexts, NEW c \in ToSet(Digits), c \in Chars
  PROVE  /\ Append(p, c) \in DigitTexts
         /\ NumberOf(Append(p, c)) = 10 * NumberOf(p) + ValueOf(c)
<1> DEFINE N == Len(p)
<1>1. PICK q : q = Append(p, c)
  OBVIOUS
<1>2. /\ N \in Nat /\ q \in Text /\ Len(q) = N + 1 /\ q[N + 1] = c
      /\ \A n \in 1..N : q[n] = p[n]
  BY <1>1, AppendProperties DEF DigitTexts, Text
<1> HIDE DEF N
<1>3. q \in DigitTexts
  <2>1. ASSUME NEW i \in 1..(N + 1) PROVE q[i] \in ToSet(Digits)
    <3>1. CASE i = N + 1
      BY <1>2, <3>1
    <3>2. CASE i # N + 1
      <4>1. i \in 1..N
        BY <1>2, <3>2
      <4> QED BY <1>2, <4>1 DEF DigitTexts, N
    <3> QED BY <3>1, <3>2
  <2> QED BY <1>2, <2>1 DEF DigitTexts
<1>4. PICK g \in [0..N -> Nat] :
        /\ g[0] = 0
        /\ \A n \in 1..N : g[n] = 10 * g[n - 1] + ValueOf(p[n])
        /\ NumberOf(p) = g[N]
  BY NumberStates DEF N
<1>5. PICK h \in [0..(N + 1) -> Nat] :
        /\ h[0] = 0
        /\ \A n \in 1..(N + 1) : h[n] = 10 * h[n - 1] + ValueOf(q[n])
        /\ NumberOf(q) = h[N + 1]
  BY <1>2, <1>3, NumberStates
<1> DEFINE S == {n \in 0..N : g[n] = h[n]}
<1>6. 0 \in S
  BY <1>2, <1>4, <1>5
<1>7. \A n \in 0..(N - 1) : n \in S => n + 1 \in S
  <2> SUFFICES ASSUME NEW n \in 0..(N - 1), g[n] = h[n]
               PROVE  n + 1 \in 0..N /\ g[n + 1] = h[n + 1]
    OBVIOUS
  <2>1. n + 1 \in 1..N /\ n + 1 \in 1..(N + 1) /\ n + 1 \in 0..N /\ (n + 1) - 1 = n
    BY <1>2
  <2>2. g[n + 1] = 10 * g[n] + ValueOf(p[n + 1]) /\ h[n + 1] = 10 * h[n] + ValueOf(q[n + 1])
    BY <1>4, <1>5, <2>1
  <2>3. p[n + 1] = q[n + 1]
    BY <1>2, <2>1
  <2> QED BY <2>1, <2>2, <2>3
<1> HIDE DEF S
<1>8. 0..N \subseteq S
  BY <1>2, <1>6, <1>7, BoundedInduction
<1>9. g[N] = h[N]
  BY <1>2, <1>8 DEF S
<1>10. h[N + 1] = 10 * h[N] + ValueOf(q[N + 1])
  <2>1. N + 1 \in 1..(N + 1) /\ (N + 1) - 1 = N
    BY <1>2
  <2> QED BY <1>5, <2>1
<1> QED BY <1>1, <1>2, <1>3, <1>4, <1>5, <1>9, <1>10

\* The powers of ten.
LEMMA TenToStates ==
  ASSUME NEW N \in Nat
  PROVE  \E g \in [0..N -> Nat] :
           /\ g[0] = 1
           /\ \A n \in 1..N : g[n] = 10 * g[n - 1]
           /\ TenTo(N) = g[N]
<1> DEFINE F == [x \in Nat \X (1..N) |-> 10 * x[1]]
           Unfolds(g) == g = [n \in 0..N |-> IF n = 0 THEN 1 ELSE 10 * g[n - 1]]
<1>1. F \in [Nat \X (1..N) -> Nat]
  OBVIOUS
<1>2. \A m \in Nat, n \in 1..N : F[<<m, n>>] = 10 * m
  OBVIOUS
<1> HIDE DEF F
<1>3. PICK f \in [0..N -> Nat] : Recursive(f, N, 1, F)
  BY <1>1, RecursiveExists
<1>4. \A n \in 0..N : f[n] = IF n = 0 THEN 1 ELSE 10 * f[n - 1]
  <2> SUFFICES ASSUME NEW n \in 0..N, n # 0 PROVE f[n] = 10 * f[n - 1]
    BY <1>3 DEF Recursive
  <2>1. n \in 1..N /\ f[n - 1] \in Nat
    BY <1>3
  <2> QED BY <1>2, <1>3, <2>1 DEF Recursive
<1>5. Unfolds(f)
  BY <1>3, <1>4
<1>6. \E g : Unfolds(g) /\ TenTo(N) = g[N]
  BY <1>5 DEF TenTo
<1>7. PICK g : Unfolds(g) /\ TenTo(N) = g[N]
  BY <1>6
<1>8. /\ DOMAIN g = 0..N
      /\ g[0] = 1
      /\ \A n \in 1..N : g[n] = 10 * g[n - 1]
  BY <1>7
<1>9. g \in [0..N -> Nat]
  <2> DEFINE S == {n \in 0..N : g[n] \in Nat}
  <2>1. 0 \in S
    BY <1>8
  <2>2. \A n \in 0..(N - 1) : n \in S => n + 1 \in S
    <3> SUFFICES ASSUME NEW n \in 0..(N - 1), g[n] \in Nat
                 PROVE  n + 1 \in 0..N /\ g[n + 1] \in Nat
      OBVIOUS
    <3>1. n + 1 \in 1..N /\ n + 1 \in 0..N /\ (n + 1) - 1 = n
      OBVIOUS
    <3>2. g[n + 1] = 10 * g[n]
      BY <1>8, <3>1
    <3> QED BY <3>1, <3>2
  <2> HIDE DEF S
  <2>3. 0..N \subseteq S
    BY <2>1, <2>2, BoundedInduction
  <2>4. \A n \in 0..N : g[n] \in Nat
    BY <2>3 DEF S
  <2>5. g = [n \in 0..N |-> g[n]]
    BY <1>7
  <2> QED BY <2>4, <2>5
<1> QED BY <1>7, <1>8, <1>9

LEMMA TenToSteps ==
  ASSUME NEW N \in Nat
  PROVE  TenTo(N) \in Nat /\ TenTo(0) = 1 /\ TenTo(N + 1) = 10 * TenTo(N)
<1>1. PICK g \in [0..N -> Nat] :
        /\ g[0] = 1
        /\ \A n \in 1..N : g[n] = 10 * g[n - 1]
        /\ TenTo(N) = g[N]
  BY TenToStates
<1>2. N + 1 \in Nat
  OBVIOUS
<1>3. PICK h \in [0..(N + 1) -> Nat] :
        /\ h[0] = 1
        /\ \A n \in 1..(N + 1) : h[n] = 10 * h[n - 1]
        /\ TenTo(N + 1) = h[N + 1]
  BY <1>2, TenToStates
<1> DEFINE S == {n \in 0..N : g[n] = h[n]}
<1>4. 0 \in S
  BY <1>1, <1>3
<1>5. \A n \in 0..(N - 1) : n \in S => n + 1 \in S
  <2> SUFFICES ASSUME NEW n \in 0..(N - 1), g[n] = h[n]
               PROVE  n + 1 \in 0..N /\ g[n + 1] = h[n + 1]
    OBVIOUS
  <2>1. n + 1 \in 1..N /\ n + 1 \in 1..(N + 1) /\ n + 1 \in 0..N /\ (n + 1) - 1 = n
    OBVIOUS
  <2> QED BY <1>1, <1>3, <2>1
<1> HIDE DEF S
<1>6. 0..N \subseteq S
  BY <1>4, <1>5, BoundedInduction
<1>7. g[N] = h[N]
  BY <1>6 DEF S
<1>8. h[N + 1] = 10 * h[N]
  <2>1. N + 1 \in 1..(N + 1) /\ (N + 1) - 1 = N
    OBVIOUS
  <2> QED BY <1>3, <2>1
<1>9. TenTo(0) = 1
  <2>1. 0 \in Nat
    OBVIOUS
  <2> QED BY <2>1, TenToStates
<1> QED BY <1>1, <1>3, <1>7, <1>8, <1>9

\* Zeros at the end.
LEMMA NumberPadded ==
  ASSUME NEW f \in DigitTexts, NEW N \in Nat
  PROVE  /\ f \o [i \in 1..N |-> "0"] \in DigitTexts
         /\ NumberOf(f \o [i \in 1..N |-> "0"]) = NumberOf(f) * TenTo(N)
<1> DEFINE zeros(k) == [i \in 1..k |-> "0"]
           S == {k \in 0..N : /\ f \o zeros(k) \in DigitTexts
                              /\ NumberOf(f \o zeros(k)) = NumberOf(f) * TenTo(k)}
<1>1. NumberOf(f) \in Nat /\ f \in Text
  BY NumberType DEF DigitTexts
<1>2. "0" \in Chars /\ "0" \in ToSet(Digits) /\ ValueOf("0") = 0
  <2>1. "0" = Digits[1] /\ 1 \in DOMAIN Digits
    BY DEF Digits
  <2>2. ValueOf("0") = 0
    BY DEF ValueOf, Digits
  <2>3. "0" \in ToSet(Digits)
    BY <2>1 DEF ToSet
  <2> QED BY <2>2, <2>3, GrammarCharacters
<1>3. 0 \in S
  <2>1. zeros(0) = <<>>
    OBVIOUS
  <2>2. f \o zeros(0) = f
    BY <1>1, <2>1, ConcatEmptySeq DEF Text
  <2>3. TenTo(0) = 1
    BY TenToSteps
  <2> HIDE DEF zeros
  <2>4. NumberOf(f) * TenTo(0) = NumberOf(f)
    BY <1>1, <2>3
  <2>5. 0 \in 0..N
    OBVIOUS
  <2> QED BY <2>2, <2>4, <2>5
<1>4. ASSUME NEW k \in 0..(N - 1), k \in S PROVE k + 1 \in S
  <2>1. k \in Nat /\ k + 1 \in 0..N
    OBVIOUS
  <2>2. zeros(k) \in Text /\ zeros(k + 1) = Append(zeros(k), "0")
    BY <1>2, <2>1 DEF Text
  <2> HIDE DEF zeros
  <2>3. f \o zeros(k + 1) = Append(f \o zeros(k), "0")
    <3>1. PICK z, o : z = zeros(k) /\ o = <<"0">>
      OBVIOUS
    <3>2. z \in Seq(Chars) /\ o \in Seq(Chars) /\ f \in Seq(Chars) /\ f \o z \in Seq(Chars)
      BY <1>1, <1>2, <2>2, <3>1 DEF Text
    <3>3. Append(z, "0") = z \o o /\ Append(f \o z, "0") = (f \o z) \o o
      BY <1>2, <3>1, <3>2, AppendIsConcat
    <3>4. (f \o z) \o o = f \o (z \o o)
      BY <3>2, ConcatAssociative
    <3> QED BY <2>2, <3>1, <3>3, <3>4
  <2>4. f \o zeros(k) \in DigitTexts /\ NumberOf(f \o zeros(k)) = NumberOf(f) * TenTo(k)
    BY <1>4
  <2>5. /\ f \o zeros(k + 1) \in DigitTexts
        /\ NumberOf(f \o zeros(k + 1)) = 10 * NumberOf(f \o zeros(k)) + ValueOf("0")
    BY <1>2, <2>3, <2>4, NumberAppend
  <2>6. TenTo(k) \in Nat /\ TenTo(k + 1) = 10 * TenTo(k)
    BY <2>1, TenToSteps
  <2>7. 10 * (NumberOf(f) * TenTo(k)) = NumberOf(f) * (10 * TenTo(k))
    BY <1>1, <2>6
  <2>8. NumberOf(f) * TenTo(k) \in Nat
    BY <1>1, <2>6
  <2>9. NumberOf(f \o zeros(k + 1)) = NumberOf(f) * TenTo(k + 1)
    BY <1>2, <2>4, <2>5, <2>6, <2>7, <2>8
  <2> QED BY <2>1, <2>5, <2>9
<1> HIDE DEF S
<1>5. 0..N \subseteq S
  BY <1>3, <1>4, BoundedInduction
<1>6. N \in S
  BY <1>5
<1> QED BY <1>6 DEF S

-----------------------------------------------------------------------------
(* Numbers that have room *)

LEMMA Room ==
  /\ \A a \in Nat, k \in Nat \ {0} : CheckedMul(Fits({a}), k) = Fits({a * k})
  /\ \A a, b \in Nat : CheckedAdd(Fits({a}), Fits({b})) = Fits({a + b})
  /\ Fits({0}) = {0}
<1>1. MaxU64 \in Nat
  BY DurationAssumption
<1>2. ASSUME NEW a \in Nat, NEW k \in Nat \ {0}
      PROVE  CheckedMul(Fits({a}), k) = Fits({a * k})
  <2>1. a * k >= a /\ a * k \in Nat
    BY <1>2
  <2>2. CASE a <= MaxU64
    BY <2>2 DEF CheckedMul, Fits
  <2>3. CASE ~(a <= MaxU64)
    <3>1. ~(a * k <= MaxU64)
      BY <1>1, <2>1, <2>3
    <3> QED BY <2>3, <3>1 DEF CheckedMul, Fits
  <2> QED BY <2>2, <2>3
<1>3. ASSUME NEW a \in Nat, NEW b \in Nat
      PROVE  CheckedAdd(Fits({a}), Fits({b})) = Fits({a + b})
  <2>1. CASE a <= MaxU64 /\ b <= MaxU64
    BY <2>1 DEF CheckedAdd, Fits
  <2>2. CASE ~(a <= MaxU64 /\ b <= MaxU64)
    <3>1. ~(a + b <= MaxU64)
      BY <1>1, <2>2
    <3> QED BY <2>2, <3>1 DEF CheckedAdd, Fits
  <2> QED BY <2>1, <2>2
<1>4. Fits({0}) = {0}
  BY <1>1 DEF Fits
<1> QED BY <1>2, <1>3, <1>4

LEMMA NoRoom ==
  ASSUME NEW A, NEW B, NEW k
  PROVE  /\ CheckedMul(A, k) # {} => A # {}
         /\ CheckedAdd(A, B) # {} => A # {} /\ B # {}
BY DEF CheckedMul, CheckedAdd, Fits

\* The fact that DigitTexts is about, in the words of the parser.
LEMMA DigitsOrNothing ==
  /\ <<>> \in DigitTexts
  /\ \A s \in Text : AllDigits(s) <=> s \in DigitTexts /\ s # <<>>
  /\ \A s \in DigitTexts : s \in Text /\ \A c : c \notin ToSet(Digits) => ~Holds(s, c)
<1>1. ASSUME NEW s \in Text PROVE AllDigits(s) <=> s \in DigitTexts /\ s # <<>>
  <2>1. DOMAIN s = 1..Len(s)
    BY DEF Text
  <2> QED BY <2>1 DEF AllDigits, DigitTexts
<1>2. ASSUME NEW s \in DigitTexts, NEW c, c \notin ToSet(Digits) PROVE ~Holds(s, c)
  <2>1. s \in Text /\ \A i \in 1..Len(s) : s[i] \in ToSet(Digits)
    BY DEF DigitTexts
  <2> QED BY <1>2, <2>1, HoldsAt
<1> QED BY <1>1, <1>2, NumberEmpty DEF DigitTexts

\* No letter, point or sign is a digit.
LEMMA NoDigits == {"P", "T", "Y", "D", "H", "M", "S", ".", "+"} \cap ToSet(Digits) = {}
<1>1. ToSet(Digits) = {"0", "1", "2", "3", "4", "5", "6", "7", "8", "9"}
  <2>1. ToSet(Digits) = {Digits[i] : i \in 1..10}
    BY DEF ToSet, Digits
  <2>2. 1..10 = {1, 2, 3, 4, 5, 6, 7, 8, 9, 10}
    OBVIOUS
  <2> QED BY <2>1, <2>2 DEF Digits
<1> QED BY <1>1

-----------------------------------------------------------------------------
(* Concatenation, of texts only *)

LEMMA Concat ==
  /\ <<>> \in Text
  /\ \A c \in Chars : <<c>> \in Text
  /\ \A a, b \in Text : a \o b \in Text
  /\ \A a \in Text : a \o <<>> = a /\ <<>> \o a = a
  /\ \A a, b, c \in Text : (a \o b) \o c = a \o (b \o c)
  /\ \A a \in Text, c \in Chars : Append(a, c) = a \o <<c>>
<1>1. <<>> \in Text /\ \A c \in Chars : <<c>> \in Text
  BY DEF Text
<1>2. \A a, b \in Text : a \o b \in Text
  BY DEF Text
<1>3. \A a \in Text : a \o <<>> = a /\ <<>> \o a = a
  BY ConcatEmptySeq DEF Text
<1>4. \A a, b, c \in Text : (a \o b) \o c = a \o (b \o c)
  BY ConcatAssociative DEF Text
<1>5. \A a \in Text, c \in Chars : Append(a, c) = a \o <<c>>
  BY AppendIsConcat DEF Text
<1> QED BY <1>1, <1>2, <1>3, <1>4, <1>5

LEMMA ConcatEmpty ==
  ASSUME NEW a \in Text, NEW b \in Text
  PROVE  a \o b = <<>> <=> a = <<>> /\ b = <<>>
<1>1. a \o b = <<>> => a = <<>> /\ b = <<>>
  BY ConcatSimplifications DEF Text
<1>2. <<>> \o <<>> = <<>>
  BY Concat
<1> QED BY <1>1, <1>2

\* A first character, and a last one.
LEMMA FirstOf ==
  ASSUME NEW a \in Text, NEW c \in Chars
  PROVE  LET s == <<c>> \o a
         IN s \in Text /\ s # <<>> /\ s[1] = c /\ Len(s) = Len(a) + 1 /\ Tail(s) = a
<1> DEFINE s == <<c>> \o a
<1>1. s \in Text /\ s # <<>> /\ Len(s) = Len(a) + 1 /\ Len(a) \in Nat
  BY DEF Text
<1>2. s[1] = c
  BY DEF Text
<1>3. Tail(s) = a
  BY <1>1 DEF Text
<1> QED BY <1>1, <1>2, <1>3

LEMMA FirstTaken ==
  ASSUME NEW s \in Text, s # <<>>
  PROVE  s[1] \in Chars /\ Tail(s) \in Text /\ s = <<s[1]>> \o Tail(s)
<1>1. Len(s) \in Nat /\ Len(s) # 0
  BY DEF Text
<1>2. s[1] \in Chars /\ Tail(s) \in Text
  BY <1>1 DEF Text
<1>3. s = <<s[1]>> \o Tail(s)
  BY <1>1, <1>2 DEF Text
<1> QED BY <1>2, <1>3

LEMMA LastOf ==
  ASSUME NEW a \in Text, NEW c \in Chars
  PROVE  LET s == a \o <<c>>
         IN s \in Text /\ s # <<>> /\ s[Len(s)] = c /\ Front(s) = a
<1> DEFINE s == a \o <<c>>
<1>1. s \in Text /\ s # <<>> /\ Len(s) = Len(a) + 1 /\ Len(a) \in Nat
  BY DEF Text
<1>2. s[Len(s)] = c
  BY <1>1 DEF Text
<1>3. Front(s) = SubSeq(s, 1, Len(a))
  BY <1>1 DEF Front
<1>4. <<c>> \in Text
  BY Concat
<1>5. SubSeq(s, 1, Len(a)) = a
  BY <1>4, LeftEnd
<1> QED BY <1>1, <1>2, <1>3, <1>5

LEMMA LastTaken ==
  ASSUME NEW s \in Text, s # <<>>
  PROVE  s[Len(s)] \in Chars /\ Front(s) \in Text /\ s = Front(s) \o <<s[Len(s)]>>
<1>1. PICK a \in Text, c \in Chars : s = Append(a, c)
  BY SequenceEmptyOrAppend DEF Text
<1>2. s = a \o <<c>>
  BY <1>1, Concat
<1> QED BY <1>2, LastOf

-----------------------------------------------------------------------------
(* One component *)

LEMMA Units ==
  /\ {SecondsPerMinute, SecondsPerHour, SecondsPerDay} \subseteq Nat \ {0}
  /\ FractionDigits \in Nat /\ NanosPerSecond \in Nat \ {0}
<1> DEFINE S == {n \in 0..FractionDigits : TenTo(n) # 0}
<1>1. FractionDigits \in Nat
  BY DurationAssumption
<1>2. 0 \in S
  BY <1>1, TenToSteps
<1>3. ASSUME NEW n \in 0..(FractionDigits - 1), n \in S PROVE n + 1 \in S
  <2>1. n \in Nat /\ n + 1 \in 0..FractionDigits /\ TenTo(n) # 0
    BY <1>1, <1>3
  <2>2. TenTo(n) \in Nat /\ TenTo(n + 1) = 10 * TenTo(n)
    BY <2>1, TenToSteps
  <2>3. TenTo(n + 1) # 0
    BY <2>1, <2>2
  <2> QED BY <2>1, <2>3
<1> HIDE DEF S
<1>4. 0..FractionDigits \subseteq S
  BY <1>1, <1>2, <1>3, BoundedInduction
<1>5. TenTo(FractionDigits) # 0
  BY <1>1, <1>4 DEF S
<1>6. TenTo(FractionDigits) \in Nat
  BY <1>1, TenToSteps
<1> QED BY <1>1, <1>5, <1>6, DurationAssumption DEF NanosPerSecond

LEMMA ComponentText ==
  ASSUME NEW n \in DigitTexts, NEW unit \in Chars \ ToSet(Digits)
  PROVE  /\ Component(n, unit) \in Text
         /\ Component(n, unit) = <<>> <=> n = <<>>
         /\ n # <<>> => Component(n, unit) = n \o <<unit>>
         /\ \A c : c \notin ToSet(Digits) /\ c # unit => ~Holds(Component(n, unit), c)
<1>1. n \in Text /\ <<unit>> \in Text
  BY DigitsOrNothing, Concat
<1>2. CASE n = <<>>
  BY <1>1, <1>2, HoldsFew DEF Component
<1>3. CASE n # <<>>
  <2>1. Component(n, unit) = n \o <<unit>>
    BY <1>1, <1>3, Concat DEF Component
  <2>2. n \o <<unit>> \in Text /\ n \o <<unit>> # <<>>
    BY <1>1, LastOf
  <2>3. ASSUME NEW c, c \notin ToSet(Digits), c # unit
        PROVE  ~Holds(Component(n, unit), c)
    <3>1. ~Holds(n, c) /\ ~Holds(<<unit>>, c)
      BY <2>3, DigitsOrNothing, HoldsFew
    <3> QED BY <1>1, <2>1, <3>1, HoldsConcat
  <2> QED BY <1>3, <2>1, <2>2, <2>3
<1> QED BY <1>2, <1>3

LEMMA DigitsParsed ==
  ASSUME NEW n \in DigitTexts, n # <<>>
  PROVE  ParseDigits(n) = Fits({NumberOf(n)})
BY DigitsOrNothing DEF ParseDigits

\* A component is taken for what it means, whatever follows it.
LEMMA TakeWritten ==
  ASSUME NEW n \in DigitTexts, NEW unit \in Chars \ ToSet(Digits),
         NEW rest \in Text, n = <<>> => ~Holds(rest, unit), NEW k \in Nat \ {0}
  PROVE  TakeComponent(Component(n, unit) \o rest, unit, k)
           = [seconds |-> Fits({NumberOf(n) * k}), left |-> rest]
<1>1. PICK s : s = Component(n, unit) \o rest
  OBVIOUS
<1>2. NumberOf(n) \in Nat /\ n \in Text /\ <<unit>> \in Text
  BY NumberType, DigitsOrNothing, Concat
<1>3. CASE n = <<>>
  <2>1. s = rest
    BY <1>1, <1>3, Concat DEF Component
  <2>2. NumberOf(n) * k = 0
    BY <1>3, NumberEmpty
  <2>3. TakeComponent(rest, unit, k) = [seconds |-> {0}, left |-> rest]
    BY <1>3 DEF TakeComponent
  <2>4. Fits({NumberOf(n) * k}) = {0}
    BY <2>2, Room
  <2> QED BY <1>1, <2>1, <2>3, <2>4
<1>4. CASE n # <<>>
  <2>1. s = n \o (<<unit>> \o rest)
    <3>1. Component(n, unit) = n \o <<unit>>
      BY <1>4, ComponentText
    <3>2. (n \o <<unit>>) \o rest = n \o (<<unit>> \o rest)
      BY <1>2, Concat
    <3> QED BY <1>1, <3>1, <3>2
  <2>2. ~Holds(n, unit)
    BY DigitsOrNothing
  <2>3. Holds(s, unit) /\ Before(s, unit) = n /\ After(s, unit) = rest
    BY <1>2, <2>1, <2>2, Split
  <2>4. CheckedMul(Fits({NumberOf(n)}), k) = Fits({NumberOf(n) * k})
    BY <1>2, Room
  <2>5. ParseDigits(n) = Fits({NumberOf(n)})
    BY <1>4, DigitsParsed
  <2> QED BY <1>1, <2>3, <2>4, <2>5 DEF TakeComponent
<1> QED BY <1>3, <1>4

\* And whatever is taken for a component was one.
LEMMA TakeTaken ==
  ASSUME NEW s \in Text, NEW unit \in Chars \ ToSet(Digits), NEW k,
         TakeComponent(s, unit, k).seconds # {}
  PROVE  /\ TakeComponent(s, unit, k).left \in Text
         /\ \E n \in DigitTexts :
              /\ s = Component(n, unit) \o TakeComponent(s, unit, k).left
              /\ n = <<>> => ~Holds(TakeComponent(s, unit, k).left, unit)
<1>1. CASE ~Holds(s, unit)
  <2>1. TakeComponent(s, unit, k).left = s
    BY <1>1 DEF TakeComponent
  <2>2. s = Component(<<>>, unit) \o s
    BY Concat DEF Component
  <2> QED BY <1>1, <2>1, <2>2, DigitsOrNothing
<1>2. CASE Holds(s, unit)
  <2>1. PICK n, r : n = Before(s, unit) /\ r = After(s, unit)
    OBVIOUS
  <2>2. TakeComponent(s, unit, k) = [seconds |-> CheckedMul(ParseDigits(n), k), left |-> r]
    BY <1>2, <2>1 DEF TakeComponent
  <2>3. CheckedMul(ParseDigits(n), k) # {}
    BY <2>2
  <2>4. ParseDigits(n) # {}
    BY <2>3, NoRoom
  <2>5. n \in Text /\ r \in Text /\ s = n \o (<<unit>> \o r)
    BY <1>2, <2>1, Joined
  <2>6. n \in DigitTexts /\ n # <<>>
    BY <2>4, <2>5, DigitsOrNothing DEF ParseDigits
  <2>7. s = Component(n, unit) \o r
    <3>1. <<unit>> \in Text
      BY Concat
    <3>2. Component(n, unit) = n \o <<unit>>
      BY <2>6, ComponentText
    <3>3. (n \o <<unit>>) \o r = n \o (<<unit>> \o r)
      BY <2>5, <3>1, Concat
    <3> QED BY <2>5, <3>2, <3>3
  <2>8. TakeComponent(s, unit, k).left = r
    BY <2>2
  <2> QED BY <2>5, <2>6, <2>7, <2>8
<1> QED BY <1>1, <1>2

-----------------------------------------------------------------------------
(* The seconds, and the sign that from_str takes before them *)

Signs == {<<>>, <<"+">>}
Point(fraction) == IF fraction = <<>> THEN <<>> ELSE <<".">>

FractionTexts == {f \in DigitTexts : Len(f) <= FractionDigits}

SecondsText(sign, seconds, fraction) ==
  IF seconds = <<>> THEN <<>>
  ELSE ((sign \o seconds) \o (Point(fraction) \o fraction)) \o <<"S">>

FractionOf(f) == NumberOf(f) * TenTo(FractionDigits - Len(f))

LEMMA U64Written ==
  ASSUME NEW sign \in Signs, NEW n \in DigitTexts, n # <<>>
  PROVE  ParseU64(sign \o n) = Fits({NumberOf(n)})
<1>1. n \in Text /\ Len(n) \in Nat /\ Len(n) # 0
  BY DEF DigitTexts, Text
<1>2. CASE sign = <<>>
  <2>1. sign \o n = n
    BY <1>1, <1>2, Concat
  <2>2. n[1] \in ToSet(Digits)
    BY <1>1 DEF DigitTexts
  <2>3. n[1] # "+"
    BY <2>2, NoDigits
  <2>4. ParseU64(n) = ParseDigits(n)
    BY <2>3 DEF ParseU64
  <2> QED BY <2>1, <2>4, DigitsParsed
<1>3. CASE sign = <<"+">>
  <2>1. PICK s : s = sign \o n
    OBVIOUS
  <2>2. "+" \in Chars
    BY GrammarCharacters
  <2>3. s[1] = "+" /\ Len(s) = Len(n) + 1 /\ Tail(s) = n
    BY <1>1, <1>3, <2>1, <2>2, FirstOf
  <2>4. Len(s) > 1
    BY <1>1, <2>3
  <2>5. ParseU64(s) = ParseDigits(Tail(s))
    BY <2>3, <2>4 DEF ParseU64
  <2> QED BY <2>1, <2>3, <2>5, DigitsParsed
<1> QED BY <1>2, <1>3 DEF Signs

LEMMA U64Taken ==
  ASSUME NEW s \in Text, ParseU64(s) # {}
  PROVE  \E sign \in Signs, n \in DigitTexts : n # <<>> /\ s = sign \o n
<1>1. CASE Len(s) > 1 /\ s[1] = "+"
  <2>1. s # <<>>
    BY <1>1
  <2>2. Tail(s) \in Text /\ s = <<"+">> \o Tail(s)
    BY <1>1, <2>1, FirstTaken
  <2>3. ParseDigits(Tail(s)) # {}
    BY <1>1 DEF ParseU64
  <2>4. Tail(s) \in DigitTexts /\ Tail(s) # <<>>
    BY <2>2, <2>3, DigitsOrNothing DEF ParseDigits
  <2> QED BY <2>2, <2>4 DEF Signs
<1>2. CASE ~(Len(s) > 1 /\ s[1] = "+")
  <2>1. ParseDigits(s) # {}
    BY <1>2 DEF ParseU64
  <2>2. s \in DigitTexts /\ s # <<>>
    BY <2>1, DigitsOrNothing DEF ParseDigits
  <2>3. s = <<>> \o s
    BY Concat
  <2> QED BY <2>2, <2>3 DEF Signs
<1> QED BY <1>1, <1>2

LEMMA FractionType ==
  ASSUME NEW f \in FractionTexts
  PROVE  /\ f \in DigitTexts /\ f \in Text /\ FractionDigits - Len(f) \in Nat
         /\ FractionOf(f) \in Nat
<1>1. f \in DigitTexts /\ f \in Text /\ Len(f) \in Nat /\ Len(f) <= FractionDigits
  BY DEF FractionTexts, DigitTexts, Text
<1>2. FractionDigits - Len(f) \in Nat
  BY <1>1, Units
<1>3. TenTo(FractionDigits - Len(f)) \in Nat
  BY <1>2, TenToSteps
<1>4. NumberOf(f) \in Nat
  BY <1>1, NumberType
<1> QED BY <1>1, <1>2, <1>3, <1>4 DEF FractionOf

LEMMA FractionWritten ==
  ASSUME NEW f \in FractionTexts, f # <<>>
  PROVE  Fraction(f) = Fits({FractionOf(f)})
<1>1. f \in DigitTexts /\ f \in Text /\ FractionDigits - Len(f) \in Nat
  BY FractionType
<1>2. PICK N : N = FractionDigits - Len(f)
  OBVIOUS
<1>3. PICK z : z = [i \in 1..N |-> "0"]
  OBVIOUS
<1>4. Padded(f) = f \o z
  BY <1>2, <1>3 DEF Padded
<1>5. f \o z \in DigitTexts /\ NumberOf(f \o z) = NumberOf(f) * TenTo(N)
  BY <1>1, <1>2, <1>3, NumberPadded
<1>6. f \o z # <<>>
  <2>1. z \in Text
    <3>1. "0" \in Chars
      BY DEF Chars, ToSet, Digits
    <3> QED BY <1>1, <1>2, <1>3, <3>1 DEF Text
  <2> QED BY <1>1, <2>1, ConcatEmpty
<1>7. ParseDigits(Padded(f)) = Fits({FractionOf(f)})
  BY <1>2, <1>4, <1>5, <1>6, DigitsParsed DEF FractionOf
<1>8. AllDigits(f) /\ Len(f) <= FractionDigits
  BY <1>1, DigitsOrNothing DEF FractionTexts
<1> QED BY <1>7, <1>8 DEF Fraction

LEMMA FractionTaken ==
  ASSUME NEW f \in Text, Fraction(f) # {}
  PROVE  f \in FractionTexts /\ f # <<>>
BY DigitsOrNothing DEF Fraction, FractionTexts

\* What stands before the unit of the seconds.
LEMMA SecondsBody ==
  ASSUME NEW sign \in Signs, NEW n \in DigitTexts, NEW f \in DigitTexts
  PROVE  /\ sign \in Text /\ sign \o n \in Text
         /\ Point(f) \o f \in Text
         /\ (sign \o n) \o (Point(f) \o f) \in Text
         /\ \A c : c \notin ToSet(Digits) /\ c \notin {"+", "."} =>
              ~Holds((sign \o n) \o (Point(f) \o f), c)
         /\ ~Holds(sign \o n, ".")
<1>1. "+" \in Chars /\ "." \in Chars
  BY GrammarCharacters
<1>2. sign \in Text /\ n \in Text /\ Point(f) \in Text /\ f \in Text
  BY <1>1, Concat, DigitsOrNothing DEF Signs, Point
<1>3. sign \o n \in Text /\ Point(f) \o f \in Text
  BY <1>2, Concat
<1>4. (sign \o n) \o (Point(f) \o f) \in Text
  BY <1>3, Concat
<1>5. \A c : c # "+" => ~Holds(sign, c)
  <2>1. \A c : c # "+" => ~Holds(<<"+">>, c)
    BY HoldsFew
  <2> QED BY <2>1, HoldsFew DEF Signs
<1>6. \A c : c # "." => ~Holds(Point(f), c)
  BY HoldsFew DEF Point
<1>7. ASSUME NEW c, c \notin ToSet(Digits), c # "+" PROVE ~Holds(sign \o n, c)
  BY <1>2, <1>5, <1>7, DigitsOrNothing, HoldsConcat
<1>8. ASSUME NEW c, c \notin ToSet(Digits), c # "." PROVE ~Holds(Point(f) \o f, c)
  BY <1>2, <1>6, <1>8, DigitsOrNothing, HoldsConcat
<1>9. ASSUME NEW c, c \notin ToSet(Digits), c \notin {"+", "."}
      PROVE  ~Holds((sign \o n) \o (Point(f) \o f), c)
  BY <1>3, <1>7, <1>8, <1>9, HoldsConcat
<1>10. "." \notin ToSet(Digits) /\ "." # "+"
  BY NoDigits
<1> QED BY <1>2, <1>3, <1>4, <1>7, <1>9, <1>10

LEMMA SecondsWritten ==
  ASSUME NEW sign \in Signs, NEW n \in DigitTexts, NEW f \in FractionTexts,
         n = <<>> => f = <<>>
  PROVE  TakeSeconds(SecondsText(sign, n, f))
           = [seconds |-> Fits({NumberOf(n)}), nanos |-> Fits({FractionOf(f)})]
<1>1. f \in DigitTexts /\ f \in Text /\ FractionOf(f) \in Nat /\ FractionDigits - Len(f) \in Nat
  BY FractionType
<1>2. f = <<>> => FractionOf(f) = 0
  <2>1. TenTo(FractionDigits - Len(f)) \in Nat
    BY <1>1, TenToSteps
  <2> QED BY <2>1, NumberEmpty DEF FractionOf
<1>3. f = <<>> => Fits({FractionOf(f)}) = {0}
  BY <1>2, Room
<1>4. CASE n = <<>>
  <2>1. f = <<>> /\ SecondsText(sign, n, f) = <<>>
    BY <1>4 DEF SecondsText
  <2>2. Fits({NumberOf(n)}) = {0}
    BY <1>4, NumberEmpty, Room
  <2>3. TakeSeconds(<<>>) = [seconds |-> {0}, nanos |-> {0}]
    BY DEF TakeSeconds
  <2> QED BY <1>3, <2>1, <2>2, <2>3
<1>5. CASE n # <<>>
  <2>1. PICK a, b : a = sign \o n /\ b = (sign \o n) \o (Point(f) \o f)
    OBVIOUS
  <2>2. PICK s : s = b \o <<"S">>
    OBVIOUS
  <2>3. SecondsText(sign, n, f) = s
    BY <1>5, <2>1, <2>2 DEF SecondsText
  <2>4. a \in Text /\ b \in Text /\ ~Holds(a, ".") /\ Point(f) \o f \in Text
    BY <1>1, <2>1, SecondsBody
  <2>5. s # <<>> /\ s[Len(s)] = "S" /\ Front(s) = b
    <3>1. "S" \in Chars
      BY GrammarCharacters
    <3> QED BY <2>2, <2>4, <3>1, LastOf
  <2>6. ParseU64(a) = Fits({NumberOf(n)})
    BY <1>5, <2>1, U64Written
  <2>7. CASE f = <<>>
    <3>1. Point(f) \o f = <<>>
      BY <2>7, Concat DEF Point
    <3>2. b = a
      BY <2>1, <2>4, <3>1, Concat
    <3>3. TakeSeconds(s) = [seconds |-> ParseU64(a), nanos |-> {0}]
      BY <2>4, <2>5, <3>2 DEF TakeSeconds
    <3> QED BY <1>3, <2>3, <2>6, <2>7, <3>3
  <2>8. CASE f # <<>>
    <3>1. b = a \o (<<".">> \o f)
      BY <2>1, <2>8 DEF Point
    <3>2. "." \in Chars
      BY GrammarCharacters
    <3>3. Holds(b, ".") /\ Before(b, ".") = a /\ After(b, ".") = f
      BY <1>1, <2>4, <3>1, <3>2, Split
    <3>4. TakeSeconds(s) = [seconds |-> ParseU64(a), nanos |-> Fraction(f)]
      BY <2>5, <3>3 DEF TakeSeconds
    <3>5. Fraction(f) = Fits({FractionOf(f)})
      BY <2>8, FractionWritten
    <3> QED BY <2>3, <2>6, <3>4, <3>5
  <2> QED BY <2>7, <2>8
<1> QED BY <1>4, <1>5

LEMMA SecondsTaken ==
  ASSUME NEW s \in Text, TakeSeconds(s).seconds # {}, TakeSeconds(s).nanos # {}
  PROVE  \E sign \in Signs, n \in DigitTexts, f \in FractionTexts :
           s = SecondsText(sign, n, f) /\ (n = <<>> => sign = <<>> /\ f = <<>>)
<1>1. <<>> \in FractionTexts
  BY DigitsOrNothing, Units DEF FractionTexts
<1>2. CASE s = <<>>
  <2>1. s = SecondsText(<<>>, <<>>, <<>>)
    BY <1>2 DEF SecondsText
  <2>2. <<>> \in Signs /\ <<>> \in DigitTexts
    BY DigitsOrNothing DEF Signs
  <2> QED BY <1>1, <2>1, <2>2
<1>3. CASE s # <<>>
  <2>1. s[Len(s)] = "S"
    <3>1. s[Len(s)] # "S" => TakeSeconds(s) = [seconds |-> {}, nanos |-> {}]
      BY <1>3 DEF TakeSeconds
    <3> QED BY <3>1
  <2>2. PICK b : b = Front(s)
    OBVIOUS
  <2>3. b \in Text /\ s = b \o <<"S">>
    BY <1>3, <2>1, <2>2, LastTaken
  <2>4. CASE ~Holds(b, ".")
    <3>1. TakeSeconds(s) = [seconds |-> ParseU64(b), nanos |-> {0}]
      BY <1>3, <2>1, <2>2, <2>4 DEF TakeSeconds
    <3>2. PICK sign \in Signs, n \in DigitTexts : n # <<>> /\ b = sign \o n
      <4>1. ParseU64(b) # {}
        BY <3>1
      <4> QED BY <2>3, <4>1, U64Taken
    <3>3. Point(<<>>) \o <<>> = <<>> /\ b \o <<>> = b
      BY <2>3, Concat DEF Point
    <3>4. s = SecondsText(sign, n, <<>>)
      BY <2>3, <3>2, <3>3 DEF SecondsText
    <3> QED BY <1>1, <3>2, <3>4
  <2>5. CASE Holds(b, ".")
    <3>1. PICK a, f : a = Before(b, ".") /\ f = After(b, ".")
      OBVIOUS
    <3>2. TakeSeconds(s) = [seconds |-> ParseU64(a), nanos |-> Fraction(f)]
      BY <1>3, <2>1, <2>2, <2>5, <3>1 DEF TakeSeconds
    <3>3. ParseU64(a) # {} /\ Fraction(f) # {}
      BY <3>2
    <3>4. "." \in Chars
      BY GrammarCharacters
    <3>5. a \in Text /\ f \in Text /\ b = a \o (<<".">> \o f)
      BY <2>3, <2>5, <3>1, <3>4, Joined
    <3>6. PICK sign \in Signs, n \in DigitTexts : n # <<>> /\ a = sign \o n
      BY <3>3, <3>5, U64Taken
    <3>7. f \in FractionTexts /\ f # <<>>
      BY <3>3, <3>5, FractionTaken
    <3>8. s = SecondsText(sign, n, f)
      BY <2>3, <3>5, <3>6, <3>7 DEF SecondsText, Point
    <3> QED BY <3>6, <3>7, <3>8
  <2> QED BY <2>4, <2>5
<1> QED BY <1>2, <1>3

-----------------------------------------------------------------------------
(* A whole text *)

\* What the parts of a text may be, were every numeral allowed.
Parts ==
  {p \in [days : DigitTexts, hours : DigitTexts, minutes : DigitTexts,
          seconds : DigitTexts, fraction : FractionTexts] :
     /\ \E member \in {"days", "hours", "minutes", "seconds"} : p[member] # <<>>
     /\ p.fraction # <<>> => p.seconds # <<>>}

Seconds(p, sign) == SecondsText(sign, p.seconds, p.fraction)
Clock(p, sign) == Component(p.hours, "H") \o (Component(p.minutes, "M") \o Seconds(p, sign))
Timed(time) == IF time = <<>> THEN <<>> ELSE <<"T">> \o time
SignedText(p, sign) == <<"P">> \o (Component(p.days, "D") \o Timed(Clock(p, sign)))

LEMMA PartsType ==
  ASSUME NEW p \in Parts
  PROVE  /\ p.days \in DigitTexts /\ p.hours \in DigitTexts /\ p.minutes \in DigitTexts
         /\ p.seconds \in DigitTexts /\ p.fraction \in FractionTexts
         /\ p.fraction \in DigitTexts
         /\ p.seconds = <<>> => p.fraction = <<>>
         /\ p.days # <<>> \/ p.hours # <<>> \/ p.minutes # <<>> \/ p.seconds # <<>>
BY DEF Parts, FractionTexts

LEMMA UnitCharacters ==
  {"P", "T", "Y", "D", "H", "M", "S", ".", "+"} \subseteq Chars \ ToSet(Digits)
BY GrammarCharacters, NoDigits

LEMMA SecondsType ==
  ASSUME NEW p \in Parts, NEW sign \in Signs
  PROVE  /\ Seconds(p, sign) \in Text
         /\ Seconds(p, sign) = <<>> <=> p.seconds = <<>>
         /\ \A c : c \notin ToSet(Digits) /\ c \notin {"S", "+", "."} =>
              ~Holds(Seconds(p, sign), c)
<1>1. PICK b : b = (sign \o p.seconds) \o (Point(p.fraction) \o p.fraction)
  OBVIOUS
<1>2. /\ b \in Text
      /\ \A c : c \notin ToSet(Digits) /\ c \notin {"+", "."} => ~Holds(b, c)
  BY <1>1, PartsType, SecondsBody
<1>3. "S" \in Chars
  BY GrammarCharacters
<1>4. CASE p.seconds = <<>>
  BY <1>4, Concat, HoldsFew DEF Seconds, SecondsText
<1>5. CASE p.seconds # <<>>
  <2>1. Seconds(p, sign) = b \o <<"S">>
    BY <1>1, <1>5 DEF Seconds, SecondsText
  <2>2. b \o <<"S">> \in Text /\ b \o <<"S">> # <<>> /\ <<"S">> \in Text
    BY <1>2, <1>3, LastOf, Concat
  <2>3. ASSUME NEW c, c \notin ToSet(Digits), c \notin {"S", "+", "."}
        PROVE  ~Holds(b \o <<"S">>, c)
    <3>1. ~Holds(b, c) /\ ~Holds(<<"S">>, c)
      BY <1>2, <2>3, HoldsFew
    <3> QED BY <1>2, <2>2, <3>1, HoldsConcat
  <2> QED BY <1>5, <2>1, <2>2, <2>3
<1> QED BY <1>4, <1>5

\* A time of day, its characters and its parts.
LEMMA ClockType ==
  ASSUME NEW p \in Parts, NEW sign \in Signs
  PROVE  /\ Clock(p, sign) \in Text
         /\ Component(p.minutes, "M") \o Seconds(p, sign) \in Text
         /\ Clock(p, sign) = <<>> <=> p.hours = <<>> /\ p.minutes = <<>> /\ p.seconds = <<>>
         /\ \A c : c \notin ToSet(Digits) /\ c \notin {"H", "M", "S", "+", "."} =>
              ~Holds(Clock(p, sign), c)
         /\ ~Holds(Component(p.minutes, "M") \o Seconds(p, sign), "H")
         /\ ~Holds(Seconds(p, sign), "M")
<1>1. PICK h, m, s : /\ h = Component(p.hours, "H") /\ m = Component(p.minutes, "M")
                     /\ s = Seconds(p, sign)
  OBVIOUS
<1>2. /\ h \in Text /\ (h = <<>> <=> p.hours = <<>>)
      /\ \A c : c \notin ToSet(Digits) /\ c # "H" => ~Holds(h, c)
  BY <1>1, PartsType, UnitCharacters, ComponentText
<1>3. /\ m \in Text /\ (m = <<>> <=> p.minutes = <<>>)
      /\ \A c : c \notin ToSet(Digits) /\ c # "M" => ~Holds(m, c)
  BY <1>1, PartsType, UnitCharacters, ComponentText
<1>4. /\ s \in Text /\ (s = <<>> <=> p.seconds = <<>>)
      /\ \A c : c \notin ToSet(Digits) /\ c \notin {"S", "+", "."} => ~Holds(s, c)
  BY <1>1, SecondsType
<1>5. m \o s \in Text /\ h \o (m \o s) \in Text
  BY <1>2, <1>3, <1>4, Concat
<1>6. h \o (m \o s) = <<>> <=> h = <<>> /\ m = <<>> /\ s = <<>>
  BY <1>2, <1>3, <1>4, <1>5, ConcatEmpty
<1>7. ASSUME NEW c, c \notin ToSet(Digits), c \notin {"M", "S", "+", "."}
      PROVE  ~Holds(m \o s, c)
  <2>1. ~Holds(m, c) /\ ~Holds(s, c)
    BY <1>3, <1>4, <1>7
  <2> QED BY <1>3, <1>4, <2>1, HoldsConcat
<1>8. ASSUME NEW c, c \notin ToSet(Digits), c \notin {"H", "M", "S", "+", "."}
      PROVE  ~Holds(h \o (m \o s), c)
  <2>1. ~Holds(h, c) /\ ~Holds(m \o s, c)
    BY <1>2, <1>7, <1>8
  <2> QED BY <1>2, <1>5, <2>1, HoldsConcat
<1>9. "H" \notin ToSet(Digits) /\ "M" \notin ToSet(Digits)
  BY NoDigits
<1>10. ~Holds(m \o s, "H") /\ ~Holds(s, "M")
  BY <1>4, <1>7, <1>9
<1>11. Clock(p, sign) = h \o (m \o s)
  BY <1>1 DEF Clock
<1> QED BY <1>1, <1>2, <1>3, <1>4, <1>5, <1>6, <1>8, <1>10, <1>11

LEMMA TimedType ==
  ASSUME NEW time \in Text
  PROVE  /\ Timed(time) \in Text /\ (Timed(time) = <<>> <=> time = <<>>)
         /\ \A c : c # "T" /\ ~Holds(time, c) => ~Holds(Timed(time), c)
<1>1. "T" \in Chars
  BY GrammarCharacters
<1>2. <<"T">> \in Text
  BY <1>1, Concat
<1>3. <<"T">> \o time \in Text /\ <<"T">> \o time # <<>>
  BY <1>1, FirstOf
<1>4. ASSUME NEW c, c # "T", ~Holds(time, c) PROVE ~Holds(<<"T">> \o time, c)
  <2>1. ~Holds(<<"T">>, c)
    BY <1>4, HoldsFew
  <2> QED BY <1>2, <1>4, <2>1, HoldsConcat
<1> QED BY <1>3, <1>4, Concat, HoldsFew DEF Timed

\* The seconds of a date, and the nanoseconds of a date and a time.
LEMMA DateWritten ==
  ASSUME NEW n \in DigitTexts
  PROVE  DateSeconds(Component(n, "D")) = Fits({NumberOf(n) * SecondsPerDay})
<1>1. Component(n, "D") \in Text /\ "D" \in Chars \ ToSet(Digits)
  BY UnitCharacters, ComponentText
<1>2. Component(n, "D") \o <<>> = Component(n, "D")
  BY <1>1, Concat
<1>3. <<>> \in Text /\ ~Holds(<<>>, "D") /\ SecondsPerDay \in Nat \ {0}
  BY Concat, HoldsFew, Units
<1>4. TakeComponent(Component(n, "D") \o <<>>, "D", SecondsPerDay)
        = [seconds |-> Fits({NumberOf(n) * SecondsPerDay}), left |-> <<>>]
  BY <1>1, <1>3, TakeWritten
<1> QED BY <1>2, <1>4 DEF DateSeconds

LEMMA MeantType ==
  ASSUME NEW p \in Parts
  PROVE  /\ NumberOf(p.days) \in Nat /\ NumberOf(p.hours) \in Nat
         /\ NumberOf(p.minutes) \in Nat /\ NumberOf(p.seconds) \in Nat
         /\ FractionOf(p.fraction) \in Nat
         /\ SecondsPerDay \in Nat \ {0} /\ SecondsPerHour \in Nat \ {0}
         /\ SecondsPerMinute \in Nat \ {0} /\ NanosPerSecond \in Nat \ {0}
BY PartsType, NumberType, FractionType, Units

LEMMA ClockWritten ==
  ASSUME NEW p \in Parts, NEW sign \in Signs
  PROVE  TimeNanos(Component(p.days, "D"), Clock(p, sign)) = Fits({Meant(p)})
<1>1. PICK d, h, m, s, f :
        /\ d = NumberOf(p.days) * SecondsPerDay /\ h = NumberOf(p.hours) * SecondsPerHour
        /\ m = NumberOf(p.minutes) * SecondsPerMinute /\ s = NumberOf(p.seconds)
        /\ f = FractionOf(p.fraction)
  OBVIOUS
<1>2. d \in Nat /\ h \in Nat /\ m \in Nat /\ s \in Nat /\ f \in Nat /\ NanosPerSecond \in Nat \ {0}
  BY <1>1, MeantType
<1>3. PICK y, z : y = Component(p.minutes, "M") \o z /\ z = Seconds(p, sign)
  OBVIOUS
<1>4. Clock(p, sign) = Component(p.hours, "H") \o y
  BY <1>3 DEF Clock
<1>5. y \in Text /\ z \in Text /\ ~Holds(y, "H") /\ ~Holds(z, "M")
  BY <1>3, SecondsType, ClockType
<1>6. TakeComponent(Component(p.hours, "H") \o y, "H", SecondsPerHour)
        = [seconds |-> Fits({h}), left |-> y]
  BY <1>1, <1>5, PartsType, UnitCharacters, Units, TakeWritten
<1>7. TakeComponent(y, "M", SecondsPerMinute) = [seconds |-> Fits({m}), left |-> z]
  BY <1>1, <1>3, <1>5, PartsType, UnitCharacters, Units, TakeWritten
<1>8. TakeSeconds(z) = [seconds |-> Fits({s}), nanos |-> Fits({f})]
  BY <1>1, <1>3, PartsType, SecondsWritten DEF Seconds
<1>9. DateSeconds(Component(p.days, "D")) = Fits({d})
  BY <1>1, PartsType, DateWritten
<1>10. TimeNanos(Component(p.days, "D"), Clock(p, sign))
         = CheckedAdd(CheckedMul(CheckedAdd(CheckedAdd(CheckedAdd(Fits({d}), Fits({h})), Fits({m})),
                                            Fits({s})),
                                 NanosPerSecond),
                      Fits({f}))
  <2>1. PICK date, time, hours, minutes, rest :
          /\ date = Component(p.days, "D") /\ time = Clock(p, sign)
          /\ hours = TakeComponent(time, "H", SecondsPerHour)
          /\ minutes = TakeComponent(hours.left, "M", SecondsPerMinute)
          /\ rest = TakeSeconds(minutes.left)
    OBVIOUS
  <2>2. hours = [seconds |-> Fits({h}), left |-> y]
    BY <1>4, <1>6, <2>1
  <2>3. hours.left = y /\ hours.seconds = Fits({h})
    BY <2>2
  <2>4. minutes = [seconds |-> Fits({m}), left |-> z]
    BY <1>7, <2>1, <2>3
  <2>5. minutes.left = z /\ minutes.seconds = Fits({m})
    BY <2>4
  <2>6. rest = [seconds |-> Fits({s}), nanos |-> Fits({f})]
    BY <1>8, <2>1, <2>5
  <2>7. rest.seconds = Fits({s}) /\ rest.nanos = Fits({f})
    BY <2>6
  <2>8. TimeNanos(date, time)
          = CheckedAdd(CheckedMul(CheckedAdd(CheckedAdd(CheckedAdd(DateSeconds(date), hours.seconds),
                                                        minutes.seconds), rest.seconds),
                                  NanosPerSecond), rest.nanos)
    BY <2>1 DEF TimeNanos
  <2>9. DateSeconds(date) = Fits({d})
    BY <1>9, <2>1
  <2> QED BY <2>1, <2>3, <2>5, <2>7, <2>8, <2>9
<1>11. CheckedAdd(CheckedAdd(CheckedAdd(Fits({d}), Fits({h})), Fits({m})), Fits({s}))
         = Fits({((d + h) + m) + s})
  <2>1. d + h \in Nat /\ (d + h) + m \in Nat
    BY <1>2
  <2>2. CheckedAdd(Fits({d}), Fits({h})) = Fits({d + h})
    BY <1>2, Room
  <2>3. CheckedAdd(Fits({d + h}), Fits({m})) = Fits({(d + h) + m})
    BY <1>2, <2>1, Room
  <2>4. CheckedAdd(Fits({(d + h) + m}), Fits({s})) = Fits({((d + h) + m) + s})
    BY <1>2, <2>1, Room
  <2> QED BY <2>2, <2>3, <2>4
<1>12. PICK a : a = ((d + h) + m) + s
  OBVIOUS
<1>13. a \in Nat /\ a * NanosPerSecond \in Nat
  BY <1>2, <1>12
<1>14. CheckedMul(Fits({a}), NanosPerSecond) = Fits({a * NanosPerSecond})
  BY <1>2, <1>13, Room
<1>15. CheckedAdd(Fits({a * NanosPerSecond}), Fits({f})) = Fits({a * NanosPerSecond + f})
  BY <1>2, <1>13, Room
<1>16. Meant(p) = a * NanosPerSecond + f
  BY <1>1, <1>12 DEF Meant, FractionOf
<1> QED BY <1>10, <1>11, <1>12, <1>14, <1>15, <1>16

\* The text after the P, and what the parser finds in it.
LEMMA AfterP ==
  ASSUME NEW p \in Parts, NEW sign \in Signs
  PROVE  /\ Component(p.days, "D") \in Text /\ Clock(p, sign) \in Text
         /\ SignedText(p, sign) \in Text
         /\ Len(SignedText(p, sign)) >= 2 /\ SignedText(p, sign)[1] = "P"
         /\ Tail(SignedText(p, sign)) = Component(p.days, "D") \o Timed(Clock(p, sign))
         /\ ~Holds(SignedText(p, sign), "Y")
         /\ ~Holds(Component(p.days, "D"), "T") /\ ~Holds(Component(p.days, "D"), "M")
<1>1. PICK d, t, r : /\ d = Component(p.days, "D") /\ t = Clock(p, sign)
                     /\ r = d \o Timed(t)
  OBVIOUS
<1>2. /\ d \in Text /\ (d = <<>> <=> p.days = <<>>)
      /\ \A c : c \notin ToSet(Digits) /\ c # "D" => ~Holds(d, c)
  BY <1>1, PartsType, UnitCharacters, ComponentText
<1>3. /\ t \in Text /\ (t = <<>> <=> p.hours = <<>> /\ p.minutes = <<>> /\ p.seconds = <<>>)
      /\ \A c : c \notin ToSet(Digits) /\ c \notin {"H", "M", "S", "+", "."} => ~Holds(t, c)
  BY <1>1, ClockType
<1>4. {"Y", "T", "M"} \cap ToSet(Digits) = {} /\ "P" \in Chars
  BY NoDigits, GrammarCharacters
<1>5. ~Holds(d, "Y") /\ ~Holds(d, "T") /\ ~Holds(d, "M") /\ ~Holds(t, "Y")
  BY <1>2, <1>3, <1>4
<1>6. Timed(t) \in Text /\ (Timed(t) = <<>> <=> t = <<>>) /\ ~Holds(Timed(t), "Y")
  BY <1>3, <1>5, TimedType
<1>7. r \in Text /\ r # <<>> /\ ~Holds(r, "Y")
  <2>1. r \in Text
    BY <1>1, <1>2, <1>6, Concat
  <2>2. r # <<>>
    BY <1>1, <1>2, <1>3, <1>6, PartsType, ConcatEmpty
  <2>3. ~Holds(r, "Y")
    BY <1>1, <1>2, <1>5, <1>6, HoldsConcat
  <2> QED BY <2>1, <2>2, <2>3
<1>8. PICK s : s = <<"P">> \o r
  OBVIOUS
<1>9. s \in Text /\ s[1] = "P" /\ Len(s) = Len(r) + 1 /\ Tail(s) = r
  BY <1>4, <1>7, <1>8, FirstOf
<1>10. Len(s) >= 2
  <2>1. Len(r) \in Nat /\ Len(r) # 0
    BY <1>7 DEF Text
  <2> QED BY <1>9, <2>1
<1>11. ~Holds(s, "Y")
  <2>1. <<"P">> \in Text /\ ~Holds(<<"P">>, "Y")
    BY <1>4, Concat, HoldsFew
  <2> QED BY <1>7, <1>8, <2>1, HoldsConcat
<1>12. SignedText(p, sign) = s
  BY <1>1, <1>8 DEF SignedText
<1> QED BY <1>1, <1>2, <1>3, <1>5, <1>9, <1>10, <1>11, <1>12

\* A text with or without a sign before its seconds is parsed to what it means.
LEMMA ParseWritten ==
  ASSUME NEW p \in Parts, NEW sign \in Signs
  PROVE  Parse(SignedText(p, sign)) = Fits({Meant(p)})
<1>1. PICK d, t, r, s : /\ d = Component(p.days, "D") /\ t = Clock(p, sign)
                        /\ r = d \o Timed(t) /\ s = SignedText(p, sign)
  OBVIOUS
<1>2. /\ d \in Text /\ t \in Text /\ Len(s) >= 2 /\ s[1] = "P" /\ Tail(s) = r
      /\ ~Holds(s, "Y") /\ ~Holds(d, "T") /\ ~Holds(d, "M") /\ Len(s) \in Nat
  <2>1. s \in Text /\ Len(s) \in Nat
    BY <1>1, AfterP DEF Text
  <2> QED BY <1>1, <2>1, AfterP
<1>5. ~(Len(s) < 2 \/ s[1] # "P")
  BY <1>2
<1>3. CASE t = <<>>
  <2>1. r = d
    BY <1>1, <1>2, <1>3, Concat DEF Timed
  <2>2. ~Prohibited(s)
    BY <1>2, <2>1 DEF Prohibited, DatePart
  <2>16. ~Holds(Tail(s), "T") /\ Tail(s) = d
    BY <1>2, <2>1
  <2>3. Parse(s) = CheckedMul(DateSeconds(d), NanosPerSecond)
    BY <1>5, <2>2, <2>16 DEF Parse
  <2>4. DateSeconds(d) = Fits({NumberOf(p.days) * SecondsPerDay})
    BY <1>1, PartsType, DateWritten
  <2>5. PICK a : a = NumberOf(p.days) * SecondsPerDay
    OBVIOUS
  <2>6. a \in Nat /\ NanosPerSecond \in Nat \ {0}
    BY <2>5, MeantType
  <2>7. CheckedMul(Fits({a}), NanosPerSecond) = Fits({a * NanosPerSecond})
    BY <2>6, Room
  <2>8. p.hours = <<>> /\ p.minutes = <<>> /\ p.seconds = <<>> /\ p.fraction = <<>>
    BY <1>1, <1>3, ClockType, PartsType
  <2>9. /\ NumberOf(p.hours) = 0 /\ NumberOf(p.minutes) = 0 /\ NumberOf(p.seconds) = 0
        /\ NumberOf(p.fraction) = 0
    BY <2>8, NumberEmpty
  <2>10. PICK w : w = TenTo(FractionDigits - Len(p.fraction))
    OBVIOUS
  <2>11. w \in Nat
    <3>1. FractionDigits - Len(p.fraction) \in Nat
      BY PartsType, FractionType
    <3> QED BY <2>10, <3>1, TenToSteps
  <2>12. Meant(p) = (a + 0 * SecondsPerHour + 0 * SecondsPerMinute + 0) * NanosPerSecond + 0 * w
    BY <2>5, <2>9, <2>10 DEF Meant
  <2>13. 0 * SecondsPerHour = 0 /\ 0 * SecondsPerMinute = 0 /\ 0 * w = 0
    BY <2>11, MeantType
  <2>14. a + 0 + 0 + 0 = a /\ a * NanosPerSecond + 0 = a * NanosPerSecond
    BY <2>6
  <2>15. Meant(p) = a * NanosPerSecond
    BY <2>12, <2>13, <2>14
  <2> QED BY <1>1, <2>3, <2>4, <2>5, <2>7, <2>15
<1>4. CASE t # <<>>
  <2>1. r = d \o (<<"T">> \o t)
    BY <1>1, <1>4 DEF Timed
  <2>2. "T" \in Chars
    BY GrammarCharacters
  <2>3. Holds(r, "T") /\ Before(r, "T") = d /\ After(r, "T") = t
    BY <1>2, <2>1, <2>2, Split
  <2>4. ~Prohibited(s)
    BY <1>2, <2>3 DEF Prohibited, DatePart
  <2>5. Parse(s) = TimeNanos(d, t)
    <3>1. Holds(Tail(s), "T") /\ Before(Tail(s), "T") = d /\ After(Tail(s), "T") = t
      BY <1>2, <2>3
    <3> QED BY <1>4, <1>5, <2>4, <3>1 DEF Parse
  <2> QED BY <1>1, <2>5, ClockWritten
<1> QED BY <1>3, <1>4

\* Nothing else is parsed.
LEMMA DateTaken ==
  ASSUME NEW s \in Text, DateSeconds(s) # {}
  PROVE  \E n \in DigitTexts : s = Component(n, "D")
<1>1. PICK x : x = TakeComponent(s, "D", SecondsPerDay)
  OBVIOUS
<1>2. x.left = <<>> /\ x.seconds # {}
  BY <1>1 DEF DateSeconds
<1>3. "D" \in Chars \ ToSet(Digits)
  BY UnitCharacters
<1>6. TakeComponent(s, "D", SecondsPerDay).seconds # {}
  BY <1>1, <1>2
<1>7. \E n \in DigitTexts : s = Component(n, "D") \o TakeComponent(s, "D", SecondsPerDay).left
  BY <1>3, <1>6, TakeTaken
<1>4. PICK n \in DigitTexts : s = Component(n, "D") \o <<>>
  BY <1>1, <1>2, <1>7
<1>5. Component(n, "D") \in Text
  BY <1>3, ComponentText
<1> QED BY <1>4, <1>5, Concat

IsClock(time) ==
  \E h, m, n \in DigitTexts, f \in FractionTexts, sign \in Signs :
    /\ time = Component(h, "H") \o (Component(m, "M") \o SecondsText(sign, n, f))
    /\ n = <<>> => sign = <<>> /\ f = <<>>

LEMMA ClockTaken ==
  ASSUME NEW date \in Text, NEW time \in Text, TimeNanos(date, time) # {}
  PROVE  DateSeconds(date) # {} /\ IsClock(time)
<1>1. PICK hours, minutes, rest :
        /\ hours = TakeComponent(time, "H", SecondsPerHour)
        /\ minutes = TakeComponent(hours.left, "M", SecondsPerMinute)
        /\ rest = TakeSeconds(minutes.left)
  OBVIOUS
<1>2. PICK a, b, c, e :
        /\ a = CheckedAdd(DateSeconds(date), hours.seconds)
        /\ b = CheckedAdd(a, minutes.seconds)
        /\ c = CheckedAdd(b, rest.seconds)
        /\ e = CheckedMul(c, NanosPerSecond)
  OBVIOUS
<1>3. CheckedAdd(e, rest.nanos) # {}
  BY <1>1, <1>2 DEF TimeNanos
<1>4. e # {} /\ rest.nanos # {}
  BY <1>3, NoRoom
<1>5. c # {}
  BY <1>2, <1>4, NoRoom
<1>6. b # {} /\ rest.seconds # {}
  BY <1>2, <1>5, NoRoom
<1>7. a # {} /\ minutes.seconds # {}
  BY <1>2, <1>6, NoRoom
<1>8. DateSeconds(date) # {} /\ hours.seconds # {}
  BY <1>2, <1>7, NoRoom
<1>9. "H" \in Chars \ ToSet(Digits) /\ "M" \in Chars \ ToSet(Digits)
  BY UnitCharacters
<1>10. PICK y : y = hours.left
  OBVIOUS
<1>11. y \in Text /\ \E h \in DigitTexts : time = Component(h, "H") \o y
  <2>1. TakeComponent(time, "H", SecondsPerHour).seconds # {}
    BY <1>1, <1>8
  <2>2. /\ TakeComponent(time, "H", SecondsPerHour).left \in Text
        /\ \E h \in DigitTexts :
             time = Component(h, "H") \o TakeComponent(time, "H", SecondsPerHour).left
    BY <1>9, <2>1, TakeTaken
  <2> QED BY <1>1, <1>10, <2>2
<1>12. PICK z : z = minutes.left
  OBVIOUS
<1>13. z \in Text /\ \E m \in DigitTexts : y = Component(m, "M") \o z
  <2>1. minutes = TakeComponent(y, "M", SecondsPerMinute)
    BY <1>1, <1>10
  <2>2. TakeComponent(y, "M", SecondsPerMinute).seconds # {}
    BY <1>7, <2>1
  <2>3. /\ TakeComponent(y, "M", SecondsPerMinute).left \in Text
        /\ \E m \in DigitTexts :
             y = Component(m, "M") \o TakeComponent(y, "M", SecondsPerMinute).left
    BY <1>9, <1>11, <2>2, TakeTaken
  <2> QED BY <1>12, <2>1, <2>3
<1>14. rest = TakeSeconds(z)
  BY <1>1, <1>12
<1>15. \E sign \in Signs, n \in DigitTexts, f \in FractionTexts :
          z = SecondsText(sign, n, f) /\ (n = <<>> => sign = <<>> /\ f = <<>>)
  BY <1>4, <1>6, <1>13, <1>14, SecondsTaken
<1>16. PICK h \in DigitTexts : time = Component(h, "H") \o y
  BY <1>11
<1>17. PICK m \in DigitTexts : y = Component(m, "M") \o z
  BY <1>13
<1>18. PICK sign \in Signs, n \in DigitTexts, f \in FractionTexts :
          z = SecondsText(sign, n, f) /\ (n = <<>> => sign = <<>> /\ f = <<>>)
  BY <1>15
<1>19. time = Component(h, "H") \o (Component(m, "M") \o SecondsText(sign, n, f))
  BY <1>16, <1>17, <1>18
<1> QED BY <1>8, <1>18, <1>19 DEF IsClock

LEMMA ParseTaken ==
  ASSUME NEW t \in Text, Parse(t) # {}
  PROVE  \E p \in Parts, sign \in Signs :
           t = SignedText(p, sign) /\ (p.seconds = <<>> => sign = <<>>)
<1>1. Len(t) >= 2 /\ t[1] = "P" /\ Len(t) \in Nat /\ t # <<>>
  BY DEF Parse, Text
<1>2. PICK r : r = Tail(t)
  OBVIOUS
<1>3. r \in Text /\ r # <<>> /\ t = <<"P">> \o r
  <2>1. r \in Text /\ t = <<"P">> \o r
    BY <1>1, <1>2, FirstTaken
  <2>2. <<"P">> \in Text /\ Len(<<"P">>) = 1
    BY GrammarCharacters, Concat
  <2>3. <<"P">> \o <<>> = <<"P">>
    BY <2>2, Concat
  <2> QED BY <1>1, <2>1, <2>2, <2>3
<1>4. <<>> \in DigitTexts /\ <<>> \in FractionTexts /\ <<>> \in Signs
  BY DigitsOrNothing, Units DEF FractionTexts, Signs
<1>5. CASE ~Holds(r, "T")
  <2>1. Parse(t) = CheckedMul(DateSeconds(r), NanosPerSecond)
    BY <1>2, <1>5 DEF Parse
  <2>2. DateSeconds(r) # {}
    BY <2>1, NoRoom
  <2>3. PICK n \in DigitTexts : r = Component(n, "D")
    BY <1>3, <2>2, DateTaken
  <2>4. n # <<>>
    BY <1>3, <2>3 DEF Component
  <2> DEFINE p == [days |-> n, hours |-> <<>>, minutes |-> <<>>, seconds |-> <<>>,
                   fraction |-> <<>>]
  <2>5. p \in Parts
    BY <1>4, <2>4 DEF Parts
  <2>6. SignedText(p, <<>>) = t
    <3>1. Component(<<>>, "H") = <<>> /\ Component(<<>>, "M") = <<>> /\ Seconds(p, <<>>) = <<>>
      BY DEF Component, Seconds, SecondsText
    <3>2. Clock(p, <<>>) = <<>> \o (<<>> \o <<>>)
      BY <3>1 DEF Clock
    <3>3. Clock(p, <<>>) = <<>>
      BY <3>2, Concat
    <3>4. Timed(<<>>) = <<>>
      BY DEF Timed
    <3>5. SignedText(p, <<>>) = <<"P">> \o (Component(n, "D") \o <<>>)
      BY <3>3, <3>4 DEF SignedText
    <3> QED BY <1>3, <2>3, <3>5, Concat
  <2> QED BY <1>4, <2>5, <2>6
<1>6. CASE Holds(r, "T")
  <2>1. PICK a, b : a = Before(r, "T") /\ b = After(r, "T")
    OBVIOUS
  <2>2. b # <<>> /\ Parse(t) = TimeNanos(a, b)
    BY <1>2, <1>6, <2>1 DEF Parse
  <2>3. a \in Text /\ b \in Text /\ r = a \o (<<"T">> \o b)
    <3>1. "T" \in Chars
      BY GrammarCharacters
    <3> QED BY <1>3, <1>6, <2>1, <3>1, Joined
  <2>11. TimeNanos(a, b) # {}
    BY <2>2
  <2>4. DateSeconds(a) # {}
    BY <2>3, <2>11, ClockTaken
  <2>5. PICK n \in DigitTexts : a = Component(n, "D")
    BY <2>3, <2>4, DateTaken
  <2>6. PICK h, m, s \in DigitTexts, f \in FractionTexts, sign \in Signs :
          /\ b = Component(h, "H") \o (Component(m, "M") \o SecondsText(sign, s, f))
          /\ s = <<>> => sign = <<>> /\ f = <<>>
    <3>1. IsClock(b)
      BY <2>3, <2>11, ClockTaken
    <3> QED BY <3>1 DEF IsClock
  <2> DEFINE p == [days |-> n, hours |-> h, minutes |-> m, seconds |-> s, fraction |-> f]
  <2>7. Clock(p, sign) = b
    BY <2>6 DEF Clock, Seconds
  <2>8. h # <<>> \/ m # <<>> \/ s # <<>>
    <3> SUFFICES ASSUME h = <<>>, m = <<>>, s = <<>> PROVE FALSE
      OBVIOUS
    <3>1. Component(h, "H") = <<>> /\ Component(m, "M") = <<>> /\ SecondsText(sign, s, f) = <<>>
      BY DEF Component, SecondsText
    <3>2. b = <<>> \o (<<>> \o <<>>)
      BY <2>6, <3>1
    <3> QED BY <2>2, <3>2, Concat
  <2>9. p \in Parts
    BY <2>6, <2>8 DEF Parts
  <2>10. SignedText(p, sign) = t
    <3>1. Timed(b) = <<"T">> \o b
      BY <2>2 DEF Timed
    <3>2. SignedText(p, sign) = <<"P">> \o (Component(n, "D") \o Timed(b))
      BY <2>7 DEF SignedText
    <3> QED BY <1>3, <2>3, <2>5, <3>1, <3>2
  <2> QED BY <2>6, <2>9, <2>10
<1> QED BY <1>5, <1>6

-----------------------------------------------------------------------------
(* The texts of the grammar are those without a sign *)

LEMMA RenderedIsUnsigned ==
  ASSUME NEW p \in Parts
  PROVE  Rendered(p) = SignedText(p, <<>>)
<1>1. PICK h, m, d, n, q, f :
        /\ h = Component(p.hours, "H") /\ m = Component(p.minutes, "M")
        /\ d = Component(p.days, "D") /\ n = p.seconds /\ q = Point(p.fraction)
        /\ f = p.fraction
  OBVIOUS
<1>2. h \in Text /\ m \in Text /\ d \in Text
  BY <1>1, PartsType, UnitCharacters, ComponentText
<1>3. n \in Text /\ q \in Text /\ f \in Text /\ q \o f \in Text
  <2>1. "." \in Chars
    BY GrammarCharacters
  <2>2. n \in Text /\ f \in Text
    BY <1>1, PartsType, DigitsOrNothing
  <2>3. q \in Text
    BY <1>1, <2>1, Concat DEF Point
  <2> QED BY <2>2, <2>3, Concat
<1>4. PICK b : b = (n \o q) \o f
  OBVIOUS
<1>5. b = (<<>> \o n) \o (q \o f) /\ b \in Text
  <2>1. (n \o q) \o f = n \o (q \o f) /\ <<>> \o n = n /\ n \o (q \o f) \in Text
    BY <1>3, Concat
  <2> QED BY <1>4, <2>1
<1>6. Component(b, "S") = Seconds(p, <<>>)
  <2>1. CASE n = <<>>
    <3>1. f = <<>> /\ q = <<>>
      BY <1>1, <2>1, PartsType DEF Point
    <3>2. b = <<>>
      BY <1>4, <2>1, <3>1, Concat
    <3> QED BY <1>1, <2>1, <3>2 DEF Component, Seconds, SecondsText
  <2>2. CASE n # <<>>
    <3>1. b # <<>>
      <4>1. n \o q \in Text /\ n \o q # <<>>
        BY <1>3, <2>2, Concat, ConcatEmpty
      <4> QED BY <1>3, <1>4, <4>1, ConcatEmpty
    <3>2. "S" \in Chars
      BY GrammarCharacters
    <3>3. Component(b, "S") = b \o <<"S">>
      BY <1>5, <3>1, <3>2, Concat DEF Component
    <3> QED BY <1>1, <1>5, <2>2, <3>3 DEF Seconds, SecondsText
  <2> QED BY <2>1, <2>2
<1>7. PICK s : s = Seconds(p, <<>>)
  OBVIOUS
<1>8. s \in Text
  BY <1>7, SecondsType DEF Signs
<1>9. (h \o m) \o s = Clock(p, <<>>)
  <2>1. (h \o m) \o s = h \o (m \o s)
    BY <1>2, <1>8, Concat
  <2> QED BY <1>1, <1>7, <2>1 DEF Clock
<1>10. PICK t : t = Clock(p, <<>>)
  OBVIOUS
<1>11. t \in Text
  BY <1>10, ClockType DEF Signs
<1>12. Rendered(p) = (<<"P">> \o d) \o Timed(t)
  BY <1>1, <1>4, <1>6, <1>7, <1>9, <1>10 DEF Rendered, Timed, Point
<1>13. (<<"P">> \o d) \o Timed(t) = <<"P">> \o (d \o Timed(t))
  <2>1. "P" \in Chars /\ Timed(t) \in Text
    BY <1>11, GrammarCharacters, TimedType
  <2>2. <<"P">> \in Text
    BY <2>1, Concat
  <2> QED BY <1>2, <2>1, <2>2, Concat
<1> QED BY <1>1, <1>10, <1>12, <1>13 DEF SignedText

\* Only a sign before the seconds is a plus.
LEMMA NoPlus ==
  ASSUME NEW p \in Parts
  PROVE  ~Holds(SignedText(p, <<>>), "+")
<1>1. PICK h, m, d, n, q, f, s, t :
        /\ h = Component(p.hours, "H") /\ m = Component(p.minutes, "M")
        /\ d = Component(p.days, "D") /\ n = p.seconds /\ q = Point(p.fraction)
        /\ f = p.fraction /\ s = Seconds(p, <<>>) /\ t = Clock(p, <<>>)
  OBVIOUS
<1>2. "+" \notin ToSet(Digits) /\ "+" \notin {"H", "M", "D", "S", "T", "P", "."}
  BY NoDigits
<1>3. /\ h \in Text /\ m \in Text /\ d \in Text
      /\ ~Holds(h, "+") /\ ~Holds(m, "+") /\ ~Holds(d, "+")
  BY <1>1, <1>2, PartsType, UnitCharacters, ComponentText
<1>4. <<>> \in Signs
  BY DEF Signs
<1>5. s \in Text /\ t \in Text /\ m \o s \in Text
  BY <1>1, <1>4, SecondsType, ClockType
<1>6. ~Holds(s, "+")
  <2>1. CASE n = <<>>
    BY <1>1, <2>1, HoldsFew DEF Seconds, SecondsText
  <2>2. CASE n # <<>>
    <3>1. s = ((<<>> \o n) \o (q \o f)) \o <<"S">>
      BY <1>1, <2>2 DEF Seconds, SecondsText
    <3>2. n \in Text /\ f \in Text /\ ~Holds(n, "+") /\ ~Holds(f, "+")
      BY <1>1, <1>2, PartsType, DigitsOrNothing
    <3>3. q \in Text /\ ~Holds(q, "+") /\ <<"S">> \in Text /\ ~Holds(<<"S">>, "+")
      <4>1. "." \in Chars /\ "S" \in Chars
        BY GrammarCharacters
      <4>2. <<".">> \in Text /\ <<"S">> \in Text /\ <<>> \in Text
        BY <4>1, Concat
      <4>3. ~Holds(<<".">>, "+") /\ ~Holds(<<"S">>, "+") /\ ~Holds(<<>>, "+")
        BY <1>2, HoldsFew
      <4> QED BY <1>1, <4>2, <4>3 DEF Point
    <3>4. <<>> \o n = n /\ q \o f \in Text /\ n \o (q \o f) \in Text
      BY <3>2, <3>3, Concat
    <3>5. ~Holds(q \o f, "+")
      BY <3>2, <3>3, HoldsConcat
    <3>6. ~Holds(n \o (q \o f), "+")
      BY <3>2, <3>4, <3>5, HoldsConcat
    <3>7. ~Holds((n \o (q \o f)) \o <<"S">>, "+")
      BY <3>3, <3>4, <3>6, HoldsConcat
    <3> QED BY <3>1, <3>4, <3>7
  <2> QED BY <2>1, <2>2
<1>7. ~Holds(t, "+")
  <2>1. ~Holds(m \o s, "+")
    BY <1>3, <1>5, <1>6, HoldsConcat
  <2>2. ~Holds(h \o (m \o s), "+")
    BY <1>3, <1>5, <2>1, HoldsConcat
  <2> QED BY <1>1, <2>2 DEF Clock
<1>8. Timed(t) \in Text /\ ~Holds(Timed(t), "+")
  BY <1>2, <1>5, <1>7, TimedType
<1>9. d \o Timed(t) \in Text /\ ~Holds(d \o Timed(t), "+")
  BY <1>3, <1>8, Concat, HoldsConcat
<1>10. <<"P">> \in Text /\ ~Holds(<<"P">>, "+")
  <2>1. "P" \in Chars
    BY GrammarCharacters
  <2> QED BY <1>2, <2>1, Concat, HoldsFew
<1>11. ~Holds(<<"P">> \o (d \o Timed(t)), "+")
  BY <1>9, <1>10, HoldsConcat
<1> QED BY <1>1, <1>11 DEF SignedText

LEMMA Associated == \A a, b, c \in Text : (a \o b) \o c = a \o (b \o c)
BY Concat

LEMMA UnsignedIs ==
  ASSUME NEW p \in Parts, NEW sign \in Signs, p.seconds = <<>> => sign = <<>>
  PROVE  Unsigned(SignedText(p, sign)) = SignedText(p, <<>>)
<1>1. CASE sign = <<>>
  BY <1>1, NoPlus DEF Unsigned
<1>2. CASE sign = <<"+">>
  <2>1. PICK P, T, h, m, d, n, w, z :
          /\ P = <<"P">> /\ T = <<"T">>
          /\ h = Component(p.hours, "H") /\ m = Component(p.minutes, "M")
          /\ d = Component(p.days, "D") /\ n = p.seconds
          /\ w = Point(p.fraction) \o p.fraction /\ z = (n \o w) \o <<"S">>
    OBVIOUS
  <2>2. P \in Text /\ T \in Text /\ <<"+">> \in Text /\ <<"S">> \in Text /\ "+" \in Chars
    <3>1. "P" \in Chars /\ "T" \in Chars /\ "+" \in Chars /\ "S" \in Chars
      BY GrammarCharacters
    <3> QED BY <2>1, <3>1, Concat
  <2>3. h \in Text /\ m \in Text /\ d \in Text
    BY <2>1, PartsType, UnitCharacters, ComponentText
  <2>4. n \in Text /\ w \in Text
    <3>1. p.seconds \in DigitTexts /\ p.fraction \in DigitTexts
      BY PartsType
    <3> QED BY <1>2, <2>1, <3>1, DigitsOrNothing, SecondsBody
  <2>5. n # <<>>
    <3>1. <<"+">> # <<>>
      BY <2>2, Concat, FirstOf
    <3> QED BY <1>2, <2>1, <3>1
  <2>6. n \o w \in Text /\ z \in Text
    BY <2>1, <2>2, <2>4, Concat
  <2>7. Seconds(p, <<>>) = z
    <3>1. <<>> \o n = n
      BY <2>4, Concat
    <3> QED BY <2>1, <2>5, <3>1 DEF Seconds, SecondsText
  <2>8. Seconds(p, sign) = <<"+">> \o z
    <3>1. Seconds(p, sign) = ((<<"+">> \o n) \o w) \o <<"S">>
      BY <1>2, <2>1, <2>5 DEF Seconds, SecondsText
    <3>2. (<<"+">> \o n) \o w = <<"+">> \o (n \o w)
      BY <2>2, <2>4, Concat
    <3>3. (<<"+">> \o (n \o w)) \o <<"S">> = <<"+">> \o ((n \o w) \o <<"S">>)
      BY <2>2, <2>6, Concat
    <3> QED BY <2>1, <3>1, <3>2, <3>3
  <2>9. PICK pre : pre = P \o (d \o (T \o (h \o m)))
    OBVIOUS
  <2>10. pre \in Text /\ T \o (h \o m) \in Text /\ h \o m \in Text
    <3>1. h \o m \in Text
      BY <2>3, Concat
    <3>2. T \o (h \o m) \in Text
      BY <2>2, <3>1, Concat
    <3>3. d \o (T \o (h \o m)) \in Text
      BY <2>3, <3>2, Concat
    <3> QED BY <2>2, <2>9, <3>1, <3>2, <3>3, Concat
  <2>11. ASSUME NEW s \in Signs
         PROVE  SignedText(p, s) = pre \o Seconds(p, s)
    <3>1. Seconds(p, s) \in Text /\ Clock(p, s) # <<>>
      BY <2>1, <2>5, SecondsType, ClockType
    <3>2. Timed(Clock(p, s)) = T \o (h \o (m \o Seconds(p, s)))
      BY <2>1, <3>1 DEF Timed, Clock
    <3>3. SignedText(p, s) = P \o (d \o (T \o (h \o (m \o Seconds(p, s)))))
      BY <2>1, <3>2 DEF SignedText
    <3>4. PICK x : x = Seconds(p, s)
      OBVIOUS
    <3>5. P \o (d \o (T \o (h \o (m \o x)))) = (P \o (d \o (T \o (h \o m)))) \o x
      <4>1. x \in Text
        BY <3>1, <3>4
      <4>2. PICK i, j, k : i = h \o m /\ j = T \o i /\ k = d \o j
        OBVIOUS
      <4>3. i \in Text /\ j \in Text
        BY <2>10, <4>2
      <4>4. k \in Text
        BY <2>3, <4>2, <4>3, Concat
      <4>5. h \o (m \o x) = i \o x
        BY <2>3, <4>1, <4>2, Concat
      <4>6. (T \o i) \o x = T \o (i \o x)
        <5>1. T \in Text
          BY <2>2
        <5> QED BY <4>1, <4>3, <5>1, Associated
      <4>7. (d \o j) \o x = d \o (j \o x)
        BY <2>3, <4>1, <4>3, Associated
      <4>8. P \o (k \o x) = (P \o k) \o x
        BY <2>2, <4>1, <4>4, Concat
      <4> QED BY <4>2, <4>5, <4>6, <4>7, <4>8
    <3> QED BY <2>9, <3>3, <3>4, <3>5
  <2>12. SignedText(p, <<>>) = pre \o z
    <3>1. <<>> \in Signs
      BY DEF Signs
    <3> QED BY <2>7, <2>11, <3>1
  <2>13. SignedText(p, sign) = pre \o (<<"+">> \o z)
    BY <2>8, <2>11
  <2>14. ~Holds(pre, "+")
    <3>1. ~Holds(pre \o z, "+")
      BY <2>12, NoPlus
    <3> QED BY <2>6, <2>10, <3>1, HoldsConcat
  <2>15. /\ Holds(SignedText(p, sign), "+") /\ Before(SignedText(p, sign), "+") = pre
         /\ After(SignedText(p, sign), "+") = z
    BY <2>2, <2>6, <2>10, <2>13, <2>14, Split
  <2> QED BY <2>12, <2>15 DEF Unsigned
<1> QED BY <1>1, <1>2 DEF Signs

-----------------------------------------------------------------------------
(* The theorems *)

LEMMA FieldsAreParts == Fields \subseteq Parts
<1>1. \A n \in Numerals \cup Fractions : n \in DigitTexts
  <2>1. \A n \in Numerals \cup Fractions : n \in Seq(STRING) /\ AllDigits(n)
    BY DurationAssumption
  <2> QED BY <2>1, StringsAreTexts, DigitsOrNothing
<1>2. <<>> \in DigitTexts /\ <<>> \in FractionTexts
  BY DigitsOrNothing, Units DEF FractionTexts
<1>3. Numerals \cup {<<>>} \subseteq DigitTexts
  BY <1>1, <1>2
<1>4. Fractions \cup {<<>>} \subseteq FractionTexts
  BY <1>1, <1>2, DurationAssumption DEF FractionTexts
<1>5. ASSUME NEW f \in Fields PROVE f \in Parts
  <2>1. /\ f \in [days : Numerals \cup {<<>>}, hours : Numerals \cup {<<>>},
                  minutes : Numerals \cup {<<>>}, seconds : Numerals \cup {<<>>},
                  fraction : Fractions \cup {<<>>}]
        /\ \E member \in {"days", "hours", "minutes", "seconds"} : f[member] # <<>>
        /\ f.fraction # <<>> => f.seconds # <<>>
    BY DEF Fields
  <2>2. f \in [days : DigitTexts, hours : DigitTexts, minutes : DigitTexts,
               seconds : DigitTexts, fraction : FractionTexts]
    BY <1>3, <1>4, <2>1
  <2> QED BY <2>1, <2>2 DEF Parts
<1> QED BY <1>5

\* A text of the grammar is parsed to exactly what it means, or refused because u64
\* nanoseconds cannot hold that, whatever numerals it is made of: no component, no
\* fraction and no letter is taken for another.
THEOREM WellFormedIsParsed == \A t : WellFormed(t) => Parse(t) = Fits({Meaning[t]})
<1> SUFFICES ASSUME NEW t, WellFormed(t) PROVE Parse(t) = Fits({Meaning[t]})
  OBVIOUS
<1>1. \E f \in Fields : Rendered(f) = t
  BY DEF WellFormed, Meaning
<1>2. PICK g : g = CHOOSE f \in Fields : Rendered(f) = t
  OBVIOUS
<1>3. g \in Fields /\ Rendered(g) = t
  BY <1>1, <1>2
<1>4. Meaning[t] = Meant(g)
  BY <1>1, <1>2 DEF Meaning
<1>5. g \in Parts
  BY <1>3, FieldsAreParts
<1>6. t = SignedText(g, <<>>)
  BY <1>3, <1>5, RenderedIsUnsigned
<1>7. Parse(t) = Fits({Meant(g)})
  BY <1>5, <1>6, ParseWritten DEF Signs
<1> QED BY <1>4, <1>7

\* All the numerals and the fractions that the grammar has.
FullGrammar ==
  /\ Numerals = Seq(ToSet(Digits)) \ {<<>>}
  /\ Fractions = {n \in Seq(ToSet(Digits)) \ {<<>>} : Len(n) <= FractionDigits}

LEMMA PartsAreFields ==
  ASSUME FullGrammar
  PROVE  Parts \subseteq Fields
<1>1. ASSUME NEW n \in DigitTexts PROVE n \in Numerals \cup {<<>>}
  <2>1. n \in Seq(ToSet(Digits))
    BY DEF DigitTexts, Text
  <2> QED BY <2>1 DEF FullGrammar
<1>2. ASSUME NEW n \in FractionTexts PROVE n \in Fractions \cup {<<>>}
  <2>1. n \in Seq(ToSet(Digits)) /\ Len(n) <= FractionDigits
    BY DEF FractionTexts, DigitTexts, Text
  <2> QED BY <2>1 DEF FullGrammar
<1>3. DigitTexts \subseteq Numerals \cup {<<>>} /\ FractionTexts \subseteq Fractions \cup {<<>>}
  BY <1>1, <1>2
<1> SUFFICES ASSUME NEW f \in Parts PROVE f \in Fields
  OBVIOUS
<1>4. /\ f \in [days : DigitTexts, hours : DigitTexts, minutes : DigitTexts,
                seconds : DigitTexts, fraction : FractionTexts]
      /\ \E member \in {"days", "hours", "minutes", "seconds"} : f[member] # <<>>
      /\ f.fraction # <<>> => f.seconds # <<>>
  BY DEF Parts
<1>5. f \in [days : Numerals \cup {<<>>}, hours : Numerals \cup {<<>>},
            minutes : Numerals \cup {<<>>}, seconds : Numerals \cup {<<>>},
            fraction : Fractions \cup {<<>>}]
  BY <1>3, <1>4
<1> QED BY <1>4, <1>5 DEF Fields

\* Whatever text is accepted is, but for a sign before its seconds, a text of the
\* grammar, and is taken for what that text means.
THEOREM AcceptedIsMeant ==
  ASSUME FullGrammar
  PROVE  \A t \in Text : Parse(t) # {} =>
           WellFormed(Unsigned(t)) /\ Parse(t) = {Meaning[Unsigned(t)]}
<1> SUFFICES ASSUME NEW t \in Text, Parse(t) # {}
             PROVE  WellFormed(Unsigned(t)) /\ Parse(t) = {Meaning[Unsigned(t)]}
  OBVIOUS
<1>1. PICK p \in Parts, sign \in Signs :
        t = SignedText(p, sign) /\ (p.seconds = <<>> => sign = <<>>)
  BY ParseTaken
<1>2. Unsigned(t) = Rendered(p)
  BY <1>1, UnsignedIs, RenderedIsUnsigned
<1>3. WellFormed(Unsigned(t))
  BY <1>2, PartsAreFields DEF WellFormed, Meaning
<1>4. Parse(t) = Fits({Meant(p)})
  BY <1>1, ParseWritten
<1>5. Parse(Unsigned(t)) = Fits({Meant(p)})
  BY <1>2, RenderedIsUnsigned, ParseWritten DEF Signs
<1>6. Parse(Unsigned(t)) = Fits({Meaning[Unsigned(t)]})
  BY <1>3, WellFormedIsParsed
<1>7. Fits({Meant(p)}) = Fits({Meaning[Unsigned(t)]}) /\ Fits({Meant(p)}) # {}
  BY <1>4, <1>5, <1>6
<1>8. Fits({Meaning[Unsigned(t)]}) = {Meaning[Unsigned(t)]}
  BY <1>7 DEF Fits
<1> QED BY <1>3, <1>4, <1>7, <1>8

\* DurationExact for every text that a writer of the full grammar writes, with
\* whatever slips: what is refused has no room, what is accepted is meant.
THEOREM DurationsExact ==
  ASSUME FullGrammar
  PROVE  DurationSpec => []DurationExact
<1> DEFINE Inv == text \in Text
<1>1. DurationInit => Inv
  <2>1. "P" \in Chars
    BY GrammarCharacters
  <2>2. <<"P">> \in Text
    BY <2>1, Concat
  <2> QED BY <2>2 DEF DurationInit
<1>2. Inv /\ [DurationNext]_durationVars => Inv'
  <2> SUFFICES ASSUME text \in Text, [DurationNext]_durationVars PROVE text' \in Text
    OBVIOUS
  <2>1. \A c \in Components \cup Slips : text \o c \in Text
    <3>1. Components \cup Slips \subseteq Text
      BY DurationAssumption, StringsAreTexts
    <3> QED BY <3>1, Concat
  <2>2. CASE \E c \in Components : Write(c)
    BY <2>1, <2>2 DEF Write
  <2>3. CASE \E s \in Slips : Slip(s)
    BY <2>1, <2>3 DEF Slip
  <2>4. CASE UNCHANGED durationVars
    BY <2>4 DEF durationVars
  <2> QED BY <2>2, <2>3, <2>4 DEF DurationNext
<1>3. Inv => DurationExact
  BY AcceptedIsMeant, WellFormedIsParsed DEF DurationExact
<1> QED BY <1>1, <1>2, <1>3, PTL DEF DurationSpec

-----------------------------------------------------------------------------
(* Characters *)

\* The place of a character among the digits, 0 for none of them.
Rank(c) == SelectInSeq(Digits, LAMBDA x : x = c)

LEMMA RankOf ==
  /\ \A c : Rank(c) \in 0..10
  /\ \A i \in 1..10 : Rank(Digits[i]) = i
<1>1. ASSUME NEW c PROVE Rank(c) \in 0..10
  BY DEF Rank, SelectInSeq, Digits, Min
<1>2. ASSUME NEW i \in 1..10 PROVE Rank(Digits[i]) = i
  BY DEF Rank, SelectInSeq, Digits, Min
<1> QED BY <1>1, <1>2

LEMMA DigitRank ==
  ASSUME NEW n \in Nat
  PROVE  Rank(Digit(n)) = (n % 10) + 1
<1>1. (n % 10) + 1 \in 1..10
  OBVIOUS
<1> QED BY <1>1, RankOf DEF Digit

LEMMA DigitIsDigit ==
  ASSUME NEW n \in Nat
  PROVE  Digit(n) \in ToSet(Digits) /\ ValueOf(Digit(n)) = n % 10
<1>1. PICK i \in 1..10 : i = (n % 10) + 1
  OBVIOUS
<1>2. Digit(n) = Digits[i]
  BY <1>1 DEF Digit
<1>3. Digits[i] \in ToSet(Digits)
  BY DEF ToSet, Digits
<1>4. ValueOf(Digits[i]) = i - 1
  BY DEF ValueOf, Digits
<1> QED BY <1>1, <1>2, <1>3, <1>4

-----------------------------------------------------------------------------
(* The order of texts *)

LEMMA FirstDifference ==
  ASSUME NEW s, NEW t, NEW i \in DOMAIN s \cap DOMAIN t,
         \A j \in 1..(i - 1) : s[j] = t[j],
         Rank(s[i]) < Rank(t[i])
  PROVE  TextBefore(s, t)
BY DEF TextBefore, Rank

\* No text of one length is both before and after another.
LEMMA TextAsymmetric ==
  ASSUME NEW s, NEW t, DOMAIN s \subseteq Nat \ {0}, DOMAIN t \subseteq Nat \ {0}, TextBefore(s, t)
  PROVE  ~TextBefore(t, s)
<1> SUFFICES ASSUME TextBefore(t, s) PROVE FALSE
  OBVIOUS
<1>1. PICK i \in DOMAIN s \cap DOMAIN t :
        (\A j \in 1..(i - 1) : s[j] = t[j]) /\ Rank(s[i]) < Rank(t[i])
  BY DEF TextBefore, Rank
<1>2. PICK k \in DOMAIN t \cap DOMAIN s :
        (\A j \in 1..(k - 1) : t[j] = s[j]) /\ Rank(t[k]) < Rank(s[k])
  BY DEF TextBefore, Rank
<1>3. /\ Rank(s[i]) \in Int /\ Rank(t[i]) \in Int
      /\ Rank(s[k]) \in Int /\ Rank(t[k]) \in Int
  BY RankOf
<1>4. i \in Nat \ {0} /\ k \in Nat \ {0}
  OBVIOUS
<1>5. CASE i < k
  BY <1>1, <1>2, <1>3, <1>4, <1>5
<1>6. CASE k < i
  BY <1>1, <1>2, <1>3, <1>4, <1>6
<1>7. CASE i = k
  BY <1>1, <1>2, <1>3, <1>7
<1> QED BY <1>4, <1>5, <1>6, <1>7

LEMMA TextIrreflexive ==
  ASSUME NEW s
  PROVE  ~TextBefore(s, s)
<1> SUFFICES ASSUME TextBefore(s, s) PROVE FALSE
  OBVIOUS
<1>1. PICK i \in DOMAIN s \cap DOMAIN s :
        (\A j \in 1..(i - 1) : s[j] = s[j]) /\ Rank(s[i]) < Rank(s[i])
  BY DEF TextBefore, Rank
<1>2. Rank(s[i]) \in Int
  BY RankOf
<1> QED BY <1>1, <1>2

-----------------------------------------------------------------------------
(* The text of a date, place by place *)

LEMMA AppendOne ==
  ASSUME NEW S, NEW s \in Seq(S), NEW x \in S
  PROVE  /\ s \o <<x>> \in Seq(S)
         /\ Len(s \o <<x>>) = Len(s) + 1
         /\ \A i \in 1..Len(s) : (s \o <<x>>)[i] = s[i]
         /\ (s \o <<x>>)[Len(s) + 1] = x
OBVIOUS

LEMMA AppendTwo ==
  ASSUME NEW S, NEW s \in Seq(S), NEW x \in S, NEW y \in S
  PROVE  /\ s \o <<x, y>> \in Seq(S)
         /\ Len(s \o <<x, y>>) = Len(s) + 2
         /\ \A i \in 1..Len(s) : (s \o <<x, y>>)[i] = s[i]
         /\ (s \o <<x, y>>)[Len(s) + 1] = x
         /\ (s \o <<x, y>>)[Len(s) + 2] = y
OBVIOUS

\* A date has a year of four digits, a month and a day of two, a part of one.
LEMMA DateTypes ==
  ASSUME NEW d \in Dates
  PROVE  /\ d.year \in Nat /\ d.year <= 9999
         /\ d.month \in Nat /\ d.month > 0 /\ d.month <= Len(DaysIn) /\ d.month <= 99
         /\ d.day \in Nat /\ d.day > 0 /\ d.day <= 99 /\ d.day <= DaysIn[d.month]
         /\ d.part \in Nat /\ d.part < PartsOfDay /\ d.part <= 9
<1>1. d \in [year : FirstYear..LastYear, month : Months, day : 1..99, part : 0..(PartsOfDay - 1)]
      /\ d.day <= DaysIn[d.month]
  BY DEF Dates
<1>2. /\ d.year \in FirstYear..LastYear /\ d.month \in 1..Len(DaysIn) /\ d.day \in 1..99
      /\ d.part \in 0..(PartsOfDay - 1)
  BY <1>1, CalendarAssumption DEF Months
<1>3. FirstYear \in Nat /\ LastYear \in Nat /\ LastYear <= 9999
  BY CalendarAssumption
<1>4. PartsOfDay \in Nat /\ PartsOfDay <= 10
  BY CalendarAssumption
<1>5. Len(DaysIn) \in Nat /\ Len(DaysIn) <= 99
  BY CalendarAssumption
<1> HIDE DEF Dates
<1>6. d.year \in Nat /\ d.year <= 9999
  BY <1>2, <1>3
<1>7. d.month \in Nat /\ d.month > 0 /\ d.month <= Len(DaysIn) /\ d.month <= 99
  BY <1>2, <1>5
<1>8. d.part \in Nat /\ d.part < PartsOfDay /\ d.part <= 9
  BY <1>2, <1>4
<1>9. d.day \in Nat /\ d.day > 0 /\ d.day <= 99
  <2>1. d.day \in 1..99
    BY <1>2
  <2> QED BY <2>1
<1>10. d.day <= DaysIn[d.month]
  BY <1>1
<1> QED BY <1>6, <1>7, <1>8, <1>9, <1>10

\* Its fields tell it from every other.
LEMMA DateFields ==
  ASSUME NEW d \in Dates, NEW e \in Dates,
         d.year = e.year, d.month = e.month, d.day = e.day, d.part = e.part
  PROVE  d = e
BY DEF Dates

\* What stands at each place.
LEMMA RenderPlaces ==
  ASSUME NEW d \in Dates
  PROVE  LET r == Render(d)
         IN /\ DOMAIN r = 1..13 /\ Len(r) = 13
            /\ r[1] = Digit((d.year \div 100) \div 10) /\ r[2] = Digit(d.year \div 100)
            /\ r[3] = Digit((d.year % 100) \div 10) /\ r[4] = Digit(d.year % 100)
            /\ r[5] = "-"
            /\ r[6] = Digit(d.month \div 10) /\ r[7] = Digit(d.month)
            /\ r[8] = "-"
            /\ r[9] = Digit(d.day \div 10) /\ r[10] = Digit(d.day)
            /\ r[11] = "T"
            /\ r[12] = Digit(d.part)
            /\ r[13] = "Z"
<1> DEFINE S == ToSet(Digits) \cup {"-", "T", "Z"}
           c1 == Digit((d.year \div 100) \div 10)
           c2 == Digit(d.year \div 100)
           c3 == Digit((d.year % 100) \div 10)
           c4 == Digit(d.year % 100)
           c6 == Digit(d.month \div 10)
           c7 == Digit(d.month)
           c9 == Digit(d.day \div 10)
           c10 == Digit(d.day)
           c12 == Digit(d.part)
<1>1. /\ (d.year \div 100) \div 10 \in Nat /\ d.year \div 100 \in Nat
      /\ (d.year % 100) \div 10 \in Nat /\ d.year % 100 \in Nat
      /\ d.month \div 10 \in Nat /\ d.month \in Nat
      /\ d.day \div 10 \in Nat /\ d.day \in Nat /\ d.part \in Nat
  <2>1. d.year \in Nat /\ d.month \in Nat /\ d.day \in Nat /\ d.part \in Nat
    BY DateTypes
  <2>2. d.year \div 100 \in Nat /\ d.year % 100 \in Nat
    BY <2>1
  <2> QED BY <2>1, <2>2
<1>2. /\ c1 \in S /\ c2 \in S /\ c3 \in S /\ c4 \in S /\ c6 \in S /\ c7 \in S
      /\ c9 \in S /\ c10 \in S /\ c12 \in S
  BY <1>1, DigitIsDigit
<1>3. "-" \in S /\ "T" \in S /\ "Z" \in S
  OBVIOUS
<1>4. Render(d) = <<c1, c2>> \o <<c3, c4>> \o <<"-">> \o <<c6, c7>> \o <<"-">> \o <<c9, c10>>
                    \o <<"T">> \o <<c12>> \o <<"Z">>
  BY DEF Render, TwoDigits, Subsecond
<1> HIDE DEF S, c1, c2, c3, c4, c6, c7, c9, c10, c12
<1> DEFINE s2 == <<c1, c2>>
           s4 == s2 \o <<c3, c4>>
           s5 == s4 \o <<"-">>
           s7 == s5 \o <<c6, c7>>
           s8 == s7 \o <<"-">>
           s10 == s8 \o <<c9, c10>>
           s11 == s10 \o <<"T">>
           s12 == s11 \o <<c12>>
           s13 == s12 \o <<"Z">>
<1>5. s2 \in Seq(S) /\ Len(s2) = 2 /\ s2[1] = c1 /\ s2[2] = c2
  BY <1>2
<1>6. s2 \in Seq(S)
  BY <1>5
<1> HIDE DEF s2
<1>7. /\ s4 \in Seq(S) /\ Len(s4) = Len(s2) + 2 /\ (\A i \in 1..Len(s2) : s4[i] = s2[i])
      /\ s4[Len(s2) + 1] = c3 /\ s4[Len(s2) + 2] = c4
  BY <1>2, <1>6, AppendTwo
<1> HIDE DEF s4
<1>8. /\ s5 \in Seq(S) /\ Len(s5) = Len(s4) + 1 /\ (\A i \in 1..Len(s4) : s5[i] = s4[i])
      /\ s5[Len(s4) + 1] = "-"
  BY <1>3, <1>7, AppendOne
<1> HIDE DEF s5
<1>9. /\ s7 \in Seq(S) /\ Len(s7) = Len(s5) + 2 /\ (\A i \in 1..Len(s5) : s7[i] = s5[i])
      /\ s7[Len(s5) + 1] = c6 /\ s7[Len(s5) + 2] = c7
  BY <1>2, <1>8, AppendTwo
<1> HIDE DEF s7
<1>10. /\ s8 \in Seq(S) /\ Len(s8) = Len(s7) + 1 /\ (\A i \in 1..Len(s7) : s8[i] = s7[i])
      /\ s8[Len(s7) + 1] = "-"
  BY <1>3, <1>9, AppendOne
<1> HIDE DEF s8
<1>11. /\ s10 \in Seq(S) /\ Len(s10) = Len(s8) + 2 /\ (\A i \in 1..Len(s8) : s10[i] = s8[i])
      /\ s10[Len(s8) + 1] = c9 /\ s10[Len(s8) + 2] = c10
  BY <1>2, <1>10, AppendTwo
<1> HIDE DEF s10
<1>12. /\ s11 \in Seq(S) /\ Len(s11) = Len(s10) + 1 /\ (\A i \in 1..Len(s10) : s11[i] = s10[i])
      /\ s11[Len(s10) + 1] = "T"
  BY <1>3, <1>11, AppendOne
<1> HIDE DEF s11
<1>13. /\ s12 \in Seq(S) /\ Len(s12) = Len(s11) + 1 /\ (\A i \in 1..Len(s11) : s12[i] = s11[i])
      /\ s12[Len(s11) + 1] = c12
  BY <1>2, <1>12, AppendOne
<1> HIDE DEF s12
<1>14. /\ s13 \in Seq(S) /\ Len(s13) = Len(s12) + 1 /\ (\A i \in 1..Len(s12) : s13[i] = s12[i])
      /\ s13[Len(s12) + 1] = "Z"
  BY <1>3, <1>13, AppendOne
<1> HIDE DEF s13
<1>15. Len(s4) = 4 /\ (\A i \in 1..2 : s4[i] = s2[i]) /\ s4[3] = c3 /\ s4[4] = c4
  BY <1>5, <1>7
<1>16. Len(s5) = 5 /\ (\A i \in 1..4 : s5[i] = s4[i]) /\ s5[5] = "-"
  BY <1>15, <1>8
<1>17. Len(s7) = 7 /\ (\A i \in 1..5 : s7[i] = s5[i]) /\ s7[6] = c6 /\ s7[7] = c7
  BY <1>16, <1>9
<1>18. Len(s8) = 8 /\ (\A i \in 1..7 : s8[i] = s7[i]) /\ s8[8] = "-"
  BY <1>17, <1>10
<1>19. Len(s10) = 10 /\ (\A i \in 1..8 : s10[i] = s8[i]) /\ s10[9] = c9 /\ s10[10] = c10
  BY <1>18, <1>11
<1>20. Len(s11) = 11 /\ (\A i \in 1..10 : s11[i] = s10[i]) /\ s11[11] = "T"
  BY <1>19, <1>12
<1>21. Len(s12) = 12 /\ (\A i \in 1..11 : s12[i] = s11[i]) /\ s12[12] = c12
  BY <1>20, <1>13
<1>22. Len(s13) = 13 /\ (\A i \in 1..12 : s13[i] = s12[i]) /\ s13[13] = "Z"
  BY <1>21, <1>14
<1>23. Render(d) = s13
  BY <1>4 DEF s2, s4, s5, s7, s8, s10, s11, s12, s13
<1>24. DOMAIN s13 = 1..13
  <2>1. DOMAIN s13 = 1..Len(s13)
    BY <1>14
  <2>2. Len(s13) = 13
    BY <1>22
  <2> QED BY <2>1, <2>2
<1>25. /\ s13[1] = c1 /\ s13[2] = c2 /\ s13[3] = c3 /\ s13[4] = c4 /\ s13[5] = "-"
       /\ s13[6] = c6 /\ s13[7] = c7 /\ s13[8] = "-" /\ s13[9] = c9 /\ s13[10] = c10
       /\ s13[11] = "T" /\ s13[12] = c12 /\ s13[13] = "Z"
  BY <1>5, <1>15, <1>16, <1>17, <1>18, <1>19, <1>20, <1>21, <1>22
<1> QED BY <1>22, <1>23, <1>24, <1>25 DEF c1, c2, c3, c4, c6, c7, c9, c10, c12

-----------------------------------------------------------------------------
(* Texts in order of dates *)

\* The first field that differs decides.
DateBefore(d, e) ==
  \/ d.year < e.year
  \/ d.year = e.year /\ d.month < e.month
  \/ d.year = e.year /\ d.month = e.month /\ d.day < e.day
  \/ d.year = e.year /\ d.month = e.month /\ d.day = e.day /\ d.part < e.part

LEMMA DatesOrdered ==
  ASSUME NEW d \in Dates, NEW e \in Dates
  PROVE  d = e \/ DateBefore(d, e) \/ DateBefore(e, d)
<1>1. /\ d.year \in Int /\ e.year \in Int /\ d.month \in Int /\ e.month \in Int
      /\ d.day \in Int /\ e.day \in Int /\ d.part \in Int /\ e.part \in Int
  BY DateTypes
<1> QED BY <1>1, DateFields DEF DateBefore

\* The digits of a number of two digits, and those of a year.
LEMMA TwoDigitsOf ==
  ASSUME NEW n \in Nat, n <= 99
  PROVE  /\ n \div 10 \in Nat /\ n % 10 \in Nat /\ n % 10 <= 9
         /\ n = 10 * (n \div 10) + (n % 10)
         /\ Rank(Digit(n \div 10)) = (n \div 10) + 1
         /\ Rank(Digit(n)) = (n % 10) + 1
<1>1. /\ n \div 10 \in Nat /\ n \div 10 <= 9 /\ n % 10 \in Nat /\ n % 10 <= 9
      /\ n = 10 * (n \div 10) + (n % 10)
  OBVIOUS
<1>2. (n \div 10) % 10 = n \div 10
  BY <1>1
<1> QED BY <1>1, <1>2, DigitRank

LEMMA YearSplits ==
  ASSUME NEW y \in Nat, y <= 9999
  PROVE  /\ y \div 100 \in Nat /\ y \div 100 <= 99 /\ y % 100 \in Nat /\ y % 100 <= 99
         /\ y = 100 * (y \div 100) + (y % 100)
OBVIOUS

\* Two places that hold the digits of a and b decide as the numbers do.
LEMMA PairDecides ==
  ASSUME NEW s, NEW t, NEW i \in Nat \ {0}, NEW k, k = i + 1,
         i \in DOMAIN s, k \in DOMAIN s, i \in DOMAIN t, k \in DOMAIN t,
         \A j \in 1..(i - 1) : s[j] = t[j],
         NEW a \in Nat, a <= 99, NEW b \in Nat, b <= 99, a < b,
         s[i] = Digit(a \div 10), s[k] = Digit(a),
         t[i] = Digit(b \div 10), t[k] = Digit(b)
  PROVE  TextBefore(s, t)
<1>1. /\ a = 10 * (a \div 10) + (a % 10) /\ b = 10 * (b \div 10) + (b % 10)
      /\ a \div 10 \in Nat /\ a % 10 \in Nat /\ b \div 10 \in Nat /\ b % 10 \in Nat
      /\ a % 10 <= 9 /\ b % 10 <= 9
      /\ Rank(s[i]) = (a \div 10) + 1 /\ Rank(s[k]) = (a % 10) + 1
      /\ Rank(t[i]) = (b \div 10) + 1 /\ Rank(t[k]) = (b % 10) + 1
  BY TwoDigitsOf
<1>2. CASE a \div 10 < b \div 10
  <2>1. Rank(s[i]) < Rank(t[i])
    BY <1>1, <1>2
  <2> QED BY <2>1, FirstDifference
<1>3. CASE a \div 10 = b \div 10
  <2>1. Rank(s[k]) < Rank(t[k])
    BY <1>1, <1>3
  <2>2. \A j \in 1..(k - 1) : s[j] = t[j]
    <3>1. s[i] = t[i]
      BY <1>3
    <3> QED BY <3>1
  <2> QED BY <2>1, <2>2, FirstDifference
<1>4. a \div 10 < b \div 10 \/ a \div 10 = b \div 10
  BY <1>1
<1> QED BY <1>2, <1>3, <1>4

LEMMA TextInOrder ==
  ASSUME NEW d \in Dates, NEW e \in Dates, DateBefore(d, e)
  PROVE  TextBefore(Render(d), Render(e))
<1> DEFINE s == Render(d)
           t == Render(e)
           Same(i) == \A j \in 1..(i - 1) : s[j] = t[j]
<1> SUFFICES TextBefore(s, t)
  OBVIOUS
<1>1. DOMAIN s = 1..13 /\ DOMAIN t = 1..13
  BY RenderPlaces
<1>2. /\ d.year \div 100 \in Nat /\ d.year \div 100 <= 99
      /\ d.year % 100 \in Nat /\ d.year % 100 <= 99
      /\ d.year = 100 * (d.year \div 100) + (d.year % 100)
      /\ e.year \div 100 \in Nat /\ e.year \div 100 <= 99
      /\ e.year % 100 \in Nat /\ e.year % 100 <= 99
      /\ e.year = 100 * (e.year \div 100) + (e.year % 100)
  <2>1. d.year \in Nat /\ d.year <= 9999 /\ e.year \in Nat /\ e.year <= 9999
    BY DateTypes
  <2> QED BY <2>1, YearSplits
<1>3. /\ d.month \in Nat /\ d.month <= 99 /\ e.month \in Nat /\ e.month <= 99
      /\ d.day \in Nat /\ d.day <= 99 /\ e.day \in Nat /\ e.day <= 99
      /\ d.part \in Nat /\ d.part <= 9 /\ e.part \in Nat /\ e.part <= 9
  BY DateTypes
<1>4. ASSUME NEW i \in 1..12, NEW k, k = i + 1, Same(i),
             NEW a \in Nat, a <= 99, NEW b \in Nat, b <= 99, a < b,
             s[i] = Digit(a \div 10), s[k] = Digit(a),
             t[i] = Digit(b \div 10), t[k] = Digit(b)
      PROVE  TextBefore(s, t)
  <2> HIDE DEF s, t
  <2>1. i \in Nat \ {0} /\ i \in 1..13 /\ k \in 1..13
    BY <1>4
  <2>2. i \in DOMAIN s /\ k \in DOMAIN s /\ i \in DOMAIN t /\ k \in DOMAIN t
    BY <1>1, <2>1
  <2> QED BY <1>4, <2>1, <2>2, PairDecides
<1>5. CASE d.year < e.year
  <2>1. CASE d.year \div 100 < e.year \div 100
    <3>1. /\ s[1] = Digit((d.year \div 100) \div 10) /\ s[2] = Digit(d.year \div 100)
          /\ t[1] = Digit((e.year \div 100) \div 10) /\ t[2] = Digit(e.year \div 100)
      BY RenderPlaces
    <3>2. Same(1) /\ 1 \in 1..12 /\ 2 = 1 + 1
      OBVIOUS
    <3> HIDE DEF s, t, Same
    <3> QED BY <1>2, <1>4, <2>1, <3>1, <3>2
  <2>2. CASE d.year \div 100 = e.year \div 100
    <3>1. d.year % 100 < e.year % 100
      BY <1>2, <1>5, <2>2
    <3>2. /\ s[3] = Digit((d.year % 100) \div 10) /\ s[4] = Digit(d.year % 100)
          /\ t[3] = Digit((e.year % 100) \div 10) /\ t[4] = Digit(e.year % 100)
          /\ s[1] = t[1] /\ s[2] = t[2]
      BY <2>2, RenderPlaces
    <3> HIDE DEF s, t
    <3>3. Same(3) /\ 3 \in 1..12 /\ 4 = 3 + 1
      BY <3>2
    <3> HIDE DEF Same
    <3> QED BY <1>2, <1>4, <3>1, <3>2, <3>3
  <2>3. d.year \div 100 < e.year \div 100 \/ d.year \div 100 = e.year \div 100
    BY <1>2, <1>5
  <2> QED BY <2>1, <2>2, <2>3
<1>6. CASE d.year = e.year /\ d.month < e.month
  <2>1. /\ s[6] = Digit(d.month \div 10) /\ s[7] = Digit(d.month)
        /\ t[6] = Digit(e.month \div 10) /\ t[7] = Digit(e.month)
        /\ s[1] = t[1] /\ s[2] = t[2] /\ s[3] = t[3] /\ s[4] = t[4] /\ s[5] = t[5]
    BY <1>6, RenderPlaces
  <2> HIDE DEF s, t
  <2>2. Same(6) /\ 6 \in 1..12 /\ 7 = 6 + 1
    BY <2>1
  <2> HIDE DEF Same
  <2> QED BY <1>3, <1>4, <1>6, <2>1, <2>2
<1>7. CASE d.year = e.year /\ d.month = e.month /\ d.day < e.day
  <2>1. /\ s[9] = Digit(d.day \div 10) /\ s[10] = Digit(d.day)
        /\ t[9] = Digit(e.day \div 10) /\ t[10] = Digit(e.day)
        /\ s[1] = t[1] /\ s[2] = t[2] /\ s[3] = t[3] /\ s[4] = t[4] /\ s[5] = t[5]
        /\ s[6] = t[6] /\ s[7] = t[7] /\ s[8] = t[8]
    BY <1>7, RenderPlaces
  <2> HIDE DEF s, t
  <2>2. Same(9) /\ 9 \in 1..12 /\ 10 = 9 + 1
    BY <2>1
  <2> HIDE DEF Same
  <2> QED BY <1>3, <1>4, <1>7, <2>1, <2>2
<1>8. CASE d.year = e.year /\ d.month = e.month /\ d.day = e.day /\ d.part < e.part
  <2>1. /\ s[12] = Digit(d.part) /\ t[12] = Digit(e.part)
        /\ s[1] = t[1] /\ s[2] = t[2] /\ s[3] = t[3] /\ s[4] = t[4] /\ s[5] = t[5]
        /\ s[6] = t[6] /\ s[7] = t[7] /\ s[8] = t[8] /\ s[9] = t[9] /\ s[10] = t[10]
        /\ s[11] = t[11]
    BY <1>8, RenderPlaces
  <2>2. Rank(s[12]) = d.part + 1 /\ Rank(t[12]) = e.part + 1
    <3>1. d.part % 10 = d.part /\ e.part % 10 = e.part
      BY <1>3
    <3> QED BY <1>3, <2>1, <3>1, DigitRank
  <2> HIDE DEF s, t
  <2>3. \A j \in 1..(12 - 1) : s[j] = t[j]
    BY <2>1
  <2>4. 12 \in DOMAIN s \cap DOMAIN t /\ Rank(s[12]) < Rank(t[12])
    BY <1>1, <1>3, <1>8, <2>2
  <2> QED BY <2>3, <2>4, FirstDifference
<1> QED BY <1>5, <1>6, <1>7, <1>8 DEF DateBefore

-----------------------------------------------------------------------------
(* Instants in order of dates *)

\* The days before a month are those of the months before it.
LEMMA Calendar ==
  /\ DaysBefore(1) = 0
  /\ \A m \in 1..Len(DaysIn) : DaysBefore(m) \in Nat
  /\ \A m \in 1..(Len(DaysIn) - 1) : DaysBefore(m + 1) = DaysBefore(m) + DaysIn[m]
<1> DEFINE L == Len(DaysIn)
           F == [x \in Nat \X (1..(L - 1)) |-> x[1] + DaysIn[x[2]]]
           Unfolds(g) == g = [m \in 1..L |-> IF m = 1 THEN 0 ELSE g[m - 1] + DaysIn[m - 1]]
<1>1. L \in Nat /\ L > 0 /\ \A m \in 1..L : DaysIn[m] \in Nat
  BY CalendarAssumption
<1>2. L - 1 \in Nat /\ 0 \in Nat
  BY <1>1
<1> HIDE DEF L
<1>3. F \in [Nat \X (1..(L - 1)) -> Nat]
  <2>1. \A x \in Nat \X (1..(L - 1)) : x[1] + DaysIn[x[2]] \in Nat
    BY <1>1
  <2> QED BY <2>1
<1>4. \A n \in Nat, m \in 1..(L - 1) : F[<<n, m>>] = n + DaysIn[m]
  OBVIOUS
<1> HIDE DEF F
<1>5. PICK f \in [0..(L - 1) -> Nat] : Recursive(f, L - 1, 0, F)
  BY <1>2, <1>3, RecursiveExists
<1> DEFINE h == [m \in 1..L |-> f[m - 1]]
<1>6. ASSUME NEW m \in 1..L
      PROVE  h[m] = IF m = 1 THEN 0 ELSE h[m - 1] + DaysIn[m - 1]
  <2>1. CASE m = 1
    <3>1. h[m] = f[0]
      BY <1>1, <2>1
    <3> QED BY <1>5, <2>1, <3>1 DEF Recursive
  <2>2. CASE m # 1
    <3>1. m - 1 \in 1..(L - 1) /\ m - 1 \in 1..L
      BY <1>1, <2>2
    <3>2. h[m] = f[m - 1] /\ h[m - 1] = f[(m - 1) - 1]
      BY <3>1
    <3>3. f[m - 1] = F[<<f[(m - 1) - 1], m - 1>>] /\ f[(m - 1) - 1] \in Nat
      BY <1>1, <1>5, <3>1 DEF Recursive
    <3> QED BY <1>4, <2>2, <3>1, <3>2, <3>3
  <2> QED BY <2>1, <2>2
<1>7. Unfolds(h)
  BY <1>6
<1>8. \E g : Unfolds(g) /\ \A m : DaysBefore(m) = g[m]
  BY <1>7 DEF DaysBefore, L
<1>9. PICK g : Unfolds(g) /\ \A m : DaysBefore(m) = g[m]
  BY <1>8
<1>10. g[1] = 0 /\ \A m \in 1..(L - 1) : g[m + 1] = g[m] + DaysIn[m]
  <2>1. g[1] = 0
    BY <1>1, <1>9
  <2>2. ASSUME NEW m \in 1..(L - 1) PROVE g[m + 1] = g[m] + DaysIn[m]
    <3>1. m + 1 \in 1..L /\ m + 1 # 1 /\ (m + 1) - 1 = m
      BY <1>1
    <3> QED BY <1>9, <3>1
  <2> QED BY <2>1, <2>2
<1>11. \A m \in 1..L : g[m] \in Nat
  <2> DEFINE S == {n \in 0..(L - 1) : g[n + 1] \in Nat}
  <2>1. 0 \in S
    BY <1>1, <1>10
  <2>2. \A n \in 0..((L - 1) - 1) : n \in S => n + 1 \in S
    <3> SUFFICES ASSUME NEW n \in 0..((L - 1) - 1), g[n + 1] \in Nat
                 PROVE  n + 1 \in 0..(L - 1) /\ g[(n + 1) + 1] \in Nat
      OBVIOUS
    <3>1. n + 1 \in 1..(L - 1) /\ n + 1 \in 1..L /\ n + 1 \in 0..(L - 1)
      BY <1>1
    <3>2. g[(n + 1) + 1] = g[n + 1] + DaysIn[n + 1] /\ DaysIn[n + 1] \in Nat
      BY <1>1, <1>10, <3>1
    <3> QED BY <3>1, <3>2
  <2> HIDE DEF S
  <2>3. 0..(L - 1) \subseteq S
    BY <1>2, <2>1, <2>2, BoundedInduction
  <2>4. ASSUME NEW m \in 1..L PROVE g[m] \in Nat
    <3>1. m - 1 \in 0..(L - 1) /\ (m - 1) + 1 = m
      BY <1>1
    <3> QED BY <2>3, <3>1 DEF S
  <2> QED BY <2>4
<1> QED BY <1>9, <1>10, <1>11 DEF L

\* Each month ends before any later one begins.
LEMMA MonthsOrdered ==
  ASSUME NEW m \in 1..Len(DaysIn), NEW k \in 1..Len(DaysIn), m < k
  PROVE  DaysBefore(m) + DaysIn[m] <= DaysBefore(k)
<1> DEFINE L == Len(DaysIn)
           S == {n \in 0..(L - m) : n = 0 \/ DaysBefore(m) + DaysIn[m] <= DaysBefore(m + n)}
<1>1. L \in Nat /\ L > 0 /\ \A x \in 1..L : DaysIn[x] \in Nat
  BY CalendarAssumption
<1>2. /\ \A x \in 1..L : DaysBefore(x) \in Nat
      /\ \A x \in 1..(L - 1) : DaysBefore(x + 1) = DaysBefore(x) + DaysIn[x]
  BY Calendar
<1> HIDE DEF L
<1>3. m \in 1..L /\ k \in 1..L
  BY DEF L
<1>4. L - m \in Nat
  BY <1>1, <1>3
<1>5. 0 \in S
  BY <1>4
<1>6. ASSUME NEW n \in 0..((L - m) - 1), n \in S PROVE n + 1 \in S
  <2>1. /\ m + n \in 1..(L - 1) /\ m + n \in 1..L /\ (m + n) + 1 = m + (n + 1)
        /\ n + 1 \in 0..(L - m) /\ m + (n + 1) \in 1..L
    BY <1>1, <1>3
  <2>2. DaysBefore(m + (n + 1)) = DaysBefore(m + n) + DaysIn[m + n]
    BY <1>2, <2>1
  <2>3. /\ DaysBefore(m + n) \in Nat /\ DaysIn[m + n] \in Nat
        /\ DaysBefore(m) \in Nat /\ DaysIn[m] \in Nat
    BY <1>1, <1>2, <1>3, <2>1
  <2>4. DaysBefore(m) + DaysIn[m] <= DaysBefore(m + (n + 1))
    <3>1. CASE n = 0
      <4>1. m + n = m
        BY <1>3, <3>1
      <4> QED BY <2>2, <2>3, <4>1
    <3>2. CASE n # 0
      <4>1. DaysBefore(m) + DaysIn[m] <= DaysBefore(m + n)
        BY <1>6, <3>2
      <4> QED BY <2>2, <2>3, <4>1
    <3> QED BY <3>1, <3>2
  <2> QED BY <2>1, <2>4
<1> HIDE DEF S
<1>7. 0..(L - m) \subseteq S
  BY <1>4, <1>5, <1>6, BoundedInduction
<1>8. k - m \in 0..(L - m) /\ k - m # 0 /\ m + (k - m) = k
  BY <1>1, <1>3
<1>9. k - m \in S
  BY <1>7, <1>8
<1> QED BY <1>8, <1>9 DEF S

LEMMA MonthOf ==
  ASSUME NEW d \in Dates
  PROVE  d.month \in 1..Len(DaysIn) /\ DaysIn[d.month] \in Nat
<1>1. d.month \in Nat /\ d.month > 0 /\ d.month <= Len(DaysIn)
  BY DateTypes
<1>2. Len(DaysIn) \in Nat /\ \A m \in 1..Len(DaysIn) : DaysIn[m] \in Nat
  BY CalendarAssumption
<1> QED BY <1>1, <1>2

\* The day of the year.
DayOf(d) == DaysBefore(d.month) + d.day - 1

LEMMA DayInYear ==
  ASSUME NEW d \in Dates
  PROVE  DaysInYear \in Nat /\ DayOf(d) \in Nat /\ DayOf(d) < DaysInYear
<1> DEFINE L == Len(DaysIn)
<1>1. L \in 1..L /\ DaysIn[L] \in Nat
  BY CalendarAssumption
<1>2. d.month \in 1..L /\ d.month \in Nat /\ d.day \in Nat /\ d.day > 0 /\ d.day <= DaysIn[d.month]
  BY DateTypes, CalendarAssumption
<1>3. DaysBefore(L) \in Nat /\ DaysBefore(d.month) \in Nat /\ DaysIn[d.month] \in Nat
  BY <1>1, <1>2, Calendar, CalendarAssumption
<1>4. DaysInYear = DaysBefore(L) + DaysIn[L]
  BY DEF DaysInYear
<1>5. DaysBefore(d.month) + DaysIn[d.month] <= DaysInYear
  <2>1. CASE d.month = L
    BY <1>1, <1>3, <1>4, <2>1
  <2>2. CASE d.month # L
    <3>1. d.month < L
      BY <1>1, <1>2, <2>2, CalendarAssumption
    <3>2. DaysBefore(d.month) + DaysIn[d.month] <= DaysBefore(L)
      BY <1>1, <1>2, <3>1, MonthsOrdered
    <3> HIDE DEF L
    <3> QED BY <1>1, <1>3, <1>4, <3>2
  <2> QED BY <2>1, <2>2
<1> HIDE DEF L
<1> QED BY <1>1, <1>2, <1>3, <1>4, <1>5 DEF DayOf

\* In mixed radix the higher place decides.
LEMMA RadixOrder ==
  ASSUME NEW a \in Int, NEW b \in Int, a < b, NEW N \in Nat,
         NEW x \in Nat, NEW y \in Nat, x < N, y < N
  PROVE  N * a + x < N * b + y
<1>1. N * (b - a - 1) >= 0
  BY SMTT(30)
<1>2. N * (b - a - 1) = N * b - N * a - N
  BY SMTT(30)
<1>3. N * a \in Int /\ N * b \in Int
  OBVIOUS
<1> QED BY <1>1, <1>2, <1>3

LEMMA Product ==
  ASSUME NEW a \in Int, NEW b \in Int
  PROVE  a * b \in Int
OBVIOUS

\* An instant is a number in mixed radix: years, days of the year, parts of the day.
InDays(d) == (d.year - Epoch) * DaysInYear + DayOf(d)

LEMMA InstantInDays ==
  ASSUME NEW d \in Dates
  PROVE  /\ InDays(d) \in Int
         /\ InstantOf(d) = PartsOfDay * InDays(d) + d.part
         /\ InstantOf(d) \in Int
<1>1. d.year \in Int /\ d.day \in Int /\ d.part \in Int
  BY DateTypes
<1>2. Epoch \in Int /\ PartsOfDay \in Int
  BY CalendarAssumption
<1>3. DaysInYear \in Int /\ DaysBefore(d.month) \in Int
  BY MonthOf, DayInYear, Calendar
<1>4. d.year - Epoch \in Int
  BY <1>1, <1>2
<1>5. (d.year - Epoch) * DaysInYear \in Int
  BY <1>3, <1>4, Product
<1>6. /\ InDays(d) = (d.year - Epoch) * DaysInYear + DaysBefore(d.month) + d.day - 1
      /\ InDays(d) \in Int
  BY <1>1, <1>3, <1>5 DEF InDays, DayOf
<1>7. InstantOf(d) = PartsOfDay * InDays(d) + d.part
  BY <1>6 DEF InstantOf
<1>8. PartsOfDay * InDays(d) \in Int
  BY <1>2, <1>6, Product
<1> QED BY <1>1, <1>6, <1>7, <1>8

LEMMA InstantInOrder ==
  ASSUME NEW d \in Dates, NEW e \in Dates, DateBefore(d, e)
  PROVE  InstantOf(d) < InstantOf(e)
<1>1. /\ d.year \in Int /\ e.year \in Int
      /\ d.day \in Nat /\ e.day \in Nat /\ d.day <= DaysIn[d.month] /\ e.day > 0
      /\ d.part \in Nat /\ e.part \in Nat /\ d.part < PartsOfDay /\ e.part < PartsOfDay
  BY DateTypes
<1>2. Epoch \in Int /\ PartsOfDay \in Nat
  BY CalendarAssumption
<1>3. /\ DaysInYear \in Nat
      /\ DayOf(d) \in Nat /\ DayOf(d) < DaysInYear
      /\ DayOf(e) \in Nat /\ DayOf(e) < DaysInYear
  BY DayInYear
<1>4. /\ d.month \in 1..Len(DaysIn) /\ e.month \in 1..Len(DaysIn)
      /\ DaysIn[d.month] \in Nat
      /\ DaysBefore(d.month) \in Nat /\ DaysBefore(e.month) \in Nat
  BY MonthOf, Calendar
<1>5. InDays(d) < InDays(e) \/ (InDays(d) = InDays(e) /\ d.part < e.part)
  <2>1. CASE d.year < e.year
    <3>1. d.year - Epoch \in Int /\ e.year - Epoch \in Int /\ d.year - Epoch < e.year - Epoch
      BY <1>1, <1>2, <2>1
    <3>2. DaysInYear * (d.year - Epoch) + DayOf(d) < DaysInYear * (e.year - Epoch) + DayOf(e)
      BY <1>3, <3>1, RadixOrder
    <3> QED BY <1>3, <3>1, <3>2 DEF InDays
  <2>2. CASE d.year = e.year
    <3>1. (d.year - Epoch) * DaysInYear \in Int
      <4>1. d.year - Epoch \in Int
        BY <1>1, <1>2
      <4> QED BY <1>3, <4>1, Product
    <3>2. CASE d.month < e.month
      <4>1. DaysBefore(d.month) + DaysIn[d.month] <= DaysBefore(e.month)
        BY <1>4, <3>2, MonthsOrdered
      <4>2. DayOf(d) < DaysBefore(d.month) + DaysIn[d.month]
        BY <1>1, <1>4 DEF DayOf
      <4>3. DaysBefore(e.month) <= DayOf(e)
        BY <1>1, <1>4 DEF DayOf
      <4>4. DayOf(d) < DayOf(e)
        BY <1>3, <1>4, <4>1, <4>2, <4>3
      <4> QED BY <1>3, <2>2, <3>1, <4>4 DEF InDays
    <3>3. CASE d.month = e.month /\ d.day < e.day
      <4>1. DayOf(d) < DayOf(e)
        BY <1>1, <1>4, <3>3 DEF DayOf
      <4> QED BY <1>3, <2>2, <3>1, <4>1 DEF InDays
    <3>4. CASE d.month = e.month /\ d.day = e.day /\ d.part < e.part
      BY <2>2, <3>4 DEF DayOf, InDays
    <3>5. \/ d.month < e.month
          \/ d.month = e.month /\ d.day < e.day
          \/ d.month = e.month /\ d.day = e.day /\ d.part < e.part
      BY <1>1, <2>2 DEF DateBefore
    <3> QED BY <3>2, <3>3, <3>4, <3>5
  <2>3. d.year < e.year \/ d.year = e.year
    BY DEF DateBefore
  <2> QED BY <2>1, <2>2, <2>3
<1>6. /\ InDays(d) \in Int /\ InDays(e) \in Int
      /\ InstantOf(d) = PartsOfDay * InDays(d) + d.part
      /\ InstantOf(e) = PartsOfDay * InDays(e) + e.part
  BY InstantInDays
<1>7. CASE InDays(d) < InDays(e)
  <2>1. PartsOfDay * InDays(d) + d.part < PartsOfDay * InDays(e) + e.part
    BY <1>1, <1>2, <1>6, <1>7, RadixOrder
  <2> QED BY <1>6, <2>1
<1>8. CASE InDays(d) = InDays(e) /\ d.part < e.part
  <2>1. PartsOfDay * InDays(e) \in Int
    BY <1>2, <1>6, Product
  <2>2. PartsOfDay * InDays(d) + d.part < PartsOfDay * InDays(e) + e.part
    BY <1>1, <1>8, <2>1
  <2> QED BY <1>6, <2>2
<1> QED BY <1>5, <1>7, <1>8

-----------------------------------------------------------------------------
(* The theorem *)

\* A text that the parser accepts and its instant stand for each other, and the order
\* in which the store sorts texts is the order of instants: what parse_checkpoint_time
\* returns, render_checkpoint_time renders to that text and to no other.
THEOREM TimeTextsExact == TimeSpec => []TimeTextExact
<1>1. TimeTextExact
  <2> SUFFICES ASSUME NEW n \in ParseTime(stamp), NEW d \in Dates
               PROVE  /\ InstantOf(d) = n <=> Render(d) = stamp
                      /\ InstantOf(d) < n <=> TextBefore(Render(d), stamp)
    BY DEF TimeTextExact
  <2>1. PICK e \in Dates : InstantOf(e) = n /\ Render(e) = stamp
    BY DEF ParseTime, RenderInstant
  <2>2. InstantOf(d) \in Int /\ InstantOf(e) \in Int
    BY InstantInDays
  <2>3. DOMAIN Render(d) \subseteq Nat \ {0} /\ DOMAIN Render(e) \subseteq Nat \ {0}
    <3>1. DOMAIN Render(d) = 1..13 /\ DOMAIN Render(e) = 1..13
      BY RenderPlaces
    <3> QED BY <3>1
  <2>4. CASE d = e
    <3>1. ~TextBefore(Render(d), Render(d))
      BY TextIrreflexive
    <3> QED BY <2>1, <2>2, <2>4, <3>1
  <2>5. CASE DateBefore(d, e)
    <3>1. InstantOf(d) < InstantOf(e) /\ TextBefore(Render(d), Render(e))
      BY <2>5, InstantInOrder, TextInOrder
    <3>2. Render(d) # Render(e)
      BY <3>1, TextIrreflexive
    <3> QED BY <2>1, <2>2, <3>1, <3>2
  <2>6. CASE DateBefore(e, d)
    <3>1. InstantOf(e) < InstantOf(d) /\ TextBefore(Render(e), Render(d))
      BY <2>6, InstantInOrder, TextInOrder
    <3>2. Render(d) # Render(e)
      BY <3>1, TextIrreflexive
    <3>3. ~TextBefore(Render(d), Render(e))
      BY <2>3, <3>1, TextAsymmetric
    <3> QED BY <2>1, <2>2, <3>1, <3>2, <3>3
  <2> QED BY <2>4, <2>5, <2>6, DatesOrdered
<1> QED BY <1>1, PTL

\* The text of a date keeps to the profile's layout, and its fields are read back.
LEMMA RenderParses ==
  ASSUME NEW d \in Dates
  PROVE  HasProfileLayout(Render(d)) /\ d \in ParseDateTime(Render(d))
<1> DEFINE r == Render(d)
           D == ToSet(Digits)
<1>1. d.year \in Nat /\ d.year <= 9999
  BY DateTypes
<1>2. /\ d.year \div 100 \in Nat /\ d.year \div 100 <= 99
      /\ d.year % 100 \in Nat /\ d.year % 100 <= 99
      /\ d.year = 100 * (d.year \div 100) + (d.year % 100)
  BY <1>1, YearSplits
<1>3. /\ d.month \in Nat /\ d.month <= 99 /\ d.day \in Nat /\ d.day <= 99
      /\ d.part \in Nat /\ d.part <= 9
  BY DateTypes
<1>4. ASSUME NEW n \in Nat, n <= 99
      PROVE  /\ Digit(n \div 10) \in D /\ Digit(n) \in D
             /\ n = 10 * ValueOf(Digit(n \div 10)) + ValueOf(Digit(n))
  <2>1. n \div 10 \in Nat /\ (n \div 10) % 10 = n \div 10 /\ n = 10 * (n \div 10) + (n % 10)
    BY <1>4
  <2>2. ValueOf(Digit(n \div 10)) = n \div 10 /\ ValueOf(Digit(n)) = n % 10
    BY <2>1, DigitIsDigit
  <2> QED BY <2>1, <2>2, DigitIsDigit
<1>5. /\ r[1] = Digit((d.year \div 100) \div 10) /\ r[2] = Digit(d.year \div 100)
      /\ r[3] = Digit((d.year % 100) \div 10) /\ r[4] = Digit(d.year % 100)
      /\ r[5] = "-"
      /\ r[6] = Digit(d.month \div 10) /\ r[7] = Digit(d.month)
      /\ r[8] = "-"
      /\ r[9] = Digit(d.day \div 10) /\ r[10] = Digit(d.day)
      /\ r[11] = "T"
      /\ r[12] = Digit(d.part)
      /\ r[13] = "Z"
      /\ Len(r) = 13
  BY RenderPlaces
<1> HIDE DEF r, D
<1>6. HasProfileLayout(r)
  <2>1. /\ r[1] \in D /\ r[2] \in D /\ r[3] \in D /\ r[4] \in D /\ r[6] \in D /\ r[7] \in D
        /\ r[9] \in D /\ r[10] \in D /\ r[12] \in D
    BY <1>2, <1>3, <1>4, <1>5, DigitIsDigit DEF D
  <2>2. DOMAIN Mask = 1..13 /\ Len(Mask) = 13
    BY DEF Mask
  <2>3. /\ Mask[1] = "0" /\ Mask[2] = "0" /\ Mask[3] = "0" /\ Mask[4] = "0" /\ Mask[5] = "-"
        /\ Mask[6] = "0" /\ Mask[7] = "0" /\ Mask[8] = "-" /\ Mask[9] = "0" /\ Mask[10] = "0"
        /\ Mask[11] = "T" /\ Mask[12] = "0" /\ Mask[13] = "Z"
    BY DEF Mask
  <2>4. ASSUME NEW i \in 1..13
        PROVE  IF Mask[i] = "0" THEN r[i] \in D ELSE r[i] = Mask[i]
    <3>1. \/ i = 1 \/ i = 2 \/ i = 3 \/ i = 4 \/ i = 5 \/ i = 6 \/ i = 7
          \/ i = 8 \/ i = 9 \/ i = 10 \/ i = 11 \/ i = 12 \/ i = 13
      OBVIOUS
    <3>2. CASE i = 1 \/ i = 2 \/ i = 3 \/ i = 4 \/ i = 6 \/ i = 7 \/ i = 9 \/ i = 10 \/ i = 12
      <4>1. Mask[i] = "0" /\ r[i] \in D
        BY <2>1, <2>3, <3>2
      <4> QED BY <4>1
    <3>3. CASE i = 5 \/ i = 8 \/ i = 11 \/ i = 13
      <4>1. Mask[i] # "0" /\ r[i] = Mask[i]
        BY <1>5, <2>3, <3>3
      <4> QED BY <4>1
    <3> QED BY <3>1, <3>2, <3>3
  <2>5. Len(r) = Len(Mask)
    BY <1>5, <2>2
  <2> QED BY <2>2, <2>4, <2>5 DEF HasProfileLayout, D
<1>7. d \in ParseDateTime(r)
  <2>1. d.year \div 100 = 10 * ValueOf(r[1]) + ValueOf(r[2])
    BY <1>2, <1>4, <1>5
  <2>2. d.year % 100 = 10 * ValueOf(r[3]) + ValueOf(r[4])
    BY <1>2, <1>4, <1>5
  <2>3. d.month = 10 * ValueOf(r[6]) + ValueOf(r[7])
    BY <1>3, <1>4, <1>5
  <2>4. d.day = 10 * ValueOf(r[9]) + ValueOf(r[10])
    BY <1>3, <1>4, <1>5
  <2>5. d.part = ValueOf(r[12])
    <3>1. d.part % 10 = d.part
      BY <1>3
    <3> QED BY <1>3, <1>5, <3>1, DigitIsDigit
  <2>6. d.year = 100 * (10 * ValueOf(r[1]) + ValueOf(r[2])) + (10 * ValueOf(r[3]) + ValueOf(r[4]))
    BY <1>2, <2>1, <2>2
  <2> QED BY <2>3, <2>4, <2>5, <2>6 DEF ParseDateTime
<1> QED BY <1>6, <1>7 DEF r

\* A text is read back as the instant it was rendered from, and as no other: what
\* render_checkpoint_time writes for an instant a u64 holds, parse_checkpoint_time accepts.
THEOREM RenderingsAreRead ==
  \A d \in Dates : InRange(d) => ParseTime(Render(d)) = {InstantOf(d)}
<1> SUFFICES ASSUME NEW d \in Dates, InRange(d) PROVE ParseTime(Render(d)) = {InstantOf(d)}
  OBVIOUS
<1>1. ParseTime(Render(d)) =
        {n \in {InstantOf(e) : e \in {x \in ParseDateTime(Render(d)) : InRange(x)}} :
           Render(d) \in RenderInstant(n)}
  BY RenderParses DEF ParseTime
<1>2. InstantOf(d) \in ParseTime(Render(d))
  BY <1>1, RenderParses DEF RenderInstant
<1>3. ASSUME NEW n \in ParseTime(Render(d)) PROVE n = InstantOf(d)
  <2>1. PICK e \in Dates : InstantOf(e) = n /\ Render(e) = Render(d)
    BY <1>1 DEF RenderInstant
  <2>2. ~DateBefore(d, e) /\ ~DateBefore(e, d)
    BY <2>1, TextInOrder, TextIrreflexive
  <2>3. d = e
    BY <2>2, DatesOrdered
  <2> QED BY <2>1, <2>3
<1> QED BY <1>2, <1>3

=============================================================================
