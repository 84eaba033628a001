--------------------------- MODULE ConsoleProofs ----------------------------
(* Proofs about the line editor, for lines and histories of any length and    *)
(* any printing characters: console_handle_char() implements Editor.          *)
EXTENDS Integers, Console, SequenceTheorems, TLAPS

\* What the proofs need of the constants, and no more.
LEMMA Sizes ==
    /\ CONFIG_CONSOLE_INPUT_LINE_SIZE \in Nat /\ CONFIG_CONSOLE_INPUT_LINE_SIZE > 1
    /\ CONFIG_CONSOLE_HISTORY \in Nat /\ CONFIG_CONSOLE_HISTORY > 1
    /\ NUL \notin Glyphs
<1>1. NUL \in Special
  BY DEF Special
<1>2. Glyphs \cap (Special \cup NamedKeys) = {}
  BY ConsoleAssumption
<1>3. NUL \notin Glyphs
  BY <1>1, <1>2
<1> QED BY <1>3, ConsoleAssumption

-----------------------------------------------------------------------------
(* The line in input_buf *)

\* input_buf holds a C string of input_len characters.
LineInv == input_buf[input_len] = NUL /\ \A i \in 0 .. input_len - 1 : input_buf[i] # NUL

Holds(buf, n) ==
    /\ buf \in [Index -> Glyphs \cup {NUL}] /\ n \in Index
    /\ buf[n] = NUL /\ \A i \in 0 .. n - 1 : buf[i] # NUL

\* strlen() finds the terminating NUL, wherever others follow it.
LEMMA StrlenIs ==
    ASSUME NEW buf, NEW n, Holds(buf, n)
    PROVE  strlen(buf) = n
<1> DEFINE P(m) == /\ buf[m] = NUL \/ m = CONFIG_CONSOLE_INPUT_LINE_SIZE - 1
                   /\ \A i \in 0 .. m - 1 : buf[i] # NUL
<1>1. n \in Index /\ P(n)
  BY DEF Holds
<1>2. ASSUME NEW m \in Index, P(m)
      PROVE  m = n
  BY <1>2, Sizes DEF Holds, Index
<1>3. strlen(buf) \in Index /\ P(strlen(buf))
  BY <1>1 DEF strlen
<1> QED BY <1>2, <1>3

\* The string of a buffer is what is before its NUL, all of it printable.
LEMMA StringIs ==
    ASSUME NEW buf, NEW n, Holds(buf, n)
    PROVE  /\ String(buf) = [i \in 1 .. n |-> buf[i - 1]]
           /\ String(buf) \in Seq(Glyphs) /\ Len(String(buf)) = n
<1>1. String(buf) = [i \in 1 .. n |-> buf[i - 1]]
  BY StrlenIs DEF String
<1>2. n \in Nat
  BY Sizes DEF Holds, Index
<1>3. ASSUME NEW i \in 1 .. n
      PROVE  buf[i - 1] \in Glyphs
  BY Sizes, <1>2 DEF Holds, Index
<1>4. String(buf) \in [1 .. n -> Glyphs]
  BY <1>1, <1>3
<1> QED BY <1>1, <1>2, <1>4

\* The string is in the buffer again after strzcpy().
LEMMA CopyHolds ==
    ASSUME NEW buf \in [Index -> Glyphs \cup {NUL}], NEW s \in Seq(Glyphs), Len(s) \in Index
    PROVE  Holds(strzcpy(buf, s), Len(s)) /\ String(strzcpy(buf, s)) = s
<1> DEFINE new == strzcpy(buf, s)
<1>1. Len(s) \in Nat /\ \A i \in 1 .. Len(s) : s[i] \in Glyphs
  BY ElementOfSeq
<1>2. \A i \in Index : new[i] = IF i < Len(s) THEN s[i + 1]
                                ELSE IF i = Len(s) THEN NUL ELSE buf[i]
  BY DEF strzcpy
<1>3. ASSUME NEW i \in Index
      PROVE  new[i] \in Glyphs \cup {NUL}
  <2>1. CASE i < Len(s)
    BY <1>1, <1>2, <2>1, i + 1 \in 1 .. Len(s) DEF Index
  <2>2. CASE ~(i < Len(s))
    BY <1>2, <2>2
  <2> QED BY <2>1, <2>2
<1>4. new \in [Index -> Glyphs \cup {NUL}]
  BY <1>3 DEF strzcpy
<1>5. new[Len(s)] = NUL
  BY <1>1, <1>2
<1>6. ASSUME NEW i \in 0 .. Len(s) - 1
      PROVE  new[i] = s[i + 1] /\ new[i] # NUL
  <2>1. i \in Index /\ i < Len(s) /\ i + 1 \in 1 .. Len(s)
    BY <1>1, Sizes DEF Index
  <2> QED BY <2>1, <1>1, <1>2, Sizes
<1>7. Holds(new, Len(s))
  BY <1>4, <1>5, <1>6 DEF Holds
<1>8. String(new) = [i \in 1 .. Len(s) |-> new[i - 1]]
  BY <1>7, StringIs
<1>9. ASSUME NEW i \in 1 .. Len(s)
      PROVE  new[i - 1] = s[i]
  BY <1>1, <1>6, i - 1 \in 0 .. Len(s) - 1
<1>10. String(new) \in Seq(Glyphs) /\ Len(String(new)) = Len(s)
  BY <1>7, StringIs
<1>11. String(new) = s
  BY <1>8, <1>9, <1>10, SeqEqual
<1> QED BY <1>7, <1>11

-----------------------------------------------------------------------------
(* The line on either side of the cursor *)

Before(buf, p) == SubSeq(String(buf), 1, p)
After(buf, p) == SubSeq(String(buf), p + 1, strlen(buf))

LEMMA Halves ==
    ASSUME NEW buf, NEW n, Holds(buf, n), NEW p \in 0 .. n
    PROVE  /\ Before(buf, p) \in Seq(Glyphs) /\ Len(Before(buf, p)) = p
           /\ \A i \in 1 .. p : Before(buf, p)[i] = buf[i - 1]
           /\ After(buf, p) \in Seq(Glyphs) /\ Len(After(buf, p)) = n - p
           /\ \A i \in 1 .. n - p : After(buf, p)[i] = buf[p + i - 1]
<1>1. n \in Nat /\ p \in Nat /\ p <= n
  BY Sizes DEF Holds, Index
<1>2. /\ String(buf) \in Seq(Glyphs) /\ Len(String(buf)) = n /\ strlen(buf) = n
      /\ \A i \in 1 .. n : String(buf)[i] = buf[i - 1]
  BY StringIs, StrlenIs
<1>3. /\ Before(buf, p) \in Seq(Glyphs) /\ Len(Before(buf, p)) = p
      /\ \A i \in 1 .. p : Before(buf, p)[i] = buf[i - 1]
  BY <1>1, <1>2 DEF Before
<1>4. After(buf, p) = SubSeq(String(buf), p + 1, n)
  BY <1>2 DEF After
<1>5. /\ After(buf, p) \in Seq(Glyphs) /\ Len(After(buf, p)) = n - p
      /\ \A i \in 1 .. n - p : After(buf, p)[i] = String(buf)[p + i]
  BY <1>1, <1>2, <1>4
<1>6. ASSUME NEW i \in 1 .. n - p
      PROVE  After(buf, p)[i] = buf[p + i - 1]
  BY <1>1, <1>2, <1>5, p + i \in 1 .. n
<1> QED BY <1>3, <1>5, <1>6

IsBefore(b, buf, p) ==
    b \in Seq(Glyphs) /\ Len(b) = p /\ \A i \in 1 .. p : b[i] = buf[i - 1]

IsAfter(a, buf, n, p) ==
    /\ a \in Seq(Glyphs) /\ Len(a) = n - p
    /\ \A i \in 1 .. n - p : a[i] = buf[p + i - 1]

\* Whatever has the length and the characters of a half is that half.
LEMMA HalvesAre ==
    ASSUME NEW buf, NEW n, Holds(buf, n), NEW p \in 0 .. n, NEW b, NEW a,
           IsBefore(b, buf, p), IsAfter(a, buf, n, p)
    PROVE  Before(buf, p) = b /\ After(buf, p) = a
<1> DEFINE x == After(buf, p)
           y == Before(buf, p)
<1>1. x \in Seq(Glyphs) /\ Len(x) = n - p /\ \A i \in 1 .. n - p : x[i] = a[i]
  BY Halves DEF IsAfter
<1>2. y \in Seq(Glyphs) /\ Len(y) = p /\ \A i \in 1 .. p : y[i] = b[i]
  BY Halves DEF IsBefore
<1> HIDE DEF x, y
<1>3. x = a
  BY <1>1, SeqEqual DEF IsAfter
<1>4. y = b
  BY <1>2, SeqEqual DEF IsBefore
<1> QED BY <1>3, <1>4 DEF x, y

\* The halves are the whole line.
LEMMA WholeLine ==
    ASSUME NEW buf, NEW n, Holds(buf, n), NEW p \in 0 .. n
    PROVE  Before(buf, p) \o After(buf, p) = String(buf)
<1> DEFINE b == Before(buf, p)
           a == After(buf, p)
<1>1. n \in Nat /\ p \in Nat /\ p <= n
  BY Sizes DEF Holds, Index
<1>2. /\ b \in Seq(Glyphs) /\ Len(b) = p /\ \A i \in 1 .. p : b[i] = buf[i - 1]
      /\ a \in Seq(Glyphs) /\ Len(a) = n - p
      /\ \A i \in 1 .. n - p : a[i] = buf[p + i - 1]
  BY Halves
<1>3. String(buf) \in Seq(Glyphs) /\ Len(String(buf)) = n
  BY StringIs
<1> HIDE DEF b, a
<1>4. b \o a \in Seq(Glyphs) /\ Len(b \o a) = n
  <2>1. b \o a \in Seq(Glyphs) /\ Len(b \o a) = Len(b) + Len(a)
    BY <1>2, ConcatProperties
  <2> QED BY <2>1, <1>1, <1>2
<1>5. ASSUME NEW i \in 1 .. n
      PROVE  (b \o a)[i] = String(buf)[i]
  <2>1. String(buf)[i] = buf[i - 1]
    BY StringIs
  <2>2. CASE i <= p
    BY <1>1, <1>2, <2>1, <2>2
  <2>3. CASE i > p
    <3>1. (b \o a)[i] = a[i - p]
      BY <1>1, <1>2, <2>3
    <3>2. i - p \in 1 .. n - p /\ p + (i - p) - 1 = i - 1
      BY <1>1, <2>3
    <3>3. a[i - p] = buf[p + (i - p) - 1]
      BY <1>2, <3>2
    <3> QED BY <2>1, <3>1, <3>2, <3>3
  <2>4. i <= p \/ i > p
    BY <1>1
  <2> QED BY <2>2, <2>3, <2>4
<1>6. b \o a = String(buf)
  BY <1>3, <1>4, <1>5, SeqEqual
<1> QED BY <1>6 DEF b, a

-----------------------------------------------------------------------------
(* What the operations do to the line *)

\* At the ends of the line one half is empty and the other is all of it.
LEMMA AtEnds ==
    ASSUME NEW buf, NEW n, Holds(buf, n)
    PROVE  /\ Before(buf, 0) = <<>> /\ After(buf, 0) = String(buf)
           /\ Before(buf, n) = String(buf) /\ After(buf, n) = <<>>
<1>1. n \in Nat
  BY Sizes DEF Holds, Index
<1>2. String(buf) \in Seq(Glyphs) /\ Len(String(buf)) = n /\ strlen(buf) = n
  BY StringIs, StrlenIs
<1>3. SubSeq(String(buf), 1, n) = String(buf)
  BY <1>2, SubSeqFull
<1>4. SubSeq(String(buf), 1, 0) = <<>> /\ SubSeq(String(buf), n + 1, n) = <<>>
  BY <1>1, SubSeqEmpty
<1>5. 0 + 1 = 1
  OBVIOUS
<1> QED BY <1>2, <1>3, <1>4, <1>5 DEF Before, After

\* One to the right, the cursor has passed the first character after it.
LEMMA OneRight ==
    ASSUME NEW buf, NEW n, Holds(buf, n), NEW p \in 0 .. n - 1
    PROVE  /\ After(buf, p) # <<>>
           /\ Before(buf, p + 1) = Append(Before(buf, p), Head(After(buf, p)))
           /\ After(buf, p + 1) = SubSeq(After(buf, p), 2, Len(After(buf, p)))
<1> DEFINE b == Before(buf, p)
           a == After(buf, p)
<1>1. n \in Nat /\ p \in Nat /\ p + 1 <= n
  BY Sizes DEF Holds, Index
<1>2. /\ b \in Seq(Glyphs) /\ Len(b) = p /\ \A i \in 1 .. p : b[i] = buf[i - 1]
      /\ a \in Seq(Glyphs) /\ Len(a) = n - p
      /\ \A i \in 1 .. n - p : a[i] = buf[p + i - 1]
  <2>1. p \in 0 .. n
    BY <1>1
  <2> QED BY <2>1, Halves
<1> HIDE DEF b, a
<1>3. a # <<>> /\ Head(a) = buf[p] /\ Head(a) \in Glyphs
  BY <1>1, <1>2
<1> DEFINE b1 == Append(b, Head(a))
           a1 == SubSeq(a, 2, Len(a))
<1>4. /\ b1 \in Seq(Glyphs) /\ Len(b1) = p + 1
      /\ \A i \in 1 .. p + 1 : b1[i] = buf[i - 1]
  BY <1>1, <1>2, <1>3
<1>5. a1 \in Seq(Glyphs) /\ Len(a1) = n - (p + 1)
  BY <1>1, <1>2
<1>6. ASSUME NEW i \in 1 .. n - (p + 1)
      PROVE  a1[i] = buf[(p + 1) + i - 1]
  <2>1. a1[i] = a[i + 1] /\ i + 1 \in 1 .. n - p
    BY <1>1, <1>2
  <2>2. a[i + 1] = buf[p + (i + 1) - 1]
    BY <1>2, <2>1
  <2>3. p + (i + 1) - 1 = (p + 1) + i - 1
    BY <1>1
  <2> QED BY <2>1, <2>2, <2>3
<1> HIDE DEF b1, a1
<1>7. Before(buf, p + 1) = b1 /\ After(buf, p + 1) = a1
  <2>1. IsBefore(b1, buf, p + 1) /\ IsAfter(a1, buf, n, p + 1)
    BY <1>4, <1>5, <1>6 DEF IsBefore, IsAfter
  <2>2. p + 1 \in 0 .. n
    BY <1>1
  <2> QED BY <2>1, <2>2, HalvesAre
<1> QED BY <1>3, <1>7 DEF b, a, b1, a1

\* One to the left, it has passed the last character before it.
LEMMA OneLeft ==
    ASSUME NEW buf, NEW n, Holds(buf, n), NEW p \in 1 .. n
    PROVE  LET b == Before(buf, p) IN
           /\ b # <<>> /\ Len(b) = p
           /\ Before(buf, p - 1) = SubSeq(b, 1, Len(b) - 1)
           /\ After(buf, p - 1) = <<b[Len(b)]>> \o After(buf, p)
<1> DEFINE b == Before(buf, p)
           a == After(buf, p)
<1>1. n \in Nat /\ p \in Nat /\ p <= n /\ p >= 1
  BY Sizes DEF Holds, Index
<1>2. /\ b \in Seq(Glyphs) /\ Len(b) = p /\ \A i \in 1 .. p : b[i] = buf[i - 1]
      /\ a \in Seq(Glyphs) /\ Len(a) = n - p
      /\ \A i \in 1 .. n - p : a[i] = buf[p + i - 1]
  <2>1. p \in 0 .. n
    BY <1>1
  <2> QED BY <2>1, Halves
<1> HIDE DEF b, a
<1>3. b # <<>> /\ b[p] = buf[p - 1] /\ b[p] \in Glyphs
  BY <1>1, <1>2
<1> DEFINE b1 == SubSeq(b, 1, p - 1)
           a1 == <<b[p]>> \o a
<1>4. /\ b1 \in Seq(Glyphs) /\ Len(b1) = p - 1
      /\ \A i \in 1 .. p - 1 : b1[i] = buf[i - 1]
  BY <1>1, <1>2
<1>5. <<b[p]>> \in Seq(Glyphs) /\ Len(<<b[p]>>) = 1 /\ <<b[p]>>[1] = b[p]
  BY <1>3
<1>6. /\ a1 \in Seq(Glyphs) /\ Len(a1) = 1 + Len(a)
      /\ \A i \in 1 .. 1 + Len(a) : a1[i] = IF i <= 1 THEN <<b[p]>>[i] ELSE a[i - 1]
  BY <1>2, <1>5, ConcatProperties
<1>7. Len(a1) = n - (p - 1)
  BY <1>1, <1>2, <1>6
<1>8. ASSUME NEW i \in 1 .. n - (p - 1)
      PROVE  a1[i] = buf[(p - 1) + i - 1]
  <2>1. CASE i = 1
    BY <1>1, <1>2, <1>3, <1>5, <1>6, <2>1
  <2>2. CASE i > 1
    <3>1. a1[i] = a[i - 1] /\ i - 1 \in 1 .. n - p
      BY <1>1, <1>2, <1>6, <2>2
    <3>2. a[i - 1] = buf[p + (i - 1) - 1]
      BY <1>2, <3>1
    <3>3. p + (i - 1) - 1 = (p - 1) + i - 1
      BY <1>1
    <3> QED BY <3>1, <3>2, <3>3
  <2>3. i = 1 \/ i > 1
    BY <1>1
  <2> QED BY <2>1, <2>2, <2>3
<1> HIDE DEF b1, a1
<1>9. Before(buf, p - 1) = b1 /\ After(buf, p - 1) = a1
  <2>1. IsBefore(b1, buf, p - 1) /\ IsAfter(a1, buf, n, p - 1)
    BY <1>4, <1>6, <1>7, <1>8 DEF IsBefore, IsAfter
  <2>2. p - 1 \in 0 .. n
    BY <1>1
  <2> QED BY <2>1, <2>2, HalvesAre
<1> QED BY <1>2, <1>3, <1>9 DEF b, a, b1, a1


\* A printing character goes in before the cursor.
LEMMA Inserted ==
    ASSUME NEW buf, NEW n, Holds(buf, n), NEW p \in 0 .. n, n + 1 \in Index,
           NEW g \in Glyphs, NEW moved,
           moved = IF p = n THEN buf ELSE memmove(buf, p + 1, p, n - p + 1),
           NEW new, new = [moved EXCEPT ![p] = g, ![n + 1] = NUL]
    PROVE  /\ Holds(new, n + 1)
           /\ Before(new, p + 1) = Append(Before(buf, p), g)
           /\ After(new, p + 1) = After(buf, p)
<1> DEFINE b == Before(buf, p)
           a == After(buf, p)
           b1 == Append(b, g)
<1>1. n \in Nat /\ p \in Nat /\ p <= n /\ n + 1 < CONFIG_CONSOLE_INPUT_LINE_SIZE
  BY Sizes DEF Holds, Index
<1>2. buf \in [Index -> Glyphs \cup {NUL}] /\ buf[n] = NUL
      /\ \A i \in 0 .. n - 1 : buf[i] # NUL
  BY DEF Holds
<1>3. /\ moved \in [Index -> Glyphs \cup {NUL}]
      /\ \A i \in 0 .. p - 1 : moved[i] = buf[i]
      /\ \A i \in p + 1 .. n : moved[i] = buf[i - 1]
  <2>1. CASE p = n
    BY <1>1, <1>2, <2>1
  <2>2. CASE p # n
    <3>1. moved = [i \in Index |-> IF i \in p + 1 .. p + 1 + (n - p + 1) - 1
                                   THEN buf[p + i - (p + 1)] ELSE buf[i]]
      BY <2>2 DEF memmove
    <3>2. \A i \in Index : moved[i] = IF i \in p + 1 .. n + 1 THEN buf[i - 1] ELSE buf[i]
      <4> TAKE i \in Index
      <4>1. p + 1 + (n - p + 1) - 1 = n + 1 /\ p + i - (p + 1) = i - 1
        BY <1>1 DEF Index
      <4> QED BY <3>1, <4>1
    <3>3. ASSUME NEW i \in Index
          PROVE  moved[i] \in Glyphs \cup {NUL}
      <4>1. CASE i \in p + 1 .. n + 1
        <5>1. i - 1 \in Index
          BY <1>1, Sizes, <4>1 DEF Index
        <5> QED BY <1>2, <3>2, <4>1, <5>1
      <4> QED BY <1>2, <3>2, <4>1
    <3>4. moved \in [Index -> Glyphs \cup {NUL}]
      BY <3>1, <3>3
    <3> QED BY <1>1, <3>2, <3>4, Sizes DEF Index
  <2> QED BY <2>1, <2>2
<1>4. /\ new \in [Index -> Glyphs \cup {NUL}] /\ new[n + 1] = NUL /\ new[p] = g
      /\ \A i \in 0 .. p - 1 : new[i] = buf[i]
      /\ \A i \in p + 1 .. n : new[i] = buf[i - 1]
  <2>1. p \in Index /\ n + 1 \in Index /\ p # n + 1
    BY <1>1, Sizes DEF Index
  <2>2. /\ new \in [Index -> Glyphs \cup {NUL}] /\ new[n + 1] = NUL /\ new[p] = g
        /\ \A i \in Index : i # p /\ i # n + 1 => new[i] = moved[i]
    BY <1>3, <2>1
  <2>3. ASSUME NEW i \in 0 .. n, i # p
        PROVE  new[i] = moved[i]
    BY <1>1, <2>2, <2>3, Sizes DEF Index
  <2>4. \A i \in 0 .. p - 1 : new[i] = buf[i]
    BY <1>1, <1>3, <2>3
  <2>5. \A i \in p + 1 .. n : new[i] = buf[i - 1]
    BY <1>1, <1>3, <2>3
  <2> QED BY <2>2, <2>4, <2>5
<1>5. ASSUME NEW i \in 0 .. n
      PROVE  new[i] # NUL
  <2>1. CASE i < p
    BY <1>1, <1>2, <1>4, <2>1
  <2>2. CASE i = p
    BY <1>4, <2>2, Sizes
  <2>3. CASE i > p
    <3>1. new[i] = buf[i - 1] /\ i - 1 \in 0 .. n - 1
      BY <1>1, <1>4, <2>3
    <3> QED BY <1>2, <3>1
  <2>4. i < p \/ i = p \/ i > p
    BY <1>1
  <2> QED BY <2>1, <2>2, <2>3, <2>4
<1>6. Holds(new, n + 1)
  BY <1>1, <1>4, <1>5 DEF Holds
<1>7. /\ b \in Seq(Glyphs) /\ Len(b) = p /\ \A i \in 1 .. p : b[i] = buf[i - 1]
      /\ a \in Seq(Glyphs) /\ Len(a) = n - p
      /\ \A i \in 1 .. n - p : a[i] = buf[p + i - 1]
  BY Halves
<1> HIDE DEF b, a
<1>8. b1 \in Seq(Glyphs) /\ Len(b1) = p + 1
  BY <1>7, <1>1
<1>9. ASSUME NEW i \in 1 .. p + 1
      PROVE  b1[i] = new[i - 1]
  <2>1. CASE i <= p
    <3>1. b1[i] = b[i] /\ b[i] = buf[i - 1]
      BY <1>1, <1>7, <2>1
    <3>2. i - 1 \in 0 .. p - 1
      BY <1>1, <2>1
    <3> QED BY <1>4, <3>1, <3>2
  <2>2. CASE i = p + 1
    BY <1>1, <1>4, <1>7, <2>2
  <2>3. i <= p \/ i = p + 1
    BY <1>1
  <2> QED BY <2>1, <2>2, <2>3
<1>10. ASSUME NEW i \in 1 .. (n + 1) - (p + 1)
       PROVE  a[i] = new[(p + 1) + i - 1]
  <2>1. p + i \in p + 1 .. n /\ (p + 1) + i - 1 = p + i /\ i \in 1 .. n - p
    BY <1>1
  <2>2. new[p + i] = buf[p + i - 1]
    BY <1>4, <2>1
  <2> QED BY <1>7, <2>1, <2>2
<1>11. p + 1 \in 0 .. n + 1 /\ Len(a) = (n + 1) - (p + 1)
  BY <1>1, <1>7
<1> HIDE DEF b1
<1>12. Before(new, p + 1) = b1 /\ After(new, p + 1) = a
  <2>1. IsBefore(b1, new, p + 1) /\ IsAfter(a, new, n + 1, p + 1)
    BY <1>7, <1>8, <1>9, <1>10, <1>11 DEF IsBefore, IsAfter
  <2> QED BY <2>1, <1>6, <1>11, HalvesAre
<1> QED BY <1>6, <1>12 DEF b, a, b1

\* handle_backspace(): the character before the cursor goes.
LEMMA Removed ==
    ASSUME NEW buf, NEW n, Holds(buf, n), NEW p \in 1 .. n,
           NEW new, new = IF p # n THEN memmove(buf, p - 1, p, n - p + 1)
                          ELSE [buf EXCEPT ![n - 1] = NUL]
    PROVE  /\ Holds(new, n - 1)
           /\ Before(new, p - 1) = Before(buf, p - 1)
           /\ After(new, p - 1) = After(buf, p)
<1> DEFINE b == Before(buf, p - 1)
           a == After(buf, p)
<1>1. n \in Nat /\ p \in Nat /\ 1 <= p /\ p <= n /\ n < CONFIG_CONSOLE_INPUT_LINE_SIZE
  BY Sizes DEF Holds, Index
<1>2. buf \in [Index -> Glyphs \cup {NUL}] /\ buf[n] = NUL
      /\ \A i \in 0 .. n - 1 : buf[i] # NUL
  BY DEF Holds
<1>3. /\ new \in [Index -> Glyphs \cup {NUL}]
      /\ \A i \in 0 .. p - 2 : new[i] = buf[i]
      /\ \A i \in p - 1 .. n - 1 : new[i] = buf[i + 1]
  <2>1. CASE p = n
    <3>1. new = [buf EXCEPT ![n - 1] = NUL]
      BY <2>1
    <3>2. n - 1 \in Index
      BY <1>1, Sizes DEF Index
    <3>3. new \in [Index -> Glyphs \cup {NUL}] /\ new[n - 1] = NUL
          /\ \A i \in Index : i # n - 1 => new[i] = buf[i]
      BY <1>2, <3>1, <3>2
    <3>4. \A i \in 0 .. p - 2 : new[i] = buf[i]
      BY <1>1, <2>1, <3>3 DEF Index
    <3>5. ASSUME NEW i \in p - 1 .. n - 1
          PROVE  new[i] = buf[i + 1]
      BY <1>1, <1>2, <2>1, <3>3, i = n - 1, i + 1 = n
    <3> QED BY <3>3, <3>4, <3>5
  <2>2. CASE p # n
    <3>1. new = [i \in Index |-> IF i \in p - 1 .. p - 1 + (n - p + 1) - 1
                                 THEN buf[p + i - (p - 1)] ELSE buf[i]]
      BY <2>2 DEF memmove
    <3>2. \A i \in Index : new[i] = IF i \in p - 1 .. n - 1 THEN buf[i + 1] ELSE buf[i]
      <4> TAKE i \in Index
      <4>1. p - 1 + (n - p + 1) - 1 = n - 1 /\ p + i - (p - 1) = i + 1
        BY <1>1 DEF Index
      <4> QED BY <3>1, <4>1
    <3>3. ASSUME NEW i \in Index
          PROVE  new[i] \in Glyphs \cup {NUL}
      <4>1. CASE i \in p - 1 .. n - 1
        <5>1. i + 1 \in Index
          BY <1>1, Sizes, <4>1 DEF Index
        <5> QED BY <1>2, <3>2, <4>1, <5>1
      <4> QED BY <1>2, <3>2, <4>1
    <3>4. new \in [Index -> Glyphs \cup {NUL}]
      BY <3>1, <3>3
    <3>5. 0 .. n - 1 \subseteq Index
      BY <1>1, Sizes DEF Index
    <3>6. \A i \in 0 .. p - 2 : new[i] = buf[i]
      BY <1>1, <3>2, <3>5
    <3>7. \A i \in p - 1 .. n - 1 : new[i] = buf[i + 1]
      BY <1>1, <3>2, <3>5
    <3> QED BY <3>4, <3>6, <3>7
  <2> QED BY <2>1, <2>2
<1>4. new[n - 1] = NUL
  BY <1>1, <1>2, <1>3, n - 1 \in p - 1 .. n - 1, (n - 1) + 1 = n
<1>5. ASSUME NEW i \in 0 .. (n - 1) - 1
      PROVE  new[i] # NUL
  <2>1. CASE i <= p - 2
    BY <1>1, <1>2, <1>3, <2>1
  <2>2. CASE i > p - 2
    <3>1. new[i] = buf[i + 1] /\ i + 1 \in 0 .. n - 1
      BY <1>1, <1>3, <2>2
    <3> QED BY <1>2, <3>1
  <2>3. i <= p - 2 \/ i > p - 2
    BY <1>1
  <2> QED BY <2>1, <2>2, <2>3
<1>6. n - 1 \in Index
  BY <1>1, Sizes DEF Index
<1>7. Holds(new, n - 1)
  BY <1>3, <1>4, <1>5, <1>6 DEF Holds
<1>8. /\ b \in Seq(Glyphs) /\ Len(b) = p - 1 /\ \A i \in 1 .. p - 1 : b[i] = buf[i - 1]
  <2>1. p - 1 \in 0 .. n
    BY <1>1
  <2> QED BY <2>1, Halves
<1>9. /\ a \in Seq(Glyphs) /\ Len(a) = n - p
      /\ \A i \in 1 .. n - p : a[i] = buf[p + i - 1]
  <2>1. p \in 0 .. n
    BY <1>1
  <2> QED BY <2>1, Halves
<1> HIDE DEF b, a
<1>10. ASSUME NEW i \in 1 .. p - 1
       PROVE  b[i] = new[i - 1]
  BY <1>1, <1>3, <1>8, i - 1 \in 0 .. p - 2
<1>11. ASSUME NEW i \in 1 .. (n - 1) - (p - 1)
       PROVE  a[i] = new[(p - 1) + i - 1]
  <2>1. /\ (p - 1) + i - 1 \in p - 1 .. n - 1 /\ ((p - 1) + i - 1) + 1 = p + i - 1
        /\ i \in 1 .. n - p
    BY <1>1
  <2>2. new[(p - 1) + i - 1] = buf[p + i - 1]
    BY <1>3, <2>1
  <2> QED BY <1>9, <2>1, <2>2
<1>12. p - 1 \in 0 .. n - 1 /\ Len(a) = (n - 1) - (p - 1)
  BY <1>1, <1>9
<1>13. Before(new, p - 1) = b /\ After(new, p - 1) = a
  <2>1. IsBefore(b, new, p - 1) /\ IsAfter(a, new, n - 1, p - 1)
    BY <1>8, <1>9, <1>10, <1>11, <1>12 DEF IsBefore, IsAfter
  <2> QED BY <2>1, <1>7, <1>12, HalvesAre
<1> QED BY <1>7, <1>13 DEF b, a


\* ^K: what is after the cursor goes.
LEMMA Cut ==
    ASSUME NEW buf, NEW n, Holds(buf, n), NEW p \in 0 .. n,
           NEW new, new = IF p = n THEN buf ELSE [buf EXCEPT ![p] = NUL]
    PROVE  Holds(new, p) /\ Before(new, p) = Before(buf, p) /\ After(new, p) = <<>>
<1> DEFINE b == Before(buf, p)
<1>1. n \in Nat /\ p \in Nat /\ p <= n /\ p \in Index
  BY Sizes DEF Holds, Index
<1>2. buf \in [Index -> Glyphs \cup {NUL}] /\ buf[n] = NUL
      /\ \A i \in 0 .. n - 1 : buf[i] # NUL
  BY DEF Holds
<1>3. /\ new \in [Index -> Glyphs \cup {NUL}] /\ new[p] = NUL
      /\ \A i \in Index : i # p => new[i] = buf[i]
  BY <1>1, <1>2
<1>4. \A i \in 0 .. p - 1 : new[i] = buf[i]
  BY <1>1, <1>3, Sizes DEF Index
<1>5. Holds(new, p)
  BY <1>1, <1>2, <1>3, <1>4 DEF Holds
<1>6. b \in Seq(Glyphs) /\ Len(b) = p /\ \A i \in 1 .. p : b[i] = buf[i - 1]
  BY Halves
<1> HIDE DEF b
<1>7. ASSUME NEW i \in 1 .. p
      PROVE  b[i] = new[i - 1]
  BY <1>1, <1>4, <1>6, i - 1 \in 0 .. p - 1
<1>8. IsBefore(b, new, p)
  BY <1>6, <1>7 DEF IsBefore
<1>9. IsAfter(<<>>, new, p, p)
  BY <1>1 DEF IsAfter
<1>10. Before(new, p) = b /\ After(new, p) = <<>>
  BY <1>1, <1>5, <1>8, <1>9, p \in 0 .. p, HalvesAre
<1> QED BY <1>5, <1>10 DEF b

-----------------------------------------------------------------------------
(* The line through the steps of the module *)

LEMMA LineHeld ==
    LineTypes /\ LineInv <=> Holds(input_buf, input_len) /\ input_pos \in 0 .. input_len
  BY DEF LineTypes, LineInv, Holds

LineOK == Holds(input_buf, input_len) /\ input_pos \in 0 .. input_len

LEMMA LineNumbers ==
    ASSUME LineOK
    PROVE  /\ input_len \in Nat /\ input_pos \in Nat /\ input_pos <= input_len
           /\ input_len < CONFIG_CONSOLE_INPUT_LINE_SIZE
  BY Sizes DEF LineOK, Holds, Index

LEMMA InsertLine ==
    ASSUME LineOK, NEW g \in Glyphs, Insert(g)
    PROVE  /\ LineOK'
           /\ BeforeCursor' = IF Room THEN Append(BeforeCursor, g) ELSE BeforeCursor
           /\ AfterCursor' = AfterCursor
<1>1. CASE ~Room
  BY <1>1 DEF Insert, bufVars, LineOK, BeforeCursor, AfterCursor, Before, After
<1>2. CASE Room
  <2> DEFINE moved == IF input_pos = input_len THEN input_buf
                      ELSE memmove(input_buf, input_pos + 1, input_pos,
                                   input_len - input_pos + 1)
  <2>1. /\ input_buf' = [moved EXCEPT ![input_pos] = g, ![input_len + 1] = NUL]
        /\ input_pos' = input_pos + 1 /\ input_len' = input_len + 1
    BY <1>2 DEF Insert
  <2>2. input_len + 1 \in Index
    BY <1>2, LineNumbers, Sizes DEF Room, Index
  <2>3. PICK m : m = moved
    OBVIOUS
  <2>4. PICK new : new = [m EXCEPT ![input_pos] = g, ![input_len + 1] = NUL]
    OBVIOUS
  <2>5. input_buf' = new
    BY <2>1, <2>3, <2>4
  <2>6. Holds(input_buf, input_len) /\ input_pos \in 0 .. input_len
    BY DEF LineOK
  <2>7. /\ Holds(new, input_len + 1)
        /\ Before(new, input_pos + 1) = Append(Before(input_buf, input_pos), g)
        /\ After(new, input_pos + 1) = After(input_buf, input_pos)
    BY <2>2, <2>3, <2>4, <2>6, Inserted
  <2>8. input_pos + 1 \in 0 .. input_len + 1
    BY LineNumbers
  <2> QED BY <1>2, <2>1, <2>5, <2>7, <2>8 DEF LineOK, BeforeCursor, AfterCursor, Before, After
<1> QED BY <1>1, <1>2

\* handle_backspace(), with the cursor where it is and one to the right.
LEMMA BackspaceLine ==
    ASSUME LineOK, NEW p \in 1 .. input_len, handle_backspace(p)
    PROVE  /\ LineOK'
           /\ BeforeCursor' = Before(input_buf, p - 1) /\ AfterCursor' = After(input_buf, p)
<1>1. p # 0
  BY LineNumbers
<1>2. PICK new : new = IF p # input_len
                       THEN memmove(input_buf, p - 1, p, input_len - p + 1)
                       ELSE [input_buf EXCEPT ![input_len - 1] = NUL]
  OBVIOUS
<1>3. input_buf' = new /\ input_len' = input_len - 1 /\ input_pos' = p - 1
  BY <1>1, <1>2 DEF handle_backspace
<1>4. Holds(input_buf, input_len)
  BY DEF LineOK
<1>5. /\ Holds(new, input_len - 1)
      /\ Before(new, p - 1) = Before(input_buf, p - 1)
      /\ After(new, p - 1) = After(input_buf, p)
  BY <1>2, <1>4, Removed
<1>6. p - 1 \in 0 .. input_len - 1
  BY LineNumbers
<1> QED BY <1>3, <1>5, <1>6 DEF LineOK, BeforeCursor, AfterCursor, Before, After

LEMMA KillLine ==
    ASSUME LineOK, Kill
    PROVE  LineOK' /\ BeforeCursor' = BeforeCursor /\ AfterCursor' = <<>>
<1>1. PICK new : new = IF input_pos = input_len THEN input_buf
                       ELSE [input_buf EXCEPT ![input_pos] = NUL]
  OBVIOUS
<1>2. input_buf' = new /\ input_len' = input_pos /\ input_pos' = input_pos
  BY <1>1 DEF Kill
<1>3. Holds(input_buf, input_len) /\ input_pos \in 0 .. input_len
  BY DEF LineOK
<1>4. /\ Holds(new, input_pos) /\ Before(new, input_pos) = Before(input_buf, input_pos)
      /\ After(new, input_pos) = <<>>
  BY <1>1, <1>3, Cut
<1>5. input_pos \in 0 .. input_pos
  BY LineNumbers
<1> QED BY <1>2, <1>4, <1>5 DEF LineOK, BeforeCursor, AfterCursor, Before, After

\* The next line is empty, whatever parsing the last one has left behind its NUL.
LEMMA NextLine ==
    ASSUME LineOK, NewLine
    PROVE  LineOK' /\ BeforeCursor' = <<>> /\ AfterCursor' = <<>>
<1>1. PICK ends \in SUBSET (1 .. input_len) :
        input_buf' = [i \in Index |-> IF i \in ends \cup {0} THEN NUL ELSE input_buf[i]]
  BY DEF NewLine
<1>2. input_len' = 0 /\ input_pos' = 0
  BY DEF NewLine
<1>3. input_buf \in [Index -> Glyphs \cup {NUL}] /\ 0 \in Index
  BY Sizes DEF LineOK, Holds, Index
<1>4. input_buf' \in [Index -> Glyphs \cup {NUL}] /\ input_buf'[0] = NUL
  BY <1>1, <1>3
<1>5. Holds(input_buf', 0)
  BY <1>3, <1>4 DEF Holds
<1>6. String(input_buf') \in Seq(Glyphs) /\ Len(String(input_buf')) = 0
  BY <1>5, StringIs
<1>7. String(input_buf') = <<>>
  BY <1>6, EmptySeq
<1>8. Before(input_buf', 0) = <<>> /\ After(input_buf', 0) = <<>>
  BY <1>5, <1>7, AtEnds
<1> QED BY <1>2, <1>5, <1>8 DEF LineOK, BeforeCursor, AfterCursor, Before, After

\* load_history() shows the line of the slot with the cursor behind it.
LEMMA LoadLine ==
    ASSUME LineOK, NEW i, Load(i),
           Drafted[i] \in Seq(Glyphs), Len(Drafted[i]) \in Index
    PROVE  LineOK' /\ BeforeCursor' = Drafted[i] /\ AfterCursor' = <<>>
<1>1. PICK s : s = Drafted[i]
  OBVIOUS
<1>2. PICK new : new = strzcpy(input_buf, s)
  OBVIOUS
<1>3. input_buf' = new /\ input_len' = Len(s) /\ input_pos' = Len(s)
  BY <1>1, <1>2 DEF Load
<1>4. Holds(new, Len(s)) /\ String(new) = s
  BY <1>1, <1>2, CopyHolds DEF LineOK, Holds
<1>5. Before(new, Len(s)) = String(new) /\ After(new, Len(s)) = <<>>
  BY <1>4, AtEnds
<1>6. Len(s) \in 0 .. Len(s)
  BY <1>1, Sizes DEF Index
<1> QED BY <1>1, <1>3, <1>4, <1>5, <1>6 DEF LineOK, BeforeCursor, AfterCursor, Before, After


LEMMA CursorLine ==
    ASSUME LineOK, NEW p \in 0 .. input_len, MoveCursor(p)
    PROVE  /\ LineOK'
           /\ BeforeCursor' = Before(input_buf, p) /\ AfterCursor' = After(input_buf, p)
  BY DEF LineOK, MoveCursor, BeforeCursor, AfterCursor, Before, After

-----------------------------------------------------------------------------
(* The history *)

Lines(h) == DOMAIN h = Slot /\ \A i \in Slot : h[i] \in Seq(Glyphs) /\ Len(h[i]) \in Index

LEMMA SavedLines ==
    ASSUME LineOK, HistoryTypes
    PROVE  /\ Lines(save_history) /\ Lines(Drafted)
           /\ save_history[history_next] = String(input_buf)
           /\ \A i \in Slot : i # history_next => save_history[i] = history[i]
<1>1. String(input_buf) \in Seq(Glyphs) /\ Len(String(input_buf)) = input_len
  BY StringIs DEF LineOK
<1>2. input_len \in Index
  BY DEF LineOK, Holds
<1>3. Lines(history) /\ history_next \in Slot
  BY DEF HistoryTypes, Lines
<1>4. /\ DOMAIN save_history = Slot
      /\ save_history[history_next] = String(input_buf)
      /\ \A i \in Slot : i # history_next => save_history[i] = history[i]
  BY <1>3 DEF save_history, Lines
<1>5. Lines(save_history)
  BY <1>1, <1>2, <1>3, <1>4 DEF Lines
<1> QED BY <1>3, <1>4, <1>5 DEF Drafted

\* The remainder of a number less than twice the divisor.
LEMMA ModOnce ==
    ASSUME NEW n \in Nat \ {0}, NEW x \in 0 .. n + n - 1
    PROVE  x % n = IF x < n THEN x ELSE x - n
  OBVIOUS

\* One slot on and one back, around the ring.
SlotOn(i) == IF i + 1 = CONFIG_CONSOLE_HISTORY THEN 0 ELSE i + 1
SlotBefore(i) == IF i = 0 THEN CONFIG_CONSOLE_HISTORY - 1 ELSE i - 1

LEMMA SlotSteps ==
    ASSUME NEW i \in Slot
    PROVE  /\ SlotOn(i) \in Slot /\ SlotBefore(i) \in Slot
           /\ (i + 1) % CONFIG_CONSOLE_HISTORY = SlotOn(i)
<1>1. SlotOn(i) \in Slot /\ SlotBefore(i) \in Slot
  BY Sizes DEF SlotOn, SlotBefore, Slot
<1>2. i + 1 \in 0 .. CONFIG_CONSOLE_HISTORY + CONFIG_CONSOLE_HISTORY - 1
  BY Sizes DEF Slot
<1>3. CONFIG_CONSOLE_HISTORY \in Nat \ {0}
  BY Sizes
<1>4. (i + 1) % CONFIG_CONSOLE_HISTORY
        = IF i + 1 < CONFIG_CONSOLE_HISTORY THEN i + 1 ELSE (i + 1) - CONFIG_CONSOLE_HISTORY
  <2> DEFINE n == CONFIG_CONSOLE_HISTORY
             x == i + 1
  <2>1. n \in Nat \ {0} /\ x \in 0 .. n + n - 1
    BY <1>2, <1>3
  <2> HIDE DEF n, x
  <2>2. x % n = IF x < n THEN x ELSE x - n
    BY <2>1, ModOnce
  <2> QED BY <2>2 DEF n, x
<1> QED BY <1>1, <1>4, Sizes DEF SlotOn, Slot

-----------------------------------------------------------------------------
(* Type correctness *)

LineStates == TypeOK /\ LineInv

LEMMA LineStatesAre ==
    LineStates <=> /\ LineOK /\ HistoryTypes /\ last_rx_was_cr \in BOOLEAN
                   /\ esc_state \in {"OUTSIDE", "START", "BAD", "BRACKET", "BRACKET_1",
                                     "BRACKET_3", "O"}
  BY LineHeld DEF LineStates, TypeOK, LineOK

LEMMA EscTypes ==
    ASSUME LineStates, NEW cs, Got(cs)
    PROVE  /\ last_rx_was_cr' \in BOOLEAN
           /\ esc_state' \in {"OUTSIDE", "START", "BAD", "BRACKET", "BRACKET_1",
                              "BRACKET_3", "O"}
<1>1. last_rx_was_cr' \in BOOLEAN
  BY DEF Got
<1>2. PICK c : esc_state' = EscAfter(c)
  BY DEF Got
<1>3. EscNext(c) \in {"OUTSIDE", "BAD", "BRACKET", "BRACKET_1", "BRACKET_3", "O"}
  BY DEF EscNext
<1> QED BY <1>1, <1>2, <1>3 DEF EscAfter

\* The characters that change the line and leave the history alone.
Editing ==
    \/ (\E g \in Glyphs : Insert(g)) \/ Backspace \/ Del \/ move_cursor_begin
    \/ move_cursor_left \/ move_cursor_end \/ move_cursor_right \/ Kill

LEMMA EditingLine ==
    ASSUME LineOK, Editing
    PROVE  LineOK'
<1>1. ASSUME NEW g \in Glyphs, Insert(g)
      PROVE  LineOK'
  BY <1>1, InsertLine
<1>2. ASSUME UNCHANGED bufVars
      PROVE  LineOK'
  BY <1>2 DEF bufVars, LineOK
<1>3. CASE Backspace
  <2>1. CASE input_pos = 0
    BY <1>2, <1>3, <2>1 DEF Backspace, handle_backspace
  <2>2. CASE input_pos # 0
    <3>1. input_pos \in 1 .. input_len
      BY <2>2, LineNumbers
    <3> QED BY <1>3, <3>1, BackspaceLine DEF Backspace
  <2> QED BY <2>1, <2>2
<1>4. CASE Del
  <2>1. CASE input_pos = input_len
    BY <1>2, <1>4, <2>1 DEF Del
  <2>2. CASE input_pos # input_len
    <3>1. input_pos + 1 \in 1 .. input_len
      BY <2>2, LineNumbers
    <3>2. handle_backspace(input_pos + 1)
      BY <1>4, <2>2 DEF Del
    <3> QED BY <3>1, <3>2, BackspaceLine
  <2> QED BY <2>1, <2>2
<1>5. CASE Kill
  BY <1>5, KillLine
<1>6. ASSUME NEW p \in 0 .. input_len, MoveCursor(p)
      PROVE  LineOK'
  BY <1>6, CursorLine
<1>7. CASE move_cursor_begin \/ move_cursor_left \/ move_cursor_end \/ move_cursor_right
  <2>1. PICK p \in 0 .. input_len : MoveCursor(p)
    BY <1>7, LineNumbers DEF move_cursor_begin, move_cursor_left, move_cursor_end,
                             move_cursor_right
  <2> QED BY <1>6, <2>1
<1> QED BY <1>1, <1>3, <1>4, <1>5, <1>7 DEF Editing

\* Every step leaves a C string in input_buf and in the slots of the history.
LEMMA LineStep ==
    ASSUME LineStates, [Next]_vars
    PROVE  LineStates'
<1> USE DEF bufVars, historyVars
<1>0. /\ LineOK /\ HistoryTypes /\ last_rx_was_cr \in BOOLEAN
      /\ esc_state \in {"OUTSIDE", "START", "BAD", "BRACKET", "BRACKET_1",
                        "BRACKET_3", "O"}
  BY LineStatesAre
<1>1. ASSUME UNCHANGED <<bufVars, historyVars, esc_state>>, last_rx_was_cr' \in BOOLEAN
      PROVE  LineStates'
  BY <1>1 DEF LineStates, TypeOK, LineTypes, HistoryTypes, LineInv
<1>2. ASSUME NEW cs, Got(cs), LineOK', HistoryTypes'
      PROVE  LineStates'
  <2>1. LineTypes' /\ LineInv'
    BY <1>2 DEF LineOK, Holds, LineTypes, LineInv
  <2> QED BY <1>2, <2>1, EscTypes DEF LineStates, TypeOK
<1>3. CASE UNCHANGED vars
  BY <1>0, <1>1, <1>3 DEF vars
<1>4. ASSUME NEW k \in Keys, Press(k)
      PROVE  LineStates'
  BY <1>0, <1>1, <1>4 DEF Press
<1>5. CASE CrLf
  BY <1>1, <1>5 DEF CrLf
<1>6. CASE Ignored
  <2>1. LineOK' /\ HistoryTypes'
    BY <1>0, <1>6 DEF Ignored, LineOK, HistoryTypes
  <2> QED BY <1>2, <1>6, <2>1 DEF Ignored
<1>7. CASE Editing
  <2>1. LineOK'
    BY <1>0, <1>7, EditingLine
  <2>2. UNCHANGED historyVars
    BY <1>7 DEF Editing, Insert, Backspace, Del, move_cursor_begin, move_cursor_left,
                move_cursor_end, move_cursor_right, Kill, Edits
  <2>3. HistoryTypes'
    BY <1>0, <2>2 DEF HistoryTypes
  <2>4. PICK cs : Got(cs)
    BY <1>7 DEF Editing, Insert, Backspace, Del, move_cursor_begin, move_cursor_left,
                move_cursor_end, move_cursor_right, Kill
  <2> QED BY <1>2, <2>1, <2>3, <2>4
<1>8. CASE NewLine
  <2>1. LineOK'
    BY <1>0, <1>8, NextLine
  <2>2. CASE input_len = 0
    BY <1>0, <1>2, <1>8, <2>1, <2>2 DEF NewLine, HistoryTypes
  <2>3. CASE input_len # 0
    <3>1. /\ history' = save_history
          /\ history_next' = (history_next + 1) % CONFIG_CONSOLE_HISTORY
          /\ history_pos' = history_next'
      BY <1>8, <2>3 DEF NewLine
    <3>2. history_next' \in Slot /\ history_pos' \in Slot
      BY <1>0, <3>1, SlotSteps DEF HistoryTypes
    <3>3. Lines(history')
      BY <1>0, <3>1, SavedLines
    <3>4. HistoryTypes'
      BY <3>2, <3>3 DEF HistoryTypes, Lines
    <3> QED BY <1>2, <1>8, <2>1, <3>4 DEF NewLine
  <2> QED BY <2>2, <2>3
<1>9. ASSUME NEW i \in Slot, Load(i)
      PROVE  LineOK' /\ HistoryTypes'
  <2>1. Lines(Drafted)
    BY <1>0, SavedLines
  <2>2. LineOK'
    BY <1>0, <1>9, <2>1, LoadLine DEF Lines
  <2>3. history' = Drafted /\ history_pos' = i /\ history_next' = history_next
    BY <1>9 DEF Load
  <2>4. HistoryTypes'
    BY <1>0, <2>1, <2>3 DEF HistoryTypes, Lines
  <2> QED BY <2>2, <2>4
<1>10. CASE Up
  <2>1. Load(SlotBefore(history_pos)) /\ SlotBefore(history_pos) \in Slot
    BY <1>0, <1>10, SlotSteps DEF Up, SlotBefore, HistoryTypes
  <2> QED BY <1>2, <1>9, <1>10, <2>1 DEF Up
<1>11. CASE Down
  <2>1. Load(SlotOn(history_pos)) /\ SlotOn(history_pos) \in Slot
    BY <1>0, <1>11, SlotSteps DEF Down, SlotOn, HistoryTypes
  <2> QED BY <1>2, <1>9, <1>11, <2>1 DEF Down
<1> QED
  BY <1>3, <1>4, <1>5, <1>6, <1>7, <1>8, <1>10, <1>11 DEF Next, HandleChar, Editing

LEMMA LineStart ==
    ASSUME Init
    PROVE  LineStates
<1>1. /\ input_buf \in [Index -> Glyphs \cup {NUL}] /\ input_len = 0 /\ input_pos = 0
      /\ input_buf[0] = NUL /\ 0 \in Index
  BY Sizes DEF Init, Index
<1>2. LineTypes /\ LineInv
  BY <1>1 DEF LineTypes, LineInv
<1>3. 0 \in Slot
  BY Sizes DEF Slot
<1>4. <<>> \in Seq(Glyphs) /\ Len(<<>>) \in Index
  BY <1>1
<1>5. HistoryTypes
  BY <1>3, <1>4 DEF Init, HistoryTypes
<1> QED BY <1>2, <1>5 DEF Init, LineStates, TypeOK

\* console_handle_char() never writes outside of input_buf or of the history's
\* slots, and what they hold are printable strings that fit.
THEOREM TypeCorrect == Spec => []TypeOK
<1>1. Init => LineStates
  BY LineStart
<1>2. LineStates /\ [Next]_vars => LineStates'
  BY LineStep
<1>3. LineStates => TypeOK
  BY DEF LineStates
<1> QED BY <1>1, <1>2, <1>3, PTL DEF Spec


-----------------------------------------------------------------------------
(* The characters of a key *)

\* What is left of the keys that send an escape sequence, by the state in which
\* handle_esc() waits for it.
Rest(e, k, s) ==
    \/ /\ e = "START"
       /\ \/ k = "home" /\ s = <<"[", "1", "~">>
          \/ k = "left" /\ s = <<"[", "D">>
          \/ k = "end" /\ s = <<"O", "F">>
          \/ k = "right" /\ s = <<"[", "C">>
          \/ k = "delete" /\ s = <<"[", "3", "~">>
          \/ k = "up" /\ s = <<"[", "A">>
          \/ k = "down" /\ s = <<"[", "B">>
          \/ k = "other" /\ s \in {<<"[", "5", "~">>, <<"[", "H">>, <<"O", "P">>,
                                   <<"[", "1", "semicolon", "C">>}
    \/ /\ e = "BRACKET"
       /\ \/ k = "home" /\ s = <<"1", "~">>
          \/ k = "left" /\ s = <<"D">>
          \/ k = "right" /\ s = <<"C">>
          \/ k = "delete" /\ s = <<"3", "~">>
          \/ k = "up" /\ s = <<"A">>
          \/ k = "down" /\ s = <<"B">>
          \/ k = "other" /\ s \in {<<"5", "~">>, <<"H">>, <<"1", "semicolon", "C">>}
    \/ /\ e = "O"
       /\ \/ k = "end" /\ s = <<"F">>
          \/ k = "other" /\ s = <<"P">>
    \/ /\ e = "BRACKET_1"
       /\ \/ k = "home" /\ s = <<"~">>
          \/ k = "other" /\ s = <<"semicolon", "C">>
    \/ e = "BRACKET_3" /\ k = "delete" /\ s = <<"~">>
    \/ e = "BAD" /\ k = "other" /\ s \in {<<"~">>, <<"C">>}

\* Between two keys, before the first character of one, before the LF of CRLF,
\* or within an escape sequence.
Idle == incoming = <<>> /\ key = "none" /\ esc_state = "OUTSIDE"
Begun ==
    /\ key \in Keys /\ incoming \in Sent(key) /\ esc_state = "OUTSIDE"
    /\ ~(last_rx_was_cr /\ incoming = <<"LF">>)
AfterCr == incoming = <<"LF">> /\ key = "enter" /\ last_rx_was_cr /\ esc_state = "OUTSIDE"
Within == Rest(esc_state, key, incoming) /\ ~last_rx_was_cr

KeyInv == Idle \/ Begun \/ AfterCr \/ Within


\* The codes by which console_handle_char() knows a key.
Meaning(k) ==
    CASE k = "home" -> {"^A", "HOME"}
      [] k = "left" -> {"^B", "LEFT_ARROW"}
      [] k = "end" -> {"^E", "END"}
      [] k = "right" -> {"^F", "RIGHT_ARROW"}
      [] k = "delete" -> {"DEL"}
      [] k = "backspace" -> {"BS"}
      [] k = "kill" -> {"^K"}
      [] k = "enter" -> {"LF"}
      [] k = "up" -> {"^P", "UP_ARROW"}
      [] k = "down" -> {"^N", "DOWN_ARROW"}
      [] k = "other" -> {"^L", "eaten"}
      [] OTHER -> {k}

\* A character's code and the state it leaves handle_esc() in.
Means(c, code, next) == Code(c) = code /\ EscAfter(c) = next

LEMMA Tuples ==
    /\ \A a : Head(<<a>>) = a /\ Tail(<<a>>) = <<>>
    /\ \A a, b : Head(<<a, b>>) = a /\ Tail(<<a, b>>) = <<b>>
    /\ \A a, b, c : Head(<<a, b, c>>) = a /\ Tail(<<a, b, c>>) = <<b, c>>
    /\ \A a, b, c, d : Head(<<a, b, c, d>>) = a /\ Tail(<<a, b, c, d>>) = <<b, c, d>>
    /\ \A a, b, c, d, e : Head(<<a, b, c, d, e>>) = a
                          /\ Tail(<<a, b, c, d, e>>) = <<b, c, d, e>>
  OBVIOUS

LEMMA EscMeans ==
    /\ esc_state = "OUTSIDE" => /\ Means("ESC", "ESC", "START")
                                /\ \A c : c # "ESC" => Means(c, c, "OUTSIDE")
    /\ esc_state = "START" => Means("[", "eaten", "BRACKET") /\ Means("O", "eaten", "O")
    /\ esc_state = "BRACKET" =>
         /\ Means("A", "UP_ARROW", "OUTSIDE") /\ Means("B", "DOWN_ARROW", "OUTSIDE")
         /\ Means("C", "RIGHT_ARROW", "OUTSIDE") /\ Means("D", "LEFT_ARROW", "OUTSIDE")
         /\ Means("1", "eaten", "BRACKET_1") /\ Means("3", "eaten", "BRACKET_3")
         /\ Means("5", "eaten", "BAD") /\ Means("H", "eaten", "OUTSIDE")
    /\ esc_state = "O" => Means("F", "END", "OUTSIDE") /\ Means("P", "eaten", "OUTSIDE")
    /\ esc_state = "BRACKET_1" => Means("~", "HOME", "OUTSIDE") /\ Means("semicolon", "eaten", "BAD")
    /\ esc_state = "BRACKET_3" => Means("~", "DEL", "OUTSIDE")
    /\ esc_state = "BAD" => Means("~", "eaten", "OUTSIDE") /\ Means("C", "eaten", "OUTSIDE")
<1>1. "5" \in Special /\ "semicolon" \in Special /\ "1" \in Special /\ "3" \in Special
      /\ "[" \in Special
  BY DEF Special
<1>2. "5" \notin Glyphs /\ "semicolon" \notin Glyphs /\ "1" \notin Glyphs /\ "3" \notin Glyphs
      /\ "[" \notin Glyphs
  BY <1>1, ConsoleAssumption
<1> USE DEF Means, Code, EscAfter, InEscape, EscKey, EscNext, IsAlpha
<1>3. CASE esc_state = "OUTSIDE"
  BY <1>3
<1>4. CASE esc_state = "START"
  BY <1>2, <1>4
<1>5. CASE esc_state = "BRACKET"
  BY <1>2, <1>5
<1>6. CASE esc_state = "O"
  BY <1>6
<1>7. CASE esc_state = "BRACKET_1" \/ esc_state = "BRACKET_3" \/ esc_state = "BAD"
  BY <1>2, <1>7
<1> QED BY <1>3, <1>4, <1>5, <1>6, <1>7

LEMMA Meanings ==
    /\ Meaning("home") = {"^A", "HOME"} /\ Meaning("left") = {"^B", "LEFT_ARROW"}
    /\ Meaning("end") = {"^E", "END"} /\ Meaning("right") = {"^F", "RIGHT_ARROW"}
    /\ Meaning("delete") = {"DEL"} /\ Meaning("backspace") = {"BS"}
    /\ Meaning("kill") = {"^K"} /\ Meaning("enter") = {"LF"}
    /\ Meaning("up") = {"^P", "UP_ARROW"} /\ Meaning("down") = {"^N", "DOWN_ARROW"}
    /\ Meaning("other") = {"^L", "eaten"}
    /\ \A g \in Glyphs : Meaning(g) = {g}
<1>1. \A g \in Glyphs : g \notin NamedKeys
  BY ConsoleAssumption
<1> QED BY <1>1 DEF Meaning, NamedKeys


\* The character c completes the key, or is one of an escape sequence that goes on.
Completes(c) ==
    /\ Code(c) \in Meaning(key) /\ EscAfter(c) = "OUTSIDE"
    /\ Tail(incoming) = <<>> \/ (key = "enter" /\ incoming = <<"CR", "LF">>)
    /\ Head(incoming) = "CR" => key = "enter"
Continues(c) ==
    /\ Code(c) \in {"ESC", "eaten"} /\ Head(incoming) # "CR"
    /\ Rest(EscAfter(c), key, Tail(incoming))

Decoded == LET c == Translated(Head(incoming)) IN Completes(c) \/ Continues(c)

\* With the last character of a key its code is known,
LEMMA LastOfKey ==
    ASSUME NEW c, c # "CR", incoming = <<c>>, NEW code, Means(c, code, "OUTSIDE"),
           code \in Meaning(key)
    PROVE  Decoded
  BY Tuples DEF Decoded, Completes, Translated, Means

\* with the others handle_esc() knows what to wait for.
LEMMA NotLastOfKey ==
    ASSUME NEW c, c # "CR", Head(incoming) = c, NEW e, NEW code \in {"ESC", "eaten"},
           Means(c, code, e), Rest(e, key, Tail(incoming))
    PROVE  Decoded
  BY DEF Decoded, Continues, Translated, Means

LEMMA Rests ==
    /\ Rest("BRACKET_1", "home", <<"~">>) /\ Rest("BRACKET_1", "other", <<"semicolon", "C">>)
    /\ Rest("BRACKET_3", "delete", <<"~">>) /\ Rest("BAD", "other", <<"~">>)
    /\ Rest("O", "end", <<"F">>) /\ Rest("O", "other", <<"P">>)
    /\ Rest("BRACKET", "home", <<"1", "~">>) /\ Rest("BRACKET", "left", <<"D">>)
    /\ Rest("BRACKET", "right", <<"C">>) /\ Rest("BRACKET", "delete", <<"3", "~">>)
    /\ Rest("BRACKET", "up", <<"A">>) /\ Rest("BRACKET", "down", <<"B">>)
    /\ Rest("BRACKET", "other", <<"5", "~">>) /\ Rest("BRACKET", "other", <<"H">>)
    /\ Rest("BRACKET", "other", <<"1", "semicolon", "C">>)
  BY DEF Rest

LEMMA WithinDecoded ==
    ASSUME Within
    PROVE  incoming # <<>> /\ Head(incoming) # "LF" /\ Decoded
<1>1. CASE esc_state = "O"
  <2>1. CASE key = "end" /\ incoming = <<"F">>
    BY <1>1, <2>1, EscMeans, Meanings, Tuples, LastOfKey
  <2>2. CASE key = "other" /\ incoming = <<"P">>
    BY <1>1, <2>2, EscMeans, Meanings, Tuples, LastOfKey
  <2> QED BY <1>1, <2>1, <2>2 DEF Within, Rest
<1>2. CASE esc_state = "BRACKET_1"
  <2>1. CASE key = "home" /\ incoming = <<"~">>
    BY <1>2, <2>1, EscMeans, Meanings, Tuples, LastOfKey
  <2>2. CASE key = "other" /\ incoming = <<"semicolon", "C">>
    <3>1. Head(incoming) = "semicolon" /\ Rest("BAD", key, Tail(incoming))
      BY <2>2, Tuples DEF Rest
    <3> QED BY <1>2, <2>2, <3>1, EscMeans, NotLastOfKey
  <2> QED BY <1>2, <2>1, <2>2 DEF Within, Rest
<1>3. CASE esc_state = "BRACKET_3"
  <2>1. key = "delete" /\ incoming = <<"~">>
    BY <1>3 DEF Within, Rest
  <2> QED BY <1>3, <2>1, EscMeans, Meanings, Tuples, LastOfKey
<1>4. CASE esc_state = "BAD"
  <2>1. key = "other" /\ (incoming = <<"~">> \/ incoming = <<"C">>)
    BY <1>4 DEF Within, Rest
  <2> QED BY <1>4, <2>1, EscMeans, Meanings, Tuples, LastOfKey
<1>5. CASE esc_state = "BRACKET"
  <2>1. CASE \/ key = "left" /\ incoming = <<"D">>
             \/ key = "right" /\ incoming = <<"C">>
    BY <1>5, <2>1, EscMeans, Meanings, Tuples, LastOfKey
  <2>2. CASE \/ key = "up" /\ incoming = <<"A">>
             \/ key = "down" /\ incoming = <<"B">>
             \/ key = "other" /\ incoming = <<"H">>
    BY <1>5, <2>2, EscMeans, Meanings, Tuples, LastOfKey
  <2>3. ASSUME NEW c \in {"1", "3", "5"}, NEW t, t # <<>>, NEW e, Means(c, "eaten", e),
               Head(incoming) = c, Tail(incoming) = t, incoming # <<>>, Rest(e, key, t)
        PROVE  incoming # <<>> /\ Head(incoming) # "LF" /\ Decoded
    BY <2>3, NotLastOfKey
  <2>4. CASE key = "home" /\ incoming = <<"1", "~">>
    BY <1>5, <2>3, <2>4, EscMeans, Rests, Tuples
  <2>5. CASE key = "other" /\ incoming = <<"1", "semicolon", "C">>
    <3>1. Head(incoming) = "1" /\ Tail(incoming) = <<"semicolon", "C">> /\ incoming # <<>>
      BY <2>5, Tuples
    <3> QED BY <1>5, <2>3, <2>5, <3>1, EscMeans, Rests
  <2>6. CASE key = "delete" /\ incoming = <<"3", "~">>
    BY <1>5, <2>3, <2>6, EscMeans, Rests, Tuples
  <2>7. CASE key = "other" /\ incoming = <<"5", "~">>
    BY <1>5, <2>3, <2>7, EscMeans, Rests, Tuples
  <2> QED BY <1>5, <2>1, <2>2, <2>4, <2>5, <2>6, <2>7 DEF Within, Rest
<1>6. CASE esc_state = "START"
  <2>1. CASE Head(incoming) = "O" /\ incoming # <<>> /\ Rest("O", key, Tail(incoming))
    BY <1>6, <2>1, EscMeans, NotLastOfKey
  <2>2. CASE Head(incoming) = "[" /\ incoming # <<>> /\ Rest("BRACKET", key, Tail(incoming))
    BY <1>6, <2>2, EscMeans, NotLastOfKey
  <2>3. CASE key = "end" /\ incoming = <<"O", "F">>
    BY <2>1, <2>3, Rests, Tuples
  <2>4. CASE key = "other" /\ incoming = <<"O", "P">>
    BY <2>1, <2>4, Rests, Tuples
  <2>5. ASSUME NEW x, incoming = <<"[", x>>, Rest("BRACKET", key, <<x>>)
        PROVE  incoming # <<>> /\ Head(incoming) # "LF" /\ Decoded
    BY <2>2, <2>5, Tuples
  <2>6. CASE key = "home" /\ incoming = <<"[", "1", "~">>
    <3>1. Head(incoming) = "[" /\ Tail(incoming) = <<"1", "~">> /\ incoming # <<>>
      BY <2>6, Tuples
    <3> QED BY <2>2, <2>6, <3>1, Rests
  <2>7. CASE key = "delete" /\ incoming = <<"[", "3", "~">>
    <3>1. Head(incoming) = "[" /\ Tail(incoming) = <<"3", "~">> /\ incoming # <<>>
      BY <2>7, Tuples
    <3> QED BY <2>2, <2>7, <3>1, Rests
  <2>8. CASE key = "other" /\ incoming = <<"[", "5", "~">>
    <3>1. Head(incoming) = "[" /\ Tail(incoming) = <<"5", "~">> /\ incoming # <<>>
      BY <2>8, Tuples
    <3> QED BY <2>2, <2>8, <3>1, Rests
  <2>9. CASE key = "other" /\ incoming = <<"[", "1", "semicolon", "C">>
    <3>1. Head(incoming) = "[" /\ Tail(incoming) = <<"1", "semicolon", "C">> /\ incoming # <<>>
      BY <2>9, Tuples
    <3> QED BY <2>2, <2>9, <3>1, Rests
  <2>10. CASE \/ key = "left" /\ incoming = <<"[", "D">>
              \/ key = "right" /\ incoming = <<"[", "C">>
              \/ key = "up" /\ incoming = <<"[", "A">>
              \/ key = "down" /\ incoming = <<"[", "B">>
              \/ key = "other" /\ incoming = <<"[", "H">>
    BY <2>5, <2>10, Rests
  <2> QED BY <1>6, <2>3, <2>4, <2>6, <2>7, <2>8, <2>9, <2>10 DEF Within, Rest
<1> QED BY <1>1, <1>2, <1>3, <1>4, <1>5, <1>6 DEF Within, Rest


LEMMA Openings ==
    /\ Rest("START", "home", <<"[", "1", "~">>) /\ Rest("START", "left", <<"[", "D">>)
    /\ Rest("START", "end", <<"O", "F">>) /\ Rest("START", "right", <<"[", "C">>)
    /\ Rest("START", "delete", <<"[", "3", "~">>) /\ Rest("START", "up", <<"[", "A">>)
    /\ Rest("START", "down", <<"[", "B">>) /\ Rest("START", "other", <<"[", "5", "~">>)
    /\ Rest("START", "other", <<"[", "H">>) /\ Rest("START", "other", <<"O", "P">>)
    /\ Rest("START", "other", <<"[", "1", "semicolon", "C">>)
  BY DEF Rest

LEMMA BegunDecoded ==
    ASSUME Begun
    PROVE  incoming # <<>> /\ Decoded /\ (Head(incoming) = "LF" => key = "enter")
<1> DEFINE Goal == incoming # <<>> /\ Decoded /\ (Head(incoming) = "LF" => key = "enter")
<1>1. esc_state = "OUTSIDE"
  BY DEF Begun
<1>2. ASSUME NEW c, c # "CR", c # "ESC", c # "LF", incoming = <<c>>, c \in Meaning(key)
      PROVE  Goal
  <2>1. Means(c, c, "OUTSIDE")
    BY <1>1, <1>2, EscMeans
  <2> QED BY <1>2, <2>1, LastOfKey, Tuples
<1>3. ASSUME NEW t, Head(incoming) = "ESC", Tail(incoming) = t, incoming # <<>>,
             Rest("START", key, t)
      PROVE  Goal
  BY <1>1, <1>3, EscMeans, NotLastOfKey
<1>4. ASSUME NEW a, NEW b, incoming = <<"ESC", a, b>>, Rest("START", key, <<a, b>>)
      PROVE  Goal
  BY <1>3, <1>4, Tuples
<1>5. ASSUME NEW a, NEW b, NEW c, incoming = <<"ESC", a, b, c>>,
             Rest("START", key, <<a, b, c>>)
      PROVE  Goal
  BY <1>3, <1>5, Tuples
<1>6. ASSUME NEW a, NEW b, NEW c, NEW d, incoming = <<"ESC", a, b, c, d>>,
             Rest("START", key, <<a, b, c, d>>)
      PROVE  Goal
  BY <1>3, <1>6, Tuples
<1> SUFFICES Goal
  OBVIOUS
<1> HIDE DEF Goal
<1>7. CASE key = "home"
  <2>1. incoming = <<"^A">> \/ incoming = <<"ESC", "[", "1", "~">>
    BY <1>7 DEF Begun, Sent
  <2> QED BY <1>2, <1>5, <1>7, <2>1, Meanings, Openings
<1>8. CASE key = "left"
  <2>1. incoming = <<"^B">> \/ incoming = <<"ESC", "[", "D">>
    BY <1>8 DEF Begun, Sent
  <2> QED BY <1>2, <1>4, <1>8, <2>1, Meanings, Openings
<1>9. CASE key = "end"
  <2>1. incoming = <<"^E">> \/ incoming = <<"ESC", "O", "F">>
    BY <1>9 DEF Begun, Sent
  <2> QED BY <1>2, <1>4, <1>9, <2>1, Meanings, Openings
<1>10. CASE key = "right"
  <2>1. incoming = <<"^F">> \/ incoming = <<"ESC", "[", "C">>
    BY <1>10 DEF Begun, Sent
  <2> QED BY <1>2, <1>4, <1>10, <2>1, Meanings, Openings
<1>11. CASE key = "delete"
  <2>1. incoming = <<"ESC", "[", "3", "~">>
    BY <1>11 DEF Begun, Sent
  <2> QED BY <1>5, <1>11, <2>1, Openings
<1>12. CASE key = "backspace"
  <2>1. incoming = <<"BS">>
    BY <1>12 DEF Begun, Sent
  <2> QED BY <1>2, <1>12, <2>1, Meanings
<1>13. CASE key = "kill"
  <2>1. incoming = <<"^K">>
    BY <1>13 DEF Begun, Sent
  <2> QED BY <1>2, <1>13, <2>1, Meanings
<1>14. CASE key = "up"
  <2>1. incoming = <<"^P">> \/ incoming = <<"ESC", "[", "A">>
    BY <1>14 DEF Begun, Sent
  <2> QED BY <1>2, <1>4, <1>14, <2>1, Meanings, Openings
<1>15. CASE key = "down"
  <2>1. incoming = <<"^N">> \/ incoming = <<"ESC", "[", "B">>
    BY <1>15 DEF Begun, Sent
  <2> QED BY <1>2, <1>4, <1>15, <2>1, Meanings, Openings
<1>16. CASE key = "other"
  <2>1. \/ incoming = <<"^L">> \/ incoming = <<"ESC", "[", "5", "~">>
        \/ incoming = <<"ESC", "[", "H">> \/ incoming = <<"ESC", "O", "P">>
        \/ incoming = <<"ESC", "[", "1", "semicolon", "C">>
    BY <1>16 DEF Begun, Sent
  <2>2. CASE incoming = <<"^L">>
    BY <1>2, <1>16, <2>2, Meanings
  <2>3. CASE incoming = <<"ESC", "[", "H">> \/ incoming = <<"ESC", "O", "P">>
    BY <1>4, <1>16, <2>3, Openings
  <2>4. CASE incoming = <<"ESC", "[", "5", "~">>
    BY <1>5, <1>16, <2>4, Openings
  <2>5. CASE incoming = <<"ESC", "[", "1", "semicolon", "C">>
    BY <1>6, <1>16, <2>5, Openings
  <2> QED BY <2>1, <2>2, <2>3, <2>4, <2>5
<1>17. CASE key \in Glyphs
  <2>1. key \notin NamedKeys /\ key \notin Special
    BY <1>17, ConsoleAssumption
  <2>2. key # "CR" /\ key # "ESC" /\ key # "LF"
    BY <2>1 DEF Special
  <2>3. incoming = <<key>>
    BY <2>1 DEF Begun, Sent, NamedKeys
  <2> QED BY <1>2, <1>17, <2>2, <2>3, Meanings
<1>18. CASE key = "enter"
  <2>1. incoming \in {<<"CR">>, <<"LF">>, <<"CR", "LF">>}
    BY <1>18 DEF Begun, Sent
  <2>2. incoming # <<>> /\ Head(incoming) \in {"CR", "LF"}
    BY <2>1, Tuples
  <2>4. Tail(incoming) = <<>> \/ incoming = <<"CR", "LF">>
    BY <2>1, Tuples
  <2>5. Translated(Head(incoming)) = "LF"
    BY <2>2 DEF Translated
  <2>3. Means("LF", "LF", "OUTSIDE") /\ "LF" \in Meaning(key)
    BY <1>1, <1>18, EscMeans, Meanings
  <2> QED BY <1>18, <2>2, <2>3, <2>4, <2>5 DEF Goal, Decoded, Completes, Means
<1> QED
  BY <1>7, <1>8, <1>9, <1>10, <1>11, <1>12, <1>13, <1>14, <1>15, <1>16, <1>17, <1>18
  DEF Begun, Keys, NamedKeys, Goal


\* Within a key there is a character to handle, and it is not a LF to be ignored.
LEMMA GotDecoded ==
    ASSUME KeyInv, NEW cs, Got(cs)
    PROVE  /\ Begun \/ Within
           /\ LET c == Translated(Head(incoming)) IN
              (Completes(c) \/ Continues(c)) /\ Code(c) \in cs /\ esc_state' = EscAfter(c)
<1>1. ~Idle
  BY DEF Got, Idle
<1>2. ~AfterCr
  BY Tuples DEF Got, AfterCr, IsSecondOfCrLf
<1>3. Begun \/ Within
  BY <1>1, <1>2 DEF KeyInv
<1>4. Decoded
  BY <1>3, BegunDecoded, WithinDecoded
<1> QED BY <1>3, <1>4 DEF Got, Decoded

LEMMA RestIsMore ==
    ASSUME NEW e, NEW k, NEW s, Rest(e, k, s)
    PROVE  s # <<>> /\ k \in Keys /\ k # "none" /\ k # "enter"
  BY DEF Rest, Keys, NamedKeys

\* A character either makes the key known, or leaves it to the next ones.
Finished(cs) ==
    /\ key \in Keys /\ Unhandled = key /\ Unhandled' = "none"
    /\ incoming' = <<>> \/ key = "enter"
    /\ \E code \in cs : code \in Meaning(key)
Unfinished(cs) ==
    /\ Unhandled' = Unhandled /\ incoming' # <<>> /\ cs \cap {"ESC", "eaten"} # {}

LEMMA Understood ==
    ASSUME KeyInv, NEW cs, Got(cs)
    PROVE  KeyInv' /\ (Finished(cs) \/ Unfinished(cs))
<1> DEFINE c == Translated(Head(incoming))
<1>1. /\ Begun \/ Within
      /\ Completes(c) \/ Continues(c)
      /\ Code(c) \in cs /\ esc_state' = EscAfter(c)
  BY GotDecoded
<1>2. /\ incoming' = Tail(incoming)
      /\ key' = IF Tail(incoming) = <<>> THEN "none" ELSE key
      /\ last_rx_was_cr' = (Head(incoming) = "CR")
  BY DEF Got, Received
<1>3. Unhandled = key /\ key \in Keys
  BY <1>1, RestIsMore DEF Begun, Within, Unhandled
<1>4. CASE Continues(c)
  <2>1. /\ Rest(esc_state', key, Tail(incoming)) /\ Head(incoming) # "CR"
        /\ Code(c) \in {"ESC", "eaten"}
    BY <1>1, <1>4 DEF Continues
  <2>2. Tail(incoming) # <<>>
    BY <2>1, RestIsMore
  <2>3. ~last_rx_was_cr' /\ key' = key
    BY <1>2, <2>1, <2>2
  <2>4. Within'
    BY <1>2, <2>1, <2>3 DEF Within
  <2>5. Unhandled' = key
    BY <2>3 DEF Unhandled
  <2> QED BY <1>1, <1>2, <1>3, <2>1, <2>2, <2>4, <2>5 DEF KeyInv, Unfinished
<1>5. CASE Completes(c)
  <2>1. /\ Code(c) \in Meaning(key) /\ esc_state' = "OUTSIDE"
        /\ Tail(incoming) = <<>> \/ (key = "enter" /\ incoming = <<"CR", "LF">>)
    BY <1>1, <1>5 DEF Completes
  <2>2. CASE Tail(incoming) = <<>>
    <3>1. Idle' /\ Unhandled' = "none"
      BY <1>2, <2>1, <2>2 DEF Idle, Unhandled
    <3> QED BY <1>1, <1>2, <1>3, <2>1, <2>2, <3>1 DEF KeyInv, Finished
  <2>3. CASE key = "enter" /\ incoming = <<"CR", "LF">>
    <3>1. Head(incoming) = "CR" /\ Tail(incoming) = <<"LF">>
      BY <2>3, Tuples
    <3>2. <<"LF">> # <<>>
      OBVIOUS
    <3>3. AfterCr' /\ Unhandled' = "none"
      BY <1>2, <2>1, <2>3, <3>1, <3>2 DEF AfterCr, Unhandled
    <3> QED BY <1>1, <1>3, <2>1, <2>3, <3>3 DEF KeyInv, Finished
  <2> QED BY <2>1, <2>2, <2>3
<1> QED BY <1>1, <1>4, <1>5

\* Only the LF of CRLF is dropped.
LEMMA CrLfStep ==
    ASSUME KeyInv, CrLf
    PROVE  KeyInv' /\ Unhandled' = Unhandled
<1>1. incoming # <<>> /\ Head(incoming) = "LF" /\ last_rx_was_cr
  BY DEF CrLf, IsSecondOfCrLf
<1>2. ~Within
  BY <1>1, WithinDecoded
<1>3. ~Begun
  <2>1. SUFFICES ASSUME Begun PROVE FALSE
    OBVIOUS
  <2>2. key = "enter"
    BY <1>1, <2>1, BegunDecoded
  <2>3. incoming \in {<<"CR">>, <<"LF">>, <<"CR", "LF">>}
    BY <2>1, <2>2 DEF Begun, Sent
  <2>4. incoming = <<"LF">>
    BY <1>1, <2>3, Tuples
  <2> QED BY <1>1, <2>1, <2>4 DEF Begun
<1>4. AfterCr
  BY <1>1, <1>2, <1>3 DEF KeyInv, Idle
<1>5. Tail(incoming) = <<>>
  BY <1>4, Tuples DEF AfterCr
<1>6. Idle'
  BY <1>4, <1>5 DEF CrLf, Received, Idle, AfterCr
<1>7. Unhandled = "none" /\ Unhandled' = "none"
  BY <1>4, <1>6 DEF Unhandled, AfterCr, Idle
<1> QED BY <1>6, <1>7 DEF KeyInv

LEMMA PressStep ==
    ASSUME KeyInv, NEW k \in Keys, Press(k)
    PROVE  KeyInv' /\ Unhandled = "none" /\ Unhandled' = k
<1>1. incoming = <<>>
  BY DEF Press
<1>2. Idle
  <2>1. ~AfterCr
    BY <1>1 DEF AfterCr
  <2> QED BY <1>1, <2>1, BegunDecoded, WithinDecoded DEF KeyInv
<1>3. Begun'
  BY <1>2 DEF Press, Begun, Idle
<1>4. Unhandled' = k
  BY <1>3 DEF Unhandled, Begun, Press
<1> QED BY <1>2, <1>3, <1>4 DEF KeyInv, Idle, Unhandled

\* No two keys have a code in common.
LEMMA MeaningsDiffer ==
    ASSUME NEW k \in Keys, NEW x, x \in Meaning(k)
    PROVE  /\ x \in {"^A", "HOME"} => k = "home"
           /\ x \in {"^B", "LEFT_ARROW"} => k = "left"
           /\ x \in {"^E", "END"} => k = "end"
           /\ x \in {"^F", "RIGHT_ARROW"} => k = "right"
           /\ x = "DEL" => k = "delete"
           /\ x = "BS" => k = "backspace"
           /\ x = "^K" => k = "kill"
           /\ x = "LF" => k = "enter"
           /\ x \in {"^P", "UP_ARROW"} => k = "up"
           /\ x \in {"^N", "DOWN_ARROW"} => k = "down"
           /\ x \in {"ESC", "eaten", "^L"} => k = "other"
           /\ x \in Glyphs => k = x
<1>1. CASE k \in Glyphs
  <2>1. x = k /\ x \notin Special
    BY <1>1, Meanings, ConsoleAssumption
  <2> QED BY <2>1 DEF Special
<1>2. CASE k \in NamedKeys
  <2>1. x \in Special
    BY <1>2, Meanings DEF NamedKeys, Special
  <2>2. x \notin Glyphs
    BY <2>1, ConsoleAssumption
  <2> QED BY <1>2, <2>2, Meanings DEF NamedKeys
<1> QED BY <1>1, <1>2 DEF Keys


-----------------------------------------------------------------------------
(* The history, seen from the latest command *)

Back(n, i) == (n + (CONFIG_CONSOLE_HISTORY - i)) % CONFIG_CONSOLE_HISTORY

LEMMA BackIs ==
    ASSUME NEW n \in Slot, NEW i \in Slot
    PROVE  Back(n, i) = IF i <= n THEN n - i ELSE n + (CONFIG_CONSOLE_HISTORY - i)
<1> DEFINE h == CONFIG_CONSOLE_HISTORY
           x == n + (h - i)
<1>1. h \in Nat \ {0} /\ x \in 0 .. h + h - 1 /\ n \in Nat /\ i \in Nat /\ i < h /\ n < h
  BY Sizes DEF Slot
<1>2. x % h = IF x < h THEN x ELSE x - h
  <2> HIDE DEF h, x
  <2> QED BY <1>1, ModOnce
<1>3. Back(n, i) = IF x < h THEN x ELSE x - h
  BY <1>2 DEF Back
<1> QED BY <1>1, <1>3

LEMMA Backs ==
    ASSUME NEW n \in Slot, NEW p \in Slot
    PROVE  /\ Back(n, p) \in Slot /\ (Back(n, p) = 0 <=> p = n)
           /\ Back(n, Back(n, p)) = p
           /\ p # 0 => Back(n, p) # n
<1>1. CONFIG_CONSOLE_HISTORY \in Nat /\ n \in Nat /\ p \in Nat
      /\ p < CONFIG_CONSOLE_HISTORY /\ n < CONFIG_CONSOLE_HISTORY
  BY Sizes DEF Slot
<1>2. /\ Back(n, p) = IF p <= n THEN n - p ELSE n + (CONFIG_CONSOLE_HISTORY - p)
  BY BackIs
<1>3. Back(n, p) \in Slot
  BY <1>1, <1>2 DEF Slot
<1>4. PICK q \in Slot : q = Back(n, p)
  BY <1>3
<1>5. Back(n, q) = IF q <= n THEN n - q ELSE n + (CONFIG_CONSOLE_HISTORY - q)
  BY BackIs
<1>6. Back(n, q) = p
  BY <1>1, <1>2, <1>4, <1>5
<1> QED BY <1>1, <1>2, <1>3, <1>4, <1>6

\* A command further back, or nearer.
LEMMA BackSteps ==
    ASSUME NEW n \in Slot, NEW p \in Slot
    PROVE  /\ Back(n, SlotBefore(p)) = (Back(n, p) + 1) % CONFIG_CONSOLE_HISTORY
           /\ Back(n, SlotOn(p)) = (Back(n, p) + CONFIG_CONSOLE_HISTORY - 1)
                                     % CONFIG_CONSOLE_HISTORY
<1> DEFINE h == CONFIG_CONSOLE_HISTORY
<1>1. h \in Nat \ {0} /\ h > 1 /\ n \in Nat /\ p \in Nat /\ p < h /\ n < h
  BY Sizes DEF Slot
<1>2. Back(n, p) = IF p <= n THEN n - p ELSE n + (h - p)
  BY BackIs
<1>3. PICK q \in Slot : q = Back(n, p)
  BY Backs
<1>4. q \in Nat /\ q < h
  BY <1>1 DEF Slot
<1>5. (q + 1) % h = IF q + 1 = h THEN 0 ELSE q + 1
  BY SlotSteps DEF SlotOn
<1>6. (q + (h - 1)) % h = IF q = 0 THEN h - 1 ELSE q - 1
  <2> DEFINE x == q + (h - 1)
  <2>1. x \in 0 .. h + h - 1
    BY <1>1, <1>4
  <2>2. x % h = IF x < h THEN x ELSE x - h
    <3> HIDE DEF x, h
    <3> QED BY <1>1, <2>1, ModOnce
  <2> QED BY <1>1, <1>4, <2>2
<1>7. Back(n, SlotBefore(p)) = (q + 1) % h
  <2>1. PICK b \in Slot : b = SlotBefore(p)
    BY SlotSteps
  <2>2. Back(n, b) = IF b <= n THEN n - b ELSE n + (h - b)
    BY BackIs
  <2>3. b = IF p = 0 THEN h - 1 ELSE p - 1
    BY <2>1 DEF SlotBefore
  <2>4. Back(n, b) = IF q + 1 = h THEN 0 ELSE q + 1
    BY <1>1, <1>2, <1>3, <2>2, <2>3
  <2> QED BY <1>5, <2>1, <2>4
<1>8. Back(n, SlotOn(p)) = (q + (h - 1)) % h
  <2>1. PICK b \in Slot : b = SlotOn(p)
    BY SlotSteps
  <2>2. Back(n, b) = IF b <= n THEN n - b ELSE n + (h - b)
    BY BackIs
  <2>3. b = IF p + 1 = h THEN 0 ELSE p + 1
    BY <2>1 DEF SlotOn
  <2>4. Back(n, b) = IF q = 0 THEN h - 1 ELSE q - 1
    BY <1>1, <1>2, <1>3, <2>2, <2>3
  <2> QED BY <1>6, <2>1, <2>4
<1> QED BY <1>3, <1>7, <1>8

\* After a new line every command is one further back.
LEMMA BackAfterLine ==
    ASSUME NEW n \in Slot
    PROVE  /\ Back(SlotOn(n), 1) = n
           /\ \A i \in 2 .. CONFIG_CONSOLE_HISTORY - 1 : Back(SlotOn(n), i) = Back(n, i - 1)
<1> DEFINE h == CONFIG_CONSOLE_HISTORY
<1>1. h \in Nat /\ h > 1 /\ n \in Nat /\ n < h
  BY Sizes DEF Slot
<1>2. PICK m \in Slot : m = SlotOn(n)
  BY SlotSteps
<1>3. m = IF n + 1 = h THEN 0 ELSE n + 1
  BY <1>2 DEF SlotOn
<1>4. Back(m, 1) = n
  <2>1. 1 \in Slot
    BY <1>1 DEF Slot
  <2>2. Back(m, 1) = IF 1 <= m THEN m - 1 ELSE m + (h - 1)
    BY <2>1, BackIs
  <2> QED BY <1>1, <1>3, <2>2
<1>5. ASSUME NEW i \in 2 .. h - 1
      PROVE  Back(m, i) = Back(n, i - 1)
  <2>1. PICK j \in Slot : j = i - 1
    BY <1>1 DEF Slot
  <2>2. i \in Slot
    BY <1>1 DEF Slot
  <2>3. Back(m, i) = IF i <= m THEN m - i ELSE m + (h - i)
    BY <2>2, BackIs
  <2>4. Back(n, j) = IF j <= n THEN n - j ELSE n + (h - j)
    BY BackIs
  <2>5. Back(m, i) = Back(n, j)
    BY <1>1, <1>3, <2>1, <2>3, <2>4
  <2> QED BY <2>1, <2>5
<1> QED BY <1>2, <1>4, <1>5


\* The line being typed.
Newest == IF Depth = 0 THEN String(input_buf) ELSE Draft

LEMMA BackSlots ==
    ASSUME NEW n \in Slot, NEW i \in 1 .. CONFIG_CONSOLE_HISTORY - 1
    PROVE  Back(n, i) \in Slot /\ Back(n, i) # n
<1>1. i \in Slot /\ i # 0
  BY Sizes DEF Slot
<1> QED BY <1>1, Backs

\* load_history() of the slot p: to the command that is as far back as p, and to
\* the new line if it is not one.
LEMMA Recalled ==
    ASSUME LineOK, HistoryTypes, NEW p \in Slot, Load(p)
    PROVE  LET d == Back(history_next, p) IN
           /\ Depth' = d /\ Draft' = IF d = 0 THEN <<>> ELSE Newest
           /\ BeforeCursor' = IF d = 0 THEN Newest ELSE Past[d]
           /\ AfterCursor' = <<>> /\ Past' = Past
<1> DEFINE n == history_next
           d == Back(n, p)
<1>1. n \in Slot /\ history_pos \in Slot
  BY DEF HistoryTypes
<1>2. history' = Drafted /\ history_pos' = p /\ history_next' = n
  BY DEF Load
<1>3. Depth = Back(n, history_pos) /\ Depth' = d
  BY <1>2 DEF Depth, Back
<1>4. Depth = 0 <=> history_pos = n
  BY <1>1, <1>3, Backs
<1>5. /\ Lines(Drafted) /\ save_history[n] = String(input_buf)
      /\ \A i \in Slot : i # n => save_history[i] = history[i]
  BY SavedLines
<1>6. Drafted[n] = Newest
  BY <1>4, <1>5 DEF Drafted, Newest, Draft
<1>7. \A i \in Slot : i # n => Drafted[i] = history[i]
  BY <1>5 DEF Drafted
<1>8. BeforeCursor' = Drafted[p] /\ AfterCursor' = <<>>
  BY <1>5, LoadLine DEF Lines
<1>9. Draft' = IF d = 0 THEN <<>> ELSE Newest
  BY <1>2, <1>3, <1>6 DEF Draft
<1>10. ASSUME NEW i \in 1 .. CONFIG_CONSOLE_HISTORY - 1
       PROVE  Drafted[Back(n, i)] = history[Back(n, i)]
  BY <1>1, <1>7, BackSlots
<1>11. Past' = [i \in 1 .. CONFIG_CONSOLE_HISTORY - 1 |-> Drafted[Back(n, i)]]
  BY <1>2 DEF Past, SlotBack, Back
<1>12. Past = [i \in 1 .. CONFIG_CONSOLE_HISTORY - 1 |-> history[Back(n, i)]]
  BY DEF Past, SlotBack, Back
<1>13. Past' = Past
  BY <1>10, <1>11, <1>12
<1>14. BeforeCursor' = IF d = 0 THEN Newest ELSE Past[d]
  <2>1. d \in Slot /\ (d = 0 <=> p = n) /\ Back(n, d) = p
    BY <1>1, Backs
  <2>2. CASE d = 0
    BY <1>6, <1>8, <2>1, <2>2
  <2>3. CASE d # 0
    <3>1. d \in 1 .. CONFIG_CONSOLE_HISTORY - 1
      BY <2>1, <2>3, Sizes DEF Slot
    <3>2. Past[d] = history[Back(n, d)]
      BY <1>12, <3>1
    <3> QED BY <1>7, <1>8, <2>1, <2>3, <3>2
  <2> QED BY <2>2, <2>3
<1> QED BY <1>3, <1>8, <1>9, <1>13, <1>14

\* A line that is not empty becomes the latest command.
LEMMA Remembered ==
    ASSUME LineOK, HistoryTypes, NewLine, input_len # 0
    PROVE  /\ Past' = [i \in 1 .. CONFIG_CONSOLE_HISTORY - 1 |->
                         IF i = 1 THEN String(input_buf) ELSE Past[i - 1]]
           /\ Depth' = 0 /\ Draft' = <<>>
<1> DEFINE n == history_next
           h == CONFIG_CONSOLE_HISTORY
<1>1. n \in Slot /\ h \in Nat
  BY Sizes DEF HistoryTypes
<1>2. /\ history' = save_history /\ history_next' = SlotOn(n)
      /\ history_pos' = SlotOn(n)
  BY <1>1, SlotSteps DEF NewLine
<1>3. /\ save_history[n] = String(input_buf)
      /\ \A i \in Slot : i # n => save_history[i] = history[i]
  BY SavedLines
<1>4. Depth' = 0 /\ Draft' = <<>>
  <2>1. Depth' = Back(SlotOn(n), SlotOn(n))
    BY <1>2 DEF Depth, Back
  <2>2. Back(SlotOn(n), SlotOn(n)) = 0
    BY <1>1, SlotSteps, Backs
  <2> QED BY <2>1, <2>2 DEF Draft
<1>5. Past' = [i \in 1 .. h - 1 |-> save_history[Back(SlotOn(n), i)]]
  BY <1>2 DEF Past, SlotBack, Back
<1>6. Past = [i \in 1 .. h - 1 |-> history[Back(n, i)]]
  BY DEF Past, SlotBack, Back
<1>7. ASSUME NEW i \in 1 .. h - 1
      PROVE  save_history[Back(SlotOn(n), i)]
               = IF i = 1 THEN String(input_buf) ELSE Past[i - 1]
  <2>1. CASE i = 1
    BY <1>1, <1>3, <2>1, BackAfterLine
  <2>2. CASE i # 1
    <3>1. i \in 2 .. h - 1 /\ i - 1 \in 1 .. h - 1
      BY <1>1, <2>2
    <3>2. Back(SlotOn(n), i) = Back(n, i - 1)
      BY <1>1, <3>1, BackAfterLine
    <3>3. Back(n, i - 1) \in Slot /\ Back(n, i - 1) # n
      BY <1>1, <3>1, BackSlots
    <3>4. Past[i - 1] = history[Back(n, i - 1)]
      BY <1>6, <3>1
    <3> QED BY <1>3, <2>2, <3>2, <3>3, <3>4
  <2> QED BY <2>1, <2>2
<1> QED BY <1>4, <1>5, <1>7


-----------------------------------------------------------------------------
(* console_handle_char() implements Editor *)

IInv == LineStates /\ KeyInv

LEMMA LineFacts ==
    ASSUME IInv
    PROVE  /\ LineOK /\ HistoryTypes /\ KeyInv
           /\ BeforeCursor = Before(input_buf, input_pos)
           /\ AfterCursor = After(input_buf, input_pos)
           /\ BeforeCursor \in Seq(Glyphs) /\ Len(BeforeCursor) = input_pos
           /\ AfterCursor \in Seq(Glyphs) /\ Len(AfterCursor) = input_len - input_pos
           /\ E!Line = String(input_buf) /\ E!Line \in Seq(Glyphs) /\ Len(E!Line) = input_len
<1>1. LineOK /\ HistoryTypes /\ KeyInv
  BY LineStatesAre DEF IInv
<1>2. Holds(input_buf, input_len) /\ input_pos \in 0 .. input_len
  BY <1>1 DEF LineOK
<1>3. BeforeCursor = Before(input_buf, input_pos) /\ AfterCursor = After(input_buf, input_pos)
  BY DEF BeforeCursor, AfterCursor, Before, After
<1>4. E!Line = String(input_buf)
  BY <1>2, <1>3, WholeLine DEF E!Line
<1>5. String(input_buf) \in Seq(Glyphs) /\ Len(String(input_buf)) = input_len
  BY <1>2, StringIs
<1> QED BY <1>1, <1>2, <1>3, <1>4, <1>5, Halves

\* An operation on the line, with the key it is bound to.
LEMMA EditKey ==
    ASSUME IInv, NEW cs, Got(cs), Edits, cs \cap {"ESC", "eaten"} = {}, NEW k,
           \A x \in cs : x \in Meaning(key) => key = k
    PROVE  E!Edit(k)
<1>1. Finished(cs)
  BY Understood DEF IInv, Unfinished
<1>2. Unhandled = k /\ Unhandled' = "none"
  BY <1>1 DEF Finished
<1>3. command' = NoLine /\ UNCHANGED <<Past, Depth, Draft>>
  BY DEF Edits, historyVars, Past, Depth, Draft, SlotBack
<1> QED BY <1>2, <1>3 DEF E!Edit

LEMMA KeyKnown ==
    ASSUME IInv, NEW cs, Got(cs), cs \cap {"ESC", "eaten"} = {}
    PROVE  key \in Keys
  BY Understood DEF IInv, Unfinished, Finished

LEMMA InsertEdits ==
    ASSUME IInv, NEW g \in Glyphs, Insert(g)
    PROVE  E!Type
<1>1. Got({g}) /\ Edits
  BY DEF Insert
<1>2. g \notin Special
  BY ConsoleAssumption
<1>3. {g} \cap {"ESC", "eaten"} = {}
  BY <1>2 DEF Special
<1>4. E!Edit(g)
  <2>1. key \in Keys
    BY <1>1, <1>3, KeyKnown
  <2>2. \A x \in {g} : x \in Meaning(key) => key = g
    BY <2>1, MeaningsDiffer
  <2>3. PICK cs : cs = {g}
    OBVIOUS
  <2> QED BY <1>1, <1>3, <2>2, <2>3, EditKey
<1>5. /\ BeforeCursor' = IF Room THEN Append(BeforeCursor, g) ELSE BeforeCursor
      /\ AfterCursor' = AfterCursor
  BY LineFacts, InsertLine
<1>6. Len(E!Line) < CONFIG_CONSOLE_INPUT_LINE_SIZE - 1 <=> Room
  BY LineFacts DEF Room
<1> QED BY <1>4, <1>5, <1>6 DEF E!Type

LEMMA EmptyParts ==
    /\ SubSeq(<<>>, 1, Len(<<>>) - 1) = <<>> /\ SubSeq(<<>>, 2, Len(<<>>)) = <<>>
  BY SubSeqEmpty

LEMMA BackspaceEdits ==
    ASSUME IInv, Backspace
    PROVE  E!Backspace
<1>1. E!Edit("backspace")
  BY EditKey, KeyKnown, MeaningsDiffer DEF Backspace
<1>2. CASE input_pos = 0
  <2>1. UNCHANGED bufVars
    BY <1>2 DEF Backspace, handle_backspace
  <2>2. BeforeCursor' = BeforeCursor /\ AfterCursor' = AfterCursor
    BY <2>1 DEF bufVars, BeforeCursor, AfterCursor
  <2>3. BeforeCursor = <<>>
    BY <1>2, LineFacts, EmptySeq
  <2> QED BY <1>1, <2>2, <2>3, EmptyParts DEF E!Backspace, E!Most
<1>3. CASE input_pos # 0
  <2>1. input_pos \in 1 .. input_len
    BY <1>3, LineFacts, LineNumbers
  <2>2. BeforeCursor' = Before(input_buf, input_pos - 1) /\ AfterCursor' = AfterCursor
    BY <2>1, LineFacts, BackspaceLine DEF Backspace
  <2>3. Before(input_buf, input_pos - 1) = SubSeq(BeforeCursor, 1, Len(BeforeCursor) - 1)
    BY <2>1, LineFacts, OneLeft DEF LineOK
  <2> QED BY <1>1, <2>2, <2>3 DEF E!Backspace, E!Most
<1> QED BY <1>2, <1>3

LEMMA DelEdits ==
    ASSUME IInv, Del
    PROVE  E!Delete
<1>1. E!Edit("delete")
  BY EditKey, KeyKnown, MeaningsDiffer DEF Del
<1>2. CASE input_pos = input_len
  <2>1. UNCHANGED bufVars
    BY <1>2 DEF Del
  <2>2. BeforeCursor' = BeforeCursor /\ AfterCursor' = AfterCursor
    BY <2>1 DEF bufVars, BeforeCursor, AfterCursor
  <2>3. Len(AfterCursor) = 0
    BY <1>2, LineFacts, LineNumbers
  <2>4. AfterCursor = <<>>
    BY <2>3, LineFacts, EmptySeq
  <2> QED BY <1>1, <2>2, <2>4, EmptyParts DEF E!Delete
<1>3. CASE input_pos # input_len
  <2>1. input_pos + 1 \in 1 .. input_len /\ input_pos \in 0 .. input_len - 1
        /\ (input_pos + 1) - 1 = input_pos
    BY <1>3, LineFacts, LineNumbers
  <2>2. handle_backspace(input_pos + 1)
    BY <1>3 DEF Del
  <2>3. /\ BeforeCursor' = Before(input_buf, (input_pos + 1) - 1)
        /\ AfterCursor' = After(input_buf, input_pos + 1)
    BY <2>1, <2>2, LineFacts, BackspaceLine
  <2>4. After(input_buf, input_pos + 1) = SubSeq(AfterCursor, 2, Len(AfterCursor))
    BY <2>1, LineFacts, OneRight DEF LineOK
  <2> QED BY <1>1, <2>1, <2>3, <2>4, LineFacts DEF E!Delete
<1> QED BY <1>2, <1>3

LEMMA KillEdits ==
    ASSUME IInv, Kill
    PROVE  E!Kill
<1>1. E!Edit("kill")
  BY EditKey, KeyKnown, MeaningsDiffer DEF Kill
<1> QED BY <1>1, LineFacts, KillLine DEF E!Kill

LEMMA CursorEdits ==
    ASSUME IInv, move_cursor_begin \/ move_cursor_left \/ move_cursor_end \/ move_cursor_right
    PROVE  E!Home \/ E!Left \/ E!End \/ E!Right
<1>0. /\ LineOK /\ BeforeCursor = Before(input_buf, input_pos)
      /\ AfterCursor = After(input_buf, input_pos) /\ E!Line = String(input_buf)
      /\ input_len \in Nat /\ input_pos \in Nat /\ input_pos <= input_len
      /\ Holds(input_buf, input_len)
  BY LineFacts, LineNumbers DEF LineOK
<1>1. ASSUME NEW p \in 0 .. input_len, MoveCursor(p)
      PROVE  BeforeCursor' = Before(input_buf, p) /\ AfterCursor' = After(input_buf, p)
  BY <1>0, <1>1, CursorLine
<1>2. CASE move_cursor_begin
  <2>1. E!Edit("home")
    BY <1>2, EditKey, KeyKnown, MeaningsDiffer DEF move_cursor_begin
  <2>2. BeforeCursor' = Before(input_buf, 0) /\ AfterCursor' = After(input_buf, 0)
    BY <1>0, <1>1, <1>2 DEF move_cursor_begin
  <2> QED BY <1>0, <2>1, <2>2, AtEnds DEF E!Home
<1>3. CASE move_cursor_end
  <2>1. E!Edit("end")
    BY <1>3, EditKey, KeyKnown, MeaningsDiffer DEF move_cursor_end
  <2>2. BeforeCursor' = Before(input_buf, input_len) /\ AfterCursor' = After(input_buf, input_len)
    BY <1>0, <1>1, <1>3 DEF move_cursor_end
  <2> QED BY <1>0, <2>1, <2>2, AtEnds DEF E!End
<1>4. CASE move_cursor_left
  <2>1. E!Edit("left")
    BY <1>4, EditKey, KeyKnown, MeaningsDiffer DEF move_cursor_left
  <2>2. CASE input_pos = 0
    <3>1. BeforeCursor' = BeforeCursor /\ AfterCursor' = AfterCursor
      BY <1>0, <1>1, <1>4, <2>2 DEF move_cursor_left
    <3>2. BeforeCursor = <<>>
      BY <2>2, LineFacts, EmptySeq
    <3> QED BY <2>1, <3>1, <3>2, EmptyParts DEF E!Left, E!Most
  <2>3. CASE input_pos # 0
    <3>1. input_pos \in 1 .. input_len /\ input_pos - 1 \in 0 .. input_len
      BY <1>0, <2>3
    <3>2. /\ BeforeCursor' = Before(input_buf, input_pos - 1)
          /\ AfterCursor' = After(input_buf, input_pos - 1)
      BY <1>1, <1>4, <2>3, <3>1 DEF move_cursor_left
    <3> QED BY <1>0, <2>1, <3>1, <3>2, OneLeft DEF E!Left, E!Most
  <2> QED BY <2>2, <2>3
<1>5. CASE move_cursor_right
  <2>1. E!Edit("right")
    BY <1>5, EditKey, KeyKnown, MeaningsDiffer DEF move_cursor_right
  <2>2. CASE input_pos = input_len
    <3>1. BeforeCursor' = BeforeCursor /\ AfterCursor' = AfterCursor
      BY <1>0, <1>1, <1>5, <2>2 DEF move_cursor_right
    <3>2. AfterCursor = <<>>
      BY <1>0, <2>2, AtEnds
    <3> QED BY <2>1, <3>1, <3>2, EmptyParts DEF E!Right
  <2>3. CASE input_pos # input_len
    <3>1. input_pos \in 0 .. input_len - 1 /\ input_pos + 1 \in 0 .. input_len
      BY <1>0, <2>3
    <3>2. /\ BeforeCursor' = Before(input_buf, input_pos + 1)
          /\ AfterCursor' = After(input_buf, input_pos + 1)
      BY <1>1, <1>5, <2>3, <3>1 DEF move_cursor_right
    <3> QED BY <1>0, <2>1, <3>1, <3>2, OneRight DEF E!Right
  <2> QED BY <2>2, <2>3
<1> QED BY <1>2, <1>3, <1>4, <1>5


LEMMA NewLineEdits ==
    ASSUME IInv, NewLine
    PROVE  E!Enter
<1>1. Got({"LF"})
  BY DEF NewLine
<1>2. Finished({"LF"})
  BY <1>1, Understood DEF IInv, Unfinished
<1>3. Unhandled = "enter" /\ Unhandled' = "none"
  BY <1>2, MeaningsDiffer DEF Finished
<1>4. command' = E!Line
  BY LineFacts DEF NewLine
<1>5. BeforeCursor' = <<>> /\ AfterCursor' = <<>>
  BY LineFacts, NextLine
<1>6. CASE input_len = 0
  <2>1. UNCHANGED historyVars
    BY <1>6 DEF NewLine
  <2>2. UNCHANGED <<Past, Depth, Draft>>
    BY <2>1 DEF historyVars, Past, Depth, Draft, SlotBack
  <2>3. E!Line = <<>>
    BY <1>6, LineFacts, EmptySeq
  <2> QED BY <1>3, <1>4, <1>5, <2>2, <2>3 DEF E!Enter
<1>7. CASE input_len # 0
  <2>1. E!Line # <<>>
    BY <1>7, LineFacts
  <2>2. /\ Past' = [i \in 1 .. CONFIG_CONSOLE_HISTORY - 1 |->
                      IF i = 1 THEN E!Line ELSE Past[i - 1]]
        /\ Depth' = 0 /\ Draft' = <<>>
    BY <1>7, LineFacts, Remembered
  <2> QED BY <1>3, <1>4, <1>5, <2>1, <2>2 DEF E!Enter
<1> QED BY <1>6, <1>7

LEMMA HistoryEdits ==
    ASSUME IInv, Up \/ Down
    PROVE  E!Up \/ E!Down
<1>0. LineOK /\ HistoryTypes /\ KeyInv /\ E!Line = String(input_buf)
  BY LineFacts
<1>1. history_pos \in Slot /\ history_next \in Slot
  BY <1>0 DEF HistoryTypes
<1>2. Depth = Back(history_next, history_pos)
  BY DEF Depth, Back
<1>3. ASSUME NEW p \in Slot, Load(p), Unhandled' = "none"
      PROVE  E!Recall(Back(history_next, p))
  <2>1. command' = NoLine
    BY <1>3 DEF Load
  <2> QED BY <1>0, <1>3, <2>1, Recalled DEF E!Recall, Newest
<1>4. CASE Up
  <2>1. Finished({"^P", "UP_ARROW"})
    BY <1>0, <1>4, Understood DEF Up, Unfinished
  <2>2. Unhandled = "up" /\ Unhandled' = "none"
    BY <2>1, MeaningsDiffer DEF Finished
  <2>3. Load(SlotBefore(history_pos)) /\ SlotBefore(history_pos) \in Slot
    BY <1>1, <1>4, SlotSteps DEF Up, SlotBefore
  <2>4. E!Recall(Back(history_next, SlotBefore(history_pos)))
    BY <1>3, <2>2, <2>3
  <2>5. Back(history_next, SlotBefore(history_pos)) = (Depth + 1) % CONFIG_CONSOLE_HISTORY
    BY <1>1, <1>2, BackSteps
  <2> QED BY <2>2, <2>4, <2>5 DEF E!Up
<1>5. CASE Down
  <2>1. Finished({"^N", "DOWN_ARROW"})
    BY <1>0, <1>5, Understood DEF Down, Unfinished
  <2>2. Unhandled = "down" /\ Unhandled' = "none"
    BY <2>1, MeaningsDiffer DEF Finished
  <2>3. Load(SlotOn(history_pos)) /\ SlotOn(history_pos) \in Slot
    BY <1>1, <1>5, SlotSteps DEF Down, SlotOn
  <2>4. E!Recall(Back(history_next, SlotOn(history_pos)))
    BY <1>3, <2>2, <2>3
  <2>5. Back(history_next, SlotOn(history_pos))
          = (Depth + CONFIG_CONSOLE_HISTORY - 1) % CONFIG_CONSOLE_HISTORY
    BY <1>1, <1>2, BackSteps
  <2> QED BY <2>2, <2>4, <2>5 DEF E!Down
<1> QED BY <1>4, <1>5

LEMMA Stutters ==
    ASSUME Unhandled' = Unhandled, command' = command, UNCHANGED <<bufVars, historyVars>>
    PROVE  UNCHANGED E!vars
<1>1. UNCHANGED <<Past, Depth, Draft>>
  BY DEF historyVars, Past, Depth, Draft, SlotBack
<1>2. UNCHANGED <<BeforeCursor, AfterCursor>>
  BY DEF bufVars, BeforeCursor, AfterCursor
<1> QED BY <1>1, <1>2 DEF E!vars

LEMMA IgnoredEdits ==
    ASSUME IInv, Ignored
    PROVE  [E!Next]_(E!vars)
<1> DEFINE cs == {"ESC", "eaten", "^L"}
<1>1. Got(cs) /\ UNCHANGED <<bufVars, historyVars>>
      /\ command' = IF incoming' = <<>> THEN NoLine ELSE command
  BY DEF Ignored
<1>2. CASE Unfinished(cs)
  <2>1. Unhandled' = Unhandled /\ command' = command
    BY <1>1, <1>2 DEF Unfinished
  <2> QED BY <1>1, <2>1, Stutters
<1>3. CASE Finished(cs)
  <2>1. key = "other"
    BY <1>3, MeaningsDiffer DEF Finished
  <2>2. Unhandled = "other" /\ Unhandled' = "none" /\ command' = NoLine
    BY <1>1, <1>3, <2>1 DEF Finished
  <2>3. UNCHANGED <<Past, Depth, Draft>>
    BY <1>1 DEF historyVars, Past, Depth, Draft, SlotBack
  <2>4. UNCHANGED <<BeforeCursor, AfterCursor>>
    BY <1>1 DEF bufVars, BeforeCursor, AfterCursor
  <2> QED BY <2>2, <2>3, <2>4 DEF E!Next, E!Other, E!Edit
<1> QED BY <1>1, <1>2, <1>3, Understood DEF IInv

LEMMA PressEdits ==
    ASSUME IInv, NEW k \in Keys, Press(k)
    PROVE  E!Press
<1>1. Unhandled = "none" /\ Unhandled' = k
  BY PressStep DEF IInv
<1>2. UNCHANGED <<bufVars, historyVars, command>>
  BY DEF Press
<1>3. UNCHANGED <<Past, Depth, Draft>>
  BY <1>2 DEF historyVars, Past, Depth, Draft, SlotBack
<1>4. UNCHANGED <<BeforeCursor, AfterCursor>>
  BY <1>2 DEF bufVars, BeforeCursor, AfterCursor
<1>5. k \in E!Keys
  BY DEF Keys, NamedKeys, E!Keys
<1> QED BY <1>1, <1>2, <1>3, <1>4, <1>5 DEF E!Press

\* The invariant of the refinement: the line is a C string, and what is left of a
\* key fits the state that handle_esc() is in.
LEMMA IInvStep ==
    ASSUME IInv, [Next]_vars
    PROVE  IInv'
<1>1. LineStates'
  BY LineStep DEF IInv
<1>2. KeyInv
  BY DEF IInv
<1>3. CASE UNCHANGED vars
  BY <1>1, <1>2, <1>3 DEF vars, IInv, KeyInv, Idle, Begun, AfterCr, Within
<1>4. ASSUME NEW k \in Keys, Press(k)
      PROVE  KeyInv'
  BY <1>2, <1>4, PressStep
<1>5. CASE CrLf
  BY <1>1, <1>2, <1>5, CrLfStep DEF IInv
<1>6. ASSUME NEW cs, Got(cs)
      PROVE  KeyInv'
  BY <1>2, <1>6, Understood
<1>7. ASSUME HandleChar, ~CrLf
      PROVE  \E cs : Got(cs)
  BY <1>7 DEF HandleChar, Ignored, Insert, Backspace, Del, move_cursor_begin,
              move_cursor_left, move_cursor_end, move_cursor_right, Kill, NewLine, Up, Down
<1> QED BY <1>1, <1>3, <1>4, <1>5, <1>6, <1>7 DEF Next, IInv

LEMMA EditorStep ==
    ASSUME IInv, [Next]_vars
    PROVE  [E!Next]_(E!vars)
<1>1. CASE UNCHANGED vars
  <2>1. Unhandled' = Unhandled
    BY <1>1 DEF vars, Unhandled
  <2> QED BY <1>1, <2>1, Stutters DEF vars
<1>2. ASSUME NEW k \in Keys, Press(k)
      PROVE  E!Next
  BY <1>2, PressEdits DEF E!Next
<1>3. CASE CrLf
  <2>1. Unhandled' = Unhandled
    BY <1>3, CrLfStep DEF IInv
  <2> QED BY <1>3, <2>1, Stutters DEF CrLf
<1>4. ASSUME NEW g \in Glyphs, Insert(g)
      PROVE  E!Next
  BY <1>4, InsertEdits DEF E!Next
<1>5. CASE Backspace \/ Del \/ Kill
  BY <1>5, BackspaceEdits, DelEdits, KillEdits DEF E!Next
<1>6. CASE move_cursor_begin \/ move_cursor_left \/ move_cursor_end \/ move_cursor_right
  BY <1>6, CursorEdits DEF E!Next
<1>7. CASE NewLine
  BY <1>7, NewLineEdits DEF E!Next
<1>8. CASE Up \/ Down
  BY <1>8, HistoryEdits DEF E!Next
<1> QED
  BY <1>1, <1>2, <1>3, <1>4, <1>5, <1>6, <1>7, <1>8, IgnoredEdits DEF Next, HandleChar

LEMMA EditorStart ==
    ASSUME Init
    PROVE  IInv /\ E!Init
<1>1. LineStates
  BY LineStart
<1>2. Idle
  BY DEF Init, Idle
<1>3. IInv
  BY <1>1, <1>2 DEF IInv, KeyInv
<1>4. Unhandled = "none" /\ command = NoLine
  BY DEF Init, Unhandled
<1>5. 0 \in Slot /\ history_next = 0 /\ history_pos = 0
  BY Sizes DEF Init, Slot
<1>6. Depth = 0 /\ Draft = <<>>
  <2>1. Depth = Back(0, 0)
    BY <1>5 DEF Depth, Back
  <2> QED BY <1>5, <2>1, Backs DEF Draft
<1>7. Past = [i \in 1 .. CONFIG_CONSOLE_HISTORY - 1 |-> <<>>]
  <2>1. ASSUME NEW i \in 1 .. CONFIG_CONSOLE_HISTORY - 1
        PROVE  history[SlotBack(i)] = <<>>
    <3>1. SlotBack(i) = Back(0, i)
      BY <1>5 DEF SlotBack, Back
    <3>2. SlotBack(i) \in Slot
      BY <1>5, <3>1, BackSlots
    <3> QED BY <3>2 DEF Init
  <2> QED BY <2>1 DEF Past
<1>8. BeforeCursor = <<>> /\ AfterCursor = <<>>
  <2>1. input_len = 0 /\ input_pos = 0
    BY DEF Init
  <2>2. Len(BeforeCursor) = 0 /\ Len(AfterCursor) = 0
    BY <1>3, <2>1, LineFacts
  <2> QED BY <1>3, <2>2, LineFacts, EmptySeq
<1> QED BY <1>3, <1>4, <1>6, <1>7, <1>8 DEF E!Init

\* console_handle_char() implements Editor, whatever the sizes of the line and of the
\* history: every key does what Editor says, once, however many characters it sends.
THEOREM EditorRefined == Spec => EditorSpec
<1>1. Init => IInv /\ E!Init
  BY EditorStart
<1>2. IInv /\ [Next]_vars => IInv'
  BY IInvStep
<1>3. IInv /\ [Next]_vars => [E!Next]_(E!vars)
  BY EditorStep
<1> QED BY <1>1, <1>2, <1>3, PTL DEF Spec, EditorSpec, E!Spec


=============================================================================
