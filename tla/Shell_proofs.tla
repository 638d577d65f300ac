---------------------------- MODULE Shell_proofs -----------------------------
(***************************************************************************)
(* The line editor writes nowhere but into its buffers, and shows what it  *)
(* has read, for lines of every length and every set of characters, and a  *)
(* line does what its words say.                                           *)
(***************************************************************************)
EXTENDS Shell, SequenceTheorems, FiniteSetTheorems, TLAPS

-----------------------------------------------------------------------------
(* Sequences.                                                              *)

LEMMA Prefix ==
    ASSUME NEW S, NEW s \in Seq(S), NEW n \in 0 .. Len(s)
    PROVE  /\ SubSeq(s, 1, n) \in Seq(S) /\ Len(SubSeq(s, 1, n)) = n
           /\ SubSeq(s, 1, Len(s)) = s
OBVIOUS

\* A prefix and the rest of a sequence.
LEMMA Rejoined ==
    ASSUME NEW S, NEW s \in Seq(S), NEW n \in 0 .. Len(s)
    PROVE  /\ SubSeq(s, n + 1, Len(s)) \in Seq(S)
           /\ SubSeq(s, 1, n) \o SubSeq(s, n + 1, Len(s)) = s
<1>1. /\ Len(s) \in Nat /\ 1 \in 1 .. Len(s) + 1 /\ n \in 1 - 1 .. Len(s)
      /\ Len(s) \in n .. Len(s)
  OBVIOUS
<1>2. SubSeq(s, 1, n) \o SubSeq(s, n + 1, Len(s)) = SubSeq(s, 1, Len(s))
  BY <1>1, ConcatAdjacentSubSeq
<1>3. SubSeq(s, n + 1, Len(s)) \in Seq(S)
  BY <1>1, \A i \in n + 1 .. Len(s) : s[i] \in S, SubSeqProperties
<1>. QED
  BY <1>2, <1>3, SubSeqFull

LEMMA RejoinedAndOne ==
    ASSUME NEW S, NEW s \in Seq(S), NEW n \in 0 .. Len(s), NEW c \in S
    PROVE  SubSeq(s, 1, n) \o Append(SubSeq(s, n + 1, Len(s)), c)
            = Append(s, c)
<1>1. PICK a : a = SubSeq(s, 1, n)
  OBVIOUS
<1>2. PICK b : b = SubSeq(s, n + 1, Len(s))
  OBVIOUS
<1>3. a \in Seq(S) /\ b \in Seq(S) /\ a \o b = s
  BY <1>1, <1>2, Prefix, Rejoined
<1>4. Append(b, c) = b \o <<c>> /\ <<c>> \in Seq(S)
  BY <1>3
<1>5. a \o Append(b, c) = (a \o b) \o <<c>>
  BY <1>3, <1>4, ConcatAssociative
<1>6. Append(s, c) = s \o <<c>>
  OBVIOUS
<1>. QED
  BY <1>1, <1>2, <1>3, <1>5, <1>6

LEMMA PrefixOfAppended ==
    ASSUME NEW S, NEW s \in Seq(S), NEW n \in 0 .. Len(s), NEW c \in S
    PROVE  /\ SubSeq(Append(s, c), 1, n) = SubSeq(s, 1, n)
           /\ Append(s, c) \in Seq(S) /\ Len(Append(s, c)) = Len(s) + 1
OBVIOUS

-----------------------------------------------------------------------------
(* Least elements: sets of places have one.                                *)

LessThan == {p \in Nat \X Nat : p[1] < p[2]}

LEMMA LessThanWellFounded == IsWellFoundedOn(LessThan, Nat)
<1>1. IsWellFoundedOn(OpToRel(<, Nat), Nat)
  BY NatLessThanWellFounded
<1>2. LessThan \cap (Nat \X Nat) \subseteq OpToRel(<, Nat)
  BY Zenon DEF LessThan, OpToRel
<1>. QED
  BY <1>1, <1>2, IsWellFoundedOnSubrelation, Zenon

LEMMA LeastIn ==
    ASSUME NEW S, S \subseteq Nat, S # {}
    PROVE  Least(S) \in S /\ \A j \in S : Least(S) <= j
<1>1. PICK x \in S : \A y \in S : ~(<<y, x>> \in LessThan)
  BY LessThanWellFounded, WFMin
<1>2. ASSUME NEW y \in S PROVE x <= y
  <2>1. x \in Nat /\ y \in Nat /\ ~(<<y, x>> \in LessThan)
    BY <1>1
  <2>. QED
    BY <2>1 DEF LessThan
<1>3. \E i \in S : \A j \in S : i <= j
  BY <1>2
<1>. QED
  BY <1>3 DEF Least

LEMMA LeastIs ==
    ASSUME NEW S, S \subseteq Nat, NEW x \in S, \A j \in S : x <= j
    PROVE  Least(S) = x
<1>1. Least(S) \in S /\ Least(S) <= x
  BY LeastIn
<1>2. x <= Least(S) /\ x \in Nat /\ Least(S) \in Nat
  BY <1>1
<1>. QED
  BY <1>1, <1>2

-----------------------------------------------------------------------------
(* Splitting a line: what one call of _strtok finds and what it leaves.    *)

\* The words that begin before the place t; 0 is the end.
Before(s, t) == {i \in Words(s) : t = 0 \/ i < t}

\* From t on, buf holds s, and t is no place inside of a word.
Remains(s, buf, t) ==
    /\ buf \in Seq(Printable \cup {NUL})
    /\ Len(buf) = Len(s) + 1 /\ buf[Len(s) + 1] = NUL
    /\ t \in 0 .. Len(s) + 1
    /\ t # 0 => /\ t = 1 \/ s[t - 1] = Space
                /\ \A j \in t .. Len(s) : buf[j] = s[j]

\* The word at k stands in buf as a string of its own, before t.
CutOut(s, buf, k, t) ==
    \E e \in k .. Len(s) :
        /\ \A j \in k .. e : buf[j] = s[j] /\ s[j] # Space
        /\ buf[e + 1] = NUL
        /\ e = Len(s) \/ s[e + 1] = Space
        /\ t = 0 \/ e + 1 < t

\* The next word, or the end of the line, is at k.
TokenFound(s, buf, t, k) ==
    /\ k \in t .. Len(s) + 1
    /\ Least({i \in t .. Len(buf) : buf[i] # Space}) = k
    /\ buf[k] # Space
    /\ \A i \in t .. k - 1 : s[i] = Space
    /\ k = 1 \/ s[k - 1] = Space
    /\ k <= Len(s) => buf[k] = s[k] /\ buf[k] # NUL
    /\ EndOfString(buf, k) = Len(s) + 1

LEMMA SkipsSpaces ==
    ASSUME NEW s \in Seq(Printable), NEW buf, NEW t,
           Remains(s, buf, t), t # 0
    PROVE  \E k : TokenFound(s, buf, t, k)
<1>. DEFINE S == {i \in t .. Len(buf) : buf[i] # Space}
<1>0. PICK k : k = Least(S)
  OBVIOUS
<1>1. /\ Len(s) \in Nat /\ t \in 1 .. Len(s) + 1 /\ Len(buf) = Len(s) + 1
      /\ buf[Len(s) + 1] = NUL /\ NUL \notin Printable /\ Space \in Printable
      /\ \A j \in t .. Len(s) : buf[j] = s[j]
      /\ \A j \in 1 .. Len(s) : s[j] \in Printable
      /\ t = 1 \/ s[t - 1] = Space
  BY ShellAssumption DEF Remains
<1>2. S \subseteq Nat /\ Len(s) + 1 \in S
  BY <1>1
<1>3. k \in S /\ \A j \in S : k <= j
  BY <1>0, <1>2, LeastIn
<1>4. k \in t .. Len(s) + 1 /\ buf[k] # Space
  BY <1>1, <1>3
<1>5. \A i \in t .. k - 1 : s[i] = Space
  BY <1>1, <1>3, <1>4
<1>6. k = 1 \/ s[k - 1] = Space
  BY <1>1, <1>4, <1>5
<1>7. k <= Len(s) => buf[k] = s[k] /\ buf[k] # NUL
  BY <1>1, <1>4
<1>8. EndOfString(buf, k) = Len(s) + 1
  <2>. DEFINE E == {i \in k .. Len(buf) : buf[i] = NUL}
  <2>1. E \subseteq Nat /\ Len(s) + 1 \in E
    BY <1>1, <1>4
  <2>2. ASSUME NEW j \in E PROVE Len(s) + 1 <= j
    <3>1. j \in t .. Len(s) => buf[j] \in Printable
      BY <1>1
    <3>. QED
      BY <1>1, <1>4, <3>1
  <2>3. Least(E) = Len(s) + 1
    BY <2>1, <2>2, LeastIs
  <2>. QED
    BY <2>3 DEF EndOfString
<1>. QED
  BY <1>0, <1>4, <1>5, <1>6, <1>7, <1>8 DEF TokenFound

LEMMA NoWordInSpaces ==
    ASSUME NEW s \in Seq(Printable), NEW t \in 1 .. Len(s) + 1,
           \A i \in t .. Len(s) : s[i] = Space
    PROVE  Before(s, t) = Words(s)
BY DEF Before, Words, WordAt

LEMMA StrtokEnds ==
    ASSUME NEW s \in Seq(Printable), NEW buf, NEW t,
           Remains(s, buf, t), t # 0, NEW lp, lp = Strtok(buf, t),
           lp.token = 0
    PROVE  Before(s, t) = Words(s) /\ lp.saveptr = 0 /\ lp.buf = buf
<1>0. PICK k : TokenFound(s, buf, t, k)
  BY SkipsSpaces
<1>1. /\ k \in t .. Len(s) + 1
      /\ Least({i \in t .. Len(buf) : buf[i] # Space}) = k
      /\ buf[k] # Space
      /\ \A i \in t .. k - 1 : s[i] = Space
      /\ k = 1 \/ s[k - 1] = Space
      /\ k <= Len(s) => buf[k] = s[k] /\ buf[k] # NUL
      /\ EndOfString(buf, k) = Len(s) + 1
  BY <1>0 DEF TokenFound
<1>2. /\ Len(s) \in Nat /\ t \in 1 .. Len(s) + 1 /\ buf[Len(s) + 1] = NUL
      /\ NUL # Space
  BY ShellAssumption DEF Remains
<1>. DEFINE spaces == {i \in k .. EndOfString(buf, k) : buf[i] = Space}
<1>3. lp = [buf |-> IF spaces = {} THEN buf
                    ELSE [buf EXCEPT ![Least(spaces)] = NUL],
            saveptr |-> IF spaces = {} THEN 0 ELSE Least(spaces) + 1,
            token |-> IF buf[k] = NUL THEN 0 ELSE k]
  BY <1>1 DEF Strtok
<1>4. k = Len(s) + 1
  BY <1>1, <1>2, <1>3
<1>5. spaces = {}
  BY <1>1, <1>2, <1>4
<1>6. Before(s, t) = Words(s)
  BY <1>1, <1>2, <1>4, NoWordInSpaces
<1>. QED
  BY <1>3, <1>5, <1>6

LEMMA StrtokCuts ==
    ASSUME NEW s \in Seq(Printable), NEW buf, NEW t,
           Remains(s, buf, t), t # 0, NEW lp, lp = Strtok(buf, t),
           lp.token # 0
    PROVE  /\ lp.token \in t .. Len(s) /\ lp.token \in Words(s)
           /\ Remains(s, lp.buf, lp.saveptr)
           /\ Before(s, lp.saveptr) = Before(s, t) \cup {lp.token}
           /\ lp.saveptr = 0 \/ lp.token < lp.saveptr
           /\ CutOut(s, lp.buf, lp.token, lp.saveptr)
           /\ \A j \in 1 .. Len(s) + 1 : j < lp.token => lp.buf[j] = buf[j]
<1>0. PICK k : TokenFound(s, buf, t, k)
  BY SkipsSpaces
<1>1. /\ k \in t .. Len(s) + 1
      /\ Least({i \in t .. Len(buf) : buf[i] # Space}) = k
      /\ buf[k] # Space
      /\ \A i \in t .. k - 1 : s[i] = Space
      /\ k = 1 \/ s[k - 1] = Space
      /\ k <= Len(s) => buf[k] = s[k] /\ buf[k] # NUL
      /\ EndOfString(buf, k) = Len(s) + 1
  BY <1>0 DEF TokenFound
<1>2. /\ Len(s) \in Nat /\ t \in 1 .. Len(s) + 1 /\ Len(buf) = Len(s) + 1
      /\ buf[Len(s) + 1] = NUL /\ NUL \notin Printable /\ Space \in Printable
      /\ \A j \in t .. Len(s) : buf[j] = s[j]
      /\ \A j \in 1 .. Len(s) : s[j] \in Printable
      /\ buf \in Seq(Printable \cup {NUL})
  BY ShellAssumption DEF Remains
<1>. DEFINE spaces == {i \in k .. EndOfString(buf, k) : buf[i] = Space}
            b == IF spaces = {} THEN buf
                 ELSE [buf EXCEPT ![Least(spaces)] = NUL]
            p == IF spaces = {} THEN 0 ELSE Least(spaces) + 1
            e == IF spaces = {} THEN Len(s) ELSE Least(spaces) - 1
<1>3. lp = [buf |-> b, saveptr |-> p,
            token |-> IF buf[k] = NUL THEN 0 ELSE k]
  BY <1>1 DEF Strtok
<1>4. lp.token = k /\ k \in t .. Len(s) /\ lp.buf = b /\ lp.saveptr = p
  BY <1>1, <1>2, <1>3
<1>5. k \in 1 .. Len(s) /\ k \in Words(s)
  BY <1>1, <1>2, <1>4 DEF Words, WordAt
\* The word ends at e, and p is behind the space that follows.
<1>6. /\ e \in k .. Len(s) /\ \A j \in k .. e : s[j] # Space
      /\ e = Len(s) \/ s[e + 1] = Space
      /\ p = 0 => e = Len(s)
      /\ p # 0 => p = e + 2 /\ p \in 1 .. Len(s) + 1 /\ s[p - 1] = Space
      /\ b \in Seq(Printable \cup {NUL}) /\ Len(b) = Len(buf)
      /\ \A j \in 1 .. Len(buf) : b[j] = IF j = e + 1 THEN NUL ELSE buf[j]
  <2>1. CASE spaces = {}
    <3>1. \A j \in k .. Len(s) : s[j] # Space
      BY <1>1, <1>2, <1>5, <2>1
    <3>. QED
      BY <1>2, <1>5, <2>1, <3>1
  <2>2. CASE spaces # {}
    <3>1. spaces \subseteq Nat
      BY <1>2, <1>5
    <3>2. PICK m : m = Least(spaces)
      OBVIOUS
    <3>3. m \in spaces /\ \A j \in spaces : m <= j
      BY <2>2, <3>1, <3>2, LeastIn
    <3>4. m \in k + 1 .. Len(s) /\ s[m] = Space
      BY <1>1, <1>2, <1>5, <3>3
    <3>5. \A j \in k .. m - 1 : s[j] # Space
      BY <1>1, <1>2, <1>5, <3>3, <3>4
    <3>6. /\ b = [buf EXCEPT ![m] = NUL] /\ p = m + 1 /\ e = m - 1
          /\ m \in 1 .. Len(buf) /\ NUL \in Printable \cup {NUL}
      BY <1>2, <1>5, <2>2, <3>2, <3>4
    <3>. HIDE DEF b, p, e
    <3>7. /\ b \in Seq(Printable \cup {NUL}) /\ Len(b) = Len(buf)
          /\ \A j \in 1 .. Len(buf) : b[j] = IF j = m THEN NUL ELSE buf[j]
      BY <1>2, <3>6, ExceptSeq
    <3>8. e = m - 1 /\ p - 1 = m /\ e + 1 = m /\ p = e + 2
      BY <1>2, <1>5, <3>4, <3>6
    <3>9. /\ e \in k .. Len(s) /\ p # 0
          /\ p \in 1 .. Len(s) + 1 /\ s[p - 1] = Space
      BY <1>2, <1>5, <3>4, <3>8
    <3>. QED
      BY <3>4, <3>5, <3>6, <3>7, <3>8, <3>9
  <2>. QED
    BY <2>1, <2>2
<1>. HIDE DEF b, p, e, spaces
<1>7. b[Len(s) + 1] = NUL
  BY <1>2, <1>6
<1>8. p # 0 => \A j \in p .. Len(s) : b[j] = s[j]
  BY <1>2, <1>4, <1>5, <1>6
<1>9. Remains(s, b, p)
  BY <1>2, <1>6, <1>7, <1>8 DEF Remains
<1>10. CutOut(s, b, k, p)
  <2>1. \A j \in k .. e : b[j] = s[j] /\ s[j] # Space
    BY <1>2, <1>4, <1>5, <1>6
  <2>2. b[e + 1] = NUL /\ (p = 0 \/ e + 1 < p)
    BY <1>2, <1>5, <1>6
  <2>. QED
    BY <1>6, <2>1, <2>2 DEF CutOut
<1>11. p = 0 \/ k < p
  BY <1>2, <1>5, <1>6
<1>12. Before(s, p) = Before(s, t) \cup {k}
  <2>1. ASSUME NEW i \in Words(s), t <= i, i # k, p = 0 \/ i < p
        PROVE  FALSE
    <3>1. i \in 1 .. Len(s) /\ s[i] # Space /\ (i = 1 \/ s[i - 1] = Space)
      BY <2>1 DEF Words, WordAt
    <3>2. k < i
      BY <1>1, <1>2, <2>1, <3>1
    <3>3. i <= e + 1 /\ i - 1 \in k .. Len(s)
      BY <1>2, <1>5, <1>6, <2>1, <3>1, <3>2
    <3>4. i - 1 \in k .. e
      BY <1>2, <1>5, <1>6, <3>1, <3>2, <3>3
    <3>. QED
      BY <1>2, <1>5, <1>6, <3>1, <3>2, <3>4
  <2>2. ASSUME NEW i \in Before(s, t) PROVE i \in Before(s, p)
    <3>1. i \in Words(s) /\ i < t /\ i \in 1 .. Len(s)
      BY <1>2, <2>2 DEF Before, Words
    <3>2. i < k
      BY <1>2, <1>4, <3>1
    <3>3. p = 0 \/ i < p
      BY <1>5, <1>6, <1>11, <3>1, <3>2
    <3>. QED
      BY <3>1, <3>3 DEF Before
  <2>3. k \in Before(s, p)
    BY <1>5, <1>11 DEF Before
  <2>4. ASSUME NEW i \in Before(s, p), i # k PROVE i \in Before(s, t)
    <3>1. i \in Words(s) /\ (p = 0 \/ i < p) /\ i \in 1 .. Len(s)
      BY <2>4 DEF Before, Words
    <3>2. ~(t <= i)
      BY <2>1, <2>4, <3>1
    <3>. QED
      BY <1>2, <3>1, <3>2 DEF Before
  <2>. QED
    BY <2>2, <2>3, <2>4
<1>13. \A j \in 1 .. Len(s) + 1 : j < k => b[j] = buf[j]
  BY <1>2, <1>5, <1>6
<1>. QED
  BY <1>4, <1>5, <1>9, <1>10, <1>11, <1>12, <1>13

\* A string that is cut out already stays so.
LEMMA CutOutStays ==
    ASSUME NEW s \in Seq(Printable), NEW buf, NEW t, Remains(s, buf, t),
           t # 0, NEW lp, lp = Strtok(buf, t), lp.token # 0,
           NEW k \in 1 .. Len(s), CutOut(s, buf, k, t)
    PROVE  CutOut(s, lp.buf, k, lp.saveptr)
<1>1. PICK e \in k .. Len(s) :
        /\ \A j \in k .. e : buf[j] = s[j] /\ s[j] # Space
        /\ buf[e + 1] = NUL
        /\ e = Len(s) \/ s[e + 1] = Space
        /\ e + 1 < t
  BY DEF CutOut
<1>2. /\ lp.token \in t .. Len(s)
      /\ lp.saveptr = 0 \/ lp.token < lp.saveptr
      /\ lp.saveptr \in 0 .. Len(s) + 1
      /\ \A j \in 1 .. Len(s) + 1 : j < lp.token => lp.buf[j] = buf[j]
      /\ Len(s) \in Nat /\ t \in 1 .. Len(s) + 1
  BY StrtokCuts DEF Remains
<1>3. \A j \in k .. e + 1 : lp.buf[j] = buf[j]
  BY <1>1, <1>2
<1>4. \A j \in k .. e : j \in k .. e + 1
  BY <1>1
<1>5. e + 1 \in k .. e + 1 /\ (lp.saveptr = 0 \/ e + 1 < lp.saveptr)
  BY <1>1, <1>2
<1>. QED
  BY <1>1, <1>3, <1>4, <1>5 DEF CutOut

\* The string at the first word is that word.
LEMMA FirstString ==
    ASSUME NEW s \in Seq(Printable), NEW buf, NEW t, Remains(s, buf, t),
           NEW k \in Words(s), \A i \in Words(s) : k <= i,
           CutOut(s, buf, k, t)
    PROVE  SubSeq(buf, k, EndOfString(buf, k) - 1)
            = WordFrom(s, Least(Words(s)))
<1>1. PICK e \in k .. Len(s) :
        /\ \A j \in k .. e : buf[j] = s[j] /\ s[j] # Space
        /\ buf[e + 1] = NUL
        /\ e = Len(s) \/ s[e + 1] = Space
  BY DEF CutOut
<1>2. /\ Len(s) \in Nat /\ k \in 1 .. Len(s) /\ Len(buf) = Len(s) + 1
      /\ NUL \notin Printable /\ \A j \in 1 .. Len(s) : s[j] \in Printable
      /\ buf \in Seq(Printable \cup {NUL})
      /\ Words(s) \subseteq Nat
  BY ShellAssumption DEF Remains, Words
<1>3. Least(Words(s)) = k
  BY <1>2, LeastIs
<1>4. EndOfString(buf, k) = e + 1
  <2>. DEFINE E == {i \in k .. Len(buf) : buf[i] = NUL}
  <2>1. E \subseteq Nat /\ e + 1 \in E
    BY <1>1, <1>2
  <2>2. ASSUME NEW j \in E PROVE e + 1 <= j
    <3>1. j \in k .. e => buf[j] \in Printable
      BY <1>1, <1>2
    <3>. QED
      BY <1>1, <1>2, <3>1
  <2>3. Least(E) = e + 1
    BY <2>1, <2>2, LeastIs
  <2>. QED
    BY <2>3 DEF EndOfString
<1>5. Least({j \in k .. Len(s) : j = Len(s) \/ s[j + 1] = Space}) = e
  <2>. DEFINE E == {j \in k .. Len(s) : j = Len(s) \/ s[j + 1] = Space}
  <2>1. E \subseteq Nat /\ e \in E
    BY <1>1, <1>2
  <2>2. ASSUME NEW j \in E PROVE e <= j
    <3>1. j < e => j + 1 \in k .. e
      BY <1>1, <1>2
    <3>. QED
      BY <1>1, <1>2, <3>1
  <2>. QED
    BY <2>1, <2>2, LeastIs
<1>6. SubSeq(buf, k, e) = SubSeq(s, k, e)
  <2>. DEFINE T == Printable \cup {NUL}
  <2>1. \A i \in k .. e : buf[i] \in T /\ s[i] \in T /\ buf[i] = s[i]
    BY <1>1, <1>2
  <2>2. /\ SubSeq(buf, k, e) \in Seq(T)
        /\ Len(SubSeq(buf, k, e)) = IF k <= e THEN e - k + 1 ELSE 0
        /\ \A i \in 1 .. e - k + 1 : SubSeq(buf, k, e)[i] = buf[k + i - 1]
    BY <1>1, <1>2, <2>1, SubSeqProperties
  <2>3. /\ SubSeq(s, k, e) \in Seq(T)
        /\ Len(SubSeq(s, k, e)) = IF k <= e THEN e - k + 1 ELSE 0
        /\ \A i \in 1 .. e - k + 1 : SubSeq(s, k, e)[i] = s[k + i - 1]
    BY <1>1, <1>2, <2>1, SubSeqProperties
  <2>4. k <= e /\ \A i \in 1 .. e - k + 1 : k + i - 1 \in k .. e
    BY <1>1, <1>2
  <2>. QED
    BY <2>1, <2>2, <2>3, <2>4, SeqEqual
<1>7. EndOfString(buf, k) - 1 = e
  BY <1>1, <1>2, <1>4
<1>8. WordFrom(s, k)
       = SubSeq(s, k, Least({j \in k .. Len(s) : j = Len(s)
                                              \/ s[j + 1] = Space}))
  BY Zenon DEF WordFrom
<1>9. WordFrom(s, k) = SubSeq(s, k, e)
  BY ONLY <1>5, <1>8, Zenon
<1>10. SubSeq(buf, k, EndOfString(buf, k) - 1) = SubSeq(buf, k, e)
  BY ONLY <1>7, Zenon
<1>11. WordFrom(s, Least(Words(s))) = WordFrom(s, k)
  BY ONLY <1>3, Zenon
<1>. QED
  BY <1>6, <1>9, <1>10, <1>11

-----------------------------------------------------------------------------
(* The invariant.                                                          *)

IInv == TypeOK /\ ScreenShowsLine

LEMMA EmptyLine ==
    /\ <<>> \in Line /\ <<>> \in Seq(Printable) /\ Len(<<>>) = 0
    /\ SubSeq(<<>>, 1, 0) = <<>>
<1>1. <<>> \in Seq(Printable) /\ Len(<<>>) = 0
  BY EmptySeq
<1>. QED
  BY <1>1, SubSeqEmpty, ShellAssumption DEF Line

LEMMA InitIInv == Init => IInv
<1>. SUFFICES ASSUME Init PROVE IInv
  OBVIOUS
<1>1. /\ pc = "off" /\ typed = NoKey /\ line = <<>> /\ echoed = 0
      /\ escSeq = 0 /\ history = <<>> /\ screen = <<>> /\ garbled = FALSE
      /\ split = NoSplit
  BY DEF Init
<1>2. line \in Line /\ history \in Line
  BY <1>1, EmptyLine
<1>3. screen \in Seq(Printable)
  BY <1>1, EmptyLine
<1>4. echoed \in 0 .. Len(line)
  BY <1>1, EmptyLine
<1>5. split.n \in 0 .. SHELL_MAX_ARGUMENTS
  BY <1>1, ShellAssumption DEF NoSplit
<1>6. SubSeq(line, 1, echoed) = <<>>
  BY <1>1, EmptyLine
<1>7. ScreenShowsLine
  BY <1>1, <1>6 DEF ScreenShowsLine
<1>8. /\ pc \in {"off", "begins", "reading", "splitting", "apollo", "left"}
      /\ typed \in Printable \cup Control \cup {NoKey}
  BY DEF Init
<1>9. escSeq \in 0 .. 2
  BY DEF Init
<1>10. garbled \in BOOLEAN
  <2>1. garbled = FALSE
    BY DEF Init
  <2>. QED
    BY <2>1
<1>11. TypeOK
  BY <1>2, <1>3, <1>4, <1>5, <1>8, <1>9, <1>10 DEF TypeOK
<1>. QED
  BY <1>7, <1>11 DEF IInv

\* What most steps leave alone.
LEMMA NewLineKeeps ==
    ASSUME NewLine
    PROVE  /\ line' \in Line /\ echoed' \in 0 .. Len(line')
           /\ escSeq' \in 0 .. 2
           /\ screen' \in Seq(Printable) /\ garbled' \in BOOLEAN
           /\ ScreenShowsLine'
<1>1. /\ line' = <<>> /\ echoed' = 0 /\ escSeq' = 0
      /\ screen' = <<>> /\ garbled' = FALSE
  BY DEF NewLine
<1>2. echoed' \in 0 .. Len(line')
  BY <1>1, EmptyLine
<1>3. SubSeq(line', 1, echoed') = <<>>
  BY <1>1, EmptyLine
<1>4. line' \in Line
  BY <1>1, EmptyLine
<1>5. screen' \in Seq(Printable)
  BY <1>1, EmptyLine
<1>6. ScreenShowsLine'
  BY <1>1, <1>3 DEF ScreenShowsLine
<1>7. escSeq' \in 0 .. 2
  BY DEF NewLine
<1>8. garbled' \in BOOLEAN
  <2>1. garbled' = FALSE
    BY DEF NewLine
  <2>. QED
    BY <2>1
<1>. QED
  BY <1>2, <1>4, <1>5, <1>6, <1>7, <1>8

LEMMA FittingFits ==
    ASSUME line \in Line, NEW s \in Line
    PROVE  line \o Fitting(s) \in Line
<1>. DEFINE room == SHELL_MAX_LINE_LENGTH - 1 - Len(line)
<1>1. line \in Seq(Printable) /\ s \in Seq(Printable) /\ room \in Nat
  BY ShellAssumption DEF Line
<1>2. Fitting(s) \in Seq(Printable) /\ Len(Fitting(s)) <= room
  BY <1>1 DEF Fitting
<1>. QED
  BY <1>1, <1>2, ShellAssumption DEF Line

LEMMA CursorUpKeeps ==
    ASSUME IInv, CursorUp
    PROVE  IInv'
<1>1. /\ line \in Line /\ history \in Line /\ screen \in Seq(Printable)
      /\ garbled \in BOOLEAN
  BY DEF IInv, TypeOK
<1>2. line' \in Line
  BY <1>1, FittingFits DEF CursorUp
<1>3. line' \in Seq(Printable) /\ history \in Seq(Printable)
  BY <1>1, <1>2 DEF Line
<1>4. /\ echoed' = Len(line') /\ escSeq' = 0
      /\ garbled' = (garbled \/ screen \o history # line')
      /\ screen' = IF garbled' THEN <<>> ELSE screen \o history
      /\ pc' = pc /\ history' = history /\ split' = split /\ typed' = NoKey
  BY DEF CursorUp, Reads
<1>5. screen' \in Seq(Printable)
  BY <1>1, <1>3, <1>4
<1>6. TypeOK'
  BY <1>1, <1>2, <1>3, <1>4, <1>5 DEF IInv, TypeOK
<1>7. ScreenShowsLine'
  <2>1. SubSeq(line', 1, Len(line')) = line'
    BY <1>3, SubSeqFull
  <2>2. ASSUME ~garbled' PROVE screen' = line'
    BY <1>4, <2>2
  <2>. QED
    BY <1>4, <2>1, <2>2 DEF ScreenShowsLine
<1>. QED
  BY <1>6, <1>7 DEF IInv

LEMMA BackspaceKeeps ==
    ASSUME IInv, Backspace
    PROVE  IInv'
<1>1. /\ line \in Seq(Printable) /\ Len(line) < SHELL_MAX_LINE_LENGTH
      /\ screen \in Seq(Printable) /\ garbled \in BOOLEAN
      /\ echoed \in 0 .. Len(line)
  BY DEF IInv, TypeOK, Line
<1>2. /\ pc' = pc /\ garbled' = garbled /\ history' = history
      /\ split' = split /\ escSeq' = 0 /\ typed' = NoKey
  BY DEF Backspace, ReadsPlainly, Reads
<1>3. CASE line = <<>>
  BY <1>2, <1>3 DEF Backspace, IInv, TypeOK, ScreenShowsLine
<1>4. CASE line # <<>>
  <2>1. /\ line' = SubSeq(line, 1, Len(line) - 1) /\ echoed' = Len(line')
        /\ screen' = IF garbled THEN screen
                     ELSE SubSeq(screen \o HeldBack, 1,
                                 Len(screen \o HeldBack) - 1)
    BY <1>4 DEF Backspace
  <2>2. Len(line) - 1 \in 0 .. Len(line)
    BY <1>1, <1>4
  <2>3. /\ line' \in Line /\ line' \in Seq(Printable)
        /\ echoed' \in 0 .. Len(line') /\ SubSeq(line', 1, echoed') = line'
    BY <1>1, <2>1, <2>2, ShellAssumption DEF Line
  <2>4. ASSUME ~garbled PROVE screen' = line'
    <3>1. screen = SubSeq(line, 1, echoed)
      BY <2>4 DEF IInv, ScreenShowsLine
    <3>2. screen \o HeldBack = line
      BY <1>1, <3>1, Rejoined DEF HeldBack
    <3>. QED
      BY <2>1, <2>4, <3>2
  <2>5. screen' \in Seq(Printable)
    BY <1>1, <2>1, <2>3, <2>4
  <2>6. TypeOK'
    BY <1>2, <2>3, <2>5 DEF IInv, TypeOK
  <2>7. ScreenShowsLine'
    BY <1>2, <2>3, <2>4 DEF ScreenShowsLine
  <2>. QED
    BY <2>6, <2>7 DEF IInv
<1>. QED
  BY <1>3, <1>4

LEMMA CharacterKeeps ==
    ASSUME IInv, NEW c \in Printable, Character(c)
    PROVE  IInv'
<1>1. /\ line \in Seq(Printable) /\ Len(line) < SHELL_MAX_LINE_LENGTH
      /\ screen \in Seq(Printable) /\ garbled \in BOOLEAN
      /\ echoed \in 0 .. Len(line)
  BY DEF IInv, TypeOK, Line
<1>2. /\ pc' = pc /\ garbled' = garbled /\ history' = history
      /\ split' = split /\ escSeq' = 0 /\ typed' = NoKey
  BY DEF Character, ReadsPlainly, Reads
<1>3. CASE UNCHANGED <<line, echoed, screen>>
  BY <1>2, <1>3 DEF IInv, TypeOK, ScreenShowsLine
<1>4. CASE ~UNCHANGED <<line, echoed, screen>>
  <2>1. /\ ~(Len(line) >= SHELL_MAX_LINE_LENGTH - 1)
        /\ line' = Append(line, c)
        /\ \/ UNCHANGED <<echoed, screen>>
           \/ /\ echoed' = Len(line')
              /\ Printed(Append(HeldBack, c))
    BY <1>4 DEF Character
  <2>2. /\ line' \in Line /\ line' \in Seq(Printable)
        /\ Len(line') = Len(line) + 1
    BY <1>1, <2>1, ShellAssumption DEF Line
  <2>3. CASE UNCHANGED <<echoed, screen>>
    <3>1. SubSeq(line', 1, echoed') = SubSeq(line, 1, echoed)
      BY <1>1, <2>1, <2>3, PrefixOfAppended
    <3>. QED
      BY <1>1, <1>2, <2>2, <2>3, <3>1 DEF IInv, TypeOK, ScreenShowsLine
  <2>4. CASE echoed' = Len(line') /\ Printed(Append(HeldBack, c))
    <3>1. SubSeq(line', 1, echoed') = line' /\ echoed' \in 0 .. Len(line')
      BY <2>2, <2>4
    <3>2. ASSUME ~garbled PROVE screen' = line'
      <4>1. screen = SubSeq(line, 1, echoed)
        BY <3>2 DEF IInv, ScreenShowsLine
      <4>2. screen \o Append(HeldBack, c) = Append(line, c)
        BY <1>1, <4>1, RejoinedAndOne DEF HeldBack
      <4>. QED
        BY <2>1, <2>4, <3>2, <4>2 DEF Printed
    <3>3. screen' \in Seq(Printable)
      BY <1>1, <2>2, <2>4, <3>2 DEF Printed
    <3>. QED
      BY <1>2, <2>2, <3>1, <3>2, <3>3 DEF IInv, TypeOK, ScreenShowsLine
  <2>. QED
    BY <2>1, <2>3, <2>4
<1>. QED
  BY <1>3, <1>4

LEMMA ReturnKeeps ==
    ASSUME IInv, Return
    PROVE  IInv'
<1>1. /\ history' = line /\ pc' = "splitting" /\ typed' = NoKey
      /\ split'.n = 0 /\ NewLine
  BY DEF Return, ReadsPlainly, Reads
<1>. QED
  BY <1>1, NewLineKeeps, ShellAssumption DEF IInv, TypeOK

LEMMA NextArgumentKeeps ==
    ASSUME IInv, NextArgument
    PROVE  IInv'
<1>1. /\ typed' = typed /\ history' = history /\ line' = line
      /\ echoed' = echoed /\ escSeq' = escSeq /\ screen' = screen
      /\ garbled' = garbled
  BY DEF NextArgument, lineVars
<1>2. pc' \in {"splitting", "reading"}
  BY DEF NextArgument
<1>3. split'.n \in 0 .. SHELL_MAX_ARGUMENTS
  <2>1. split.n \in 0 .. SHELL_MAX_ARGUMENTS
    BY DEF IInv, TypeOK
  <2>2. \/ split' = NoSplit
        \/ /\ ~(split.n >= SHELL_MAX_ARGUMENTS)
           /\ \E b, t, c : split' = [buf |-> b, tokp |-> t, cmd |-> c,
                                     n |-> split.n + 1]
    BY Zenon DEF NextArgument
  <2>3. split'.n = 0
        \/ (~(split.n >= SHELL_MAX_ARGUMENTS) /\ split'.n = split.n + 1)
    BY <2>2 DEF NoSplit
  <2>. QED
    BY <2>1, <2>3, ShellAssumption
<1>. QED
  BY <1>1, <1>2, <1>3 DEF IInv, TypeOK, ScreenShowsLine

LEMMA RunCommandKeeps ==
    ASSUME IInv, RunCommand
    PROVE  IInv'
<1>1. /\ typed' = typed /\ history' = history /\ line' = line
      /\ echoed' = echoed /\ escSeq' = escSeq /\ screen' = screen
      /\ garbled' = garbled /\ split' = NoSplit
      /\ pc' \in {"left", "apollo", "reading"}
  BY DEF RunCommand, lineVars
<1>. QED
  BY <1>1, ShellAssumption DEF IInv, TypeOK, ScreenShowsLine, NoSplit

LEMMA EscapesKeep ==
    ASSUME IInv,
           EscapeBegins \/ EscapeGoesOn \/ EscapeEnds \/ Nothing \/ Logout
    PROVE  IInv'
<1>1. /\ typed' = NoKey /\ history' = history /\ line' = line
      /\ echoed' = echoed /\ screen' = screen /\ garbled' = garbled
      /\ split' = split /\ pc' \in {pc, "left"}
      /\ escSeq' \in {escSeq, 0, 1, 2}
  BY DEF EscapeBegins, EscapeGoesOn, EscapeEnds, Nothing, Logout,
         ReadsPlainly, Reads, lineVars
<1>. QED
  BY <1>1 DEF IInv, TypeOK, ScreenShowsLine

LEMMA TaskKeeps ==
    ASSUME IInv, ShellStart \/ ShellThreadRun \/ ApolloEnds
    PROVE  IInv'
<1>1. CASE ShellStart
  BY <1>1 DEF ShellStart, lineVars, IInv, TypeOK, ScreenShowsLine
<1>2. CASE ShellThreadRun
  BY <1>2, NewLineKeeps DEF ShellThreadRun, IInv, TypeOK
<1>3. CASE ApolloEnds
  BY <1>3 DEF ApolloEnds, lineVars, IInv, TypeOK, ScreenShowsLine
<1>. QED
  BY <1>1, <1>2, <1>3

LEMMA StepKeeps ==
    ASSUME IInv, [Next]_vars
    PROVE  IInv'
<1>1. CASE UNCHANGED vars
  BY <1>1 DEF vars, lineVars, IInv, TypeOK, ScreenShowsLine
<1>2. CASE Next
  BY <1>2, CursorUpKeeps, BackspaceKeeps, CharacterKeeps, ReturnKeeps,
     NextArgumentKeeps, RunCommandKeeps, EscapesKeep, TaskKeeps
     DEF Next, GetLine
<1>. QED
  BY <1>1, <1>2

LEMMA Invariance == Spec => []IInv
<1>1. Init => IInv
  BY InitIInv
<1>2. IInv /\ [Next]_vars => IInv'
  BY StepKeeps
<1>. QED
  BY <1>1, <1>2, PTL DEF Spec

-----------------------------------------------------------------------------
(* While a line is split, the words before tokp are counted in n, and the  *)
(* command stands at cmd.                                                  *)

SplitSoFar ==
    pc = "splitting" =>
        /\ Remains(history, split.buf, split.tokp)
        /\ IF split.cmd = 0
           THEN split.tokp = 0 /\ Words(history) = {}
           ELSE /\ split.cmd \in Words(history)
                /\ \A i \in Words(history) : split.cmd <= i
                /\ CutOut(history, split.buf, split.cmd, split.tokp)
                /\ Cardinality(Before(history, split.tokp)) = split.n + 1

LEMMA WordsFinite ==
    ASSUME NEW s \in Seq(Printable), NEW t
    PROVE  /\ IsFiniteSet(Words(s)) /\ IsFiniteSet(Before(s, t))
           /\ Cardinality(Words(s)) \in Nat
           /\ Cardinality(Before(s, t)) <= Cardinality(Words(s))
<1>1. Words(s) \subseteq 1 .. Len(s) /\ Len(s) \in Nat
  BY DEF Words
<1>2. IsFiniteSet(1 .. Len(s))
  BY <1>1, FS_Interval
<1>3. IsFiniteSet(Words(s))
  BY <1>1, <1>2, FS_Subset
<1>4. Before(s, t) \in SUBSET Words(s)
  BY DEF Before
<1>. QED
  BY <1>3, <1>4, FS_Subset, FS_CardinalityType

\* The buffer as shellGetLine leaves it.
LEMMA BufferRemains ==
    ASSUME NEW s \in Seq(Printable)
    PROVE  Remains(s, Append(s, NUL), 1) /\ Before(s, 1) = {}
<1>. DEFINE T == Printable \cup {NUL}
<1>1. s \in Seq(T) /\ NUL \in T /\ Len(s) \in Nat
  BY SeqMonotonic
<1>2. /\ Append(s, NUL) \in Seq(T) /\ Len(Append(s, NUL)) = Len(s) + 1
      /\ \A i \in 1 .. Len(s) : Append(s, NUL)[i] = s[i]
      /\ Append(s, NUL)[Len(s) + 1] = NUL
  BY <1>1, AppendProperties
<1>3. Before(s, 1) = {}
  BY DEF Before, Words
<1>. QED
  BY <1>1, <1>2, <1>3 DEF Remains

LEMMA ReturnSplits ==
    ASSUME IInv, Return
    PROVE  SplitSoFar'
<1>1. line \in Seq(Printable)
  BY DEF IInv, TypeOK, Line
<1>2. PICK lp : lp = Strtok(Append(line, NUL), 1)
  OBVIOUS
<1>3. /\ history' = line
      /\ split'.buf = lp.buf /\ split'.tokp = lp.saveptr
      /\ split'.cmd = lp.token /\ split'.n = 0
  BY <1>2 DEF Return
<1>4. Remains(line, Append(line, NUL), 1) /\ Before(line, 1) = {}
  BY <1>1, BufferRemains
<1>5. CASE lp.token = 0
  <2>2. PICK b, t : b = Append(line, NUL) /\ t = 1
    OBVIOUS
  <2>4. Remains(line, b, t) /\ t # 0 /\ lp = Strtok(b, t) /\ lp.token = 0
    BY <1>2, <1>4, <1>5, <2>2
  <2>5. Before(line, t) = Words(line) /\ lp.saveptr = 0 /\ lp.buf = b
    BY ONLY <1>1, <2>4, StrtokEnds
  <2>1. /\ Before(line, 1) = Words(line) /\ lp.saveptr = 0
        /\ lp.buf = Append(line, NUL)
    BY <2>2, <2>5
  <2>3. Remains(line, lp.buf, 0)
    BY <1>4, <2>1 DEF Remains
  <2>. QED
    BY <1>3, <1>4, <1>5, <2>1, <2>3 DEF SplitSoFar
<1>6. CASE lp.token # 0
  <2>1. /\ lp.token \in Words(line) /\ Remains(line, lp.buf, lp.saveptr)
        /\ Before(line, lp.saveptr) = Before(line, 1) \cup {lp.token}
        /\ CutOut(line, lp.buf, lp.token, lp.saveptr)
        /\ lp.saveptr = 0 \/ lp.token < lp.saveptr
    BY <1>1, <1>2, <1>4, <1>6, StrtokCuts
  <2>0. Before(line, lp.saveptr) = {lp.token}
    BY <1>4, <2>1
  <2>2. Cardinality({lp.token}) = 0 + 1
    BY FS_Singleton
  <2>3. ASSUME NEW i \in Words(line) PROVE lp.token <= i
    <3>1. /\ i \in Nat /\ lp.token \in Nat
          /\ lp.saveptr \in 0 .. Len(line) + 1 /\ Len(line) \in Nat
      BY <1>1, <2>1 DEF Words, Remains
    <3>2. CASE lp.saveptr = 0 \/ i < lp.saveptr
      BY <2>0, <3>1, <3>2 DEF Before
    <3>3. CASE ~(lp.saveptr = 0 \/ i < lp.saveptr)
      BY <2>1, <3>1, <3>3
    <3>. QED
      BY <3>2, <3>3
  <2>. QED
    BY <1>3, <1>6, <2>0, <2>1, <2>2, <2>3 DEF SplitSoFar
<1>. QED
  BY <1>5, <1>6

\* One argument more is one word more.
LEMMA OneWordMore ==
    ASSUME TypeOK, pc = "splitting", SplitSoFar, NEW lp,
           lp = Strtok(split.buf, split.tokp), lp.token # 0
    PROVE  /\ split.cmd # 0 /\ split.cmd \in Words(history)
           /\ \A i \in Words(history) : split.cmd <= i
           /\ Remains(history, lp.buf, lp.saveptr)
           /\ CutOut(history, lp.buf, split.cmd, lp.saveptr)
           /\ Cardinality(Before(history, lp.saveptr)) = split.n + 1 + 1
<1>1. history \in Seq(Printable) /\ split.n \in Nat
  BY ShellAssumption DEF TypeOK, Line
<1>2. split.tokp # 0
  BY DEF Strtok
<1>3. /\ Remains(history, split.buf, split.tokp) /\ split.cmd # 0
      /\ split.cmd \in Words(history)
      /\ \A i \in Words(history) : split.cmd <= i
      /\ CutOut(history, split.buf, split.cmd, split.tokp)
      /\ Cardinality(Before(history, split.tokp)) = split.n + 1
  BY <1>2 DEF SplitSoFar
<1>4. split.cmd \in 1 .. Len(history)
  BY <1>1, <1>3 DEF Words
<1>5. CutOut(history, lp.buf, split.cmd, lp.saveptr)
  BY <1>1, <1>2, <1>3, <1>4, CutOutStays
<1>6. /\ Remains(history, lp.buf, lp.saveptr)
      /\ Before(history, lp.saveptr)
          = Before(history, split.tokp) \cup {lp.token}
      /\ lp.token \in split.tokp .. Len(history)
  <2>1. PICK b, t : b = split.buf /\ t = split.tokp
    OBVIOUS
  <2>2. /\ Remains(history, b, t) /\ t # 0
        /\ lp = Strtok(b, t) /\ lp.token # 0
    BY <1>2, <1>3, <2>1
  <2>3. /\ Remains(history, lp.buf, lp.saveptr)
        /\ Before(history, lp.saveptr) = Before(history, t) \cup {lp.token}
        /\ lp.token \in t .. Len(history)
    BY ONLY <1>1, <2>2, StrtokCuts
  <2>. QED
    BY <2>1, <2>3
<1>7. lp.token \notin Before(history, split.tokp)
  <2>1. /\ split.tokp \in Nat /\ split.tokp # 0 /\ Len(history) \in Nat
        /\ lp.token \in Nat /\ split.tokp <= lp.token
    BY <1>1, <1>2, <1>3, <1>6 DEF Remains
  <2>2. ~(split.tokp = 0 \/ lp.token < split.tokp)
    BY <2>1
  <2>. QED
    BY <2>2 DEF Before
<1>8. Cardinality(Before(history, lp.saveptr)) = split.n + 1 + 1
  <2>1. PICK S : S = Before(history, split.tokp)
    OBVIOUS
  <2>2. IsFiniteSet(S) /\ lp.token \notin S /\ Cardinality(S) = split.n + 1
    BY <1>1, <1>3, <1>7, <2>1, WordsFinite
  <2>3. Cardinality(S \cup {lp.token}) = Cardinality(S) + 1
    BY ONLY <2>2, FS_AddElement
  <2>. QED
    BY <1>6, <2>1, <2>2, <2>3
<1>. QED
  BY <1>3, <1>5, <1>6, <1>8

LEMMA NextArgumentSplits ==
    ASSUME IInv, SplitSoFar, AsTyped, NextArgument
    PROVE  (SplitSoFar /\ AsTyped)'
<1>1. PICK lp : lp = Strtok(split.buf, split.tokp)
  OBVIOUS
<1>2. /\ pc = "splitting" /\ lp.token # 0 /\ history' = history /\ TypeOK
      /\ history \in Seq(Printable)
      /\ split.n \in 0 .. SHELL_MAX_ARGUMENTS
  BY <1>1 DEF NextArgument, IInv, TypeOK, Line
<1>3. /\ split.cmd # 0 /\ split.cmd \in Words(history)
      /\ \A i \in Words(history) : split.cmd <= i
      /\ Remains(history, lp.buf, lp.saveptr)
      /\ CutOut(history, lp.buf, split.cmd, lp.saveptr)
      /\ Cardinality(Before(history, lp.saveptr)) = split.n + 1 + 1
  BY <1>1, <1>2, OneWordMore
<1>4. CASE split.n >= SHELL_MAX_ARGUMENTS
  <2>1. said' = "too many arguments" /\ pc' = "reading"
    BY <1>1, <1>4 DEF NextArgument
  <2>2. Cardinality(Words(history)) > SHELL_MAX_ARGUMENTS + 1
    BY <1>2, <1>3, <1>4, WordsFinite, ShellAssumption
  <2>. QED
    BY <1>2, <2>1, <2>2 DEF SplitSoFar, AsTyped
<1>5. CASE ~(split.n >= SHELL_MAX_ARGUMENTS)
  <2>0. /\ split' = [buf |-> lp.buf, tokp |-> lp.saveptr,
                     cmd |-> split.cmd, n |-> split.n + 1]
        /\ pc' = pc
    BY <1>1, <1>5, Zenon DEF NextArgument
  <2>1. /\ split'.buf = lp.buf /\ split'.tokp = lp.saveptr
        /\ split'.cmd = split.cmd /\ split'.n = split.n + 1
        /\ pc' = "splitting"
    BY <1>2, <2>0
  <2>. QED
    BY <1>2, <1>3, <2>1 DEF SplitSoFar, AsTyped
<1>. QED
  BY <1>4, <1>5

LEMMA RunCommandAsTyped ==
    ASSUME IInv, SplitSoFar, RunCommand
    PROVE  (SplitSoFar /\ AsTyped)'
<1>1. PICK lp : lp = Strtok(split.buf, split.tokp)
  OBVIOUS
<1>2. /\ pc = "splitting" /\ lp.token = 0 /\ history' = history
      /\ history \in Seq(Printable)
      /\ split.n \in 0 .. SHELL_MAX_ARGUMENTS
      /\ Remains(history, split.buf, split.tokp)
  BY <1>1 DEF RunCommand, IInv, TypeOK, Line, SplitSoFar
<1>3. pc' # "splitting"
  BY DEF RunCommand
<1>4. CASE split.cmd = 0
  <2>1. Words(history) = {} /\ said' = "nothing"
    BY <1>2, <1>4 DEF RunCommand, SplitSoFar
  <2>2. Cardinality(Words(history)) = 0
    BY <2>1, FS_EmptySet
  <2>. QED
    BY <1>2, <1>3, <2>1, <2>2 DEF SplitSoFar, AsTyped
<1>5. CASE split.cmd # 0
  <2>. DEFINE n == Cardinality(Words(history))
              first == WordFrom(history, Least(Words(history)))
  <2>1. /\ split.cmd \in Words(history)
        /\ \A i \in Words(history) : split.cmd <= i
        /\ CutOut(history, split.buf, split.cmd, split.tokp)
        /\ Cardinality(Before(history, split.tokp)) = split.n + 1
    BY <1>2, <1>5 DEF SplitSoFar
  <2>2. Before(history, split.tokp) = Words(history)
    <3>1. CASE split.tokp = 0
      BY <3>1 DEF Before
    <3>2. CASE split.tokp # 0
      BY <1>1, <1>2, <3>2, StrtokEnds
    <3>. QED
      BY <3>1, <3>2
  <2>3. n = split.n + 1
    BY <2>1, <2>2
  <2>4. SubSeq(split.buf, split.cmd, EndOfString(split.buf, split.cmd) - 1)
         = first
    BY <1>2, <2>1, FirstString
  <2>5. said' = Outcome(first)
    BY <1>5, <2>4 DEF RunCommand
  <2>6. AsTyped'
    <3>. PICK f : f = first
      OBVIOUS
    <3>. QED
      BY <1>2, <2>3, <2>5, ShellAssumption DEF AsTyped, Outcome
  <2>. QED
    BY <1>3, <2>6 DEF SplitSoFar
<1>. QED
  BY <1>4, <1>5

LEMMA SplitKeeps ==
    ASSUME IInv, SplitSoFar, AsTyped, [Next]_vars
    PROVE  (SplitSoFar /\ AsTyped)'
<1>1. CASE /\ UNCHANGED <<history, split, said>> /\ pc # "splitting"
           /\ pc' # "splitting"
  BY <1>1 DEF SplitSoFar, AsTyped
<1>2. CASE Return
  <2>1. pc' = "splitting"
    BY <1>2 DEF Return
  <2>. QED
    BY <1>2, <2>1, ReturnSplits DEF AsTyped
<1>3. CASE UNCHANGED vars
  BY <1>3 DEF vars, SplitSoFar, AsTyped
<1>4. CASE Next /\ ~Return /\ ~NextArgument /\ ~RunCommand
  <2>1. /\ UNCHANGED <<history, split, said>> /\ pc # "splitting"
        /\ pc' # "splitting"
    BY <1>4 DEF Next, GetLine, ShellStart, ShellThreadRun, ApolloEnds, Logout,
         EscapeBegins, EscapeGoesOn, EscapeEnds, CursorUp, Backspace,
         Character, Nothing, ReadsPlainly, Reads
  <2>. QED
    BY <1>1, <2>1
<1>. QED
  BY <1>2, <1>3, <1>4, NextArgumentSplits, RunCommandAsTyped DEF Next

LEMMA InitSplit == Init => SplitSoFar /\ AsTyped
<1>. SUFFICES ASSUME Init PROVE SplitSoFar /\ AsTyped
  OBVIOUS
<1>1. pc = "off" /\ history = <<>> /\ said = "nothing"
  BY DEF Init
<1>2. Words(history) = {}
  BY <1>1 DEF Words
<1>3. Cardinality(Words(history)) = 0
  BY <1>2, FS_EmptySet
<1>. QED
  BY <1>1, <1>3 DEF SplitSoFar, AsTyped

-----------------------------------------------------------------------------
(* Theorems.                                                               *)

\* shellGetLine and shellThreadRun write within line, history and args.
THEOREM TypeCorrect == Spec => []TypeOK
<1>1. IInv => TypeOK
  BY DEF IInv
<1>. QED
  BY <1>1, Invariance, PTL

\* The terminal shows the line as far as it has been echoed, unless cursor up
\* has garbled it.
THEOREM ScreenRight == Spec => []ScreenShowsLine
<1>1. IInv => ScreenShowsLine
  BY DEF IInv
<1>. QED
  BY <1>1, Invariance, PTL

\* A line is split into its words, and does what they say, wherever its spaces
\* are and whichever names the commands have.
THEOREM DoneAsTyped == Spec => []AsTyped
<1>1. IInv /\ SplitSoFar /\ AsTyped /\ [Next]_vars
       => (SplitSoFar /\ AsTyped)'
  BY SplitKeeps
<1>2. Init => SplitSoFar /\ AsTyped
  BY InitSplit
<1>. QED
  BY <1>1, <1>2, Invariance, PTL DEF Spec

\* Cursor up garbles it only if characters were held back or room was short.
THEOREM GarbledByCursorUp == Spec => GarbledOnlyIf
<1>. DEFINE Because == \/ echoed < Len(line)
                      \/ Len(line) + Len(history) >= SHELL_MAX_LINE_LENGTH
<1>1. ASSUME IInv, [Next]_vars, ~garbled, garbled'
      PROVE  Because
  <2>1. /\ line \in Seq(Printable) /\ history \in Seq(Printable)
        /\ echoed \in 0 .. Len(line)
    BY <1>1 DEF IInv, TypeOK, Line
  <2>2. CursorUp
    BY <1>1 DEF Next, GetLine, vars, lineVars, ShellStart, ShellThreadRun,
         NextArgument, RunCommand, ApolloEnds, Logout, EscapeBegins,
         EscapeGoesOn, EscapeEnds, Backspace, Character, Nothing, Return,
         NewLine
  <2>3. SUFFICES ASSUME echoed = Len(line),
                        Len(line) + Len(history) < SHELL_MAX_LINE_LENGTH
                 PROVE  FALSE
    BY <2>1, ShellAssumption
  <2>4. screen = line
    BY <1>1, <2>1, <2>3, SubSeqFull DEF IInv, ScreenShowsLine
  <2>5. Fitting(history) = history
    BY <2>1, <2>3, ShellAssumption DEF Fitting
  <2>. QED
    BY <1>1, <2>2, <2>4, <2>5 DEF CursorUp
<1>2. IInv /\ [Next]_vars => [~garbled /\ garbled' => Because]_vars
  BY <1>1
<1>. QED
  BY <1>2, Invariance, PTL DEF Spec, GarbledOnlyIf
=============================================================================
